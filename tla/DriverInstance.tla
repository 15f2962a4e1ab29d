--------------------------- MODULE DriverInstance ---------------------------
(***************************************************************************)
(* The operator's DriverInstance controller                                *)
(* (pkg/csi-operator/internal/controller/driverinstance_controller.go)     *)
(* with the objects that make up the driver's deployment                   *)
(* (pkg/csi-operator/internal/helpers/helpers.go).                         *)
(*                                                                         *)
(* Reconcile goes through the list of objects, one after the other: it     *)
(* creates or patches each, or, once the DriverInstance is being deleted,  *)
(* takes its finalizer off, in reverse order.  Every request is a step, so *)
(* that users, the garbage collector and a crash may come between any two. *)
(* One mutex keeps reconciliations apart.  There is one DriverInstance,    *)
(* whose namespace users do not change; the two ClusterRoles, and their    *)
(* bindings, are handled like one.                                         *)
(***************************************************************************)
EXTENDS Naturals, Sequences

CONSTANTS
    Kinds,        \* the objects that an instance of this model has
    Labels,       \* values of the additional labels of a DriverInstance
    Configs,      \* values of the rest of its specification (images, node selector...)
    UserSpecs,    \* the specifications users give to it
    Strayed,      \* objects that are deleted or edited behind the operator's back
    FaultKinds,   \* "api" (a request fails without effect), "crash"
    MaxCreates,   \* bound on how often the DriverInstance is created
    MaxEdits,     \* bound on how often it is edited
    MaxTroubles   \* bound on failing requests, crashes, and what is done behind
                  \* the operator's back, taken together

(***************************************************************************)
(* What the objects are made from: whether they depend on more of the      *)
(* specification than its labels, and the objects that they refer to.      *)
(***************************************************************************)
GetNamespaceConfiguration == [configured |-> FALSE, refs |-> {}]
GetServiceAccountConfiguration == [configured |-> FALSE, refs |-> {"namespace"}]
GetRolesConfiguration == [configured |-> FALSE, refs |-> {"namespace"}]
GetRoleBindingsConfiguration ==
    [configured |-> FALSE, refs |-> {"namespace", "serviceAccount", "role"}]
GetClusterRolesConfiguration == [configured |-> FALSE, refs |-> {}]
GetClusterRoleBindingsConfiguration ==
    [configured |-> FALSE, refs |-> {"serviceAccount", "clusterRole"}]
GetCSIDriverConfiguration == [configured |-> FALSE, refs |-> {}]
GetConfigMapConfiguration == [configured |-> TRUE, refs |-> {"namespace"}]
GetControllerDeploymentConfiguration ==
    [configured |-> TRUE, refs |-> {"namespace", "serviceAccount", "configMap"}]
GetNodeDaemonSetConfiguration ==
    [configured |-> TRUE, refs |-> {"namespace", "serviceAccount", "configMap"}]

Configuration ==
    [namespace |-> GetNamespaceConfiguration,
     serviceAccount |-> GetServiceAccountConfiguration,
     role |-> GetRolesConfiguration,
     roleBinding |-> GetRoleBindingsConfiguration,
     clusterRole |-> GetClusterRolesConfiguration,
     clusterRoleBinding |-> GetClusterRoleBindingsConfiguration,
     csiDriver |-> GetCSIDriverConfiguration,
     configMap |-> GetConfigMapConfiguration,
     deployment |-> GetControllerDeploymentConfiguration,
     daemonSet |-> GetNodeDaemonSetConfiguration]

Namespaced == {o \in Kinds : "namespace" \in Configuration[o].refs}
Workloads == {"deployment", "daemonSet"} \cap Kinds    \* no finalizer; selector cannot change

\* The place of an object in the list, if the model has it.
Place(o) == IF o \in Kinds THEN <<o>> ELSE <<>>

getObjectsList_ConfigMapLast ==
    Place("namespace") \o Place("serviceAccount") \o Place("role") \o Place("roleBinding")
      \o Place("clusterRole") \o Place("clusterRoleBinding") \o Place("csiDriver")
      \o Place("deployment") \o Place("daemonSet") \o Place("configMap")

\* All of the driver's objects, in the order in which they are handled.
getObjectsList ==
    Place("namespace") \o Place("serviceAccount") \o Place("role") \o Place("roleBinding")
      \o Place("clusterRole") \o Place("clusterRoleBinding") \o Place("csiDriver")
      \o Place("configMap") \o Place("deployment") \o Place("daemonSet")

Total == Len(getObjectsList)

ASSUME DriverAssumption ==
    /\ Kinds \subseteq DOMAIN Configuration /\ "namespace" \in Kinds
    /\ UserSpecs \subseteq [labels : Labels, cfg : Configs]
    /\ Strayed \subseteq Kinds
    /\ MaxCreates \in Nat /\ MaxEdits \in Nat /\ MaxTroubles \in Nat

VARIABLES
    di,      \* the DriverInstance in the API server
    obj,     \* the objects of the driver's deployment
    rec,     \* local variables of the running Reconcile
    drifted, \* history: objects whose contents somebody else has edited, without
             \* an event that passes the filter, since Reconcile last read them
    queue,   \* whether the DriverInstance is in the work queue
    used     \* how much of each bound has been used

vars == <<di, obj, rec, drifted, queue, used>>

Uids == 0..MaxCreates
NoSpec == [labels |-> 0, cfg |-> 0]

\* uid tells a DriverInstance from a later one of the same name; 0 is none.
Resource == [uid : Uids, deleting : BOOLEAN, fin : BOOLEAN, spec : UserSpecs \cup {NoSpec}]
NoResource == [uid |-> 0, deleting |-> FALSE, fin |-> FALSE, spec |-> NoSpec]
Present == di # NoResource

\* owner is the uid of the DriverInstance the object belongs to, sel the labels
\* by which a workload selects its pods.
Object == [state : {"live", "terminating"}, fin : BOOLEAN, owner : Uids \ {0},
           labels : Labels, cfg : Configs \cup {0}, sel : Labels \cup {0}]
Absent == [state |-> "none"]
Exists(o) == obj[o] # Absent

(***************************************************************************)
(* Reconcile's copy of the DriverInstance, the place in the list, and the  *)
(* object as it was read.                                                  *)
(***************************************************************************)
Locals == [pc : {"idle", "finalizer", "get", "apply", "release"}, di : Resource,
           n : 1..Total, seen : Object \cup {Absent}]
IdleRec == [pc |-> "idle", di |-> NoResource, n |-> 1, seen |-> Absent]

\* The type of every variable.
TypeOK ==
    /\ di \in Resource
    /\ obj \in [Kinds -> Object \cup {Absent}]
    /\ rec \in Locals
    /\ drifted \in SUBSET Kinds
    /\ queue \in BOOLEAN
    /\ used \in [creates : Nat, edits : Nat, troubles : Nat]

Init ==
    /\ di = NoResource
    /\ obj = [o \in Kinds |-> Absent]
    /\ rec = IdleRec
    /\ drifted = {}
    /\ queue = FALSE
    /\ used = [creates |-> 0, edits |-> 0, troubles |-> 0]

-----------------------------------------------------------------------------
UseUp(b, max) == used[b] < max /\ used' = [used EXCEPT ![b] = @ + 1]
Trouble == UseUp("troubles", MaxTroubles)
Fault(k) == k \in FaultKinds /\ Trouble

At(pc) == rec.pc = pc
Return_NotRepeated(requeue) == rec' = IdleRec /\ queue' = queue

Return(requeue) == rec' = IdleRec /\ queue' = (queue \/ requeue)

Noticed_DeletionsFiltered(o, x) ==
    /\ obj[o] # Absent /\ x # Absent
    /\ x.labels # obj[o].labels \/ (o \in Workloads /\ x.cfg # obj[o].cfg)

(***************************************************************************)
(* The event filter of SetupWithManager lets an owned object queue its     *)
(* DriverInstance when it is gone, when its labels change, or when its     *)
(* generation changes, which only workloads have.                          *)
(***************************************************************************)
Noticed(o, x) ==
    /\ obj[o] # Absent
    /\ \/ x = Absent
       \/ x.labels # obj[o].labels
       \/ o \in Workloads /\ x.cfg # obj[o].cfg

Becomes(o, x) ==
    /\ obj' = [obj EXCEPT ![o] = x]
    /\ queue' = (queue \/ Noticed(o, x))

\* Deleting an object that has a finalizer, or a namespace with its contents,
\* only marks it.
Deleted(o) ==
    IF obj[o].fin \/ o = "namespace" THEN [obj[o] EXCEPT !.state = "terminating"] ELSE Absent

-----------------------------------------------------------------------------
(***************************************************************************)
(* Reconcile                                                               *)
(***************************************************************************)
ReconcileSkip ==
    /\ At("idle") /\ queue
    /\ ~Present
    /\ queue' = FALSE
    /\ UNCHANGED <<di, obj, rec, used, drifted>>

ReconcileGetFails ==
    /\ At("idle") /\ queue
    /\ Fault("api")
    /\ UNCHANGED <<di, obj, rec, queue, drifted>>

ReconcileStart ==
    /\ At("idle") /\ queue
    /\ Present
    /\ queue' = FALSE
    /\ rec' = [IdleRec EXCEPT !.pc = IF di.deleting \/ di.fin THEN "get" ELSE "finalizer",
                              !.di = di]
    /\ UNCHANGED <<di, obj, used, drifted>>

\* The patch answers with the DriverInstance as it is now, which may be a later
\* one of the same name.  Its event is filtered out.
AddFinalizer ==
    /\ At("finalizer")
    /\ Present
    /\ di' = [di EXCEPT !.fin = TRUE]
    /\ rec' = [rec EXCEPT !.pc = "get", !.di = di']
    /\ UNCHANGED <<obj, queue, used, drifted>>

\* A failure to add the finalizer is only logged.
AddFinalizerFails ==
    /\ At("finalizer")
    /\ (~Present /\ UNCHANGED used) \/ Fault("api")
    /\ rec' = [rec EXCEPT !.pc = "get"]
    /\ UNCHANGED <<di, obj, queue, drifted>>

\* The list is gone through backwards when the DriverInstance is deleted.
Current == getObjectsList[IF rec.di.deleting THEN Total + 1 - rec.n ELSE rec.n]

\* What depends on the specification, apart from labels; 0 stands for contents
\* that are the same for all.
Contents(o, spec) == IF Configuration[o].configured THEN spec.cfg ELSE 0

Wanted_FinalizerOnAll(o) ==
    [state |-> "live", fin |-> TRUE, owner |-> rec.di.uid, labels |-> rec.di.spec.labels,
     cfg |-> Contents(o, rec.di.spec),
     sel |-> IF o \in Workloads THEN rec.di.spec.labels ELSE 0]

\* The object as the configuration functions and handleObject prepare it.
Wanted(o) ==
    [state |-> "live", fin |-> o \notin Workloads, owner |-> rec.di.uid,
     labels |-> rec.di.spec.labels,
     cfg |-> Contents(o, rec.di.spec),
     sel |-> IF o \in Workloads THEN rec.di.spec.labels ELSE 0]

Advanced_OneTooFar ==
    IF rec.n <= Total THEN [rec EXCEPT !.pc = "get", !.n = @ + 1, !.seen = Absent]
    ELSE IF rec.di.deleting THEN [rec EXCEPT !.pc = "release", !.seen = Absent]
    ELSE IdleRec

\* On to the next object; after the last one the finalizer goes, or all is done.
Advanced ==
    IF rec.n < Total THEN [rec EXCEPT !.pc = "get", !.n = @ + 1, !.seen = Absent]
    ELSE IF rec.di.deleting THEN [rec EXCEPT !.pc = "release", !.seen = Absent]
    ELSE IdleRec

\* handleObject reads the object.  A DriverInstance that is being deleted leaves
\* alone what is gone, workloads, and what has lost its finalizer already.
GetObject ==
    LET x == obj[Current]
    IN /\ At("get")
       /\ rec' = IF rec.di.deleting /\ (x = Absent \/ Current \in Workloads \/ ~x.fin)
                 THEN Advanced
                 ELSE [rec EXCEPT !.pc = "apply", !.seen = x]
       /\ drifted' = drifted \ {Current}
       /\ UNCHANGED <<di, obj, queue, used>>

GetObjectFails ==
    /\ At("get")
    /\ Fault("api")
    /\ Return(TRUE)
    /\ UNCHANGED <<di, obj, drifted>>

(***************************************************************************)
(* The request that follows the read: if the API server accepts it, the    *)
(* object becomes x; an error ends Reconcile, which is then repeated.  (A  *)
(* request that takes effect but whose answer is lost ends Reconcile as    *)
(* well, which is what a crash right after the request does.)              *)
(***************************************************************************)
Write_ErrorIgnored(accepted, x) ==
    /\ rec' = Advanced
    /\ \/ accepted /\ Becomes(Current, x) /\ UNCHANGED used
       \/ /\ (~accepted /\ UNCHANGED used) \/ Fault("api")
          /\ UNCHANGED <<obj, queue>>
    /\ UNCHANGED <<di, drifted>>

Write(accepted, x) ==
    /\ \/ accepted /\ Becomes(Current, x) /\ rec' = Advanced /\ UNCHANGED used
       \/ /\ (~accepted /\ UNCHANGED used) \/ Fault("api")
          /\ Return(TRUE) /\ UNCHANGED obj
    /\ UNCHANGED <<di, drifted>>

\* Refused when the object was created meanwhile, or its namespace is going.
CreateObject ==
    /\ At("apply") /\ ~rec.di.deleting
    /\ rec.seen = Absent
    /\ Write(/\ ~Exists(Current)
             /\ Current \in Namespaced => obj["namespace"].state = "live",
             Wanted(Current))

\* A merge patch sends only what differs from the object that was read; the rest
\* stays as it is by now.  Refused when the object is gone, when it would change
\* the selector of a workload, or add a finalizer to what is being deleted.
Merged(seen, want, now) ==
    [f \in DOMAIN now |-> IF f # "state" /\ want[f] # seen[f] THEN want[f] ELSE now[f]]

PatchObject ==
    LET x == Merged(rec.seen, Wanted(Current), obj[Current])
    IN /\ At("apply") /\ ~rec.di.deleting
       /\ rec.seen # Absent
       /\ Write(/\ Exists(Current)
                /\ x.sel = obj[Current].sel
                /\ obj[Current].state = "terminating" => x.fin = obj[Current].fin,
                x)

\* An Update with the version that was read: refused when it is not the last.
ReleaseObject ==
    /\ At("apply") /\ rec.di.deleting
    /\ Write(obj[Current] = rec.seen, [rec.seen EXCEPT !.fin = FALSE])

RemoveFinalizer ==
    /\ At("release")
    /\ di' = NoResource
    /\ Return(TRUE)
    /\ UNCHANGED <<obj, used, drifted>>

RemoveFinalizerFails ==
    /\ At("release")
    /\ Fault("api")
    /\ Return(TRUE)
    /\ UNCHANGED <<di, obj, drifted>>

Reconcile ==
    \/ ReconcileSkip \/ ReconcileStart \/ AddFinalizer \/ AddFinalizerFails
    \/ GetObject \/ CreateObject \/ PatchObject \/ ReleaseObject \/ RemoveFinalizer

\* The restarted operator lists the DriverInstances, which queues this one.
OperatorCrash ==
    /\ Fault("crash")
    /\ rec' = IdleRec
    /\ queue' = Present
    /\ UNCHANGED <<di, obj, drifted>>

OperatorFaults == ReconcileGetFails \/ GetObjectFails \/ RemoveFinalizerFails \/ OperatorCrash

-----------------------------------------------------------------------------
(***************************************************************************)
(* Users.  What they do to the DriverInstance is an event.                 *)
(***************************************************************************)
CreateInstance ==
    /\ ~Present
    /\ UseUp("creates", MaxCreates)
    /\ \E s \in UserSpecs :
          di' = [uid |-> used.creates + 1, deleting |-> FALSE, fin |-> FALSE, spec |-> s]
    /\ queue' = TRUE
    /\ UNCHANGED <<obj, rec, drifted>>

EditInstance ==
    /\ Present
    /\ UseUp("edits", MaxEdits)
    /\ \E s \in UserSpecs \ {di.spec} : di' = [di EXCEPT !.spec = s]
    /\ queue' = TRUE
    /\ UNCHANGED <<obj, rec, drifted>>

\* Without its finalizer it disappears at once.
DeleteInstance ==
    /\ Present /\ ~di.deleting
    /\ di' = IF di.fin THEN [di EXCEPT !.deleting = TRUE] ELSE NoResource
    /\ queue' = TRUE
    /\ UNCHANGED <<obj, rec, used, drifted>>

UserNext == CreateInstance \/ EditInstance \/ DeleteInstance

\* An object is deleted or edited by somebody else.
StrayDelete(o) ==
    /\ o \in Strayed /\ Exists(o) /\ obj[o].state = "live"
    /\ Trouble
    /\ Becomes(o, Deleted(o))
    /\ UNCHANGED <<di, rec, drifted>>

\* An edit of labels, or of the contents (the specification of a workload, the
\* data of a ConfigMap, the rules of a role): the latter passes the event filter
\* for workloads only.
StrayEdit(o) ==
    /\ o \in Strayed /\ Exists(o)
    /\ Trouble
    /\ \/ /\ \E l \in Labels \ {obj[o].labels} : Becomes(o, [obj[o] EXCEPT !.labels = l])
          /\ UNCHANGED drifted
       \/ /\ \E c \in Configs \ {obj[o].cfg} : Becomes(o, [obj[o] EXCEPT !.cfg = c])
          /\ drifted' = IF o \in Workloads THEN drifted ELSE drifted \cup {o}
    /\ UNCHANGED <<di, rec>>

(***************************************************************************)
(* The cluster: what belongs to a DriverInstance that is gone is deleted,  *)
(* so is what is in a namespace that is deleted, and what is deleted goes  *)
(* when it has no finalizer, a namespace last.                             *)
(***************************************************************************)
CollectGarbage(o) ==
    /\ Exists(o) /\ obj[o].state = "live" /\ obj[o].owner # di.uid
    /\ Becomes(o, Deleted(o))
    /\ UNCHANGED <<di, rec, used, drifted>>

EmptyNamespace(o) ==
    /\ o \in Namespaced /\ Exists(o) /\ obj[o].state = "live"
    /\ obj["namespace"].state = "terminating"
    /\ Becomes(o, Deleted(o))
    /\ UNCHANGED <<di, rec, used, drifted>>

Vanish(o) ==
    /\ Exists(o) /\ obj[o].state = "terminating" /\ ~obj[o].fin
    /\ o = "namespace" => \A p \in Namespaced : ~Exists(p)
    /\ Becomes(o, Absent)
    /\ UNCHANGED <<di, rec, used, drifted>>

ClusterStep == \E o \in Kinds : CollectGarbage(o) \/ EmptyNamespace(o) \/ Vanish(o)

Next ==
    \/ Reconcile \/ OperatorFaults \/ UserNext \/ ClusterStep
    \/ \E o \in Kinds : StrayDelete(o) \/ StrayEdit(o)

Spec == Init /\ [][Next]_vars

\* The work queue is served, and the cluster's own controllers run.
FairSpec == Spec /\ WF_vars(Reconcile) /\ WF_vars(ClusterStep)

-----------------------------------------------------------------------------
(***************************************************************************)
(* Properties                                                              *)
(***************************************************************************)
\* Every object exists, belongs to the DriverInstance and is as it says, but for
\* contents that were edited where the controller does not look.
Deployed ==
    \A o \in Kinds :
        /\ Exists(o)
        /\ obj[o].owner = di.uid /\ obj[o].labels = di.spec.labels
        /\ o \notin drifted => obj[o].cfg = Contents(o, di.spec)

Wants == Present /\ ~di.deleting

\* SAFETY.  The controller comes to rest with a DriverInstance present only when
\* every object exists, belongs to it and is configured as it says: no request
\* that failed or was lost, no deletion or edit of labels or workloads behind its
\* back, no garbage collection of an earlier driver's objects and no crash goes
\* unnoticed (the requeue of lines 106-108 and the event filter, lines 223-233).
\* Contents of other objects (a ConfigMap's data, a role's rules) are right when
\* nobody else has edited them since the last reconciliation read them: such an
\* edit does not pass the filter.
SettledMeansDeployed == At("idle") /\ ~queue /\ Wants => Deployed

\* ACTION.  When an object is created, everything it refers to is there: its
\* namespace, the service account and role of a binding, the service account
\* and ConfigMap of a pod template (the order of getObjectsList, lines 123-147,
\* and the finalizers of line 159, which keep what was created before).
CreatedAfterItsRefs ==
    [][ \A o \in Kinds :
          ~Exists(o) /\ obj'[o] # Absent =>
             \A p \in Configuration[o].refs \cap Kinds : Exists(p) ]_vars

\* ACTION.  A deleted DriverInstance keeps its finalizer until none of its
\* objects has one, since nobody else would take it off (lines 104-118).
ReleasedLast ==
    [][ Present /\ di.deleting /\ di'.uid # di.uid =>
          \A o \in Kinds : Exists(o) => ~obj[o].fin ]_vars

\* A namespace that was deleted by somebody else takes no new objects, and the
\* labels of a specification cannot be changed once they select the pods.
Stuck ==
    \/ obj["namespace"].state = "terminating"
    \/ \E o \in Workloads : Exists(o) /\ obj[o].sel # di.spec.labels

\* LIVENESS.  A DriverInstance that stays gets its driver, unless it is stuck.
DriverDeployed == Wants ~> (~Wants \/ Deployed \/ Stuck)

\* LIVENESS.  Deleting a DriverInstance that has its finalizer removes the whole
\* driver, what an earlier one may have left behind included, unless it is
\* created again (README.md:109).
DriverRemoved == (Present /\ di.deleting) ~> (Wants \/ \A o \in Kinds : ~Exists(o))
=============================================================================
