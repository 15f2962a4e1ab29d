-------------------------- MODULE ControllerServer --------------------------
(***************************************************************************)
(* The CSI controller server (pkg/csi-driver/controller.go) for ONE        *)
(* volume, with the API objects it keeps (pkg/k8sutils/k8sutils.go) and    *)
(* the admission webhook that guards them (pkg/webhook/main.go).           *)
(*                                                                         *)
(* A volume has a backend PVC, and an intermediate Pod for each node it is *)
(* attached to.  The Pod is what brings the backend device to the node.    *)
(* Both kinds of object are created with a label, on account of which the  *)
(* webhook rejects every deletion, and both are deleted in the same two    *)
(* steps: take the label off, then delete.  They are therefore modelled    *)
(* alike: the key Backend stands for the PVC, the key n for the Pod on     *)
(* node n; "create" is CreateVolume resp. ControllerPublishVolume,         *)
(* "delete" is DeleteVolume resp. ControllerUnpublishVolume.               *)
(*                                                                         *)
(* A handler works under the mutex of the volume and makes one call of the *)
(* API server per step.  The sidecars (provisioner, attacher) give up on   *)
(* calls that take too long and repeat them; the handlers go on.  The      *)
(* mutex is a sync.Mutex: it is taken in the order of arrival, but a call  *)
(* that comes just when it is released may take it first.                  *)
(***************************************************************************)
EXTENDS Naturals, Sequences

CONSTANTS
    Nodes,         \* the nodes the volume may be attached to
    Backend,       \* the key of the backend PVC
    FaultKinds,    \* "api", "lost", "slow", "watch", "timeout", "crash", "stray", "overtake"
    MaxFaults,     \* bound on what goes wrong
    MaxAttaches    \* bound on requests to attach the volume

ASSUME ControllerAssumption ==
    Backend \notin Nodes /\ MaxFaults \in Nat /\ MaxAttaches \in Nat

Keys == Nodes \cup {Backend}

VARIABLES
    obj,      \* the objects in the protected namespace
    handler,  \* the call that holds the mutex of the volume
    waiting,  \* the calls that wait for it, in order of arrival
    know,     \* what the sidecars believe of each object, and want of it
    calls,    \* keys for which a sidecar waits for the answer to a call
    overtaken,\* history: keys of which a call overtook an earlier one
    used      \* how much of each bound has been used

vars == <<obj, handler, waiting, know, calls, overtaken, used>>

(***************************************************************************)
(* "pending" is a PVC not bound yet or a Pod not running yet; "live" is    *)
(* bound resp. running; a deleted object stays until the cluster is done   *)
(* with it: it is "terminating" if it was live, "dropped" if it never was. *)
(* label is the protection.                                                *)
(***************************************************************************)
States == {"none", "pending", "live", "terminating", "dropped"}
GoneOrGoing == {"none", "terminating", "dropped"}
Object == [state : States, label : BOOLEAN]
Gone == [state |-> "none", label |-> FALSE]
Exists(k) == obj[k].state # "none"

Ops == {"create", "delete"}
Calls == [op : Ops, key : Keys, live : BOOLEAN]
IdleHandler == [pc |-> "idle"]

\* A call, with the step it is at: only the creation of a Pod has more steps
\* than looking and creating, and it can end by deleting the Pod again.
Handler ==
    {IdleHandler}
      \cup [op : {"create"}, key : {Backend}, live : BOOLEAN, pc : {"enter", "create"}]
      \cup [op : {"create"}, key : Nodes, live : BOOLEAN,
            pc : {"enter", "create", "wait", "refresh", "unlabel", "delete"}]
      \cup [op : {"delete"}, key : Keys, live : BOOLEAN, pc : {"enter", "unlabel", "delete"}]

\* The type of every variable.
TypeOK ==
    /\ obj \in [Keys -> Object]
    /\ handler \in Handler
    /\ waiting \in Seq(Calls)
    /\ know \in [Keys -> {"none", "creating", "there", "deleting"}]
    /\ calls \in SUBSET Keys
    /\ overtaken \in SUBSET Keys
    /\ used \in [faults : Nat, attaches : Nat]

Init ==
    /\ obj = [k \in Keys |-> Gone]
    /\ handler = IdleHandler
    /\ waiting = <<>>
    /\ know = [k \in Keys |-> IF k = Backend THEN "creating" ELSE "none"]
    /\ calls = {}
    /\ overtaken = {}
    /\ used = [faults |-> 0, attaches |-> 0]

-----------------------------------------------------------------------------
sidecarVars == <<waiting, know, calls, overtaken>>

Use(b, max) == used[b] < max /\ used' = [used EXCEPT ![b] = @ + 1]
Fault(f) == f \in FaultKinds /\ Use("faults", MaxFaults)

At(op, pc) == handler.pc = pc /\ handler.op = op
Goto(pc) == handler' = [handler EXCEPT !.pc = pc] /\ UNCHANGED sidecarVars

\* The answer to a call: a sidecar that still waits for it notes a success,
\* and repeats the call otherwise.
Reply(ok) ==
    /\ handler' = IdleHandler
    /\ calls' = IF handler.live THEN calls \ {handler.key} ELSE calls
    /\ know' = IF handler.live /\ ok
               THEN [know EXCEPT ![handler.key] = IF handler.op = "create" THEN "there" ELSE "none"]
               ELSE know
    /\ UNCHANGED <<waiting, overtaken>>

\* The mutex is free: the first of the waiting calls gets it, or the call that
\* came last, if that is still running while the first has yet to wake up.
LockKey ==
    /\ handler = IdleHandler
    /\ \E n \in {1, Len(waiting)} :
         /\ n \in 1..Len(waiting)
         /\ IF n = 1 THEN UNCHANGED used ELSE Fault("overtake")
         /\ handler' = [op |-> waiting[n].op, key |-> waiting[n].key,
                        live |-> waiting[n].live, pc |-> "enter"]
         /\ waiting' = SubSeq(waiting, 1, n - 1) \o SubSeq(waiting, n + 1, Len(waiting))
         /\ overtaken' = overtaken \cup {waiting[m].key : m \in
                             {l \in 1..n - 1 : waiting[l].key = waiting[n].key}}
    /\ UNCHANGED <<obj, know, calls>>

-----------------------------------------------------------------------------
(***************************************************************************)
(* What the API server does with an object: Validate of the webhook is     *)
(* asked about every deletion, whoever asks for it.                        *)
(***************************************************************************)
Validate_PvcOnly(k) == k # Backend \/ ~obj[k].label

Validate(k) == ~obj[k].label

\* CreateSubproviderPvc and CreateIntermediatePod create the object labelled.
Created(k) == [obj EXCEPT ![k] = [state |-> "pending", label |-> TRUE]]
Unlabelled(k) == [obj EXCEPT ![k] = [obj[k] EXCEPT !.label = FALSE]]
Deleted(k) ==
    IF Exists(k) /\ Validate(k)
    THEN [obj EXCEPT ![k] = [obj[k] EXCEPT !.state =
                               IF @ \in {"pending", "dropped"} THEN "dropped" ELSE "terminating"]]
    ELSE obj

(***************************************************************************)
(* CreateVolume: a PVC that exists is used as it is.                       *)
(***************************************************************************)
CreateVolume ==
    /\ At("create", "enter") /\ handler.key = Backend
    /\ \/ (IF Exists(Backend) THEN Reply(TRUE) ELSE Goto("create")) /\ UNCHANGED used
       \/ Fault("api") /\ Reply(FALSE)
    /\ UNCHANGED obj

CreateSubproviderPvc_Waits ==
    /\ At("create", "create") /\ handler.key = Backend
    /\ obj' = Created(Backend)
    /\ Goto("wait") /\ UNCHANGED used

\* An answer that is lost leaves the object behind.
CreateSubproviderPvc ==
    /\ At("create", "create") /\ handler.key = Backend
    /\ \/ obj' = Created(Backend) /\ Reply(TRUE) /\ UNCHANGED used
       \/ Fault("api") /\ UNCHANGED obj /\ Reply(FALSE)
       \/ Fault("lost") /\ obj' = Created(Backend) /\ Reply(FALSE)

ControllerPublishVolume_ExistingRefused ==
    /\ At("create", "enter") /\ handler.key # Backend
    /\ IF ~Exists(Backend) \/ Exists(handler.key) THEN Reply(FALSE) ELSE Goto("create")
    /\ UNCHANGED <<obj, used>>

(***************************************************************************)
(* ControllerPublishVolume: needs the PVC; a Pod that exists is used as it *)
(* is, running or not.                                                     *)
(***************************************************************************)
ControllerPublishVolume ==
    /\ At("create", "enter") /\ handler.key # Backend
    /\ \/ /\ CASE ~Exists(Backend)    -> Reply(FALSE)
               [] Exists(Backend) /\ ~Exists(handler.key) -> Goto("create")
               [] Exists(Backend) /\ Exists(handler.key)  -> Goto("refresh")
          /\ UNCHANGED used
       \/ Fault("api") /\ Reply(FALSE)
    /\ UNCHANGED obj

CreateIntermediatePod ==
    /\ At("create", "create") /\ handler.key # Backend
    /\ \/ obj' = Created(handler.key) /\ Goto("wait") /\ UNCHANGED used
       \/ Fault("api") /\ UNCHANGED obj /\ Reply(FALSE)
       \/ Fault("lost") /\ obj' = Created(handler.key) /\ Reply(FALSE)

\* A Pod can run once its backend is bound and held by no other node.
Startable(k) ==
    /\ obj[k].state = "pending"
    /\ obj[Backend].state \in {"live", "terminating"}
    /\ \A m \in Nodes \ {k} : obj[m].state \notin {"live", "terminating"}

\* CreateIntermediatePod waits for the Pod to run.  It gives up after two
\* minutes; it also stops waiting when the watch is closed, but then without
\* an error.  In both cases it tries to delete the Pod, label and all.
WaitForPod ==
    LET k == handler.key
    IN /\ At("create", "wait")
       /\ \/ obj[k].state = "live" /\ Goto("refresh") /\ UNCHANGED <<obj, used>>
          \/ /\ obj[k].state # "live"
             /\ Fault("slow") \/ (~Startable(k) /\ UNCHANGED used)
             /\ obj' = Deleted(k) /\ Goto("unlabel")
          \/ obj[k].state # "live" /\ Fault("watch") /\ obj' = Deleted(k) /\ Goto("refresh")
          \/ Fault("watch") /\ UNCHANGED obj /\ Goto("unlabel")

\* The PVC is read again: publishing needs the PV it is bound to.
RefreshPvc ==
    /\ At("create", "refresh")
    /\ \/ Reply(obj[Backend].state \in {"live", "terminating"}) /\ UNCHANGED used
       \/ Fault("api") /\ Reply(FALSE)
    /\ UNCHANGED obj

(***************************************************************************)
(* DeleteVolume and ControllerUnpublishVolume: what does not exist is      *)
(* deleted already.                                                        *)
(***************************************************************************)
DeleteEnter(k) ==
    /\ At("delete", "enter") /\ handler.key = k
    /\ \/ (IF Exists(k) THEN Goto("unlabel") ELSE Reply(TRUE)) /\ UNCHANGED used
       \/ Fault("api") /\ Reply(FALSE)
    /\ UNCHANGED obj

DeleteVolume == DeleteEnter(Backend)
ControllerUnpublishVolume == \E n \in Nodes : DeleteEnter(n)

(***************************************************************************)
(* DeleteSubproviderPvc and DeleteIntermediatePod.  ControllerPublish-     *)
(* Volume calls the latter for a Pod that has not started; it ignores what *)
(* comes of it and reports an error in any case.                           *)
(***************************************************************************)
DeleteDone(ok) == Reply(ok /\ handler.op = "delete")

UnlabelObject_Skipped ==
    /\ handler.pc = "unlabel"
    /\ IF Exists(handler.key) THEN Goto("delete") ELSE DeleteDone(TRUE)
    /\ UNCHANGED <<obj, used>>

UnlabelObject ==
    LET k == handler.key
    IN /\ handler.pc = "unlabel"
       /\ \/ Exists(k) /\ obj' = Unlabelled(k) /\ Goto("delete") /\ UNCHANGED used
          \/ ~Exists(k) /\ UNCHANGED <<obj, used>> /\ DeleteDone(TRUE)
          \/ Fault("api") /\ UNCHANGED obj /\ DeleteDone(FALSE)
          \/ Exists(k) /\ Fault("lost") /\ obj' = Unlabelled(k) /\ DeleteDone(FALSE)

DeleteObject_ErrorIgnored ==
    /\ handler.pc = "delete"
    /\ DeleteDone(TRUE)
    /\ (obj' = Deleted(handler.key) /\ UNCHANGED used) \/ (Fault("api") /\ UNCHANGED obj)

DeleteObject ==
    LET k == handler.key
    IN /\ handler.pc = "delete"
       /\ \/ obj' = Deleted(k) /\ DeleteDone(Exists(k) => Validate(k)) /\ UNCHANGED used
          \/ Fault("api") /\ UNCHANGED obj /\ DeleteDone(FALSE)
          \/ Fault("lost") /\ obj' = Deleted(k) /\ DeleteDone(FALSE)

ControllerStep ==
    \/ LockKey
    \/ CreateVolume \/ CreateSubproviderPvc
    \/ ControllerPublishVolume \/ CreateIntermediatePod \/ WaitForPod \/ RefreshPvc
    \/ DeleteVolume \/ ControllerUnpublishVolume \/ UnlabelObject \/ DeleteObject

\* The controller restarts: the calls in it are lost and answered with errors.
ControllerCrash ==
    /\ Fault("crash")
    /\ handler' = IdleHandler /\ waiting' = <<>> /\ calls' = {}
    /\ UNCHANGED <<obj, know, overtaken>>

-----------------------------------------------------------------------------
(***************************************************************************)
(* The sidecars.  A volume is provisioned once (its name is never used     *)
(* again), attached only then, to one node at a time, and deleted only     *)
(* when it is detached.                                                    *)
(***************************************************************************)
Decide(k, s) == know' = [know EXCEPT ![k] = s] /\ UNCHANGED <<obj, handler, waiting, calls, overtaken>>

Attach(n) ==
    /\ know[Backend] = "there"
    /\ \A m \in Nodes : know[m] = "none"
    /\ Use("attaches", MaxAttaches)
    /\ Decide(n, "creating")

Detach(n) == know[n] \in {"creating", "there"} /\ n \notin calls /\ Decide(n, "deleting") /\ UNCHANGED used

Unprovision ==
    /\ know[Backend] = "there"
    /\ \A m \in Nodes : know[m] = "none"
    /\ Decide(Backend, "deleting") /\ UNCHANGED used

SidecarCall(k) ==
    /\ know[k] \in {"creating", "deleting"} /\ k \notin calls
    /\ calls' = calls \cup {k}
    /\ waiting' = Append(waiting, [op |-> IF know[k] = "creating" THEN "create" ELSE "delete",
                                   key |-> k, live |-> TRUE])
    /\ UNCHANGED <<obj, handler, know, overtaken, used>>

Abandoned(c) == [c EXCEPT !.live = FALSE]

SidecarTimeout(k) ==
    /\ k \in calls
    /\ Fault("timeout")
    /\ calls' = calls \ {k}
    /\ waiting' = [n \in DOMAIN waiting |->
                     IF waiting[n].key = k THEN Abandoned(waiting[n]) ELSE waiting[n]]
    /\ handler' = IF handler # IdleHandler /\ handler.key = k THEN Abandoned(handler) ELSE handler
    /\ UNCHANGED <<obj, know, overtaken>>

(***************************************************************************)
(* The cluster: a backend is provisioned; a Pod runs once the backend can  *)
(* be brought to its node; what terminates goes, a PVC last.               *)
(***************************************************************************)
Becomes(k, o) == obj' = [obj EXCEPT ![k] = o] /\ UNCHANGED <<handler, sidecarVars, used>>

Ready(k) ==
    /\ IF k = Backend THEN obj[k].state = "pending" ELSE Startable(k)
    /\ Becomes(k, [obj[k] EXCEPT !.state = "live"])

Vanish(k) ==
    /\ obj[k].state \in {"terminating", "dropped"}
    /\ k = Backend => \A m \in Nodes : ~Exists(m)
    /\ Becomes(k, Gone)

\* Somebody deletes an object of the driver by accident.
StrayDelete(k) ==
    /\ Exists(k)
    /\ Fault("stray")
    /\ obj' = Deleted(k)
    /\ UNCHANGED <<handler, sidecarVars>>

ClusterStep(k) == Ready(k) \/ Vanish(k)

Next ==
    \/ ControllerStep \/ ControllerCrash
    \/ Unprovision \/ \E n \in Nodes : Attach(n) \/ Detach(n)
    \/ \E k \in Keys : SidecarCall(k) \/ SidecarTimeout(k) \/ ClusterStep(k) \/ StrayDelete(k)

Spec == Init /\ [][Next]_vars

\* Handlers run, sidecars repeat what has not succeeded, the cluster makes progress.
FairSpec ==
    /\ Spec
    /\ WF_vars(ControllerStep)
    /\ \A k \in Keys : WF_vars(SidecarCall(k)) /\ WF_vars(ClusterStep(k))

-----------------------------------------------------------------------------
(***************************************************************************)
(* Properties                                                              *)
(***************************************************************************)

\* SAFETY.  Nothing is left behind: once ControllerUnpublishVolume or
\* DeleteVolume has succeeded and until the object is wanted again, it is gone
\* or going, although calls to create it were given up and repeated (lines 97,
\* 160, 271, 354: the mutex), and although creation was interrupted.  That is so
\* for an object of which no call has overtaken another at the mutex.
NothingLeftBehind ==
    \A k \in Keys \ overtaken : know[k] = "none" => obj[k].state \in GoneOrGoing

\* ACTION.  A protected object that is in use stays, and stays protected: an
\* accidental deletion is rejected (webhook main.go:93-98), and neither a call
\* that was given up, nor the clean-up of a Pod that was slow to start, nor a
\* restart in the middle of either takes the label off behind the back of a
\* sidecar that was told of success (k8sutils.go:292-336), unless it was
\* overtaken at the mutex.
ProtectionKept ==
    [][ \A k \in Keys \ overtaken :
          know[k] = "there" /\ obj[k].label /\ obj[k].state \in {"pending", "live"} =>
             obj'[k].label /\ obj'[k].state \in {"pending", "live"} ]_vars

\* LIVENESS.  A volume that is to be deleted or detached loses its object,
\* whatever failed on the way (lines 150-179, 339-375), unless a call overtook
\* another: the Pod that is then left behind also holds its PVC.
DeletionCompletes ==
    \A k \in Keys : know[k] = "deleting" ~> obj[k].state = "none" \/ overtaken # {}

\* LIVENESS.  Creating and attaching does not go on forever (lines 48-139,
\* 251-336): a Pod that was not started is replaced, one that exists is used.
\* A Pod left behind on another node by an overtaken call keeps the backend there.
CreationCompletes ==
    \A k \in Keys : know[k] = "creating" ~> know[k] # "creating" \/ overtaken # {}
=============================================================================
