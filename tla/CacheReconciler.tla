-------------------------- MODULE CacheReconciler --------------------------
(***************************************************************************)
(* The operator's Cache controller for ONE node                            *)
(* (pkg/csi-operator/internal/controller/cache_controller.go).             *)
(*                                                                         *)
(* A Cache resource named like the node says which device should be its    *)
(* cache.  Reconcile compares that with the caches casadm lists, stops the *)
(* ones that do not fit, starts or adjusts the one that does, and keeps on *)
(* the Node object the label with the id of the cache that the node server *)
(* (pkg/csi-driver/node.go) has to put new volumes on.                     *)
(*                                                                         *)
(* Every call Reconcile makes to the API server or to casadm is a step of  *)
(* its own: user edits, volumes coming and going, node failures, and a     *)
(* crash of the operator may fall between any two of them.  The work queue *)
(* holds at most one item for the resource and never hands it to two       *)
(* workers at once, which is also what NodeMutex enforces.                 *)
(*                                                                         *)
(* Reconcile reads through the informers' cache.  The resource and whether *)
(* the Node object exists are modelled as the informers deliver them, which*)
(* is also what queues the resource.  The label is what the API server has:*)
(* the controller changes it itself, is not queued by that (line 298), and *)
(* may read the Node as it was before its own patch (shown).               *)
(***************************************************************************)
EXTENDS OpenCAS, Naturals

CONSTANTS
    NoId, NoLabel, EmptyLabel,  \* no cache; label absent; label present but ""
    UserSpecs,   \* the specifications users give to the Cache resource
    FaultKinds,  \* what may go wrong: "api", "label", "job", "late", "cut", "crash", "lag"
    MaxFaults,   \* bound on failing calls, lagging reads and operator crashes
    MaxEdits,    \* bound on what users do to the resource
    MaxStages,   \* bound on volumes staged
    MaxOutages   \* bound on reboots and on losses of the Node object

ASSUME ReconcilerAssumption ==
    /\ NoId \notin CacheIds
    /\ NoLabel \notin CacheIds
    /\ EmptyLabel \notin CacheIds
    /\ NoLabel # EmptyLabel
    /\ UserSpecs \subseteq CacheSpec
    /\ MaxFaults \in Nat /\ MaxEdits \in Nat /\ MaxStages \in Nat /\ MaxOutages \in Nat

VARIABLES
    cr,       \* the Cache resource in the API server
    label,    \* the operating-cache label of the Node object
    shown,    \* the label as the informer shows it
    nodeObj,  \* whether the Node object exists
    up,       \* whether the node is up (Ready, able to run casadm jobs)
    caches,   \* the caches running on the node
    opened,   \* volumes whose cached device is mounted
    queue,    \* whether the resource is in the controller's work queue
    rec,      \* local variables of the running Reconcile
    used      \* how much of each bound has been used

vars == <<cr, label, shown, nodeObj, up, caches, opened, queue, rec, used>>

Labels == CacheIds \cup {NoLabel, EmptyLabel}
PCs == {"idle", "finalizer", "list", "cls", "act", "label", "release", "unlabel"}

(***************************************************************************)
(* What Reconcile carries from one call to the next: its copies of the     *)
(* resource (spec, deleting) and of the Node's label (opLabel), the listing*)
(* (inst), removeInstances still to do (todo), the one being removed or    *)
(* just started (cur), modifyInstance (modify), and                        *)
(* errorsRequiringRequeueOccurred (err).                                   *)
(***************************************************************************)
Locals == [pc : PCs, spec : CacheSpec, deleting : BOOLEAN, opLabel : Labels,
           inst : CacheTable, todo : SUBSET CacheIds, cur : CacheIds \cup {NoId},
           modify : CacheIds \cup {NoId}, err : BOOLEAN]

Resource == [present : BOOLEAN, spec : CacheSpec, deleting : BOOLEAN, fin : BOOLEAN]

Begin(pc, s, deleting, l) ==
    [pc |-> pc, spec |-> s, deleting |-> deleting, opLabel |-> l, inst |-> NoCaches,
     todo |-> {}, cur |-> NoId, modify |-> NoId, err |-> FALSE]

IdleRec(s) == Begin("idle", s, FALSE, NoLabel)

\* One inductive type invariant for the controller, the API objects it shares
\* with users and the node, and the caches.
TypeOK ==
    /\ cr \in Resource
    /\ label \in Labels
    /\ shown \in Labels
    /\ nodeObj \in BOOLEAN
    /\ up \in BOOLEAN
    /\ caches \in CacheTable
    /\ opened \in SUBSET Volumes
    /\ queue \in BOOLEAN
    /\ rec \in Locals
    /\ used \in [faults : Nat, edits : Nat, stages : Nat, outages : Nat]

Init ==
    /\ \E s \in UserSpecs :
          /\ cr = [present |-> FALSE, spec |-> s, deleting |-> FALSE, fin |-> FALSE]
          /\ rec = IdleRec(s)
    /\ label = NoLabel
    /\ shown = NoLabel
    /\ nodeObj = TRUE
    /\ up = TRUE
    /\ caches = NoCaches
    /\ opened = {}
    /\ queue = FALSE
    /\ used = [faults |-> 0, edits |-> 0, stages |-> 0, outages |-> 0]

-----------------------------------------------------------------------------
(***************************************************************************)
(* How calls fail.  A casadm command runs as a job on the node, so it fails*)
(* whenever the node is down or has no Node object; it also fails at       *)
(* random, before ("job") or after ("late") it took effect.  Patches fail  *)
(* with "api" (the resource) and "label" (the Node object).                *)
(***************************************************************************)
NodeRuns == up /\ nodeObj

Fault(k) ==
    /\ k \in FaultKinds
    /\ used.faults < MaxFaults
    /\ used' = [used EXCEPT !.faults = @ + 1]

Fails(k, reachable) ==
    \/ ~reachable /\ UNCHANGED used
    \/ Fault(k)

Succeeds(reachable) == reachable /\ UNCHANGED used

apiVars == <<cr, label, shown>>
nodeVars == <<nodeObj, up, caches, opened>>

At(pc) == rec.pc = pc

Return_Forgotten(requeue) == rec' = IdleRec(rec.spec) /\ queue' = queue

\* Reconcile returns; the resource is queued again when it asks for that.
Return(requeue) ==
    /\ rec' = IdleRec(rec.spec)
    /\ queue' = (queue \/ requeue)

-----------------------------------------------------------------------------
(***************************************************************************)
(* Reconcile                                                               *)
(***************************************************************************)

\* The resource or its node is not there: nothing to do.
ReconcileSkip ==
    /\ At("idle") /\ queue
    /\ ~cr.present \/ ~nodeObj
    /\ queue' = FALSE
    /\ UNCHANGED <<apiVars, nodeVars, rec, used>>

\* Reading the resource or the node fails with another error than NotFound.
ReconcileGetFails ==
    /\ At("idle") /\ queue
    /\ Fault("api")
    /\ UNCHANGED <<apiVars, nodeVars, rec, queue>>

\* Both objects are read, the label perhaps as it was before the last patch;
\* the finalizer has to be added only when it is missing from a resource that
\* is not being deleted.
ReconcileStart ==
    /\ At("idle") /\ queue
    /\ cr.present /\ nodeObj
    /\ queue' = FALSE
    /\ shown' \in {shown, label}
    /\ rec' = Begin(IF cr.deleting \/ cr.fin THEN "list" ELSE "finalizer",
                    cr.spec, cr.deleting, shown')
    /\ UNCHANGED <<cr, label, nodeVars, used>>

\* The patch answers with the resource as it is now, and its event queues it.
AddFinalizer ==
    /\ At("finalizer")
    /\ Succeeds(cr.present)
    /\ cr' = [cr EXCEPT !.fin = TRUE]
    /\ rec' = [rec EXCEPT !.pc = "list", !.spec = cr.spec]
    /\ queue' = TRUE
    /\ UNCHANGED <<label, shown, nodeVars>>

\* A failure to add the finalizer is only logged.
AddFinalizerFails ==
    /\ At("finalizer")
    /\ Fails("api", cr.present)
    /\ rec' = [rec EXCEPT !.pc = "list"]
    /\ UNCHANGED <<apiVars, nodeVars, queue>>

\* The listed caches on the wanted device; at most one.
Candidates(c) == {i \in DOMAIN c : c[i].dev = rec.spec.dev /\ ~rec.deleting}

Listed(c) ==
    rec' = [rec EXCEPT !.pc = IF Candidates(c) = {} THEN "act" ELSE "cls",
                       !.inst = c,
                       !.todo = DOMAIN c \ Candidates(c)]

GetCacheInstances ==
    /\ At("list")
    /\ Succeeds(NodeRuns)
    /\ Listed(caches)
    /\ UNCHANGED <<apiVars, nodeVars, queue>>

GetCacheInstancesFails ==
    /\ At("list")
    /\ Fails("job", NodeRuns)
    /\ Return(TRUE)
    /\ UNCHANGED <<apiVars, nodeVars>>

\* ListCaches does not look at the exit code of the job: a job whose watch or
\* log ends early is an empty list.
GetCacheInstancesCut ==
    /\ At("list")
    /\ Fault("cut")
    /\ Listed(NoCaches)
    /\ UNCHANGED <<apiVars, nodeVars, queue>>

GetCacheLineSize_NoDefault ==
    /\ At("cls")
    /\ \E i \in Candidates(rec.inst) :
          /\ Succeeds(NodeRuns /\ i \in DOMAIN caches)
          /\ rec' = IF caches[i].cls = rec.spec.cls
                    THEN [rec EXCEPT !.pc = "act", !.modify = i]
                    ELSE [rec EXCEPT !.pc = "act", !.todo = @ \cup {i}]
    /\ UNCHANGED <<apiVars, nodeVars, queue>>

\* A cache on the wanted device with another line size has to be restarted.
GetCacheLineSize ==
    /\ At("cls")
    /\ \E i \in Candidates(rec.inst) :
          /\ Succeeds(NodeRuns /\ i \in DOMAIN caches)
          /\ rec' = IF caches[i].cls = TargetCls(rec.spec)
                    THEN [rec EXCEPT !.pc = "act", !.modify = i]
                    ELSE [rec EXCEPT !.pc = "act", !.todo = @ \cup {i}]
    /\ UNCHANGED <<apiVars, nodeVars, queue>>

GetCacheLineSizeFails ==
    /\ At("cls")
    /\ \E i \in Candidates(rec.inst) : Fails("job", NodeRuns /\ i \in DOMAIN caches)
    /\ Return(TRUE)
    /\ UNCHANGED <<apiVars, nodeVars>>

-----------------------------------------------------------------------------
(***************************************************************************)
(* removeInstances: first the label is emptied if it names the cache, then *)
(* the cache is stopped if it was listed without volumes.                  *)
(***************************************************************************)
Turn(i) == i \in rec.todo /\ rec.cur \in {NoId, i}

\* A merge patch holds what differs from the copy, which may be nothing.  The
\* informer shows the new label at once, or only after some later read.
PatchLabel(l) ==
    /\ nodeObj
    /\ label' = IF rec.opLabel = l THEN label ELSE l
    /\ \/ shown' = label' /\ UNCHANGED used
       \/ shown' \in {shown, label} /\ Fault("lag")

PatchLabelFails == UNCHANGED <<label, shown>> /\ Fails("label", nodeObj)

MustUnlabel_Never(i) == FALSE

MustUnlabel(i) == rec.opLabel = i /\ ~rec.deleting /\ rec.cur # i

\* The copy of the Node is changed even when the patch fails.
UnsetLabel ==
    /\ At("act")
    /\ \E i \in rec.todo :
          /\ Turn(i) /\ MustUnlabel(i)
          /\ rec' = [rec EXCEPT !.cur = i, !.opLabel = EmptyLabel]
    /\ PatchLabel(EmptyLabel) \/ PatchLabelFails
    /\ UNCHANGED <<cr, nodeVars, queue>>

Removed(i, failed) ==
    rec' = [rec EXCEPT !.todo = @ \ {i}, !.cur = NoId, !.err = @ \/ failed]

StopCache ==
    /\ At("act")
    /\ \E i \in rec.todo :
          /\ Turn(i) /\ ~MustUnlabel(i)
          /\ rec.inst[i].vols = {}
          /\ \/ /\ Succeeds(NodeRuns /\ CanStop(caches, i, opened))
                /\ caches' = Stopped(caches, i)
                /\ Removed(i, FALSE)
             \/ /\ Fails("job", NodeRuns /\ CanStop(caches, i, opened))
                /\ UNCHANGED caches
                /\ Removed(i, TRUE)
             \/ /\ Fault("late") /\ NodeRuns /\ CanStop(caches, i, opened)
                /\ caches' = Stopped(caches, i)
                /\ Removed(i, TRUE)
    /\ UNCHANGED <<apiVars, nodeObj, up, opened, queue>>

DeferStop_AlwaysRequeued ==
    /\ At("act")
    /\ \E i \in rec.todo : Turn(i) /\ ~MustUnlabel(i) /\ rec.inst[i].vols # {} /\ Removed(i, TRUE)
    /\ UNCHANGED <<apiVars, nodeVars, queue, used>>

DeferStop_EndsReconcile ==
    /\ At("act")
    /\ \E i \in rec.todo :
          /\ Turn(i) /\ ~MustUnlabel(i)
          /\ rec.inst[i].vols # {}
          /\ IF rec.deleting THEN Removed(i, FALSE) /\ UNCHANGED queue ELSE Return(TRUE)
    /\ UNCHANGED <<apiVars, nodeVars, used>>

\* Stopping is deferred while the listing shows volumes: tried again later,
\* unless the resource is being deleted.
DeferStop ==
    /\ At("act")
    /\ \E i \in rec.todo :
          /\ Turn(i) /\ ~MustUnlabel(i)
          /\ rec.inst[i].vols # {}
          /\ Removed(i, ~rec.deleting)
    /\ UNCHANGED <<apiVars, nodeVars, queue, used>>

-----------------------------------------------------------------------------
(***************************************************************************)
(* The cache that is wanted: adjusted if it runs, else started.            *)
(***************************************************************************)
RemovalsDone == At("act") /\ rec.todo = {}

Release(failed) == rec' = [rec EXCEPT !.pc = "release", !.cur = NoId, !.err = @ \/ failed]

\* The resource is being deleted, or the running cache has the wanted mode.
NothingToApply ==
    /\ RemovalsDone
    /\ IF rec.modify = NoId THEN rec.deleting
       ELSE rec.inst[rec.modify].mode = TargetMode(rec.spec)
    /\ Release(FALSE)
    /\ UNCHANGED <<apiVars, nodeVars, queue, used>>

SetCacheMode ==
    LET i == rec.modify
        reachable == NodeRuns /\ i \in DOMAIN caches
        changed == caches' = ModeSet(caches, i, TargetMode(rec.spec))
    IN /\ RemovalsDone
       /\ i # NoId
       /\ rec.inst[i].mode # TargetMode(rec.spec)
       /\ \/ Succeeds(reachable) /\ changed /\ Release(FALSE)
          \/ Fails("job", reachable) /\ UNCHANGED caches /\ Release(TRUE)
          \/ Fault("late") /\ reachable /\ changed /\ Release(TRUE)
       /\ UNCHANGED <<apiVars, nodeObj, up, opened, queue>>

MustStart == RemovalsDone /\ rec.modify = NoId /\ ~rec.deleting

StartAccepted == NodeRuns /\ CanStart(caches, rec.spec.dev) /\ CacheIds \ DOMAIN caches # {}

StartCache ==
    /\ MustStart
    /\ Succeeds(StartAccepted)
    /\ \E i \in CacheIds \ DOMAIN caches :
          /\ caches' = Started(caches, i, rec.spec)
          /\ rec' = [rec EXCEPT !.pc = "label", !.cur = i]
    /\ UNCHANGED <<apiVars, nodeObj, up, opened, queue>>

\* A failed start ends the reconciliation.
StartCacheFails ==
    /\ MustStart
    /\ \/ Fails("job", StartAccepted) /\ UNCHANGED caches
       \/ /\ Fault("late") /\ StartAccepted
          /\ \E i \in CacheIds \ DOMAIN caches : caches' = Started(caches, i, rec.spec)
    /\ Return(TRUE)
    /\ UNCHANGED <<apiVars, nodeObj, up, opened>>

SetOperatingCacheLabel_KeptIfSet ==
    /\ At("label")
    /\ IF label \in CacheIds THEN UNCHANGED <<label, shown, used>> ELSE PatchLabel(rec.cur)
    /\ Release(FALSE)
    /\ UNCHANGED <<cr, nodeVars, queue>>

SetOperatingCacheLabel_AfterRelease ==
    At("label") /\ Release(FALSE) /\ PatchLabel(rec'.cur) /\ UNCHANGED <<cr, nodeVars, queue>>

\* A label that could not be set is only logged.
SetOperatingCacheLabel ==
    /\ At("label")
    /\ PatchLabel(rec.cur) \/ PatchLabelFails
    /\ Release(FALSE)
    /\ UNCHANGED <<cr, nodeVars, queue>>

-----------------------------------------------------------------------------
(***************************************************************************)
(* The end of Reconcile.                                                   *)
(***************************************************************************)
MayRelease_DespiteErrors == rec.deleting

MayRelease == rec.deleting /\ ~rec.err

Finish ==
    /\ At("release")
    /\ ~MayRelease
    /\ Return(rec.err)
    /\ UNCHANGED <<apiVars, nodeVars, used>>

\* Without its finalizer the deleted resource disappears, which is an event.
RemoveFinalizer ==
    /\ At("release")
    /\ MayRelease
    /\ Succeeds(TRUE)
    /\ cr' = [cr EXCEPT !.present = FALSE, !.deleting = FALSE, !.fin = FALSE]
    /\ rec' = [rec EXCEPT !.pc = "unlabel"]
    /\ queue' = TRUE
    /\ UNCHANGED <<label, shown, nodeVars>>

RemoveFinalizerFails ==
    /\ At("release")
    /\ MayRelease
    /\ Fault("api")
    /\ Return(TRUE)
    /\ UNCHANGED <<apiVars, nodeVars>>

DeleteOperatingCacheLabel ==
    /\ At("unlabel")
    /\ \/ PatchLabel(NoLabel) /\ Return(FALSE)
       \/ PatchLabelFails /\ Return(TRUE)
    /\ UNCHANGED <<cr, nodeVars>>

\* A crash loses the locals, the informers' cache and the queue; the restarted
\* controller lists the objects anew, which queues the resource.
OperatorCrash ==
    /\ Fault("crash")
    /\ rec' = IdleRec(rec.spec)
    /\ shown' = label
    /\ queue' = cr.present
    /\ UNCHANGED <<cr, label, nodeVars>>

Reconcile ==
    \/ ReconcileSkip \/ ReconcileStart \/ AddFinalizer \/ AddFinalizerFails
    \/ GetCacheInstances \/ GetCacheInstancesFails
    \/ GetCacheLineSize \/ GetCacheLineSizeFails
    \/ UnsetLabel \/ StopCache \/ DeferStop
    \/ NothingToApply \/ SetCacheMode \/ StartCache \/ StartCacheFails
    \/ SetOperatingCacheLabel \/ Finish \/ RemoveFinalizer \/ DeleteOperatingCacheLabel

OperatorFaults ==
    \/ ReconcileGetFails \/ GetCacheInstancesCut \/ RemoveFinalizerFails \/ OperatorCrash

OperatorNext == Reconcile \/ OperatorFaults

-----------------------------------------------------------------------------
(***************************************************************************)
(* Users: every change of the resource is an event that queues it.         *)
(***************************************************************************)
UserEdit ==
    /\ used.edits < MaxEdits
    /\ used' = [used EXCEPT !.edits = @ + 1]
    /\ queue' = TRUE
    /\ UNCHANGED <<label, shown, nodeVars, rec>>

CreateCache ==
    /\ ~cr.present
    /\ \E s \in UserSpecs :
          cr' = [present |-> TRUE, spec |-> s, deleting |-> FALSE, fin |-> FALSE]
    /\ UserEdit

EditCache ==
    /\ cr.present
    /\ \E s \in UserSpecs \ {cr.spec} : cr' = [cr EXCEPT !.spec = s]
    /\ UserEdit

\* A resource that has no finalizer yet disappears at once.
DeleteCache ==
    /\ cr.present /\ ~cr.deleting
    /\ cr' = IF cr.fin THEN [cr EXCEPT !.deleting = TRUE] ELSE [cr EXCEPT !.present = FALSE]
    /\ UserEdit

UserNext == CreateCache \/ EditCache \/ DeleteCache

(***************************************************************************)
(* The node's volumes, reduced to what the controller meets of the node    *)
(* server.  That may act on a label that it read before the controller     *)
(* changed it, so a volume may come to any running cache.                  *)
(***************************************************************************)
AddCore ==
    /\ NodeRuns
    /\ used.stages < MaxStages
    /\ used' = [used EXCEPT !.stages = @ + 1]
    /\ \E i \in DOMAIN caches, v \in Volumes :
          /\ CachesWith(caches, v) = {}
          /\ caches' = CoreAdded(caches, i, v)
    /\ UNCHANGED <<apiVars, nodeObj, up, opened, queue, rec>>

MountVolume ==
    /\ up
    /\ \E v \in Volumes \ opened : CachesWith(caches, v) # {} /\ opened' = opened \cup {v}
    /\ UNCHANGED <<apiVars, nodeObj, up, caches, queue, rec, used>>

UnmountVolume ==
    /\ up
    /\ \E v \in opened : opened' = opened \ {v}
    /\ UNCHANGED <<apiVars, nodeObj, up, caches, queue, rec, used>>

RemoveCore ==
    /\ NodeRuns
    /\ \E v \in Volumes \ opened : \E i \in CachesWith(caches, v) :
          caches' = CoreRemoved(caches, i, v)
    /\ UNCHANGED <<apiVars, nodeObj, up, opened, queue, rec, used>>

VolumeNext == AddCore \/ MountVolume \/ UnmountVolume \/ RemoveCore

(***************************************************************************)
(* Outages.  A reboot takes the caches with it; when the node is Ready     *)
(* again, or its Node object is created or deleted, the watch on Nodes     *)
(* queues the resource of that name.                                       *)
(***************************************************************************)
Outage ==
    /\ used.outages < MaxOutages
    /\ used' = [used EXCEPT !.outages = @ + 1]

Reboot ==
    /\ up
    /\ Outage
    /\ up' = FALSE
    /\ caches' = NoCaches
    /\ opened' = {}
    /\ UNCHANGED <<apiVars, nodeObj, queue, rec>>

NodeReady ==
    /\ ~up
    /\ up' = TRUE
    /\ queue' = (queue \/ (cr.present /\ nodeObj))
    /\ UNCHANGED <<apiVars, nodeObj, caches, opened, rec, used>>

NodeDeleted ==
    /\ nodeObj
    /\ Outage
    /\ nodeObj' = FALSE
    /\ label' = NoLabel
    /\ shown' = NoLabel
    /\ queue' = (queue \/ cr.present)
    /\ UNCHANGED <<cr, up, caches, opened, rec>>

NodeCreated ==
    /\ ~nodeObj
    /\ nodeObj' = TRUE
    /\ queue' = (queue \/ cr.present)
    /\ UNCHANGED <<apiVars, up, caches, opened, rec, used>>

OutageNext == Reboot \/ NodeReady \/ NodeDeleted \/ NodeCreated

Next == OperatorNext \/ UserNext \/ VolumeNext \/ OutageNext

Spec == Init /\ [][Next]_vars

\* The controller's workers keep running: the work queue is served, requests
\* to the API server return, and jobs end (after at most 5 minutes).
FairSpec == Spec /\ WF_vars(Reconcile)

-----------------------------------------------------------------------------
(***************************************************************************)
(* Properties                                                              *)
(***************************************************************************)
Fits(c, s) == c.dev = s.dev /\ c.cls = TargetCls(s) /\ c.mode = TargetMode(s)

\* The only cache of the node is the one the specification asks for.
Configured(c, s) == \E i \in DOMAIN c : DOMAIN c = {i} /\ Fits(c[i], s)

AtRest == At("idle") /\ ~queue /\ NodeRuns

Settled == AtRest /\ cr.present /\ ~cr.deleting

\* SAFETY.  The controller comes to rest (no reconciliation running, none
\* queued) with the resource present and the node up only when the node runs
\* exactly the cache the resource asks for: no edit, failed or late casadm job,
\* deferred removal, outage or crash is ever swallowed without being queued
\* again (Reconcile's requeue decisions, lines 103-107, 191-194 and 216-220).
SettledMeansConfigured == Settled => Configured(caches, cr.spec)

\* SAFETY.  The label that the node server trusts is never left naming another
\* cache than the wanted one once the controller is at rest: it has the id of
\* a running cache that fits, or it is empty or absent (lines 144-151, 198).
\* The code keeps this only if every pass reads the label as the last one left
\* it: a pass that still sees the old one stops a labelled cache ("lag").
SettledLabelFits ==
    Settled /\ label \in CacheIds =>
        label \in DOMAIN caches /\ Fits(caches[label], cr.spec)

\* ACTION.  When the finalizer goes, and the resource with it, every cache
\* that still runs is one that this reconciliation saw with volumes: a cache
\* that failed to stop, or was started meanwhile, holds the finalizer (line 204).
FinalizerHeldUntilClean ==
    [][ cr.present /\ cr.deleting /\ ~cr'.present =>
          \A i \in DOMAIN caches :
             i \in DOMAIN rec.inst /\ rec.inst[i].vols # {} ]_vars

\* ACTION.  Unless the resource is being deleted, a cache is stopped only when
\* the label no longer sends volumes to it (lines 146-162).  A pass that reads
\* the label from before the last patch does not keep this either.
UnlabelledBeforeStopped ==
    [][ \A i \in DOMAIN caches :
          i \notin DOMAIN caches' /\ up' /\ ~rec.deleting => label # i ]_vars

\* ACTION.  While the resource is there and still asks for what the pass works
\* for, no cache with the wanted device and line size is stopped (lines
\* 115-162): not when an edit is taken back, when the line size is left to its
\* default, or when the pass resumes after a reboot.
WantedCacheKept ==
    [][ \A i \in DOMAIN caches :
          i \notin DOMAIN caches' /\ up' /\ cr.present /\ ~cr.deleting /\ rec.spec = cr.spec =>
             caches[i].dev # cr.spec.dev \/ caches[i].cls # TargetCls(cr.spec) ]_vars

\* A cache on the wanted device with the wrong line size, kept by its volumes:
\* casadm cannot start the wanted one until they are gone.
Blocked == \E i \in DOMAIN caches :
    caches[i].dev = cr.spec.dev /\ caches[i].cls # TargetCls(cr.spec) /\ caches[i].vols # {}

NodeStays == <>[]NodeRuns

\* LIVENESS.  On a node that stays up, a resource that stays gets its cache,
\* unless volumes keep the device occupied with another line size.
WantedCacheRuns ==
    NodeStays =>
        (cr.present /\ ~cr.deleting)
            ~> (~cr.present \/ cr.deleting \/ Blocked
                  \/ \E i \in DOMAIN caches : Fits(caches[i], cr.spec))

\* LIVENESS.  On a node that stays up, deleting the resource completes even
\* when volumes keep a cache busy (lines 164-171).
DeletionCompletes == NodeStays => (cr.deleting ~> ~cr.present)

=============================================================================
