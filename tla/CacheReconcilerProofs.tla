----------------------- MODULE CacheReconcilerProofs -----------------------
(***************************************************************************)
(* Proofs about the Cache controller, for every set of cache ids, devices, *)
(* volumes and specifications, and every bound.                            *)
(***************************************************************************)
EXTENDS CacheReconciler, OpenCASProofs

-----------------------------------------------------------------------------
(***************************************************************************)
(* Type correctness                                                        *)
(***************************************************************************)

\* The locals of a Reconcile that begins or has ended are well-typed.
LEMMA BeginType ==
    ASSUME NEW pc \in PCs, NEW s \in CacheSpec, NEW b \in BOOLEAN, NEW l \in Labels
    PROVE  Begin(pc, s, b, l) \in Locals
  BY NoCachesType DEF Begin, Locals

\* So are the locals of a controller with no Reconcile running.
LEMMA IdleType == ASSUME NEW s \in CacheSpec PROVE IdleRec(s) \in Locals
  BY BeginType DEF IdleRec, PCs, Labels

\* Calls that fail or succeed keep the counters counters.
LEMMA UsedType ==
    ASSUME TypeOK, NEW k, NEW b
    PROVE  /\ Fault(k) => used' \in [faults : Nat, edits : Nat, stages : Nat, outages : Nat]
           /\ Fails(k, b) => used' \in [faults : Nat, edits : Nat, stages : Nat, outages : Nat]
           /\ Succeeds(b) => used' \in [faults : Nat, edits : Nat, stages : Nat, outages : Nat]
  BY DEF TypeOK, Fault, Fails, Succeeds

\* So do patches of the label, which is always one of Labels.
LEMMA PatchType ==
    ASSUME TypeOK, (\E l \in Labels : PatchLabel(l)) \/ PatchLabelFails
    PROVE  /\ label' \in Labels /\ shown' \in Labels
           /\ used' \in [faults : Nat, edits : Nat, stages : Nat, outages : Nat]
  BY UsedType DEF TypeOK, PatchLabel, PatchLabelFails

\* Returning from Reconcile leaves locals and queue well-typed.
LEMMA ReturnType ==
    ASSUME TypeOK, NEW b \in BOOLEAN, Return(b)
    PROVE  rec' \in Locals /\ queue' \in BOOLEAN
<1>1. rec.spec \in CacheSpec
  BY DEF TypeOK, Locals
<1> QED BY <1>1, IdleType DEF Return, TypeOK

\* The actions before the removals, and the ones that end Reconcile.
LEMMA TypeReconcile1 ==
    ASSUME TypeOK,
           \/ ReconcileSkip \/ ReconcileStart \/ AddFinalizer \/ AddFinalizerFails
           \/ GetCacheInstances \/ GetCacheInstancesFails
           \/ GetCacheLineSize \/ GetCacheLineSizeFails
    PROVE  TypeOK'
<1> DEFINE T == [faults : Nat, edits : Nat, stages : Nat, outages : Nat]
<1> USE DEF apiVars, nodeVars
<1>1. CASE ReconcileSkip
  BY <1>1 DEF ReconcileSkip, TypeOK
<1>2. CASE ReconcileStart
  <2>1. shown' \in Labels
    BY <1>2 DEF ReconcileStart, TypeOK
  <2>2. rec' \in Locals
    BY <1>2, <2>1, BeginType DEF ReconcileStart, TypeOK, Resource, PCs
  <2> QED BY <1>2, <2>1, <2>2 DEF ReconcileStart, TypeOK
<1>3. CASE AddFinalizer
  <2>1. cr' \in Resource /\ rec' \in Locals
    BY <1>3 DEF AddFinalizer, TypeOK, Resource, Locals, PCs
  <2> QED BY <1>3, <2>1, UsedType DEF AddFinalizer, TypeOK
<1>4. CASE AddFinalizerFails
  <2>1. rec' \in Locals
    BY <1>4 DEF AddFinalizerFails, TypeOK, Locals, PCs
  <2> QED BY <1>4, <2>1, UsedType DEF AddFinalizerFails, TypeOK
<1>5. CASE GetCacheInstances
  <2>1. DOMAIN caches \subseteq CacheIds
    BY TableDef DEF TypeOK
  <2>2. PICK p \in PCs, t \in SUBSET CacheIds :
          rec' = [rec EXCEPT !.pc = p, !.inst = caches, !.todo = t]
    BY <1>5, <2>1 DEF GetCacheInstances, Listed, PCs
  <2>3. rec \in Locals /\ caches \in CacheTable
    BY DEF TypeOK
  <2>4. [rec EXCEPT !.pc = p, !.inst = caches, !.todo = t] \in Locals
    BY <2>3 DEF Locals
  <2>5. rec' \in Locals
    BY <2>2, <2>4
  <2> QED BY <1>5, <2>5, UsedType DEF GetCacheInstances, TypeOK
<1>6. CASE GetCacheInstancesFails
  BY <1>6, UsedType, ReturnType DEF GetCacheInstancesFails, TypeOK
<1>7. CASE GetCacheLineSize
  <2>1. DOMAIN rec.inst \subseteq CacheIds
    BY TableDef DEF TypeOK, Locals
  <2>2. PICK i \in CacheIds :
             /\ Succeeds(NodeRuns /\ i \in DOMAIN caches)
             /\ \/ rec' = [rec EXCEPT !.pc = "act", !.modify = i]
                \/ rec' = [rec EXCEPT !.pc = "act", !.todo = rec.todo \cup {i}]
    BY <1>7, <2>1 DEF GetCacheLineSize, Candidates
  <2>3. rec \in Locals
    BY DEF TypeOK
  <2>4. /\ [rec EXCEPT !.pc = "act", !.modify = i] \in Locals
        /\ [rec EXCEPT !.pc = "act", !.todo = rec.todo \cup {i}] \in Locals
    BY <2>3 DEF Locals, PCs
  <2>5. rec' \in Locals
    BY <2>2, <2>4
  <2> QED BY <1>7, <2>2, <2>5, UsedType DEF GetCacheLineSize, TypeOK
<1>8. CASE GetCacheLineSizeFails
  BY <1>8, UsedType, ReturnType DEF GetCacheLineSizeFails, TypeOK
<1> QED BY <1>1, <1>2, <1>3, <1>4, <1>5, <1>6, <1>7, <1>8

\* Between the start of a cache and its label, Reconcile knows the id.
StartedId == At("label") => rec.cur \in CacheIds

\* The removals, and what follows them.
LEMMA TypeReconcile2 ==
    ASSUME TypeOK, StartedId,
           \/ UnsetLabel \/ StopCache \/ DeferStop
           \/ NothingToApply \/ SetCacheMode \/ StartCache \/ StartCacheFails
           \/ SetOperatingCacheLabel \/ Finish \/ RemoveFinalizer \/ DeleteOperatingCacheLabel
    PROVE  TypeOK'
<1> USE DEF apiVars, nodeVars
<1>a. rec \in Locals /\ caches \in CacheTable /\ rec.spec \in CacheSpec /\ rec.err \in BOOLEAN
  BY DEF TypeOK, Locals
<1>b. DOMAIN caches \subseteq CacheIds
  BY <1>a, TableDef
<1>c. ASSUME NEW b \in BOOLEAN
      PROVE  /\ \A i : Removed(i, b) => rec' \in Locals
             /\ Release(b) => rec' \in Locals
  <2>1. ASSUME NEW i PROVE [rec EXCEPT !.todo = rec.todo \ {i}, !.cur = NoId, !.err = rec.err \/ b] \in Locals
    BY <1>a DEF Locals
  <2>2. [rec EXCEPT !.pc = "release", !.cur = NoId, !.err = rec.err \/ b] \in Locals
    BY <1>a DEF Locals, PCs
  <2> QED BY <2>1, <2>2 DEF Removed, Release
<1>1. CASE UnsetLabel
  <2>1. PICK i \in rec.todo : rec' = [rec EXCEPT !.cur = i, !.opLabel = EmptyLabel]
    BY <1>1 DEF UnsetLabel
  <2>2. rec' \in Locals
    BY <1>a, <2>1 DEF Locals, Labels
  <2>3. PatchLabel(EmptyLabel) \/ PatchLabelFails
    BY <1>1 DEF UnsetLabel
  <2> QED BY <1>1, <2>2, <2>3, PatchType DEF UnsetLabel, TypeOK, Labels
<1>2. CASE StopCache
  <2>1. PICK i \in rec.todo :
          /\ caches' = Stopped(caches, i) \/ UNCHANGED caches
          /\ Removed(i, TRUE) \/ Removed(i, FALSE)
          /\ \/ Succeeds(NodeRuns /\ CanStop(caches, i, opened))
             \/ Fails("job", NodeRuns /\ CanStop(caches, i, opened))
             \/ Fault("late")
    BY <1>2 DEF StopCache
  <2>2. caches' \in CacheTable /\ rec' \in Locals
    BY <1>a, <1>c, <2>1, StoppedType
  <2> QED BY <1>2, <2>1, <2>2, UsedType DEF StopCache, TypeOK
<1>3. CASE DeferStop
  <2>1. rec' \in Locals
    BY <1>3, <1>a, <1>c DEF DeferStop, Locals
  <2> QED BY <1>3, <2>1 DEF DeferStop, TypeOK
<1>4. CASE NothingToApply
  BY <1>4, <1>c DEF NothingToApply, TypeOK
<1>5. CASE SetCacheMode
  <2>1. /\ Release(TRUE) \/ Release(FALSE)
        /\ \/ UNCHANGED caches
           \/ /\ rec.modify \in DOMAIN caches
              /\ caches' = ModeSet(caches, rec.modify, TargetMode(rec.spec))
        /\ \/ Succeeds(NodeRuns /\ rec.modify \in DOMAIN caches)
           \/ Fails("job", NodeRuns /\ rec.modify \in DOMAIN caches)
           \/ Fault("late")
    BY <1>5 DEF SetCacheMode, Succeeds
  <2>2. TargetMode(rec.spec) \in CacheModes
    BY <1>a, DefaultsAssumption DEF TargetMode, CacheSpec
  <2>3. caches' \in CacheTable
    BY <1>a, <2>1, <2>2, ModeSetType
  <2> QED BY <1>5, <1>c, <2>1, <2>3, UsedType DEF SetCacheMode, TypeOK
<1>6. CASE StartCache
  <2>1. PICK i \in CacheIds \ DOMAIN caches :
          /\ caches' = Started(caches, i, rec.spec)
          /\ rec' = [rec EXCEPT !.pc = "label", !.cur = i]
    BY <1>6 DEF StartCache
  <2>2. caches' \in CacheTable
    BY <1>a, <2>1, StartedType
  <2>3. rec' \in Locals
    BY <1>a, <2>1 DEF Locals, PCs
  <2> QED BY <1>6, <2>2, <2>3, UsedType DEF StartCache, TypeOK
<1>7. CASE StartCacheFails
  <2>1. caches' \in CacheTable
    BY <1>7, <1>a, StartedType DEF StartCacheFails
  <2> QED BY <1>7, <2>1, UsedType, ReturnType DEF StartCacheFails, TypeOK
<1>8. CASE SetOperatingCacheLabel
  <2>1. PatchLabel(rec.cur) \/ PatchLabelFails
    BY <1>8 DEF SetOperatingCacheLabel
  <2>2. rec.cur \in Labels
    BY <1>8 DEF SetOperatingCacheLabel, StartedId, Labels
  <2> QED BY <1>8, <1>c, <2>1, <2>2, PatchType DEF SetOperatingCacheLabel, TypeOK
<1>9. CASE Finish
  BY <1>9, <1>a, ReturnType DEF Finish, TypeOK
<1>10. CASE RemoveFinalizer
  <2>1. cr' \in Resource /\ rec' \in Locals
    BY <1>10, <1>a DEF RemoveFinalizer, TypeOK, Resource, Locals, PCs
  <2> QED BY <1>10, <2>1, UsedType DEF RemoveFinalizer, TypeOK
<1>11. CASE DeleteOperatingCacheLabel
  <2>1. PatchLabel(NoLabel) \/ PatchLabelFails
    BY <1>11 DEF DeleteOperatingCacheLabel
  <2>2. NoLabel \in Labels
    BY DEF Labels
  <2> QED BY <1>11, <2>1, <2>2, PatchType, ReturnType DEF DeleteOperatingCacheLabel, TypeOK
<1> QED BY <1>1, <1>2, <1>3, <1>4, <1>5, <1>6, <1>7, <1>8, <1>9, <1>10, <1>11

\* Failures of the operator, users, volumes and outages.
LEMMA TypeEnvironment ==
    ASSUME TypeOK, OperatorFaults \/ UserNext \/ VolumeNext \/ OutageNext
    PROVE  TypeOK'
<1> DEFINE T == [faults : Nat, edits : Nat, stages : Nat, outages : Nat]
<1> USE DEF apiVars, nodeVars
<1>a. rec \in Locals /\ rec.spec \in CacheSpec /\ caches \in CacheTable /\ cr \in Resource /\ used \in T
  BY DEF TypeOK, Locals
<1>1. CASE ReconcileGetFails
  BY <1>1, UsedType DEF ReconcileGetFails, TypeOK
<1>2. CASE GetCacheInstancesCut
  <2>1. PICK p \in PCs, t \in SUBSET CacheIds :
          rec' = [rec EXCEPT !.pc = p, !.inst = NoCaches, !.todo = t]
    <3>1. DOMAIN NoCaches = {}
      BY DEF NoCaches
    <3> QED BY <1>2, <3>1 DEF GetCacheInstancesCut, Listed, PCs
  <2>2. [rec EXCEPT !.pc = p, !.inst = NoCaches, !.todo = t] \in Locals
    BY <1>a, NoCachesType DEF Locals
  <2> QED BY <1>2, <2>1, <2>2, UsedType DEF GetCacheInstancesCut, TypeOK
<1>3. CASE RemoveFinalizerFails
  BY <1>3, UsedType, ReturnType DEF RemoveFinalizerFails, TypeOK
<1>4. CASE OperatorCrash
  BY <1>4, <1>a, UsedType, IdleType DEF OperatorCrash, TypeOK, Resource
<1>5. CASE UserNext
  <2>1. UserEdit /\ cr' \in Resource
    <3>1. CASE CreateCache
      BY <3>1, ReconcilerAssumption DEF CreateCache, Resource
    <3>2. CASE EditCache
      BY <3>2, <1>a, ReconcilerAssumption DEF EditCache, Resource
    <3>3. CASE DeleteCache
      BY <3>3, <1>a DEF DeleteCache, Resource
    <3> QED BY <1>5, <3>1, <3>2, <3>3 DEF UserNext
  <2>2. used' \in T
    BY <1>a, <2>1 DEF UserEdit
  <2> QED BY <2>1, <2>2 DEF UserEdit, TypeOK
<1>6. CASE AddCore
  <2>1. PICK i \in DOMAIN caches, v \in Volumes : caches' = CoreAdded(caches, i, v)
    BY <1>6 DEF AddCore
  <2>2. caches' \in CacheTable
    BY <1>a, <2>1, CoreAddedType
  <2>3. used' \in T
    BY <1>6, <1>a DEF AddCore
  <2> QED BY <1>6, <2>2, <2>3 DEF AddCore, TypeOK
<1>7. CASE MountVolume
  BY <1>7 DEF MountVolume, TypeOK
<1>8. CASE UnmountVolume
  BY <1>8 DEF UnmountVolume, TypeOK
<1>9. CASE RemoveCore
  <2>1. PICK v \in Volumes, i \in DOMAIN caches : caches' = CoreRemoved(caches, i, v)
    BY <1>9 DEF RemoveCore, CachesWith
  <2>2. caches' \in CacheTable
    BY <1>a, <2>1, CoreRemovedType
  <2> QED BY <1>9, <2>2 DEF RemoveCore, TypeOK
<1>10. CASE Reboot
  <2>1. used' \in T
    BY <1>10, <1>a DEF Reboot, Outage
  <2> QED BY <1>10, <2>1, NoCachesType DEF Reboot, TypeOK
<1>11. CASE NodeReady
  BY <1>11, <1>a DEF NodeReady, TypeOK, Resource
<1>12. CASE NodeDeleted
  <2>1. used' \in T
    BY <1>12, <1>a DEF NodeDeleted, Outage
  <2> QED BY <1>12, <1>a, <2>1 DEF NodeDeleted, TypeOK, Resource, Labels
<1>13. CASE NodeCreated
  BY <1>13, <1>a DEF NodeCreated, TypeOK, Resource
<1> QED
  BY <1>1, <1>2, <1>3, <1>4, <1>5, <1>6, <1>7, <1>8, <1>9, <1>10, <1>11, <1>12, <1>13
  DEF OperatorFaults, VolumeNext, OutageNext

-----------------------------------------------------------------------------
(***************************************************************************)
(* The inductive invariant.  "At rest means configured" is not inductive:  *)
(* it must be known, at every point of a running Reconcile, what it has    *)
(* established so far.  All of that is lost when an event intervenes, but  *)
(* then the resource is queued, or the node cannot run jobs; so everything *)
(* is claimed only while Calm.                                             *)
(***************************************************************************)
Calm == ~queue /\ NodeRuns

\* casadm never runs two caches on one device.
DeviceUnique ==
    \A i, j \in DOMAIN caches : caches[i].dev = caches[j].dev => i = j

\* While nothing is queued, Reconcile's copy of the resource is up to date;
\* and the removal of the finalizer leaves its own event in the queue.
Fresh ==
    /\ At("unlabel") => queue
    /\ ~At("idle") /\ ~queue =>
          cr.present /\ rec.spec = cr.spec /\ rec.deleting = cr.deleting

\* A running cache is as it was listed, but for its volumes.
AsListed(i) ==
    /\ i \in DOMAIN rec.inst
    /\ caches[i].dev = rec.inst[i].dev
    /\ caches[i].cls = rec.inst[i].cls
    /\ caches[i].mode = rec.inst[i].mode

Classified ==
    /\ rec.modify = NoId
    /\ DOMAIN rec.inst \subseteq DOMAIN caches
    /\ \A i \in DOMAIN caches :
          AsListed(i) /\ (i \in rec.todo <=> caches[i].dev # rec.spec.dev)

Accounted ==
    /\ \A i \in DOMAIN caches :
          AsListed(i) /\ (i \in rec.todo \/ i = rec.modify \/ rec.err)
    /\ rec.modify # NoId =>
          /\ rec.modify \in DOMAIN caches \ rec.todo
          /\ caches[rec.modify].dev = rec.spec.dev
          /\ caches[rec.modify].cls = TargetCls(rec.spec)

Synced ==
    Calm /\ ~rec.deleting =>
        /\ At("finalizer") \/ At("list") => rec.modify = NoId
        /\ At("cls") => Classified
        /\ At("act") => Accounted
        /\ At("label") \/ At("release") => rec.err \/ Configured(caches, rec.spec)

\* While the resource is deleted, whatever still runs was listed, and is yet to
\* be removed, could not be removed, or was listed with volumes.
DeletionAccounted ==
    rec.deleting =>
        /\ ~At("cls") /\ ~At("label")
        /\ At("act") =>
              \A i \in DOMAIN caches :
                 i \in DOMAIN rec.inst /\ (i \in rec.todo \/ rec.err \/ rec.inst[i].vols # {})
        /\ At("release") =>
              \A i \in DOMAIN caches :
                 i \in DOMAIN rec.inst /\ (rec.err \/ rec.inst[i].vols # {})

ControlInv == Fresh /\ Synced /\ SettledMeansConfigured

IInv == TypeOK /\ StartedId /\ DeviceUnique /\ DeletionAccounted /\ ControlInv

\* What an invariant step has to show besides types.
Rest == StartedId /\ DeviceUnique /\ DeletionAccounted /\ ControlInv

\* The tables of the initial states and of a rebooted node are empty.
LEMMA NoCachesEmpty == DOMAIN NoCaches = {}
  BY DEF NoCaches

\* A step that only touches the volumes of the caches.
LEMMA VolumesOnly ==
    ASSUME IInv,
           UNCHANGED <<cr, nodeObj, up, queue, rec>>,
           DOMAIN caches' = DOMAIN caches,
           \A i \in DOMAIN caches :
              /\ caches'[i].dev = caches[i].dev
              /\ caches'[i].cls = caches[i].cls
              /\ caches'[i].mode = caches[i].mode
    PROVE  Rest'
<1>1. StartedId' /\ DeviceUnique' /\ DeletionAccounted' /\ Fresh'
  BY DEF IInv, StartedId, DeviceUnique, DeletionAccounted, ControlInv, Fresh, At
<1>2. Classified => Classified'
  BY DEF Classified, AsListed
<1>3. Accounted => Accounted'
  BY DEF Accounted, AsListed
<1>4. Configured(caches, rec.spec) => Configured(caches', rec'.spec)
  BY DEF Configured, Fits, TargetCls, TargetMode
<1>5. Synced'
  BY <1>2, <1>3, <1>4 DEF IInv, ControlInv, Synced, Calm, NodeRuns, At
<1>6. Configured(caches, cr.spec) => Configured(caches', cr'.spec)
  BY DEF Configured, Fits, TargetCls, TargetMode
<1>7. SettledMeansConfigured'
  BY <1>6 DEF IInv, ControlInv, SettledMeansConfigured, Settled, AtRest, NodeRuns, At
<1> QED BY <1>1, <1>5, <1>7 DEF Rest, ControlInv

\* A step after which the resource is queued while Reconcile goes on.
LEMMA Queued ==
    ASSUME IInv, UNCHANGED <<rec, caches>>, queue' = TRUE
    PROVE  Rest'
  BY DEF IInv, Rest, StartedId, DeviceUnique, DeletionAccounted, ControlInv, Fresh,
         Synced, Calm, SettledMeansConfigured, Settled, AtRest, At

\* Reconcile returns and asks to be called again.
LEMMA Requeued ==
    ASSUME IInv, Return(TRUE), DeviceUnique'
    PROVE  Rest'
<1>1. rec'.pc = "idle" /\ rec'.deleting = FALSE /\ queue' = TRUE
  BY DEF Return, IdleRec, Begin
<1> QED
  BY <1>1 DEF Rest, StartedId, DeletionAccounted, ControlInv, Fresh, Synced, Calm,
      SettledMeansConfigured, Settled, AtRest, At

\* Starting a cache leaves at most one cache per device, and stopping one too.
LEMMA DeviceUniqueStarted ==
    ASSUME DeviceUnique, CanStart(caches, rec.spec.dev),
           NEW i \in CacheIds \ DOMAIN caches, caches' = Started(caches, i, rec.spec)
    PROVE  DeviceUnique'
<1>1. DOMAIN caches' = DOMAIN caches \cup {i}
  BY DEF Started
<1>2. caches'[i].dev = rec.spec.dev
  BY DEF Started, NewCache
<1>3. \A j \in DOMAIN caches : caches'[j] = caches[j]
  BY DEF Started
<1> QED BY <1>1, <1>2, <1>3 DEF DeviceUnique, CanStart

\* Stopping a cache takes that cache out of the table and nothing else.
LEMMA StoppedFacts ==
    ASSUME NEW i, caches' = Stopped(caches, i)
    PROVE  DOMAIN caches' = DOMAIN caches \ {i} /\ \A j \in DOMAIN caches' : caches'[j] = caches[j]
  BY DEF Stopped

\* The initial states satisfy the inductive invariant.
LEMMA InvInit == Init => IInv
<1> SUFFICES ASSUME Init PROVE IInv
  OBVIOUS
<1>1. PICK s \in UserSpecs :
        /\ cr = [present |-> FALSE, spec |-> s, deleting |-> FALSE, fin |-> FALSE]
        /\ rec = IdleRec(s)
  BY DEF Init
<1>2. s \in CacheSpec
  BY ReconcilerAssumption
<1>3. TypeOK
  BY <1>1, <1>2, IdleType, NoCachesType DEF Init, TypeOK, Resource, Labels
<1>4. rec.pc = "idle" /\ rec.deleting = FALSE /\ cr.present = FALSE
  BY <1>1 DEF IdleRec, Begin
<1>5. DeviceUnique
  BY NoCachesEmpty DEF Init, DeviceUnique
<1> QED
  BY <1>3, <1>4, <1>5
  DEF IInv, StartedId, DeletionAccounted, ControlInv, Fresh, Synced,
      SettledMeansConfigured, Settled, AtRest, At

\* Users, volumes and outages either queue the resource or change nothing that a
\* controller at rest relies on.
LEMMA RestEnvironment ==
    ASSUME IInv, UserNext \/ VolumeNext \/ OutageNext
    PROVE  Rest'
<1> USE DEF apiVars, nodeVars
<1>a. caches \in CacheTable
  BY DEF IInv, TypeOK
<1>1. CASE UserNext
  BY <1>1, Queued DEF UserNext, CreateCache, EditCache, DeleteCache, UserEdit
<1>2. CASE AddCore
  <2>1. PICK i \in DOMAIN caches, v \in Volumes : caches' = CoreAdded(caches, i, v)
    BY <1>2 DEF AddCore
  <2> QED BY <1>2, <1>a, <2>1, CoreAddedType, VolumesOnly DEF AddCore
<1>3. CASE MountVolume \/ UnmountVolume
  BY <1>3, VolumesOnly DEF MountVolume, UnmountVolume
<1>4. CASE RemoveCore
  <2>1. PICK v \in Volumes, i \in DOMAIN caches : caches' = CoreRemoved(caches, i, v)
    BY <1>4 DEF RemoveCore, CachesWith
  <2> QED BY <1>4, <1>a, <2>1, CoreRemovedType, VolumesOnly DEF RemoveCore
<1>5. CASE Reboot
  <2>1. DOMAIN caches' = {} /\ ~up' /\ UNCHANGED <<cr, queue, rec>>
    BY <1>5, NoCachesEmpty DEF Reboot
  <2> QED
    BY <2>1 DEF IInv, Rest, StartedId, DeviceUnique, DeletionAccounted, ControlInv, Fresh,
       Synced, Calm, NodeRuns, SettledMeansConfigured, Settled, AtRest, At
<1>6. CASE NodeReady \/ NodeCreated
  <2>1. queue \in BOOLEAN /\ cr.present \in BOOLEAN
    BY DEF IInv, TypeOK, Resource
  <2>2. UNCHANGED <<cr, caches, rec>>
    BY <1>6 DEF NodeReady, NodeCreated
  <2>3. CASE queue' = TRUE
    BY <2>2, <2>3, Queued
  <2>4. CASE queue' # TRUE
    <3>1. ~queue /\ (nodeObj' => ~cr.present)
      <4>1. CASE NodeReady
        BY <4>1, <2>4, Zenon DEF NodeReady
      <4>2. CASE NodeCreated
        BY <4>2, <2>4, Zenon DEF NodeCreated
      <4> QED BY <1>6, <4>1, <4>2
    <3> QED
      BY <2>2, <2>4, <3>1
      DEF IInv, Rest, StartedId, DeviceUnique, DeletionAccounted, ControlInv, Fresh,
          Synced, Calm, NodeRuns, SettledMeansConfigured, Settled, AtRest, At
  <2> QED BY <2>3, <2>4
<1>7. CASE NodeDeleted
  <2>1. ~nodeObj' /\ UNCHANGED <<cr, caches, rec>> /\ (queue => queue')
    BY <1>7 DEF NodeDeleted
  <2> QED
    BY <2>1 DEF IInv, Rest, StartedId, DeviceUnique, DeletionAccounted, ControlInv, Fresh,
       Synced, Calm, NodeRuns, SettledMeansConfigured, Settled, AtRest, At
<1> QED BY <1>1, <1>2, <1>3, <1>4, <1>5, <1>6, <1>7 DEF VolumeNext, OutageNext

\* From the start of Reconcile to the classification of the listed caches.
LEMMA RestReconcile1 ==
    ASSUME IInv,
           \/ ReconcileSkip \/ ReconcileStart \/ AddFinalizer \/ AddFinalizerFails
           \/ GetCacheInstances \/ GetCacheInstancesFails
           \/ GetCacheLineSize \/ GetCacheLineSizeFails
    PROVE  Rest'
<1> USE DEF apiVars, nodeVars
<1>a. rec \in Locals /\ caches \in CacheTable
  BY DEF IInv, TypeOK
<1>b. DOMAIN caches \subseteq CacheIds
  BY <1>a, TableDef
<1>1. CASE ReconcileSkip
  <2>1. UNCHANGED <<cr, nodeObj, up, caches, rec>> /\ (~cr.present \/ ~nodeObj) /\ At("idle")
    BY <1>1 DEF ReconcileSkip
  <2> QED
    BY <2>1 DEF IInv, Rest, StartedId, DeviceUnique, DeletionAccounted, ControlInv, Fresh,
       Synced, Calm, NodeRuns, SettledMeansConfigured, Settled, AtRest, At
<1>2. CASE ReconcileStart
  <2>1. /\ rec'.pc \in {"list", "finalizer"}
        /\ rec'.spec = cr.spec /\ rec'.deleting = cr.deleting /\ rec'.modify = NoId
        /\ cr.present
        /\ UNCHANGED <<cr, nodeObj, up, caches>>
    BY <1>2 DEF ReconcileStart, Begin
  <2> QED
    BY <2>1 DEF IInv, Rest, StartedId, DeviceUnique, DeletionAccounted, ControlInv, Fresh,
       Synced, SettledMeansConfigured, Settled, AtRest, At
<1>3. CASE AddFinalizer
  <2>1. rec'.pc = "list" /\ queue' = TRUE /\ UNCHANGED caches
    BY <1>3, <1>a DEF AddFinalizer, Locals
  <2> QED
    BY <2>1 DEF IInv, Rest, StartedId, DeviceUnique, DeletionAccounted, ControlInv, Fresh,
       Synced, Calm, SettledMeansConfigured, Settled, AtRest, At
<1>4. CASE AddFinalizerFails
  <2>1. /\ rec'.pc = "list" /\ rec'.spec = rec.spec /\ rec'.deleting = rec.deleting
        /\ rec'.modify = rec.modify
        /\ At("finalizer")
        /\ UNCHANGED <<cr, nodeObj, up, caches, queue>>
    BY <1>4, <1>a DEF AddFinalizerFails, Locals
  <2> QED
    BY <2>1 DEF IInv, Rest, StartedId, DeviceUnique, DeletionAccounted, ControlInv, Fresh,
       Synced, Calm, NodeRuns, SettledMeansConfigured, Settled, AtRest, At
<1>5. CASE GetCacheInstances
  <2> DEFINE C == Candidates(caches)
  <2>1. /\ rec'.pc = IF C = {} THEN "act" ELSE "cls"
        /\ rec'.inst = caches /\ rec'.todo = DOMAIN caches \ C
        /\ rec'.spec = rec.spec /\ rec'.deleting = rec.deleting
        /\ rec'.modify = rec.modify /\ rec'.err = rec.err
        /\ UNCHANGED <<cr, nodeObj, up, caches, queue>>
        /\ At("list")
    BY <1>5, <1>a DEF GetCacheInstances, Listed, Locals
  <2>2. rec.deleting => C = {}
    BY DEF Candidates
  <2>3. ~rec.deleting => C = {i \in DOMAIN caches : caches[i].dev = rec.spec.dev}
    BY DEF Candidates
  <2> HIDE DEF C
  <2>4. StartedId' /\ DeviceUnique' /\ Fresh' /\ SettledMeansConfigured'
    BY <2>1 DEF IInv, StartedId, DeviceUnique, ControlInv, Fresh, SettledMeansConfigured,
       Settled, AtRest, At
  <2>5. DeletionAccounted'
    BY <2>1, <2>2 DEF DeletionAccounted, At
  <2>6. Synced'
    <3> SUFFICES ASSUME Calm', ~rec.deleting
                 PROVE  (At("cls") => Classified)' /\ (At("act") => Accounted)'
      BY <2>1 DEF Synced, At
    <3>1. rec.modify = NoId
      BY <2>1 DEF IInv, ControlInv, Synced, Calm, NodeRuns, At
    <3>2. Classified'
      BY <2>1, <2>3, <3>1 DEF Classified, AsListed
    <3>3. C = {} => Accounted'
      BY <2>1, <2>3, <3>1 DEF Accounted, AsListed
    <3> QED BY <2>1, <3>2, <3>3 DEF At
  <2> QED BY <2>4, <2>5, <2>6 DEF Rest, ControlInv
<1>6. CASE GetCacheInstancesFails
  <2>1. DeviceUnique'
    BY <1>6 DEF GetCacheInstancesFails, IInv, DeviceUnique
  <2> QED BY <1>6, <2>1, Requeued DEF GetCacheInstancesFails
<1>7. CASE GetCacheLineSize
  <2>1. PICK i \in Candidates(rec.inst) :
          /\ i \in DOMAIN caches
          /\ rec' = IF caches[i].cls = TargetCls(rec.spec)
                    THEN [rec EXCEPT !.pc = "act", !.modify = i]
                    ELSE [rec EXCEPT !.pc = "act", !.todo = rec.todo \cup {i}]
    BY <1>7 DEF GetCacheLineSize, Succeeds
  <2>2. /\ At("cls") /\ UNCHANGED <<cr, nodeObj, up, caches, queue>>
        /\ i \in DOMAIN rec.inst /\ rec.inst[i].dev = rec.spec.dev /\ ~rec.deleting
    BY <1>7, <2>1 DEF GetCacheLineSize, Candidates
  <2>3. /\ rec'.pc = "act" /\ rec'.inst = rec.inst /\ rec'.err = rec.err
        /\ rec'.spec = rec.spec /\ rec'.deleting = rec.deleting
    BY <2>1, <1>a DEF Locals
  <2>4. \/ caches[i].cls = TargetCls(rec.spec) /\ rec'.modify = i /\ rec'.todo = rec.todo
        \/ rec'.modify = rec.modify /\ rec'.todo = rec.todo \cup {i}
    BY <2>1, <1>a DEF Locals
  <2>5. StartedId' /\ DeviceUnique' /\ Fresh' /\ SettledMeansConfigured' /\ DeletionAccounted'
    BY <2>2, <2>3 DEF IInv, StartedId, DeviceUnique, ControlInv, Fresh,
       SettledMeansConfigured, Settled, AtRest, At, DeletionAccounted
  <2>6. ASSUME Calm'
        PROVE  Accounted'
    <3>1. Classified
      BY <2>2, <2>6 DEF IInv, ControlInv, Synced, Calm, NodeRuns
    <3>2. \A j \in DOMAIN caches : AsListed(j)'
      BY <2>2, <2>3, <3>1 DEF Classified, AsListed
    <3>3. caches[i].dev = rec.spec.dev
      BY <2>1, <2>2, <3>1 DEF Classified, AsListed
    <3>4. \A j \in DOMAIN caches : j \in rec.todo \/ j = i
      BY <2>1, <3>1, <3>3 DEF Classified, IInv, DeviceUnique
    <3>5. i \notin rec.todo
      BY <2>1, <3>1, <3>3 DEF Classified
    <3>6. \A j \in DOMAIN caches : j \in rec'.todo \/ j = rec'.modify
      BY <2>4, <3>4
    <3>7. rec'.modify # NoId =>
             /\ rec'.modify \in DOMAIN caches \ rec'.todo
             /\ caches[rec'.modify].dev = rec.spec.dev
             /\ caches[rec'.modify].cls = TargetCls(rec.spec)
      BY <2>1, <2>4, <3>1, <3>3, <3>5 DEF Classified
    <3> QED BY <2>2, <2>3, <3>2, <3>6, <3>7 DEF Accounted
  <2>7. Synced'
    BY <2>3, <2>6 DEF Synced, At
  <2> QED BY <2>5, <2>7 DEF Rest, ControlInv
<1>8. CASE GetCacheLineSizeFails
  <2>1. DeviceUnique'
    BY <1>8 DEF GetCacheLineSizeFails, IInv, DeviceUnique
  <2> QED BY <1>8, <2>1, Requeued DEF GetCacheLineSizeFails
<1> QED BY <1>1, <1>2, <1>3, <1>4, <1>5, <1>6, <1>7, <1>8

\* A removal: the cache is gone, or the error is remembered, or (in a deletion)
\* it was listed with volumes.
LEMMA RemovalStep ==
    ASSUME IInv, At("act"), NEW i \in rec.todo, NEW b \in BOOLEAN, Removed(i, b),
           UNCHANGED <<cr, nodeObj, up, queue>>,
           \/ caches' = Stopped(caches, i)
           \/ UNCHANGED caches /\ (b \/ (rec.deleting /\ rec.inst[i].vols # {}))
    PROVE  Rest'
<1>a. rec \in Locals
  BY DEF IInv, TypeOK
<1>1. /\ rec'.pc = rec.pc /\ rec'.inst = rec.inst /\ rec'.spec = rec.spec
      /\ rec'.deleting = rec.deleting /\ rec'.modify = rec.modify
      /\ rec'.todo = rec.todo \ {i} /\ (rec'.err <=> (rec.err \/ b))
  BY <1>a DEF Removed, Locals
<1>2. /\ DOMAIN caches' \subseteq DOMAIN caches
      /\ \A j \in DOMAIN caches' : caches'[j] = caches[j]
      /\ DOMAIN caches \ {i} \subseteq DOMAIN caches'
      /\ i \notin DOMAIN caches' \/ b \/ (rec.deleting /\ rec.inst[i].vols # {})
  BY StoppedFacts
<1>3. StartedId' /\ DeviceUnique' /\ Fresh' /\ SettledMeansConfigured'
  BY <1>1, <1>2 DEF IInv, StartedId, DeviceUnique, ControlInv, Fresh,
     SettledMeansConfigured, Settled, AtRest, At
<1>4. DeletionAccounted'
  BY <1>1, <1>2 DEF IInv, DeletionAccounted, At
<1>5. ASSUME Calm', ~rec.deleting
      PROVE  Accounted'
  <2>1. Accounted
    BY <1>5 DEF IInv, ControlInv, Synced, Calm, NodeRuns
  <2>2. \A j \in DOMAIN caches' : AsListed(j)'
    BY <1>1, <1>2, <2>1 DEF Accounted, AsListed
  <2>3. \A j \in DOMAIN caches' : j \in rec'.todo \/ j = rec'.modify \/ rec'.err
    BY <1>1, <1>2, <1>5, <2>1 DEF Accounted
  <2>4. rec'.modify # NoId =>
           /\ rec'.modify \in DOMAIN caches' \ rec'.todo
           /\ caches'[rec'.modify].dev = rec'.spec.dev
           /\ caches'[rec'.modify].cls = TargetCls(rec'.spec)
    BY <1>1, <1>2, <2>1 DEF Accounted
  <2> QED BY <2>2, <2>3, <2>4 DEF Accounted
<1>6. Synced'
  BY <1>1, <1>5 DEF Synced, At
<1> QED BY <1>3, <1>4, <1>6 DEF Rest, ControlInv

\* Reconcile has applied the specification, or remembers that it could not.
LEMMA ReleaseStep ==
    ASSUME IInv, At("act") \/ At("label"), NEW b \in BOOLEAN, Release(b),
           At("act") => rec.todo = {},
           UNCHANGED <<cr, nodeObj, up, queue>>,
           DeviceUnique', DOMAIN caches' = DOMAIN caches,
           ~rec.deleting /\ Calm => rec.err \/ b \/ Configured(caches', rec.spec)
    PROVE  Rest'
<1>a. rec \in Locals
  BY DEF IInv, TypeOK
<1>1. /\ rec'.pc = "release" /\ rec'.inst = rec.inst /\ rec'.spec = rec.spec
      /\ rec'.deleting = rec.deleting /\ (rec'.err <=> (rec.err \/ b))
  BY <1>a DEF Release, Locals
<1>2. StartedId' /\ Fresh' /\ SettledMeansConfigured'
  BY <1>1 DEF IInv, StartedId, ControlInv, Fresh, SettledMeansConfigured, Settled, AtRest, At
<1>3. DeletionAccounted'
  BY <1>1 DEF IInv, DeletionAccounted, At
<1>4. Synced'
  BY <1>1 DEF Synced, Calm, NodeRuns, At
<1> QED BY <1>2, <1>3, <1>4 DEF Rest, ControlInv

\* The removals, the wanted cache, and the end of Reconcile.
LEMMA RestReconcile2 ==
    ASSUME IInv,
           \/ UnsetLabel \/ StopCache \/ DeferStop
           \/ NothingToApply \/ SetCacheMode \/ StartCache \/ StartCacheFails
           \/ SetOperatingCacheLabel \/ Finish \/ RemoveFinalizer \/ DeleteOperatingCacheLabel
    PROVE  Rest'
<1> USE DEF apiVars, nodeVars
<1>a. /\ rec \in Locals /\ caches \in CacheTable /\ rec.spec \in CacheSpec
      /\ rec.deleting \in BOOLEAN /\ rec.err \in BOOLEAN /\ queue \in BOOLEAN
  BY DEF IInv, TypeOK, Locals
<1>b. ASSUME At("act"), rec.todo = {}, Calm, ~rec.deleting, ~rec.err
      PROVE  /\ DOMAIN caches \subseteq {rec.modify}
             /\ rec.modify # NoId =>
                  /\ rec.modify \in DOMAIN caches
                  /\ caches[rec.modify].dev = rec.spec.dev
                  /\ caches[rec.modify].cls = TargetCls(rec.spec)
                  /\ caches[rec.modify].mode = rec.inst[rec.modify].mode
  BY <1>b DEF IInv, ControlInv, Synced, Accounted, AsListed
<1>1. CASE UnsetLabel
  <2>1. PICK i \in rec.todo : rec' = [rec EXCEPT !.cur = i, !.opLabel = EmptyLabel]
    BY <1>1 DEF UnsetLabel
  <2>2. /\ rec'.pc = "act" /\ rec'.inst = rec.inst /\ rec'.spec = rec.spec
        /\ rec'.deleting = rec.deleting /\ rec'.modify = rec.modify
        /\ rec'.todo = rec.todo /\ rec'.err = rec.err
        /\ At("act") /\ UNCHANGED <<cr, nodeObj, up, caches, queue>>
    BY <1>1, <1>a, <2>1 DEF UnsetLabel, Locals, At
  <2>3. Accounted => Accounted'
    BY <2>2 DEF Accounted, AsListed
  <2> QED
    BY <2>2, <2>3 DEF IInv, Rest, StartedId, DeviceUnique, DeletionAccounted, ControlInv, Fresh,
       Synced, Calm, NodeRuns, SettledMeansConfigured, Settled, AtRest, At
<1>2. CASE StopCache
  <2>1. PICK i \in rec.todo :
          \/ caches' = Stopped(caches, i) /\ (Removed(i, FALSE) \/ Removed(i, TRUE))
          \/ UNCHANGED caches /\ Removed(i, TRUE)
    BY <1>2 DEF StopCache
  <2>2. At("act") /\ UNCHANGED <<cr, nodeObj, up, queue>>
    BY <1>2 DEF StopCache
  <2> QED BY <2>1, <2>2, RemovalStep
<1>3. CASE DeferStop
  <2>1. PICK i \in rec.todo : rec.inst[i].vols # {} /\ Removed(i, ~rec.deleting)
    BY <1>3 DEF DeferStop
  <2>2. At("act") /\ UNCHANGED <<cr, nodeObj, up, queue, caches>>
    BY <1>3 DEF DeferStop
  <2>3. (~rec.deleting) \in BOOLEAN
    OBVIOUS
  <2> QED BY <1>a, <2>1, <2>2, <2>3, RemovalStep
<1>4. CASE NothingToApply
  <2>1. /\ At("act") /\ rec.todo = {} /\ Release(FALSE)
        /\ UNCHANGED <<cr, nodeObj, up, queue, caches>>
        /\ ~rec.deleting => rec.modify # NoId
    BY <1>4 DEF NothingToApply, RemovalsDone
  <2>2. rec.modify # NoId => rec.inst[rec.modify].mode = TargetMode(rec.spec)
    BY <1>4 DEF NothingToApply
  <2>3. ~rec.deleting /\ Calm => rec.err \/ Configured(caches', rec.spec)
    BY <1>b, <2>1, <2>2 DEF Configured, Fits
  <2>4. DeviceUnique'
    BY <2>1 DEF IInv, DeviceUnique
  <2> QED BY <2>1, <2>3, <2>4, ReleaseStep
<1>5. CASE SetCacheMode
  <2> DEFINE i == rec.modify
             m == TargetMode(rec.spec)
  <2>1. /\ At("act") /\ rec.todo = {} /\ i # NoId
        /\ UNCHANGED <<cr, nodeObj, up, queue>>
    BY <1>5 DEF SetCacheMode, RemovalsDone
  <2>2. \/ i \in DOMAIN caches /\ caches' = ModeSet(caches, i, m) /\ (Release(FALSE) \/ Release(TRUE))
        \/ UNCHANGED caches /\ Release(TRUE)
    BY <1>5 DEF SetCacheMode, Succeeds
  <2>3. m \in CacheModes
    BY <1>a, DefaultsAssumption DEF TargetMode, CacheSpec
  <2>4. CASE i \in DOMAIN caches /\ caches' = ModeSet(caches, i, m) /\ (Release(FALSE) \/ Release(TRUE))
    <3>1. /\ DOMAIN caches' = DOMAIN caches
          /\ \A j \in DOMAIN caches :
                /\ caches'[j].dev = caches[j].dev
                /\ caches'[j].cls = caches[j].cls
                /\ caches'[j].mode = IF j = i THEN m ELSE caches[j].mode
      BY <1>a, <2>3, <2>4, ModeSetType
    <3>2. DeviceUnique'
      BY <3>1 DEF IInv, DeviceUnique
    <3>3. ~rec.deleting /\ Calm => rec.err \/ Configured(caches', rec.spec)
      BY <1>b, <2>1, <2>4, <3>1 DEF Configured, Fits
    <3> QED BY <2>1, <2>4, <3>1, <3>2, <3>3, ReleaseStep
  <2>5. CASE UNCHANGED caches /\ Release(TRUE)
    <3>1. DeviceUnique'
      BY <2>5 DEF IInv, DeviceUnique
    <3> QED BY <2>1, <2>5, <3>1, ReleaseStep
  <2> QED BY <2>2, <2>4, <2>5
<1>6. CASE StartCache
  <2>1. PICK i \in CacheIds \ DOMAIN caches :
          /\ caches' = Started(caches, i, rec.spec)
          /\ rec' = [rec EXCEPT !.pc = "label", !.cur = i]
    BY <1>6 DEF StartCache
  <2>2. /\ At("act") /\ rec.todo = {} /\ rec.modify = NoId /\ ~rec.deleting
        /\ CanStart(caches, rec.spec.dev)
        /\ UNCHANGED <<cr, nodeObj, up, queue>>
    BY <1>6 DEF StartCache, MustStart, RemovalsDone, Succeeds, StartAccepted
  <2>3. /\ rec'.pc = "label" /\ rec'.cur = i /\ rec'.spec = rec.spec
        /\ rec'.deleting = rec.deleting /\ rec'.err = rec.err
    BY <1>a, <2>1 DEF Locals
  <2>4. DeviceUnique'
    BY <2>1, <2>2, DeviceUniqueStarted DEF IInv
  <2>5. ASSUME Calm, ~rec.err
        PROVE  Configured(caches', rec.spec)
    <3>1. DOMAIN caches = {}
      BY <1>b, <2>2, <2>5, <1>a, TableDef, ReconcilerAssumption
    <3>2. DOMAIN caches' = {i} /\ caches'[i] = NewCache(rec.spec)
      BY <2>1, <3>1 DEF Started
    <3> QED BY <3>2 DEF Configured, Fits, NewCache
  <2> QED
    BY <2>1, <2>2, <2>3, <2>4, <2>5
    DEF IInv, Rest, StartedId, DeletionAccounted, ControlInv, Fresh,
        Synced, Calm, NodeRuns, SettledMeansConfigured, Settled, AtRest, At
<1>7. CASE StartCacheFails
  <2>1. DeviceUnique'
    <3>1. CASE UNCHANGED caches
      BY <3>1 DEF IInv, DeviceUnique
    <3>2. CASE StartAccepted /\ \E i \in CacheIds \ DOMAIN caches : caches' = Started(caches, i, rec.spec)
      BY <3>2, DeviceUniqueStarted DEF StartAccepted, IInv
    <3> QED BY <1>7, <3>1, <3>2 DEF StartCacheFails
  <2> QED BY <1>7, <2>1, Requeued DEF StartCacheFails
<1>8. CASE SetOperatingCacheLabel
  <2>1. At("label") /\ Release(FALSE) /\ UNCHANGED <<cr, nodeObj, up, queue, caches>>
    BY <1>8 DEF SetOperatingCacheLabel
  <2>2. DeviceUnique'
    BY <2>1 DEF IInv, DeviceUnique
  <2>3. ~rec.deleting /\ Calm => rec.err \/ Configured(caches', rec.spec)
    BY <2>1 DEF IInv, ControlInv, Synced
  <2>4. ~At("act")
    BY <2>1 DEF At
  <2> QED BY <2>1, <2>2, <2>3, <2>4, ReleaseStep
<1>9. CASE Finish
  <2>1. /\ At("release") /\ (rec.err \/ ~rec.deleting) /\ UNCHANGED <<cr, nodeObj, up, caches>>
        /\ rec'.pc = "idle" /\ rec'.deleting = FALSE
    BY <1>9 DEF Finish, MayRelease, Return, IdleRec, Begin
  <2>2. queue' = (queue \/ rec.err)
    BY <1>9 DEF Finish, Return
  <2>3. ~queue' => ~queue /\ ~rec.err
    BY <2>2, <1>a
  <2>4. SettledMeansConfigured'
    BY <2>1, <2>3 DEF IInv, ControlInv, Fresh, Synced, Calm, NodeRuns,
       SettledMeansConfigured, Settled, AtRest, At
  <2> QED
    BY <2>1, <2>4 DEF IInv, Rest, StartedId, DeviceUnique, DeletionAccounted, ControlInv, Fresh, Synced, At
<1>10. CASE RemoveFinalizer
  <2>1. rec'.pc = "unlabel" /\ queue' = TRUE /\ UNCHANGED caches
    BY <1>10, <1>a DEF RemoveFinalizer, Locals
  <2> QED
    BY <2>1 DEF IInv, Rest, StartedId, DeviceUnique, DeletionAccounted, ControlInv, Fresh,
       Synced, Calm, SettledMeansConfigured, Settled, AtRest, At
<1>11. CASE DeleteOperatingCacheLabel
  <2>1. At("unlabel") /\ UNCHANGED caches /\ rec'.pc = "idle" /\ rec'.deleting = FALSE
    BY <1>11 DEF DeleteOperatingCacheLabel, Return, IdleRec, Begin
  <2>2. queue
    BY <2>1 DEF IInv, ControlInv, Fresh
  <2>3. queue' = TRUE
    BY <1>11, <1>a, <2>2 DEF DeleteOperatingCacheLabel, Return
  <2> QED
    BY <2>1, <2>3 DEF IInv, Rest, StartedId, DeviceUnique, DeletionAccounted, ControlInv, Fresh,
       Synced, Calm, SettledMeansConfigured, Settled, AtRest, At
<1> QED BY <1>1, <1>2, <1>3, <1>4, <1>5, <1>6, <1>7, <1>8, <1>9, <1>10, <1>11

\* The operator's failures, apart from a listing that is cut short.
LEMMA RestFaults ==
    ASSUME IInv, "cut" \notin FaultKinds, OperatorFaults
    PROVE  Rest'
<1> USE DEF apiVars, nodeVars
<1>1. CASE ReconcileGetFails
  BY <1>1, VolumesOnly DEF ReconcileGetFails
<1>2. CASE GetCacheInstancesCut
  BY <1>2 DEF GetCacheInstancesCut, Fault
<1>3. CASE RemoveFinalizerFails
  <2>1. DeviceUnique'
    BY <1>3 DEF RemoveFinalizerFails, IInv, DeviceUnique
  <2> QED BY <1>3, <2>1, Requeued DEF RemoveFinalizerFails
<1>4. CASE OperatorCrash
  <2>1. rec'.pc = "idle" /\ rec'.deleting = FALSE /\ queue' = cr.present /\ UNCHANGED <<cr, caches>>
    BY <1>4 DEF OperatorCrash, IdleRec, Begin
  <2> QED
    BY <2>1 DEF IInv, Rest, StartedId, DeviceUnique, DeletionAccounted, ControlInv, Fresh,
       Synced, Calm, SettledMeansConfigured, Settled, AtRest, At
<1> QED BY <1>1, <1>2, <1>3, <1>4 DEF OperatorFaults

\* Every step preserves the invariant.
LEMMA InvNext ==
    ASSUME IInv, "cut" \notin FaultKinds, [Next]_vars
    PROVE  IInv'
<1>1. CASE Next
  <2>1. TypeOK /\ StartedId
    BY DEF IInv
  <2>2. TypeOK'
    BY <1>1, <2>1, TypeReconcile1, TypeReconcile2, TypeEnvironment
    DEF Next, OperatorNext, Reconcile
  <2>3. Rest'
    BY <1>1, RestReconcile1, RestReconcile2, RestFaults, RestEnvironment
    DEF Next, OperatorNext, Reconcile
  <2> QED BY <2>2, <2>3 DEF IInv, Rest
<1>2. CASE UNCHANGED vars
  <2>1. TypeOK'
    BY <1>2 DEF vars, IInv, TypeOK
  <2>2. Rest'
    BY <1>2, VolumesOnly DEF vars
  <2> QED BY <2>1, <2>2 DEF IInv, Rest
<1> QED BY <1>1, <1>2

\* The inductive invariant holds in every reachable state.
LEMMA InvAlways == ASSUME "cut" \notin FaultKinds PROVE Spec => []IInv
  BY InvInit, InvNext, PTL DEF Spec

\* Only the start of a cache leads to the labelling step.
LEMMA StartedIdStep ==
    ASSUME TypeOK, StartedId, Next
    PROVE  StartedId'
<1>a. rec \in Locals
  BY DEF TypeOK
<1>1. CASE StartCache
  <2>1. PICK i \in CacheIds : rec' = [rec EXCEPT !.pc = "label", !.cur = i]
    BY <1>1 DEF StartCache
  <2> QED BY <1>a, <2>1 DEF StartedId, Locals
<1>2. CASE UNCHANGED rec
  BY <1>2 DEF StartedId, At
<1>3. CASE rec'.pc # "label"
  BY <1>3 DEF StartedId, At
<1>4. \A b : Return(b) => rec'.pc = "idle"
  BY DEF Return, IdleRec, Begin
<1>5. \A b : Release(b) => rec'.pc = "release"
  BY <1>a DEF Release, Locals
<1>6. ASSUME At("act"), NEW i, NEW b, Removed(i, b)
      PROVE  rec'.pc = "act"
  BY <1>a, <1>6 DEF Removed, Locals, At
<1>7. \A c : Listed(c) => rec'.pc \in {"act", "cls"}
  BY <1>a DEF Listed, Locals
<1>8. ReconcileStart => rec'.pc \in {"list", "finalizer"}
  BY DEF ReconcileStart, Begin
<1>9. AddFinalizer \/ AddFinalizerFails => rec'.pc = "list"
  BY <1>a DEF AddFinalizer, AddFinalizerFails, Locals
<1>10. GetCacheLineSize => rec'.pc = "act"
  BY <1>a DEF GetCacheLineSize, Locals
<1>11. UnsetLabel => rec'.pc = "act"
  BY <1>a DEF UnsetLabel, Locals, At
<1>12. StopCache \/ DeferStop => rec'.pc = "act"
  BY <1>6 DEF StopCache, DeferStop
<1>13. NothingToApply \/ SetCacheMode \/ SetOperatingCacheLabel => rec'.pc = "release"
  BY <1>5 DEF NothingToApply, SetCacheMode, SetOperatingCacheLabel
<1>14. RemoveFinalizer => rec'.pc = "unlabel"
  BY <1>a DEF RemoveFinalizer, Locals
<1>15. OperatorCrash => rec'.pc = "idle"
  BY DEF OperatorCrash, IdleRec, Begin
<1>16. GetCacheInstancesFails \/ GetCacheLineSizeFails \/ StartCacheFails \/ Finish
         \/ DeleteOperatingCacheLabel \/ RemoveFinalizerFails => rec'.pc = "idle"
  BY <1>4 DEF GetCacheInstancesFails, GetCacheLineSizeFails, StartCacheFails, Finish,
     DeleteOperatingCacheLabel, RemoveFinalizerFails
<1>17. GetCacheInstances \/ GetCacheInstancesCut => rec'.pc \in {"act", "cls"}
  BY <1>7 DEF GetCacheInstances, GetCacheInstancesCut
<1>18. ReconcileSkip \/ ReconcileGetFails \/ UserNext \/ VolumeNext \/ OutageNext => UNCHANGED rec
  BY DEF ReconcileSkip, ReconcileGetFails, UserNext, CreateCache, EditCache, DeleteCache,
     UserEdit, VolumeNext, AddCore, MountVolume, UnmountVolume, RemoveCore, OutageNext,
     Reboot, NodeReady, NodeDeleted, NodeCreated
<1> QED
  BY <1>1, <1>2, <1>3, <1>8, <1>9, <1>10, <1>11, <1>12, <1>13, <1>14, <1>15, <1>16, <1>17, <1>18
  DEF Next, OperatorNext, Reconcile, OperatorFaults

\* Every state the controller, the API objects and the node reach is
\* well-typed, whatever calls fail; the label in particular is always absent,
\* empty or the id of a cache (SetOperatingCacheLabel, lines 241-247).
THEOREM TypeCorrect == Spec => []TypeOK
<1>1. Init => TypeOK /\ StartedId
  BY InvInit DEF IInv
<1>2. TypeOK /\ StartedId /\ [Next]_vars => (TypeOK /\ StartedId)'
  <2> SUFFICES ASSUME TypeOK, StartedId, [Next]_vars
               PROVE  TypeOK' /\ StartedId'
    OBVIOUS
  <2>1. CASE Next
    BY <2>1, StartedIdStep, TypeReconcile1, TypeReconcile2, TypeEnvironment
    DEF Next, OperatorNext, Reconcile
  <2>2. CASE UNCHANGED vars
    BY <2>2 DEF vars, TypeOK, StartedId, At
  <2> QED BY <2>1, <2>2
<1> QED BY <1>1, <1>2, PTL DEF Spec

\* However edits, volumes, outages, crashes and failing calls interleave with
\* Reconcile, it comes to rest only on a node that runs exactly the cache the
\* resource asks for (provided no listing is cut short).
THEOREM RestIsConfigured == "cut" \notin FaultKinds => (Spec => []SettledMeansConfigured)
<1> SUFFICES ASSUME "cut" \notin FaultKinds PROVE Spec => []SettledMeansConfigured
  OBVIOUS
<1>1. IInv => SettledMeansConfigured
  BY DEF IInv, ControlInv
<1> QED BY <1>1, InvAlways, PTL

\* The finalizer of a deleted resource is given up only when every cache that
\* still runs is one the reconciliation saw with volumes (provided no listing
\* is cut short).
THEOREM FinalizerHeld == "cut" \notin FaultKinds => (Spec => FinalizerHeldUntilClean)
<1> SUFFICES ASSUME "cut" \notin FaultKinds PROVE Spec => FinalizerHeldUntilClean
  OBVIOUS
<1> DEFINE Clean == \A i \in DOMAIN caches : i \in DOMAIN rec.inst /\ rec.inst[i].vols # {}
<1>1. IInv /\ [Next]_vars => [cr.present /\ cr.deleting /\ ~cr'.present => Clean]_vars
  <2> SUFFICES ASSUME IInv, Next, cr.present, cr.deleting, ~cr'.present
               PROVE  Clean
    BY DEF vars
  <2>1. cr \in Resource
    BY DEF IInv, TypeOK
  <2>2. CASE RemoveFinalizer
    BY <2>2 DEF RemoveFinalizer, MayRelease, IInv, DeletionAccounted
  <2>3. CASE UserNext \/ AddFinalizer
    BY <2>1, <2>3 DEF UserNext, CreateCache, EditCache, DeleteCache, AddFinalizer, Resource
  <2>4. CASE UNCHANGED cr
    BY <2>4
  <2>5. RemoveFinalizer \/ UserNext \/ AddFinalizer \/ UNCHANGED cr
    BY DEF Next, OperatorNext, Reconcile, OperatorFaults, VolumeNext, OutageNext, apiVars,
       ReconcileSkip, ReconcileGetFails, ReconcileStart, AddFinalizerFails,
       GetCacheInstances, GetCacheInstancesFails, GetCacheInstancesCut,
       GetCacheLineSize, GetCacheLineSizeFails, UnsetLabel, StopCache, DeferStop,
       NothingToApply, SetCacheMode, StartCache, StartCacheFails, SetOperatingCacheLabel,
       Finish, RemoveFinalizerFails, DeleteOperatingCacheLabel, OperatorCrash,
       AddCore, MountVolume, UnmountVolume, RemoveCore,
       Reboot, NodeReady, NodeDeleted, NodeCreated
  <2> QED BY <2>2, <2>3, <2>4, <2>5
<1> QED BY <1>1, InvAlways, PTL DEF Spec, FinalizerHeldUntilClean
=============================================================================
