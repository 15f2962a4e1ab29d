-------------------------- MODULE CacheLabelProofs --------------------------
(***************************************************************************)
(* What the Cache controller does to the caches that run and to the label  *)
(* on the Node object: it keeps a cache that is still wanted, empties the  *)
(* label of a cache before it stops it, and rests with a label that can be *)
(* used.                                                                   *)
(***************************************************************************)
EXTENDS CacheReconcilerProofs

-----------------------------------------------------------------------------
(***************************************************************************)
(* The label.  What Reconcile does to its locals, step by step.            *)
(***************************************************************************)

\* Returning, releasing and removing.
LEMMA LocalsAfter ==
    ASSUME TypeOK
    PROVE  /\ \A b : Return(b) => rec'.pc = "idle" /\ rec'.deleting = FALSE
           /\ \A b \in BOOLEAN : Release(b) =>
                 /\ rec'.pc = "release" /\ rec'.spec = rec.spec /\ rec'.deleting = rec.deleting
                 /\ rec'.opLabel = rec.opLabel
                 /\ rec'.err <=> rec.err \/ b
           /\ \A i, b : Removed(i, b) =>
                 /\ rec'.pc = rec.pc /\ rec'.spec = rec.spec /\ rec'.deleting = rec.deleting
                 /\ rec'.opLabel = rec.opLabel /\ rec'.inst = rec.inst /\ rec'.modify = rec.modify
                 /\ rec'.todo = rec.todo \ {i} /\ rec'.cur = NoId
           /\ \A c : Listed(c) =>
                 /\ rec'.pc = IF Candidates(c) = {} THEN "act" ELSE "cls"
                 /\ rec'.inst = c /\ rec'.todo = DOMAIN c \ Candidates(c)
                 /\ rec'.spec = rec.spec /\ rec'.deleting = rec.deleting
                 /\ rec'.opLabel = rec.opLabel /\ rec'.cur = rec.cur /\ rec'.modify = rec.modify
<1>0. rec \in Locals
  BY DEF TypeOK
<1>1. \A b : Return(b) => rec'.pc = "idle" /\ rec'.deleting = FALSE
  BY DEF Return, IdleRec, Begin
<1>2. ASSUME NEW b \in BOOLEAN, Release(b)
      PROVE  /\ rec'.pc = "release" /\ rec'.spec = rec.spec /\ rec'.deleting = rec.deleting
             /\ rec'.opLabel = rec.opLabel
             /\ rec'.err <=> rec.err \/ b
  BY <1>0, <1>2 DEF Release, Locals
<1>3. ASSUME NEW i, NEW b, Removed(i, b)
      PROVE  /\ rec'.pc = rec.pc /\ rec'.spec = rec.spec /\ rec'.deleting = rec.deleting
             /\ rec'.opLabel = rec.opLabel /\ rec'.inst = rec.inst /\ rec'.modify = rec.modify
             /\ rec'.todo = rec.todo \ {i} /\ rec'.cur = NoId
  BY <1>0, <1>3 DEF Removed, Locals
<1>4. ASSUME NEW c, Listed(c)
      PROVE  /\ rec'.pc = IF Candidates(c) = {} THEN "act" ELSE "cls"
             /\ rec'.inst = c /\ rec'.todo = DOMAIN c \ Candidates(c)
             /\ rec'.spec = rec.spec /\ rec'.deleting = rec.deleting
             /\ rec'.opLabel = rec.opLabel /\ rec'.cur = rec.cur /\ rec'.modify = rec.modify
  BY <1>0, <1>4 DEF Listed, Locals
<1> QED BY <1>1, <1>2, <1>3, <1>4

\* The other steps of Reconcile.
LEMMA StepsAfter ==
    ASSUME TypeOK
    PROVE  /\ ReconcileStart =>
                 /\ rec'.pc \in {"list", "finalizer"} /\ rec'.spec = cr.spec
                 /\ rec'.deleting = cr.deleting /\ rec'.opLabel = shown'
                 /\ rec'.cur = NoId /\ rec'.modify = NoId
           /\ AddFinalizer \/ AddFinalizerFails =>
                 /\ rec'.pc = "list" /\ rec'.deleting = rec.deleting /\ rec'.opLabel = rec.opLabel
                 /\ rec'.cur = rec.cur /\ rec'.modify = rec.modify
           /\ AddFinalizerFails => rec'.spec = rec.spec
           /\ UnsetLabel => \E i \in rec.todo :
                 /\ rec'.pc = rec.pc /\ rec'.spec = rec.spec /\ rec'.deleting = rec.deleting
                 /\ rec'.opLabel = EmptyLabel /\ rec'.inst = rec.inst /\ rec'.modify = rec.modify
                 /\ rec'.todo = rec.todo /\ rec'.cur = i
           /\ StartCache => \E i \in CacheIds \ DOMAIN caches :
                 /\ caches' = Started(caches, i, rec.spec)
                 /\ rec'.pc = "label" /\ rec'.spec = rec.spec /\ rec'.deleting = rec.deleting
                 /\ rec'.cur = i /\ rec'.opLabel = rec.opLabel
           /\ RemoveFinalizer =>
                 rec'.pc = "unlabel" /\ rec'.opLabel = rec.opLabel /\ rec'.deleting = rec.deleting
           /\ OperatorCrash => rec'.pc = "idle" /\ rec'.deleting = FALSE
<1>0. rec \in Locals
  BY DEF TypeOK
<1>1. ReconcileStart => /\ rec'.pc \in {"list", "finalizer"} /\ rec'.spec = cr.spec
                        /\ rec'.deleting = cr.deleting /\ rec'.opLabel = shown'
                        /\ rec'.cur = NoId /\ rec'.modify = NoId
  BY DEF ReconcileStart, Begin
<1>2. AddFinalizer \/ AddFinalizerFails =>
          /\ rec'.pc = "list" /\ rec'.deleting = rec.deleting /\ rec'.opLabel = rec.opLabel
          /\ rec'.cur = rec.cur /\ rec'.modify = rec.modify
  BY <1>0 DEF AddFinalizer, AddFinalizerFails, Locals
<1>3. AddFinalizerFails => rec'.spec = rec.spec
  BY <1>0 DEF AddFinalizerFails, Locals
<1>4. ASSUME UnsetLabel
      PROVE  \E i \in rec.todo :
                /\ rec'.pc = rec.pc /\ rec'.spec = rec.spec /\ rec'.deleting = rec.deleting
                /\ rec'.opLabel = EmptyLabel /\ rec'.inst = rec.inst /\ rec'.modify = rec.modify
                /\ rec'.todo = rec.todo /\ rec'.cur = i
  <2>1. PICK i \in rec.todo : rec' = [rec EXCEPT !.cur = i, !.opLabel = EmptyLabel]
    BY <1>4 DEF UnsetLabel
  <2> QED BY <1>0, <2>1 DEF Locals
<1>5. ASSUME StartCache
      PROVE  \E i \in CacheIds \ DOMAIN caches :
                /\ caches' = Started(caches, i, rec.spec)
                /\ rec'.pc = "label" /\ rec'.spec = rec.spec /\ rec'.deleting = rec.deleting
                /\ rec'.cur = i /\ rec'.opLabel = rec.opLabel
  <2>1. PICK i \in CacheIds \ DOMAIN caches :
            caches' = Started(caches, i, rec.spec) /\ rec' = [rec EXCEPT !.pc = "label", !.cur = i]
    BY <1>5 DEF StartCache
  <2>2. /\ rec'.pc = "label" /\ rec'.spec = rec.spec /\ rec'.deleting = rec.deleting
        /\ rec'.cur = i /\ rec'.opLabel = rec.opLabel
    BY <1>0, <2>1 DEF Locals
  <2> QED BY <2>1, <2>2
<1>6. RemoveFinalizer =>
          rec'.pc = "unlabel" /\ rec'.opLabel = rec.opLabel /\ rec'.deleting = rec.deleting
  BY <1>0 DEF RemoveFinalizer, Locals
<1>7. OperatorCrash => rec'.pc = "idle" /\ rec'.deleting = FALSE
  BY DEF OperatorCrash, IdleRec, Begin
<1> QED BY <1>1, <1>2, <1>3, <1>4, <1>5, <1>6, <1>7

\* The steps outside Reconcile leave its locals alone.
LEMMA OutsideLocals ==
    ReconcileSkip \/ ReconcileGetFails \/ UserNext \/ VolumeNext \/ OutageNext => UNCHANGED rec
  BY DEF ReconcileSkip, ReconcileGetFails, UserNext, CreateCache, EditCache, DeleteCache,
     UserEdit, VolumeNext, AddCore, MountVolume, UnmountVolume, RemoveCore, OutageNext,
     Reboot, NodeReady, NodeDeleted, NodeCreated

\* Volumes come and go without changing which caches run or what they are.
LEMMA VolumesLeaveCaches ==
    ASSUME TypeOK, VolumeNext
    PROVE  /\ UNCHANGED <<cr, label, shown, nodeObj, up, queue, rec>>
           /\ DOMAIN caches' = DOMAIN caches
           /\ \A i \in DOMAIN caches : /\ caches'[i].dev = caches[i].dev
                                       /\ caches'[i].cls = caches[i].cls
                                       /\ caches'[i].mode = caches[i].mode
<1>0. caches \in CacheTable
  BY DEF TypeOK
<1>1. UNCHANGED <<cr, label, shown, nodeObj, up, queue, rec>>
  BY DEF VolumeNext, AddCore, MountVolume, UnmountVolume, RemoveCore, apiVars
<1>2. CASE AddCore
  <2>1. PICK i \in DOMAIN caches, v \in Volumes : caches' = CoreAdded(caches, i, v)
    BY <1>2 DEF AddCore
  <2> QED BY <1>0, <1>1, <2>1, CoreAddedType
<1>3. CASE RemoveCore
  <2>1. PICK v \in Volumes, i \in DOMAIN caches : caches' = CoreRemoved(caches, i, v)
    BY <1>3 DEF RemoveCore, CachesWith
  <2> QED BY <1>0, <1>1, <2>1, CoreRemovedType
<1>4. CASE MountVolume \/ UnmountVolume
  BY <1>1, <1>4 DEF MountVolume, UnmountVolume
<1> QED BY <1>2, <1>3, <1>4 DEF VolumeNext

\* casadm --set-cache-mode changes the mode of the cache that stays, if anything.
LEMMA ModeLeavesCaches ==
    ASSUME TypeOK, SetCacheMode
    PROVE  /\ DOMAIN caches' = DOMAIN caches
           /\ \/ UNCHANGED caches
              \/ /\ rec.modify \in DOMAIN caches
                 /\ caches' = ModeSet(caches, rec.modify, TargetMode(rec.spec))
<1>1. caches \in CacheTable /\ TargetMode(rec.spec) \in CacheModes
  BY DefaultsAssumption DEF TypeOK, TargetMode, Locals, CacheSpec
<1>2. \/ UNCHANGED caches
      \/ /\ rec.modify \in DOMAIN caches
         /\ caches' = ModeSet(caches, rec.modify, TargetMode(rec.spec))
  BY DEF SetCacheMode, Succeeds
<1> QED BY <1>1, <1>2, ModeSetType

-----------------------------------------------------------------------------
(***************************************************************************)
(* What happens to the caches.                                             *)
(***************************************************************************)

\* Every step leaves the table of caches alone, or does one of five things to it.
LEMMA CachesChange ==
    ASSUME TypeOK, [Next]_vars
    PROVE  \/ UNCHANGED caches
           \/ /\ At("act") /\ rec.todo = {} /\ CanStart(caches, rec.spec.dev)
              /\ rec'.pc \in {"label", "idle"}
              /\ \E i \in CacheIds \ DOMAIN caches : caches' = Started(caches, i, rec.spec)
           \/ /\ StopCache
              /\ \E i \in rec.todo : /\ Turn(i) /\ ~MustUnlabel(i)
                                     /\ caches' = Stopped(caches, i)
           \/ /\ VolumeNext \/ SetCacheMode
              /\ DOMAIN caches' = DOMAIN caches
              /\ \A i \in DOMAIN caches : /\ caches'[i].dev = caches[i].dev
                                          /\ caches'[i].cls = caches[i].cls
           \/ Reboot /\ DOMAIN caches' = {}
<1>0. caches \in CacheTable /\ TargetMode(rec.spec) \in CacheModes
  BY DefaultsAssumption DEF TypeOK, TargetMode, Locals, CacheSpec
<1>1. CASE StartCache
  BY <1>1, StepsAfter DEF StartCache, MustStart, RemovalsDone, Succeeds, StartAccepted
<1>2. CASE StartCacheFails
  BY <1>2, LocalsAfter DEF StartCacheFails, MustStart, RemovalsDone, StartAccepted
<1>3. CASE StopCache
  BY <1>3 DEF StopCache
<1>4. CASE VolumeNext
  BY <1>4, VolumesLeaveCaches
<1>5. CASE SetCacheMode
  BY <1>0, <1>5, ModeLeavesCaches, ModeSetType
<1>6. CASE Reboot
  BY <1>6, NoCachesEmpty DEF Reboot
<1>7. \/ StopCache \/ Reboot \/ VolumeNext \/ SetCacheMode \/ StartCache \/ StartCacheFails
      \/ UNCHANGED caches
  BY DEF Next, OperatorNext, Reconcile, OperatorFaults, UserNext, OutageNext, nodeVars, vars,
     ReconcileSkip, ReconcileGetFails, ReconcileStart, AddFinalizer, AddFinalizerFails,
     GetCacheInstances, GetCacheInstancesFails, GetCacheInstancesCut,
     GetCacheLineSize, GetCacheLineSizeFails, UnsetLabel, DeferStop,
     NothingToApply, SetOperatingCacheLabel, Finish, RemoveFinalizer,
     RemoveFinalizerFails, DeleteOperatingCacheLabel, OperatorCrash,
     CreateCache, EditCache, DeleteCache, UserEdit, NodeReady, NodeDeleted, NodeCreated
<1> QED BY <1>1, <1>2, <1>3, <1>4, <1>5, <1>6, <1>7

\* No two caches ever share a device, whatever calls fail.
LEMMA DeviceUniqueAlways == Spec => []DeviceUnique
<1>1. Init => DeviceUnique
  BY InvInit DEF IInv
<1>2. ASSUME TypeOK, DeviceUnique, [Next]_vars PROVE DeviceUnique'
  <2>1. CASE UNCHANGED caches
    BY <1>2, <2>1 DEF DeviceUnique
  <2>2. CASE /\ CanStart(caches, rec.spec.dev)
             /\ \E i \in CacheIds \ DOMAIN caches : caches' = Started(caches, i, rec.spec)
    BY <1>2, <2>2, DeviceUniqueStarted
  <2>3. CASE \E i \in rec.todo : caches' = Stopped(caches, i)
    BY <1>2, <2>3, StoppedFacts DEF DeviceUnique
  <2>4. CASE /\ DOMAIN caches' = DOMAIN caches
             /\ \A i \in DOMAIN caches : caches'[i].dev = caches[i].dev
    BY <1>2, <2>4 DEF DeviceUnique
  <2>5. CASE DOMAIN caches' = {}
    BY <2>5 DEF DeviceUnique
  <2> QED BY <1>2, <2>1, <2>2, <2>3, <2>4, <2>5, CachesChange
<1> QED BY <1>1, <1>2, TypeCorrect, PTL DEF Spec

-----------------------------------------------------------------------------
(***************************************************************************)
(* A cache that is still wanted is not stopped.  What is to be removed was *)
(* listed, and its id may since have gone with a reboot; but nobody else   *)
(* starts caches, and Reconcile starts its own only after the removals.    *)
(***************************************************************************)
Unwanted(i) == caches[i].dev # rec.spec.dev \/ caches[i].cls # TargetCls(rec.spec)

RemovesUnwanted ==
    /\ rec.deleting => ~At("idle") /\ (At("unlabel") \/ (cr.present /\ cr.deleting))
    /\ (At("cls") \/ At("act")) /\ ~rec.deleting =>
          \A i \in rec.todo \cap DOMAIN caches : Unwanted(i)

\* What users do to the resource, and that they do nothing else.
LEMMA UsersEdit ==
    ASSUME TypeOK, UserNext
    PROVE  /\ UNCHANGED <<label, nodeObj, up, caches, rec>> /\ queue' = TRUE
           /\ \/ ~cr.present /\ cr'.present /\ ~cr'.deleting
              \/ cr.present /\ cr'.present /\ (cr.deleting => cr'.deleting)
              \/ cr.present /\ ~cr.deleting /\ ~cr'.deleting
<1>0. cr \in Resource
  BY DEF TypeOK
<1>1. UNCHANGED <<label, nodeObj, up, caches, rec>> /\ queue' = TRUE
  BY DEF UserNext, CreateCache, EditCache, DeleteCache, UserEdit, nodeVars
<1>2. CreateCache => ~cr.present /\ cr'.present /\ ~cr'.deleting
  BY DEF CreateCache
<1>3. EditCache => cr.present /\ cr'.present /\ (cr.deleting => cr'.deleting)
  BY <1>0 DEF EditCache, Resource
<1>4. DeleteCache => /\ cr.present /\ ~cr.deleting
                     /\ cr'.present \/ ~cr'.deleting
  BY <1>0 DEF DeleteCache, Resource
<1> QED BY <1>1, <1>2, <1>3, <1>4 DEF UserNext

\* Every step keeps it so.
LEMMA UnwantedNext == ASSUME TypeOK, RemovesUnwanted, [Next]_vars PROVE RemovesUnwanted'
<1>0. rec \in Locals /\ cr \in Resource
  BY DEF TypeOK
<1>1. ASSUME rec'.pc = "idle", ~rec'.deleting PROVE RemovesUnwanted'
  BY <1>1 DEF RemovesUnwanted, At
<1>2. ASSUME rec'.pc \in {"list", "finalizer", "label", "release"}, ~At("idle"), ~At("unlabel"),
             UNCHANGED cr, rec'.deleting = rec.deleting
      PROVE  RemovesUnwanted'
  BY <1>2 DEF RemovesUnwanted, At
<1>3. ASSUME UNCHANGED <<cr, caches>>, rec'.spec = rec.spec, rec'.deleting = rec.deleting,
             At("cls") \/ At("act"), rec'.pc = "act", rec'.todo \subseteq rec.todo
      PROVE  RemovesUnwanted'
  BY <1>3 DEF RemovesUnwanted, Unwanted, At
<1>4. ASSUME UNCHANGED rec,
             DOMAIN caches' \subseteq DOMAIN caches,
             \A i \in DOMAIN caches' : /\ caches'[i].dev = caches[i].dev
                                       /\ caches'[i].cls = caches[i].cls,
             cr.present /\ cr.deleting => cr'.present /\ cr'.deleting
      PROVE  RemovesUnwanted'
  BY <1>4 DEF RemovesUnwanted, Unwanted, At
<1>5. CASE ReconcileStart
  <2>1. UNCHANGED cr /\ cr.present
    BY <1>5 DEF ReconcileStart
  <2> QED BY <1>5, <2>1, StepsAfter DEF RemovesUnwanted, At
<1>6. CASE AddFinalizer
  <2>1. At("finalizer") /\ cr'.present = cr.present /\ cr'.deleting = cr.deleting
    BY <1>0, <1>6 DEF AddFinalizer, Resource
  <2> QED BY <1>6, <2>1, StepsAfter DEF RemovesUnwanted, At
<1>7. CASE AddFinalizerFails
  BY <1>2, <1>7, StepsAfter DEF AddFinalizerFails, apiVars, At
<1>8. ASSUME NEW c, At("list"), Listed(c), UNCHANGED <<cr, caches>>, c = caches \/ c = NoCaches
      PROVE  RemovesUnwanted'
  <2>1. /\ rec'.pc \in {"act", "cls"} /\ rec'.todo = DOMAIN c \ Candidates(c)
        /\ rec'.spec = rec.spec /\ rec'.deleting = rec.deleting
    BY <1>8, LocalsAfter
  <2>2. ~rec.deleting => \A i \in rec'.todo \cap DOMAIN caches : Unwanted(i)
    BY <1>8, <2>1, NoCachesEmpty DEF Candidates, Unwanted
  <2> QED BY <1>8, <2>1, <2>2 DEF RemovesUnwanted, Unwanted, At
<1>9. CASE GetCacheInstances \/ GetCacheInstancesCut
  BY <1>8, <1>9 DEF GetCacheInstances, GetCacheInstancesCut, apiVars, nodeVars
<1>10. CASE GetCacheLineSize
  <2>1. UNCHANGED <<cr, caches>> /\ At("cls")
    BY <1>10 DEF GetCacheLineSize, apiVars, nodeVars
  <2>2. PICK i \in Candidates(rec.inst) :
            rec' = IF caches[i].cls = TargetCls(rec.spec)
                   THEN [rec EXCEPT !.pc = "act", !.modify = i]
                   ELSE [rec EXCEPT !.pc = "act", !.todo = @ \cup {i}]
    BY <1>10 DEF GetCacheLineSize
  <2>3. rec'.pc = "act" /\ rec'.spec = rec.spec /\ rec'.deleting = rec.deleting
    BY <1>0, <2>2 DEF Locals
  <2>4. \A j \in rec'.todo : j \in rec.todo \/ caches[j].cls # TargetCls(rec.spec)
    BY <1>0, <2>2 DEF Locals
  <2> QED BY <2>1, <2>3, <2>4 DEF RemovesUnwanted, Unwanted, At
<1>11. CASE UnsetLabel
  <2>1. UNCHANGED <<cr, caches>> /\ At("act")
    BY <1>11 DEF UnsetLabel, nodeVars
  <2> QED BY <1>3, <1>11, <2>1, StepsAfter DEF At
<1>12. CASE StopCache \/ DeferStop
  <2>1. UNCHANGED cr /\ At("act")
    BY <1>12 DEF StopCache, DeferStop, apiVars
  <2>2. PICK i \in rec.todo : /\ caches' = Stopped(caches, i) \/ caches' = caches
                              /\ \E b : Removed(i, b)
    BY <1>12 DEF StopCache, DeferStop, nodeVars
  <2>3. /\ rec'.pc = "act" /\ rec'.spec = rec.spec /\ rec'.deleting = rec.deleting
        /\ rec'.todo \subseteq rec.todo
    BY <2>1, <2>2, LocalsAfter DEF At
  <2>4. DOMAIN caches' \subseteq DOMAIN caches /\ \A j \in DOMAIN caches' : caches'[j] = caches[j]
    BY <2>2, StoppedFacts
  <2> QED BY <2>1, <2>3, <2>4 DEF RemovesUnwanted, Unwanted, At
<1>13. CASE NothingToApply \/ SetCacheMode \/ SetOperatingCacheLabel
  <2>1. UNCHANGED cr /\ (At("act") \/ At("label")) /\ \E b \in BOOLEAN : Release(b)
    BY <1>13 DEF NothingToApply, SetCacheMode, SetOperatingCacheLabel, RemovalsDone, apiVars
  <2> QED BY <1>2, <2>1, LocalsAfter DEF At
<1>14. CASE StartCache
  <2>1. UNCHANGED cr /\ At("act")
    BY <1>14 DEF StartCache, MustStart, RemovalsDone, apiVars
  <2> QED BY <1>2, <1>14, <2>1, StepsAfter DEF At
<1>15. CASE RemoveFinalizer
  BY <1>15, StepsAfter DEF RemovesUnwanted, At
<1>16. CASE \/ GetCacheInstancesFails \/ GetCacheLineSizeFails \/ StartCacheFails \/ Finish
            \/ RemoveFinalizerFails \/ DeleteOperatingCacheLabel \/ OperatorCrash
  <2>1. OperatorCrash \/ \E b : Return(b)
    BY <1>16 DEF GetCacheInstancesFails, GetCacheLineSizeFails, StartCacheFails, Finish,
       RemoveFinalizerFails, DeleteOperatingCacheLabel
  <2> QED BY <1>1, <2>1, LocalsAfter, StepsAfter
<1>17. CASE UserNext
  BY <1>4, <1>17, UsersEdit
<1>18. CASE VolumeNext
  BY <1>4, <1>18, VolumesLeaveCaches
<1>19. CASE Reboot
  BY <1>4, <1>19, NoCachesEmpty DEF Reboot, apiVars
<1>20. CASE \/ ReconcileSkip \/ ReconcileGetFails \/ NodeReady \/ NodeDeleted \/ NodeCreated
            \/ UNCHANGED vars
  BY <1>4, <1>20 DEF ReconcileSkip, ReconcileGetFails, NodeReady, NodeDeleted, NodeCreated,
     apiVars, nodeVars, vars
<1> QED
  BY <1>5, <1>6, <1>7, <1>9, <1>10, <1>11, <1>12, <1>13, <1>14, <1>15, <1>16, <1>17, <1>18, <1>19,
     <1>20
  DEF Next, OperatorNext, Reconcile, OperatorFaults, OutageNext

\* As long as the resource is present and asks for what the pass works for, no
\* cache with the wanted device and line size is stopped (lines 115-162), for
\* any interleaving of edits, reboots, crashes, failing calls and cut listings.
THEOREM WantedIsKept == Spec => WantedCacheKept
<1> DEFINE StopsUnwanted == \A i \in DOMAIN caches :
               i \notin DOMAIN caches' /\ up' /\ cr.present /\ ~cr.deleting /\ rec.spec = cr.spec =>
                  caches[i].dev # cr.spec.dev \/ caches[i].cls # TargetCls(cr.spec)
<1>1. Init => RemovesUnwanted
  <2> SUFFICES ASSUME Init PROVE RemovesUnwanted
    OBVIOUS
  <2>1. rec.pc = "idle" /\ rec.deleting = FALSE
    BY DEF Init, IdleRec, Begin
  <2> QED BY <2>1 DEF RemovesUnwanted, At
<1>2. TypeOK /\ RemovesUnwanted /\ [Next]_vars => RemovesUnwanted'
  BY UnwantedNext
<1>3. TypeOK /\ RemovesUnwanted /\ [Next]_vars => [StopsUnwanted]_vars
  <2> SUFFICES ASSUME TypeOK, RemovesUnwanted, [Next]_vars PROVE StopsUnwanted
    OBVIOUS
  <2>1. CASE StopCache /\ \E i \in rec.todo : caches' = Stopped(caches, i)
    <3>1. PICK i \in rec.todo : caches' = Stopped(caches, i)
      BY <2>1
    <3>2. \A j \in DOMAIN caches : j \notin DOMAIN caches' => j = i
      BY <3>1, StoppedFacts
    <3>3. At("act")
      BY <2>1 DEF StopCache
    <3>4. ~cr.deleting => ~rec.deleting
      BY <3>3 DEF RemovesUnwanted, At
    <3> QED BY <3>2, <3>3, <3>4 DEF RemovesUnwanted, Unwanted
  <2>2. CASE \E i \in CacheIds \ DOMAIN caches : caches' = Started(caches, i, rec.spec)
    BY <2>2 DEF Started
  <2>3. CASE DOMAIN caches' = DOMAIN caches
    BY <2>3
  <2>4. CASE Reboot
    BY <2>4 DEF Reboot
  <2> QED BY <2>1, <2>2, <2>3, <2>4, CachesChange
<1> QED BY <1>1, <1>2, <1>3, TypeCorrect, PTL DEF Spec, WantedCacheKept

-----------------------------------------------------------------------------
(***************************************************************************)
(* A cache is not stopped under its label.  Reconcile decides with a copy  *)
(* of the label, but while it runs nobody else sets one.  The copy comes   *)
(* from the informer: this is about an informer that shows every patch     *)
(* before the next pass reads the Node.                                    *)
(***************************************************************************)
EarlySteps == {"finalizer", "list", "cls"}

LabelOwned ==
    /\ shown = label
    /\ ~nodeObj => label = NoLabel
    /\ rec.pc \in EarlySteps => rec.cur = NoId
    /\ ~At("idle") /\ (At("release") => rec.deleting) => label \in {rec.opLabel, EmptyLabel, NoLabel}
    /\ At("act") /\ rec.cur # NoId => label # rec.cur
    /\ At("label") => ~rec.deleting

\* What a patch of the label does, when it succeeds at once.
LEMMA PatchOwned ==
    ASSUME {"label", "lag"} \cap FaultKinds = {}, shown = label, ~nodeObj => label = NoLabel, NEW l,
           PatchLabel(l) \/ PatchLabelFails
    PROVE  /\ shown' = label'
           /\ \/ nodeObj /\ label' = IF rec.opLabel = l THEN label ELSE l
              \/ ~nodeObj /\ label' = label /\ label = NoLabel
  BY DEF PatchLabel, PatchLabelFails, Fails, Fault

\* Every step keeps it so, when patches of the Node object succeed and are seen.
LEMMA OwnedNext ==
    ASSUME TypeOK, LabelOwned, {"label", "lag"} \cap FaultKinds = {}, [Next]_vars PROVE LabelOwned'
<1> USE DEF EarlySteps
<1>0. /\ rec.todo \subseteq CacheIds /\ rec.cur \in CacheIds \cup {NoId}
      /\ NoLabel \notin CacheIds /\ EmptyLabel \notin CacheIds
  BY ReconcilerAssumption DEF TypeOK, Locals
<1>1. CASE UNCHANGED <<rec, label, shown>> /\ (~nodeObj' => ~nodeObj)
  BY <1>1 DEF LabelOwned, At
<1>2. CASE NodeDeleted
  BY <1>0, <1>2, OutsideLocals DEF NodeDeleted, OutageNext, LabelOwned, At
<1>3. ASSUME rec'.pc = "idle" \/ (rec'.pc = "release" /\ ~rec'.deleting),
             ~nodeObj' => label' = NoLabel, shown' = label'
      PROVE  LabelOwned'
  BY <1>3 DEF LabelOwned, At
<1>3a. ASSUME rec'.pc \in {"release", "label", "unlabel"}, UNCHANGED <<label, shown, nodeObj>>,
              rec'.opLabel = rec.opLabel, rec'.deleting = rec.deleting,
              ~At("idle"), At("release") => rec.deleting, rec'.pc = "label" => ~rec.deleting
       PROVE  LabelOwned'
  BY <1>3a DEF LabelOwned, At
<1>4. CASE ReconcileStart
  <2>1. shown' = label /\ UNCHANGED <<label, nodeObj>>
    BY <1>4 DEF ReconcileStart, LabelOwned, nodeVars
  <2> QED BY <1>4, <2>1, StepsAfter DEF LabelOwned, At
<1>5. CASE AddFinalizer \/ AddFinalizerFails
  <2>1. UNCHANGED <<label, shown, nodeObj>> /\ At("finalizer")
    BY <1>5 DEF AddFinalizer, AddFinalizerFails, apiVars, nodeVars
  <2> QED BY <1>5, <2>1, StepsAfter DEF LabelOwned, At
<1>6. CASE GetCacheInstances \/ GetCacheInstancesCut
  <2>1. UNCHANGED <<label, shown, nodeObj>> /\ At("list") /\ \E c : Listed(c)
    BY <1>6 DEF GetCacheInstances, GetCacheInstancesCut, apiVars, nodeVars
  <2> QED BY <2>1, LocalsAfter DEF LabelOwned, At
<1>7. CASE GetCacheLineSize
  <2>1. /\ UNCHANGED <<label, shown, nodeObj>> /\ At("cls")
        /\ rec'.pc = "act" /\ rec'.cur = rec.cur /\ rec'.opLabel = rec.opLabel
    BY <1>7 DEF GetCacheLineSize, apiVars, nodeVars, TypeOK, Locals
  <2> QED BY <2>1 DEF LabelOwned, At
<1>8. CASE UnsetLabel
  <2>1. PICK i \in rec.todo :
            rec'.pc = rec.pc /\ rec'.opLabel = EmptyLabel /\ rec'.cur = i
    BY <1>8, StepsAfter
  <2>2. /\ UNCHANGED nodeObj /\ At("act") /\ rec.opLabel \in CacheIds
        /\ PatchLabel(EmptyLabel) \/ PatchLabelFails
    BY <1>0, <1>8 DEF UnsetLabel, nodeVars, MustUnlabel
  <2>3. /\ shown' = label'
        /\ (nodeObj /\ label' = EmptyLabel) \/ (~nodeObj /\ label' = NoLabel)
    BY <1>0, <2>2, PatchOwned DEF LabelOwned
  <2> QED BY <1>0, <2>1, <2>2, <2>3 DEF LabelOwned, At
<1>9. CASE StopCache \/ DeferStop
  <2>1. UNCHANGED <<label, shown, nodeObj>> /\ At("act") /\ \E i, b : Removed(i, b)
    BY <1>9 DEF StopCache, DeferStop, apiVars, nodeVars
  <2> QED BY <2>1, LocalsAfter DEF LabelOwned, At
<1>10. CASE SetOperatingCacheLabel
  <2>1. /\ Release(FALSE) /\ UNCHANGED nodeObj /\ At("label")
        /\ PatchLabel(rec.cur) \/ PatchLabelFails
    BY <1>10 DEF SetOperatingCacheLabel, nodeVars
  <2>2. shown' = label' /\ (~nodeObj' => label' = NoLabel)
    BY <2>1, PatchOwned DEF LabelOwned
  <2>3. rec'.pc = "release" /\ ~rec'.deleting
    BY <2>1, LocalsAfter DEF LabelOwned
  <2> QED BY <1>3, <2>2, <2>3
<1>11. CASE DeleteOperatingCacheLabel
  <2>1. /\ \E b : Return(b)
        /\ UNCHANGED nodeObj /\ (PatchLabel(NoLabel) \/ PatchLabelFails)
    BY <1>11 DEF DeleteOperatingCacheLabel, nodeVars
  <2>2. shown' = label' /\ (~nodeObj' => label' = NoLabel)
    BY <2>1, PatchOwned DEF LabelOwned
  <2>3. rec'.pc = "idle"
    BY <2>1, LocalsAfter
  <2> QED BY <1>3, <2>2, <2>3
<1>12. CASE \/ GetCacheInstancesFails \/ GetCacheLineSizeFails \/ StartCacheFails \/ Finish
            \/ RemoveFinalizerFails
  <2>1. UNCHANGED <<label, shown, nodeObj>> /\ \E b : Return(b)
    BY <1>12 DEF GetCacheInstancesFails, GetCacheLineSizeFails,
       StartCacheFails, Finish, RemoveFinalizerFails, apiVars, nodeVars
  <2>2. rec'.pc = "idle"
    BY <2>1, LocalsAfter
  <2> QED BY <1>3, <2>1, <2>2 DEF LabelOwned
<1>12a. CASE OperatorCrash
  <2>1. UNCHANGED <<label, nodeObj>> /\ shown' = label
    BY <1>12a DEF OperatorCrash, nodeVars
  <2> QED BY <1>3, <1>12a, <2>1, StepsAfter DEF LabelOwned
<1>12b. CASE NothingToApply \/ SetCacheMode
  <2>1. /\ UNCHANGED <<label, shown, nodeObj>> /\ At("act")
        /\ \E b \in BOOLEAN : Release(b)
    BY <1>12b DEF NothingToApply, SetCacheMode, RemovalsDone, apiVars, nodeVars
  <2>2. /\ rec'.pc = "release" /\ rec'.opLabel = rec.opLabel /\ rec'.deleting = rec.deleting
    BY <2>1, LocalsAfter
  <2> QED BY <1>3a, <2>1, <2>2 DEF At
<1>12c. CASE StartCache
  <2>1. UNCHANGED <<label, shown, nodeObj>> /\ At("act") /\ ~rec.deleting
    BY <1>12c DEF StartCache, MustStart, RemovalsDone, apiVars
  <2> QED BY <1>3a, <1>12c, <2>1, StepsAfter DEF At
<1>12d. CASE RemoveFinalizer
  <2>1. UNCHANGED <<label, shown, nodeObj>> /\ At("release") /\ rec.deleting
    BY <1>12d DEF RemoveFinalizer, MayRelease, nodeVars
  <2> QED BY <1>3a, <1>12d, <2>1, StepsAfter DEF At
<1>13. CASE ReconcileSkip \/ ReconcileGetFails \/ UserNext \/ VolumeNext \/ Reboot \/ NodeReady
            \/ NodeCreated \/ UNCHANGED vars
  <2>1. UNCHANGED rec
    BY <1>13, OutsideLocals DEF OutageNext, vars
  <2>2. UNCHANGED <<label, shown>> /\ (~nodeObj' => ~nodeObj)
    BY <1>13 DEF ReconcileSkip, ReconcileGetFails, UserNext, CreateCache, EditCache, DeleteCache,
       UserEdit, VolumeNext, AddCore, MountVolume, UnmountVolume, RemoveCore,
       Reboot, NodeReady, NodeCreated, apiVars, nodeVars, vars
  <2> QED BY <1>1, <2>1, <2>2
<1> QED
  BY <1>2, <1>4, <1>5, <1>6, <1>7, <1>8, <1>9, <1>10, <1>11, <1>12, <1>12a, <1>12b, <1>12c, <1>12d,
     <1>13
  DEF Next, OperatorNext, Reconcile, OperatorFaults, OutageNext

\* The label is owned in every reachable state.
LEMMA OwnedAlways == ASSUME {"label", "lag"} \cap FaultKinds = {} PROVE Spec => []LabelOwned
<1>1. Init => LabelOwned
  <2> SUFFICES ASSUME Init PROVE LabelOwned
    OBVIOUS
  <2>1. rec.pc = "idle" /\ nodeObj /\ shown = label
    BY DEF Init, IdleRec, Begin
  <2> QED BY <2>1 DEF LabelOwned, EarlySteps, At
<1>2. TypeOK /\ LabelOwned /\ [Next]_vars => LabelOwned'
  BY OwnedNext
<1> QED BY <1>1, <1>2, TypeCorrect, PTL DEF Spec

\* The cache whose turn it is to be stopped does not have the label any more.
LEMMA TurnUnlabelled ==
    ASSUME TypeOK, LabelOwned, At("act"), ~rec.deleting,
           NEW i \in rec.todo, Turn(i), ~MustUnlabel(i)
    PROVE  label # i
<1>1. i \in CacheIds /\ i # NoLabel /\ i # EmptyLabel /\ i # NoId
  BY ReconcilerAssumption DEF TypeOK, Locals
<1>2. rec.opLabel # i \/ rec.cur = i
  BY DEF MustUnlabel
<1> QED BY <1>1, <1>2 DEF LabelOwned, At

\* Unless the resource is being deleted, Reconcile stops a cache only when the
\* label no longer sends volumes to it, although it looks at a copy of the label
\* from its start (lines 146-162), whatever else fails or intervenes, as long as
\* patches of the label succeed and no pass reads a label from before the last
\* one.  Without that the code does not keep it.
THEOREM UnlabelsFirst ==
    ASSUME {"label", "lag"} \cap FaultKinds = {} PROVE Spec => UnlabelledBeforeStopped
<1> DEFINE Unlabelled == \A i \in DOMAIN caches :
                             i \notin DOMAIN caches' /\ up' /\ ~rec.deleting => label # i
<1>1. TypeOK /\ LabelOwned /\ [Next]_vars => [Unlabelled]_vars
  <2> SUFFICES ASSUME TypeOK, LabelOwned, Next PROVE Unlabelled
    OBVIOUS
  <2>0. /\ caches \in CacheTable /\ DOMAIN caches \subseteq CacheIds
        /\ NoLabel \notin CacheIds /\ EmptyLabel \notin CacheIds /\ NoId \notin CacheIds
        /\ rec.spec \in CacheSpec
    BY TableDef, ReconcilerAssumption DEF TypeOK, Locals
  <2>1. CASE StopCache
    <3>1. PICK i \in rec.todo : /\ Turn(i) /\ ~MustUnlabel(i)
                                /\ caches' = Stopped(caches, i) \/ caches' = caches
      BY <2>1 DEF StopCache
    <3>2. \A j \in DOMAIN caches : j \notin DOMAIN caches' => j = i
      BY <3>1 DEF Stopped
    <3>3. ~rec.deleting => label # i
      BY <2>1, <3>1, TurnUnlabelled DEF StopCache
    <3> QED BY <3>2, <3>3
  <2>2. CASE Reboot
    BY <2>2 DEF Reboot
  <2>3. ASSUME NEW i \in CacheIds, caches' = Started(caches, i, rec.spec) PROVE Unlabelled
    BY <2>3 DEF Started
  <2>4. CASE UNCHANGED caches
    BY <2>4
  <2>5. CASE VolumeNext
    BY <2>5, VolumesLeaveCaches
  <2>6. CASE SetCacheMode
    BY <2>6, ModeLeavesCaches
  <2>7. StartCache \/ StartCacheFails =>
            caches' = caches \/ \E i \in CacheIds : caches' = Started(caches, i, rec.spec)
    BY DEF StartCache, StartCacheFails
  <2>8. \/ StopCache \/ Reboot \/ VolumeNext \/ SetCacheMode \/ StartCache \/ StartCacheFails
        \/ UNCHANGED caches
    BY DEF Next, OperatorNext, Reconcile, OperatorFaults, UserNext, OutageNext, nodeVars,
       ReconcileSkip, ReconcileGetFails, ReconcileStart, AddFinalizer, AddFinalizerFails,
       GetCacheInstances, GetCacheInstancesFails, GetCacheInstancesCut,
       GetCacheLineSize, GetCacheLineSizeFails, UnsetLabel, DeferStop,
       NothingToApply, SetOperatingCacheLabel, Finish, RemoveFinalizer,
       RemoveFinalizerFails, DeleteOperatingCacheLabel, OperatorCrash,
       CreateCache, EditCache, DeleteCache, UserEdit, NodeReady, NodeDeleted, NodeCreated
  <2> QED BY <2>1, <2>2, <2>3, <2>4, <2>5, <2>6, <2>7, <2>8
<1> QED BY <1>1, OwnedAlways, TypeCorrect, PTL DEF Spec, UnlabelledBeforeStopped

-----------------------------------------------------------------------------
(***************************************************************************)
(* The label at rest.  Setting it, or emptying it, is only logged when it  *)
(* fails, and a start whose answer is lost, or that a crash of the         *)
(* operator follows, leaves a cache that no later Reconcile will label, and*)
(* a label read from before the last patch leaves one that names a cache   *)
(* that is gone; so this is about an operator to which none of that happens.*)
(***************************************************************************)
LabelPatchesHold == {"label", "lag", "late", "crash"} \cap FaultKinds = {}

\* The label names a running cache, but while Reconcile is about to change it.
LabelRuns ==
    /\ cr.deleting => cr.present
    /\ rec.deleting => ~At("idle") /\ (At("unlabel") \/ cr.deleting)
    /\ At("label") => rec.cur \in DOMAIN caches \/ DOMAIN caches = {}
    /\ label \in CacheIds =>
          \/ label \in DOMAIN caches \/ DOMAIN caches = {}
          \/ At("label") \/ At("unlabel") \/ cr.deleting

\* While nothing is queued, Reconcile's copy of the resource is up to date,
\* whatever fails.
LEMMA FreshNext == ASSUME TypeOK, Fresh, [Next]_vars PROVE Fresh'
<1>0. rec \in Locals /\ queue \in BOOLEAN /\ cr \in Resource
  BY DEF TypeOK
<1>1. CASE UNCHANGED <<cr, rec>> /\ (queue => queue')
  BY <1>1 DEF Fresh, At
<1>2. ASSUME rec'.pc = "idle" PROVE Fresh'
  BY <1>2 DEF Fresh, At
<1>3. ASSUME queue' = TRUE PROVE Fresh'
  BY <1>3 DEF Fresh, At
<1>4. ASSUME UNCHANGED <<cr, queue>>, rec'.spec = rec.spec, rec'.deleting = rec.deleting,
             ~At("idle"), rec'.pc # "unlabel"
      PROVE  Fresh'
  BY <1>4 DEF Fresh, At
<1>5. CASE ReconcileSkip \/ ReconcileGetFails
  <2>1. At("idle") /\ UNCHANGED rec
    BY <1>5, OutsideLocals DEF ReconcileSkip, ReconcileGetFails
  <2> QED BY <1>2, <2>1 DEF At
<1>6. CASE ReconcileStart
  BY <1>6, StepsAfter DEF ReconcileStart, apiVars, Fresh, At
<1>7. CASE AddFinalizer \/ RemoveFinalizer
  BY <1>3, <1>7 DEF AddFinalizer, RemoveFinalizer
<1>8. CASE AddFinalizerFails
  BY <1>4, <1>8, StepsAfter DEF AddFinalizerFails, apiVars, At
<1>9. CASE GetCacheInstances \/ GetCacheInstancesCut
  <2>1. UNCHANGED <<cr, queue>> /\ At("list") /\ \E c : Listed(c)
    BY <1>9 DEF GetCacheInstances, GetCacheInstancesCut, apiVars
  <2> QED BY <1>4, <2>1, LocalsAfter DEF At
<1>10. CASE GetCacheLineSize
  <2>1. /\ UNCHANGED <<cr, queue>> /\ At("cls")
        /\ rec'.pc = "act" /\ rec'.spec = rec.spec /\ rec'.deleting = rec.deleting
    BY <1>0, <1>10 DEF GetCacheLineSize, apiVars, Locals
  <2> QED BY <1>4, <2>1 DEF At
<1>11. CASE UnsetLabel
  <2>1. UNCHANGED <<cr, queue>> /\ At("act")
    BY <1>11 DEF UnsetLabel
  <2> QED BY <1>4, <1>11, <2>1, StepsAfter DEF At
<1>12. CASE StopCache \/ DeferStop
  <2>1. UNCHANGED <<cr, queue>> /\ At("act") /\ \E i, b : Removed(i, b)
    BY <1>12 DEF StopCache, DeferStop, apiVars
  <2> QED BY <1>4, <2>1, LocalsAfter DEF At
<1>13. CASE NothingToApply \/ SetCacheMode \/ SetOperatingCacheLabel
  <2>1. /\ UNCHANGED <<cr, queue>> /\ (At("act") \/ At("label"))
        /\ \E b \in BOOLEAN : Release(b)
    BY <1>13 DEF NothingToApply, SetCacheMode, SetOperatingCacheLabel, RemovalsDone, apiVars
  <2> QED BY <1>4, <2>1, LocalsAfter DEF At
<1>14. CASE StartCache
  <2>1. UNCHANGED <<cr, queue>> /\ At("act")
    BY <1>14 DEF StartCache, MustStart, RemovalsDone, apiVars
  <2> QED BY <1>4, <1>14, <2>1, StepsAfter DEF At
<1>15. CASE \/ GetCacheInstancesFails \/ GetCacheLineSizeFails \/ StartCacheFails \/ Finish
            \/ RemoveFinalizerFails \/ DeleteOperatingCacheLabel \/ OperatorCrash
  <2>1. OperatorCrash \/ \E b : Return(b)
    BY <1>15 DEF GetCacheInstancesFails, GetCacheLineSizeFails, StartCacheFails, Finish,
       RemoveFinalizerFails, DeleteOperatingCacheLabel
  <2> QED BY <1>2, <2>1, LocalsAfter, StepsAfter
<1>16. CASE UserNext
  BY <1>3, <1>16, UsersEdit
<1>17. CASE VolumeNext
  BY <1>1, <1>17, VolumesLeaveCaches
<1>18. CASE OutageNext
  <2>1. UNCHANGED <<cr, rec>>
    BY <1>18 DEF OutageNext, Reboot, NodeReady, NodeDeleted, NodeCreated, apiVars
  <2>2. queue => queue'
    BY <1>18, Zenon DEF OutageNext, Reboot, NodeReady, NodeDeleted, NodeCreated
  <2> QED BY <1>1, <2>1, <2>2
<1>19. CASE UNCHANGED vars
  BY <1>1, <1>19 DEF vars
<1> QED
  BY <1>5, <1>6, <1>7, <1>8, <1>9, <1>10, <1>11, <1>12, <1>13, <1>14, <1>15, <1>16, <1>17,
     <1>18, <1>19
  DEF Next, OperatorNext, Reconcile, OperatorFaults

\* Every step keeps the label on a running cache.
LEMMA RunsNext ==
    ASSUME TypeOK, LabelOwned, LabelRuns, LabelPatchesHold, [Next]_vars PROVE LabelRuns'
<1>0. /\ rec \in Locals /\ cr \in Resource /\ caches \in CacheTable
      /\ NoLabel \notin CacheIds /\ EmptyLabel \notin CacheIds
      /\ {"label", "lag"} \cap FaultKinds = {} /\ "late" \notin FaultKinds /\ "crash" \notin FaultKinds
  BY ReconcilerAssumption DEF TypeOK, LabelPatchesHold
<1>1. ASSUME UNCHANGED <<cr, label>>, DOMAIN caches' = DOMAIN caches, ~At("label"), ~At("unlabel"),
             \/ rec'.deleting = FALSE
             \/ rec'.deleting = rec.deleting /\ ~At("idle") /\ rec'.pc # "idle",
             rec'.pc # "label"
      PROVE  LabelRuns'
  BY <1>1 DEF LabelRuns, At
<1>2. CASE ReconcileSkip \/ ReconcileGetFails \/ VolumeNext \/ NodeReady \/ NodeCreated
           \/ UNCHANGED vars
  <2>1. UNCHANGED <<cr, label, rec>> /\ DOMAIN caches' = DOMAIN caches
    BY <1>2, VolumesLeaveCaches
       DEF ReconcileSkip, ReconcileGetFails, NodeReady, NodeCreated, apiVars, nodeVars, vars
  <2> QED BY <2>1 DEF LabelRuns, At
<1>3. CASE ReconcileStart
  <2>1. UNCHANGED <<cr, label, caches>>
    BY <1>3 DEF ReconcileStart, apiVars, nodeVars
  <2> QED BY <1>3, <2>1, StepsAfter DEF ReconcileStart, LabelRuns, At
<1>4. CASE AddFinalizer
  <2>1. /\ UNCHANGED <<label, caches>> /\ At("finalizer")
        /\ cr'.deleting = cr.deleting /\ cr'.present = cr.present
    BY <1>0, <1>4 DEF AddFinalizer, nodeVars, Resource
  <2> QED BY <1>4, <2>1, StepsAfter DEF LabelRuns, At
<1>5. CASE \/ AddFinalizerFails \/ GetCacheInstances \/ GetCacheInstancesCut
           \/ GetCacheInstancesFails \/ GetCacheLineSizeFails \/ DeferStop
           \/ NothingToApply \/ Finish \/ RemoveFinalizerFails
  <2>1. UNCHANGED <<cr, label, caches>>
    BY <1>5 DEF AddFinalizerFails, GetCacheInstances, GetCacheInstancesCut,
       GetCacheInstancesFails, GetCacheLineSizeFails, DeferStop,
       NothingToApply, Finish, RemoveFinalizerFails, apiVars, nodeVars
  <2>2. At("finalizer") \/ At("list") \/ At("cls") \/ At("act") \/ At("release")
    BY <1>5 DEF AddFinalizerFails, GetCacheInstances, GetCacheInstancesCut,
       GetCacheInstancesFails, GetCacheLineSizeFails, DeferStop,
       NothingToApply, RemovalsDone, Finish, RemoveFinalizerFails
  <2>3. \/ AddFinalizerFails \/ (\E c : Listed(c)) \/ (\E i, b : Removed(i, b))
        \/ (\E b : Return(b)) \/ \E b \in BOOLEAN : Release(b)
    BY <1>5 DEF GetCacheInstances, GetCacheInstancesCut,
       GetCacheInstancesFails, GetCacheLineSizeFails, DeferStop,
       NothingToApply, Finish, RemoveFinalizerFails
  <2>4. \/ rec'.deleting = FALSE /\ rec'.pc = "idle"
        \/ rec'.deleting = rec.deleting /\ rec'.pc \in {"list", "act", "cls", "release", rec.pc}
    BY <2>3, LocalsAfter, StepsAfter
  <2> QED BY <1>1, <2>1, <2>2, <2>4 DEF At
<1>6. CASE GetCacheLineSize
  <2>1. /\ UNCHANGED <<cr, label, caches>> /\ At("cls")
        /\ rec'.pc = "act" /\ rec'.deleting = rec.deleting
    BY <1>0, <1>6 DEF GetCacheLineSize, apiVars, nodeVars, Locals
  <2> QED BY <1>1, <2>1 DEF At
<1>7. CASE UnsetLabel
  <2>1. /\ UNCHANGED <<cr, caches>> /\ At("act")
        /\ label' \in {label, EmptyLabel}
    BY <1>7 DEF UnsetLabel, PatchLabel, PatchLabelFails, nodeVars
  <2>2. rec'.pc = rec.pc /\ rec'.deleting = rec.deleting
    BY <1>7, StepsAfter
  <2> QED BY <1>0, <2>1, <2>2 DEF LabelRuns, At
<1>8. CASE StopCache
  <2>1. PICK i \in rec.todo : /\ Turn(i) /\ ~MustUnlabel(i)
                              /\ caches' = Stopped(caches, i) \/ caches' = caches
                              /\ \E b : Removed(i, b)
    BY <1>8 DEF StopCache
  <2>2. UNCHANGED <<cr, label>> /\ At("act")
    BY <1>8 DEF StopCache, apiVars
  <2>3. \A j \in DOMAIN caches : j # i => j \in DOMAIN caches'
    BY <2>1 DEF Stopped
  <2>4. DOMAIN caches = {} => DOMAIN caches' = {}
    BY <2>1 DEF Stopped
  <2>5. rec'.pc = "act" /\ rec'.deleting = rec.deleting
    BY <2>1, <2>2, LocalsAfter DEF At
  <2>6. CASE rec.deleting
    BY <2>2, <2>5, <2>6 DEF LabelRuns, At
  <2>7. CASE ~rec.deleting
    <3>1. label # i
      BY <2>1, <2>2, <2>7, TurnUnlabelled
    <3> QED BY <2>2, <2>3, <2>4, <2>5, <3>1 DEF LabelRuns, At
  <2> QED BY <2>6, <2>7
<1>9. CASE SetCacheMode
  <2>1. UNCHANGED <<cr, label>> /\ At("act") /\ \E b \in BOOLEAN : Release(b)
    BY <1>9 DEF SetCacheMode, RemovalsDone, apiVars
  <2> QED BY <1>1, <1>9, <2>1, ModeLeavesCaches, LocalsAfter DEF At
<1>10. CASE StartCache
  <2>1. PICK i \in CacheIds \ DOMAIN caches : /\ caches' = Started(caches, i, rec.spec)
                                              /\ rec'.pc = "label" /\ rec'.cur = i
                                              /\ rec'.deleting = rec.deleting
    BY <1>10, StepsAfter
  <2>2. UNCHANGED <<cr, label>> /\ ~rec.deleting /\ i \in DOMAIN caches'
    BY <1>10, <2>1 DEF StartCache, MustStart, apiVars, Started
  <2> QED BY <2>1, <2>2 DEF LabelRuns, At
<1>11. CASE StartCacheFails
  <2>1. UNCHANGED <<cr, label, caches>> /\ At("act") /\ Return(TRUE)
    BY <1>0, <1>11 DEF StartCacheFails, MustStart, RemovalsDone, Fault, apiVars
  <2> QED BY <1>1, <2>1, LocalsAfter DEF At
<1>12. CASE SetOperatingCacheLabel
  <2>1. UNCHANGED <<cr, nodeObj, caches>> /\ At("label") /\ Release(FALSE)
    BY <1>12 DEF SetOperatingCacheLabel, nodeVars
  <2>2. PatchLabel(rec.cur) \/ PatchLabelFails
    BY <1>12 DEF SetOperatingCacheLabel
  <2>3. label' \in CacheIds => label' = rec.cur
    BY <1>0, <2>1, <2>2, PatchOwned DEF LabelOwned, At
  <2>4. rec'.pc = "release" /\ rec'.deleting = rec.deleting
    BY <2>1, LocalsAfter
  <2> QED BY <2>1, <2>3, <2>4 DEF LabelRuns, At
<1>13. CASE RemoveFinalizer
  <2>1. UNCHANGED <<label, caches>> /\ cr'.deleting = FALSE
    BY <1>0, <1>13 DEF RemoveFinalizer, nodeVars, Resource
  <2> QED BY <1>13, <2>1, StepsAfter DEF LabelRuns, At
<1>14. CASE DeleteOperatingCacheLabel
  <2>1. UNCHANGED <<cr, nodeObj, caches>> /\ At("unlabel") /\ \E b : Return(b)
    BY <1>14 DEF DeleteOperatingCacheLabel, nodeVars
  <2>2. PatchLabel(NoLabel) \/ PatchLabelFails
    BY <1>14 DEF DeleteOperatingCacheLabel
  <2>3. label' \notin CacheIds
    BY <1>0, <2>1, <2>2, PatchOwned DEF LabelOwned, At
  <2>4. rec'.pc = "idle" /\ rec'.deleting = FALSE
    BY <2>1, LocalsAfter
  <2> QED BY <2>1, <2>3, <2>4 DEF LabelRuns, At
<1>15. CASE OperatorCrash
  BY <1>0, <1>15 DEF OperatorCrash, Fault
<1>16. CASE UserNext
  BY <1>16, UsersEdit DEF LabelRuns, At
<1>17. CASE Reboot
  <2>1. UNCHANGED <<cr, rec>> /\ DOMAIN caches' = {}
    BY <1>17, NoCachesEmpty DEF Reboot, apiVars
  <2> QED BY <2>1 DEF LabelRuns, At
<1>18. CASE NodeDeleted
  <2>1. UNCHANGED <<cr, rec, caches>> /\ label' = NoLabel
    BY <1>18 DEF NodeDeleted
  <2> QED BY <1>0, <2>1 DEF LabelRuns, At
<1> QED
  BY <1>2, <1>3, <1>4, <1>5, <1>6, <1>7, <1>8, <1>9, <1>10, <1>11, <1>12, <1>13, <1>14, <1>15,
     <1>16, <1>17, <1>18
  DEF Next, OperatorNext, Reconcile, OperatorFaults, OutageNext

\* The label names a cache that fits what Reconcile works for.
LabelFits ==
    label \in CacheIds => label \in DOMAIN caches /\ Fits(caches[label], rec.spec)

\* Cache i is to be kept, it is as it was listed, and it is the only one that
\* has the label once the others are removed.
Kept(i) ==
    /\ i \in DOMAIN caches \ rec.todo
    /\ i \in DOMAIN rec.inst
    /\ caches[i].dev = rec.spec.dev
    /\ caches[i].mode = rec.inst[i].mode
    /\ label \in CacheIds => label \in rec.todo \/ label = i

\* What Reconcile has established when no event intervened; a listing that was
\* cut short may show no cache, but never another one.
LabelSynced ==
    Calm /\ ~rec.deleting =>
        /\ rec.pc \in EarlySteps => rec.modify = NoId
        /\ At("cls") => \A i \in Candidates(rec.inst) : Kept(i)
        /\ At("act") /\ rec.modify # NoId =>
              Kept(rec.modify) /\ caches[rec.modify].cls = TargetCls(rec.spec)
        /\ At("label") => rec.cur \in DOMAIN caches /\ Fits(caches[rec.cur], rec.spec)
        /\ At("release") => rec.err \/ LabelFits

LabelInv == LabelSynced /\ SettledLabelFits

\* Nothing is claimed while an event is queued or the node cannot run jobs.
LEMMA StormyLabel == ASSUME ~Calm' PROVE LabelInv'
  BY DEF LabelInv, LabelSynced, SettledLabelFits, Settled, AtRest, Calm

\* A step of Reconcile that neither returns nor releases.
LEMMA OngoingLabel == ASSUME ~At("idle")' PROVE SettledLabelFits'
  BY DEF SettledLabelFits, Settled, AtRest

\* Users, volumes and outages leave the label fitting, or queue the resource.
LEMMA LabelEnvironment ==
    ASSUME TypeOK, Fresh, LabelInv, UserNext \/ VolumeNext \/ OutageNext
    PROVE  LabelInv'
<1>0. queue \in BOOLEAN /\ cr.present \in BOOLEAN
  BY DEF TypeOK, Resource
<1>1. CASE UserNext
  BY <1>1, UsersEdit, StormyLabel DEF Calm
<1>2. CASE VolumeNext
  <2>1. /\ UNCHANGED <<cr, label, nodeObj, up, queue, rec>>
        /\ DOMAIN caches' = DOMAIN caches
        /\ \A i \in DOMAIN caches : /\ caches'[i].dev = caches[i].dev
                                    /\ caches'[i].cls = caches[i].cls
                                    /\ caches'[i].mode = caches[i].mode
    BY <1>2, VolumesLeaveCaches
  <2>2. /\ LabelFits => LabelFits'
        /\ \A i : Kept(i) => Kept(i)'
        /\ Candidates(rec.inst)' = Candidates(rec.inst)
    BY <2>1 DEF LabelFits, Kept, Fits, Candidates
  <2>3. LabelSynced'
    BY <2>1, <2>2 DEF LabelInv, LabelSynced, Calm, NodeRuns, Kept, Fits, At
  <2>4. SettledLabelFits'
    BY <2>1 DEF LabelInv, SettledLabelFits, Settled, AtRest, NodeRuns, Fits, At
  <2> QED BY <2>3, <2>4 DEF LabelInv
<1>3. CASE Reboot \/ NodeDeleted
  BY <1>3, StormyLabel DEF Reboot, NodeDeleted, Calm, NodeRuns
<1>4. CASE NodeReady \/ NodeCreated
  <2>1. UNCHANGED <<cr, rec>>
    BY <1>4 DEF NodeReady, NodeCreated, apiVars
  <2>2. CASE queue' = TRUE
    BY <2>2, StormyLabel DEF Calm
  <2>3. CASE queue' # TRUE
    <3>1. ~queue /\ (nodeObj' => ~cr.present)
      <4>1. CASE NodeReady
        BY <4>1, <2>3, Zenon DEF NodeReady
      <4>2. CASE NodeCreated
        BY <4>2, <2>3, Zenon DEF NodeCreated
      <4> QED BY <1>4, <4>1, <4>2
    <3>2. CASE ~nodeObj'
      BY <3>2, StormyLabel DEF Calm, NodeRuns
    <3>3. CASE ~cr.present
      BY <2>1, <3>1, <3>3 DEF Fresh, LabelInv, LabelSynced, EarlySteps, SettledLabelFits,
         Settled, At
    <3> QED BY <3>1, <3>2, <3>3
  <2> QED BY <2>2, <2>3
<1> QED BY <1>1, <1>2, <1>3, <1>4 DEF OutageNext

\* From the start of Reconcile to the classification of the listed caches.
LEMMA LabelClassified ==
    ASSUME TypeOK, Fresh, LabelRuns, LabelInv, DeviceUnique,
           \/ ReconcileSkip \/ ReconcileGetFails \/ ReconcileStart
           \/ AddFinalizer \/ AddFinalizerFails
           \/ GetCacheInstances \/ GetCacheInstancesCut \/ GetCacheInstancesFails
           \/ GetCacheLineSize \/ GetCacheLineSizeFails
    PROVE  LabelInv'
<1>0. rec \in Locals /\ queue \in BOOLEAN
  BY DEF TypeOK
<1>1. CASE ReconcileSkip
  <2>1. UNCHANGED <<cr, nodeObj, rec>> /\ At("idle") /\ (~cr.present \/ ~nodeObj)
    BY <1>1 DEF ReconcileSkip, apiVars, nodeVars
  <2> QED
    BY <2>1 DEF LabelInv, LabelSynced, EarlySteps, SettledLabelFits, Settled, AtRest, NodeRuns, At
<1>2. CASE ReconcileGetFails \/ AddFinalizer
  BY <1>2, StormyLabel DEF ReconcileGetFails, AddFinalizer, Calm
<1>3. CASE ReconcileStart
  <2>1. rec'.pc \in {"list", "finalizer"} /\ rec'.modify = NoId
    BY <1>3, StepsAfter
  <2> QED BY <2>1, OngoingLabel DEF LabelInv, LabelSynced, At
<1>4. CASE AddFinalizerFails
  <2>1. /\ UNCHANGED <<nodeObj, up, queue>> /\ At("finalizer") /\ rec'.pc = "list"
        /\ rec'.modify = rec.modify /\ rec'.deleting = rec.deleting
    BY <1>4, StepsAfter DEF AddFinalizerFails, nodeVars
  <2> QED BY <2>1, OngoingLabel DEF LabelInv, LabelSynced, EarlySteps, Calm, NodeRuns, At
<1>5. CASE GetCacheInstances
  <2>1. UNCHANGED <<cr, label, nodeObj, up, caches, queue>> /\ At("list") /\ Listed(caches)
    BY <1>5 DEF GetCacheInstances, apiVars, nodeVars
  <2>2. /\ rec'.pc = IF Candidates(caches) = {} THEN "act" ELSE "cls"
        /\ rec'.inst = caches /\ rec'.todo = DOMAIN caches \ Candidates(caches)
        /\ rec'.spec = rec.spec /\ rec'.deleting = rec.deleting /\ rec'.modify = rec.modify
    BY <2>1, LocalsAfter
  <2>3. ASSUME Calm', ~rec'.deleting
        PROVE  rec'.modify = NoId /\ \A i \in Candidates(rec.inst)' : Kept(i)'
    <3>1. Calm /\ ~rec.deleting
      BY <2>1, <2>2, <2>3 DEF Calm, NodeRuns
    <3>2. rec.modify = NoId /\ ~cr.deleting
      BY <2>1, <3>1 DEF LabelInv, LabelSynced, EarlySteps, Fresh, Calm, At
    <3>3. label \in CacheIds => label \in DOMAIN caches \/ DOMAIN caches = {}
      BY <2>1, <3>2 DEF LabelRuns, At
    <3>4. ASSUME NEW i \in Candidates(rec.inst)' PROVE Kept(i)'
      <4>1. i \in Candidates(caches) /\ i \in DOMAIN caches /\ caches[i].dev = rec.spec.dev
        BY <2>1, <2>2 DEF Candidates
      <4>2. \A j \in DOMAIN caches : j # i => j \notin Candidates(caches)
        BY <4>1 DEF DeviceUnique, Candidates
      <4> QED BY <2>1, <2>2, <3>3, <4>1, <4>2 DEF Kept
    <3> QED BY <2>2, <3>2, <3>4
  <2> QED BY <2>2, <2>3, OngoingLabel DEF LabelInv, LabelSynced, EarlySteps, At
<1>6. CASE GetCacheInstancesCut
  <2>1. /\ UNCHANGED <<nodeObj, up, queue>> /\ At("list") /\ Listed(NoCaches)
    BY <1>6 DEF GetCacheInstancesCut, nodeVars
  <2>2. Candidates(NoCaches) = {}
    BY NoCachesEmpty DEF Candidates
  <2>3. rec'.pc = "act" /\ rec'.modify = rec.modify /\ rec'.deleting = rec.deleting
    BY <2>1, <2>2, LocalsAfter
  <2> QED BY <2>1, <2>3, OngoingLabel DEF LabelInv, LabelSynced, EarlySteps, Calm, NodeRuns, At
<1>7. CASE GetCacheInstancesFails \/ GetCacheLineSizeFails
  BY <1>7, StormyLabel DEF GetCacheInstancesFails, GetCacheLineSizeFails, Return, Calm
<1>8. CASE GetCacheLineSize
  <2>1. UNCHANGED <<label, nodeObj, up, caches, queue>> /\ At("cls")
    BY <1>8 DEF GetCacheLineSize, apiVars, nodeVars
  <2>2. PICK i \in Candidates(rec.inst) :
            rec' = IF caches[i].cls = TargetCls(rec.spec)
                   THEN [rec EXCEPT !.pc = "act", !.modify = i]
                   ELSE [rec EXCEPT !.pc = "act", !.todo = @ \cup {i}]
    BY <1>8 DEF GetCacheLineSize
  <2>3. /\ rec'.pc = "act" /\ rec'.spec = rec.spec /\ rec'.deleting = rec.deleting
        /\ rec'.inst = rec.inst
    BY <1>0, <2>2 DEF Locals
  <2>4. \/ rec'.modify = rec.modify
        \/ /\ rec'.modify = i /\ rec'.todo = rec.todo
           /\ caches[i].cls = TargetCls(rec.spec)
    BY <1>0, <2>2 DEF Locals
  <2>5. ASSUME Calm', ~rec'.deleting
        PROVE  rec'.modify # NoId =>
                  Kept(rec.modify)' /\ caches'[rec'.modify].cls = TargetCls(rec'.spec)
    <3>1. Kept(i) /\ rec.modify = NoId
      BY <2>1, <2>3, <2>5 DEF LabelInv, LabelSynced, EarlySteps, Calm, NodeRuns, At
    <3> QED BY <2>1, <2>3, <2>4, <3>1 DEF Kept
  <2> QED BY <2>3, <2>5, OngoingLabel DEF LabelInv, LabelSynced, EarlySteps, At
<1> QED BY <1>1, <1>2, <1>3, <1>4, <1>5, <1>6, <1>7, <1>8

\* Removing the caches that do not fit, down to the one that is kept.
LEMMA LabelRemovals ==
    ASSUME TypeOK, LabelOwned, LabelInv, LabelPatchesHold, UnsetLabel \/ StopCache \/ DeferStop
    PROVE  LabelInv'
<1>0. /\ rec \in Locals /\ NoLabel \notin CacheIds /\ EmptyLabel \notin CacheIds
      /\ {"label", "lag"} \cap FaultKinds = {} /\ rec.todo \subseteq CacheIds
  BY ReconcilerAssumption DEF TypeOK, Locals, LabelPatchesHold
<1>1. CASE UnsetLabel
  <2>0. /\ UNCHANGED <<nodeObj, up, caches, queue>> /\ At("act")
        /\ rec.opLabel \in CacheIds /\ (PatchLabel(EmptyLabel) \/ PatchLabelFails)
    BY <1>0, <1>1 DEF UnsetLabel, MustUnlabel, nodeVars
  <2>1. /\ UNCHANGED <<nodeObj, up, caches, queue>> /\ At("act")
        /\ label' = EmptyLabel \/ ~nodeObj
    BY <1>0, <2>0, PatchOwned DEF LabelOwned
  <2>2. /\ rec'.pc = "act" /\ rec'.spec = rec.spec /\ rec'.deleting = rec.deleting
        /\ rec'.inst = rec.inst /\ rec'.todo = rec.todo /\ rec'.modify = rec.modify
    BY <1>1, <2>1, StepsAfter DEF At
  <2>3. Calm' /\ Kept(rec.modify) => Kept(rec.modify)'
    BY <1>0, <2>1, <2>2 DEF Kept, Calm, NodeRuns
  <2> QED
    BY <2>1, <2>2, <2>3, OngoingLabel DEF LabelInv, LabelSynced, EarlySteps, Calm, NodeRuns, At
<1>2. CASE StopCache \/ DeferStop
  <2>1. UNCHANGED <<label, nodeObj, up, queue>> /\ At("act")
    BY <1>2 DEF StopCache, DeferStop, apiVars, nodeVars
  <2>2. PICK i \in rec.todo : /\ Turn(i) /\ ~MustUnlabel(i)
                              /\ caches' = Stopped(caches, i) \/ caches' = caches
                              /\ \E b : Removed(i, b)
    BY <1>2 DEF StopCache, DeferStop, nodeVars
  <2>3. /\ rec'.pc = "act" /\ rec'.spec = rec.spec /\ rec'.deleting = rec.deleting
        /\ rec'.inst = rec.inst /\ rec'.todo = rec.todo \ {i} /\ rec'.modify = rec.modify
    BY <2>1, <2>2, LocalsAfter DEF At
  <2>4. ASSUME ~rec.deleting, Kept(rec.modify)
        PROVE  Kept(rec.modify)' /\ caches'[rec'.modify].cls = caches[rec.modify].cls
    <3>1. label # i
      BY <2>1, <2>2, <2>4, TurnUnlabelled
    <3>2. rec.modify # i /\ rec.modify \in DOMAIN caches
      BY <2>4 DEF Kept
    <3>3. rec.modify \in DOMAIN caches' /\ caches'[rec.modify] = caches[rec.modify]
      BY <2>2, <3>2 DEF Stopped
    <3> QED BY <2>1, <2>3, <2>4, <3>1, <3>2, <3>3 DEF Kept
  <2> QED
    BY <2>1, <2>3, <2>4, OngoingLabel DEF LabelInv, LabelSynced, EarlySteps, Calm, NodeRuns, At
<1> QED BY <1>1, <1>2

\* Applying the specification to the cache that is kept or started.
LEMMA LabelApplied ==
    ASSUME TypeOK, LabelOwned, LabelInv, LabelPatchesHold,
           \/ NothingToApply \/ SetCacheMode \/ StartCache \/ StartCacheFails
           \/ SetOperatingCacheLabel
    PROVE  LabelInv'
<1>0. /\ rec \in Locals /\ NoLabel \notin CacheIds /\ EmptyLabel \notin CacheIds
      /\ {"label", "lag"} \cap FaultKinds = {} /\ "late" \notin FaultKinds /\ caches \in CacheTable
      /\ TargetMode(rec.spec) \in CacheModes
  BY ReconcilerAssumption, DefaultsAssumption
     DEF TypeOK, LabelPatchesHold, TargetMode, Locals, CacheSpec
<1>1. ASSUME \E b \in BOOLEAN : Release(b), UNCHANGED <<nodeObj, up, queue>>,
             Calm /\ ~rec.deleting => rec'.err \/ LabelFits'
      PROVE  LabelInv'
  <2>1. rec'.pc = "release" /\ rec'.deleting = rec.deleting
    BY <1>1, LocalsAfter
  <2> QED BY <1>1, <2>1, OngoingLabel DEF LabelInv, LabelSynced, EarlySteps, Calm, NodeRuns, At
<1>2. ASSUME RemovalsDone, rec.modify # NoId, Calm, ~rec.deleting
      PROVE  /\ Kept(rec.modify) /\ caches[rec.modify].cls = TargetCls(rec.spec)
             /\ label \in CacheIds => label = rec.modify
  BY <1>2 DEF LabelInv, LabelSynced, RemovalsDone, Kept
<1>3. CASE NothingToApply
  <2>1. /\ Release(FALSE) /\ UNCHANGED <<label, nodeObj, up, caches, queue>> /\ RemovalsDone
        /\ ~rec.deleting => /\ rec.modify # NoId
                            /\ rec.inst[rec.modify].mode = TargetMode(rec.spec)
    BY <1>3 DEF NothingToApply, apiVars, nodeVars
  <2>2. rec'.spec = rec.spec
    BY <2>1, LocalsAfter
  <2>3. Calm /\ ~rec.deleting => LabelFits'
    BY <1>2, <2>1, <2>2 DEF LabelFits, Fits, Kept
  <2> QED BY <1>1, <2>1, <2>3
<1>4. CASE SetCacheMode
  <2>1. UNCHANGED <<label, nodeObj, up, queue>> /\ RemovalsDone /\ rec.modify # NoId
    BY <1>4 DEF SetCacheMode, apiVars
  <2>2. \/ /\ rec.modify \in DOMAIN caches /\ Release(FALSE)
           /\ caches' = ModeSet(caches, rec.modify, TargetMode(rec.spec))
        \/ Release(TRUE)
    BY <1>4 DEF SetCacheMode, Succeeds
  <2>3. CASE Release(TRUE)
    BY <1>1, <2>1, <2>3, LocalsAfter
  <2>4. CASE /\ rec.modify \in DOMAIN caches /\ Release(FALSE)
             /\ caches' = ModeSet(caches, rec.modify, TargetMode(rec.spec))
    <3>1. /\ DOMAIN caches' = DOMAIN caches
          /\ caches'[rec.modify].dev = caches[rec.modify].dev
          /\ caches'[rec.modify].cls = caches[rec.modify].cls
          /\ caches'[rec.modify].mode = TargetMode(rec.spec)
      BY <1>0, <2>4, ModeSetType
    <3>2. rec'.spec = rec.spec
      BY <2>4, LocalsAfter
    <3>3. Calm /\ ~rec.deleting => LabelFits'
      BY <1>2, <2>1, <3>1, <3>2 DEF LabelFits, Fits, Kept
    <3> QED BY <1>1, <2>1, <2>4, <3>3
  <2> QED BY <2>2, <2>3, <2>4
<1>5. CASE StartCache
  <2>1. PICK i \in CacheIds \ DOMAIN caches :
            /\ caches' = Started(caches, i, rec.spec)
            /\ rec'.pc = "label" /\ rec'.cur = i /\ rec'.spec = rec.spec
    BY <1>5, StepsAfter
  <2>2. i \in DOMAIN caches' /\ caches'[i] = NewCache(rec.spec)
    BY <2>1 DEF Started
  <2>3. Fits(caches'[i], rec.spec)
    BY <2>2 DEF Fits, NewCache
  <2> QED BY <2>1, <2>2, <2>3, OngoingLabel DEF LabelInv, LabelSynced, EarlySteps, At
<1>6. CASE StartCacheFails
  BY <1>6, StormyLabel DEF StartCacheFails, Return, Calm
<1>7. CASE SetOperatingCacheLabel
  <2>0. /\ UNCHANGED <<nodeObj, up, caches, queue>> /\ At("label") /\ Release(FALSE)
        /\ PatchLabel(rec.cur) \/ PatchLabelFails
    BY <1>7 DEF SetOperatingCacheLabel, nodeVars
  <2>1. /\ UNCHANGED <<nodeObj, up, caches, queue>> /\ At("label") /\ Release(FALSE)
        /\ label' \in {rec.cur, EmptyLabel, NoLabel} \/ ~nodeObj
    BY <1>0, <2>0, PatchOwned DEF LabelOwned, At
  <2>2. rec'.spec = rec.spec
    BY <2>1, LocalsAfter
  <2>3. Calm /\ ~rec.deleting => LabelFits'
    BY <1>0, <2>1, <2>2 DEF LabelInv, LabelSynced, LabelFits, Calm, NodeRuns
  <2> QED BY <1>1, <2>1, <2>3
<1> QED BY <1>3, <1>4, <1>5, <1>6, <1>7

\* The end of Reconcile.
LEMMA LabelFinished ==
    ASSUME TypeOK, Fresh, LabelOwned, LabelInv, LabelPatchesHold,
           \/ Finish \/ RemoveFinalizer \/ RemoveFinalizerFails
           \/ DeleteOperatingCacheLabel \/ OperatorCrash
    PROVE  LabelInv'
<1>0. /\ NoLabel \notin CacheIds /\ EmptyLabel \notin CacheIds
      /\ rec.err \in BOOLEAN /\ queue \in BOOLEAN
      /\ {"label", "lag"} \cap FaultKinds = {} /\ "crash" \notin FaultKinds
  BY ReconcilerAssumption DEF TypeOK, Locals, LabelPatchesHold
<1>1. CASE Finish
  <2>1. /\ UNCHANGED <<cr, label, nodeObj, up, caches>> /\ At("release") /\ ~MayRelease
        /\ rec'.pc = "idle"
    BY <1>1, LocalsAfter DEF Finish, apiVars, nodeVars
  <2>2. ~queue' => ~queue /\ ~rec.err
    BY <1>1, Zenon DEF Finish, Return
  <2>3. LabelSynced'
    BY <2>1 DEF LabelSynced, EarlySteps, At
  <2>4. SettledLabelFits'
    <3> SUFFICES ASSUME Settled' PROVE (label \in CacheIds =>
                            label \in DOMAIN caches /\ Fits(caches[label], cr.spec))'
      BY DEF SettledLabelFits
    <3>1. Calm /\ ~rec.err /\ ~cr.deleting
      BY <2>1, <2>2 DEF Settled, AtRest, Calm, NodeRuns
    <3>2. rec.spec = cr.spec /\ ~rec.deleting
      BY <2>1, <3>1 DEF Fresh, Calm, At
    <3>3. LabelFits
      BY <2>1, <3>1, <3>2 DEF LabelInv, LabelSynced
    <3> QED BY <2>1, <3>2, <3>3 DEF LabelFits
  <2> QED BY <2>3, <2>4 DEF LabelInv
<1>2. CASE RemoveFinalizer \/ RemoveFinalizerFails
  BY <1>2, StormyLabel DEF RemoveFinalizer, RemoveFinalizerFails, Return, Calm
<1>3. CASE DeleteOperatingCacheLabel
  <2>1. /\ At("unlabel") /\ (PatchLabel(NoLabel) \/ PatchLabelFails)
        /\ \E b : Return(b)
    BY <1>3 DEF DeleteOperatingCacheLabel
  <2>2. label' \notin CacheIds
    BY <1>0, <2>1, PatchOwned DEF LabelOwned, At
  <2>3. rec'.pc = "idle"
    BY <2>1, LocalsAfter
  <2> QED BY <2>2, <2>3 DEF LabelInv, LabelSynced, EarlySteps, SettledLabelFits, At
<1>4. CASE OperatorCrash
  BY <1>0, <1>4 DEF OperatorCrash, Fault
<1> QED BY <1>1, <1>2, <1>3, <1>4

\* Once the controller is at rest, the label has the id of a running cache that
\* fits, or it is empty or absent (lines 144-151 and 198), also when listings are
\* cut short; for any operator whose patches of the Node object succeed and are
\* seen by its next pass, and that neither crashes nor loses the answer of a job
\* that took effect.  A pass that reads an old label may leave the label naming
\* the cache that it stops.
THEOREM RestIsLabelled == ASSUME LabelPatchesHold PROVE Spec => []SettledLabelFits
<1>0. {"label", "lag"} \cap FaultKinds = {}
  BY DEF LabelPatchesHold
<1> DEFINE Inv == Fresh /\ LabelRuns /\ LabelInv
<1>1. Init => Inv
  <2> SUFFICES ASSUME Init PROVE Inv
    OBVIOUS
  <2>1. rec.pc = "idle" /\ rec.deleting = FALSE /\ cr.present = FALSE /\ cr.deleting = FALSE
    BY DEF Init, IdleRec, Begin
  <2>2. label \notin CacheIds
    BY ReconcilerAssumption DEF Init
  <2> QED
    BY <2>1, <2>2 DEF Fresh, LabelRuns, LabelInv, LabelSynced, EarlySteps, SettledLabelFits, At
<1>2. TypeOK /\ LabelOwned /\ DeviceUnique /\ Inv /\ [Next]_vars => Inv'
  <2> SUFFICES ASSUME TypeOK, LabelOwned, DeviceUnique, Inv, [Next]_vars PROVE Inv'
    OBVIOUS
  <2>1. Fresh' /\ LabelRuns'
    BY FreshNext, RunsNext
  <2>2. ASSUME UNCHANGED vars PROVE LabelInv'
    BY <2>2 DEF vars, LabelInv, LabelSynced, LabelFits, Kept, Candidates, SettledLabelFits,
       Settled, AtRest, Calm, NodeRuns, At
  <2>3. ASSUME Next PROVE LabelInv'
    BY <2>3, LabelEnvironment, LabelClassified, LabelRemovals, LabelApplied, LabelFinished
       DEF Next, OperatorNext, Reconcile, OperatorFaults
  <2> QED BY <2>1, <2>2, <2>3 DEF Inv
<1>3. Inv => SettledLabelFits
  BY DEF LabelInv
<1> QED
  BY <1>0, <1>1, <1>2, <1>3, OwnedAlways, DeviceUniqueAlways, TypeCorrect, PTL DEF Spec
=============================================================================
