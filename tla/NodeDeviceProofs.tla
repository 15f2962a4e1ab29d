-------------------------- MODULE NodeDeviceProofs --------------------------
(***************************************************************************)
(* Proofs about the cached devices /dev/cas<cache id>-<core id> that the   *)
(* calls of the node server take from a listing and go on to use: a device *)
(* that a call works on is that of its own volume, or the two volumes are  *)
(* known to have met in it.  From this follow what is mounted, what is     *)
(* bound into a pod and what is formatted, for every set of volumes,       *)
(* caches and ids.                                                         *)
(***************************************************************************)
EXTENDS NodeServerProofs

-----------------------------------------------------------------------------
(***************************************************************************)
(* The inductive invariant.                                                *)
(***************************************************************************)

\* The steps at which a call holds the ids of a core.
DeviceSteps == {"fs", "mkfs", "mount", "rmcore", "bind"}

\* A volume is in one cache, under an id that no other volume has there.
OneCache(v) == \A i, j \in CachesWith(caches, v) : i = j
Named(v) == IsCore(v) => coreId[v] # NoId
OwnId(v) == \A w \in Volumes : \A i \in CachesWith(caches, v) \cap CachesWith(caches, w) :
                coreId[v] = coreId[w] => v = w

\* A call has no ids before it has listed the cores.
Coreless(v) == handler[v].pc \notin DeviceSteps => handler[v].core = NoId

\* It works on its own volume, or on one that casadm gave its ids to.
OwnDevice(v) == \A w \in Device(v) : w = v \/ (v \in exposed /\ w \in exposed)

\* What it is about to format is empty.
Blank(v) == handler[v].pc = "mkfs" /\ v \notin exposed => fs[v] = "none"

\* What shows at the paths of a volume.
OwnShown(v) == v \notin exposed => mounted[v] \subseteq {v} /\ pub[v] \subseteq {v, Directory}

\* What is in use stays in its cache.
OpenIsCore(v) == v \in Opened => IsCore(v)

Apart(v) == OneCache(v) /\ Named(v) /\ OwnId(v)
OnDevice(v) == Coreless(v) /\ OwnDevice(v) /\ Blank(v)
DeviceInv ==
    CallInv /\ \A v \in Volumes : Apart(v) /\ OnDevice(v) /\ OwnShown(v) /\ OpenIsCore(v)

-----------------------------------------------------------------------------
(***************************************************************************)
(* What all steps but AddCore and a reboot do to devices.                  *)
(***************************************************************************)

\* Cores may go, and keep their ids as long as they are there.
CoresShrink ==
    \A w \in Volumes : /\ CachesWith(caches', w) \subseteq CachesWith(caches, w)
                       /\ CachesWith(caches', w) # {} => coreId'[w] = coreId[w]

\* A call forgets its ids, keeps them, or takes those of its volume from a
\* listing; and it formats only what it has found empty.
Followed(v) ==
    /\ handler'[v].pc \notin DeviceSteps => handler'[v].core = NoId
    /\ \/ handler'[v].core = NoId
       \/ handler'[v].cache = handler[v].cache /\ handler'[v].core = handler[v].core
       \/ handler'[v].cache \in CachesWith(caches, v) /\ handler'[v].core = coreId[v]
    /\ handler'[v].pc = "mkfs" =>
          handler[v].pc = "mkfs" \/ \E w \in Device(v) : Unformatted(w)

\* A file system changes by a pod's first write, or by a call that is done with it.
Formats ==
    \A w \in Volumes :
        \/ fs'[w] = fs[w] \/ (fs[w] = "new" /\ fs'[w] = "data")
        \/ \E v \in Volumes : w \in Device(v) /\ handler[v].pc = "mkfs" /\ handler'[v].pc # "mkfs"

\* Only a call's device, or what is at the staging path, comes to show.
Shows ==
    \A v \in Volumes :
        /\ mounted'[v] \subseteq mounted[v] \cup Device(v)
        /\ pub'[v] \subseteq pub[v] \cup mounted[v] \cup Device(v) \cup {Directory}

\* A core that is in use does not go.
OpenStays ==
    \A w \in Volumes :
        IsCore(w) /\ ~IsCore(w)' => w \notin Opened /\ mounted' = mounted /\ pub' = pub

Steady ==
    /\ CoresShrink /\ exposed' = exposed /\ Formats /\ Shows /\ OpenStays
    /\ \A v \in Volumes : Followed(v)

\* A step that leaves the caches alone.
LEMMA SameTable ==
    ASSUME UNCHANGED cacheVars PROVE CoresShrink /\ exposed' = exposed /\ OpenStays
  BY DEF cacheVars, CoresShrink, OpenStays, IsCore

\* A volume that is the device of a call is a core.
LEMMA DeviceIsCore ==
    ASSUME NEW v, NEW w \in Device(v)
    PROVE  /\ w \in Volumes /\ IsCore(w) /\ handler[v].cache \in CachesWith(caches, w)
           /\ coreId[w] = handler[v].core
  BY DEF Device, VolumesAt, IsCore

\* Such a step keeps the devices apart ...
LEMMA SteadyPaths ==
    ASSUME DeviceInv, Steady, NEW v \in Volumes
    PROVE  Apart(v)' /\ Coreless(v)' /\ OwnDevice(v)'
<1>0. \A w \in Volumes : OneCache(w) /\ Named(w) /\ OwnId(w) /\ OwnDevice(w) /\ Coreless(w)
  BY DEF DeviceInv, Apart, OnDevice
<1>1. CoresShrink /\ Followed(v) /\ exposed' = exposed
  BY DEF Steady
<1>2. OneCache(v)'
  BY <1>0, <1>1 DEF OneCache, CoresShrink
<1>3. Named(v)'
  BY <1>0, <1>1 DEF Named, CoresShrink, IsCore
<1>4. OwnId(v)'
  <2>1. SUFFICES ASSUME NEW w \in Volumes, NEW i \in CachesWith(caches', v) \cap CachesWith(caches', w),
                        coreId'[v] = coreId'[w]
                 PROVE  v = w
    BY DEF OwnId
  <2>2. /\ i \in CachesWith(caches, v) \cap CachesWith(caches, w)
        /\ coreId'[v] = coreId[v] /\ coreId'[w] = coreId[w]
    BY <1>1, <2>1 DEF CoresShrink
  <2> QED BY <1>0, <2>1, <2>2 DEF OwnId
<1>5. Coreless(v)'
  BY <1>1 DEF Followed, Coreless
<1>6. OwnDevice(v)'
  <2>1. SUFFICES ASSUME NEW w \in Volumes, handler'[v].cache \in CachesWith(caches', w),
                        coreId'[w] = handler'[v].core
                 PROVE  w = v \/ (v \in exposed /\ w \in exposed)
    BY <1>1 DEF OwnDevice, Device, VolumesAt
  <2>2. /\ handler'[v].cache \in CachesWith(caches, w) /\ coreId[w] = handler'[v].core
        /\ coreId[w] # NoId
    BY <1>0, <1>1, <2>1 DEF CoresShrink, Named, IsCore
  <2>3. CASE handler'[v].cache = handler[v].cache /\ handler'[v].core = handler[v].core
    <3>1. w \in Device(v)
      BY <2>2, <2>3 DEF Device, VolumesAt
    <3> QED BY <1>0, <3>1 DEF OwnDevice
  <2>4. CASE handler'[v].cache \in CachesWith(caches, v) /\ handler'[v].core = coreId[v]
    BY <1>0, <2>2, <2>4 DEF OwnId
  <2> QED BY <1>1, <2>2, <2>3, <2>4 DEF Followed
<1> QED BY <1>2, <1>3, <1>4, <1>5, <1>6 DEF Apart

\* ... and what is formatted empty, ...
LEMMA SteadyBlank == ASSUME DeviceInv, Steady, NEW v \in Volumes PROVE Blank(v)'
<1>0. /\ \A w \in Volumes : OwnDevice(w) /\ Blank(w)
      /\ Followed(v) /\ Formats /\ exposed' = exposed
  BY DEF DeviceInv, OnDevice, Steady
<1>1. SUFFICES ASSUME handler'[v].pc = "mkfs", v \notin exposed PROVE fs'[v] = "none"
  BY <1>0 DEF Blank
<1>2. fs[v] = "none"
  <2>1. CASE handler[v].pc = "mkfs"
    BY <1>0, <1>1, <2>1 DEF Blank
  <2>2. ASSUME NEW w \in Device(v), Unformatted(w) PROVE fs[v] = "none"
    BY <1>0, <1>1, <2>2 DEF OwnDevice, Unformatted
  <2> QED BY <1>0, <1>1, <2>1, <2>2 DEF Followed
<1>3. ASSUME NEW u \in Volumes, v \in Device(u), handler'[u].pc # "mkfs" PROVE FALSE
  BY <1>0, <1>1, <1>3 DEF OwnDevice
<1> QED BY <1>0, <1>2, <1>3 DEF Formats

\* ... and what shows a volume's own.
LEMMA SteadyShown ==
    ASSUME DeviceInv, Steady, NEW v \in Volumes PROVE OwnShown(v)' /\ OpenIsCore(v)'
<1>0. /\ \A w \in Volumes : OwnDevice(w) /\ OwnShown(w) /\ OpenIsCore(w)
      /\ Shows /\ OpenStays /\ exposed' = exposed
  BY DEF DeviceInv, OnDevice, Steady
<1>1. OwnShown(v)'
  <2>1. SUFFICES ASSUME v \notin exposed
                 PROVE  mounted'[v] \subseteq {v} /\ pub'[v] \subseteq {v, Directory}
    BY <1>0 DEF OwnShown
  <2>2. Device(v) \subseteq {v} /\ mounted[v] \subseteq {v} /\ pub[v] \subseteq {v, Directory}
    BY <1>0, <2>1 DEF OwnDevice, OwnShown
  <2> QED BY <1>0, <2>2 DEF Shows
<1>2. OpenIsCore(v)'
  <2>1. SUFFICES ASSUME NEW u \in Volumes, v \in mounted'[u] \cup pub'[u], ~IsCore(v)'
                 PROVE  FALSE
    BY DEF OpenIsCore, Opened
  <2>2. v # Directory
    BY NodeAssumption
  <2>3. v \in mounted[u] \cup pub[u] \cup Device(u)
    BY <1>0, <2>1, <2>2 DEF Shows
  <2>4. IsCore(v)
    <3>1. CASE v \in Device(u)
      BY <3>1, DeviceIsCore
    <3>2. CASE v \in mounted[u] \cup pub[u]
      BY <1>0, <3>2 DEF OpenIsCore, Opened
    <3> QED BY <2>3, <3>1, <3>2
  <2>5. v \notin Opened /\ mounted' = mounted /\ pub' = pub
    BY <1>0, <2>1, <2>4 DEF OpenStays
  <2> QED BY <2>1, <2>5 DEF Opened
<1> QED BY <1>1, <1>2

\* Together.
LEMMA SteadyKeeps == ASSUME DeviceInv, CallInv', Steady PROVE DeviceInv'
  BY SteadyPaths, SteadyBlank, SteadyShown DEF DeviceInv, OnDevice

-----------------------------------------------------------------------------
(***************************************************************************)
(* The steps of the calls.                                                 *)
(***************************************************************************)

\* A handler goes on as h: its ids are forgotten, kept or listed.
Follows(v, h) ==
    /\ h.pc \notin DeviceSteps => h.core = NoId
    /\ \/ h.core = NoId
       \/ h.cache = handler[v].cache /\ h.core = handler[v].core
       \/ h.cache \in CachesWith(caches, v) /\ h.core = coreId[v]
    /\ h.pc = "mkfs" => handler[v].pc = "mkfs" \/ \E w \in Device(v) : Unformatted(w)

\* All calls but one stay where they are.
LEMMA FollowsAll ==
    ASSUME DeviceInv, NEW v \in Volumes, NEW h,
           handler' = [handler EXCEPT ![v] = h], Follows(v, h)
    PROVE  (\A w \in Volumes : Followed(w)) /\ handler'[v] = h
<1>1. handler \in [Volumes -> Handler] /\ \A w \in Volumes : Coreless(w)
  BY DEF DeviceInv, CallInv, TypeOK, OnDevice
<1>2. handler'[v] = h /\ \A w \in Volumes : w # v => handler'[w] = handler[w]
  BY <1>1
<1>3. ASSUME NEW w \in Volumes PROVE Followed(w)
  BY <1>1, <1>2 DEF Follows, Followed, Coreless
<1> QED BY <1>2, <1>3

\* Goto keeps the ids, ...
LEMMA GotoFollows ==
    ASSUME DeviceInv, NEW v \in Volumes, NEW pc, Goto(v, pc),
           pc \in DeviceSteps \/ handler[v].pc \notin DeviceSteps,
           pc = "mkfs" => \E w \in Device(v) : Unformatted(w)
    PROVE  (\A w \in Volumes : Followed(w)) /\ handler'[v].pc = pc
<1>1. handler[v] \in Handler /\ Coreless(v)
  BY DEF DeviceInv, CallInv, TypeOK, OnDevice
<1>2. PICK h : h = [handler[v] EXCEPT !.pc = pc]
  OBVIOUS
<1>3. h.pc = pc /\ h.cache = handler[v].cache /\ h.core = handler[v].core
  BY <1>1, <1>2 DEF Handler
<1>4. Follows(v, h)
  BY <1>1, <1>3 DEF Follows, Coreless
<1>5. handler' = [handler EXCEPT ![v] = h]
  BY <1>2 DEF Goto
<1> QED BY <1>3, <1>4, <1>5, FollowsAll

\* ... a listing shows those of the volume, ...
LEMMA ListedFollows ==
    ASSUME DeviceInv, NEW v \in Volumes, NEW pc \in DeviceSteps \ {"mkfs"}, Listed(v, pc)
    PROVE  \A w \in Volumes : Followed(w)
<1>1. handler[v] \in Handler
  BY DEF DeviceInv, CallInv, TypeOK
<1>2. PICK i \in CachesWith(caches, v) : WithCore(v, i, coreId[v], pc)
  BY DEF Listed
<1>3. PICK h : h = [handler[v] EXCEPT !.pc = pc, !.cache = i, !.core = coreId[v]]
  OBVIOUS
<1>4. h.pc = pc /\ h.cache = i /\ h.core = coreId[v]
  BY <1>1, <1>3 DEF Handler
<1>5. Follows(v, h)
  BY <1>2, <1>4 DEF Follows
<1>6. handler' = [handler EXCEPT ![v] = h]
  BY <1>2, <1>3 DEF WithCore
<1> QED BY <1>5, <1>6, FollowsAll

\* ... and an answer forgets them.
LEMMA ReplyFollows ==
    ASSUME DeviceInv, NEW v \in Volumes, NEW answer, Reply(v, answer)
    PROVE  (\A w \in Volumes : Followed(w)) /\ handler'[v].pc = "idle"
<1>1. IdleHandler.core = NoId /\ IdleHandler.pc = "idle"
  BY DEF IdleHandler
<1>2. Follows(v, IdleHandler)
  BY <1>1 DEF Follows
<1>3. handler' = [handler EXCEPT ![v] = IdleHandler]
  BY DEF Reply
<1> QED BY <1>1, <1>2, <1>3, FollowsAll

\* A step that leaves caches, mounts and file systems alone.
LEMMA QuietSteady ==
    ASSUME UNCHANGED <<cacheVars, mounted, pub, fs>>, \A w \in Volumes : Followed(w)
    PROVE  Steady
  BY SameTable DEF Steady, Formats, Shows

\* The steps that take the mutex, look things up, or make and remove the link.
LEMMA ReadsSteady ==
    ASSUME DeviceInv, NEW v \in Volumes,
           \/ LockKey(v) \/ StageEnter(v) \/ StageFind(v) \/ StageInstances(v) \/ StageLabel(v)
           \/ StageFs(v) \/ UnstageLink(v) \/ UnstageObjects(v) \/ UnstageFind(v)
           \/ PublishBlock(v) \/ PublishFind(v)
    PROVE  Steady
<1>0. UNCHANGED <<cacheVars, mounted, pub, fs>>
  BY DEF LockKey, StageEnter, StageFind, StageInstances, StageLabel, StageFs, UnstageLink,
         UnstageObjects, UnstageFind, PublishBlock, PublishFind, nodeVars
<1>1. SUFFICES \A w \in Volumes : Followed(w)
  BY <1>0, QuietSteady
<1>2. handler[v] \in Handler /\ Coreless(v)
  BY DEF DeviceInv, CallInv, TypeOK, OnDevice
<1>3. ASSUME NEW answer, Reply(v, answer) PROVE \A w \in Volumes : Followed(w)
  BY <1>3, ReplyFollows
<1>4. ASSUME CleanupAndReply(v) PROVE \A w \in Volumes : Followed(w)
  BY <1>4, ReplyFollows DEF CleanupAndReply
<1>5. ASSUME NEW pc \in PCs \ DeviceSteps, Goto(v, pc), handler[v].pc \notin DeviceSteps
      PROVE  \A w \in Volumes : Followed(w)
  BY <1>5, GotoFollows DEF DeviceSteps
<1>6. ASSUME NEW pc \in {"fs", "rmcore", "bind"}, Listed(v, pc)
      PROVE  \A w \in Volumes : Followed(w)
  BY <1>6, ListedFollows DEF DeviceSteps
<1>7. CASE LockKey(v)
  <2>1. PICK op, live : handler' = [handler EXCEPT ![v] =
                            [IdleHandler EXCEPT !.op = op, !.live = live, !.pc = "enter"]]
    BY <1>7 DEF LockKey
  <2>2. PICK h : h = [IdleHandler EXCEPT !.op = op, !.live = live, !.pc = "enter"]
    OBVIOUS
  <2>3. h.pc = "enter" /\ h.core = NoId
    BY <2>2 DEF IdleHandler
  <2>4. Follows(v, h)
    BY <2>3 DEF Follows
  <2> QED BY <2>1, <2>2, <2>4, FollowsAll
<1>8. CASE StageEnter(v) \/ UnstageLink(v) \/ UnstageObjects(v) \/ PublishBlock(v)
  BY <1>3, <1>4, <1>5, <1>8
     DEF StageEnter, UnstageLink, UnstageObjects, PublishBlock, At, DeviceSteps, PCs
<1>9. CASE StageFind(v) \/ UnstageFind(v) \/ PublishFind(v)
  BY <1>3, <1>4, <1>5, <1>6, <1>9 DEF StageFind, UnstageFind, PublishFind, At, DeviceSteps, PCs
<1>10. CASE StageInstances(v)
  <2>1. ASSUME NEW I, handler' = [handler EXCEPT ![v] =
                                    [handler[v] EXCEPT !.pc = "label", !.inst = I]]
        PROVE  \A w \in Volumes : Followed(w)
    <3>1. PICK h : h = [handler[v] EXCEPT !.pc = "label", !.inst = I]
      OBVIOUS
    <3>2. h.pc = "label" /\ h.core = handler[v].core /\ handler[v].core = NoId
      BY <1>2, <1>10, <3>1 DEF Handler, StageInstances, At, Coreless, DeviceSteps
    <3>3. Follows(v, h)
      BY <3>2 DEF Follows
    <3> QED BY <2>1, <3>1, <3>3, FollowsAll
  <2> QED BY <1>3, <1>10, <2>1 DEF StageInstances
<1>11. CASE StageLabel(v)
  <2>1. ASSUME NEW i, handler' = [handler EXCEPT ![v] =
                          [handler[v] EXCEPT !.pc = "addcore", !.cache = i, !.inst = {}]]
        PROVE  \A w \in Volumes : Followed(w)
    <3>1. PICK h : h = [handler[v] EXCEPT !.pc = "addcore", !.cache = i, !.inst = {}]
      OBVIOUS
    <3>2. h.pc = "addcore" /\ h.core = handler[v].core /\ handler[v].core = NoId
      BY <1>2, <1>11, <3>1 DEF Handler, StageLabel, At, Coreless, DeviceSteps
    <3>3. Follows(v, h)
      BY <3>2 DEF Follows
    <3> QED BY <2>1, <3>1, <3>3, FollowsAll
  <2> QED BY <1>3, <1>11, <2>1 DEF StageLabel
<1>12. CASE StageFs(v)
  <2>1. ASSUME NEW w \in Device(v), Goto(v, IF Unformatted(w) THEN "mkfs" ELSE "mount")
        PROVE  \A u \in Volumes : Followed(u)
    BY <2>1, GotoFollows DEF DeviceSteps
  <2> QED BY <1>3, <1>12, <2>1 DEF StageFs
<1> QED BY <1>7, <1>8, <1>9, <1>10, <1>11, <1>12

\* The steps that mount, bind and unmount.
LEMMA MountsSteady ==
    ASSUME DeviceInv, NEW v \in Volumes,
           \/ StageMount(v) \/ UnstageUnmount(v) \/ PublishMount(v) \/ PublishBind(v)
           \/ NodeUnpublishVolume(v)
    PROVE  Steady
<1>0. UNCHANGED <<cacheVars, fs>>
  BY DEF StageMount, UnstageUnmount, PublishMount, PublishBind, NodeUnpublishVolume
<1>1. \A w \in Volumes : Followed(w)
  <2>1. ASSUME NEW answer, Reply(v, answer) PROVE \A w \in Volumes : Followed(w)
    BY <2>1, ReplyFollows
  <2>2. ASSUME UnstageUnmount(v), Goto(v, "link") PROVE \A w \in Volumes : Followed(w)
    BY <2>2, GotoFollows DEF UnstageUnmount, At, DeviceSteps
  <2> QED
    BY <2>1, <2>2 DEF StageMount, UnstageUnmount, PublishMount, PublishBind, NodeUnpublishVolume
<1>2. Shows
  <2>0. /\ mounted \in [Volumes -> SUBSET Volumes]
        /\ pub \in [Volumes -> SUBSET (Volumes \cup {Directory})]
    BY DEF DeviceInv, CallInv, TypeOK
  <2>1. ASSUME NEW M \in SUBSET Device(v), mounted' = [mounted EXCEPT ![v] = M], pub' = pub
        PROVE  Shows
    BY <2>0, <2>1 DEF Shows
  <2>2. ASSUME NEW P \in SUBSET (mounted[v] \cup Device(v) \cup {Directory}),
               pub' = [pub EXCEPT ![v] = P], mounted' = mounted
        PROVE  Shows
    BY <2>0, <2>2 DEF Shows
  <2>3. CASE mounted' = mounted /\ pub' = pub
    BY <2>3 DEF Shows
  <2>4. CASE StageMount(v) \/ UnstageUnmount(v)
    BY <2>1, <2>3, <2>4 DEF StageMount, UnstageUnmount
  <2>5. CASE PublishMount(v)
    <3>1. PICK P : P = IF mounted[v] # {} THEN mounted[v] ELSE {Directory}
      OBVIOUS
    <3> QED BY <2>2, <2>3, <2>5, <3>1 DEF PublishMount
  <2>6. CASE PublishBind(v) \/ NodeUnpublishVolume(v)
    BY <2>2, <2>3, <2>6 DEF PublishBind, NodeUnpublishVolume
  <2> QED BY <2>4, <2>5, <2>6
<1> QED BY <1>0, <1>1, <1>2, SameTable DEF Steady, Formats

\* mkfs.
LEMMA FormatSteady == ASSUME DeviceInv, NEW v \in Volumes, StagePrepareFs(v) PROVE Steady
<1>0. UNCHANGED <<cacheVars, mounted, pub>> /\ handler[v].pc = "mkfs"
  BY DEF StagePrepareFs, At
<1>1. (\A w \in Volumes : Followed(w)) /\ handler'[v].pc # "mkfs"
  <2>1. CASE Goto(v, "mount")
    BY <2>1, GotoFollows DEF DeviceSteps
  <2>2. CASE Reply(v, "final")
    BY <2>2, ReplyFollows
  <2> QED BY <2>1, <2>2 DEF StagePrepareFs
<1>2. Formats
  <2>0. fs \in [Volumes -> {"none", "new", "data"}]
    BY DEF DeviceInv, CallInv, TypeOK
  <2>1. ASSUME NEW w \in Volumes PROVE fs'[w] = fs[w] \/ w \in Device(v)
    BY <2>0 DEF StagePrepareFs
  <2> QED BY <1>0, <1>1, <2>1 DEF Formats
<1> QED BY <1>0, <1>1, <1>2, SameTable DEF Steady, Shows

\* RemoveCore, by the ids of the listing.
LEMMA RemoveSteady == ASSUME DeviceInv, NEW v \in Volumes, UnstageRemoveCore(v) PROVE Steady
<1>0. /\ UNCHANGED <<exposed, mounted, pub, fs>> /\ caches \in CacheTable
      /\ coreId \in [Volumes -> CoreIds \cup {NoId}] /\ \A w \in Volumes : OneCache(w)
  BY DEF UnstageRemoveCore, DeviceInv, CallInv, TypeOK, Apart
<1>1. \A w \in Volumes : Followed(w)
  <2>1. \E answer : Reply(v, answer)
    BY DEF UnstageRemoveCore, CleanupAndReply
  <2> QED BY <2>1, ReplyFollows
<1>2. CoresShrink /\ OpenStays
  <2>1. CASE UNCHANGED <<caches, coreId>>
    BY <2>1 DEF CoresShrink, OpenStays, IsCore
  <2>2. ASSUME NEW i, i = handler[v].cache, NEW w \in Device(v), Device(v) \cap Opened = {},
               caches' = CoreRemoved(caches, i, w), coreId' = [coreId EXCEPT ![w] = NoId]
        PROVE  CoresShrink /\ OpenStays
    <3>1. w \in Volumes /\ i \in CachesWith(caches, w) /\ i \in DOMAIN caches /\ w \notin Opened
      BY <2>2, DeviceIsCore DEF CachesWith
    <3>2. ASSUME NEW u \in Volumes
          PROVE  CachesWith(caches', u) = IF u = w THEN CachesWith(caches, u) \ {i}
                                          ELSE CachesWith(caches, u)
      <4>1. CachesWith(CoreRemoved(caches, i, w), u) =
                IF u = w THEN CachesWith(caches, u) \ {i} ELSE CachesWith(caches, u)
        BY <1>0, <3>1, CoresAfter
      <4> QED BY <2>2, <4>1
    <3>3. CachesWith(caches', w) = {}
      BY <1>0, <3>1, <3>2 DEF OneCache
    <3>4. \A u \in Volumes : u # w => coreId'[u] = coreId[u]
      BY <1>0, <2>2
    <3>5. CoresShrink
      BY <3>2, <3>3, <3>4 DEF CoresShrink
    <3>6. OpenStays
      BY <1>0, <3>1, <3>2 DEF OpenStays, IsCore
    <3> QED BY <3>5, <3>6
  <2> QED BY <2>1, <2>2 DEF UnstageRemoveCore, Removed
<1> QED BY <1>0, <1>1, <1>2 DEF Steady, Formats, Shows

-----------------------------------------------------------------------------
(***************************************************************************)
(* AddCore.                                                                *)
(***************************************************************************)

\* The core gets an id n that is free in cache i; the calls that still work on
\* that device have met the volume.
Adds(v, i, n) ==
    /\ i = handler[v].cache /\ i \in DOMAIN caches /\ ~IsCore(v)
    /\ n \in CoreIds /\ VolumesAt(i, n) = {}
    /\ caches' = CoreAdded(caches, i, v) /\ coreId' = [coreId EXCEPT ![v] = n]
    /\ exposed' = exposed \cup (IF StillUsing(v, i, n) = {} THEN {} ELSE StillUsing(v, i, n) \cup {v})
    /\ UNCHANGED <<mounted, pub, fs>>
    /\ WithCore(v, i, n, "fs") \/ Reply(v, "final")

\* The step is this, or changes nothing.
LEMMA AddIs ==
    ASSUME DeviceInv, NEW v \in Volumes, StageAddCore(v)
    PROVE  Steady \/ \E i, n : Adds(v, i, n)
<1>1. ASSUME UNCHANGED cacheVars, Reply(v, "final") PROVE Steady
  <2>1. UNCHANGED <<mounted, pub, fs>>
    BY DEF StageAddCore, nodeVars
  <2> QED BY <1>1, <2>1, ReplyFollows, QuietSteady
<1>2. ASSUME NEW n \in CoreIds,
             handler[v].cache \in DOMAIN caches, ~IsCore(v), VolumesAt(handler[v].cache, n) = {},
             caches' = CoreAdded(caches, handler[v].cache, v), coreId' = [coreId EXCEPT ![v] = n],
             exposed' = exposed \cup (IF StillUsing(v, handler[v].cache, n) = {} THEN {}
                                      ELSE StillUsing(v, handler[v].cache, n) \cup {v}),
             WithCore(v, handler[v].cache, n, "fs") \/ Reply(v, "final")
      PROVE  Adds(v, handler[v].cache, n)
  BY <1>2 DEF StageAddCore, nodeVars, Adds
<1> QED BY <1>1, <1>2 DEF StageAddCore

\* What it does to the table.
LEMMA AddedTable ==
    ASSUME DeviceInv, NEW v \in Volumes, NEW i, NEW n, Adds(v, i, n)
    PROVE  /\ CachesWith(caches, v) = {} /\ CachesWith(caches', v) = {i} /\ coreId'[v] = n /\ n # NoId
           /\ \A w \in Volumes : w # v =>
                 /\ CachesWith(caches', w) = CachesWith(caches, w) /\ coreId'[w] = coreId[w]
                 /\ ~(i \in CachesWith(caches, w) /\ coreId[w] = n)
           /\ exposed \subseteq exposed'
           /\ \A w \in Volumes : w # v /\ handler[w].cache = i /\ handler[w].core = n =>
                 v \in exposed' /\ w \in exposed'
<1>0. caches \in CacheTable /\ coreId \in [Volumes -> CoreIds \cup {NoId}] /\ i \in DOMAIN caches
  BY DEF DeviceInv, CallInv, TypeOK, Adds
<1>1. CachesWith(caches, v) = {} /\ n # NoId
  BY NodeAssumption DEF Adds, IsCore
<1>2. ASSUME NEW w \in Volumes
      PROVE  CachesWith(caches', w) = IF w = v THEN CachesWith(caches, w) \cup {i}
                                      ELSE CachesWith(caches, w)
  <2>1. CachesWith(CoreAdded(caches, i, v), w) =
            IF w = v THEN CachesWith(caches, w) \cup {i} ELSE CachesWith(caches, w)
    BY <1>0, CoresAfter
  <2> QED BY <2>1 DEF Adds
<1>3. coreId'[v] = n /\ \A w \in Volumes : w # v => coreId'[w] = coreId[w]
  BY <1>0 DEF Adds
<1>4. \A w \in Volumes : ~(i \in CachesWith(caches, w) /\ coreId[w] = n)
  BY DEF Adds, VolumesAt
<1>5. /\ exposed \subseteq exposed'
      /\ \A w \in Volumes : w # v /\ handler[w].cache = i /\ handler[w].core = n =>
            v \in exposed' /\ w \in exposed'
  BY DEF Adds, StillUsing
<1> QED BY <1>1, <1>2, <1>3, <1>4, <1>5

\* What the handlers work on afterwards.
LEMMA AddedHandlers ==
    ASSUME DeviceInv, NEW v \in Volumes, NEW i, NEW n, Adds(v, i, n)
    PROVE  /\ \A w \in Volumes : w # v => handler'[w] = handler[w]
           /\ \/ handler'[v].core = NoId /\ handler'[v].pc = "idle"
              \/ handler'[v].cache = i /\ handler'[v].core = n /\ handler'[v].pc = "fs"
<1>0. handler \in [Volumes -> Handler] /\ handler[v] \in Handler
  BY DEF DeviceInv, CallInv, TypeOK
<1>1. CASE WithCore(v, i, n, "fs")
  <2>1. PICK h : h = [handler[v] EXCEPT !.pc = "fs", !.cache = i, !.core = n]
    OBVIOUS
  <2>2. h.pc = "fs" /\ h.cache = i /\ h.core = n
    BY <1>0, <2>1 DEF Handler
  <2>3. handler' = [handler EXCEPT ![v] = h]
    BY <1>1, <2>1 DEF WithCore
  <2> QED BY <1>0, <2>2, <2>3
<1>2. CASE Reply(v, "final")
  <2>1. handler' = [handler EXCEPT ![v] = IdleHandler]
    BY <1>2 DEF Reply
  <2> QED BY <1>0, <2>1 DEF IdleHandler
<1> QED BY <1>1, <1>2 DEF Adds

\* The devices stay apart.
LEMMA AddKeeps ==
    ASSUME DeviceInv, CallInv', NEW v \in Volumes, NEW i, NEW n, Adds(v, i, n)
    PROVE  DeviceInv'
<1>0. \A w \in Volumes : /\ OneCache(w) /\ Named(w) /\ OwnId(w) /\ Coreless(w) /\ OwnDevice(w)
                         /\ Blank(w) /\ OwnShown(w) /\ OpenIsCore(w)
  BY DEF DeviceInv, Apart, OnDevice
<1>1. /\ CachesWith(caches, v) = {} /\ CachesWith(caches', v) = {i} /\ coreId'[v] = n /\ n # NoId
      /\ \A w \in Volumes : w # v =>
            /\ CachesWith(caches', w) = CachesWith(caches, w) /\ coreId'[w] = coreId[w]
            /\ ~(i \in CachesWith(caches, w) /\ coreId[w] = n)
      /\ exposed \subseteq exposed'
      /\ \A w \in Volumes : w # v /\ handler[w].cache = i /\ handler[w].core = n =>
            v \in exposed' /\ w \in exposed'
  BY AddedTable
<1>2. /\ \A w \in Volumes : w # v => handler'[w] = handler[w]
      /\ \/ handler'[v].core = NoId /\ handler'[v].pc = "idle"
         \/ handler'[v].cache = i /\ handler'[v].core = n /\ handler'[v].pc = "fs"
  BY AddedHandlers
<1>3. SUFFICES ASSUME NEW w \in Volumes
               PROVE  Apart(w)' /\ OnDevice(w)' /\ OwnShown(w)' /\ OpenIsCore(w)'
  BY DEF DeviceInv
<1>4. OneCache(w)' /\ Named(w)'
  BY <1>0, <1>1 DEF OneCache, Named, IsCore
<1>5. OwnId(w)'
  BY <1>0, <1>1 DEF OwnId
<1>6. Coreless(w)'
  BY <1>0, <1>2 DEF Coreless, DeviceSteps
<1>7. OwnDevice(w)'
  <2>1. SUFFICES ASSUME NEW u \in Volumes, handler'[w].cache \in CachesWith(caches', u),
                        coreId'[u] = handler'[w].core
                 PROVE  u = w \/ (w \in exposed' /\ u \in exposed')
    BY DEF OwnDevice, Device, VolumesAt
  <2>2. coreId'[u] # NoId
    BY <1>0, <1>1, <2>1 DEF Named, IsCore
  <2>3. CASE w # v /\ u # v
    <3>1. u \in Device(w)
      BY <1>1, <1>2, <2>1, <2>3 DEF Device, VolumesAt
    <3> QED BY <1>0, <1>1, <3>1 DEF OwnDevice
  <2>4. CASE w # v /\ u = v
    BY <1>1, <1>2, <2>1, <2>4
  <2>5. CASE w = v /\ u # v
    BY <1>1, <1>2, <2>1, <2>2, <2>5
  <2> QED BY <2>3, <2>4, <2>5
<1>8. Blank(w)'
  BY <1>0, <1>1, <1>2 DEF Blank, Adds
<1>9. OwnShown(w)'
  BY <1>0, <1>1 DEF OwnShown, Adds
<1>10. OpenIsCore(w)'
  <2>1. mounted' = mounted /\ pub' = pub
    BY DEF Adds
  <2> QED BY <1>0, <1>1, <2>1 DEF OpenIsCore, Opened, IsCore
<1> QED BY <1>4, <1>5, <1>6, <1>7, <1>8, <1>9, <1>10 DEF Apart, OnDevice

-----------------------------------------------------------------------------
(***************************************************************************)
(* The environment.                                                        *)
(***************************************************************************)

\* Kubelet, pods and attachments.
LEMMA KubernetesSteady == ASSUME DeviceInv, NEW v \in Volumes, KubernetesStep(v) PROVE Steady
<1>0. \A w \in Volumes : Coreless(w) /\ handler[w] \in Handler
  BY DEF DeviceInv, CallInv, TypeOK, OnDevice
<1>1. handler \in [Volumes -> Handler] /\ fs \in [Volumes -> {"none", "new", "data"}]
  BY DEF DeviceInv, CallInv, TypeOK
<1>2. UNCHANGED <<cacheVars, mounted, pub>>
  BY DEF KubernetesStep, KubeletCall, KubeletTimeout, PodArrives, PodLeaves, PodWrites, Attach,
         Detach, ForceDetach, Detached, nodeVars
<1>3. \A w \in Volumes : /\ handler'[w].pc = handler[w].pc /\ handler'[w].cache = handler[w].cache
                         /\ handler'[w].core = handler[w].core
  <2>1. CASE handler' = handler
    BY <2>1
  <2>2. CASE handler' = [handler EXCEPT ![v] = [handler[v] EXCEPT !.live = FALSE]]
    BY <1>0, <1>1, <2>2 DEF Handler
  <2> QED
    BY <2>1, <2>2 DEF KubernetesStep, KubeletCall, KubeletTimeout, PodArrives, PodLeaves, PodWrites,
                      Attach, Detach, ForceDetach, Detached, callVars
<1>4. \A w \in Volumes : Followed(w)
  BY <1>0, <1>3 DEF Followed, Coreless
<1>5. Formats
  <2>1. CASE fs' = fs
    BY <2>1 DEF Formats
  <2>2. CASE PodWrites(v)
    BY <1>1, <2>2 DEF PodWrites, Formats
  <2> QED
    BY <2>1, <2>2 DEF KubernetesStep, KubeletCall, KubeletTimeout, PodArrives, PodLeaves, Attach,
                      Detach, ForceDetach, Detached, nodeVars
<1> QED BY <1>2, <1>4, <1>5, SameTable DEF Steady, Shows

\* The plugin restarts, the operator labels, nothing happens.
LEMMA OutsideSteady ==
    ASSUME DeviceInv, PluginCrash \/ OperatorLabels \/ UNCHANGED vars PROVE Steady
<1>0. UNCHANGED <<cacheVars, mounted, pub, fs>> /\ \A w \in Volumes : Coreless(w)
  BY DEF PluginCrash, OperatorLabels, vars, cacheVars, nodeVars, DeviceInv, OnDevice
<1>1. handler' = handler \/ handler' = [w \in Volumes |-> IdleHandler]
  BY DEF PluginCrash, OperatorLabels, vars, callVars
<1>2. \A w \in Volumes : Followed(w)
  BY <1>0, <1>1 DEF Followed, Coreless, IdleHandler
<1> QED BY <1>0, <1>2, QuietSteady

\* The operator starts and stops caches.
LEMMA OperatorSteady == ASSUME DeviceInv, OperatorStarts \/ OperatorStops PROVE Steady
<1>0. /\ UNCHANGED <<exposed, mounted, pub, fs, handler>> /\ caches \in CacheTable
      /\ coreId \in [Volumes -> CoreIds \cup {NoId}]
      /\ \A w \in Volumes : OneCache(w) /\ Coreless(w)
  BY DEF OperatorStarts, OperatorStops, nodeVars, callVars, DeviceInv, CallInv, TypeOK, Apart, OnDevice
<1>1. \A w \in Volumes : Followed(w)
  BY <1>0 DEF Followed, Coreless
<1>2. CoresShrink /\ OpenStays
  <2>1. CASE OperatorStarts
    <3>1. PICK i \in CacheIds \ DOMAIN caches, d \in Devices :
              caches' = Started(caches, i, [dev |-> d, cls |-> Unset, mode |-> Unset])
      BY <2>1 DEF OperatorStarts
    <3>2. PICK s : s = [dev |-> d, cls |-> Unset, mode |-> Unset]
      OBVIOUS
    <3>3. s \in CacheSpec
      BY <3>2 DEF CacheSpec
    <3>4. \A w \in Volumes : CachesWith(caches', w) = CachesWith(caches, w)
      BY <1>0, <3>1, <3>2, <3>3, CoresAfter
    <3>5. coreId' = coreId
      BY <2>1 DEF OperatorStarts
    <3> QED BY <3>4, <3>5 DEF CoresShrink, OpenStays, IsCore
  <2>2. CASE OperatorStops
    <3>1. PICK i \in DOMAIN caches :
              /\ CanStop(caches, i, Opened) /\ caches' = Stopped(caches, i)
              /\ coreId' = [w \in Volumes |->
                              IF i \in CachesWith(caches, w) THEN NoId ELSE coreId[w]]
      BY <2>2 DEF OperatorStops
    <3>2. i \in CacheIds
      BY <1>0, TableDef
    <3>3. \A w \in Volumes : CachesWith(Stopped(caches, i), w) = CachesWith(caches, w) \ {i}
      BY <1>0, <3>2, CoresAfter
    <3>4. \A w \in Volumes : CachesWith(caches', w) = CachesWith(caches, w) \ {i}
      BY <3>1, <3>3
    <3>5. ASSUME NEW w \in Volumes, CachesWith(caches', w) # {}
          PROVE  i \notin CachesWith(caches, w) /\ coreId'[w] = coreId[w]
      <4>1. i \notin CachesWith(caches, w)
        BY <1>0, <3>4, <3>5 DEF OneCache
      <4> QED BY <3>1, <4>1
    <3>6. CoresShrink
      BY <3>4, <3>5 DEF CoresShrink
    <3>7. ASSUME NEW w \in Volumes, IsCore(w), ~IsCore(w)' PROVE w \notin Opened
      <4>1. i \in CachesWith(caches, w)
        BY <3>4, <3>7 DEF IsCore
      <4> QED BY <3>1, <4>1 DEF CachesWith, CanStop
    <3> QED BY <1>0, <3>6, <3>7 DEF OpenStays
  <2> QED BY <2>1, <2>2
<1> QED BY <1>0, <1>1, <1>2 DEF Steady, Formats, Shows

\* After a reboot, as at first, there is nothing at all.
Fresh ==
    /\ caches = NoCaches /\ handler = [v \in Volumes |-> IdleHandler]
    /\ mounted = [v \in Volumes |-> {}] /\ pub = [v \in Volumes |-> {}]

\* Nothing is under a cache then, in use, or worked on.
LEMMA FreshDevices == CallInv /\ Fresh => DeviceInv
<1> SUFFICES ASSUME CallInv, Fresh PROVE DeviceInv
  OBVIOUS
<1>1. \A w \in Volumes : CachesWith(caches, w) = {}
  BY CoresAfter, NoCachesType DEF Fresh
<1>2. ASSUME NEW v \in Volumes
      PROVE  handler[v].core = NoId /\ handler[v].pc = "idle" /\ mounted[v] = {} /\ pub[v] = {}
  BY DEF Fresh, IdleHandler
<1>3. Opened = {}
  BY <1>2 DEF Opened
<1> QED
  BY <1>1, <1>2, <1>3
     DEF DeviceInv, Apart, OneCache, Named, OwnId, IsCore, OnDevice, Coreless, OwnDevice, Device,
         VolumesAt, Blank, OwnShown, OpenIsCore, DeviceSteps

\* Every step keeps the devices apart.
LEMMA DeviceNext == DeviceInv /\ [Next]_vars => DeviceInv'
<1>1. SUFFICES ASSUME DeviceInv, [Next]_vars, ~Reboot PROVE DeviceInv'
  <2>1. ASSUME DeviceInv, Reboot PROVE DeviceInv'
    <3>1. CallInv'
      BY <2>1, CallNext DEF DeviceInv, Next
    <3>2. Fresh'
      BY <2>1 DEF Reboot, Fresh
    <3> QED BY <3>1, <3>2, FreshDevices, PTL
  <2> QED BY <2>1
<1>2. CallInv'
  BY <1>1, CallNext DEF DeviceInv
<1>3. ASSUME NEW v \in Volumes, NodeServerStep(v) PROVE Steady \/ \E i, n : Adds(v, i, n)
  BY <1>1, <1>3, ReadsSteady, MountsSteady, FormatSteady, RemoveSteady, AddIs
     DEF NodeServerStep, NodeStageVolume, NodeUnstageVolume
<1>4. ASSUME NEW v \in Volumes, KubernetesStep(v) PROVE Steady
  BY <1>1, <1>4, KubernetesSteady
<1>5. CASE PluginCrash \/ OperatorLabels \/ UNCHANGED vars
  BY <1>1, <1>2, <1>5, OutsideSteady, SteadyKeeps
<1>6. CASE OperatorStarts \/ OperatorStops
  BY <1>1, <1>2, <1>6, OperatorSteady, SteadyKeeps
<1> QED BY <1>1, <1>2, <1>3, <1>4, <1>5, <1>6, SteadyKeeps, AddKeeps DEF Next

\* The devices stay apart.
LEMMA DeviceAlways == Spec => []DeviceInv
<1>1. Init => CallInv /\ Fresh
  BY CallInit DEF Init, Fresh
<1>2. Init => DeviceInv
  BY <1>1, FreshDevices
<1> QED BY <1>2, DeviceNext, PTL DEF Spec

-----------------------------------------------------------------------------
(***************************************************************************)
(* What follows for the pods and their data.                               *)
(***************************************************************************)

\* A file system that kubelet takes for staged is mounted from the cached device
\* of its own volume, and stays so, whatever calls kubelet gave up on and whatever
\* the operator does: no cache is stopped under it, and no call for it works on
\* another device, unless casadm gave the ids it holds to another volume.
THEOREM StagedStaysReady ==
    ASSUME "overtake" \notin FaultKinds PROVE Spec => []StagedIsReady
<1>1. OrderInv /\ DeviceInv => StagedIsReady
  <2>1. SUFFICES ASSUME OrderInv, DeviceInv, NEW v \in Volumes \ (BlockVolumes \cup exposed),
                        kub[v].dev = "staged", kub[v].op # "unstage"
                 PROVE  IsCore(v) /\ mounted[v] = {v}
    BY DEF StagedIsReady
  <2>2. mounted[v] # {}
    BY <2>1 DEF OrderInv, Ordered, StaysStaged, Holds
  <2>3. mounted[v] = {v}
    BY <2>1, <2>2 DEF DeviceInv, OwnShown
  <2>4. IsCore(v)
    BY <2>1, <2>3 DEF DeviceInv, OpenIsCore, Opened
  <2> QED BY <2>3, <2>4
<1> QED BY <1>1, OrderAlways, DeviceAlways, PTL

\* A pod gets its own volume: no publish call comes before the mount or after the
\* unmount, although NodePublishVolume checks neither, and what it binds is the
\* device of its volume, unless two volumes met in one path.
THEOREM PublishesVolumes ==
    ASSUME "overtake" \notin FaultKinds PROVE Spec => []PublishedIsVolume
<1>1. OrderInv /\ DeviceInv => PublishedIsVolume
  <2>1. SUFFICES ASSUME OrderInv, DeviceInv, NEW v \in Volumes
                 PROVE  Directory \notin pub[v] /\ (v \notin exposed => pub[v] \subseteq {v})
    BY DEF PublishedIsVolume
  <2>2. Directory \notin pub[v]
    BY <2>1 DEF OrderInv, Ordered
  <2> QED BY <2>1, <2>2 DEF DeviceInv, OwnShown
<1> QED BY <1>1, OrderAlways, DeviceAlways, PTL

\* What a pod has written is never formatted away, by no fault or order of calls:
\* the look at the device and mkfs are two steps, but in between the device stays
\* that of the volume, empty as it was, unless casadm gave its ids to another.
THEOREM DataIsKept == Spec => DataSurvives
<1>1. DeviceInv /\ DeviceInv' /\ [Next]_vars =>
          [\A v \in Volumes \ exposed : fs[v] = "data" => fs'[v] = "data"]_vars
  <2>1. SUFFICES ASSUME DeviceInv, [Next]_vars, NEW v \in Volumes \ exposed, fs[v] = "data",
                        fs'[v] # "data"
                 PROVE  FALSE
    OBVIOUS
  <2>2. \A w \in Volumes : OwnDevice(w) /\ Blank(w)
    BY <2>1 DEF DeviceInv, OnDevice
  <2>3. ASSUME Formats PROVE FALSE
    BY <2>1, <2>2, <2>3 DEF Formats, OwnDevice, Blank
  <2>4. ASSUME NEW w \in Volumes, NodeServerStep(w) PROVE FALSE
    <3>1. Steady \/ \E i, n : Adds(w, i, n)
      BY <2>1, <2>4, ReadsSteady, MountsSteady, FormatSteady, RemoveSteady, AddIs
         DEF NodeServerStep, NodeStageVolume, NodeUnstageVolume
    <3> QED BY <2>1, <2>3, <3>1 DEF Steady, Adds
  <2>5. ASSUME NEW w \in Volumes, KubernetesStep(w) PROVE FALSE
    BY <2>1, <2>3, <2>5, KubernetesSteady DEF Steady
  <2>6. CASE PluginCrash \/ OperatorLabels \/ UNCHANGED vars \/ OperatorStarts \/ OperatorStops
    BY <2>1, <2>3, <2>6, OutsideSteady, OperatorSteady DEF Steady
  <2>7. CASE Reboot
    BY <2>1, <2>7 DEF Reboot
  <2> QED BY <2>1, <2>4, <2>5, <2>6, <2>7 DEF Next
<1> QED BY <1>1, DeviceAlways, PTL DEF Spec, DataSurvives

=============================================================================
