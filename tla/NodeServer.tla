---------------------------- MODULE NodeServer ----------------------------
(***************************************************************************)
(* The CSI node server of ONE node (pkg/csi-driver/node.go): staging puts  *)
(* the backend device of a volume under the node's cache and mounts it,    *)
(* unstaging takes it away again; publishing binds it into a pod.          *)
(*                                                                         *)
(* A handler works under the mutex of its volume and makes one local or    *)
(* remote call per step.  Kubelet gives up on a call that takes too long   *)
(* and goes on to the next one, but the handler does not notice: it keeps  *)
(* waiting for the mutex or keeps running.  Only the read of the Node's    *)
(* label uses the request's context and fails once kubelet has given up.   *)
(* The mutex serves calls as they come, except that a call that arrives    *)
(* just when it is released may overtake those that wait.                  *)
(*                                                                         *)
(* The cached device of a volume is /dev/cas<cache id>-<core id>.  A call  *)
(* reads these ids from a listing and goes on to use them, whatever is     *)
(* there by then: casadm may have given them to another volume.            *)
(*                                                                         *)
(* Kubelet, the attach controller and the operator are the environment.    *)
(* The operator may start caches, stop those that are not in use and change *)
(* the label at any time, which covers all of CacheReconciler.             *)
(***************************************************************************)
EXTENDS OpenCAS, Naturals, Sequences

CONSTANTS
    NoId, NoLabel, EmptyLabel,  \* no id; label absent; label present but ""
    Directory,     \* the directory below a staging path where nothing is mounted
    CoreIds,       \* ids casadm can give a core within its cache
    BlockVolumes,  \* the volumes requested as raw block devices
    FaultKinds,    \* "job", "late", "cut", "local", "timeout", "overtake", "reuse",
                   \* "crash", "detach", "pv", "forget": what may go wrong
    MaxFaults,     \* bound on what goes wrong in all
    MaxPods,       \* bound on pods that come to use a volume
    MaxChanges,    \* bound on what the operator does
    MaxReboots     \* bound on reboots

ASSUME NodeAssumption ==
    /\ NoId \notin CacheIds /\ NoId \notin CoreIds
    /\ Directory \notin Volumes
    /\ NoLabel \notin CacheIds
    /\ EmptyLabel \notin CacheIds
    /\ NoLabel # EmptyLabel
    /\ BlockVolumes \subseteq Volumes
    /\ MaxFaults \in Nat /\ MaxPods \in Nat /\ MaxChanges \in Nat /\ MaxReboots \in Nat

VARIABLES
    caches,   \* the caches running on the node
    coreId,   \* the id of a volume within its cache, if it is a core
    label,    \* the operating-cache label of the Node object
    pod,      \* volumes whose intermediate Pod exists, with the backend device in it
    link,     \* by-id link of a volume: none, or to the device of the present
              \* Pod ("good"), or to one that is gone ("broken")
    mounted,  \* the volume that shows at the staging path of a volume, if any
    pub,      \* what shows at its target path: nothing, a volume or Directory
    fs,       \* the file system on a volume: none, new, or with a pod's data
    handler,  \* the call that holds a volume's mutex
    waiting,  \* the calls that wait for a volume's mutex, in order of arrival
    want,     \* volumes that a pod on the node uses
    kub,      \* what kubelet knows of a volume and which call it waits for
    used,     \* how much of each bound has been used
    exposed   \* volumes that met in one device path: a call for the one still
              \* held the ids that casadm gave to the other (history)

vars == <<caches, coreId, label, pod, link, mounted, pub, fs, handler, waiting, want, kub,
          used, exposed>>

Ops == {"stage", "unstage", "publish", "unpublish"}
Calls == [op : Ops, live : BOOLEAN]
PCs == {"idle", "enter", "find", "instances", "label", "addcore", "fs", "mkfs", "mount",
        "link", "objects", "lookup", "rmcore", "blkfind", "bind"}
Labels == CacheIds \cup {NoLabel, EmptyLabel}

\* A handler's call, where it is, the caches listed, the cache to use, and with
\* that the core whose device it works on.
Handler == [op : Ops \cup {"none"}, live : BOOLEAN, pc : PCs, inst : SUBSET CacheIds,
            cache : CacheIds \cup {NoId}, core : CoreIds \cup {NoId}]
IdleHandler == [op |-> "none", live |-> FALSE, pc |-> "idle", inst |-> {},
                cache |-> NoId, core |-> NoId]

(***************************************************************************)
(* Kubelet's record of a volume.  dev: staged or not; "uncertain" after a  *)
(* call whose outcome it does not know, "failed" after one that it thinks  *)
(* had no effect and therefore never undoes.  pub: likewise for publishing.*)
(***************************************************************************)
Kubelet == [dev : {"none", "uncertain", "failed", "staged"},
            pub : {"none", "uncertain", "published"},
            op : Ops \cup {"none"}]

\* The type of every variable.
TypeOK ==
    /\ caches \in CacheTable
    /\ coreId \in [Volumes -> CoreIds \cup {NoId}]
    /\ label \in Labels
    /\ pod \in SUBSET Volumes
    /\ link \in [Volumes -> {"none", "good", "broken"}]
    /\ mounted \in [Volumes -> SUBSET Volumes]
    /\ pub \in [Volumes -> SUBSET (Volumes \cup {Directory})]
    /\ fs \in [Volumes -> {"none", "new", "data"}]
    /\ handler \in [Volumes -> Handler]
    /\ waiting \in [Volumes -> Seq(Calls)]
    /\ want \in SUBSET Volumes
    /\ kub \in [Volumes -> Kubelet]
    /\ used \in [faults : Nat, pods : Nat, changes : Nat, reboots : Nat]
    /\ exposed \in SUBSET Volumes

Init ==
    /\ caches = NoCaches
    /\ coreId = [v \in Volumes |-> NoId]
    /\ label = NoLabel
    /\ pod = {}
    /\ link = [v \in Volumes |-> "none"]
    /\ mounted = [v \in Volumes |-> {}]
    /\ pub = [v \in Volumes |-> {}]
    /\ fs = [v \in Volumes |-> "none"]
    /\ handler = [v \in Volumes |-> IdleHandler]
    /\ waiting = [v \in Volumes |-> <<>>]
    /\ want = {}
    /\ kub = [v \in Volumes |-> [dev |-> "none", pub |-> "none", op |-> "none"]]
    /\ used = [faults |-> 0, pods |-> 0, changes |-> 0, reboots |-> 0]
    /\ exposed = {}

-----------------------------------------------------------------------------
cacheVars == <<caches, coreId, exposed>>        \* in the kernel module
nodeVars == <<link, mounted, pub, fs>>          \* on the node's disks and mounts
callVars == <<handler, waiting, kub>>
outerVars == <<label, pod, want>>               \* in the API server

Use(k, max) == used[k] < max /\ used' = [used EXCEPT ![k] = @ + 1]
Fault(k) == k \in FaultKinds /\ Use("faults", MaxFaults)

At(v, pc) == handler[v].pc = pc
Goto(v, pc) ==
    /\ handler' = [handler EXCEPT ![v] = [handler[v] EXCEPT !.pc = pc]]
    /\ UNCHANGED <<waiting, kub>>

IsCore(v) == CachesWith(caches, v) # {}

\* The volume whose cached device is /dev/cas<i>-<n>, if there is one.
VolumesAt(i, n) == {w \in Volumes : i \in CachesWith(caches, w) /\ coreId[w] = n}

\* The device that a handler has found is by now that of ...
Device(v) == VolumesAt(handler[v].cache, handler[v].core)

\* A handler goes on with the device that the listing shows.
WithCore(v, i, n, pc) ==
    /\ handler' = [handler EXCEPT ![v] =
                     [handler[v] EXCEPT !.pc = pc, !.cache = i, !.core = n]]
    /\ UNCHANGED <<waiting, kub>>

\* GetVolumeFromCacheList finds the volume.
Listed(v, pc) == \E i \in CachesWith(caches, v) : WithCore(v, i, coreId[v], pc)

\* Volumes in use, by a staging mount or by a bind mount of a pod.
Opened == UNION {mounted[v] \cup pub[v] : v \in Volumes}

(***************************************************************************)
(* The answer to a call, and what kubelet makes of it if it still waits.   *)
(* "retry" stands for the codes after which the outcome is unknown to it   *)
(* (Unavailable, Aborted), "final" for the other errors: it may then       *)
(* forget the call, although some of its steps were done.                  *)
(***************************************************************************)
Forgotten(answer, state) == IF answer = "final" /\ "forget" \in FaultKinds THEN {state} ELSE {}

AfterAnswer(k, op, answer) ==
    LET known ==
          CASE op = "stage"     -> {[k EXCEPT !.dev = d] : d \in IF answer = "ok" THEN {"staged"}
                                        ELSE {"uncertain"} \cup Forgotten(answer, "failed")}
            [] op = "unstage"   -> {[k EXCEPT !.dev = IF answer = "ok" THEN "none" ELSE "uncertain"]}
            [] op = "publish"   -> {[k EXCEPT !.pub = d] : d \in IF answer = "ok" THEN {"published"}
                                        ELSE {"uncertain"} \cup Forgotten(answer, "none")}
            [] op = "unpublish" -> {[k EXCEPT !.pub = IF answer = "ok" THEN "none" ELSE "uncertain"]}
    IN {[j EXCEPT !.op = "none"] : j \in known}

Reply(v, answer) ==
    /\ handler' = [handler EXCEPT ![v] = IdleHandler]
    /\ IF handler[v].live
       THEN \E k \in AfterAnswer(kub[v], handler[v].op, answer) : kub' = [kub EXCEPT ![v] = k]
       ELSE UNCHANGED kub
    /\ UNCHANGED waiting

\* The mutex of the volume is free: the first of the waiting calls gets it, or
\* the one that has just arrived.
LockKey(v) ==
    /\ At(v, "idle")
    /\ \E n \in 1..Len(waiting[v]) :
          /\ \/ n = 1 /\ UNCHANGED used
             \/ n = Len(waiting[v]) /\ n # 1 /\ Fault("overtake")
          /\ handler' = [handler EXCEPT ![v] =
                           [IdleHandler EXCEPT !.op = waiting[v][n].op,
                                               !.live = waiting[v][n].live, !.pc = "enter"]]
          /\ waiting' = [waiting EXCEPT ![v] = SubSeq(@, 1, n - 1) \o SubSeq(@, n + 1, Len(@))]
    /\ UNCHANGED <<cacheVars, nodeVars, outerVars, kub>>

-----------------------------------------------------------------------------
(***************************************************************************)
(* NodeStageVolume                                                         *)
(***************************************************************************)

\* ProvideByIdLinkForPv points the link at the device of the present Pod.
Linked(v) == [link EXCEPT ![v] = "good"]

\* The intermediate Pod is looked up and the by-id link made.  When find shows
\* no device in the Pod, ln succeeds without touching the link.
StageEnter(v) ==
    /\ At(v, "enter") /\ handler[v].op = "stage"
    /\ \/ v \in pod /\ link' = Linked(v) /\ Goto(v, "find") /\ UNCHANGED used
       \/ v \in pod /\ Fault("local") /\ UNCHANGED link
             /\ (Goto(v, "find") \/ Reply(v, "final"))
       \/ v \notin pod /\ UNCHANGED <<link, used>> /\ Reply(v, "final")
       \/ Fault("job") /\ UNCHANGED link /\ Reply(v, "final")
    /\ UNCHANGED <<cacheVars, mounted, pub, fs, outerVars>>

StageFind_CoreExists(v) ==
    /\ At(v, "find")
    /\ IF IsCore(v) THEN Reply(v, "final") ELSE Goto(v, "instances")
    /\ UNCHANGED <<cacheVars, nodeVars, outerVars, used>>

\* GetVolumeFromCacheList: is the volume a core already?
StageFind(v) ==
    /\ At(v, "find")
    /\ \/ Listed(v, "fs") /\ UNCHANGED used
       \/ ~IsCore(v) /\ Goto(v, "instances") /\ UNCHANGED used
       \/ Fault("cut") /\ Goto(v, "instances")
       \/ Fault("job") /\ Reply(v, "final")
    /\ UNCHANGED <<cacheVars, nodeVars, outerVars>>

\* GetCacheInstances: nothing to do without a cache.
StageInstances(v) ==
    LET listed(I) ==
          IF I = {} THEN Reply(v, "final")
          ELSE /\ handler' = [handler EXCEPT ![v] =
                                [handler[v] EXCEPT !.pc = "label", !.inst = I]]
               /\ UNCHANGED <<waiting, kub>>
    IN /\ At(v, "instances")
       /\ \/ listed(DOMAIN caches) /\ UNCHANGED used
          \/ Fault("cut") /\ listed({})
          \/ Fault("job") /\ Reply(v, "final")
       /\ UNCHANGED <<cacheVars, nodeVars, outerVars>>

Chosen_Unmatched(I) == label

\* The cache to use: the one the label names, or the only one without label.
Chosen(I) ==
    CASE label \in I                            -> label
      [] label = NoLabel /\ \E i \in I : I = {i} -> CHOOSE i \in I : TRUE
      [] OTHER                                  -> NoId

LabelReadable_AnyContext(v) == TRUE

\* Only this read of the API server uses the context of the request.
LabelReadable(v) == handler[v].live

StageLabel(v) ==
    LET i == Chosen(handler[v].inst)
    IN /\ At(v, "label")
       /\ IF ~LabelReadable(v) THEN Reply(v, "final")
          ELSE IF label = EmptyLabel THEN Reply(v, "retry")
          ELSE IF i = NoId THEN Reply(v, "final")
          ELSE /\ handler' = [handler EXCEPT ![v] =
                                [handler[v] EXCEPT !.pc = "addcore", !.cache = i, !.inst = {}]]
               /\ UNCHANGED <<waiting, kub>>
       /\ UNCHANGED <<cacheVars, nodeVars, outerVars, used>>

\* Handlers of other volumes that still work on this device.
StillUsing(v, i, n) == {w \in Volumes \ {v} : handler[w].cache = i /\ handler[w].core = n}

\* AddCore: refused when the cache is gone, the link leads nowhere, or the
\* device is under a cache already.  casadm picks an id that is free in the
\* cache, even one that a running call took from an older listing ("reuse").
StageAddCore(v) ==
    LET i == handler[v].cache
        free == {n \in CoreIds : VolumesAt(i, n) = {}}
        accepted == i \in DOMAIN caches /\ link[v] = "good" /\ ~IsCore(v) /\ free # {}
        added(n) == caches' = CoreAdded(caches, i, v) /\ coreId' = [coreId EXCEPT ![v] = n]
        met(n) == IF StillUsing(v, i, n) = {} THEN {} ELSE StillUsing(v, i, n) \cup {v}
    IN /\ At(v, "addcore")
       /\ \/ /\ accepted
             /\ \E n \in free :
                   /\ added(n) /\ exposed' = exposed \cup met(n)
                   /\ \/ met(n) = {} /\ UNCHANGED used /\ WithCore(v, i, n, "fs")
                      \/ met(n) = {} /\ Fault("late") /\ Reply(v, "final")
                      \/ met(n) # {} /\ Fault("reuse") /\ WithCore(v, i, n, "fs")
          \/ ~accepted /\ UNCHANGED <<cacheVars, used>> /\ Reply(v, "final")
          \/ Fault("job") /\ UNCHANGED cacheVars /\ Reply(v, "final")
       /\ UNCHANGED <<nodeVars, outerVars>>

\* GetDeviceFsType finds no file system on the device.
Unformatted(w) == fs[w] = "none"

StageFs_BlankAssumed(v) ==
    /\ At(v, "fs")
    /\ IF v \in BlockVolumes THEN Reply(v, "ok")
       ELSE IF Device(v) = {} THEN Reply(v, "final")
       ELSE Goto(v, "mkfs")
    /\ UNCHANGED <<cacheVars, nodeVars, outerVars, used>>

\* A block volume is done; else the device is looked at.  An empty one is looked
\* at once more by PrepareFs: this is the last look.
StageFs(v) ==
    /\ At(v, "fs")
    /\ \/ v \in BlockVolumes /\ UNCHANGED used /\ Reply(v, "ok")
       \/ /\ v \notin BlockVolumes /\ UNCHANGED used
          /\ \/ Device(v) = {} /\ Reply(v, "final")
             \/ \E w \in Device(v) : Goto(v, IF Unformatted(w) THEN "mkfs" ELSE "mount")
       \/ v \notin BlockVolumes /\ Fault("local") /\ Reply(v, "final")
    /\ UNCHANGED <<cacheVars, nodeVars, outerVars>>

\* CreateFs makes a file system on the device, whatever is there by now; mkfs
\* refuses only what is in use.
StagePrepareFs(v) ==
    LET formatted == {w \in Device(v) : w \notin Opened}
    IN /\ At(v, "mkfs")
       /\ \/ /\ formatted # {} /\ UNCHANGED used
             /\ fs' = [w \in Volumes |-> IF w \in formatted THEN "new" ELSE fs[w]]
             /\ Goto(v, "mount")
          \/ formatted = {} /\ UNCHANGED <<fs, used>> /\ Reply(v, "final")
          \/ /\ Fault("local")
             /\ \E done \in SUBSET formatted :
                   fs' = [w \in Volumes |-> IF w \in done THEN "new" ELSE fs[w]]
             /\ Reply(v, "final")
       /\ UNCHANGED <<cacheVars, link, mounted, pub, outerVars>>

StageMount_Unchecked(v) ==
    /\ At(v, "mount")
    /\ mounted' = [mounted EXCEPT ![v] = IF @ = {} THEN Device(v) ELSE @]
    /\ Reply(v, "ok")
    /\ UNCHANGED <<cacheVars, link, pub, fs, outerVars, used>>

\* Mount: something mounted at the staging path already is accepted; else the
\* device must be there and have a file system.
StageMount(v) ==
    LET mountable == {w \in Device(v) : ~Unformatted(w)}
    IN /\ At(v, "mount")
       /\ \/ mounted[v] # {} /\ UNCHANGED <<mounted, used>> /\ Reply(v, "ok")
          \/ /\ mounted[v] = {} /\ mountable # {}
             /\ mounted' = [mounted EXCEPT ![v] = mountable]
             /\ UNCHANGED used /\ Reply(v, "ok")
          \/ /\ mounted[v] = {} /\ mountable = {}
             /\ UNCHANGED <<mounted, used>> /\ Reply(v, "final")
          \/ Fault("local") /\ UNCHANGED mounted /\ Reply(v, "final")
       /\ UNCHANGED <<cacheVars, link, pub, fs, outerVars>>

NodeStageVolume(v) ==
    \/ StageEnter(v) \/ StageFind(v) \/ StageInstances(v) \/ StageLabel(v)
    \/ StageAddCore(v) \/ StageFs(v) \/ StagePrepareFs(v) \/ StageMount(v)

-----------------------------------------------------------------------------
(***************************************************************************)
(* NodeUnstageVolume                                                       *)
(***************************************************************************)
UnstageUnmount(v) ==
    /\ At(v, "enter") /\ handler[v].op = "unstage"
    /\ \/ mounted' = [mounted EXCEPT ![v] = {}] /\ Goto(v, "link") /\ UNCHANGED used
       \/ Fault("local") /\ UNCHANGED mounted /\ Reply(v, "final")
    /\ UNCHANGED <<cacheVars, link, pub, fs, outerVars>>

\* cleanupByIdDir and success.
CleanupAndReply(v) == link' = [link EXCEPT ![v] = "none"] /\ Reply(v, "ok")

UnstageLink_BrokenIsError(v) ==
    /\ At(v, "link")
    /\ CASE link[v] = "good"   -> UNCHANGED link /\ Goto(v, "objects")
         [] link[v] = "broken" -> UNCHANGED link /\ Reply(v, "final")
         [] link[v] = "none"   -> CleanupAndReply(v)
    /\ UNCHANGED <<cacheVars, mounted, pub, fs, outerVars, used>>

\* Without a by-id link, or with a broken one, the volume is not attached.
UnstageLink(v) ==
    /\ At(v, "link")
    /\ IF link[v] = "good"
       THEN UNCHANGED link /\ Goto(v, "objects")
       ELSE CleanupAndReply(v)
    /\ UNCHANGED <<cacheVars, mounted, pub, fs, outerVars, used>>

\* The PV protects itself while it is attached; if it is gone all the same,
\* only the link is cleaned up.
UnstageObjects(v) ==
    /\ At(v, "objects")
    /\ \/ v \in pod /\ Goto(v, "lookup") /\ UNCHANGED <<link, used>>
       \/ v \notin pod /\ Reply(v, "final") /\ UNCHANGED <<link, used>>
       \/ Fault("pv") /\ CleanupAndReply(v)
    /\ UNCHANGED <<cacheVars, mounted, pub, fs, outerVars>>

UnstageFind(v) ==
    /\ At(v, "lookup")
    /\ \/ Listed(v, "rmcore") /\ UNCHANGED <<link, used>>
       \/ ~IsCore(v) /\ CleanupAndReply(v) /\ UNCHANGED used
       \/ Fault("cut") /\ CleanupAndReply(v)
       \/ Fault("job") /\ UNCHANGED link /\ Reply(v, "final")
    /\ UNCHANGED <<cacheVars, mounted, pub, fs, outerVars>>

\* casadm --remove-core: a cache or core that is gone already is fine.
Removed(v) ==
    \/ Device(v) = {} /\ UNCHANGED <<caches, coreId>>
    \/ \E w \in Device(v) :
          /\ caches' = CoreRemoved(caches, handler[v].cache, w)
          /\ coreId' = [coreId EXCEPT ![w] = NoId]

\* RemoveCore removes what has these ids by now, and is refused while that is in
\* use.  What counts is that the list no longer has the volume.
UnstageRemoveCore(v) ==
    LET fails == UNCHANGED link /\ Reply(v, "final")
    IN /\ At(v, "rmcore")
       /\ \/ /\ Device(v) \cap Opened = {}
             /\ Removed(v)
             /\ \/ ~IsCore(v)' /\ CleanupAndReply(v) /\ UNCHANGED used
                \/ Fault("late") /\ fails
          \/ /\ Device(v) \cap Opened # {}
             /\ UNCHANGED <<caches, coreId, used>> /\ fails
          \/ Fault("job") /\ UNCHANGED <<caches, coreId>> /\ fails
       /\ UNCHANGED <<exposed, mounted, pub, fs, outerVars>>

NodeUnstageVolume(v) ==
    \/ UnstageUnmount(v) \/ UnstageLink(v) \/ UnstageObjects(v)
    \/ UnstageFind(v) \/ UnstageRemoveCore(v)

-----------------------------------------------------------------------------
(***************************************************************************)
(* NodePublishVolume and NodeUnpublishVolume                               *)
(***************************************************************************)

\* findMountFlags: is what is bound at the target path what is asked for?  The
\* flags looked for include "bind", which the kernel never lists for a mount.
Compatible(v) == FALSE

\* A file system is bound from the staging path, mounted or not, unless
\* something is bound already.
PublishMount(v) ==
    /\ At(v, "enter") /\ handler[v].op = "publish" /\ v \notin BlockVolumes
    /\ \/ /\ pub[v] = {}
          /\ pub' = [pub EXCEPT ![v] = IF mounted[v] # {} THEN mounted[v] ELSE {Directory}]
          /\ Reply(v, "ok") /\ UNCHANGED used
       \/ /\ pub[v] # {}
          /\ Reply(v, IF Compatible(v) THEN "ok" ELSE "final") /\ UNCHANGED <<pub, used>>
       \/ Fault("local") /\ UNCHANGED pub /\ Reply(v, "final")
    /\ UNCHANGED <<cacheVars, link, mounted, fs, outerVars>>

\* For a block volume the intermediate Pod is looked up, ...
PublishBlock(v) ==
    /\ At(v, "enter") /\ handler[v].op = "publish" /\ v \in BlockVolumes
    /\ \/ v \in pod /\ Goto(v, "blkfind") /\ UNCHANGED used
       \/ v \notin pod /\ Reply(v, "final") /\ UNCHANGED used
       \/ Fault("job") /\ Reply(v, "final")
    /\ UNCHANGED <<cacheVars, nodeVars, outerVars>>

\* ... its cached device is found in the list ...
PublishFind(v) ==
    /\ At(v, "blkfind")
    /\ \/ Listed(v, "bind") /\ UNCHANGED used
       \/ ~IsCore(v) /\ Reply(v, "final") /\ UNCHANGED used
       \/ (Fault("job") \/ Fault("cut")) /\ Reply(v, "final")
    /\ UNCHANGED <<cacheVars, nodeVars, outerVars>>

\* ... and what has this path by now is bound, unless something is bound already.
PublishBind(v) ==
    /\ At(v, "bind")
    /\ \/ pub[v] # {} /\ UNCHANGED <<pub, used>> /\ Reply(v, "ok")
       \/ /\ pub[v] = {} /\ Device(v) # {}
          /\ pub' = [pub EXCEPT ![v] = Device(v)] /\ UNCHANGED used /\ Reply(v, "ok")
       \/ pub[v] = {} /\ Device(v) = {} /\ UNCHANGED <<pub, used>> /\ Reply(v, "final")
       \/ Fault("local") /\ UNCHANGED pub /\ Reply(v, "final")
    /\ UNCHANGED <<cacheVars, link, mounted, fs, outerVars>>

NodeUnpublishVolume(v) ==
    /\ At(v, "enter") /\ handler[v].op = "unpublish"
    /\ \/ pub' = [pub EXCEPT ![v] = {}] /\ Reply(v, "ok") /\ UNCHANGED used
       \/ Fault("local") /\ UNCHANGED pub /\ Reply(v, "final")
    /\ UNCHANGED <<cacheVars, link, mounted, fs, outerVars>>

NodeServerStep(v) ==
    \/ LockKey(v) \/ NodeStageVolume(v) \/ NodeUnstageVolume(v)
    \/ PublishMount(v) \/ PublishBlock(v) \/ PublishFind(v) \/ PublishBind(v)
    \/ NodeUnpublishVolume(v)

\* The plugin restarts: the calls in it are lost, and kubelet learns of it.
PluginCrash ==
    /\ Fault("crash")
    /\ handler' = [v \in Volumes |-> IdleHandler]
    /\ waiting' = [v \in Volumes |-> <<>>]
    /\ kub' = [v \in Volumes |->
                 CASE kub[v].op = "stage"   -> [kub[v] EXCEPT !.op = "none", !.dev = "uncertain"]
                   [] kub[v].op = "unstage" -> [kub[v] EXCEPT !.op = "none", !.dev = "uncertain"]
                   [] kub[v].op = "none"    -> kub[v]
                   [] OTHER                 -> [kub[v] EXCEPT !.op = "none", !.pub = "uncertain"]]
    /\ UNCHANGED <<cacheVars, nodeVars, outerVars>>

-----------------------------------------------------------------------------
(***************************************************************************)
(* Kubelet: one call at a time for a volume, in the order of the CSI       *)
(* volume lifecycle, repeated until it succeeds.                           *)
(***************************************************************************)
NextOp(v) ==
    LET k == kub[v]
    IN CASE v \in want /\ v \in pod /\ k.dev # "staged"             -> "stage"
         [] v \in want /\ k.dev = "staged" /\ k.pub # "published"   -> "publish"
         [] v \notin want /\ k.pub # "none"                         -> "unpublish"
         [] v \notin want /\ k.pub = "none" /\ k.dev \in {"staged", "uncertain"} -> "unstage"
         [] OTHER                                                   -> "none"

KubeletCall(v) ==
    /\ kub[v].op = "none"
    /\ NextOp(v) # "none"
    /\ kub' = [kub EXCEPT ![v] = [kub[v] EXCEPT !.op = NextOp(v)]]
    /\ waiting' = [waiting EXCEPT ![v] = Append(@, [op |-> NextOp(v), live |-> TRUE])]
    /\ UNCHANGED <<cacheVars, nodeVars, outerVars, handler, used>>

\* Kubelet gives up on its call, wherever that is.
KubeletTimeout(v) ==
    /\ kub[v].op # "none"
    /\ Fault("timeout")
    /\ \E k \in AfterAnswer(kub[v], kub[v].op, "retry") : kub' = [kub EXCEPT ![v] = k]
    /\ waiting' = [waiting EXCEPT ![v] =
                     [n \in DOMAIN waiting[v] |-> [waiting[v][n] EXCEPT !.live = FALSE]]]
    /\ handler' = [handler EXCEPT ![v] = [handler[v] EXCEPT !.live = FALSE]]
    /\ UNCHANGED <<cacheVars, nodeVars, outerVars>>

PodArrives(v) ==
    /\ v \notin want
    /\ Use("pods", MaxPods)
    /\ want' = want \cup {v}
    /\ UNCHANGED <<cacheVars, nodeVars, label, pod, callVars>>

PodLeaves(v) ==
    /\ v \in want
    /\ want' = want \ {v}
    /\ UNCHANGED <<cacheVars, nodeVars, label, pod, callVars, used>>

\* A pod writes to the file system that it finds at its target path.
PodWrites(v) ==
    /\ kub[v].pub = "published" /\ v \notin BlockVolumes
    /\ \E w \in pub[v] \cap Volumes :
          fs[w] = "new" /\ fs' = [fs EXCEPT ![w] = "data"]
    /\ UNCHANGED <<cacheVars, link, mounted, pub, outerVars, callVars, used>>

(***************************************************************************)
(* Attaching is ControllerPublishVolume: the intermediate Pod runs.        *)
(* Detaching deletes it, normally when kubelet is done with the volume.    *)
(***************************************************************************)
Attach(v) ==
    /\ v \in want /\ v \notin pod
    /\ pod' = pod \cup {v}
    /\ UNCHANGED <<cacheVars, nodeVars, label, want, callVars, used>>

Detached(v) ==
    /\ v \in pod
    /\ pod' = pod \ {v}
    /\ link' = [link EXCEPT ![v] = IF @ = "good" THEN "broken" ELSE @]
    /\ UNCHANGED <<cacheVars, mounted, pub, fs, label, want, callVars>>

Detach(v) ==
    /\ v \notin want
    /\ kub[v].dev \in {"none", "failed"} /\ kub[v].pub = "none" /\ kub[v].op = "none"
    /\ Detached(v) /\ UNCHANGED used

ForceDetach(v) == Fault("detach") /\ Detached(v)

KubernetesStep(v) ==
    \/ KubeletCall(v) \/ KubeletTimeout(v) \/ PodArrives(v) \/ PodLeaves(v) \/ PodWrites(v)
    \/ Attach(v) \/ Detach(v) \/ ForceDetach(v)

(***************************************************************************)
(* The operator, with none of CacheReconciler's restraint.                 *)
(***************************************************************************)
OperatorStarts ==
    /\ Use("changes", MaxChanges)
    /\ \E i \in CacheIds \ DOMAIN caches, d \in Devices :
          /\ CanStart(caches, d)
          /\ caches' = Started(caches, i, [dev |-> d, cls |-> Unset, mode |-> Unset])
    /\ UNCHANGED <<coreId, exposed, nodeVars, outerVars, callVars>>

OperatorStops ==
    /\ Use("changes", MaxChanges)
    /\ \E i \in DOMAIN caches :
          /\ CanStop(caches, i, Opened)
          /\ caches' = Stopped(caches, i)
          /\ coreId' = [v \in Volumes |->
                          IF i \in CachesWith(caches, v) THEN NoId ELSE coreId[v]]
    /\ UNCHANGED <<exposed, nodeVars, outerVars, callVars>>

OperatorLabels ==
    /\ Use("changes", MaxChanges)
    /\ label' \in Labels \ {label}
    /\ UNCHANGED <<cacheVars, nodeVars, pod, want, callVars>>

\* /dev is empty after a reboot, and kubelet no longer sure of its mounts.
Reboot ==
    /\ Use("reboots", MaxReboots)
    /\ caches' = NoCaches
    /\ coreId' = [v \in Volumes |-> NoId]
    /\ exposed' = {}
    /\ link' = [v \in Volumes |-> "none"]
    /\ mounted' = [v \in Volumes |-> {}]
    /\ pub' = [v \in Volumes |-> {}]
    /\ handler' = [v \in Volumes |-> IdleHandler]
    /\ waiting' = [v \in Volumes |-> <<>>]
    /\ kub' = [v \in Volumes |->
                 [dev |-> IF kub[v].dev = "none" /\ kub[v].op # "stage" THEN "none" ELSE "uncertain",
                  pub |-> IF kub[v].pub = "none" /\ kub[v].op # "publish" THEN "none" ELSE "uncertain",
                  op |-> "none"]]
    /\ UNCHANGED <<fs, outerVars>>

Next ==
    \/ \E v \in Volumes : NodeServerStep(v)
    \/ \E v \in Volumes : KubernetesStep(v)
    \/ PluginCrash \/ Reboot
    \/ OperatorStarts \/ OperatorStops \/ OperatorLabels

Spec == Init /\ [][Next]_vars

\* The plugin's handlers run, and kubelet repeats what has not succeeded.
FairSpec ==
    /\ Spec
    /\ \A v \in Volumes : WF_vars(NodeServerStep(v)) /\ WF_vars(KubeletCall(v)) /\ WF_vars(Attach(v))

-----------------------------------------------------------------------------
(***************************************************************************)
(* Properties                                                              *)
(***************************************************************************)

\* SAFETY.  Once NodeUnstageVolume has succeeded and until kubelet stages the
\* volume again, no cache holds it and nothing is mounted at its staging path: no
\* call that kubelet gave up on adds it afterwards (the context of the label read,
\* line 141), and no failed removal is taken for a success (lines 284-294).
CleanWhenUnstaged ==
    \A v \in Volumes :
        kub[v].dev = "none" /\ kub[v].op = "none" => ~IsCore(v) /\ mounted[v] = {}

\* SAFETY.  A file system that kubelet takes for staged is on a cached device,
\* and that device, no other, is mounted, whatever the operator does to the
\* caches between the calls of NodeStageVolume (lines 133-203) and whatever calls
\* kubelet gave up on.  The exception: the path taken from the listing was given
\* to another volume in the middle of the call.
StagedIsReady ==
    \A v \in Volumes \ (BlockVolumes \cup exposed) :
        kub[v].dev = "staged" /\ kub[v].op # "unstage" => IsCore(v) /\ mounted[v] = {v}

\* SAFETY.  A pod gets its own volume: never the plain directory below a staging
\* path where nothing is mounted (NodePublishVolume does not look, lines 354-395),
\* and another volume only after two met in one device path (line 353).
PublishedIsVolume ==
    \A v \in Volumes : Directory \notin pub[v] /\ (v \notin exposed => pub[v] \subseteq {v})

\* ACTION.  What a pod has written is never formatted away by a NodeStageVolume,
\* of its own volume or of another one that works with the ids of an old listing
\* (lines 187-199), unless casadm gave these ids to the volume meanwhile.
DataSurvives ==
    [][\A v \in Volumes \ exposed : fs[v] = "data" => fs'[v] = "data"]_vars

\* LIVENESS.  When no pod uses the volume any more, kubelet gets rid of it, even
\* when it was detached by force ("unstage for unattached PV should succeed",
\* lines 237-247).
UnstageCompletes ==
    \A v \in Volumes :
        <>[](v \notin want) => []<>(kub[v].dev = "none" /\ kub[v].pub = "none")

\* LIVENESS.  A pod gets its volume while the label keeps naming a running
\* cache, however often staging failed before (lines 79-206).
StageCompletes ==
    \A v \in Volumes :
        <>[](v \in want /\ v \in pod /\ label \in DOMAIN caches) => []<>(kub[v].dev = "staged")
=============================================================================
