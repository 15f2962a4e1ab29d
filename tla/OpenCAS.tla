------------------------------ MODULE OpenCAS ------------------------------
(***************************************************************************)
(* The Open-CAS caches of ONE node, as pkg/opencas drives them with casadm *)
(* (pkg/opencas/api.go, pkg/opencas/casadm.go).                            *)
(*                                                                         *)
(* casadm and the kernel module are not part of the repository: what the   *)
(* commands do to the table of caches is modelled from how api.go uses     *)
(* them.  The table is a function from the ids of the running caches to    *)
(* what `casadm --list-caches` and `casadm --stats` show of each: its      *)
(* device, cache line size, cache mode, and the volumes that are its cores *)
(* (a core is identified by its by-id path, hence by the volume).          *)
(***************************************************************************)
EXTENDS FiniteSets

CONSTANTS
    CacheIds,         \* ids casadm can assign to a cache
    Devices,          \* by-id paths of the cache devices of the node
    LineSizes,        \* cache line sizes
    CacheModes,       \* cache modes
    Volumes,          \* volume ids (names of the cached PVs)
    DefaultLineSize,  \* CLS_4k, what casadm and the reconciler take for "unset"
    DefaultMode,      \* WriteThrough, likewise
    Unset             \* an optional field that was left out

ASSUME DefaultsAssumption ==
    /\ DefaultLineSize \in LineSizes
    /\ DefaultMode \in CacheModes
    /\ Unset \notin LineSizes
    /\ Unset \notin CacheModes

Cache == [dev : Devices, cls : LineSizes, mode : CacheModes, vols : SUBSET Volumes]

\* Tables of running caches.
CacheTable == UNION {[I -> Cache] : I \in SUBSET CacheIds}

NoCaches == [i \in {} |-> {}]

\* The Cache resource's specification leaves line size and mode optional.
CacheSpec == [dev : Devices, cls : LineSizes \cup {Unset}, mode : CacheModes \cup {Unset}]
TargetCls(s) == IF s.cls = Unset THEN DefaultLineSize ELSE s.cls
TargetMode(s) == IF s.mode = Unset THEN DefaultMode ELSE s.mode

(***************************************************************************)
(* casadm --start-cache --force with an automatically assigned id: refused *)
(* when a running cache already holds the device.                          *)
(***************************************************************************)
CanStart(c, d) == \A i \in DOMAIN c : c[i].dev # d

NewCache(s) == [dev |-> s.dev, cls |-> TargetCls(s), mode |-> TargetMode(s), vols |-> {}]

Started(c, i, s) ==
    [j \in DOMAIN c \cup {i} |-> IF j = i THEN NewCache(s) ELSE c[j]]

(***************************************************************************)
(* casadm --stop-cache: refused while a core of the cache is held open;    *)
(* otherwise the cache goes, and the cores it still has go with it.        *)
(***************************************************************************)
CanStop(c, i, open) == i \in DOMAIN c => c[i].vols \cap open = {}

Stopped(c, i) == [j \in DOMAIN c \ {i} |-> c[j]]

ModeSet(c, i, m) == [c EXCEPT ![i] = [c[i] EXCEPT !.mode = m]]

\* casadm --add-core and --remove-core (by the ids that the listing showed).
CoreAdded(c, i, v) == [c EXCEPT ![i] = [c[i] EXCEPT !.vols = @ \cup {v}]]
CoreRemoved(c, i, v) == [c EXCEPT ![i] = [c[i] EXCEPT !.vols = @ \ {v}]]

\* GetVolumeFromCacheList: the caches of a listing that have v as a core.
CachesWith(c, v) == {i \in DOMAIN c : v \in c[i].vols}
=============================================================================
