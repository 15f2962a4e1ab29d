--------------------------- MODULE OpenCASProofs ---------------------------
(***************************************************************************)
(* What the casadm commands do to a table of caches: the facts that the    *)
(* proofs about the Cache controller and the node server share.            *)
(***************************************************************************)
EXTENDS OpenCAS, TLAPS


\* The tables are the functions from ids to caches.
LEMMA TableDef ==
    ASSUME NEW c
    PROVE  c \in CacheTable <=> (DOMAIN c \subseteq CacheIds /\ c \in [DOMAIN c -> Cache])
  BY DEF CacheTable

\* The empty table after a reboot is a table.
LEMMA NoCachesType == NoCaches \in CacheTable
<1>1. DOMAIN NoCaches \subseteq CacheIds /\ NoCaches \in [DOMAIN NoCaches -> Cache]
  BY DEF NoCaches
<1> QED BY <1>1, TableDef

\* casadm --start-cache turns a table into a table.
LEMMA StartedType ==
    ASSUME NEW c \in CacheTable, NEW i \in CacheIds, NEW s \in CacheSpec
    PROVE  Started(c, i, s) \in CacheTable
<1>1. NewCache(s) \in Cache
  BY DefaultsAssumption DEF NewCache, Cache, TargetCls, TargetMode, CacheSpec
<1>2. DOMAIN c \subseteq CacheIds /\ \A j \in DOMAIN c : c[j] \in Cache
  BY TableDef
<1>3. Started(c, i, s) \in [DOMAIN c \cup {i} -> Cache]
  BY <1>1, <1>2 DEF Started
<1> QED BY <1>2, <1>3 DEF CacheTable

\* casadm --stop-cache turns a table into a table.
LEMMA StoppedType ==
    ASSUME NEW c \in CacheTable, NEW i
    PROVE  Stopped(c, i) \in CacheTable
<1>1. DOMAIN c \subseteq CacheIds /\ \A j \in DOMAIN c : c[j] \in Cache
  BY TableDef
<1>2. Stopped(c, i) \in [DOMAIN c \ {i} -> Cache]
  BY <1>1 DEF Stopped
<1> QED BY <1>1, <1>2 DEF CacheTable

\* casadm --set-cache-mode changes nothing but the mode of its cache.
LEMMA ModeSetType ==
    ASSUME NEW c \in CacheTable, NEW i \in DOMAIN c, NEW m \in CacheModes
    PROVE  /\ ModeSet(c, i, m) \in CacheTable
           /\ DOMAIN ModeSet(c, i, m) = DOMAIN c
           /\ \A j \in DOMAIN c :
                /\ ModeSet(c, i, m)[j].dev = c[j].dev
                /\ ModeSet(c, i, m)[j].cls = c[j].cls
                /\ ModeSet(c, i, m)[j].mode = IF j = i THEN m ELSE c[j].mode
<1> DEFINE d == ModeSet(c, i, m)
<1>1. DOMAIN c \subseteq CacheIds /\ c \in [DOMAIN c -> Cache]
  BY TableDef
<1>2. c[i] \in Cache /\ [c[i] EXCEPT !.mode = m] \in Cache
  BY <1>1 DEF Cache
<1>3. d = [c EXCEPT ![i] = [c[i] EXCEPT !.mode = m]]
  BY DEF ModeSet
<1>4. d \in [DOMAIN c -> Cache]
  BY <1>1, <1>2, <1>3
<1>5. ASSUME NEW j \in DOMAIN c
      PROVE  d[j] = IF j = i THEN [c[i] EXCEPT !.mode = m] ELSE c[j]
  BY <1>1, <1>3
<1>6. ASSUME NEW j \in DOMAIN c
      PROVE  /\ d[j].dev = c[j].dev
             /\ d[j].cls = c[j].cls
             /\ d[j].mode = IF j = i THEN m ELSE c[j].mode
  <2>1. CASE j = i
    BY <1>2, <1>5, <2>1 DEF Cache
  <2>2. CASE j # i
    BY <1>5, <2>2
  <2> QED BY <2>1, <2>2
<1>7. d \in CacheTable
  BY <1>1, <1>4 DEF CacheTable
<1> QED BY <1>4, <1>6, <1>7

\* Adding or removing a core changes nothing but the volumes of its cache.
LEMMA CoreAddedType ==
    ASSUME NEW c \in CacheTable, NEW i \in DOMAIN c, NEW v \in Volumes
    PROVE  /\ CoreAdded(c, i, v) \in CacheTable
           /\ DOMAIN CoreAdded(c, i, v) = DOMAIN c
           /\ \A j \in DOMAIN c :
                /\ CoreAdded(c, i, v)[j].dev = c[j].dev
                /\ CoreAdded(c, i, v)[j].cls = c[j].cls
                /\ CoreAdded(c, i, v)[j].mode = c[j].mode
<1> DEFINE e == [c[i] EXCEPT !.vols = @ \cup {v}]
           d == CoreAdded(c, i, v)
<1>1. DOMAIN c \subseteq CacheIds /\ c \in [DOMAIN c -> Cache]
  BY TableDef
<1>2. c[i] \in Cache /\ e \in Cache /\ e.dev = c[i].dev /\ e.cls = c[i].cls /\ e.mode = c[i].mode
  BY <1>1 DEF Cache
<1>3. d = [c EXCEPT ![i] = e]
  BY DEF CoreAdded
<1>4. d \in [DOMAIN c -> Cache]
  BY <1>1, <1>2, <1>3
<1> HIDE DEF e, d
<1>5. \A j \in DOMAIN c : d[j] = IF j = i THEN e ELSE c[j]
  BY <1>1, <1>3
<1>6. \A j \in DOMAIN c : d[j].dev = c[j].dev /\ d[j].cls = c[j].cls /\ d[j].mode = c[j].mode
  BY <1>2, <1>5
<1>7. d \in CacheTable
  BY <1>1, <1>4 DEF CacheTable
<1> QED BY <1>4, <1>6, <1>7 DEF d

\* casadm --remove-core likewise.
LEMMA CoreRemovedType ==
    ASSUME NEW c \in CacheTable, NEW i \in DOMAIN c, NEW v \in Volumes
    PROVE  /\ CoreRemoved(c, i, v) \in CacheTable
           /\ DOMAIN CoreRemoved(c, i, v) = DOMAIN c
           /\ \A j \in DOMAIN c :
                /\ CoreRemoved(c, i, v)[j].dev = c[j].dev
                /\ CoreRemoved(c, i, v)[j].cls = c[j].cls
                /\ CoreRemoved(c, i, v)[j].mode = c[j].mode
<1> DEFINE e == [c[i] EXCEPT !.vols = @ \ {v}]
           d == CoreRemoved(c, i, v)
<1>1. DOMAIN c \subseteq CacheIds /\ c \in [DOMAIN c -> Cache]
  BY TableDef
<1>2. c[i] \in Cache /\ e \in Cache /\ e.dev = c[i].dev /\ e.cls = c[i].cls /\ e.mode = c[i].mode
  BY <1>1 DEF Cache
<1>3. d = [c EXCEPT ![i] = e]
  BY DEF CoreRemoved
<1>4. d \in [DOMAIN c -> Cache]
  BY <1>1, <1>2, <1>3
<1> HIDE DEF e, d
<1>5. \A j \in DOMAIN c : d[j] = IF j = i THEN e ELSE c[j]
  BY <1>1, <1>3
<1>6. \A j \in DOMAIN c : d[j].dev = c[j].dev /\ d[j].cls = c[j].cls /\ d[j].mode = c[j].mode
  BY <1>2, <1>5
<1>7. d \in CacheTable
  BY <1>1, <1>4 DEF CacheTable
<1> QED BY <1>4, <1>6, <1>7 DEF d

-----------------------------------------------------------------------------
\* The volumes that each cache holds.
HeldBy(c) == [i \in DOMAIN c |-> c[i].vols]

\* --add-core and --remove-core change what the one cache holds.
LEMMA CoreSeen ==
    ASSUME NEW c \in CacheTable, NEW i \in DOMAIN c, NEW v \in Volumes
    PROVE  /\ HeldBy(CoreAdded(c, i, v)) = [HeldBy(c) EXCEPT ![i] = @ \cup {v}]
           /\ HeldBy(CoreRemoved(c, i, v)) = [HeldBy(c) EXCEPT ![i] = @ \ {v}]
<1>1. c \in [DOMAIN c -> Cache]
  BY TableDef
<1>2. c[i] \in Cache
  BY <1>1
<1>3. ASSUME NEW d, NEW s,
             d = [c EXCEPT ![i] = [c[i] EXCEPT !.vols = s]]
      PROVE  HeldBy(d) = [HeldBy(c) EXCEPT ![i] = s]
  <2>1. [c[i] EXCEPT !.vols = s].vols = s
    BY <1>2 DEF Cache
  <2>2. DOMAIN d = DOMAIN c
    BY <1>1, <1>3
  <2>3. \A j \in DOMAIN c : d[j].vols = IF j = i THEN s ELSE c[j].vols
    BY <1>1, <1>3, <2>1
  <2> QED
    BY <2>2, <2>3 DEF HeldBy
<1>4. HeldBy(c)[i] = c[i].vols
  BY DEF HeldBy
<1> QED
  BY <1>3, <1>4 DEF CoreAdded, CoreRemoved

\* Which caches have a volume as a core, after each of the commands.
LEMMA CoresAfter ==
    ASSUME NEW c \in CacheTable, NEW w \in Volumes
    PROVE  /\ CachesWith(NoCaches, w) = {}
           /\ \A i \in CacheIds, s \in CacheSpec :
                 i \notin DOMAIN c => CachesWith(Started(c, i, s), w) = CachesWith(c, w)
           /\ \A i \in CacheIds : CachesWith(Stopped(c, i), w) = CachesWith(c, w) \ {i}
           /\ \A i \in DOMAIN c, v \in Volumes :
                 /\ CachesWith(CoreAdded(c, i, v), w) =
                       IF w = v THEN CachesWith(c, w) \cup {i} ELSE CachesWith(c, w)
                 /\ CachesWith(CoreRemoved(c, i, v), w) =
                       IF w = v THEN CachesWith(c, w) \ {i} ELSE CachesWith(c, w)
<1>0. DOMAIN c \subseteq CacheIds /\ c \in [DOMAIN c -> Cache]
  BY TableDef
<1>1. CachesWith(NoCaches, w) = {}
  BY DEF CachesWith, NoCaches
<1>2. ASSUME NEW i \in CacheIds, NEW s \in CacheSpec, i \notin DOMAIN c
      PROVE  CachesWith(Started(c, i, s), w) = CachesWith(c, w)
  BY <1>2 DEF CachesWith, Started, NewCache
<1>3. ASSUME NEW i \in CacheIds PROVE CachesWith(Stopped(c, i), w) = CachesWith(c, w) \ {i}
  BY DEF CachesWith, Stopped
<1>4. ASSUME NEW d PROVE CachesWith(d, w) = {j \in DOMAIN HeldBy(d) : w \in HeldBy(d)[j]}
  BY DEF CachesWith, HeldBy
<1>5. DOMAIN HeldBy(c) = DOMAIN c
  BY DEF HeldBy
<1>6. ASSUME NEW i \in DOMAIN c, NEW v \in Volumes
      PROVE  /\ CachesWith(CoreAdded(c, i, v), w) =
                   IF w = v THEN CachesWith(c, w) \cup {i} ELSE CachesWith(c, w)
             /\ CachesWith(CoreRemoved(c, i, v), w) =
                   IF w = v THEN CachesWith(c, w) \ {i} ELSE CachesWith(c, w)
  <2>1. ASSUME NEW d, NEW V, HeldBy(d) = [HeldBy(c) EXCEPT ![i] = V]
        PROVE  \A j : j \in CachesWith(d, w) <=>
                          j \in DOMAIN c /\ w \in IF j = i THEN V ELSE HeldBy(c)[j]
    BY <1>4, <1>5, <2>1
  <2>2. HeldBy(c)[i] = c[i].vols
    BY DEF HeldBy
  <2>3. \A j : j \in CachesWith(c, w) <=> j \in DOMAIN c /\ w \in HeldBy(c)[j]
    BY <1>4, <1>5
  <2>4. HeldBy(CoreAdded(c, i, v)) = [HeldBy(c) EXCEPT ![i] = HeldBy(c)[i] \cup {v}]
    BY CoreSeen
  <2>5. HeldBy(CoreRemoved(c, i, v)) = [HeldBy(c) EXCEPT ![i] = HeldBy(c)[i] \ {v}]
    BY CoreSeen
  <2>6. \A j : j \in CachesWith(CoreAdded(c, i, v), w) <=>
                  j \in DOMAIN c /\ w \in IF j = i THEN HeldBy(c)[i] \cup {v} ELSE HeldBy(c)[j]
    BY <2>1, <2>4
  <2>7. \A j : j \in CachesWith(CoreRemoved(c, i, v), w) <=>
                  j \in DOMAIN c /\ w \in IF j = i THEN HeldBy(c)[i] \ {v} ELSE HeldBy(c)[j]
    BY <2>1, <2>5
  <2> QED BY <2>3, <2>6, <2>7
<1> QED BY <1>1, <1>2, <1>3, <1>6
=============================================================================
