-------------------------- MODULE NodeServerProofs --------------------------
(***************************************************************************)
(* Proofs about the CSI node server, for every set of volumes, caches and  *)
(* devices, and any number of faults, pods and changes by the operator.    *)
(***************************************************************************)
EXTENDS NodeServer, OpenCASProofs, SequenceTheorems

-----------------------------------------------------------------------------
(***************************************************************************)
(* The inductive invariants.  The calls for one volume first.              *)
(***************************************************************************)
StageSteps == {"find", "instances", "label", "addcore", "fs", "mkfs", "mount"}
UnstageSteps == {"link", "objects", "lookup", "rmcore"}
PublishSteps == {"blkfind", "bind"}
Places(v) == 1..Len(waiting[v])

\* Where a handler is depends on its call.
InItsCall(v) ==
    /\ At(v, "idle") => handler[v] = IdleHandler
    /\ ~At(v, "idle") => handler[v].op \in Ops
    /\ handler[v].pc \in StageSteps => handler[v].op = "stage"
    /\ handler[v].pc \in UnstageSteps => handler[v].op = "unstage"
    /\ handler[v].pc \in PublishSteps => handler[v].op = "publish"

\* Kubelet waits for one call at most.
OneLiveCall(v) ==
    /\ handler[v].live =>
          kub[v].op = handler[v].op /\ \A m \in Places(v) : ~waiting[v][m].live
    /\ \A m \in Places(v) : waiting[v][m].live =>
          /\ kub[v].op = waiting[v][m].op
          /\ \A l \in Places(v) : waiting[v][l].live => l = m

CallInv == TypeOK /\ \A v \in Volumes : InItsCall(v) /\ OneLiveCall(v)

(***************************************************************************)
(* While no call overtakes another: the call that kubelet waits for comes  *)
(* last, so that nothing that undoes it is left behind it.                 *)
(***************************************************************************)
LiveIsLast(v) ==
    /\ handler[v].live => Len(waiting[v]) = 0
    /\ \A m \in Places(v) : waiting[v][m].live => m = Len(waiting[v])

Holds(v) == v \in BlockVolumes \/ mounted[v] # {}

\* A staged volume is mounted, and no unstage call is left for it.
StaysStaged(v) ==
    kub[v].dev = "staged" /\ kub[v].op # "unstage" =>
        /\ Holds(v)
        /\ handler[v].op # "unstage" /\ \A m \in Places(v) : waiting[v][m].op # "unstage"

\* A volume is mounted when its publish call comes to it.
PublishesMounted(v) ==
    /\ handler[v].op = "publish" => Holds(v)
    /\ \A m \in Places(v) : waiting[v][m].op = "publish" =>
          /\ Holds(v) /\ handler[v].op # "unstage"
          /\ \A l \in Places(v) : l < m => waiting[v][l].op # "unstage"

Ordered(v) ==
    LiveIsLast(v) /\ StaysStaged(v) /\ PublishesMounted(v) /\ Directory \notin pub[v]

OrderInv == CallInv /\ \A v \in Volumes : Ordered(v)

(***************************************************************************)
(* While kubelet forgets no failed call, and neither a volume's Pod nor its *)
(* PV goes while it is staged, nor a listing is cut off.                   *)
(***************************************************************************)
Remembered(v) == kub[v].dev # "failed"

\* What is a core can be found again when it has to be removed.
LinkLeadsToCore(v) == IsCore(v) => link[v] = "good"

UnmountedFirst(v) == handler[v].pc \in UnstageSteps => mounted[v] = {}

\* An unstaged volume stays clean, since no call is past the label read.
StaysClean(v) ==
    kub[v].dev = "none" /\ kub[v].op # "stage" =>
        /\ ~IsCore(v) /\ mounted[v] = {}
        /\ handler[v].pc \notin {"addcore", "fs", "mkfs", "mount"}

Clean(v) == Remembered(v) /\ LinkLeadsToCore(v) /\ UnmountedFirst(v) /\ StaysClean(v)

CleanInv == CallInv /\ \A v \in Volumes : Clean(v)

-----------------------------------------------------------------------------
(***************************************************************************)
(* The calls for a volume.                                                 *)
(***************************************************************************)
CallsTyped ==
    /\ handler \in [Volumes -> Handler]
    /\ waiting \in [Volumes -> Seq(Calls)]
    /\ kub \in [Volumes -> Kubelet]

\* No call is being handled.
LEMMA IdleFacts ==
    /\ IdleHandler \in Handler /\ IdleHandler.op = "none" /\ IdleHandler.live = FALSE
    /\ IdleHandler.pc = "idle"
  BY DEF IdleHandler, Handler, PCs

\* What kubelet makes of an answer.
LEMMA AnswerFacts ==
    ASSUME NEW k \in Kubelet, NEW op \in Ops, NEW answer, NEW j \in AfterAnswer(k, op, answer)
    PROVE  /\ j \in Kubelet /\ j.op = "none"
           /\ op = "stage" => /\ j.dev \in {"staged", "uncertain", "failed"}
                              /\ j.dev = "staged" => answer = "ok"
                              /\ j.dev = "failed" => answer = "final" /\ "forget" \in FaultKinds
           /\ op = "unstage" => /\ j.dev \in {"none", "uncertain"}
                                /\ j.dev = "none" => answer = "ok"
           /\ op \in {"publish", "unpublish"} => j.dev = k.dev
<1>0. /\ k.dev \in {"none", "uncertain", "failed", "staged"}
      /\ k.pub \in {"none", "uncertain", "published"}
  BY DEF Kubelet
<1>1. ASSUME NEW i, NEW d \in {"none", "uncertain", "failed", "staged"},
             i = [[k EXCEPT !.dev = d] EXCEPT !.op = "none"]
      PROVE  i \in Kubelet /\ i.op = "none" /\ i.dev = d
  BY <1>1 DEF Kubelet
<1>2. ASSUME NEW i, NEW d \in {"none", "uncertain", "published"},
             i = [[k EXCEPT !.pub = d] EXCEPT !.op = "none"]
      PROVE  i \in Kubelet /\ i.op = "none" /\ i.dev = k.dev
  BY <1>2 DEF Kubelet
<1>3. CASE op = "stage"
  <2> DEFINE D == IF answer = "ok" THEN {"staged"} ELSE {"uncertain"} \cup Forgotten(answer, "failed")
  <2> HIDE DEF D
  <2>0. j \in {[i EXCEPT !.op = "none"] : i \in {[k EXCEPT !.dev = d] : d \in D}}
    BY <1>3 DEF AfterAnswer, D
  <2>1. PICK d \in D : j = [[k EXCEPT !.dev = d] EXCEPT !.op = "none"]
    BY <2>0
  <2>2. \/ answer = "ok" /\ d = "staged"
        \/ d = "uncertain"
        \/ d = "failed" /\ answer = "final" /\ "forget" \in FaultKinds
    BY <2>1 DEF Forgotten, D
  <2> QED BY <1>3, <2>1, <2>2, <1>1
<1>4. CASE op = "unstage"
  <2>1. j = [[k EXCEPT !.dev = IF answer = "ok" THEN "none" ELSE "uncertain"] EXCEPT !.op = "none"]
    BY <1>4 DEF AfterAnswer
  <2>2. PICK d : d = IF answer = "ok" THEN "none" ELSE "uncertain"
    OBVIOUS
  <2> QED BY <1>4, <2>1, <2>2, <1>1
<1>5. CASE op = "publish"
  <2> DEFINE D == IF answer = "ok" THEN {"published"} ELSE {"uncertain"} \cup Forgotten(answer, "none")
  <2> HIDE DEF D
  <2>0. j \in {[i EXCEPT !.op = "none"] : i \in {[k EXCEPT !.pub = d] : d \in D}}
    BY <1>5 DEF AfterAnswer, D
  <2>1. PICK d \in D : j = [[k EXCEPT !.pub = d] EXCEPT !.op = "none"]
    BY <2>0
  <2>2. d \in {"none", "uncertain", "published"}
    BY <2>1 DEF Forgotten, D
  <2> QED BY <1>5, <2>1, <2>2, <1>2
<1>6. CASE op = "unpublish"
  <2>1. j = [[k EXCEPT !.pub = IF answer = "ok" THEN "none" ELSE "uncertain"] EXCEPT !.op = "none"]
    BY <1>6 DEF AfterAnswer
  <2>2. PICK d : d = IF answer = "ok" THEN "none" ELSE "uncertain"
    OBVIOUS
  <2> QED BY <1>6, <2>1, <2>2, <1>2
<1> QED BY <1>3, <1>4, <1>5, <1>6 DEF Ops

\* A sequence without its nth element.
LEMMA RemovedFacts ==
    ASSUME NEW S, NEW s \in Seq(S), NEW n \in 1..Len(s)
    PROVE  LET t == SubSeq(s, 1, n - 1) \o SubSeq(s, n + 1, Len(s))
           IN  /\ t \in Seq(S) /\ Len(t) = Len(s) - 1
               /\ \A m \in 1..Len(t) : t[m] = IF m < n THEN s[m] ELSE s[m + 1]
<1> DEFINE a == SubSeq(s, 1, n - 1)
           b == SubSeq(s, n + 1, Len(s))
<1>0. Len(s) \in Nat /\ n \in Nat
  OBVIOUS
<1>1. a \in Seq(S) /\ Len(a) = n - 1 /\ \A m \in 1..(n - 1) : a[m] = s[m]
  OBVIOUS
<1>2. b \in Seq(S) /\ Len(b) = Len(s) - n /\ \A m \in 1..(Len(s) - n) : b[m] = s[m + n]
  OBVIOUS
<1> HIDE DEF a, b
<1>3. /\ a \o b \in Seq(S) /\ Len(a \o b) = Len(s) - 1
      /\ \A m \in 1..(Len(s) - 1) : (a \o b)[m] = IF m <= n - 1 THEN a[m] ELSE b[m - (n - 1)]
  <2>1. (n - 1) + (Len(s) - n) = Len(s) - 1 /\ n - 1 \in Nat /\ Len(s) - n \in Nat
    BY <1>0
  <2>2. /\ a \o b \in Seq(S) /\ Len(a \o b) = Len(a) + Len(b)
        /\ \A m \in 1..(Len(a) + Len(b)) : (a \o b)[m] = IF m <= Len(a) THEN a[m] ELSE b[m - Len(a)]
    BY <1>1, <1>2, ConcatProperties
  <2> QED BY <1>1, <1>2, <2>1, <2>2
<1>4. ASSUME NEW m \in 1..(Len(s) - 1)
      PROVE  (a \o b)[m] = IF m < n THEN s[m] ELSE s[m + 1]
  <2>1. CASE m < n
    BY <1>0, <1>1, <1>3, <2>1
  <2>2. CASE ~(m < n)
    <3>1. m - (n - 1) \in 1..(Len(s) - n) /\ (m - (n - 1)) + n = m + 1
      BY <1>0, <2>2
    <3> QED BY <1>0, <1>2, <1>3, <2>2, <3>1
  <2> QED BY <2>1, <2>2
<1> QED BY <1>3, <1>4 DEF a, b

-----------------------------------------------------------------------------
(***************************************************************************)
(* What a step of the node server does to the calls of its volume.         *)
(***************************************************************************)
Others(v) == Volumes \ {v}

\* A handler goes on to another step, or takes a call.
Moves(v, h) ==
    /\ handler' = [handler EXCEPT ![v] = h] /\ h \in Handler
    /\ h.pc # "idle" /\ h.op = handler[v].op /\ h.live = handler[v].live
    /\ h.pc \in StageSteps => h.op = "stage"
    /\ h.pc \in UnstageSteps => h.op = "unstage"
    /\ h.pc \in PublishSteps => h.op = "publish"
    /\ UNCHANGED <<waiting, kub>>

\* A handler ends.
Ends(v, answer) ==
    /\ CallsTyped'
    /\ handler'[v] = IdleHandler /\ waiting' = waiting
    /\ \A w \in Others(v) : handler'[w] = handler[w] /\ kub'[w] = kub[w]
    /\ ~handler[v].live => kub'[v] = kub[v]
    /\ handler[v].live => kub'[v].op = "none"
    /\ handler[v].live /\ handler[v].op = "stage" =>
          /\ kub'[v].dev \in {"staged", "uncertain", "failed"}
          /\ kub'[v].dev = "staged" => answer = "ok"
          /\ kub'[v].dev = "failed" => "forget" \in FaultKinds
    /\ handler[v].live /\ handler[v].op = "unstage" =>
          /\ kub'[v].dev \in {"none", "uncertain"}
          /\ kub'[v].dev = "none" => answer = "ok"
    /\ handler[v].live /\ handler[v].op \in {"publish", "unpublish"} => kub'[v].dev = kub[v].dev

\* The handler is a call at a step, with the ids and the cache it works on.
LEMMA HandlerFacts ==
    ASSUME NEW h \in Handler, NEW pc \in PCs, NEW I \in SUBSET CacheIds,
           NEW i \in CacheIds \cup {NoId}, NEW n \in CoreIds \cup {NoId}
    PROVE  /\ h.op \in Ops \cup {"none"} /\ h.live \in BOOLEAN /\ h.pc \in PCs
           /\ h.inst \in SUBSET CacheIds /\ h.cache \in CacheIds \cup {NoId}
           /\ h.core \in CoreIds \cup {NoId}
           /\ LET g == [h EXCEPT !.pc = pc]
              IN  g \in Handler /\ g.pc = pc /\ g.op = h.op /\ g.live = h.live
           /\ LET g == [h EXCEPT !.pc = pc, !.inst = I]
              IN  g \in Handler /\ g.pc = pc /\ g.op = h.op /\ g.live = h.live
           /\ LET g == [h EXCEPT !.pc = pc, !.cache = i, !.core = n]
              IN  g \in Handler /\ g.pc = pc /\ g.op = h.op /\ g.live = h.live
           /\ LET g == [h EXCEPT !.pc = pc, !.cache = i, !.inst = {}]
              IN  g \in Handler /\ g.pc = pc /\ g.op = h.op /\ g.live = h.live
           /\ LET g == [h EXCEPT !.live = FALSE]
              IN  g \in Handler /\ g.pc = h.pc /\ g.op = h.op /\ g.live = FALSE
  BY DEF Handler

\* Goto is a move within the call.
LEMMA GotoMoves ==
    ASSUME CallInv, NEW v \in Volumes, NEW pc \in PCs \ {"idle"}, Goto(v, pc),
           pc \in StageSteps => handler[v].op = "stage",
           pc \in UnstageSteps => handler[v].op = "unstage",
           pc \in PublishSteps => handler[v].op = "publish"
    PROVE  \E h : Moves(v, h) /\ h.pc = pc
<1>1. handler[v] \in Handler
  BY DEF CallInv, TypeOK
<1>2. PICK h : h = [handler[v] EXCEPT !.pc = pc]
  OBVIOUS
<1>3. h \in Handler /\ h.pc = pc /\ h.op = handler[v].op /\ h.live = handler[v].live
  BY <1>1, <1>2 DEF Handler
<1>4. Moves(v, h)
  BY <1>2, <1>3 DEF Moves, Goto
<1> QED BY <1>3, <1>4

\* So is going on with a device.
LEMMA WithCoreMoves ==
    ASSUME CallInv, NEW v \in Volumes, NEW pc \in PCs \ {"idle"},
           NEW i \in CacheIds, NEW n \in CoreIds \cup {NoId}, WithCore(v, i, n, pc),
           pc \in StageSteps => handler[v].op = "stage",
           pc \in UnstageSteps => handler[v].op = "unstage",
           pc \in PublishSteps => handler[v].op = "publish"
    PROVE  \E h : Moves(v, h) /\ h.pc = pc
<1>1. handler[v] \in Handler
  BY DEF CallInv, TypeOK
<1>2. PICK h : h = [handler[v] EXCEPT !.pc = pc, !.cache = i, !.core = n]
  OBVIOUS
<1>3. h \in Handler /\ h.pc = pc /\ h.op = handler[v].op /\ h.live = handler[v].live
  BY <1>1, <1>2 DEF Handler
<1>4. Moves(v, h)
  BY <1>2, <1>3 DEF Moves, WithCore
<1> QED BY <1>3, <1>4

\* And going on with the device of the listing.
LEMMA ListedMoves ==
    ASSUME CallInv, NEW v \in Volumes, NEW pc \in PCs \ {"idle"}, Listed(v, pc),
           pc \in StageSteps => handler[v].op = "stage",
           pc \in UnstageSteps => handler[v].op = "unstage",
           pc \in PublishSteps => handler[v].op = "publish"
    PROVE  (\E h : Moves(v, h) /\ h.pc = pc) /\ IsCore(v)
<1>1. PICK i \in CachesWith(caches, v) : WithCore(v, i, coreId[v], pc)
  BY DEF Listed
<1>2. i \in CacheIds /\ coreId[v] \in CoreIds \cup {NoId}
  BY TableDef DEF CachesWith, CallInv, TypeOK
<1> QED BY <1>1, <1>2, WithCoreMoves DEF IsCore

\* Reply ends the handler, and kubelet learns the answer if it still waits.
LEMMA ReplyEnds ==
    ASSUME CallInv, NEW v \in Volumes, ~At(v, "idle"), NEW answer, Reply(v, answer)
    PROVE  Ends(v, answer)
<1>0. CallsTyped /\ handler[v].op \in Ops /\ handler[v].live \in BOOLEAN /\ kub[v] \in Kubelet
  BY DEF CallInv, TypeOK, CallsTyped, InItsCall, Handler
<1>1. /\ handler' = [handler EXCEPT ![v] = IdleHandler] /\ waiting' = waiting
  BY DEF Reply
<1>2. handler' \in [Volumes -> Handler] /\ handler'[v] = IdleHandler
      /\ \A w \in Others(v) : handler'[w] = handler[w]
  BY <1>0, <1>1, IdleFacts DEF CallsTyped, Others
<1>3. CASE ~handler[v].live
  <2>1. kub' = kub
    BY <1>3 DEF Reply
  <2> QED BY <1>0, <1>1, <1>2, <1>3, <2>1 DEF Ends, CallsTyped
<1>4. CASE handler[v].live
  <2>1. PICK k \in AfterAnswer(kub[v], handler[v].op, answer) : kub' = [kub EXCEPT ![v] = k]
    BY <1>4 DEF Reply
  <2>2. /\ k \in Kubelet /\ k.op = "none"
        /\ handler[v].op = "stage" =>
              /\ k.dev \in {"staged", "uncertain", "failed"}
              /\ k.dev = "staged" => answer = "ok"
              /\ k.dev = "failed" => "forget" \in FaultKinds
        /\ handler[v].op = "unstage" =>
              k.dev \in {"none", "uncertain"} /\ (k.dev = "none" => answer = "ok")
        /\ handler[v].op \in {"publish", "unpublish"} => k.dev = kub[v].dev
    BY <1>0, AnswerFacts
  <2>3. kub' \in [Volumes -> Kubelet] /\ kub'[v] = k /\ \A w \in Others(v) : kub'[w] = kub[w]
    BY <1>0, <2>1, <2>2 DEF CallsTyped, Others
  <2> QED BY <1>0, <1>1, <1>2, <1>4, <2>2, <2>3 DEF Ends, CallsTyped
<1> QED BY <1>0, <1>3, <1>4

\* The mutex is taken by a waiting call, which is the first if none overtakes.
Takes(v, n) ==
    /\ n \in Places(v) /\ (n = 1 \/ "overtake" \in FaultKinds)
    /\ CallsTyped' /\ kub' = kub
    /\ \A w \in Others(v) : handler'[w] = handler[w] /\ waiting'[w] = waiting[w]
    /\ handler'[v].op = waiting[v][n].op /\ handler'[v].live = waiting[v][n].live
    /\ handler'[v].pc = "enter"
    /\ Len(waiting'[v]) = Len(waiting[v]) - 1
    /\ \A m \in 1..Len(waiting'[v]) :
          waiting'[v][m] = IF m < n THEN waiting[v][m] ELSE waiting[v][m + 1]

\* LockKey takes one waiting call and leaves the order of the others.
LEMMA LockTakes ==
    ASSUME CallInv, NEW v \in Volumes, LockKey(v)
    PROVE  \E n : Takes(v, n)
<1>0. CallsTyped /\ waiting[v] \in Seq(Calls)
  BY DEF CallInv, TypeOK, CallsTyped
<1>1. PICK n \in 1..Len(waiting[v]) :
          /\ n = 1 \/ "overtake" \in FaultKinds
          /\ handler' = [handler EXCEPT ![v] =
                           [IdleHandler EXCEPT !.op = waiting[v][n].op,
                                               !.live = waiting[v][n].live, !.pc = "enter"]]
          /\ waiting' = [waiting EXCEPT ![v] = SubSeq(@, 1, n - 1) \o SubSeq(@, n + 1, Len(@))]
  BY DEF LockKey, Fault
<1>2. PICK t : t = SubSeq(waiting[v], 1, n - 1) \o SubSeq(waiting[v], n + 1, Len(waiting[v]))
  OBVIOUS
<1>3. /\ t \in Seq(Calls) /\ Len(t) = Len(waiting[v]) - 1
      /\ \A m \in 1..Len(t) : t[m] = IF m < n THEN waiting[v][m] ELSE waiting[v][m + 1]
  BY <1>0, <1>2, RemovedFacts
<1>4. waiting' = [waiting EXCEPT ![v] = t]
  BY <1>1, <1>2
<1>5. waiting' \in [Volumes -> Seq(Calls)] /\ waiting'[v] = t
      /\ \A w \in Others(v) : waiting'[w] = waiting[w]
  BY <1>0, <1>3, <1>4 DEF CallsTyped, Others
<1>6. waiting[v][n] \in Calls
  BY <1>0
<1>7. PICK h : h = [IdleHandler EXCEPT !.op = waiting[v][n].op,
                                       !.live = waiting[v][n].live, !.pc = "enter"]
  OBVIOUS
<1>8. /\ h \in Handler /\ h.op = waiting[v][n].op /\ h.live = waiting[v][n].live /\ h.pc = "enter"
  BY <1>6, <1>7, IdleFacts DEF Handler, Calls, PCs
<1>9. handler' \in [Volumes -> Handler] /\ handler'[v] = h
      /\ \A w \in Others(v) : handler'[w] = handler[w]
  BY <1>0, <1>1, <1>7, <1>8 DEF CallsTyped, Others
<1>10. kub' = kub
  BY DEF LockKey
<1>11. Takes(v, n)
  BY <1>0, <1>1, <1>3, <1>5, <1>8, <1>9, <1>10 DEF Takes, CallsTyped, Places
<1> QED BY <1>11

-----------------------------------------------------------------------------
(***************************************************************************)
(* What it does to the volume.                                             *)
(***************************************************************************)
DataTyped ==
    /\ caches \in CacheTable
    /\ coreId \in [Volumes -> CoreIds \cup {NoId}]
    /\ exposed \in SUBSET Volumes
    /\ label \in Labels
    /\ pod \in SUBSET Volumes
    /\ link \in [Volumes -> {"none", "good", "broken"}]
    /\ mounted \in [Volumes -> SUBSET Volumes]
    /\ pub \in [Volumes -> SUBSET (Volumes \cup {Directory})]
    /\ fs \in [Volumes -> {"none", "new", "data"}]
    /\ want \in SUBSET Volumes
    /\ used \in [faults : Nat, pods : Nat, changes : Nat, reboots : Nat]

\* A volume that is at most taken from its cache.
Kept(w) ==
    /\ pub'[w] = pub[w] /\ link'[w] = link[w]
    /\ mounted'[w] = mounted[w]
    /\ IsCore(w)' => IsCore(w)

PastLabel == {"addcore", "fs", "mkfs", "mount"}

\* Only AddCore makes a volume a core.
CoreOnlyBefore(v) == IsCore(v)' => IsCore(v) \/ (At(v, "addcore") /\ link[v] = "good")

\* In the middle of a call.
MovesOn(v, h) ==
    /\ ~At(v, "idle") /\ Moves(v, h)
    /\ pub'[v] = pub[v] /\ link'[v] \in {link[v], "good"}
    /\ mounted'[v] # {} => mounted[v] # {}
    /\ mounted[v] # {} => mounted'[v] # {} \/ handler[v].op = "unstage"
    /\ CoreOnlyBefore(v)
    /\ h.pc \in UnstageSteps => handler[v].pc \in UnstageSteps \/ mounted'[v] = {}
    /\ h.pc \in PastLabel =>
          handler[v].pc \in PastLabel \/ (handler[v].op = "stage" /\ (IsCore(v) \/ handler[v].live))

\* The volume was looked for before unstaging is done with it.
Cleaned(v) ==
    /\ handler[v].pc \in UnstageSteps
    /\ "pv" \in FaultKinds \/ "cut" \in FaultKinds \/ ~IsCore(v)' \/ link[v] # "good"

\* At its end.
EndsWith(v, answer) ==
    /\ ~At(v, "idle") /\ Ends(v, answer)
    /\ mounted[v] # {} => mounted'[v] # {}
    /\ mounted'[v] # {} => mounted[v] # {} \/ At(v, "mount")
    /\ CoreOnlyBefore(v)
    /\ handler[v].op = "stage" /\ answer = "ok" => Holds(v)'
    /\ link'[v] # link[v] => Cleaned(v)
    /\ handler[v].op = "unstage" /\ answer = "ok" => Cleaned(v)
    /\ Directory \in pub'[v] => Directory \in pub[v] \/ (handler[v].op = "publish" /\ ~Holds(v))

Handled(v) ==
    /\ DataTyped' /\ \A w \in Others(v) : Kept(w)
    /\ \/ (\E n : Takes(v, n)) /\ Kept(v)
       \/ \E h : MovesOn(v, h)
       \/ \E answer : EndsWith(v, answer)

\* The bounds stay counters.
LEMMA UseTyped ==
    ASSUME used \in [faults : Nat, pods : Nat, changes : Nat, reboots : Nat]
    PROVE  /\ \A k : Fault(k) => used' \in [faults : Nat, pods : Nat, changes : Nat, reboots : Nat]
           /\ \A max : \A b \in {"pods", "changes", "reboots"} :
                 Use(b, max) => used' \in [faults : Nat, pods : Nat, changes : Nat, reboots : Nat]
  BY DEF Fault, Use

UsedType == used \in [faults : Nat, pods : Nat, changes : Nat, reboots : Nat]

\* A step that leaves the data alone.
LEMMA SameData ==
    ASSUME DataTyped, UsedType', UNCHANGED <<cacheVars, nodeVars, outerVars>>
    PROVE  DataTyped' /\ \A w \in Volumes : Kept(w) /\ (IsCore(w)' <=> IsCore(w))
  BY DEF DataTyped, UsedType, cacheVars, nodeVars, outerVars, Kept, IsCore

\* The parts of the invariant.
LEMMA CallInvFacts ==
    ASSUME CallInv, NEW v \in Volumes
    PROVE  /\ DataTyped /\ CallsTyped /\ UsedType /\ handler[v] \in Handler /\ InItsCall(v)
           /\ caches \in [DOMAIN caches -> Cache] /\ DOMAIN caches \subseteq CacheIds
           /\ handler[v].inst \in SUBSET CacheIds
  BY TableDef DEF CallInv, TypeOK, DataTyped, CallsTyped, UsedType, Handler

\* A move, or an answer, that leaves the data alone.
LEMMA QuietMove ==
    ASSUME CallInv, NEW v \in Volumes, ~At(v, "idle"), UsedType',
           UNCHANGED <<cacheVars, nodeVars, outerVars>>, NEW h, Moves(v, h),
           h.pc \in UnstageSteps => handler[v].pc \in UnstageSteps,
           h.pc \in PastLabel =>
              handler[v].pc \in PastLabel \/ (handler[v].op = "stage" /\ (IsCore(v) \/ handler[v].live))
    PROVE  Handled(v)
<1>1. DataTyped' /\ \A w \in Volumes : Kept(w) /\ (IsCore(w)' <=> IsCore(w))
  BY CallInvFacts, SameData
<1>2. MovesOn(v, h)
  BY <1>1 DEF MovesOn, Kept, CoreOnlyBefore
<1> QED BY <1>1, <1>2 DEF Handled, Others

\* A handler that answers in a step that leaves the node alone; ok is such an
\* answer only for staging a raw block volume, which nothing mounts.
LEMMA QuietEnd ==
    ASSUME CallInv, NEW v \in Volumes, ~At(v, "idle"), UsedType',
           UNCHANGED <<cacheVars, nodeVars, outerVars>>, NEW answer, Reply(v, answer),
           answer = "ok" => handler[v].op = "stage" /\ v \in BlockVolumes
    PROVE  Handled(v)
<1>1. DataTyped' /\ \A w \in Volumes : Kept(w) /\ (IsCore(w)' <=> IsCore(w))
  BY CallInvFacts, SameData
<1>2. Ends(v, answer)
  BY ReplyEnds
<1>3. EndsWith(v, answer)
  BY <1>1, <1>2 DEF EndsWith, Kept, CoreOnlyBefore, Holds
<1> QED BY <1>1, <1>3 DEF Handled, Others

-----------------------------------------------------------------------------
(***************************************************************************)
(* Every step of the node server is such a step.                           *)
(***************************************************************************)

\* Taking the mutex.
LEMMA LockHandled == ASSUME CallInv, NEW v \in Volumes, LockKey(v) PROVE Handled(v)
<1>1. UsedType' /\ UNCHANGED <<cacheVars, nodeVars, outerVars>>
  BY CallInvFacts, UseTyped DEF LockKey, UsedType
<1> QED BY <1>1, LockTakes, SameData, CallInvFacts DEF Handled, Others

\* The steps of NodeStageVolume that read only.
LEMMA StageReadsHandled ==
    ASSUME CallInv, NEW v \in Volumes,
           StageFind(v) \/ StageInstances(v) \/ StageLabel(v) \/ StageFs(v)
    PROVE  Handled(v)
<1>0. /\ UNCHANGED <<cacheVars, nodeVars, outerVars>> /\ UsedType' /\ ~At(v, "idle")
      /\ handler[v].op = "stage" /\ handler[v] \in Handler
  BY CallInvFacts, UseTyped
     DEF StageFind, StageInstances, StageLabel, StageFs, UsedType, At, InItsCall, StageSteps
<1>1. ASSUME Reply(v, "final") \/ Reply(v, "retry") PROVE Handled(v)
  BY <1>0, <1>1, QuietEnd
<1>2. ASSUME NEW pc \in {"fs", "instances", "mkfs", "mount"}, Goto(v, pc),
             pc \in PastLabel => handler[v].pc \in PastLabel \/ IsCore(v)
      PROVE  Handled(v)
  <2>1. PICK h : Moves(v, h) /\ h.pc = pc
    BY <1>0, <1>2, GotoMoves DEF PCs, StageSteps, UnstageSteps, PublishSteps
  <2> QED BY <1>0, <1>2, <2>1, QuietMove DEF UnstageSteps
<1>3. CASE StageFind(v)
  <2>1. ASSUME Listed(v, "fs") PROVE Handled(v)
    <3>1. (\E h : Moves(v, h) /\ h.pc = "fs") /\ IsCore(v)
      BY <1>0, <2>1, ListedMoves DEF PCs, UnstageSteps, PublishSteps
    <3> QED BY <1>0, <3>1, QuietMove DEF UnstageSteps
  <2> QED BY <1>1, <1>2, <1>3, <2>1 DEF StageFind, PastLabel
<1>4. CASE StageInstances(v)
  <2>1. ASSUME NEW I \in SUBSET CacheIds, UNCHANGED <<waiting, kub>>,
               handler' = [handler EXCEPT ![v] = [handler[v] EXCEPT !.pc = "label", !.inst = I]]
        PROVE  Handled(v)
    <3>1. PICK h : h = [handler[v] EXCEPT !.pc = "label", !.inst = I]
      OBVIOUS
    <3>2. h \in Handler /\ h.pc = "label" /\ h.op = handler[v].op /\ h.live = handler[v].live
      BY <1>0, <3>1 DEF Handler, PCs
    <3>3. Moves(v, h)
      BY <1>0, <2>1, <3>1, <3>2 DEF Moves, UnstageSteps, PublishSteps
    <3> QED BY <1>0, <3>2, <3>3, QuietMove DEF UnstageSteps, PastLabel
  <2> QED BY <1>1, <1>4, <2>1, CallInvFacts DEF StageInstances
<1>5. CASE StageLabel(v)
  <2>1. PICK i : i = Chosen(handler[v].inst)
    OBVIOUS
  <2>2. ASSUME handler[v].live, i # NoId, UNCHANGED <<waiting, kub>>,
               handler' = [handler EXCEPT ![v] =
                             [handler[v] EXCEPT !.pc = "addcore", !.cache = i, !.inst = {}]]
        PROVE  Handled(v)
    <3>0. i \in CacheIds
      <4>1. handler[v].inst \in SUBSET CacheIds
        BY CallInvFacts
      <4> QED BY <2>1, <2>2, <4>1 DEF Chosen
    <3>1. PICK h : h = [handler[v] EXCEPT !.pc = "addcore", !.cache = i, !.inst = {}]
      OBVIOUS
    <3>2. h \in Handler /\ h.pc = "addcore" /\ h.op = handler[v].op /\ h.live = handler[v].live
      BY <1>0, <3>0, <3>1 DEF Handler, PCs
    <3>3. Moves(v, h)
      BY <1>0, <2>2, <3>1, <3>2 DEF Moves, UnstageSteps, PublishSteps
    <3> QED BY <1>0, <2>2, <3>2, <3>3, QuietMove DEF UnstageSteps
  <2> QED BY <1>1, <1>5, <2>1, <2>2 DEF StageLabel, LabelReadable
<1>6. CASE StageFs(v)
  <2>1. ASSUME v \in BlockVolumes, Reply(v, "ok") PROVE Handled(v)
    BY <1>0, <2>1, QuietEnd
  <2>2. handler[v].pc \in PastLabel
    BY <1>6 DEF StageFs, At, PastLabel
  <2> QED BY <1>1, <1>2, <1>6, <2>1, <2>2 DEF StageFs
<1> QED BY <1>3, <1>4, <1>5, <1>6

\* The by-id link is made.
LEMMA StageEnterHandled == ASSUME CallInv, NEW v \in Volumes, StageEnter(v) PROVE Handled(v)
<1>0. /\ ~At(v, "idle") /\ handler[v].op = "stage" /\ UNCHANGED <<cacheVars, mounted, pub, fs, outerVars>>
      /\ At(v, "enter") /\ UsedType'
  BY CallInvFacts, UseTyped DEF StageEnter, At, UsedType
<1>1. ASSUME link' \in {link, Linked(v)}, Goto(v, "find") PROVE Handled(v)
  <2>1. PICK h : Moves(v, h) /\ h.pc = "find"
    BY <1>0, <1>1, GotoMoves DEF PCs, StageSteps, UnstageSteps, PublishSteps
  <2>3. link' \in [Volumes -> {"none", "good", "broken"}] /\ link'[v] \in {link[v], "good"}
        /\ \A w \in Others(v) : link'[w] = link[w]
    BY <1>1, CallInvFacts DEF DataTyped, Others, Linked
  <2>4. \A w \in Volumes : IsCore(w)' <=> IsCore(w)
    BY <1>0 DEF IsCore, cacheVars
  <2>5. DataTyped' /\ \A w \in Others(v) : Kept(w)
    BY <1>0, <2>3, <2>4, CallInvFacts DEF DataTyped, UsedType, cacheVars, outerVars, Kept, Others
  <2>6. MovesOn(v, h)
    BY <1>0, <2>1, <2>3, <2>4 DEF MovesOn, CoreOnlyBefore, UnstageSteps, PastLabel
  <2> QED BY <2>5, <2>6 DEF Handled
<1>2. ASSUME link' = link, Reply(v, "final") PROVE Handled(v)
  <2>1. UNCHANGED <<cacheVars, nodeVars, outerVars>> /\ Reply(v, "final")
    BY <1>0, <1>2 DEF nodeVars
  <2> QED BY <1>0, <2>1, QuietEnd
<1> QED BY <1>1, <1>2 DEF StageEnter

\* AddCore.
LEMMA StageAddCoreHandled == ASSUME CallInv, NEW v \in Volumes, StageAddCore(v) PROVE Handled(v)
<1>0. /\ ~At(v, "idle") /\ At(v, "addcore") /\ handler[v].op = "stage" /\ UsedType'
      /\ UNCHANGED <<nodeVars, outerVars>>
  BY CallInvFacts, UseTyped DEF StageAddCore, At, UsedType, InItsCall, StageSteps
<1>1. CASE UNCHANGED cacheVars /\ Reply(v, "final")
  BY <1>0, <1>1, QuietEnd
<1>2. ASSUME NEW i, i = handler[v].cache, i \in DOMAIN caches, link[v] = "good",
             NEW n \in CoreIds, NEW met \in SUBSET Volumes,
             caches' = CoreAdded(caches, i, v), coreId' = [coreId EXCEPT ![v] = n],
             exposed' = exposed \cup met,
             WithCore(v, i, n, "fs") \/ Reply(v, "final")
      PROVE  Handled(v)
  <2>2. caches' \in CacheTable
    BY <1>2, CoreAddedType, CallInvFacts DEF DataTyped
  <2>3. \A w \in Others(v) : IsCore(w)' <=> IsCore(w)
    BY <1>2, CoresAfter, CallInvFacts DEF DataTyped, IsCore, Others
  <2>4. DataTyped' /\ \A w \in Others(v) : Kept(w)
    BY <1>0, <1>2, <2>2, <2>3, CallInvFacts DEF DataTyped, UsedType, outerVars, nodeVars, Kept
  <2>5. pub'[v] = pub[v] /\ link'[v] = link[v] /\ mounted' = mounted /\ CoreOnlyBefore(v)
    BY <1>0, <1>2 DEF nodeVars, CoreOnlyBefore
  <2>6. CASE WithCore(v, i, n, "fs")
    <3>0. i \in CacheIds
      BY <1>2, CallInvFacts
    <3>1. PICK h : Moves(v, h) /\ h.pc = "fs"
      BY <1>0, <2>6, <3>0, WithCoreMoves DEF PCs, UnstageSteps, PublishSteps
    <3>2. MovesOn(v, h)
      BY <1>0, <2>5, <3>1 DEF MovesOn, UnstageSteps, PastLabel, At
    <3> QED BY <2>4, <3>2 DEF Handled
  <2>7. CASE Reply(v, "final")
    <3>1. Ends(v, "final")
      BY <1>0, <2>7, ReplyEnds
    <3>2. EndsWith(v, "final")
      BY <1>0, <2>5, <3>1 DEF EndsWith
    <3> QED BY <2>4, <3>2 DEF Handled
  <2> QED BY <1>2, <2>6, <2>7
<1>3. ASSUME NEW n \in CoreIds,
             handler[v].cache \in DOMAIN caches, link[v] = "good",
             caches' = CoreAdded(caches, handler[v].cache, v), coreId' = [coreId EXCEPT ![v] = n],
             exposed' = exposed \cup (IF StillUsing(v, handler[v].cache, n) = {} THEN {}
                                      ELSE StillUsing(v, handler[v].cache, n) \cup {v}),
             WithCore(v, handler[v].cache, n, "fs") \/ Reply(v, "final")
      PROVE  Handled(v)
  <2>1. StillUsing(v, handler[v].cache, n) \in SUBSET Volumes
    BY DEF StillUsing
  <2> QED BY <1>2, <1>3, <2>1
<1> QED BY <1>1, <1>3 DEF StageAddCore

\* mkfs, and the mount at the staging path.
LEMMA StageMountHandled ==
    ASSUME CallInv, NEW v \in Volumes, StagePrepareFs(v) \/ StageMount(v) PROVE Handled(v)
<1>0. /\ ~At(v, "idle") /\ handler[v].pc \in {"mkfs", "mount"} /\ handler[v].op = "stage" /\ UsedType'
      /\ UNCHANGED <<cacheVars, link, pub, outerVars>>
  BY CallInvFacts, UseTyped DEF StagePrepareFs, StageMount, At, UsedType, InItsCall, StageSteps
<1>1. \A w \in Volumes : IsCore(w)' <=> IsCore(w)
  BY <1>0 DEF IsCore, cacheVars
<1>2. CASE StagePrepareFs(v)
  <2>1. fs' \in [Volumes -> {"none", "new", "data"}]
    BY <1>2, CallInvFacts DEF StagePrepareFs, DataTyped
  <2>2. mounted' = mounted
    BY <1>2 DEF StagePrepareFs
  <2>3. DataTyped' /\ \A w \in Others(v) : Kept(w)
    BY <1>0, <1>1, <2>1, <2>2, CallInvFacts DEF DataTyped, UsedType, cacheVars, outerVars, Kept, Others
  <2>4. CASE Goto(v, "mount")
    <3>1. PICK h : Moves(v, h) /\ h.pc = "mount"
      BY <1>0, <2>4, GotoMoves DEF PCs, UnstageSteps, PublishSteps
    <3>2. MovesOn(v, h)
      BY <1>0, <1>1, <2>2, <3>1 DEF MovesOn, CoreOnlyBefore, UnstageSteps, PastLabel, At
    <3> QED BY <2>3, <3>2 DEF Handled
  <2>5. CASE Reply(v, "final")
    <3>1. Ends(v, "final")
      BY <1>0, <2>5, ReplyEnds
    <3>2. EndsWith(v, "final")
      BY <1>0, <1>1, <2>2, <3>1 DEF EndsWith, CoreOnlyBefore
    <3> QED BY <2>3, <3>2 DEF Handled
  <2> QED BY <1>2, <2>4, <2>5 DEF StagePrepareFs
<1>3. CASE StageMount(v)
  <2>1. fs' = fs /\ At(v, "mount")
    BY <1>3 DEF StageMount
  <2>2. ASSUME NEW M \in SUBSET Volumes, M # {}, mounted' = [mounted EXCEPT ![v] = M], Reply(v, "ok")
        PROVE  Handled(v)
    <3>0. /\ mounted' \in [Volumes -> SUBSET Volumes] /\ mounted'[v] = M
          /\ \A w \in Others(v) : mounted'[w] = mounted[w]
      BY <2>2, CallInvFacts DEF DataTyped, Others
    <3>1. DataTyped' /\ \A w \in Others(v) : Kept(w)
      BY <1>0, <1>1, <2>1, <3>0, CallInvFacts DEF DataTyped, UsedType, cacheVars, outerVars, Kept, Others
    <3>2. Ends(v, "ok")
      BY <1>0, <2>2, ReplyEnds
    <3>3. EndsWith(v, "ok")
      BY <1>0, <1>1, <2>1, <2>2, <3>0, <3>2 DEF EndsWith, CoreOnlyBefore, Holds
    <3> QED BY <3>1, <3>3 DEF Handled
  <2>3. CASE mounted' = mounted /\ Reply(v, "final")
    BY <1>0, <2>1, <2>3, QuietEnd DEF nodeVars
  <2>4. CASE mounted[v] # {} /\ mounted' = mounted /\ Reply(v, "ok")
    <3>1. mounted' = [mounted EXCEPT ![v] = mounted[v]] /\ mounted[v] \in SUBSET Volumes
      BY <2>4, CallInvFacts DEF DataTyped
    <3> QED BY <2>2, <2>4, <3>1
  <2>5. {w \in Device(v) : ~Unformatted(w)} \in SUBSET Volumes
    BY DEF Device, VolumesAt
  <2> QED BY <1>3, <2>2, <2>3, <2>4, <2>5 DEF StageMount
<1> QED BY <1>2, <1>3

\* The unmount at the staging path.
LEMMA UnstageUnmountHandled ==
    ASSUME CallInv, NEW v \in Volumes, UnstageUnmount(v) PROVE Handled(v)
<1>0. /\ ~At(v, "idle") /\ At(v, "enter") /\ handler[v].op = "unstage" /\ UsedType'
      /\ UNCHANGED <<cacheVars, link, pub, fs, outerVars>>
  BY CallInvFacts, UseTyped DEF UnstageUnmount, At, UsedType
<1>1. \A w \in Volumes : IsCore(w)' <=> IsCore(w)
  BY <1>0 DEF IsCore, cacheVars
<1>2. CASE mounted' = [mounted EXCEPT ![v] = {}] /\ Goto(v, "link")
  <2>0. /\ mounted' \in [Volumes -> SUBSET Volumes] /\ mounted'[v] = {}
        /\ \A w \in Others(v) : mounted'[w] = mounted[w]
    BY <1>2, CallInvFacts DEF DataTyped, Others
  <2>1. DataTyped' /\ \A w \in Others(v) : Kept(w)
    BY <1>0, <1>1, <2>0, CallInvFacts DEF DataTyped, UsedType, cacheVars, outerVars, Kept, Others
  <2>2. PICK h : Moves(v, h) /\ h.pc = "link"
    BY <1>0, <1>2, GotoMoves DEF PCs, StageSteps, PublishSteps
  <2>3. MovesOn(v, h)
    BY <1>0, <1>1, <2>0, <2>2 DEF MovesOn, CoreOnlyBefore, PastLabel
  <2> QED BY <2>1, <2>3 DEF Handled
<1>3. CASE mounted' = mounted /\ Reply(v, "final")
  BY <1>0, <1>3, QuietEnd DEF nodeVars
<1> QED BY <1>2, <1>3 DEF UnstageUnmount

\* Unstaging that is done removes the link.
LEMMA CleanupHandled ==
    ASSUME CallInv, NEW v \in Volumes, ~At(v, "idle"), UsedType', handler[v].op = "unstage",
           UNCHANGED <<mounted, pub, fs, outerVars, exposed>>, caches' \in CacheTable,
           coreId' \in [Volumes -> CoreIds \cup {NoId}],
           \A w \in Volumes : IsCore(w)' => IsCore(w),
           CleanupAndReply(v), Cleaned(v)
    PROVE  Handled(v)
<1>1. link' = [link EXCEPT ![v] = "none"] /\ Reply(v, "ok")
  BY DEF CleanupAndReply
<1>2. link' \in [Volumes -> {"none", "good", "broken"}] /\ \A w \in Others(v) : link'[w] = link[w]
  BY <1>1, CallInvFacts DEF DataTyped, Others
<1>3. DataTyped' /\ \A w \in Others(v) : Kept(w)
  BY <1>2, CallInvFacts DEF DataTyped, UsedType, outerVars, Kept, Others
<1>4. Ends(v, "ok")
  BY <1>1, ReplyEnds
<1>5. EndsWith(v, "ok")
  BY <1>4 DEF EndsWith, CoreOnlyBefore
<1> QED BY <1>3, <1>5 DEF Handled

\* Before the core is removed.
LEMMA UnstageReadsHandled ==
    ASSUME CallInv, NEW v \in Volumes, UnstageLink(v) \/ UnstageObjects(v) \/ UnstageFind(v)
    PROVE  Handled(v)
<1>0. /\ ~At(v, "idle") /\ handler[v].pc \in UnstageSteps /\ handler[v].op = "unstage" /\ UsedType'
      /\ UNCHANGED <<cacheVars, mounted, pub, fs, outerVars>> /\ handler[v] \in Handler
      /\ caches' \in CacheTable /\ coreId' \in [Volumes -> CoreIds \cup {NoId}] /\ exposed' = exposed
  BY CallInvFacts, UseTyped
     DEF UnstageLink, UnstageObjects, UnstageFind, At, UsedType, InItsCall, UnstageSteps, DataTyped,
         cacheVars
<1>1. \A w \in Volumes : IsCore(w)' <=> IsCore(w)
  BY <1>0 DEF IsCore, cacheVars
<1>2. ASSUME CleanupAndReply(v),
             "pv" \in FaultKinds \/ "cut" \in FaultKinds \/ ~IsCore(v) \/ link[v] # "good"
      PROVE  Handled(v)
  <2>1. Cleaned(v)
    BY <1>0, <1>1, <1>2 DEF Cleaned
  <2> QED BY <1>0, <1>1, <1>2, <2>1, CleanupHandled
<1>3. ASSUME link' = link, Reply(v, "final") PROVE Handled(v)
  BY <1>0, <1>3, QuietEnd DEF nodeVars
<1>4. ASSUME link' = link, NEW pc \in {"objects", "lookup"}, Goto(v, pc) PROVE Handled(v)
  <2>1. PICK h : Moves(v, h) /\ h.pc = pc
    BY <1>0, <1>4, GotoMoves DEF PCs, StageSteps, PublishSteps
  <2> QED BY <1>0, <1>4, <2>1, QuietMove DEF nodeVars, PastLabel
<1>5. CASE UnstageLink(v)
  BY <1>2, <1>4, <1>5 DEF UnstageLink
<1>6. CASE UnstageObjects(v)
  BY <1>2, <1>3, <1>4, <1>6 DEF UnstageObjects, Fault
<1>7. CASE UnstageFind(v)
  <2>1. ASSUME link' = link, Listed(v, "rmcore") PROVE Handled(v)
    <3>1. PICK h : Moves(v, h) /\ h.pc = "rmcore"
      BY <1>0, <2>1, ListedMoves DEF PCs, StageSteps, PublishSteps
    <3> QED BY <1>0, <2>1, <3>1, QuietMove DEF nodeVars, PastLabel
  <2> QED BY <1>2, <1>3, <1>7, <2>1 DEF UnstageFind, Fault
<1> QED BY <1>5, <1>6, <1>7

\* RemoveCore.
LEMMA UnstageRemoveCoreHandled ==
    ASSUME CallInv, NEW v \in Volumes, UnstageRemoveCore(v) PROVE Handled(v)
<1>0. /\ ~At(v, "idle") /\ handler[v].pc \in UnstageSteps /\ handler[v].op = "unstage" /\ UsedType'
      /\ UNCHANGED <<mounted, pub, fs, outerVars, exposed>> /\ caches \in CacheTable
      /\ coreId \in [Volumes -> CoreIds \cup {NoId}]
  BY CallInvFacts, UseTyped DEF UnstageRemoveCore, At, UsedType, InItsCall, UnstageSteps, DataTyped
<1>1. /\ Removed(v) \/ UNCHANGED <<caches, coreId>>
      /\ \/ link' = link /\ Reply(v, "final")
         \/ ~IsCore(v)' /\ CleanupAndReply(v)
  BY DEF UnstageRemoveCore
<1>2. /\ caches' \in CacheTable /\ coreId' \in [Volumes -> CoreIds \cup {NoId}]
      /\ \A w \in Volumes : IsCore(w)' => IsCore(w)
  <2>1. CASE UNCHANGED <<caches, coreId>>
    BY <1>0, <2>1 DEF IsCore
  <2>2. ASSUME NEW i, i = handler[v].cache, NEW w \in Device(v), caches' = CoreRemoved(caches, i, w),
               coreId' = [coreId EXCEPT ![w] = NoId]
        PROVE  /\ caches' \in CacheTable /\ coreId' \in [Volumes -> CoreIds \cup {NoId}]
               /\ \A u \in Volumes : IsCore(u)' => IsCore(u)
    <3>1. w \in Volumes /\ i \in DOMAIN caches
      BY <2>2 DEF Device, VolumesAt, CachesWith
    <3>2. caches' \in CacheTable
      BY <1>0, <2>2, <3>1, CoreRemovedType
    <3>3. coreId' \in [Volumes -> CoreIds \cup {NoId}]
      BY <1>0, <2>2
    <3>4. \A u \in Volumes : IsCore(u)' => IsCore(u)
      BY <1>0, <2>2, <3>1, CoresAfter DEF IsCore
    <3> QED BY <3>2, <3>3, <3>4
  <2> QED BY <1>1, <2>1, <2>2 DEF Removed
<1>4. CASE link' = link /\ Reply(v, "final")
  <2>1. DataTyped' /\ \A w \in Volumes : Kept(w)
    BY <1>0, <1>2, <1>4, CallInvFacts DEF DataTyped, UsedType, outerVars, Kept
  <2>2. Ends(v, "final")
    BY <1>0, <1>4, ReplyEnds
  <2>3. EndsWith(v, "final")
    BY <1>0, <2>1, <2>2 DEF EndsWith, Kept, CoreOnlyBefore
  <2> QED BY <2>1, <2>3 DEF Handled, Others
<1>5. CASE ~IsCore(v)' /\ CleanupAndReply(v)
  <2>1. Cleaned(v)
    BY <1>0, <1>5 DEF Cleaned
  <2> QED BY <1>0, <1>2, <1>5, <2>1, CleanupHandled
<1> QED BY <1>1, <1>4, <1>5

\* Publishing and unpublishing touch the target path only.
LEMMA PublishHandled ==
    ASSUME CallInv, NEW v \in Volumes, PublishMount(v) \/ PublishBind(v) \/ NodeUnpublishVolume(v)
    PROVE  Handled(v)
<1>0. /\ ~At(v, "idle") /\ UsedType' /\ handler[v].op \in {"publish", "unpublish"}
      /\ UNCHANGED <<cacheVars, link, mounted, fs, outerVars>>
  BY CallInvFacts, UseTyped
     DEF PublishMount, PublishBind, NodeUnpublishVolume, At, UsedType, InItsCall, PublishSteps
<1>1. \A w \in Volumes : IsCore(w)' <=> IsCore(w)
  BY <1>0 DEF IsCore, cacheVars
<1>2. PICK answer : Reply(v, answer)
  BY DEF PublishMount, PublishBind, NodeUnpublishVolume
<1>3. /\ pub' \in [Volumes -> SUBSET (Volumes \cup {Directory})]
      /\ \A w \in Others(v) : pub'[w] = pub[w]
      /\ Directory \in pub'[v] =>
            Directory \in pub[v] \/ (handler[v].op = "publish" /\ ~Holds(v))
  <2>0. Directory \notin Volumes /\ mounted[v] \in SUBSET Volumes /\ Device(v) \in SUBSET Volumes
    BY NodeAssumption, CallInvFacts DEF DataTyped, Device, VolumesAt
  <2>1. CASE pub' = pub
    BY <2>1, CallInvFacts DEF DataTyped
  <2>2. CASE /\ handler[v].op = "publish" /\ v \notin BlockVolumes
             /\ pub' = [pub EXCEPT ![v] = IF mounted[v] # {} THEN mounted[v] ELSE {Directory}]
    BY <2>0, <2>2, CallInvFacts DEF DataTyped, Others, Holds
  <2>3. CASE pub' = [pub EXCEPT ![v] = Device(v)] \/ pub' = [pub EXCEPT ![v] = {}]
    BY <2>0, <2>3, CallInvFacts DEF DataTyped, Others
  <2> QED BY <2>1, <2>2, <2>3 DEF PublishMount, PublishBind, NodeUnpublishVolume
<1>4. DataTyped' /\ \A w \in Others(v) : Kept(w)
  BY <1>0, <1>1, <1>3, CallInvFacts DEF DataTyped, UsedType, cacheVars, outerVars, Kept, Others
<1>5. Ends(v, answer)
  BY <1>0, <1>2, ReplyEnds
<1>6. EndsWith(v, answer)
  BY <1>0, <1>1, <1>3, <1>5 DEF EndsWith, CoreOnlyBefore
<1> QED BY <1>4, <1>6 DEF Handled

\* Before a block device is bound.
LEMMA PublishReadsHandled ==
    ASSUME CallInv, NEW v \in Volumes, PublishBlock(v) \/ PublishFind(v) PROVE Handled(v)
<1>0. /\ ~At(v, "idle") /\ handler[v].op = "publish" /\ UsedType'
      /\ UNCHANGED <<cacheVars, nodeVars, outerVars>>
  BY CallInvFacts, UseTyped DEF PublishBlock, PublishFind, At, UsedType, InItsCall, PublishSteps
<1>1. ASSUME Reply(v, "final") PROVE Handled(v)
  BY <1>0, <1>1, QuietEnd
<1>2. ASSUME NEW pc \in PublishSteps, Goto(v, pc) \/ Listed(v, pc) PROVE Handled(v)
  <2>1. PICK h : Moves(v, h) /\ h.pc = pc
    BY <1>0, <1>2, GotoMoves, ListedMoves DEF PCs, StageSteps, UnstageSteps, PublishSteps
  <2> QED BY <1>0, <2>1, QuietMove DEF PublishSteps, UnstageSteps, PastLabel
<1> QED BY <1>1, <1>2 DEF PublishBlock, PublishFind, PublishSteps

\* All of them.
LEMMA StepHandled == ASSUME CallInv, NEW v \in Volumes, NodeServerStep(v) PROVE Handled(v)
  BY LockHandled, StageReadsHandled, StageEnterHandled, StageAddCoreHandled, StageMountHandled,
     UnstageUnmountHandled, UnstageReadsHandled, UnstageRemoveCoreHandled, PublishHandled,
     PublishReadsHandled
     DEF NodeServerStep, NodeStageVolume, NodeUnstageVolume

-----------------------------------------------------------------------------
(***************************************************************************)
(* What kubelet, the cluster and the operator do.                          *)
(***************************************************************************)
CallsKept(w) == handler'[w] = handler[w] /\ waiting'[w] = waiting[w] /\ kub'[w] = kub[w]

\* What does not touch a volume keeps all that is known of it.
LEMMA KeptKeeps ==
    ASSUME NEW w \in Volumes, CallsKept(w), Kept(w)
    PROVE  /\ InItsCall(w) => InItsCall(w)'
           /\ OneLiveCall(w) => OneLiveCall(w)'
           /\ LiveIsLast(w) => LiveIsLast(w)'
           /\ StaysStaged(w) => StaysStaged(w)'
           /\ PublishesMounted(w) => PublishesMounted(w)'
           /\ Directory \notin pub[w] => Directory \notin pub'[w]
           /\ Remembered(w) => Remembered(w)'
           /\ LinkLeadsToCore(w) => LinkLeadsToCore(w)'
           /\ UnmountedFirst(w) => UnmountedFirst(w)'
           /\ StaysClean(w) => StaysClean(w)'
<1> USE DEF CallsKept, Kept
<1>1. /\ InItsCall(w) => InItsCall(w)'
      /\ OneLiveCall(w) => OneLiveCall(w)'
      /\ LiveIsLast(w) => LiveIsLast(w)'
  BY DEF InItsCall, OneLiveCall, LiveIsLast, Places, At
<1>2. /\ StaysStaged(w) => StaysStaged(w)'
      /\ PublishesMounted(w) => PublishesMounted(w)'
      /\ Directory \notin pub[w] => Directory \notin pub'[w]
  BY DEF StaysStaged, PublishesMounted, Places, Holds
<1>3. /\ Remembered(w) => Remembered(w)'
      /\ LinkLeadsToCore(w) => LinkLeadsToCore(w)'
      /\ UnmountedFirst(w) => UnmountedFirst(w)'
      /\ StaysClean(w) => StaysClean(w)'
  BY DEF Remembered, LinkLeadsToCore, UnmountedFirst, StaysClean
<1> QED BY <1>1, <1>2, <1>3

\* Pods come, go and write, and the operator changes caches and label: no call
\* is touched, and a volume loses its cache at most.
EnvironmentStep ==
    \/ \E v \in Volumes : PodArrives(v) \/ PodLeaves(v) \/ PodWrites(v) \/ Attach(v)
    \/ OperatorStarts \/ OperatorStops \/ OperatorLabels

\* Pods, attachments and the operator change no call and no state that a handler relies on.
LEMMA EnvironmentKeeps ==
    ASSUME TypeOK, EnvironmentStep
    PROVE  DataTyped' /\ CallsTyped' /\ \A w \in Volumes : CallsKept(w) /\ Kept(w)
<1>0. DataTyped /\ CallsTyped /\ UsedType
  BY DEF TypeOK, DataTyped, CallsTyped, UsedType
<1>1. UNCHANGED callVars /\ UsedType'
  BY <1>0, UseTyped DEF EnvironmentStep, PodArrives, PodLeaves, PodWrites, Attach, OperatorStarts,
                        OperatorStops, OperatorLabels, UsedType, callVars
<1>2. CallsTyped' /\ \A w \in Volumes : CallsKept(w)
  BY <1>0, <1>1 DEF CallsTyped, CallsKept, callVars
<1>3. ASSUME NEW v \in Volumes, PodArrives(v) \/ PodLeaves(v) \/ Attach(v)
      PROVE  DataTyped' /\ \A w \in Volumes : Kept(w)
  BY <1>0, <1>1, <1>3 DEF PodArrives, PodLeaves, Attach, DataTyped, UsedType, Kept,
                            cacheVars, nodeVars, IsCore
<1>4. ASSUME NEW v \in Volumes, PodWrites(v)
      PROVE  DataTyped' /\ \A w \in Volumes : Kept(w)
  BY <1>0, <1>1, <1>4 DEF PodWrites, DataTyped, UsedType, Kept, cacheVars, outerVars, IsCore
<1>5. CASE OperatorLabels
  BY <1>0, <1>1, <1>2, <1>5 DEF OperatorLabels, DataTyped, UsedType, Kept, cacheVars,
                                  nodeVars, IsCore
<1>6. CASE OperatorStarts \/ OperatorStops
  <2>1. caches' \in CacheTable /\ \A w \in Volumes : IsCore(w)' => IsCore(w)
    <3>1. CASE OperatorStarts
      <4>1. PICK i \in CacheIds \ DOMAIN caches, d \in Devices :
                caches' = Started(caches, i, [dev |-> d, cls |-> Unset, mode |-> Unset])
        BY <3>1 DEF OperatorStarts
      <4>2. [dev |-> d, cls |-> Unset, mode |-> Unset] \in CacheSpec
        BY DEF CacheSpec
      <4> QED BY <1>0, <4>1, <4>2, StartedType, CoresAfter DEF DataTyped, IsCore
    <3>2. CASE OperatorStops
      <4>1. PICK i \in DOMAIN caches : caches' = Stopped(caches, i)
        BY <3>2 DEF OperatorStops
      <4>2. i \in CacheIds
        BY <1>0, TableDef DEF DataTyped
      <4> QED BY <1>0, <4>1, <4>2, StoppedType, CoresAfter DEF DataTyped, IsCore
    <3> QED BY <1>6, <3>1, <3>2
  <2>2. /\ UNCHANGED <<nodeVars, outerVars>> /\ exposed' = exposed
        /\ coreId' \in [Volumes -> CoreIds \cup {NoId}]
    BY <1>0, <1>6 DEF OperatorStarts, OperatorStops, DataTyped
  <2> QED BY <1>0, <1>1, <1>2, <2>1, <2>2 DEF DataTyped, UsedType, Kept, nodeVars, outerVars
<1> QED BY <1>2, <1>3, <1>4, <1>5, <1>6 DEF EnvironmentStep

\* The Pod of a volume goes.
LEMMA DetachedKeeps ==
    ASSUME TypeOK, NEW v \in Volumes, Detach(v) \/ ForceDetach(v)
    PROVE  /\ DataTyped' /\ CallsTyped' /\ \A w \in Volumes : CallsKept(w)
           /\ \A w \in Others(v) : Kept(w)
           /\ pub' = pub /\ mounted' = mounted /\ caches' = caches
<1>0. DataTyped /\ CallsTyped /\ UsedType
  BY DEF TypeOK, DataTyped, CallsTyped, UsedType
<1>1. Detached(v) /\ UsedType'
  BY <1>0, UseTyped DEF Detach, ForceDetach, UsedType
<1>2. CallsTyped' /\ \A w \in Volumes : CallsKept(w)
  BY <1>0, <1>1 DEF CallsTyped, CallsKept, callVars, Detached
<1>3. link' \in [Volumes -> {"none", "good", "broken"}] /\ \A w \in Others(v) : link'[w] = link[w]
  BY <1>0, <1>1 DEF Detached, DataTyped, Others
<1> QED BY <1>0, <1>1, <1>2, <1>3 DEF DataTyped, UsedType, Kept, Detached, cacheVars, IsCore

\* Kubelet makes the next call.
Asks(v, op) ==
    /\ DataTyped' /\ CallsTyped' /\ (\A w \in Volumes : Kept(w)) /\ \A w \in Others(v) : CallsKept(w)
    /\ kub[v].op = "none" /\ op \in Ops
    /\ op \in {"publish", "unstage"} => kub[v].dev \in {"staged", "uncertain"}
    /\ op = "publish" => kub[v].dev = "staged"
    /\ kub'[v].op = op /\ kub'[v].dev = kub[v].dev
    /\ handler'[v] = handler[v] /\ Len(waiting'[v]) = Len(waiting[v]) + 1
    /\ \A m \in Places(v) : waiting'[v][m] = waiting[v][m]
    /\ waiting'[v][Len(waiting[v]) + 1] = [op |-> op, live |-> TRUE]

\* kubelet's next call joins those that wait for the volume's mutex.
LEMMA CallAsks == ASSUME TypeOK, NEW v \in Volumes, KubeletCall(v) PROVE \E op : Asks(v, op)
<1>0. DataTyped /\ CallsTyped /\ UsedType /\ kub[v] \in Kubelet /\ waiting[v] \in Seq(Calls)
  BY DEF TypeOK, DataTyped, CallsTyped, UsedType
<1>1. PICK op : op = NextOp(v)
  OBVIOUS
<1>2. /\ op \in Ops /\ kub[v].op = "none"
      /\ op = "unstage" => kub[v].dev \in {"staged", "uncertain"}
      /\ op = "publish" => kub[v].dev = "staged"
  BY <1>1 DEF KubeletCall, NextOp, Ops
<1>3. UsedType' /\ UNCHANGED <<cacheVars, nodeVars, outerVars>>
  BY <1>0 DEF KubeletCall, UsedType
<1>4. DataTyped' /\ \A w \in Volumes : Kept(w)
  BY <1>0, <1>3, SameData
<1>5. PICK k : k = [kub[v] EXCEPT !.op = op]
  OBVIOUS
<1>6. k \in Kubelet /\ k.op = op /\ k.dev = kub[v].dev
  BY <1>0, <1>2, <1>5 DEF Kubelet
<1>7. kub' \in [Volumes -> Kubelet] /\ kub'[v] = k /\ \A w \in Others(v) : kub'[w] = kub[w]
  BY <1>0, <1>1, <1>5, <1>6 DEF KubeletCall, CallsTyped, Others
<1>8. PICK t : t = Append(waiting[v], [op |-> op, live |-> TRUE])
  OBVIOUS
<1>9. /\ t \in Seq(Calls) /\ Len(t) = Len(waiting[v]) + 1
      /\ \A m \in 1..Len(waiting[v]) : t[m] = waiting[v][m]
      /\ t[Len(waiting[v]) + 1] = [op |-> op, live |-> TRUE]
  <2>1. [op |-> op, live |-> TRUE] \in Calls
    BY <1>2 DEF Calls
  <2> QED BY <1>0, <1>8, <2>1
<1>10. /\ waiting' \in [Volumes -> Seq(Calls)] /\ waiting'[v] = t
       /\ \A w \in Others(v) : waiting'[w] = waiting[w]
  BY <1>0, <1>1, <1>8, <1>9 DEF KubeletCall, CallsTyped, Others
<1>11. Asks(v, op)
  BY <1>0, <1>2, <1>4, <1>6, <1>7, <1>9, <1>10
     DEF Asks, KubeletCall, CallsTyped, CallsKept, Others, Places
<1> QED BY <1>11

\* Kubelet gives up on its call.
GivesUp(v) ==
    /\ DataTyped' /\ CallsTyped' /\ (\A w \in Volumes : Kept(w)) /\ \A w \in Others(v) : CallsKept(w)
    /\ kub'[v].op = "none"
    /\ \/ kub[v].op \in {"publish", "unpublish"} /\ kub'[v].dev = kub[v].dev
       \/ kub'[v].dev = "uncertain"
    /\ ~handler'[v].live /\ handler'[v].op = handler[v].op /\ handler'[v].pc = handler[v].pc
    /\ At(v, "idle") /\ handler[v] = IdleHandler => handler'[v] = IdleHandler
    /\ Len(waiting'[v]) = Len(waiting[v])
    /\ \A m \in Places(v) : waiting'[v][m].op = waiting[v][m].op /\ ~waiting'[v][m].live

\* When kubelet gives up, its calls go on in the driver; only their answer is lost.
LEMMA TimeoutGivesUp == ASSUME TypeOK, NEW v \in Volumes, KubeletTimeout(v) PROVE GivesUp(v)
<1>0. /\ DataTyped /\ CallsTyped /\ UsedType /\ kub[v] \in Kubelet /\ waiting[v] \in Seq(Calls)
      /\ handler[v] \in Handler
  BY DEF TypeOK, DataTyped, CallsTyped, UsedType
<1>1. UsedType' /\ UNCHANGED <<cacheVars, nodeVars, outerVars>>
  BY <1>0, UseTyped DEF KubeletTimeout, UsedType
<1>2. DataTyped' /\ \A w \in Volumes : Kept(w)
  BY <1>0, <1>1, SameData
<1>3. PICK k \in AfterAnswer(kub[v], kub[v].op, "retry") : kub' = [kub EXCEPT ![v] = k]
  BY DEF KubeletTimeout
<1>4. kub[v].op \in Ops
  BY <1>0 DEF KubeletTimeout, Kubelet
<1>5. /\ k \in Kubelet /\ k.op = "none"
      /\ \/ kub[v].op \in {"publish", "unpublish"} /\ k.dev = kub[v].dev
         \/ k.dev = "uncertain"
  BY <1>0, <1>4, AnswerFacts DEF Ops
<1>6. kub' \in [Volumes -> Kubelet] /\ kub'[v] = k /\ \A w \in Others(v) : kub'[w] = kub[w]
  BY <1>0, <1>3, <1>5 DEF CallsTyped, Others
<1>7. PICK h : h = [handler[v] EXCEPT !.live = FALSE]
  OBVIOUS
<1>8. /\ h \in Handler /\ ~h.live /\ h.op = handler[v].op /\ h.pc = handler[v].pc
      /\ handler[v] = IdleHandler => h = IdleHandler
  <2>1. h \in Handler /\ ~h.live /\ h.op = handler[v].op /\ h.pc = handler[v].pc
    BY <1>0, <1>7 DEF Handler
  <2>2. ASSUME handler[v] = IdleHandler PROVE h = IdleHandler
    <3>1. h.inst = handler[v].inst /\ h.cache = handler[v].cache /\ h.core = handler[v].core
      BY <1>0, <1>7 DEF Handler
    <3>2. h = [op |-> h.op, live |-> h.live, pc |-> h.pc, inst |-> h.inst, cache |-> h.cache,
               core |-> h.core]
          /\ h.live \in BOOLEAN
      BY <2>1 DEF Handler
    <3> QED BY <2>1, <2>2, <3>1, <3>2 DEF IdleHandler
  <2> QED BY <2>1, <2>2
<1>9. handler' \in [Volumes -> Handler] /\ handler'[v] = h /\ \A w \in Others(v) : handler'[w] = handler[w]
  BY <1>0, <1>7, <1>8 DEF KubeletTimeout, CallsTyped, Others
<1>10. PICK t : t = [n \in DOMAIN waiting[v] |-> [waiting[v][n] EXCEPT !.live = FALSE]]
  OBVIOUS
<1>11. /\ t \in Seq(Calls) /\ Len(t) = Len(waiting[v])
       /\ \A m \in 1..Len(waiting[v]) : t[m].op = waiting[v][m].op /\ ~t[m].live
  <2>1. DOMAIN waiting[v] = 1..Len(waiting[v]) /\ Len(waiting[v]) \in Nat
        /\ \A n \in 1..Len(waiting[v]) : waiting[v][n] \in Calls
    BY <1>0
  <2>2. \A c \in Calls : LET d == [c EXCEPT !.live = FALSE]
                         IN  d \in Calls /\ d.op = c.op /\ ~d.live
    BY DEF Calls
  <2>3. t \in [1..Len(waiting[v]) -> Calls]
    BY <1>10, <2>1, <2>2
  <2>4. t \in Seq(Calls) /\ Len(t) = Len(waiting[v])
    BY <2>1, <2>3
  <2> QED BY <1>10, <2>1, <2>2, <2>4
<1>12. /\ waiting' \in [Volumes -> Seq(Calls)] /\ waiting'[v] = t
       /\ \A w \in Others(v) : waiting'[w] = waiting[w]
  BY <1>0, <1>10, <1>11 DEF KubeletTimeout, CallsTyped, Others
<1> QED BY <1>2, <1>5, <1>6, <1>8, <1>9, <1>11, <1>12 DEF GivesUp, CallsTyped, CallsKept, Others, Places

\* All calls are lost.
Lost(w) == handler'[w] = IdleHandler /\ Len(waiting'[w]) = 0 /\ kub'[w].op = "none"

\* The plugin restarts.
LEMMA CrashLoses ==
    ASSUME TypeOK, PluginCrash
    PROVE  /\ DataTyped' /\ CallsTyped'
           /\ \A w \in Volumes :
                 /\ Lost(w) /\ Kept(w)
                 /\ \/ kub'[w].dev = "uncertain"
                    \/ kub[w].op \notin {"stage", "unstage"} /\ kub'[w].dev = kub[w].dev
<1>0. DataTyped /\ CallsTyped /\ UsedType
  BY DEF TypeOK, DataTyped, CallsTyped, UsedType
<1>1. UsedType' /\ UNCHANGED <<cacheVars, nodeVars, outerVars>>
  BY <1>0, UseTyped DEF PluginCrash, UsedType
<1>2. DataTyped' /\ \A w \in Volumes : Kept(w)
  BY <1>0, <1>1, SameData
<1>3. ASSUME NEW w \in Volumes
      PROVE  /\ kub'[w] \in Kubelet /\ kub'[w].op = "none"
             /\ \/ kub'[w].dev = "uncertain"
                \/ kub[w].op \notin {"stage", "unstage"} /\ kub'[w].dev = kub[w].dev
  <2>0. kub[w] \in Kubelet
    BY <1>0 DEF CallsTyped
  <2>1. CASE kub[w].op \in {"stage", "unstage"}
    <3>1. kub'[w] = [kub[w] EXCEPT !.op = "none", !.dev = "uncertain"]
      BY <2>1 DEF PluginCrash
    <3> QED BY <2>0, <3>1 DEF Kubelet
  <2>2. CASE kub[w].op = "none"
    <3>1. kub'[w] = kub[w]
      BY <2>2 DEF PluginCrash
    <3> QED BY <2>0, <2>2, <3>1
  <2>3. CASE kub[w].op \notin {"stage", "unstage", "none"}
    <3>1. kub'[w] = [kub[w] EXCEPT !.op = "none", !.pub = "uncertain"]
      BY <2>3 DEF PluginCrash
    <3> QED BY <2>0, <2>3, <3>1 DEF Kubelet
  <2> QED BY <2>1, <2>2, <2>3
<1>4. kub' \in [Volumes -> Kubelet]
  <2>1. kub' = [w \in Volumes |-> kub'[w]]
    BY DEF PluginCrash
  <2> QED BY <1>3, <2>1
<1>5. /\ handler' \in [Volumes -> Handler] /\ waiting' \in [Volumes -> Seq(Calls)]
      /\ \A w \in Volumes : handler'[w] = IdleHandler /\ Len(waiting'[w]) = 0
  <2>1. handler' = [v \in Volumes |-> IdleHandler] /\ waiting' = [v \in Volumes |-> <<>>]
    BY DEF PluginCrash
  <2>2. handler' \in [Volumes -> Handler] /\ \A w \in Volumes : handler'[w] = IdleHandler
    BY <2>1, IdleFacts
  <2>3. <<>> \in Seq(Calls) /\ Len(<<>>) = 0
    OBVIOUS
  <2>4. waiting' \in [Volumes -> Seq(Calls)] /\ \A w \in Volumes : waiting'[w] = <<>>
    BY <2>1, <2>3
  <2> QED BY <2>2, <2>3, <2>4
<1> QED BY <1>2, <1>3, <1>4, <1>5 DEF CallsTyped, Lost

\* The node reboots.
LEMMA RebootLoses ==
    ASSUME TypeOK, Reboot
    PROVE  /\ DataTyped' /\ CallsTyped'
           /\ \A w \in Volumes :
                 /\ Lost(w) /\ kub'[w].dev \in {"none", "uncertain"}
                 /\ ~IsCore(w)' /\ mounted'[w] = {} /\ pub'[w] = {}
<1>0. DataTyped /\ CallsTyped /\ UsedType
  BY DEF TypeOK, DataTyped, CallsTyped, UsedType
<1>1. /\ UsedType' /\ UNCHANGED <<fs, outerVars>> /\ caches' = NoCaches
      /\ coreId' = [v \in Volumes |-> NoId] /\ exposed' = {}
      /\ mounted' = [v \in Volumes |-> {}]
  BY <1>0, UseTyped DEF Reboot, UsedType
<1>2. /\ link' \in [Volumes -> {"none", "good", "broken"}]
      /\ pub' \in [Volumes -> SUBSET (Volumes \cup {Directory})]
      /\ mounted' \in [Volumes -> SUBSET Volumes]
      /\ \A w \in Volumes : pub'[w] = {} /\ mounted'[w] = {}
  BY DEF Reboot
<1>3. DataTyped'
  BY <1>0, <1>1, <1>2, NoCachesType DEF DataTyped, UsedType, outerVars
<1>4. \A w \in Volumes : ~IsCore(w)'
  BY <1>0, <1>1, CoresAfter DEF IsCore, DataTyped
<1>5. kub' \in [Volumes -> Kubelet]
      /\ \A w \in Volumes : kub'[w].op = "none" /\ kub'[w].dev \in {"none", "uncertain"}
  BY DEF Reboot, Kubelet
<1>6. /\ handler' \in [Volumes -> Handler] /\ waiting' \in [Volumes -> Seq(Calls)]
      /\ \A w \in Volumes : handler'[w] = IdleHandler /\ Len(waiting'[w]) = 0
  <2>1. handler' = [v \in Volumes |-> IdleHandler] /\ waiting' = [v \in Volumes |-> <<>>]
    BY DEF Reboot
  <2>2. handler' \in [Volumes -> Handler] /\ \A w \in Volumes : handler'[w] = IdleHandler
    BY <2>1, IdleFacts
  <2>3. <<>> \in Seq(Calls) /\ Len(<<>>) = 0
    OBVIOUS
  <2>4. waiting' \in [Volumes -> Seq(Calls)] /\ \A w \in Volumes : waiting'[w] = <<>>
    BY <2>1, <2>3
  <2> QED BY <2>2, <2>3, <2>4
<1> QED BY <1>1, <1>2, <1>3, <1>4, <1>5, <1>6 DEF CallsTyped, Lost

-----------------------------------------------------------------------------
(***************************************************************************)
(* The calls are kept apart.                                               *)
(***************************************************************************)

\* The places of the calls that are left when one is taken.
LEMMA TakenPlaces ==
    ASSUME CallsTyped, NEW v \in Volumes, NEW n, Takes(v, n), NEW m \in 1..Len(waiting'[v])
    PROVE  \E l \in Places(v) : /\ waiting'[v][m] = waiting[v][l] /\ l # n
                                /\ l = IF m < n THEN m ELSE m + 1
<1>1. Len(waiting[v]) \in Nat /\ n \in 1..Len(waiting[v]) /\ Len(waiting'[v]) = Len(waiting[v]) - 1
  BY DEF CallsTyped, Takes, Places
<1>2. PICK l : l = IF m < n THEN m ELSE m + 1
  OBVIOUS
<1>3. l \in Places(v) /\ l # n
  BY <1>1, <1>2 DEF Places
<1>4. waiting'[v][m] = waiting[v][l]
  BY <1>2 DEF Takes
<1> QED BY <1>2, <1>3, <1>4

\* A step of the node server leaves the calls for other volumes alone.
LEMMA HandledOthers ==
    ASSUME CallInv, NEW v \in Volumes, Handled(v), NEW w \in Volumes, w # v
    PROVE  CallsKept(w) /\ Kept(w)
<1>1. CallsTyped
  BY CallInvFacts
<1>2. Kept(w) /\ w \in Others(v)
  BY DEF Handled, Others
<1>3. ASSUME NEW n, Takes(v, n) PROVE CallsKept(w)
  BY <1>2, <1>3 DEF Takes, CallsKept
<1>4. ASSUME NEW h, MovesOn(v, h) PROVE CallsKept(w)
  BY <1>1, <1>2, <1>4 DEF MovesOn, Moves, CallsTyped, CallsKept, Others
<1>5. ASSUME NEW answer, EndsWith(v, answer) PROVE CallsKept(w)
  BY <1>2, <1>5 DEF EndsWith, Ends, CallsKept
<1> QED BY <1>2, <1>3, <1>4, <1>5 DEF Handled

\* A step of the node server.
LEMMA HandledCalls == ASSUME CallInv, NEW v \in Volumes, Handled(v) PROVE CallInv'
<1>0. DataTyped /\ CallsTyped /\ InItsCall(v) /\ OneLiveCall(v) /\ handler[v] \in Handler
  BY CallInvFacts DEF CallInv
<1>1. CallsTyped' /\ (\A w \in Others(v) : CallsKept(w)) /\ InItsCall(v)' /\ OneLiveCall(v)'
  <2>1. ASSUME NEW n, Takes(v, n)
        PROVE  CallsTyped' /\ (\A w \in Others(v) : CallsKept(w)) /\ InItsCall(v)' /\ OneLiveCall(v)'
    <3>1. CallsTyped' /\ \A w \in Others(v) : CallsKept(w)
      BY <2>1 DEF Takes, CallsKept
    <3>2. n \in Places(v) /\ waiting[v][n] \in Calls /\ Len(waiting[v]) \in Nat
      BY <1>0, <2>1 DEF Takes, CallsTyped, Places
    <3>3. InItsCall(v)'
      BY <2>1, <3>2 DEF Takes, InItsCall, At, StageSteps, UnstageSteps, PublishSteps, Calls
    <3>4. \A m \in 1..Len(waiting'[v]) : \E l \in Places(v) :
             waiting'[v][m] = waiting[v][l] /\ l # n /\ l = IF m < n THEN m ELSE m + 1
      BY <1>0, <2>1, TakenPlaces
    <3>5. OneLiveCall(v)'
      <4>1. handler'[v].live => /\ kub'[v].op = handler'[v].op
                                /\ \A m \in 1..Len(waiting'[v]) : ~waiting'[v][m].live
        BY <1>0, <2>1, <3>2, <3>4 DEF Takes, OneLiveCall
      <4>2. ASSUME NEW m \in 1..Len(waiting'[v]), waiting'[v][m].live
            PROVE  /\ kub'[v].op = waiting'[v][m].op
                   /\ \A l \in 1..Len(waiting'[v]) : waiting'[v][l].live => l = m
        <5>1. PICK p \in Places(v) : /\ waiting'[v][m] = waiting[v][p]
                                     /\ p = IF m < n THEN m ELSE m + 1
          BY <3>4
        <5>2. kub'[v].op = waiting'[v][m].op
          BY <1>0, <2>1, <4>2, <5>1 DEF Takes, OneLiveCall
        <5>3. ASSUME NEW l \in 1..Len(waiting'[v]), waiting'[v][l].live PROVE l = m
          <6>1. PICK q \in Places(v) : /\ waiting'[v][l] = waiting[v][q]
                                       /\ q = IF l < n THEN l ELSE l + 1
            BY <3>4
          <6>2. q = p
            BY <1>0, <4>2, <5>1, <5>3, <6>1 DEF OneLiveCall
          <6> QED BY <3>2, <5>1, <6>1, <6>2 DEF Places
        <5> QED BY <5>2, <5>3
      <4> QED BY <4>1, <4>2 DEF OneLiveCall, Places
    <3> QED BY <3>1, <3>3, <3>5
  <2>2. ASSUME NEW h, MovesOn(v, h)
        PROVE  CallsTyped' /\ (\A w \in Others(v) : CallsKept(w)) /\ InItsCall(v)' /\ OneLiveCall(v)'
    <3>1. handler'[v] = h /\ CallsTyped' /\ \A w \in Others(v) : CallsKept(w)
      BY <1>0, <2>2 DEF MovesOn, Moves, CallsTyped, CallsKept, Others
    <3>2. InItsCall(v)'
      BY <1>0, <2>2, <3>1 DEF MovesOn, Moves, InItsCall, At
    <3>3. OneLiveCall(v)'
      BY <1>0, <2>2, <3>1 DEF MovesOn, Moves, OneLiveCall, Places
    <3> QED BY <3>1, <3>2, <3>3
  <2>3. ASSUME NEW answer, EndsWith(v, answer)
        PROVE  CallsTyped' /\ (\A w \in Others(v) : CallsKept(w)) /\ InItsCall(v)' /\ OneLiveCall(v)'
    <3>1. CallsTyped' /\ \A w \in Others(v) : CallsKept(w)
      BY <1>0, <2>3 DEF EndsWith, Ends, CallsKept
    <3>2. InItsCall(v)'
      BY <2>3, IdleFacts DEF EndsWith, Ends, InItsCall, At, StageSteps, UnstageSteps, PublishSteps
    <3>3. waiting' = waiting /\ ~handler'[v].live /\ handler[v].live \in BOOLEAN
      BY <1>0, <2>3, IdleFacts DEF EndsWith, Ends, Handler
    <3>4. handler[v].live => \A m \in Places(v) : ~waiting[v][m].live
      BY <1>0 DEF OneLiveCall
    <3>5. ~handler[v].live => kub'[v] = kub[v]
      BY <2>3 DEF EndsWith, Ends
    <3>6. OneLiveCall(v)'
      BY <1>0, <3>3, <3>4, <3>5 DEF OneLiveCall, Places
    <3> QED BY <3>1, <3>2, <3>6
  <2> QED BY <2>1, <2>2, <2>3 DEF Handled
<1>2. ASSUME NEW w \in Volumes PROVE InItsCall(w)' /\ OneLiveCall(w)'
  <2>1. CASE w = v
    BY <1>1, <2>1
  <2>2. CASE w # v
    <3>1. CallsKept(w) /\ Kept(w)
      BY <1>1, <2>2 DEF Handled, Others
    <3> QED BY <3>1, KeptKeeps DEF CallInv
  <2> QED BY <2>1, <2>2
<1>3. TypeOK'
  BY <1>1 DEF Handled, TypeOK, DataTyped, CallsTyped
<1> QED BY <1>2, <1>3 DEF CallInv

\* Without a call that kubelet waits for, no call is live.
LEMMA NoneIsLive ==
    ASSUME CallsTyped, NEW v \in Volumes, InItsCall(v), OneLiveCall(v), kub[v].op = "none"
    PROVE  ~handler[v].live /\ \A m \in Places(v) : ~waiting[v][m].live
<1>1. ~handler[v].live
  BY IdleFacts DEF InItsCall, OneLiveCall, Ops
<1>2. \A m \in Places(v) : waiting[v][m].op # "none"
  <2>1. waiting[v] \in Seq(Calls)
    BY DEF CallsTyped
  <2>2. \A m \in Places(v) : waiting[v][m] \in Calls
    BY <2>1 DEF Places
  <2> QED BY <2>2 DEF Calls, Ops
<1> QED BY <1>1, <1>2 DEF OneLiveCall

\* A call by kubelet, which waits for no other.
LEMMA AsksCalls == ASSUME CallInv, NEW v \in Volumes, NEW op, Asks(v, op) PROVE CallInv'
<1>0. DataTyped /\ CallsTyped /\ InItsCall(v) /\ OneLiveCall(v)
  BY CallInvFacts DEF CallInv
<1>1. Len(waiting[v]) \in Nat
  BY <1>0 DEF CallsTyped
<1>2. ~handler[v].live /\ \A m \in Places(v) : ~waiting[v][m].live
  BY <1>0, NoneIsLive DEF Asks
<1>3. InItsCall(v)'
  BY <1>0 DEF Asks, InItsCall, At
<1>4. OneLiveCall(v)'
  <2>1. \A m \in 1..Len(waiting'[v]) : m \in Places(v) \/ m = Len(waiting[v]) + 1
    BY <1>1 DEF Asks, Places
  <2>2. \A m \in 1..Len(waiting'[v]) : waiting'[v][m].live => m = Len(waiting[v]) + 1
    BY <1>2, <2>1 DEF Asks
  <2> QED BY <1>2, <2>2 DEF Asks, OneLiveCall, Places
<1>5. ASSUME NEW w \in Volumes PROVE InItsCall(w)' /\ OneLiveCall(w)'
  <2>1. CASE w # v
    <3>1. CallsKept(w) /\ Kept(w)
      BY <2>1 DEF Asks, Others
    <3> QED BY <3>1, KeptKeeps DEF CallInv
  <2> QED BY <1>3, <1>4, <2>1
<1>6. TypeOK'
  BY DEF Asks, TypeOK, DataTyped, CallsTyped
<1> QED BY <1>5, <1>6 DEF CallInv

\* Kubelet waits no longer.
LEMMA GivesUpCalls == ASSUME CallInv, NEW v \in Volumes, GivesUp(v) PROVE CallInv'
<1>0. DataTyped /\ CallsTyped /\ InItsCall(v) /\ OneLiveCall(v)
  BY CallInvFacts DEF CallInv
<1>1. InItsCall(v)'
  BY <1>0 DEF GivesUp, InItsCall, At
<1>2. OneLiveCall(v)'
  BY <1>0 DEF GivesUp, OneLiveCall, Places
<1>3. ASSUME NEW w \in Volumes PROVE InItsCall(w)' /\ OneLiveCall(w)'
  <2>1. CASE w # v
    <3>1. CallsKept(w) /\ Kept(w)
      BY <2>1 DEF GivesUp, Others
    <3> QED BY <3>1, KeptKeeps DEF CallInv
  <2> QED BY <1>1, <1>2, <2>1
<1>4. TypeOK'
  BY DEF GivesUp, TypeOK, DataTyped, CallsTyped
<1> QED BY <1>3, <1>4 DEF CallInv

\* Lost calls are no longer in the way.
LEMMA LostCalls ==
    ASSUME DataTyped', CallsTyped', \A w \in Volumes : Lost(w)
    PROVE  CallInv'
<1>1. ASSUME NEW w \in Volumes PROVE InItsCall(w)' /\ OneLiveCall(w)'
  <2>1. Lost(w)
    OBVIOUS
  <2>2. \A m : m \notin 1..Len(waiting'[w])
    BY <2>1 DEF Lost
  <2> QED BY <2>1, <2>2, IdleFacts DEF Lost, InItsCall, OneLiveCall, Places, At, StageSteps, UnstageSteps, PublishSteps
<1>2. TypeOK'
  BY DEF TypeOK, DataTyped, CallsTyped
<1> QED BY <1>1, <1>2 DEF CallInv

\* What touches no call.
LEMMA OutsideCalls ==
    ASSUME CallInv, DataTyped', CallsTyped', \A w \in Volumes : CallsKept(w)
    PROVE  CallInv'
<1>1. ASSUME NEW w \in Volumes PROVE InItsCall(w)' /\ OneLiveCall(w)'
  BY DEF CallInv, CallsKept, InItsCall, OneLiveCall, Places, At
<1>2. TypeOK'
  BY DEF TypeOK, DataTyped, CallsTyped
<1> QED BY <1>1, <1>2 DEF CallInv

\* No call is made at first.
LEMMA CallInit == Init => CallInv
<1> SUFFICES ASSUME Init PROVE CallInv
  OBVIOUS
<1>1. /\ handler = [v \in Volumes |-> IdleHandler] /\ waiting = [v \in Volumes |-> <<>>]
      /\ kub = [v \in Volumes |-> [dev |-> "none", pub |-> "none", op |-> "none"]]
  BY DEF Init
<1>2. CallsTyped
  BY <1>1, IdleFacts DEF CallsTyped, Kubelet
<1>3. DataTyped
  BY NoCachesType DEF Init, DataTyped, Labels
<1>4. ASSUME NEW v \in Volumes PROVE InItsCall(v) /\ OneLiveCall(v)
  BY <1>1, IdleFacts DEF InItsCall, OneLiveCall, Places, At, StageSteps, UnstageSteps, PublishSteps
<1> QED BY <1>2, <1>3, <1>4 DEF CallInv, TypeOK, DataTyped, CallsTyped

\* Next, sorted by what it does.
LEMMA NextIs ==
    ASSUME CallInv, [Next]_vars
    PROVE  \/ \E v \in Volumes : Handled(v)
           \/ \E v \in Volumes : (\E op : Asks(v, op)) \/ GivesUp(v) \/ Detach(v) \/ ForceDetach(v)
           \/ PluginCrash \/ Reboot \/ EnvironmentStep \/ UNCHANGED vars
<1>1. ASSUME NEW v \in Volumes, NodeServerStep(v) PROVE Handled(v)
  BY <1>1, StepHandled
<1>2. ASSUME NEW v \in Volumes, KubernetesStep(v)
      PROVE  \/ (\E op : Asks(v, op)) \/ GivesUp(v) \/ Detach(v) \/ ForceDetach(v)
             \/ EnvironmentStep
  BY <1>2, CallAsks, TimeoutGivesUp DEF CallInv, KubernetesStep, EnvironmentStep
<1> QED BY <1>1, <1>2 DEF Next, EnvironmentStep

\* Every step keeps the calls apart.
LEMMA CallNext == ASSUME CallInv, [Next]_vars PROVE CallInv'
<1>0. TypeOK
  BY DEF CallInv
<1>1. CASE UNCHANGED vars
  <2>1. DataTyped' /\ CallsTyped' /\ \A w \in Volumes : CallsKept(w)
    BY <1>0, <1>1 DEF vars, TypeOK, DataTyped, CallsTyped, CallsKept
  <2> QED BY <2>1, OutsideCalls
<1>2. CASE EnvironmentStep
  BY <1>0, <1>2, EnvironmentKeeps, OutsideCalls
<1>3. CASE \E v \in Volumes : Detach(v) \/ ForceDetach(v)
  BY <1>0, <1>3, DetachedKeeps, OutsideCalls
<1>4. CASE PluginCrash
  <2>1. DataTyped' /\ CallsTyped' /\ \A w \in Volumes : Lost(w)
    BY <1>0, <1>4, CrashLoses
  <2> QED BY <2>1, LostCalls
<1>5. CASE Reboot
  <2>1. DataTyped' /\ CallsTyped' /\ \A w \in Volumes : Lost(w)
    BY <1>0, <1>5, RebootLoses
  <2> QED BY <2>1, LostCalls
<1> QED BY <1>1, <1>2, <1>3, <1>4, <1>5, NextIs, HandledCalls, AsksCalls, GivesUpCalls

\* The calls stay apart.
LEMMA CallAlways == Spec => []CallInv
  BY CallInit, CallNext, PTL DEF Spec

\* Every variable keeps its type, through every call, fault and reboot.
THEOREM TypeCorrect == Spec => []TypeOK
<1>1. CallInv => TypeOK
  BY DEF CallInv
<1> QED BY <1>1, CallAlways, PTL

-----------------------------------------------------------------------------
(***************************************************************************)
(* A staged volume stays mounted, as long as the mutex is taken in order.  *)
(***************************************************************************)

\* A step of the node server, for its volume.
LEMMA HandledOrder ==
    ASSUME OrderInv, "overtake" \notin FaultKinds, NEW v \in Volumes, Handled(v)
    PROVE  Ordered(v)'
<1>0. /\ CallsTyped /\ InItsCall(v) /\ OneLiveCall(v) /\ handler[v] \in Handler
      /\ LiveIsLast(v) /\ StaysStaged(v) /\ PublishesMounted(v) /\ Directory \notin pub[v]
  BY CallInvFacts DEF OrderInv, Ordered, CallInv
<1>1. Len(waiting[v]) \in Nat /\ handler[v].live \in BOOLEAN
  BY <1>0 DEF CallsTyped, Handler
<1>2. ASSUME NEW n, Takes(v, n), Kept(v) PROVE Ordered(v)'
  <2>1. /\ n = 1 /\ 1 \in Places(v) /\ Len(waiting'[v]) = Len(waiting[v]) - 1 /\ kub'[v] = kub[v]
        /\ handler'[v].op = waiting[v][1].op /\ handler'[v].live = waiting[v][1].live
        /\ \A m \in 1..Len(waiting'[v]) : waiting'[v][m] = waiting[v][m + 1]
    <3>1. n = 1
      BY <1>2 DEF Takes
    <3> QED BY <1>2, <3>1 DEF Takes
  <2>2. \A m \in 1..Len(waiting'[v]) : m + 1 \in Places(v) /\ 1 < m + 1
    BY <1>1, <2>1 DEF Places
  <2>3. (Holds(v)' <=> Holds(v)) /\ pub'[v] = pub[v]
    BY <1>2 DEF Kept, Holds
  <2>4. LiveIsLast(v)'
    <3>1. ASSUME handler'[v].live PROVE Len(waiting'[v]) = 0
      <4>1. 1 = Len(waiting[v])
        BY <1>0, <2>1, <3>1 DEF LiveIsLast
      <4> QED BY <2>1, <4>1
    <3>2. ASSUME NEW m \in 1..Len(waiting'[v]), waiting'[v][m].live PROVE m = Len(waiting'[v])
      <4>1. m + 1 = Len(waiting[v])
        BY <1>0, <2>1, <2>2, <3>2 DEF LiveIsLast
      <4> QED BY <1>1, <2>1, <4>1
    <3> QED BY <3>1, <3>2 DEF LiveIsLast, Places
  <2>5. StaysStaged(v)'
    BY <1>0, <2>1, <2>2, <2>3 DEF StaysStaged, Places
  <2>6. PublishesMounted(v)'
    <3>1. handler'[v].op = "publish" => Holds(v)
      BY <1>0, <2>1 DEF PublishesMounted
    <3>2. ASSUME NEW m \in 1..Len(waiting'[v]), waiting'[v][m].op = "publish"
          PROVE  /\ Holds(v) /\ handler'[v].op # "unstage"
                 /\ \A l \in 1..Len(waiting'[v]) : l < m => waiting'[v][l].op # "unstage"
      <4>1. /\ Holds(v)
            /\ \A l \in Places(v) : l < m + 1 => waiting[v][l].op # "unstage"
        BY <1>0, <2>1, <2>2, <3>2 DEF PublishesMounted
      <4>2. handler'[v].op # "unstage"
        BY <2>1, <2>2, <4>1
      <4>3. ASSUME NEW l \in 1..Len(waiting'[v]), l < m PROVE waiting'[v][l].op # "unstage"
        <5>1. l + 1 \in Places(v) /\ l + 1 < m + 1
          BY <1>1, <2>1, <2>2, <4>3
        <5> QED BY <2>1, <4>1, <5>1
      <4> QED BY <4>1, <4>2, <4>3
    <3> QED BY <2>3, <3>1, <3>2 DEF PublishesMounted, Places
  <2> QED BY <1>0, <2>3, <2>4, <2>5, <2>6 DEF Ordered
<1>3. ASSUME NEW h, MovesOn(v, h) PROVE Ordered(v)'
  <2>1. /\ handler'[v].op = handler[v].op /\ handler'[v].live = handler[v].live
        /\ waiting' = waiting /\ kub' = kub /\ pub'[v] = pub[v]
        /\ Holds(v) => Holds(v)' \/ handler[v].op = "unstage"
    BY <1>0, <1>3 DEF MovesOn, Moves, CallsTyped, Holds
  <2> QED BY <1>0, <2>1 DEF Ordered, LiveIsLast, StaysStaged, PublishesMounted, Places
<1>4. ASSUME NEW answer, EndsWith(v, answer) PROVE Ordered(v)'
  <2>1. /\ handler'[v].op = "none" /\ ~handler'[v].live /\ waiting' = waiting
        /\ handler[v].op \in Ops
        /\ Holds(v) => Holds(v)'
    BY <1>0, <1>4, IdleFacts DEF EndsWith, Ends, Holds, InItsCall
  <2>2. LiveIsLast(v)'
    BY <1>0, <2>1 DEF LiveIsLast, Places
  <2>3. StaysStaged(v)'
    <3>1. CASE ~handler[v].live
      <4>1. kub'[v] = kub[v]
        BY <1>4, <3>1 DEF EndsWith, Ends
      <4> QED BY <1>0, <2>1, <4>1 DEF StaysStaged, Places
    <3>2. CASE handler[v].live
      <4>1. \A m : m \notin Places(v)
        BY <1>0, <3>2 DEF LiveIsLast, Places
      <4>2. ASSUME kub'[v].dev = "staged" PROVE Holds(v)'
        <5>1. CASE handler[v].op = "stage"
          BY <1>4, <3>2, <4>2, <5>1 DEF EndsWith, Ends
        <5>2. CASE handler[v].op = "unstage"
          BY <1>4, <3>2, <4>2, <5>2 DEF EndsWith, Ends
        <5>3. CASE handler[v].op \in {"publish", "unpublish"}
          <6>1. kub[v].dev = "staged" /\ kub[v].op # "unstage"
            BY <1>0, <1>4, <3>2, <4>2, <5>3 DEF EndsWith, Ends, OneLiveCall
          <6> QED BY <1>0, <2>1, <6>1 DEF StaysStaged
        <5> QED BY <2>1, <5>1, <5>2, <5>3 DEF Ops
      <4> QED BY <2>1, <4>1, <4>2 DEF StaysStaged, Places
    <3> QED BY <1>1, <3>1, <3>2
  <2>4. PublishesMounted(v)'
    BY <1>0, <2>1 DEF PublishesMounted, Places
  <2>5. Directory \notin pub'[v]
    BY <1>0, <1>4 DEF EndsWith, PublishesMounted
  <2> QED BY <2>2, <2>3, <2>4, <2>5 DEF Ordered
<1> QED BY <1>2, <1>3, <1>4 DEF Handled

\* A call by kubelet comes after all others, and publishing after staging.
LEMMA AsksOrder ==
    ASSUME OrderInv, NEW v \in Volumes, NEW op, Asks(v, op)
    PROVE  Ordered(v)'
<1>0. /\ CallsTyped /\ InItsCall(v) /\ OneLiveCall(v)
      /\ LiveIsLast(v) /\ StaysStaged(v) /\ PublishesMounted(v) /\ Directory \notin pub[v]
  BY CallInvFacts DEF OrderInv, Ordered, CallInv
<1>1. Len(waiting[v]) \in Nat
  BY <1>0 DEF CallsTyped
<1>2. ~handler[v].live /\ \A m \in Places(v) : ~waiting[v][m].live
  BY <1>0, NoneIsLive DEF Asks
<1>3. (Holds(v)' <=> Holds(v)) /\ pub'[v] = pub[v]
  BY DEF Asks, Kept, Holds
<1>4. /\ \A m \in 1..Len(waiting'[v]) : m \in Places(v) \/ m = Len(waiting[v]) + 1
      /\ Len(waiting'[v]) = Len(waiting[v]) + 1 /\ handler'[v] = handler[v]
      /\ \A m \in Places(v) : waiting'[v][m] = waiting[v][m]
      /\ waiting'[v][Len(waiting[v]) + 1].op = op
  BY <1>1 DEF Asks, Places
<1>5. LiveIsLast(v)'
  BY <1>2, <1>4 DEF LiveIsLast, Places
<1>6. StaysStaged(v)'
  BY <1>0, <1>3, <1>4 DEF Asks, StaysStaged, Places
<1>7. PublishesMounted(v)'
  <2>1. handler'[v].op = "publish" => Holds(v)
    BY <1>0, <1>4 DEF PublishesMounted
  <2>2. ASSUME NEW m \in 1..Len(waiting'[v]), waiting'[v][m].op = "publish"
        PROVE  /\ Holds(v) /\ handler'[v].op # "unstage"
               /\ \A l \in 1..Len(waiting'[v]) : l < m => waiting'[v][l].op # "unstage"
    <3>1. CASE m \in Places(v)
      <4>1. \A l \in 1..Len(waiting'[v]) : l < m => l \in Places(v)
        BY <1>1, <1>4, <3>1 DEF Places
      <4> QED BY <1>0, <1>4, <2>2, <3>1, <4>1 DEF PublishesMounted
    <3>2. CASE m = Len(waiting[v]) + 1
      <4>1. kub[v].dev = "staged" /\ kub[v].op # "unstage"
        BY <1>4, <2>2, <3>2 DEF Asks
      <4>2. \A l \in 1..Len(waiting'[v]) : l < m => l \in Places(v)
        BY <1>1, <1>4, <3>2 DEF Places
      <4> QED BY <1>0, <1>4, <4>1, <4>2 DEF StaysStaged
    <3> QED BY <1>4, <3>1, <3>2
  <2> QED BY <1>3, <2>1, <2>2 DEF PublishesMounted, Places
<1> QED BY <1>0, <1>3, <1>5, <1>6, <1>7 DEF Ordered

\* A call that kubelet gave up on keeps its place, and kubelet's doubts.
LEMMA GivesUpOrder == ASSUME OrderInv, NEW v \in Volumes, GivesUp(v) PROVE Ordered(v)'
<1>0. LiveIsLast(v) /\ StaysStaged(v) /\ PublishesMounted(v) /\ Directory \notin pub[v]
  BY DEF OrderInv, Ordered
<1>1. (Holds(v)' <=> Holds(v)) /\ pub'[v] = pub[v]
  BY DEF GivesUp, Kept, Holds
<1>2. LiveIsLast(v)'
  BY DEF GivesUp, LiveIsLast, Places
<1>3. StaysStaged(v)'
  BY <1>0, <1>1 DEF GivesUp, StaysStaged, Places
<1>4. PublishesMounted(v)'
  BY <1>0, <1>1 DEF GivesUp, PublishesMounted, Places
<1> QED BY <1>0, <1>1, <1>2, <1>3, <1>4 DEF Ordered

\* A volume whose calls are all lost.
LEMMA LostOrder ==
    ASSUME NEW v \in Volumes, Lost(v), Directory \notin pub'[v], kub'[v].dev = "staged" => Holds(v)'
    PROVE  Ordered(v)'
<1>1. \A m : m \notin 1..Len(waiting'[v])
  BY DEF Lost
<1> QED BY <1>1, IdleFacts DEF Lost, Ordered, LiveIsLast, StaysStaged, PublishesMounted, Places

\* Every step keeps the order.
LEMMA OrderNext ==
    ASSUME OrderInv, "overtake" \notin FaultKinds, [Next]_vars PROVE OrderInv'
<1>0. CallInv /\ TypeOK /\ \A w \in Volumes : Ordered(w)
  BY DEF OrderInv, CallInv
<1>1. ASSUME NEW w \in Volumes, CallsKept(w), Kept(w) PROVE Ordered(w)'
  BY <1>0, <1>1, KeptKeeps DEF Ordered
<1>2. SUFFICES ASSUME NEW w \in Volumes PROVE Ordered(w)'
  BY <1>0, CallNext DEF OrderInv
<1>3. CASE UNCHANGED vars
  BY <1>0, <1>1, <1>3 DEF vars, CallsKept, Kept, IsCore
<1>4. CASE EnvironmentStep
  BY <1>0, <1>1, <1>4, EnvironmentKeeps
<1>5. ASSUME NEW v \in Volumes, Detach(v) \/ ForceDetach(v) PROVE Ordered(w)'
  <2>1. CallsKept(w) /\ pub' = pub /\ mounted' = mounted
    BY <1>0, <1>5, DetachedKeeps
  <2> QED BY <1>0, <2>1 DEF CallsKept, Ordered, LiveIsLast, StaysStaged, PublishesMounted, Places, Holds
<1>6. CASE PluginCrash
  <2>1. /\ Lost(w) /\ Kept(w)
        /\ kub'[w].dev = "staged" => kub[w].dev = "staged" /\ kub[w].op # "unstage"
    BY <1>0, <1>6, CrashLoses
  <2>2. kub'[w].dev = "staged" => Holds(w)'
    BY <1>0, <2>1 DEF Ordered, StaysStaged, Holds, Kept
  <2> QED BY <1>0, <2>1, <2>2, LostOrder DEF Kept, Ordered
<1>7. CASE Reboot
  BY <1>0, <1>7, RebootLoses, LostOrder
<1>8. ASSUME NEW v \in Volumes, Handled(v) PROVE Ordered(w)'
  <2>1. CASE w = v
    BY <1>8, <2>1, HandledOrder
  <2>2. CASE w # v
    BY <1>0, <1>1, <1>8, <2>2, HandledOthers
  <2> QED BY <2>1, <2>2
<1>9. ASSUME NEW v \in Volumes, NEW op, Asks(v, op) PROVE Ordered(w)'
  <2>1. CASE w = v
    BY <1>9, <2>1, AsksOrder
  <2>2. CASE w # v
    BY <1>1, <1>9, <2>2 DEF Asks, Others
  <2> QED BY <2>1, <2>2
<1>10. ASSUME NEW v \in Volumes, GivesUp(v) PROVE Ordered(w)'
  <2>1. CASE w = v
    BY <1>10, <2>1, GivesUpOrder
  <2>2. CASE w # v
    BY <1>1, <1>10, <2>2 DEF GivesUp, Others
  <2> QED BY <2>1, <2>2
<1> QED BY <1>0, <1>3, <1>4, <1>5, <1>6, <1>7, <1>8, <1>9, <1>10, NextIs

\* The order is there at first.
LEMMA OrderInit == Init => OrderInv
<1> SUFFICES ASSUME Init PROVE OrderInv
  OBVIOUS
<1>1. ASSUME NEW v \in Volumes PROVE Ordered(v)
  <2>1. /\ handler[v] = IdleHandler /\ waiting[v] = <<>> /\ kub[v].dev = "none" /\ pub[v] = {}
    BY DEF Init
  <2>2. \A m : m \notin Places(v)
    BY <2>1 DEF Places
  <2> QED
    BY <2>1, <2>2, IdleFacts DEF Ordered, LiveIsLast, StaysStaged, PublishesMounted
<1> QED BY <1>1, CallInit DEF OrderInv

\* The calls stay in order.
LEMMA OrderAlways ==
    ASSUME "overtake" \notin FaultKinds
    PROVE  Spec => []OrderInv
<1>1. OrderInv /\ [Next]_vars => OrderInv'
  BY OrderNext
<1> QED BY <1>1, OrderInit, PTL DEF Spec

-----------------------------------------------------------------------------
(***************************************************************************)
(* An unstaged volume stays clean.                                         *)
(***************************************************************************)

\* The faults that leave a volume behind: a listing cut off, the PV or the Pod
\* gone while it is staged, and a failed call that kubelet never undoes.
NothingForgotten == {"cut", "pv", "detach", "forget"} \cap FaultKinds = {}

\* A step of the node server, for its volume.
LEMMA HandledClean ==
    ASSUME CleanInv, NothingForgotten, NEW v \in Volumes, Handled(v)
    PROVE  Clean(v)'
<1>0. /\ CallsTyped /\ InItsCall(v) /\ OneLiveCall(v) /\ handler[v] \in Handler
      /\ Remembered(v) /\ LinkLeadsToCore(v) /\ UnmountedFirst(v) /\ StaysClean(v)
  BY CallInvFacts DEF CleanInv, Clean, CallInv
<1>1. handler[v].live \in BOOLEAN /\ "cut" \notin FaultKinds /\ "pv" \notin FaultKinds
      /\ "forget" \notin FaultKinds
  BY <1>0 DEF Handler, NothingForgotten
<1>2. ASSUME NEW n, Takes(v, n), Kept(v) PROVE Clean(v)'
  <2>1. kub'[v] = kub[v] /\ handler'[v].pc = "enter"
    BY <1>2 DEF Takes
  <2> QED BY <1>0, <1>2, <2>1
          DEF Kept, Clean, Remembered, LinkLeadsToCore, UnmountedFirst, StaysClean, UnstageSteps
<1>3. ASSUME NEW h, MovesOn(v, h) PROVE Clean(v)'
  <2>1. handler'[v] = h /\ kub' = kub
    BY <1>0, <1>3 DEF MovesOn, Moves, CallsTyped
  <2>2. Remembered(v)'
    BY <1>0, <2>1 DEF Remembered
  <2>3. LinkLeadsToCore(v)'
    BY <1>0, <1>3 DEF MovesOn, CoreOnlyBefore, LinkLeadsToCore
  <2>4. UnmountedFirst(v)'
    BY <1>0, <1>3, <2>1 DEF MovesOn, UnmountedFirst
  <2>5. StaysClean(v)'
    <3>1. SUFFICES ASSUME kub[v].dev = "none", kub[v].op # "stage"
                   PROVE  ~IsCore(v)' /\ mounted'[v] = {} /\ h.pc \notin PastLabel
      BY <2>1 DEF StaysClean, PastLabel
    <3>2. ~IsCore(v) /\ mounted[v] = {} /\ handler[v].pc \notin PastLabel
      BY <1>0, <3>1 DEF StaysClean, PastLabel
    <3>3. ~(handler[v].op = "stage" /\ handler[v].live)
      BY <1>0, <3>1 DEF OneLiveCall
    <3>4. ~At(v, "addcore")
      BY <3>2 DEF At, PastLabel
    <3> QED BY <1>3, <3>2, <3>3, <3>4 DEF MovesOn, CoreOnlyBefore
  <2> QED BY <2>2, <2>3, <2>4, <2>5 DEF Clean
<1>4. ASSUME NEW answer, EndsWith(v, answer) PROVE Clean(v)'
  <2>1. handler'[v].pc = "idle" /\ handler[v].op \in Ops
    BY <1>0, <1>4, IdleFacts DEF EndsWith, Ends, InItsCall
  <2>2. ASSUME Cleaned(v) PROVE ~IsCore(v)' /\ handler[v].pc \in UnstageSteps
    BY <1>0, <1>1, <1>4, <2>2
       DEF Cleaned, EndsWith, CoreOnlyBefore, LinkLeadsToCore, At, UnstageSteps
  <2>3. Remembered(v)'
    BY <1>0, <1>1, <1>4, <2>1 DEF EndsWith, Ends, Remembered, Ops
  <2>4. LinkLeadsToCore(v)'
    BY <1>0, <1>4, <2>2 DEF EndsWith, CoreOnlyBefore, LinkLeadsToCore
  <2>5. StaysClean(v)'
    <3>1. SUFFICES ASSUME kub'[v].dev = "none", kub'[v].op # "stage"
                   PROVE  ~IsCore(v)' /\ mounted'[v] = {}
      BY <2>1 DEF StaysClean
    <3>2. CASE handler[v].live /\ handler[v].op = "unstage"
      <4>1. Cleaned(v)
        BY <1>4, <3>1, <3>2 DEF EndsWith, Ends
      <4>2. ~IsCore(v)' /\ mounted[v] = {} /\ ~At(v, "mount")
        BY <1>0, <2>2, <4>1 DEF UnmountedFirst, UnstageSteps, At
      <4> QED BY <1>4, <4>2 DEF EndsWith
    <3>3. CASE ~(handler[v].live /\ handler[v].op = "unstage")
      <4>1. kub[v].dev = "none" /\ kub[v].op # "stage"
        BY <1>0, <1>1, <1>4, <2>1, <3>1, <3>3 DEF EndsWith, Ends, OneLiveCall, Ops
      <4>2. ~IsCore(v) /\ mounted[v] = {} /\ ~At(v, "addcore") /\ ~At(v, "mount")
        BY <1>0, <4>1 DEF StaysClean, At
      <4> QED BY <1>4, <4>2 DEF EndsWith, CoreOnlyBefore
    <3> QED BY <3>2, <3>3
  <2> QED BY <2>1, <2>3, <2>4, <2>5 DEF Clean, UnmountedFirst, UnstageSteps
<1> QED BY <1>2, <1>3, <1>4 DEF Handled

\* Every step keeps it clean.
LEMMA CleanNext == ASSUME CleanInv, NothingForgotten, [Next]_vars PROVE CleanInv'
<1>0. CallInv /\ TypeOK /\ \A w \in Volumes : Clean(w)
  BY DEF CleanInv, CallInv
<1>1. ASSUME NEW w \in Volumes, CallsKept(w), Kept(w) PROVE Clean(w)'
  BY <1>0, <1>1, KeptKeeps DEF Clean
<1>2. SUFFICES ASSUME NEW w \in Volumes PROVE Clean(w)'
  BY <1>0, CallNext DEF CleanInv
<1> USE DEF Remembered, LinkLeadsToCore, UnmountedFirst, StaysClean
<1>3. CASE UNCHANGED vars
  BY <1>0, <1>1, <1>3 DEF vars, CallsKept, Kept, IsCore
<1>4. CASE EnvironmentStep
  BY <1>0, <1>1, <1>4, EnvironmentKeeps
<1>5. ASSUME NEW v \in Volumes, Detach(v) PROVE Clean(w)'
  <2>1. /\ CallsKept(w) /\ mounted' = mounted /\ (IsCore(w)' <=> IsCore(w))
        /\ w # v => Kept(w)
    BY <1>0, <1>5, DetachedKeeps DEF IsCore, Others
  <2>2. CASE w # v
    BY <1>1, <2>1, <2>2
  <2>3. CASE w = v
    <3>1. kub[v].dev \in {"none", "failed"} /\ kub[v].op = "none"
      BY <1>5 DEF Detach
    <3>2. ~IsCore(v)
      BY <1>0, <3>1 DEF Clean
    <3> QED BY <1>0, <2>1, <2>3, <3>2 DEF CallsKept, Clean
  <2> QED BY <2>2, <2>3
<1>6. ASSUME NEW v \in Volumes PROVE ~ForceDetach(v)
  BY DEF ForceDetach, Fault, NothingForgotten
<1>7. CASE PluginCrash
  <2>1. /\ Lost(w) /\ Kept(w)
        /\ \/ kub'[w].dev = "uncertain"
           \/ kub[w].op \notin {"stage", "unstage"} /\ kub'[w].dev = kub[w].dev
    BY <1>0, <1>7, CrashLoses
  <2> QED BY <1>0, <2>1, IdleFacts DEF Lost, Kept, Clean, UnstageSteps
<1>8. CASE Reboot
  <2>1. /\ Lost(w) /\ kub'[w].dev \in {"none", "uncertain"} /\ ~IsCore(w)' /\ mounted'[w] = {}
    BY <1>0, <1>8, RebootLoses
  <2> QED BY <2>1, IdleFacts DEF Lost, Clean, UnstageSteps
<1>9. ASSUME NEW v \in Volumes, Handled(v) PROVE Clean(w)'
  <2>1. CASE w = v
    BY <1>9, <2>1, HandledClean
  <2>2. CASE w # v
    BY <1>0, <1>1, <1>9, <2>2, HandledOthers
  <2> QED BY <2>1, <2>2
<1>10. ASSUME NEW v \in Volumes, NEW op, Asks(v, op) PROVE Clean(w)'
  <2>1. CASE w = v
    <3>1. /\ Kept(v) /\ handler'[v] = handler[v] /\ kub'[v].dev = kub[v].dev /\ kub[v].op = "none"
      BY <1>10 DEF Asks
    <3> QED BY <1>0, <2>1, <3>1 DEF Kept, Clean
  <2>2. CASE w # v
    BY <1>1, <1>10, <2>2 DEF Asks, Others
  <2> QED BY <2>1, <2>2
<1>11. ASSUME NEW v \in Volumes, GivesUp(v) PROVE Clean(w)'
  <2>1. CASE w = v
    <3>1. /\ Kept(v) /\ handler'[v].pc = handler[v].pc
          /\ \/ kub[v].op \in {"publish", "unpublish"} /\ kub'[v].dev = kub[v].dev
             \/ kub'[v].dev = "uncertain"
      BY <1>11 DEF GivesUp
    <3> QED BY <1>0, <2>1, <3>1 DEF Kept, Clean
  <2>2. CASE w # v
    BY <1>1, <1>11, <2>2 DEF GivesUp, Others
  <2> QED BY <2>1, <2>2
<1> QED BY <1>0, <1>3, <1>4, <1>5, <1>6, <1>7, <1>8, <1>9, <1>10, <1>11, NextIs

\* At first there is nothing to clean up.
LEMMA CleanInit == Init => CleanInv
<1> SUFFICES ASSUME Init PROVE CleanInv
  OBVIOUS
<1>1. ASSUME NEW v \in Volumes PROVE Clean(v)
  <2>1. handler[v] = IdleHandler /\ kub[v].dev = "none" /\ mounted[v] = {} /\ caches = NoCaches
    BY DEF Init
  <2>2. ~IsCore(v)
    BY <2>1, CoresAfter, NoCachesType DEF IsCore
  <2> QED
    BY <2>1, <2>2, IdleFacts
       DEF Clean, Remembered, LinkLeadsToCore, UnmountedFirst, StaysClean, UnstageSteps
<1> QED BY <1>1, CallInit DEF CleanInv

\* Once NodeUnstageVolume has succeeded no cache holds the volume and it is not
\* mounted, until kubelet stages it again: not by a call that kubelet gave up on
\* (the context of the label read), and not because a removal failed unnoticed.
THEOREM UnstagedStaysClean ==
    ASSUME NothingForgotten PROVE Spec => []CleanWhenUnstaged
<1>1. CleanInv /\ [Next]_vars => CleanInv'
  BY CleanNext
<1>2. CleanInv => CleanWhenUnstaged
  BY DEF CleanInv, Clean, StaysClean, CleanWhenUnstaged
<1> QED BY <1>1, <1>2, CleanInit, PTL DEF Spec

=============================================================================
