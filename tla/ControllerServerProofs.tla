----------------------- MODULE ControllerServerProofs -----------------------
(***************************************************************************)
(* Proofs about the CSI controller server, for every set of nodes and any  *)
(* number of faults, calls that are given up, and attachments.             *)
(***************************************************************************)
EXTENDS ControllerServer, SequenceTheorems, TLAPS

-----------------------------------------------------------------------------
(***************************************************************************)
(* The inductive invariant: what the order of arrival at the mutex of a    *)
(* volume guarantees, for objects of which no call has overtaken another.  *)
(***************************************************************************)
Busy == handler # IdleHandler

\* What the sidecar that waits for a call wants.
Matches(c) == know[c.key] = IF c.op = "create" THEN "creating" ELSE "deleting"

\* A call whose sidecar still waits is the last one for its object: all those
\* that were given up before are ahead of it.
LiveIsLast ==
    /\ \A m \in 1..Len(waiting) : waiting[m].live /\ waiting[m].key \notin overtaken =>
          /\ waiting[m].key \in calls /\ Matches(waiting[m])
          /\ \A l \in 1..Len(waiting) : m < l => waiting[l].key # waiting[m].key
    /\ Busy /\ handler.live /\ handler.key \notin overtaken =>
          /\ handler.key \in calls /\ Matches(handler)
          /\ \A l \in 1..Len(waiting) : waiting[l].key # handler.key

\* No call is left for an object of which nothing is wanted any more.
NoLateCalls ==
    \A k \in Keys \ overtaken : know[k] \in {"none", "there"} =>
        /\ Busy => handler.key # k
        /\ \A l \in 1..Len(waiting) : waiting[l].key # k

\* The label that is off stays off until the deletion that follows.
DeletedUnlabelled == handler.pc = "delete" => ~obj[handler.key].label

IInv == TypeOK /\ LiveIsLast /\ NoLateCalls /\ DeletedUnlabelled /\ NothingLeftBehind

-----------------------------------------------------------------------------
(***************************************************************************)
(* What the helpers return.                                                *)
(***************************************************************************)
UsedType == used \in [faults : Nat, attaches : Nat]

\* A bound is used up one at a time.
LEMMA UseTyped ==
    ASSUME UsedType, NEW max
    PROVE  (Use("faults", max) => UsedType') /\ (Use("attaches", max) => UsedType')
  BY DEF UsedType, Use

\* A call at one of its steps.
LEMMA HandlerFacts ==
    ASSUME handler \in Handler, Busy
    PROVE  /\ handler.op \in Ops /\ handler.key \in Keys /\ handler.live \in BOOLEAN
           /\ handler.pc \in {"enter", "create", "wait", "refresh", "unlabel", "delete"}
           /\ handler.op = "create" /\ handler.key = Backend => handler.pc \in {"enter", "create"}
           /\ handler.op = "delete" => handler.pc \in {"enter", "unlabel", "delete"}
  BY ControllerAssumption DEF Handler, Busy, Ops, Keys

\* A call is at some step.
LEMMA BusyByPc == ASSUME handler.pc # "idle" PROVE Busy
  BY DEF Busy, IdleHandler

\* A call at its next step is the same call.
LEMMA NextStep ==
    ASSUME handler \in Handler, Busy,
           NEW pc \in {"enter", "create", "wait", "refresh", "unlabel", "delete"},
           handler.op = "create" /\ handler.key = Backend => pc \in {"enter", "create"},
           handler.op = "delete" => pc \in {"enter", "unlabel", "delete"}
    PROVE  LET h == [handler EXCEPT !.pc = pc]
           IN  /\ h \in Handler /\ h # IdleHandler
               /\ h.pc = pc /\ h.op = handler.op /\ h.key = handler.key /\ h.live = handler.live
<1> DEFINE h == [handler EXCEPT !.pc = pc]
<1>1. CASE handler \in [op : {"create"}, key : {Backend}, live : BOOLEAN, pc : {"enter", "create"}]
  <2>1. /\ h \in [op : {"create"}, key : {Backend}, live : BOOLEAN, pc : {"enter", "create"}]
        /\ h.pc = pc /\ h.op = handler.op /\ h.key = handler.key /\ h.live = handler.live
    BY <1>1
  <2> HIDE DEF h
  <2>2. h # IdleHandler
    BY <2>1 DEF IdleHandler
  <2> QED BY <2>1, <2>2 DEF Handler, h
<1>2. CASE handler \in [op : {"create"}, key : Nodes, live : BOOLEAN,
                        pc : {"enter", "create", "wait", "refresh", "unlabel", "delete"}]
  <2>1. /\ h \in [op : {"create"}, key : Nodes, live : BOOLEAN,
                  pc : {"enter", "create", "wait", "refresh", "unlabel", "delete"}]
        /\ h.pc = pc /\ h.op = handler.op /\ h.key = handler.key /\ h.live = handler.live
    BY <1>2
  <2> HIDE DEF h
  <2>2. h # IdleHandler
    BY <2>1 DEF IdleHandler
  <2> QED BY <2>1, <2>2 DEF Handler, h
<1>3. CASE handler \in [op : {"delete"}, key : Keys, live : BOOLEAN, pc : {"enter", "unlabel", "delete"}]
  <2>1. /\ h \in [op : {"delete"}, key : Keys, live : BOOLEAN, pc : {"enter", "unlabel", "delete"}]
        /\ h.pc = pc /\ h.op = handler.op /\ h.key = handler.key /\ h.live = handler.live
    BY <1>3
  <2> HIDE DEF h
  <2>2. h # IdleHandler
    BY <2>1 DEF IdleHandler
  <2> QED BY <2>1, <2>2 DEF Handler, h
<1> QED
  BY <1>1, <1>2, <1>3 DEF Handler, Busy

\* So is a call that is given up.
LEMMA AbandonedCall ==
    ASSUME handler \in Handler, Busy
    PROVE  LET h == [handler EXCEPT !.live = FALSE]
           IN  /\ h \in Handler /\ h.live = FALSE
               /\ h.pc = handler.pc /\ h.op = handler.op /\ h.key = handler.key
<1> DEFINE h == [handler EXCEPT !.live = FALSE]
<1>1. CASE handler \in [op : {"create"}, key : {Backend}, live : BOOLEAN, pc : {"enter", "create"}]
  BY <1>1 DEF Handler
<1>2. CASE handler \in [op : {"create"}, key : Nodes, live : BOOLEAN,
                        pc : {"enter", "create", "wait", "refresh", "unlabel", "delete"}]
  BY <1>2 DEF Handler
<1>3. CASE handler \in [op : {"delete"}, key : Keys, live : BOOLEAN, pc : {"enter", "unlabel", "delete"}]
  BY <1>3 DEF Handler
<1> QED
  BY <1>1, <1>2, <1>3 DEF Handler, Busy

\* A function on 1..n is a sequence of length n.
LEMMA LenOfFunction ==
    ASSUME NEW S, NEW n \in Nat, NEW s \in [1..n -> S]
    PROVE  s \in Seq(S) /\ Len(s) = n
  OBVIOUS

\* What requests do to the objects: to the one they name only.
LEMMA ObjectFacts ==
    ASSUME obj \in [Keys -> Object], NEW k \in Keys
    PROVE  /\ Created(k) \in [Keys -> Object]
           /\ \A j \in Keys \ {k} : Created(k)[j] = obj[j]
           /\ Unlabelled(k) \in [Keys -> Object]
           /\ ~Unlabelled(k)[k].label /\ \A j \in Keys \ {k} : Unlabelled(k)[j] = obj[j]
           /\ Deleted(k) \in [Keys -> Object]
           /\ Deleted(k)[k].label = obj[k].label /\ \A j \in Keys \ {k} : Deleted(k)[j] = obj[j]
           /\ obj[k].label => Deleted(k)[k] = obj[k]
           /\ ~obj[k].label => Deleted(k)[k].state \in GoneOrGoing
           /\ obj[k].state \in GoneOrGoing => Deleted(k)[k].state \in GoneOrGoing
<1>1. obj[k] \in Object
  OBVIOUS
<1> DEFINE u == [obj[k] EXCEPT !.label = FALSE]
           d == [obj[k] EXCEPT !.state =
                   IF @ \in {"pending", "dropped"} THEN "dropped" ELSE "terminating"]
           n == [state |-> "pending", label |-> TRUE]
<1>2. u \in Object /\ ~u.label
  BY <1>1 DEF Object
<1>3. d \in Object /\ d.label = obj[k].label /\ d.state \in GoneOrGoing
  BY <1>1 DEF Object, States, GoneOrGoing
<1>4. n \in Object
  BY DEF Object, States
<1> HIDE DEF u, d, n
<1>5. /\ [obj EXCEPT ![k] = u] \in [Keys -> Object] /\ [obj EXCEPT ![k] = u][k] = u
      /\ \A j \in Keys \ {k} : [obj EXCEPT ![k] = u][j] = obj[j]
  BY <1>2
<1>6. /\ [obj EXCEPT ![k] = d] \in [Keys -> Object] /\ [obj EXCEPT ![k] = d][k] = d
      /\ \A j \in Keys \ {k} : [obj EXCEPT ![k] = d][j] = obj[j]
  BY <1>3
<1>7. /\ [obj EXCEPT ![k] = n] \in [Keys -> Object]
      /\ \A j \in Keys \ {k} : [obj EXCEPT ![k] = n][j] = obj[j]
  BY <1>4
<1>8. /\ Created(k) = [obj EXCEPT ![k] = n] /\ Unlabelled(k) = [obj EXCEPT ![k] = u]
      /\ Deleted(k) = IF Exists(k) /\ Validate(k) THEN [obj EXCEPT ![k] = d] ELSE obj
  BY DEF Created, Unlabelled, Deleted, n, u, d
<1>9. /\ Created(k) \in [Keys -> Object] /\ \A j \in Keys \ {k} : Created(k)[j] = obj[j]
  BY <1>7, <1>8
<1>10. /\ Unlabelled(k) \in [Keys -> Object]
       /\ ~Unlabelled(k)[k].label /\ \A j \in Keys \ {k} : Unlabelled(k)[j] = obj[j]
  BY <1>2, <1>5, <1>8
<1>11. CASE Exists(k) /\ Validate(k)
  BY <1>3, <1>6, <1>8, <1>9, <1>10, <1>11 DEF Validate
<1>12. CASE ~(Exists(k) /\ Validate(k))
  BY <1>8, <1>9, <1>10, <1>12 DEF Validate, Exists, GoneOrGoing
<1> QED BY <1>11, <1>12

-----------------------------------------------------------------------------
(***************************************************************************)
(* The steps of a handler.                                                 *)
(***************************************************************************)

\* A step of the call that holds the mutex concerns the object it is for, of
\* which something is wanted.
LEMMA InvGoto ==
    ASSUME IInv, Busy, NEW pc \in {"enter", "create", "wait", "refresh", "unlabel", "delete"},
           handler.op = "create" /\ handler.key = Backend => pc \in {"enter", "create"},
           handler.op = "delete" => pc \in {"enter", "unlabel", "delete"},
           Goto(pc), UsedType', obj' \in [Keys -> Object],
           \A j \in Keys \ {handler.key} : obj'[j] = obj[j],
           pc = "delete" => ~obj'[handler.key].label
    PROVE  IInv'
<1>1. handler \in Handler
  BY DEF IInv, TypeOK
<1>2. /\ handler' \in Handler /\ handler' # IdleHandler /\ handler'.pc = pc
      /\ handler'.op = handler.op /\ handler'.key = handler.key /\ handler'.live = handler.live
  BY <1>1, NextStep DEF Goto
<1>3. UNCHANGED <<waiting, know, calls, overtaken>>
  BY DEF Goto, sidecarVars
<1>4. TypeOK'
  BY <1>2, <1>3 DEF IInv, TypeOK, UsedType
<1>5. LiveIsLast'
  BY <1>2, <1>3 DEF IInv, LiveIsLast, Busy, Matches
<1>6. NoLateCalls'
  BY <1>2, <1>3 DEF IInv, NoLateCalls, Busy
<1>7. NothingLeftBehind'
  BY <1>3 DEF IInv, NoLateCalls, NothingLeftBehind
<1> QED
  BY <1>2, <1>4, <1>5, <1>6, <1>7 DEF IInv, DeletedUnlabelled

\* The answer to a call that is waited for is the last word on its object: a
\* deletion may succeed only with the object gone or going.
LEMMA InvReply ==
    ASSUME IInv, Busy, NEW ok \in BOOLEAN, Reply(ok), UsedType', obj' \in [Keys -> Object],
           \A j \in Keys \ {handler.key} : obj'[j] = obj[j],
           ok /\ handler.op = "delete" => obj'[handler.key].state \in GoneOrGoing
    PROVE  IInv'
<1>1. handler.key \in Keys /\ handler.op \in Ops /\ handler.live \in BOOLEAN
  BY HandlerFacts DEF IInv, TypeOK
<1>2. handler' = IdleHandler /\ handler' \in Handler /\ ~Busy' /\ handler'.pc = "idle"
  BY DEF Reply, Handler, Busy, IdleHandler
<1>3. waiting' = waiting /\ overtaken' = overtaken
  BY DEF Reply
<1>4. \A k \in Keys \ {handler.key} : know'[k] = know[k] /\ (k \in calls' <=> k \in calls)
  BY <1>1 DEF Reply, IInv, TypeOK
<1>5. handler.live /\ ok => know'[handler.key] = IF handler.op = "create" THEN "there" ELSE "none"
  BY <1>1 DEF Reply, IInv, TypeOK
<1>6. ~(handler.live /\ ok) => know' = know
  BY DEF Reply
<1>7. TypeOK'
  <2>1. know' \in [Keys -> {"none", "creating", "there", "deleting"}]
    BY <1>1 DEF Reply, IInv, TypeOK
  <2>2. calls' \in SUBSET Keys
    BY DEF Reply, IInv, TypeOK
  <2> QED BY <1>2, <1>3, <2>1, <2>2 DEF IInv, TypeOK, UsedType
<1>8. LiveIsLast'
  <2>1. ASSUME NEW m \in 1..Len(waiting), waiting[m].live, waiting[m].key \notin overtaken
        PROVE  /\ waiting[m].key \in calls' /\ Matches(waiting[m])'
               /\ \A l \in 1..Len(waiting) : m < l => waiting[l].key # waiting[m].key
    <3>1. /\ waiting[m].key \in calls /\ Matches(waiting[m])
          /\ \A l \in 1..Len(waiting) : m < l => waiting[l].key # waiting[m].key
      BY <2>1 DEF IInv, LiveIsLast
    <3>2. waiting[m].key \in Keys
      BY <3>1 DEF IInv, TypeOK
    <3>3. CASE handler.live
      <4>1. waiting[m].key # handler.key
        BY <2>1, <3>3 DEF IInv, LiveIsLast
      <4>2. know'[waiting[m].key] = know[waiting[m].key]
        BY <1>4, <3>2, <4>1
      <4> QED BY <1>3, <1>4, <3>1, <3>2, <4>1, <4>2 DEF Matches
    <3>4. CASE ~handler.live
      BY <1>3, <1>6, <3>1, <3>4 DEF Reply, Matches
    <3> QED BY <1>1, <3>3, <3>4
  <2> QED BY <1>2, <1>3, <2>1 DEF LiveIsLast
<1>9. NoLateCalls'
  <2> SUFFICES ASSUME NEW k \in Keys \ overtaken, know'[k] \in {"none", "there"}, NEW l \in 1..Len(waiting)
               PROVE  waiting[l].key # k
    BY <1>2, <1>3 DEF NoLateCalls
  <2>1. CASE k = handler.key /\ handler.live /\ ok
    BY <2>1 DEF IInv, LiveIsLast
  <2>2. CASE ~(k = handler.key /\ handler.live /\ ok)
    BY <1>4, <1>6, <2>2 DEF IInv, NoLateCalls
  <2> QED BY <2>1, <2>2
<1>10. NothingLeftBehind'
  <2> SUFFICES ASSUME NEW k \in Keys \ overtaken, know'[k] = "none"
               PROVE  obj'[k].state \in GoneOrGoing
    BY <1>3 DEF NothingLeftBehind
  <2>1. CASE k # handler.key
    BY <1>4, <2>1 DEF IInv, NothingLeftBehind
  <2>2. CASE k = handler.key /\ handler.live /\ ok
    BY <1>1, <1>5, <2>2 DEF Ops
  <2>3. CASE k = handler.key /\ ~(handler.live /\ ok)
    BY <1>6, <2>3 DEF IInv, NoLateCalls
  <2> QED BY <2>1, <2>2, <2>3
<1> QED
  BY <1>2, <1>7, <1>8, <1>9, <1>10 DEF IInv, DeletedUnlabelled

\* The same for steps that only look, or whose request fails.
LEMMA InvQuietGoto ==
    ASSUME IInv, Busy, NEW pc \in {"enter", "create", "wait", "refresh", "unlabel"},
           handler.op = "create" /\ handler.key = Backend => pc \in {"enter", "create"},
           handler.op = "delete" => pc \in {"enter", "unlabel"},
           Goto(pc), UsedType', UNCHANGED obj
    PROVE  IInv'
<1>1. obj' \in [Keys -> Object]
  BY DEF IInv, TypeOK
<1> QED BY <1>1, InvGoto

\* Likewise for an answer.
LEMMA InvQuietReply ==
    ASSUME IInv, Busy, NEW ok \in BOOLEAN, Reply(ok), UsedType', UNCHANGED obj,
           ok /\ handler.op = "delete" => ~Exists(handler.key)
    PROVE  IInv'
<1>1. obj' \in [Keys -> Object]
  BY DEF IInv, TypeOK
<1>2. ok /\ handler.op = "delete" => obj'[handler.key].state \in GoneOrGoing
  BY DEF Exists, GoneOrGoing
<1> QED BY <1>1, <1>2, InvReply

\* CreateVolume and the creation of the PVC.
LEMMA InvCreateVolume == IInv /\ (CreateVolume \/ CreateSubproviderPvc) => IInv'
<1> SUFFICES ASSUME IInv, CreateVolume \/ CreateSubproviderPvc PROVE IInv'
  OBVIOUS
<1>1. Busy /\ handler.op = "create" /\ handler.key = Backend /\ UsedType /\ Backend \in Keys
      /\ obj \in [Keys -> Object]
  BY BusyByPc DEF CreateVolume, CreateSubproviderPvc, At, IInv, TypeOK, UsedType, Keys
<1>2. UsedType'
  BY <1>1, UseTyped DEF CreateVolume, CreateSubproviderPvc, Fault, UsedType
<1>3. ASSUME NEW ok \in BOOLEAN, Reply(ok), UNCHANGED obj PROVE IInv'
  BY <1>1, <1>2, <1>3, InvQuietReply
<1>4. ASSUME Goto("create"), UNCHANGED obj PROVE IInv'
  BY <1>1, <1>2, <1>4, InvQuietGoto
<1>5. ASSUME NEW ok \in BOOLEAN, Reply(ok), obj' = Created(Backend) PROVE IInv'
  <2>1. obj' \in [Keys -> Object] /\ \A j \in Keys \ {handler.key} : obj'[j] = obj[j]
    BY <1>1, <1>5, ObjectFacts
  <2> QED BY <1>1, <1>2, <1>5, <2>1, InvReply
<1> QED
  BY <1>3, <1>4, <1>5 DEF CreateVolume, CreateSubproviderPvc

\* ControllerPublishVolume, and the creation of the Pod.
LEMMA InvPublish ==
    IInv /\ (ControllerPublishVolume \/ CreateIntermediatePod \/ RefreshPvc) => IInv'
<1> SUFFICES ASSUME IInv, ControllerPublishVolume \/ CreateIntermediatePod \/ RefreshPvc
             PROVE  IInv'
  OBVIOUS
<1>1. /\ Busy /\ handler.op = "create" /\ handler.pc \in {"enter", "create", "refresh"} /\ UsedType
      /\ obj \in [Keys -> Object] /\ handler \in Handler
  BY BusyByPc DEF ControllerPublishVolume, CreateIntermediatePod, RefreshPvc, At, IInv, TypeOK, UsedType
<1>2. UsedType'
  BY <1>1, UseTyped DEF ControllerPublishVolume, CreateIntermediatePod, RefreshPvc, Fault, UsedType
<1>3. handler.key \in Keys \ {Backend}
  BY <1>1, HandlerFacts DEF ControllerPublishVolume, CreateIntermediatePod, RefreshPvc, At
<1>4. ASSUME NEW ok \in BOOLEAN, Reply(ok), UNCHANGED obj PROVE IInv'
  BY <1>1, <1>2, <1>4, InvQuietReply
<1>5. ASSUME NEW pc \in {"create", "refresh"}, Goto(pc), UNCHANGED obj PROVE IInv'
  BY <1>1, <1>2, <1>3, <1>5, InvQuietGoto
<1>6. ASSUME obj' = Created(handler.key) PROVE obj' \in [Keys -> Object] /\ \A j \in Keys \ {handler.key} : obj'[j] = obj[j]
  BY <1>1, <1>3, <1>6, ObjectFacts
<1>7. ASSUME Reply(FALSE), obj' = Created(handler.key) PROVE IInv'
  BY <1>1, <1>2, <1>6, <1>7, InvReply
<1>8. ASSUME Goto("wait"), obj' = Created(handler.key) PROVE IInv'
  BY <1>1, <1>2, <1>3, <1>6, <1>8, InvGoto
<1>9. CASE ControllerPublishVolume
  BY <1>4, <1>5, <1>9 DEF ControllerPublishVolume
<1>10. CASE CreateIntermediatePod
  BY <1>4, <1>7, <1>8, <1>10 DEF CreateIntermediatePod
<1>11. CASE RefreshPvc
  <2>1. Reply(TRUE) \/ Reply(FALSE)
    <3>1. CASE obj[Backend].state \in {"live", "terminating"}
      BY <1>11, <3>1 DEF RefreshPvc, Reply
    <3>2. CASE obj[Backend].state \notin {"live", "terminating"}
      BY <1>11, <3>2 DEF RefreshPvc, Reply
    <3> QED BY <3>1, <3>2
  <2> QED BY <1>4, <1>11, <2>1 DEF RefreshPvc
<1> QED
  BY <1>9, <1>10, <1>11

\* Waiting for the Pod, and trying to delete it.
LEMMA InvWaitForPod == IInv /\ WaitForPod => IInv'
<1> SUFFICES ASSUME IInv, WaitForPod PROVE IInv'
  OBVIOUS
<1>1. /\ Busy /\ handler.op = "create" /\ handler.pc = "wait" /\ UsedType
      /\ obj \in [Keys -> Object] /\ handler \in Handler
  BY BusyByPc DEF WaitForPod, At, IInv, TypeOK, UsedType
<1>2. UsedType'
  BY <1>1, UseTyped DEF WaitForPod, Fault, UsedType
<1>3. handler.key \in Keys \ {Backend}
  BY <1>1, HandlerFacts
<1>4. ASSUME NEW pc \in {"unlabel", "refresh"}, Goto(pc), UNCHANGED obj PROVE IInv'
  BY <1>1, <1>2, <1>3, <1>4, InvQuietGoto
<1>5. ASSUME NEW pc \in {"unlabel", "refresh"}, Goto(pc), obj' = Deleted(handler.key) PROVE IInv'
  <2>1. obj' \in [Keys -> Object] /\ \A j \in Keys \ {handler.key} : obj'[j] = obj[j]
    BY <1>1, <1>3, <1>5, ObjectFacts
  <2> QED BY <1>1, <1>2, <1>3, <1>5, <2>1, InvGoto
<1> QED
  BY <1>4, <1>5 DEF WaitForPod

\* DeleteVolume and ControllerUnpublishVolume, and the two steps of a deletion:
\* it succeeds only when the object is gone or going.
LEMMA InvDelete ==
    IInv /\ (DeleteVolume \/ ControllerUnpublishVolume \/ UnlabelObject \/ DeleteObject) => IInv'
<1> SUFFICES ASSUME IInv,
                    \/ \E k \in Keys : DeleteEnter(k)
                    \/ UnlabelObject \/ DeleteObject
             PROVE  IInv'
  BY DEF DeleteVolume, ControllerUnpublishVolume, Keys
<1>1. Busy /\ UsedType /\ obj \in [Keys -> Object] /\ handler \in Handler
  BY BusyByPc DEF DeleteEnter, UnlabelObject, DeleteObject, At, IInv, TypeOK, UsedType
<1>2. UsedType'
  BY <1>1, UseTyped DEF DeleteEnter, UnlabelObject, DeleteObject, Fault, UsedType
<1>3. handler.key \in Keys /\ (handler.op = "create" /\ handler.key = Backend => handler.pc \in {"enter", "create"})
  BY <1>1, HandlerFacts
<1>4. ASSUME NEW ok \in BOOLEAN, DeleteDone(ok), UNCHANGED obj, ok => ~Exists(handler.key)
      PROVE  IInv'
  BY <1>1, <1>2, <1>4, InvQuietReply DEF DeleteDone
<1>5. ASSUME NEW k \in Keys, DeleteEnter(k) PROVE IInv'
  <2>1. handler.op = "delete" /\ handler.key = k /\ UNCHANGED obj
    BY <1>5 DEF DeleteEnter, At
  <2>2. CASE Exists(k) /\ Goto("unlabel")
    BY <1>1, <1>2, <2>1, <2>2, InvQuietGoto
  <2>3. CASE ~Exists(k) /\ Reply(TRUE)
    BY <1>1, <1>2, <2>1, <2>3, InvQuietReply
  <2>4. CASE Reply(FALSE)
    BY <1>1, <1>2, <2>1, <2>4, InvQuietReply
  <2> QED BY <1>5, <2>2, <2>3, <2>4 DEF DeleteEnter
<1>6. CASE UnlabelObject
  <2>1. handler.pc = "unlabel"
    BY <1>6 DEF UnlabelObject
  <2>2. ASSUME obj' = Unlabelled(handler.key)
        PROVE  /\ obj' \in [Keys -> Object] /\ ~obj'[handler.key].label
               /\ \A j \in Keys \ {handler.key} : obj'[j] = obj[j]
    BY <1>1, <1>3, <2>2, ObjectFacts
  <2>3. CASE obj' = Unlabelled(handler.key) /\ Goto("delete")
    BY <1>1, <1>2, <1>3, <2>1, <2>2, <2>3, InvGoto
  <2>4. CASE obj' = Unlabelled(handler.key) /\ DeleteDone(FALSE)
    BY <1>1, <1>2, <1>3, <2>2, <2>4, InvReply DEF DeleteDone
  <2>5. CASE ~Exists(handler.key) /\ UNCHANGED obj /\ DeleteDone(TRUE)
    BY <1>4, <2>5
  <2>6. CASE UNCHANGED obj /\ DeleteDone(FALSE)
    BY <1>4, <2>6
  <2> QED BY <1>6, <2>3, <2>4, <2>5, <2>6 DEF UnlabelObject
<1>7. CASE DeleteObject
  <2>1. ~obj[handler.key].label
    BY <1>7 DEF DeleteObject, IInv, DeletedUnlabelled
  <2>2. ASSUME obj' = Deleted(handler.key)
        PROVE  /\ obj' \in [Keys -> Object] /\ obj'[handler.key].state \in GoneOrGoing
               /\ \A j \in Keys \ {handler.key} : obj'[j] = obj[j]
    BY <1>1, <1>3, <2>1, <2>2, ObjectFacts
  <2>3. ASSUME NEW ok \in BOOLEAN, obj' = Deleted(handler.key), Reply(ok) PROVE IInv'
    BY <1>1, <1>2, <2>2, <2>3, InvReply
  <2>4. CASE UNCHANGED obj /\ DeleteDone(FALSE)
    BY <1>4, <2>4
  <2> QED BY <1>7, <2>3, <2>4 DEF DeleteObject, DeleteDone
<1> QED
  BY <1>5, <1>6, <1>7

\* A sequence without its nth element.
LEMMA RemovedFacts ==
    ASSUME NEW S, NEW s \in Seq(S), NEW n \in 1..Len(s)
    PROVE  LET t == SubSeq(s, 1, n - 1) \o SubSeq(s, n + 1, Len(s))
           IN  /\ t \in Seq(S) /\ Len(t) = Len(s) - 1
               /\ \A m \in 1..Len(t) : t[m] = IF m < n THEN s[m] ELSE s[m + 1]
<1> DEFINE a == SubSeq(s, 1, n - 1)
           b == SubSeq(s, n + 1, Len(s))
<1>0. Len(s) \in Nat /\ n \in Nat
  OBVIOUS
<1>1. a \in Seq(S) /\ Len(a) = n - 1 /\ \A m \in 1..(n - 1) : a[m] = s[m]
  OBVIOUS
<1>2. b \in Seq(S) /\ Len(b) = Len(s) - n /\ \A m \in 1..(Len(s) - n) : b[m] = s[m + n]
  OBVIOUS
<1> HIDE DEF a, b
<1>3. /\ a \o b \in Seq(S) /\ Len(a \o b) = Len(s) - 1
      /\ \A m \in 1..(Len(s) - 1) : (a \o b)[m] = IF m <= n - 1 THEN a[m] ELSE b[m - (n - 1)]
  <2>1. (n - 1) + (Len(s) - n) = Len(s) - 1 /\ n - 1 \in Nat /\ Len(s) - n \in Nat
    BY <1>0
  <2>2. /\ a \o b \in Seq(S) /\ Len(a \o b) = Len(a) + Len(b)
        /\ \A m \in 1..(Len(a) + Len(b)) : (a \o b)[m] = IF m <= Len(a) THEN a[m] ELSE b[m - Len(a)]
    BY <1>1, <1>2, ConcatProperties
  <2> QED BY <1>1, <1>2, <2>1, <2>2
<1>4. ASSUME NEW m \in 1..(Len(s) - 1)
      PROVE  (a \o b)[m] = IF m < n THEN s[m] ELSE s[m + 1]
  <2>1. CASE m < n
    BY <1>0, <1>1, <1>3, <2>1
  <2>2. CASE ~(m < n)
    <3>1. m - (n - 1) \in 1..(Len(s) - n) /\ (m - (n - 1)) + n = m + 1
      BY <1>0, <2>2
    <3> QED BY <1>0, <1>2, <1>3, <2>2, <3>1
  <2> QED BY <2>1, <2>2
<1> QED BY <1>3, <1>4 DEF a, b

\* Whichever call takes the mutex, the last call for an object is still the
\* last, unless it is the one that went ahead of others for the same object.
LEMMA InvLockKey == IInv /\ LockKey => IInv'
<1> SUFFICES ASSUME IInv, LockKey PROVE IInv'
  OBVIOUS
<1>1. waiting \in Seq(Calls) /\ Len(waiting) \in Nat /\ UsedType /\ overtaken \in SUBSET Keys
  BY DEF IInv, TypeOK, UsedType
<1>2. PICK n \in 1..Len(waiting) :
         /\ n \in {1, Len(waiting)}
         /\ IF n = 1 THEN UNCHANGED used ELSE Fault("overtake")
         /\ handler' = [op |-> waiting[n].op, key |-> waiting[n].key,
                        live |-> waiting[n].live, pc |-> "enter"]
         /\ waiting' = SubSeq(waiting, 1, n - 1) \o SubSeq(waiting, n + 1, Len(waiting))
         /\ overtaken' = overtaken \cup {waiting[m].key : m \in
                             {l \in 1..n - 1 : waiting[l].key = waiting[n].key}}
  BY DEF LockKey
<1> DEFINE c == waiting[n]
           At1(l) == IF l < n THEN l ELSE l + 1
<1>3. c \in Calls /\ n \in Nat
  BY <1>1
<1>4. /\ Len(waiting') = Len(waiting) - 1 /\ waiting' \in Seq(Calls)
      /\ \A l \in 1..Len(waiting') :
            waiting'[l] = waiting[At1(l)] /\ At1(l) \in 1..Len(waiting) /\ At1(l) # n
  <2>1. /\ Len(waiting') = Len(waiting) - 1 /\ waiting' \in Seq(Calls)
        /\ \A l \in 1..Len(waiting') : waiting'[l] = IF l < n THEN waiting[l] ELSE waiting[l + 1]
    BY <1>1, <1>2, RemovedFacts
  <2> QED BY <1>1, <1>3, <2>1
<1>5. UNCHANGED <<obj, know, calls>> /\ UsedType'
  BY <1>1, <1>2, UseTyped DEF LockKey, Fault, UsedType
<1>6. /\ overtaken \subseteq overtaken' /\ overtaken' \in SUBSET Keys
      /\ c.key \notin overtaken' => \A l \in 1..Len(waiting) : l < n => waiting[l].key # c.key
  <2>1. \A l \in 1..n - 1 : l \in 1..Len(waiting) /\ waiting[l] \in Calls
    BY <1>1, <1>3
  <2>2. \A l \in 1..Len(waiting) : l < n => l \in 1..n - 1
    BY <1>1, <1>3
  <2>3. \A l \in 1..n - 1 : waiting[l].key \in Keys
    BY <2>1 DEF Calls
  <2> QED BY <1>1, <1>2, <2>2, <2>3
<1> HIDE DEF c
<1>7. /\ handler' \in Handler /\ handler' # IdleHandler /\ handler'.pc = "enter"
      /\ handler'.op = c.op /\ handler'.key = c.key /\ handler'.live = c.live
  <2>1. c.op \in Ops /\ c.key \in Keys /\ c.live \in BOOLEAN
    BY <1>3 DEF Calls
  <2>2. handler' = [op |-> c.op, key |-> c.key, live |-> c.live, pc |-> "enter"]
    BY <1>2 DEF c
  <2>3. handler'.pc = "enter" /\ handler'.op = c.op /\ handler'.key = c.key /\ handler'.live = c.live
    BY <2>2
  <2>4. handler' # IdleHandler
    BY <2>3 DEF IdleHandler
  <2>5. handler' \in Handler
    BY <2>1, <2>2 DEF Handler, Ops, Keys
  <2> QED BY <2>3, <2>4, <2>5
<1>8. TypeOK'
  BY <1>4, <1>5, <1>6, <1>7 DEF IInv, TypeOK, UsedType
<1>9. LiveIsLast'
  <2>1. ASSUME NEW m \in 1..Len(waiting'), waiting'[m].live, waiting'[m].key \notin overtaken'
        PROVE  /\ waiting'[m].key \in calls /\ Matches(waiting'[m])
               /\ \A l \in 1..Len(waiting') : m < l => waiting'[l].key # waiting'[m].key
    <3>1. waiting'[m] = waiting[At1(m)] /\ At1(m) \in 1..Len(waiting)
      BY <1>4
    <3>2. /\ waiting[At1(m)].key \in calls /\ Matches(waiting[At1(m)])
          /\ \A l \in 1..Len(waiting) : At1(m) < l => waiting[l].key # waiting[At1(m)].key
      BY <1>6, <2>1, <3>1 DEF IInv, LiveIsLast
    <3>3. \A l \in 1..Len(waiting') : m < l => At1(m) < At1(l)
      BY <1>1, <1>3, <1>4
    <3> QED BY <1>4, <3>1, <3>2, <3>3 DEF Matches
  <2>2. ASSUME c.live, c.key \notin overtaken'
        PROVE  /\ c.key \in calls /\ Matches(c)
               /\ \A l \in 1..Len(waiting') : waiting'[l].key # c.key
    <3>1. /\ c.key \in calls /\ Matches(c)
          /\ \A l \in 1..Len(waiting) : n < l => waiting[l].key # c.key
      BY <1>2, <1>6, <2>2 DEF c, IInv, LiveIsLast
    <3>2. \A l \in 1..Len(waiting) : l < n => waiting[l].key # c.key
      BY <1>6, <2>2
    <3>3. \A l \in 1..Len(waiting') : At1(l) < n \/ n < At1(l)
      BY <1>1, <1>3, <1>4
    <3> QED BY <1>4, <3>1, <3>2, <3>3
  <2> QED BY <1>5, <1>7, <2>1, <2>2 DEF LiveIsLast, Matches
<1>10. NoLateCalls'
  <2>1. \A k \in Keys \ overtaken' : know[k] \in {"none", "there"} => c.key # k
    BY <1>2, <1>6 DEF c, IInv, NoLateCalls
  <2>2. \A k \in Keys \ overtaken' : know[k] \in {"none", "there"} =>
            \A l \in 1..Len(waiting') : waiting'[l].key # k
    BY <1>4, <1>6 DEF IInv, NoLateCalls
  <2> QED BY <1>5, <1>7, <2>1, <2>2 DEF NoLateCalls
<1>11. NothingLeftBehind'
  BY <1>5, <1>6 DEF IInv, NothingLeftBehind
<1> QED
  BY <1>5, <1>7, <1>8, <1>9, <1>10, <1>11 DEF IInv, DeletedUnlabelled

-----------------------------------------------------------------------------
(***************************************************************************)
(* The sidecars and the cluster.                                           *)
(***************************************************************************)

\* A decision about an object for which no call is waited for, or left.
LEMMA InvDecide ==
    ASSUME IInv, NEW k \in Keys, NEW w \in {"creating", "deleting"}, Decide(k, w), UsedType',
           k \notin calls \/ know[k] \in {"none", "there"}
    PROVE  IInv'
<1>1. /\ UNCHANGED <<obj, handler, waiting, calls, overtaken>> /\ know' = [know EXCEPT ![k] = w]
      /\ know'[k] = w /\ \A j \in Keys \ {k} : know'[j] = know[j]
      /\ know' \in [Keys -> {"none", "creating", "there", "deleting"}]
  BY DEF Decide, IInv, TypeOK
<1>2. TypeOK'
  BY <1>1 DEF IInv, TypeOK, UsedType
<1>3. LiveIsLast'
  <2>1. calls \subseteq Keys
    BY DEF IInv, TypeOK
  <2>2. \A m \in 1..Len(waiting) :
          waiting[m].live /\ waiting[m].key \notin overtaken => waiting[m].key \in Keys \ {k}
    BY <2>1 DEF IInv, LiveIsLast, NoLateCalls
  <2>3. Busy /\ handler.live /\ handler.key \notin overtaken => handler.key \in Keys \ {k}
    BY <2>1 DEF IInv, LiveIsLast, NoLateCalls
  <2> QED BY <1>1, <2>2, <2>3 DEF IInv, LiveIsLast, Matches, Busy
<1>4. NoLateCalls'
  BY <1>1 DEF IInv, NoLateCalls, Busy
<1>5. NothingLeftBehind'
  BY <1>1 DEF IInv, NothingLeftBehind
<1> QED
  BY <1>1, <1>2, <1>3, <1>4, <1>5 DEF IInv, DeletedUnlabelled

\* A new call is behind those that were given up.
LEMMA InvSidecarCall == ASSUME IInv, NEW k \in Keys, SidecarCall(k) PROVE IInv'
<1> DEFINE c == [op |-> IF know[k] = "creating" THEN "create" ELSE "delete", key |-> k, live |-> TRUE]
           n == Len(waiting) + 1
<1>1. /\ waiting \in Seq(Calls) /\ Len(waiting) \in Nat /\ calls \in SUBSET Keys /\ k \notin calls
      /\ know[k] \in {"creating", "deleting"} /\ calls' = calls \cup {k}
      /\ UNCHANGED <<obj, handler, know, overtaken, used>>
  BY DEF SidecarCall, IInv, TypeOK
<1>2. /\ c \in Calls /\ c.key = k /\ c.live = TRUE
      /\ c.op = IF know[k] = "creating" THEN "create" ELSE "delete"
  BY DEF Calls, Ops
<1>3. waiting' = Append(waiting, c)
  BY DEF SidecarCall
<1> HIDE DEF c
<1>4. /\ waiting' \in Seq(Calls) /\ Len(waiting') = n /\ waiting'[n] = c
      /\ \A l \in 1..Len(waiting) : waiting'[l] = waiting[l]
  BY <1>1, <1>2, <1>3
<1>5. TypeOK'
  BY <1>1, <1>4 DEF IInv, TypeOK
<1>6. Matches(c)
  BY <1>1, <1>2 DEF Matches
<1>7. LiveIsLast'
  <2>1. ASSUME NEW m \in 1..n, waiting'[m].live, waiting'[m].key \notin overtaken
        PROVE  /\ waiting'[m].key \in calls' /\ Matches(waiting'[m])
               /\ \A l \in 1..n : m < l => waiting'[l].key # waiting'[m].key
    <3>1. CASE m = n
      <4>1. waiting'[m] = c /\ ~\E l \in 1..n : m < l
        BY <1>1, <1>4, <3>1
      <4> QED BY <1>1, <1>2, <1>6, <4>1 DEF Matches
    <3>2. CASE m \in 1..Len(waiting)
      <4>1. /\ waiting'[m] = waiting[m] /\ waiting[m].key \in calls /\ Matches(waiting[m])
            /\ \A l \in 1..Len(waiting) : m < l => waiting[l].key # waiting[m].key
        BY <1>4, <2>1, <3>2 DEF IInv, LiveIsLast
      <4>2. waiting[m].key # k
        BY <1>1, <4>1
      <4>3. \A l \in 1..n : l = n \/ l \in 1..Len(waiting)
        BY <1>1
      <4>4. \A l \in 1..n : m < l => waiting'[l].key # waiting'[m].key
        BY <1>2, <1>4, <4>1, <4>2, <4>3
      <4> QED BY <1>1, <4>1, <4>4 DEF Matches
    <3> QED BY <1>1, <3>1, <3>2
  <2>2. ASSUME Busy, handler.live, handler.key \notin overtaken
        PROVE  /\ handler.key \in calls' /\ Matches(handler)
               /\ \A l \in 1..n : waiting'[l].key # handler.key
    <3>1. /\ handler.key \in calls /\ Matches(handler)
          /\ \A l \in 1..Len(waiting) : waiting[l].key # handler.key
      BY <2>2 DEF IInv, LiveIsLast
    <3>2. \A l \in 1..n : l = n \/ l \in 1..Len(waiting)
      BY <1>1
    <3> QED BY <1>1, <1>2, <1>4, <3>1, <3>2
  <2> QED BY <1>1, <1>4, <2>1, <2>2 DEF LiveIsLast, Matches, Busy
<1>8. NoLateCalls'
  <2>1. \A l \in 1..n : l = n \/ l \in 1..Len(waiting)
    BY <1>1
  <2> QED BY <1>1, <1>2, <1>4, <2>1 DEF IInv, NoLateCalls, Busy
<1> QED
  BY <1>1, <1>5, <1>7, <1>8 DEF IInv, DeletedUnlabelled, NothingLeftBehind

\* A call that is given up goes on, but nobody waits for it.
LEMMA InvSidecarTimeout == ASSUME IInv, NEW k \in Keys, SidecarTimeout(k) PROVE IInv'
<1>1. /\ waiting \in Seq(Calls) /\ Len(waiting) \in Nat /\ DOMAIN waiting = 1..Len(waiting)
      /\ calls' = calls \ {k} /\ UNCHANGED <<obj, know, overtaken>> /\ handler \in Handler
  BY DEF SidecarTimeout, IInv, TypeOK
<1>2. UsedType'
  BY UseTyped DEF SidecarTimeout, Fault, IInv, TypeOK, UsedType
<1>3. ASSUME NEW l \in 1..Len(waiting)
      PROVE  /\ waiting'[l] \in Calls /\ waiting'[l].key = waiting[l].key
             /\ waiting'[l].op = waiting[l].op
             /\ waiting'[l].live => waiting[l].live /\ waiting[l].key # k
  <2>1. waiting[l] \in Calls
    BY <1>1
  <2>2. waiting'[l] = IF waiting[l].key = k THEN [waiting[l] EXCEPT !.live = FALSE] ELSE waiting[l]
    BY <1>1 DEF SidecarTimeout, Abandoned
  <2> QED BY <2>1, <2>2 DEF Calls
<1>4. waiting' \in Seq(Calls) /\ Len(waiting') = Len(waiting)
  <2>1. waiting' \in [1..Len(waiting) -> Calls]
    BY <1>1, <1>3 DEF SidecarTimeout
  <2> QED BY <1>1, <2>1, LenOfFunction
<1>5. /\ handler' \in Handler /\ Busy' = Busy /\ handler'.pc = handler.pc
      /\ Busy => /\ handler'.key = handler.key /\ handler'.op = handler.op
                 /\ handler'.live => handler.live /\ handler.key # k
  <2>1. CASE Busy /\ handler.key = k
    <3> DEFINE h == [handler EXCEPT !.live = FALSE]
    <3>1. handler' = h
      BY <2>1 DEF SidecarTimeout, Busy, Abandoned
    <3>2. /\ h \in Handler /\ h.pc = handler.pc /\ h.key = handler.key /\ h.op = handler.op
          /\ h.live = FALSE
      BY <1>1, <2>1, AbandonedCall
    <3> HIDE DEF h
    <3>3. h # IdleHandler
      BY <1>1, <2>1, <3>2, HandlerFacts DEF IdleHandler
    <3> QED BY <2>1, <3>1, <3>2, <3>3 DEF Busy
  <2>2. CASE ~(Busy /\ handler.key = k)
    <3>1. handler' = handler
      BY <2>2 DEF SidecarTimeout, Busy
    <3> QED BY <1>1, <2>2, <3>1 DEF Busy
  <2> QED BY <2>1, <2>2
<1>6. TypeOK'
  BY <1>1, <1>2, <1>4, <1>5 DEF IInv, TypeOK, UsedType
<1>7. LiveIsLast'
  <2>1. ASSUME NEW m \in 1..Len(waiting), waiting'[m].live, waiting'[m].key \notin overtaken
        PROVE  /\ waiting'[m].key \in calls' /\ Matches(waiting'[m])
               /\ \A l \in 1..Len(waiting) : m < l => waiting'[l].key # waiting'[m].key
    BY <1>1, <1>3, <2>1 DEF IInv, LiveIsLast, Matches
  <2>2. ASSUME Busy, handler'.live, handler'.key \notin overtaken
        PROVE  /\ handler'.key \in calls' /\ Matches(handler')
               /\ \A l \in 1..Len(waiting) : waiting'[l].key # handler'.key
    BY <1>1, <1>3, <1>5, <2>2 DEF IInv, LiveIsLast, Matches
  <2> QED BY <1>1, <1>4, <1>5, <2>1, <2>2 DEF LiveIsLast, Matches
<1>8. NoLateCalls'
  BY <1>1, <1>3, <1>4, <1>5 DEF IInv, NoLateCalls
<1>9. DeletedUnlabelled'
  <2>1. handler.pc = "delete" => Busy
    BY BusyByPc
  <2> QED BY <1>1, <1>5, <2>1 DEF IInv, DeletedUnlabelled
<1> QED
  BY <1>1, <1>6, <1>7, <1>8, <1>9 DEF IInv, NothingLeftBehind

\* What the cluster, or somebody else, does to an object makes none of those that
\* are going, and puts no label on.
LEMMA InvObject ==
    ASSUME IInv, NEW k \in Keys, obj' \in [Keys -> Object], UsedType',
           UNCHANGED <<handler, sidecarVars>>, \A j \in Keys \ {k} : obj'[j] = obj[j],
           obj'[k].label => obj[k].label,
           obj[k].state \in GoneOrGoing => obj'[k].state \in GoneOrGoing
    PROVE  IInv'
<1>1. UNCHANGED <<handler, waiting, know, calls, overtaken>>
  BY DEF sidecarVars
<1>2. TypeOK' /\ LiveIsLast' /\ NoLateCalls'
  BY <1>1 DEF IInv, TypeOK, UsedType, LiveIsLast, NoLateCalls, Matches, Busy
<1>3. NothingLeftBehind'
  BY <1>1 DEF IInv, NothingLeftBehind
<1>4. DeletedUnlabelled'
  <2>1. handler.pc = "delete" => handler.key \in Keys
    BY BusyByPc, HandlerFacts DEF IInv, TypeOK
  <2> QED BY <1>1, <2>1 DEF IInv, DeletedUnlabelled
<1> QED
  BY <1>2, <1>3, <1>4 DEF IInv

\* The cluster's controllers, and an accidental deletion.
LEMMA InvCluster == ASSUME IInv, NEW k \in Keys, ClusterStep(k) \/ StrayDelete(k) PROVE IInv'
<1>1. obj \in [Keys -> Object] /\ obj[k] \in Object /\ UsedType
  BY DEF IInv, TypeOK, UsedType
<1>2. UsedType'
  BY <1>1, UseTyped DEF ClusterStep, Ready, Vanish, Becomes, StrayDelete, Fault, UsedType
<1>3. ASSUME NEW o \in Object, Becomes(k, o), o.label => obj[k].label,
             obj[k].state \in GoneOrGoing => o.state \in GoneOrGoing
      PROVE  IInv'
  <2>1. /\ obj' \in [Keys -> Object] /\ obj'[k] = o /\ \A j \in Keys \ {k} : obj'[j] = obj[j]
        /\ UNCHANGED <<handler, sidecarVars>>
    BY <1>1, <1>3 DEF Becomes
  <2> QED BY <1>2, <1>3, <2>1, InvObject
<1>4. CASE Ready(k)
  <2> DEFINE o == [obj[k] EXCEPT !.state = "live"]
  <2>1. o \in Object /\ o.label = obj[k].label
    BY <1>1 DEF Object, States
  <2>2. Becomes(k, o) /\ obj[k].state = "pending"
    BY <1>4 DEF Ready, Startable
  <2> HIDE DEF o
  <2> QED BY <1>3, <2>1, <2>2 DEF GoneOrGoing
<1>5. CASE Vanish(k)
  <2>1. Gone \in Object /\ ~Gone.label /\ Gone.state \in GoneOrGoing
    BY DEF Gone, Object, States, GoneOrGoing
  <2> QED BY <1>3, <1>5, <2>1 DEF Vanish
<1>6. CASE StrayDelete(k)
  <2>1. obj' = Deleted(k) /\ UNCHANGED <<handler, sidecarVars>>
    BY <1>6 DEF StrayDelete
  <2> QED BY <1>1, <1>2, <2>1, ObjectFacts, InvObject
<1> QED
  BY <1>4, <1>5, <1>6 DEF ClusterStep

-----------------------------------------------------------------------------
(***************************************************************************)
(* The invariant always holds, and so do the properties of the run.        *)
(***************************************************************************)

\* Nothing exists and nothing is called.
LEMMA InvInit == Init => IInv
<1> SUFFICES ASSUME Init PROVE IInv
  OBVIOUS
<1>1. waiting = <<>> /\ Len(waiting) = 0 /\ waiting \in Seq(Calls) /\ handler = IdleHandler
  BY DEF Init
<1>2. ~Busy /\ handler.pc = "idle" /\ handler \in Handler
  BY <1>1 DEF Busy, IdleHandler, Handler
<1>3. Gone \in Object /\ Gone.state \in GoneOrGoing
  BY DEF Gone, Object, States, GoneOrGoing
<1>4. obj \in [Keys -> Object] /\ \A k \in Keys : obj[k] = Gone
  BY <1>3 DEF Init
<1>5. TypeOK
  BY <1>1, <1>2, <1>4 DEF Init, TypeOK
<1>6. NothingLeftBehind
  BY <1>3, <1>4 DEF NothingLeftBehind
<1> QED
  BY <1>1, <1>2, <1>5, <1>6 DEF IInv, LiveIsLast, NoLateCalls, DeletedUnlabelled

\* Every step keeps the invariant.
LEMMA InvNext == IInv /\ [Next]_vars => IInv'
<1> SUFFICES ASSUME IInv, [Next]_vars PROVE IInv'
  OBVIOUS
<1>1. CASE UNCHANGED vars
  BY <1>1 DEF vars, IInv, TypeOK, LiveIsLast, NoLateCalls, DeletedUnlabelled, NothingLeftBehind,
     Busy, Matches
<1>2. CASE ControllerStep
  BY <1>2, InvLockKey, InvCreateVolume, InvPublish, InvWaitForPod, InvDelete DEF ControllerStep
<1>3. CASE ControllerCrash
  <2>1. handler' = IdleHandler /\ waiting' = <<>> /\ calls' = {} /\ UNCHANGED <<obj, know, overtaken>>
    BY <1>3 DEF ControllerCrash
  <2>2. UsedType'
    BY <1>3, UseTyped DEF ControllerCrash, Fault, IInv, TypeOK, UsedType
  <2>3. ~Busy' /\ handler'.pc = "idle" /\ handler' \in Handler /\ Len(waiting') = 0
        /\ waiting' \in Seq(Calls)
    BY <2>1 DEF Busy, IdleHandler, Handler
  <2> QED
    BY <2>1, <2>2, <2>3
    DEF IInv, TypeOK, UsedType, LiveIsLast, NoLateCalls, DeletedUnlabelled, NothingLeftBehind
<1>4. CASE Unprovision
  <2>1. Backend \in Keys /\ UsedType'
    BY <1>4 DEF Keys, Unprovision, IInv, TypeOK, UsedType
  <2> QED BY <1>4, <2>1, InvDecide DEF Unprovision
<1>5. ASSUME NEW n \in Nodes, Attach(n) \/ Detach(n) PROVE IInv'
  <2>1. n \in Keys /\ UsedType'
    BY <1>5, UseTyped DEF Keys, Attach, Detach, IInv, TypeOK, UsedType
  <2> QED BY <1>5, <2>1, InvDecide DEF Attach, Detach
<1>6. ASSUME NEW k \in Keys, SidecarCall(k) \/ SidecarTimeout(k) \/ ClusterStep(k) \/ StrayDelete(k)
      PROVE  IInv'
  BY <1>6, InvSidecarCall, InvSidecarTimeout, InvCluster
<1> QED
  BY <1>1, <1>2, <1>3, <1>4, <1>5, <1>6 DEF Next

\* The invariant always holds.
LEMMA InvAlways == Spec => []IInv
  BY InvInit, InvNext, PTL DEF Spec

\* The controller, the objects it keeps and the sidecars stay well-typed; a call
\* to create a PVC in particular never comes to the steps that only Pods have.
THEOREM TypeCorrect == Spec => []TypeOK
<1>1. IInv => TypeOK
  BY DEF IInv
<1> QED BY <1>1, InvAlways, PTL

\* Whatever calls were given up, repeated, interrupted or lost, an object that
\* ControllerUnpublishVolume or DeleteVolume reported as deleted is gone or
\* going until it is wanted again (lines 150-179 and 339-375 of controller.go),
\* unless a call for this object has overtaken an earlier one at the mutex;
\* calls for other objects may.
THEOREM LeavesNothingBehind == Spec => []NothingLeftBehind
<1>1. IInv => NothingLeftBehind
  BY DEF IInv
<1> QED BY <1>1, InvAlways, PTL

\* An object that a sidecar was told of keeps its label and stays, until the
\* sidecar asks for its deletion: calls that were given up before have ended,
\* and the webhook rejects the deletions of others (main.go:93-98).  Again
\* calls for this object must not have overtaken one another.
THEOREM KeepsProtection == Spec => ProtectionKept
<1> DEFINE Protected(k) == obj[k].label /\ obj[k].state \in {"pending", "live"}
<1>1. ASSUME IInv, Next, NEW k \in Keys \ overtaken, know[k] = "there", Protected(k)
      PROVE  Protected(k)'
  <2>1. obj \in [Keys -> Object] /\ handler \in Handler
    BY <1>1 DEF IInv, TypeOK
  <2>2. Busy => handler.key # k
    BY <1>1 DEF IInv, NoLateCalls
  <2>3. ASSUME NEW j \in Keys, j # k,
               obj' = Created(j) \/ obj' = Unlabelled(j) \/ obj' = Deleted(j)
        PROVE  Protected(k)'
    BY <1>1, <2>1, <2>3, ObjectFacts
  <2>4. CASE UNCHANGED obj
    BY <1>1, <2>4
  <2>5. CASE ControllerStep
    <3>1. ControllerStep => LockKey \/ handler.pc # "idle"
      BY DEF ControllerStep, CreateVolume, CreateSubproviderPvc, ControllerPublishVolume,
         CreateIntermediatePod, WaitForPod, RefreshPvc, DeleteVolume, ControllerUnpublishVolume,
         DeleteEnter, UnlabelObject, DeleteObject, At
    <3>2. CASE LockKey
      BY <2>4, <3>2 DEF LockKey
    <3>3. CASE handler.pc # "idle"
      <4>1. handler.key \in Keys /\ handler.key # k
        BY <2>1, <2>2, <3>3, BusyByPc, HandlerFacts
      <4>2. \/ UNCHANGED obj
            \/ obj' = Created(handler.key) \/ obj' = Unlabelled(handler.key)
            \/ obj' = Deleted(handler.key)
        BY <2>5 DEF ControllerStep, LockKey, CreateVolume, CreateSubproviderPvc, ControllerPublishVolume,
         CreateIntermediatePod, WaitForPod, RefreshPvc, DeleteVolume, ControllerUnpublishVolume,
         DeleteEnter, UnlabelObject, DeleteObject
      <4> QED BY <2>3, <2>4, <4>1, <4>2
    <3> QED BY <2>5, <3>1, <3>2, <3>3
  <2>6. ASSUME NEW j \in Keys, StrayDelete(j) PROVE Protected(k)'
    <3>1. obj' = Deleted(j)
      BY <2>6 DEF StrayDelete
    <3> QED BY <1>1, <2>1, <3>1, ObjectFacts
  <2>7. ASSUME NEW j \in Keys, ClusterStep(j) PROVE Protected(k)'
    <3>1. CASE j # k
      BY <1>1, <2>1, <2>7, <3>1 DEF ClusterStep, Ready, Vanish, Becomes
    <3>2. CASE j = k
      <4> DEFINE o == [obj[k] EXCEPT !.state = "live"]
      <4>1. obj[k] \in Object /\ obj[k].state \notin {"terminating", "dropped"}
        BY <1>1, <2>1
      <4>2. o.label = obj[k].label /\ o.state = "live"
        BY <4>1 DEF Object
      <4>3. obj' = [obj EXCEPT ![k] = o]
        BY <2>7, <3>2, <4>1 DEF ClusterStep, Ready, Vanish, Becomes
      <4> HIDE DEF o
      <4> QED BY <1>1, <2>1, <4>2, <4>3
    <3> QED BY <3>1, <3>2
  <2>8. \/ ControllerStep \/ UNCHANGED obj
        \/ \E j \in Keys : ClusterStep(j) \/ StrayDelete(j)
    BY <1>1 DEF Next, ControllerCrash, Unprovision, Attach, Detach, Decide, SidecarCall, SidecarTimeout
  <2> QED
    BY <2>4, <2>5, <2>6, <2>7, <2>8
<1>2. IInv /\ [Next]_vars => [\A k \in Keys \ overtaken : know[k] = "there" /\ obj[k].label /\ obj[k].state \in {"pending", "live"} =>
             obj'[k].label /\ obj'[k].state \in {"pending", "live"}]_vars
  BY <1>1
<1> QED BY <1>2, InvAlways, PTL DEF Spec, ProtectionKept
=============================================================================
