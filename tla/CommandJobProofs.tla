-------------------------- MODULE CommandJobProofs --------------------------
(***************************************************************************)
(* Proofs about command Jobs, for every set of callers and commands, every *)
(* length of names, and any number of faults.                              *)
(***************************************************************************)
EXTENDS CommandJob, FiniteSetTheorems, TLAPS

-----------------------------------------------------------------------------
(***************************************************************************)
(* The inductive invariant.                                                *)
(***************************************************************************)
Working == {"watch", "wait", "pods", "logs", "delete"}

CallShape == [pc : PCs, uid : Nat, exit : {"unknown", "zero", "other"}, answer : {"failed", "ok"}]

\* The types, without the bound on the number of Jobs.
Shapes ==
    /\ command \in Commands
    /\ call \in [Callers -> CallShape]
    /\ job \in Seq(Job)
    /\ effect \subseteq 1..Len(job)
    /\ \A c \in Callers : call[c].uid \in 0..Len(job)
    /\ used \in 0..MaxFaults

\* A call that is under way works with a Job of its own, which is still there;
\* one that is done knows its Job.
OwnJob ==
    \A c \in Callers :
        /\ call[c].pc \in Working =>
              /\ call[c].uid \in 1..Len(job)
              /\ job[call[c].uid].caller = c
              /\ job[call[c].uid].state # "deleted"
        /\ call[c].pc = "ok" => call[c].uid \in 1..Len(job)

\* A name is taken by one Job at a time.
NamesTaken ==
    \A u, w \in 1..Len(job) :
        /\ job[u].state # "deleted" /\ job[w].state # "deleted"
        /\ Name(job[u].caller) = Name(job[w].caller)
        => u = w

\* A Job with a pod that succeeded has carried out its command.
EffectOfPods ==
    \A u \in 1..Len(job) : job[u].pod = "succeeded" => u \in effect

\* What a call has read or is going to answer.
Reading ==
    \A c \in Callers :
        /\ At(c, "logs") /\ call[c].exit = "zero" => call[c].uid \in effect
        /\ \/ At(c, "delete") /\ call[c].answer = "ok"
           \/ At(c, "ok")
           => (Letter(c) \in {"S", "A", "Q"} => call[c].uid \in effect)

\* The callers that can create a further Job without a further fault: those that
\* are not in a call, and those whose call can only fail.
Excused(c) ==
    \/ call[c].pc \in {"idle", "failed"}
    \/ At(c, "delete") /\ call[c].answer = "failed"
    \/ call[c].pc \in {"watch", "wait", "pods", "logs"} /\ job[call[c].uid].failed > 0
    \/ At(c, "pods") /\ job[call[c].uid].pod # "succeeded"
    \/ At(c, "logs") /\ call[c].exit # "zero"
ExcusedSet == {c \in Callers : Excused(c)}

\* Every Job costs a caller or a fault.
JobsPaid == Len(job) + Cardinality(ExcusedSet) <= Cardinality(Callers) + used

IInv == Shapes /\ OwnJob /\ NamesTaken /\ EffectOfPods /\ Reading

-----------------------------------------------------------------------------
(***************************************************************************)
(* Steps of a call.                                                        *)
(***************************************************************************)

\* What Goto and Answer do to the record of a call.
LEMMA GotoCall ==
    ASSUME Shapes, NEW c \in Callers, NEW pc \in PCs
    PROVE  LET r == [call[c] EXCEPT !.pc = pc]
           IN  /\ r \in CallShape /\ r.pc = pc /\ r.uid = call[c].uid
               /\ r.exit = call[c].exit /\ r.answer = call[c].answer
<1>1. call[c] \in CallShape
  BY DEF Shapes
<1> QED
  BY <1>1 DEF CallShape

\* The record of a call of ExecCommandJob that has its answer and has yet to
\* delete its Job.
LEMMA AnswerCall ==
    ASSUME Shapes, NEW c \in Callers, NEW a \in {"failed", "ok"}
    PROVE  LET r == [call[c] EXCEPT !.pc = "delete", !.answer = a]
           IN  /\ r \in CallShape /\ r.pc = "delete" /\ r.uid = call[c].uid
               /\ r.exit = call[c].exit /\ r.answer = a
<1>1. call[c] \in CallShape
  BY DEF Shapes
<1> QED
  BY <1>1 DEF CallShape, PCs

\* A fault is counted.
LEMMA FaultUsed ==
    ASSUME Shapes, NEW k, Fault(k)
    PROVE  used' = used + 1 /\ used' \in 0..MaxFaults
  BY JobAssumption DEF Shapes, Fault

\* A step of a call that neither creates nor deletes a Job.
LEMMA CallStep ==
    ASSUME IInv, NEW c \in Callers, NEW r \in CallShape,
           call' = [call EXCEPT ![c] = r], UNCHANGED <<command, job, effect>>,
           used' \in 0..MaxFaults, r.uid = call[c].uid,
           r.pc \in Working \cup {"ok"} => call[c].pc \in Working,
           r.pc = "logs" /\ r.exit = "zero" => r.uid \in effect,
           (r.pc = "delete" /\ r.answer = "ok") \/ r.pc = "ok"
               => (Letter(c) \in {"S", "A", "Q"} => r.uid \in effect)
    PROVE  IInv'
<1>1. \A d \in Callers : call'[d] = IF d = c THEN r ELSE call[d]
  BY DEF IInv, Shapes
<1>2. Shapes'
  <2>1. call' \in [Callers -> CallShape]
    BY DEF IInv, Shapes
  <2>2. \A d \in Callers : call'[d].uid \in 0..Len(job)
    BY <1>1 DEF IInv, Shapes
  <2> QED
    BY <2>1, <2>2 DEF IInv, Shapes
<1>3. OwnJob'
  <2> SUFFICES ASSUME NEW d \in Callers
               PROVE  /\ call'[d].pc \in Working =>
                           /\ call'[d].uid \in 1..Len(job)
                           /\ job[call'[d].uid].caller = d
                           /\ job[call'[d].uid].state # "deleted"
                      /\ call'[d].pc = "ok" => call'[d].uid \in 1..Len(job)
    BY DEF OwnJob
  <2>1. CASE d = c
    BY <1>1, <2>1 DEF IInv, OwnJob, Working
  <2>2. CASE d # c
    BY <1>1, <2>2 DEF IInv, OwnJob
  <2> QED BY <2>1, <2>2
<1>4. NamesTaken'
  BY DEF IInv, NamesTaken, Name
<1>5. EffectOfPods'
  BY DEF IInv, EffectOfPods
<1>6. Reading'
  <2> SUFFICES ASSUME NEW d \in Callers
               PROVE  /\ call'[d].pc = "logs" /\ call'[d].exit = "zero" => call'[d].uid \in effect
                      /\ \/ call'[d].pc = "delete" /\ call'[d].answer = "ok"
                         \/ call'[d].pc = "ok"
                         => (Letter(d) \in {"S", "A", "Q"} => call'[d].uid \in effect)
    BY DEF Reading, At, Letter
  <2>1. CASE d = c
    BY <1>1, <2>1
  <2>2. CASE d # c
    BY <1>1, <2>2 DEF IInv, Reading, At
  <2> QED BY <2>1, <2>2
<1> QED
  BY <1>2, <1>3, <1>4, <1>5, <1>6 DEF IInv

\* The answer of a call that ends without reading a result is an error.
LEMMA Fails ==
    ASSUME IInv, NEW c \in Callers, call[c].pc \in Working, Answer(c, "failed"),
           UNCHANGED <<command, job, effect>>, used' \in 0..MaxFaults
    PROVE  IInv'
<1> DEFINE r == [call[c] EXCEPT !.pc = "delete", !.answer = "failed"]
<1>1. r \in CallShape /\ r.pc = "delete" /\ r.uid = call[c].uid /\ r.answer = "failed"
  BY AnswerCall DEF IInv
<1>2. call' = [call EXCEPT ![c] = r]
  BY DEF Answer
<1> HIDE DEF r
<1> QED
  BY <1>1, <1>2, CallStep

\* A call goes on, waits, or comes back after an error.
LEMMA Moves ==
    ASSUME IInv, NEW c \in Callers, NEW pc \in {"wait", "pods", "failed", "idle"}, Goto(c, pc),
           call[c].pc \in Working \/ pc \in {"failed", "idle"},
           UNCHANGED <<command, job, effect>>, used' \in 0..MaxFaults
    PROVE  IInv'
<1> DEFINE r == [call[c] EXCEPT !.pc = pc]
<1>0. pc \in PCs
  BY DEF PCs
<1>1. r \in CallShape /\ r.pc = pc /\ r.uid = call[c].uid
  BY <1>0, GotoCall DEF IInv
<1>2. call' = [call EXCEPT ![c] = r]
  BY DEF Goto
<1> HIDE DEF r
<1>3. r.pc \notin {"delete", "logs", "ok", "watch"}
  BY <1>1
<1> QED
  BY <1>1, <1>2, <1>3, CallStep DEF Working

\* The pods whose state is read as "succeeded" are those of the Job of the call,
\* which is what the uid in the label selector is for (lines 173-186).
LEMMA InvListPods == ASSUME IInv, NEW c \in Callers, ListPods(c), UNCHANGED command PROVE IInv'
<1>1. call[c].pc = "pods" /\ call[c].pc \in Working /\ UNCHANGED <<command, job, effect>>
  BY DEF ListPods, At, Working
<1>2. ASSUME used' \in 0..MaxFaults, Answer(c, "failed") PROVE IInv'
  BY <1>1, <1>2, Fails
<1>3. ASSUME NEW p \in SeenPods(c) \ {"starting"}, UNCHANGED used,
             call' = [call EXCEPT ![c] = [call[c] EXCEPT !.pc = "logs",
                              !.exit = CASE p = "succeeded" -> "zero"
                                         [] p = "failed"    -> "other"
                                         [] p = "running"   -> "unknown"]]
      PROVE  IInv'
  <2> DEFINE e == CASE p = "succeeded" -> "zero" [] p = "failed" -> "other" [] p = "running" -> "unknown"
             r == [call[c] EXCEPT !.pc = "logs", !.exit = e]
             j == job[call[c].uid]
  <2>1. call[c].uid \in 1..Len(job) /\ j \in Job
    <3>1. call[c].uid \in 1..Len(job)
      BY <1>1 DEF IInv, OwnJob
    <3> QED BY <3>1 DEF IInv, Shapes
  <2>2. p = "failed" \/ p = "running" \/ (p = "succeeded" /\ j.pod = "succeeded")
    BY <2>1 DEF SeenPods, Job
  <2>3. e \in {"unknown", "zero", "other"} /\ (e = "zero" => j.pod = "succeeded")
    BY <2>2
  <2> HIDE DEF e
  <2>4. r \in CallShape /\ r.pc = "logs" /\ r.uid = call[c].uid /\ r.exit = e
    <3>1. call[c] \in CallShape
      BY DEF IInv, Shapes
    <3> QED BY <2>3, <3>1 DEF CallShape, PCs
  <2>5. call' = [call EXCEPT ![c] = r]
    BY <1>3 DEF e
  <2> HIDE DEF r
  <2>6. r.exit = "zero" => r.uid \in effect
    BY <2>1, <2>3, <2>4 DEF IInv, EffectOfPods
  <2>7. used' \in 0..MaxFaults
    BY <1>3 DEF IInv, Shapes
  <2> QED
    BY <1>1, <2>4, <2>5, <2>6, <2>7, CallStep
<1> QED
  <2>1. CASE Fault("api") /\ Answer(c, "failed")
    BY <1>2, <2>1, FaultUsed DEF IInv
  <2>2. CASE UNCHANGED used /\ Answer(c, "failed")
    BY <1>2, <2>2 DEF IInv, Shapes
  <2> QED
    BY <1>3, <2>1, <2>2 DEF ListPods

\* The result is taken for done only with exit code zero, unless the command is
\* one whose caller does not look (api.go).
LEMMA InvGetLogs == ASSUME IInv, NEW c \in Callers, GetLogs(c), UNCHANGED command PROVE IInv'
<1>1. call[c].pc = "logs" /\ call[c].pc \in Working /\ UNCHANGED <<command, job, effect>>
  BY DEF GetLogs, At, Working
<1>2. ASSUME NEW gone \in BOOLEAN, Accepted(c, gone), Answer(c, "ok"), UNCHANGED used PROVE IInv'
  <2> DEFINE r == [call[c] EXCEPT !.pc = "delete", !.answer = "ok"]
  <2>1. r \in CallShape /\ r.pc = "delete" /\ r.uid = call[c].uid
    BY AnswerCall DEF IInv
  <2>2. call' = [call EXCEPT ![c] = r]
    BY <1>2 DEF Answer
  <2> HIDE DEF r
  <2>3. Letter(c) \in {"S", "A", "Q"} => r.uid \in effect
    BY <1>1, <1>2, <2>1 DEF IInv, Reading, At, Accepted
  <2>4. used' \in 0..MaxFaults
    BY <1>2 DEF IInv, Shapes
  <2> QED
    BY <1>1, <2>1, <2>2, <2>3, <2>4, CallStep
<1> QED
  <2>1. CASE Fault("api") /\ Answer(c, "failed")
    BY <1>1, <2>1, Fails, FaultUsed DEF IInv
  <2>2. CASE UNCHANGED used /\ Answer(c, "failed")
    BY <1>1, <2>2, Fails DEF IInv, Shapes
  <2> QED
    BY <1>2, <2>1, <2>2 DEF GetLogs

\* A function on 1..n is a sequence of length n (the Jobs and their effects).
LEMMA LenOfFunction ==
    ASSUME NEW S, NEW n \in Nat, NEW s \in [1..n -> S]
    PROVE  s \in Seq(S) /\ Len(s) = n
  OBVIOUS

\* A Job is created only if its name is free, so the calls that are under way
\* keep their Jobs and names (lines 139-146).
LEMMA InvCreated ==
    ASSUME IInv, NEW c \in Callers, NEW r \in CallShape, call[c].pc = "idle",
           Named(c) = {}, Created(c), call' = [call EXCEPT ![c] = r], UNCHANGED command,
           used' \in 0..MaxFaults,
           \/ r.pc = "watch" /\ r.uid = Len(job) + 1
           \/ r.pc = "failed" /\ r.uid = call[c].uid
    PROVE  IInv'
<1> DEFINE n == Len(job) + 1
           j == NewCasadmJob(c)
<1>1. j \in Job /\ j.caller = c /\ j.state = "active" /\ j.pod = "none"
  BY DEF NewCasadmJob, Job
<1>2. /\ job \in Seq(Job) /\ Len(job) \in Nat /\ n \in Nat
      /\ effect \subseteq 1..Len(job) /\ DOMAIN job = 1..Len(job)
  BY DEF IInv, Shapes
<1>3. /\ job' \in Seq(Job) /\ Len(job') = n /\ job'[n] = j
      /\ \A u \in 1..Len(job) : job'[u] = job[u]
  <2>1. job' = Append(job, j)
    BY DEF Created
  <2> HIDE DEF j
  <2> QED
    BY <1>1, <1>2, <2>1
<1>5. effect' = effect
  BY DEF Created
<1> HIDE DEF j
<1>6. \A d \in Callers : call'[d] = IF d = c THEN r ELSE call[d]
  BY DEF IInv, Shapes
<1>7. Shapes'
  <2>1. call' \in [Callers -> CallShape]
    BY DEF IInv, Shapes
  <2>2. \A d \in Callers : call'[d].uid \in 0..n
    BY <1>2, <1>6 DEF IInv, Shapes
  <2> QED
    BY <1>3, <1>5, <2>1, <2>2 DEF IInv, Shapes
<1>8. OwnJob'
  <2> SUFFICES ASSUME NEW d \in Callers
               PROVE  /\ call'[d].pc \in Working =>
                           /\ call'[d].uid \in 1..n
                           /\ job'[call'[d].uid].caller = d
                           /\ job'[call'[d].uid].state # "deleted"
                      /\ call'[d].pc = "ok" => call'[d].uid \in 1..n
    BY <1>3 DEF OwnJob
  <2>1. CASE d = c
    BY <1>1, <1>2, <1>3, <1>6, <2>1 DEF Working
  <2>2. CASE d # c
    BY <1>2, <1>3, <1>6, <2>2 DEF IInv, OwnJob
  <2> QED BY <2>1, <2>2
<1>9. NamesTaken'
  <2> SUFFICES ASSUME NEW u \in 1..n, NEW w \in 1..n,
                      job'[u].state # "deleted", job'[w].state # "deleted",
                      Name(job'[u].caller) = Name(job'[w].caller)
               PROVE  u = w
    BY <1>3 DEF NamesTaken, Name
  <2>1. \A x \in 1..Len(job) : job[x].state # "deleted" => Name(job[x].caller) # Name(c)
    BY <1>2 DEF Named
  <2>2. CASE u = n /\ w # n
    BY <1>1, <1>2, <1>3, <2>1, <2>2
  <2>3. CASE u # n /\ w = n
    BY <1>1, <1>2, <1>3, <2>1, <2>3
  <2>4. CASE u # n /\ w # n
    <3>1. u \in 1..Len(job) /\ w \in 1..Len(job)
      BY <1>2, <2>4
    <3> QED BY <1>3, <3>1 DEF IInv, NamesTaken
  <2> QED BY <2>2, <2>3, <2>4
<1>10. EffectOfPods'
  <2> SUFFICES ASSUME NEW u \in 1..n
               PROVE  job'[u].pod = "succeeded" => u \in effect'
    BY <1>3 DEF EffectOfPods
  <2>1. CASE u = n
    BY <1>1, <1>3, <1>5, <2>1
  <2>2. CASE u \in 1..Len(job)
    BY <1>3, <1>5, <2>2 DEF IInv, EffectOfPods
  <2> QED BY <1>2, <2>1, <2>2
<1>11. Reading'
  <2> SUFFICES ASSUME NEW d \in Callers
               PROVE  /\ call'[d].pc = "logs" /\ call'[d].exit = "zero" => call'[d].uid \in effect'
                      /\ \/ call'[d].pc = "delete" /\ call'[d].answer = "ok"
                         \/ call'[d].pc = "ok"
                         => (Letter(d) \in {"S", "A", "Q"} => call'[d].uid \in effect')
    BY DEF Reading, At, Letter
  <2>1. CASE d = c
    BY <1>6, <2>1
  <2>2. CASE d # c
    <3>1. call[d].pc \in {"logs", "delete", "ok"} => call[d].uid \in 1..Len(job)
      BY DEF IInv, OwnJob, Working
    <3> QED
      BY <1>5, <1>6, <2>2, <3>1 DEF IInv, Reading, At
  <2> QED BY <2>1, <2>2
<1> QED
  BY <1>7, <1>8, <1>9, <1>10, <1>11 DEF IInv

\* The record of a call that has just created its Job.
LEMMA WatchingCall ==
    ASSUME NEW n \in Nat
    PROVE  LET r == [NewCall EXCEPT !.pc = "watch", !.uid = n]
           IN  r \in CallShape /\ r.pc = "watch" /\ r.uid = n
<1>1. NewCall \in CallShape
  BY DEF NewCall, NoUid, CallShape, PCs
<1> QED
  BY <1>1 DEF CallShape, PCs

\* Creating a Job, with or without an answer.
LEMMA InvCreateJob == ASSUME IInv, NEW c \in Callers, CreateJob(c), UNCHANGED command PROVE IInv'
<1>0. call[c].pc = "idle" /\ call[c] \in CallShape /\ used \in 0..MaxFaults
  BY DEF CreateJob, At, IInv, Shapes
<1>1. ASSUME Named(c) = {}, Created(c), UNCHANGED used,
             call' = [call EXCEPT ![c] = [NewCall EXCEPT !.pc = "watch", !.uid = Len(job) + 1]]
      PROVE  IInv'
  <2> DEFINE r == [NewCall EXCEPT !.pc = "watch", !.uid = Len(job) + 1]
  <2>1. r \in CallShape /\ r.pc = "watch" /\ r.uid = Len(job) + 1
    <3>1. Len(job) + 1 \in Nat
      BY DEF IInv, Shapes
    <3> QED BY <3>1, WatchingCall
  <2>2. call' = [call EXCEPT ![c] = r]
    BY <1>1
  <2> HIDE DEF r
  <2> QED BY <1>0, <1>1, <2>1, <2>2, InvCreated
<1>2. ASSUME Named(c) = {}, Created(c), Fault("lost"), Goto(c, "failed")
      PROVE  IInv'
  <2> DEFINE r == [call[c] EXCEPT !.pc = "failed"]
  <2>1. r \in CallShape /\ r.pc = "failed" /\ r.uid = call[c].uid
    BY GotoCall DEF IInv, PCs
  <2>2. call' = [call EXCEPT ![c] = r]
    BY <1>2 DEF Goto
  <2>3. used' \in 0..MaxFaults
    BY <1>2, FaultUsed DEF IInv
  <2> HIDE DEF r
  <2> QED BY <1>0, <1>2, <2>1, <2>2, <2>3, InvCreated
<1>3. ASSUME UNCHANGED used \/ Fault("api"), Goto(c, "failed"), UNCHANGED <<job, effect>>
      PROVE  IInv'
  <2>1. used' \in 0..MaxFaults
    BY <1>0, <1>3, FaultUsed DEF IInv
  <2> QED BY <1>3, <2>1, Moves
<1> QED
  BY <1>1, <1>2, <1>3 DEF CreateJob

\* A deletion by name marks Jobs and changes nothing else of them.
LEMMA DeletedByName ==
    ASSUME Shapes, NEW c \in Callers,
           job' = [u \in DOMAIN job |->
                     IF u \in Named(c) THEN [job[u] EXCEPT !.state = "deleted"] ELSE job[u]]
    PROVE  /\ job' \in Seq(Job) /\ Len(job') = Len(job)
           /\ \A u \in 1..Len(job) :
                 /\ job'[u] \in Job /\ job'[u].caller = job[u].caller
                 /\ job'[u].pod = job[u].pod /\ job'[u].failed = job[u].failed
                 /\ job'[u].state = IF u \in Named(c) THEN "deleted" ELSE job[u].state
<1>1. job \in Seq(Job) /\ DOMAIN job = 1..Len(job) /\ Len(job) \in Nat
  BY DEF Shapes
<1>2. ASSUME NEW u \in 1..Len(job)
      PROVE  /\ job'[u] \in Job /\ job'[u].caller = job[u].caller
             /\ job'[u].pod = job[u].pod /\ job'[u].failed = job[u].failed
             /\ job'[u].state = IF u \in Named(c) THEN "deleted" ELSE job[u].state
  <2>1. job[u] \in Job
    BY <1>1
  <2>2. job'[u] = IF u \in Named(c) THEN [job[u] EXCEPT !.state = "deleted"] ELSE job[u]
    BY <1>1
  <2> QED BY <2>1, <2>2 DEF Job
<1>3. job' \in [1..Len(job) -> Job]
  BY <1>1, <1>2
<1> QED BY <1>1, <1>2, <1>3, LenOfFunction

\* The deletion by name takes no Job from a call that is under way: the name is
\* taken by the Job of the call that deletes.
LEMMA InvDeleteJob == ASSUME IInv, NEW c \in Callers, DeleteJob(c), UNCHANGED command PROVE IInv'
<1> DEFINE r == [call[c] EXCEPT !.pc = call[c].answer]
<1>0. call[c].pc = "delete" /\ call[c] \in CallShape /\ used \in 0..MaxFaults /\ effect' = effect
  BY DEF DeleteJob, At, IInv, Shapes
<1>1. r \in CallShape /\ r.pc = call[c].answer /\ r.uid = call[c].uid /\ r.pc \in {"failed", "ok"}
  BY <1>0, GotoCall DEF IInv, PCs, CallShape
<1>2. call' = [call EXCEPT ![c] = r]
  BY DEF DeleteJob, Goto
<1> HIDE DEF r
<1>3. r.pc = "ok" => (Letter(c) \in {"S", "A", "Q"} => r.uid \in effect)
  BY <1>0, <1>1 DEF IInv, Reading, At
<1>4. CASE Fault("api") /\ UNCHANGED job
  <2>1. used' \in 0..MaxFaults
    BY <1>4, FaultUsed DEF IInv
  <2>2. r.pc \notin {"logs", "delete"} /\ call[c].pc \in Working
    BY <1>0, <1>1 DEF Working
  <2> QED BY <1>0, <1>1, <1>2, <1>3, <1>4, <2>1, <2>2, CallStep
<1>5. CASE UNCHANGED used /\ job' = [u \in DOMAIN job |->
             IF u \in Named(c) THEN [job[u] EXCEPT !.state = "deleted"] ELSE job[u]]
  <2>1. Len(job) \in Nat
    BY DEF IInv, Shapes
  <2>2. ASSUME NEW u \in 1..Len(job)
        PROVE  /\ job'[u] \in Job /\ job'[u].caller = job[u].caller /\ job'[u].pod = job[u].pod
               /\ job'[u].state = IF u \in Named(c) THEN "deleted" ELSE job[u].state
    BY <1>5, DeletedByName DEF IInv
  <2>3. job' \in Seq(Job) /\ Len(job') = Len(job)
    BY <1>5, DeletedByName DEF IInv
  <2>4. \A d \in Callers : call'[d] = IF d = c THEN r ELSE call[d]
    BY <1>2 DEF IInv, Shapes
  <2>5. ASSUME NEW d \in Callers, d # c, call[d].pc \in Working
        PROVE  call[d].uid \notin Named(c)
    <3>1. /\ call[c].uid \in 1..Len(job) /\ job[call[c].uid].caller = c
          /\ job[call[c].uid].state # "deleted"
      BY <1>0 DEF IInv, OwnJob, Working
    <3>2. /\ call[d].uid \in 1..Len(job) /\ job[call[d].uid].caller = d
          /\ job[call[d].uid].state # "deleted"
      BY <2>5 DEF IInv, OwnJob
    <3>3. ASSUME call[d].uid \in Named(c) PROVE FALSE
      <4>1. Name(job[call[d].uid].caller) = Name(job[call[c].uid].caller)
        BY <3>1, <3>3 DEF Named
      <4>2. call[d].uid = call[c].uid
        BY <3>1, <3>2, <4>1 DEF IInv, NamesTaken
      <4> QED BY <2>5, <3>1, <3>2, <4>2
    <3> QED BY <3>3
  <2>6. Shapes'
    <3>1. call' \in [Callers -> CallShape]
      BY <1>1, <1>2 DEF IInv, Shapes
    <3>2. \A d \in Callers : call'[d].uid \in 0..Len(job)
      BY <1>1, <2>4 DEF IInv, Shapes
    <3> QED BY <1>0, <1>5, <2>3, <3>1, <3>2 DEF IInv, Shapes
  <2>7. OwnJob'
    <3> SUFFICES ASSUME NEW d \in Callers
                 PROVE  /\ call'[d].pc \in Working =>
                             /\ call'[d].uid \in 1..Len(job)
                             /\ job'[call'[d].uid].caller = d
                             /\ job'[call'[d].uid].state # "deleted"
                        /\ call'[d].pc = "ok" => call'[d].uid \in 1..Len(job)
      BY <2>3 DEF OwnJob
    <3>1. CASE d = c
      BY <1>0, <1>1, <2>4, <3>1 DEF IInv, OwnJob, Working
    <3>2. CASE d # c
      BY <2>2, <2>4, <2>5, <3>2 DEF IInv, OwnJob
    <3> QED BY <3>1, <3>2
  <2>8. NamesTaken'
    BY <2>2, <2>3 DEF IInv, NamesTaken, Name
  <2>9. EffectOfPods'
    BY <1>0, <2>2, <2>3 DEF IInv, EffectOfPods
  <2>10. Reading'
    <3> SUFFICES ASSUME NEW d \in Callers
                 PROVE  /\ call'[d].pc = "logs" /\ call'[d].exit = "zero" => call'[d].uid \in effect
                        /\ \/ call'[d].pc = "delete" /\ call'[d].answer = "ok"
                           \/ call'[d].pc = "ok"
                           => (Letter(d) \in {"S", "A", "Q"} => call'[d].uid \in effect)
      BY <1>0 DEF Reading, At, Letter
    <3>1. CASE d = c
      BY <1>1, <1>3, <2>4, <3>1
    <3>2. CASE d # c
      BY <2>4, <3>2 DEF IInv, Reading, At
    <3> QED BY <3>1, <3>2
  <2> QED
    BY <2>6, <2>7, <2>8, <2>9, <2>10 DEF IInv
<1> QED
  BY <1>4, <1>5 DEF DeleteJob

\* Watching, waiting and coming back.
LEMMA InvMoves ==
    ASSUME IInv, NEW c \in Callers,
           WatchJob(c) \/ WaitForJob(c) \/ CallAgain(c) \/ Crash(c), UNCHANGED command
    PROVE  IInv'
<1>0. used \in 0..MaxFaults
  BY DEF IInv, Shapes
<1>1. ASSUME NEW k, Fault(k) PROVE used' \in 0..MaxFaults
  BY <1>1, FaultUsed DEF IInv
<1>2. CASE WatchJob(c)
  <2>1. call[c].pc \in Working /\ UNCHANGED <<job, effect>>
    BY <1>2 DEF WatchJob, At, Working
  <2>2. CASE Goto(c, "wait") /\ UNCHANGED used
    BY <1>0, <2>1, <2>2, Moves
  <2>3. CASE Fault("api") /\ Answer(c, "failed")
    BY <1>1, <2>1, <2>3, Fails
  <2> QED BY <1>2, <2>2, <2>3 DEF WatchJob
<1>3. CASE WaitForJob(c)
  <2>1. call[c].pc \in Working /\ Goto(c, "pods") /\ UNCHANGED <<job, effect>>
    BY <1>3 DEF WaitForJob, At, Working
  <2>2. used' \in 0..MaxFaults
    BY <1>0, <1>1, <1>3 DEF WaitForJob
  <2> QED BY <2>1, <2>2, Moves
<1>4. CASE CallAgain(c)
  BY <1>0, <1>4, Moves DEF CallAgain
<1>5. CASE Crash(c)
  <2>1. used' \in 0..MaxFaults
    BY <1>1, <1>5 DEF Crash
  <2> QED BY <1>5, <2>1, Moves DEF Crash
<1> QED
  BY <1>2, <1>3, <1>4, <1>5

-----------------------------------------------------------------------------
(***************************************************************************)
(* Steps of the cluster.                                                   *)
(***************************************************************************)

\* A step of one Job that leaves the calls alone.
LEMMA JobStep ==
    ASSUME IInv, NEW u \in 1..Len(job), NEW j \in Job,
           job' = [job EXCEPT ![u] = j], effect' \in {effect, effect \cup {u}},
           UNCHANGED <<command, call>>, used' \in 0..MaxFaults,
           j.caller = job[u].caller,
           job[u].state = "deleted" => j.state = "deleted",
           j.state = "deleted" => job[u].state = "deleted" \/ ~Attended(u),
           j.pod = "succeeded" => u \in effect'
    PROVE  IInv'
<1>1. job \in Seq(Job) /\ Len(job) \in Nat /\ DOMAIN job = 1..Len(job)
      /\ effect \subseteq 1..Len(job)
  BY DEF IInv, Shapes
<1>2. /\ job' \in Seq(Job) /\ Len(job') = Len(job)
      /\ \A w \in 1..Len(job) : job'[w] = IF w = u THEN j ELSE job[w]
  BY <1>1
<1>3. effect' \subseteq 1..Len(job) /\ effect \subseteq effect'
  BY <1>1
<1>4. Shapes'
  BY <1>2, <1>3 DEF IInv, Shapes
<1>5. OwnJob'
  <2> SUFFICES ASSUME NEW d \in Callers
               PROVE  /\ call[d].pc \in Working =>
                           /\ call[d].uid \in 1..Len(job)
                           /\ job'[call[d].uid].caller = d
                           /\ job'[call[d].uid].state # "deleted"
                      /\ call[d].pc = "ok" => call[d].uid \in 1..Len(job)
    BY <1>2 DEF OwnJob
  <2>1. call[d].pc \in Working /\ call[d].uid = u => Attended(u)
    BY DEF Attended, Working
  <2> QED
    BY <1>2, <2>1 DEF IInv, OwnJob
<1>6. NamesTaken'
  <2>1. \A w \in 1..Len(job) : /\ job'[w].caller = job[w].caller
                               /\ job[w].state = "deleted" => job'[w].state = "deleted"
    BY <1>2
  <2> QED
    BY <1>2, <2>1 DEF IInv, NamesTaken, Name
<1>7. EffectOfPods'
  BY <1>2, <1>3 DEF IInv, EffectOfPods
<1>8. Reading'
  <2> SUFFICES ASSUME NEW d \in Callers
               PROVE  /\ call[d].pc = "logs" /\ call[d].exit = "zero" => call[d].uid \in effect'
                      /\ \/ call[d].pc = "delete" /\ call[d].answer = "ok"
                         \/ call[d].pc = "ok"
                         => (Letter(d) \in {"S", "A", "Q"} => call[d].uid \in effect')
    BY DEF Reading, At, Letter
  <2>1. call[d].pc \in {"logs", "delete", "ok"} => call[d].uid \in 1..Len(job)
    BY DEF IInv, OwnJob, Working
  <2>2. call[d].uid \in effect => call[d].uid \in effect'
    BY <1>3
  <2> QED
    BY <2>1, <2>2 DEF IInv, Reading, At
<1> QED
  BY <1>4, <1>5, <1>6, <1>7, <1>8 DEF IInv

\* A pod succeeds only by carrying out the command of its Job (lines 105-128).
LEMMA InvCluster == ASSUME IInv, ClusterStep PROVE IInv'
<1>1. PICK u \in DOMAIN job :
          \/ StartPod(u) \/ RunPod(u) \/ PodSucceeds(u) \/ PodFails(u)
          \/ RemovePods(u) \/ ExpireJob(u)
  BY DEF ClusterStep
<1>2. /\ UNCHANGED command /\ u \in 1..Len(job) /\ job[u] \in Job /\ used \in 0..MaxFaults
      /\ effect \subseteq 1..Len(job)
  BY DEF ClusterStep, IInv, Shapes
<1>4. job[u].pod = "succeeded" => u \in effect
  BY <1>2 DEF IInv, EffectOfPods
<1>5. CASE StartPod(u)
  <2> DEFINE j == [job[u] EXCEPT !.pod = "starting"]
  <2>1. j \in Job /\ j.caller = job[u].caller /\ j.state = job[u].state /\ j.pod = "starting"
    BY <1>2 DEF Job
  <2>2. job' = [job EXCEPT ![u] = j] /\ UNCHANGED <<call, effect, used>>
    BY <1>5 DEF StartPod, Becomes
  <2> HIDE DEF j
  <2> QED BY <1>2, <1>4, <1>5, <2>1, <2>2, JobStep DEF StartPod
<1>6. CASE RunPod(u)
  <2> DEFINE j == [job[u] EXCEPT !.pod = "running"]
  <2>1. j \in Job /\ j.caller = job[u].caller /\ j.state = job[u].state /\ j.pod = "running"
    BY <1>2 DEF Job
  <2>2. job' = [job EXCEPT ![u] = j] /\ UNCHANGED <<call, effect, used>>
    BY <1>6 DEF RunPod, Becomes
  <2> HIDE DEF j
  <2> QED BY <1>2, <1>4, <1>6, <2>1, <2>2, JobStep DEF RunPod
<1>7. CASE PodSucceeds(u)
  <2> DEFINE s == IF job[u].state = "active" THEN "finished" ELSE job[u].state
             j == [job[u] EXCEPT !.pod = "succeeded", !.state = s]
  <2>1. s \in {"active", "finished", "deleted"} /\ (s = "deleted" <=> job[u].state = "deleted")
    BY <1>2 DEF Job
  <2>2. /\ job' = [job EXCEPT ![u] = j] /\ UNCHANGED <<call, used>>
        /\ effect' = effect \cup {u}
    BY <1>7 DEF PodSucceeds, Becomes
  <2> HIDE DEF s
  <2>4. j \in Job /\ j.caller = job[u].caller /\ j.state = s /\ j.pod = "succeeded"
    BY <1>2, <2>1 DEF Job
  <2> HIDE DEF j
  <2> QED BY <1>2, <2>1, <2>2, <2>4, JobStep
<1>8. CASE PodFails(u)
  <2> DEFINE s == IF job[u].state = "active" /\ job[u].failed = BackoffLimit
                  THEN "finished" ELSE job[u].state
             f == job[u].failed + 1
             j == [job[u] EXCEPT !.pod = "none", !.failed = f, !.state = s]
  <2>1. s \in {"active", "finished", "deleted"} /\ (s = "deleted" <=> job[u].state = "deleted")
    BY <1>2 DEF Job
  <2>2. /\ job' = [job EXCEPT ![u] = j] /\ UNCHANGED call
        /\ effect' \in {effect, effect \cup {u}}
    BY <1>8 DEF PodFails, Becomes
  <2>3. used' \in 0..MaxFaults
    BY <1>8, FaultUsed DEF PodFails, IInv
  <2>4. f \in Nat
    BY <1>2 DEF Job
  <2> HIDE DEF s, f
  <2>5. j \in Job /\ j.caller = job[u].caller /\ j.state = s /\ j.pod = "none"
    BY <1>2, <2>1, <2>4 DEF Job
  <2> HIDE DEF j
  <2> QED BY <1>2, <2>1, <2>2, <2>3, <2>5, JobStep
<1>9. CASE RemovePods(u)
  <2> DEFINE j == [job[u] EXCEPT !.pod = "none", !.failed = 0]
  <2>1. j \in Job /\ j.caller = job[u].caller /\ j.state = "deleted" /\ j.pod = "none"
    BY <1>2, <1>9 DEF RemovePods, Job
  <2>2. job' = [job EXCEPT ![u] = j] /\ UNCHANGED <<call, effect, used>> /\ job[u].state = "deleted"
    BY <1>9 DEF RemovePods, Becomes
  <2> HIDE DEF j
  <2> QED BY <1>2, <2>1, <2>2, JobStep
<1>10. CASE ExpireJob(u)
  <2> DEFINE j == [job[u] EXCEPT !.state = "deleted"]
  <2>1. j \in Job /\ j.caller = job[u].caller /\ j.state = "deleted" /\ j.pod = job[u].pod
    BY <1>2 DEF Job
  <2>2. job' = [job EXCEPT ![u] = j] /\ UNCHANGED <<call, effect, used>> /\ ~Attended(u)
    BY <1>10 DEF ExpireJob, Becomes
  <2> HIDE DEF j
  <2> QED BY <1>2, <1>4, <2>1, <2>2, JobStep
<1> QED
  BY <1>1, <1>5, <1>6, <1>7, <1>8, <1>9, <1>10

-----------------------------------------------------------------------------
(***************************************************************************)
(* The invariant always holds, and so do the properties of the runs.       *)
(***************************************************************************)
LEMMA InvInit == Init => IInv
<1> SUFFICES ASSUME Init PROVE IInv
  OBVIOUS
<1>1. job = <<>> /\ Len(job) = 0 /\ job \in Seq(Job) /\ effect = {}
  BY DEF Init
<1>2. effect \subseteq 1..Len(job)
  BY <1>1
<1>3. \A c \in Callers : call[c] \in CallShape /\ call[c].pc = "idle" /\ call[c].uid = 0
  BY DEF Init, NewCall, NoUid, CallShape, PCs
<1>4. Shapes
  BY <1>1, <1>2, <1>3, JobAssumption DEF Init, Shapes
<1> QED
  BY <1>1, <1>3, <1>4 DEF IInv, OwnJob, NamesTaken, EffectOfPods, Reading, At, Working

\* Every step of a caller, of the Job controller, of kubelet and of what fails
\* preserves the invariant.
LEMMA InvNext == IInv /\ [Next]_vars => IInv'
<1> SUFFICES ASSUME IInv, [Next]_vars PROVE IInv'
  OBVIOUS
<1>1. CASE UNCHANGED vars
  BY <1>1 DEF vars, IInv, Shapes, OwnJob, NamesTaken, Name, EffectOfPods, Reading, At, Letter
<1>2. CASE Next
  BY <1>2, InvCreateJob, InvMoves, InvListPods, InvGetLogs, InvDeleteJob, InvCluster
  DEF Next, ExecCommandJob, Crash
<1> QED BY <1>1, <1>2

\* The invariant holds in every reachable state of the callers and their Jobs.
LEMMA InvAlways == Spec => []IInv
  BY InvInit, InvNext, PTL DEF Spec

\* A start, an added core or a mode that was reported as done was carried out by
\* the Job of that call, whatever names collide, watches close, pods are evicted,
\* calls time out or processes crash (lines 173-191 of k8sutils.go).
THEOREM ReportedMeansCarriedOut == Spec => []DoneMeansCarriedOut
<1>1. IInv => DoneMeansCarriedOut
  BY DEF IInv, Reading, DoneMeansCarriedOut
<1> QED BY <1>1, InvAlways, PTL

\* No call loses the Job that it waits for to a call with the same job name.
THEOREM WaitedStays == Spec => []WaitedJobStays
<1>1. IInv => WaitedJobStays
  BY DEF IInv, OwnJob, Working, WaitedJobStays
<1> QED BY <1>1, InvAlways, PTL

-----------------------------------------------------------------------------
(***************************************************************************)
(* Refinement: calls and Jobs keep the promise of ExclusiveCommand.        *)
(***************************************************************************)

\* A caller that knows a Job created it.
KnownJob == \A c \in Callers : call[c].uid # 0 => job[call[c].uid].caller = c

RInv == IInv /\ KnownJob

\* A caller that has a Job has one at a time, and is told so by its name.
LEMMA OneJob ==
    ASSUME IInv, NEW u \in 1..Len(job), NEW w \in 1..Len(job),
           job[u].state # "deleted", job[w].state # "deleted", job[u].caller = job[w].caller
    PROVE  u = w
  BY DEF IInv, NamesTaken

\* The Jobs that a step leaves alone.
LEMMA TakenSame ==
    ASSUME Shapes, Len(job') = Len(job), job' \in Seq(Job),
           \A u \in 1..Len(job) : /\ job'[u].caller = job[u].caller
                                  /\ job'[u].state = "deleted" <=> job[u].state = "deleted"
    PROVE  Taken' = Taken
<1>1. DOMAIN job = 1..Len(job) /\ DOMAIN job' = 1..Len(job)
  BY DEF Shapes
<1> QED BY <1>1 DEF Taken

\* A caller that is in a set of callers or outside it already.
LEMMA InOrOut == \A S, c : (c \in S => S \cup {c} = S) /\ (c \notin S => S \ {c} = S)
  OBVIOUS

\* The step of one call, seen from outside.
LEMMA CallSeen ==
    ASSUME Shapes, NEW c \in Callers, NEW r \in CallShape, call' = [call EXCEPT ![c] = r]
    PROVE  /\ Using' = IF r.pc \in Working THEN Using \cup {c} ELSE Using \ {c}
           /\ Told' = IF r.pc = "ok" THEN Told \cup {c} ELSE Told \ {c}
           /\ UNCHANGED effect => Worked' = IF r.uid \in effect THEN Worked \cup {c} ELSE Worked \ {c}
           /\ c \in Using <=> call[c].pc \in Working
           /\ c \in Told <=> call[c].pc = "ok"
           /\ c \in Worked <=> call[c].uid \in effect
<1>1. \A d \in Callers : call'[d] = IF d = c THEN r ELSE call[d]
  BY DEF Shapes
<1> QED BY <1>1 DEF Using, Told, Worked, Working, At

\* A call that goes on keeps its Job and is seen as before.
LEMMA SeenSame ==
    ASSUME Shapes, NEW c \in Callers, NEW r \in CallShape, call' = [call EXCEPT ![c] = r],
           r.uid = call[c].uid, r.pc \in Working <=> call[c].pc \in Working,
           r.pc = "ok" <=> call[c].pc = "ok", UNCHANGED <<command, job, effect>>
    PROVE  UNCHANGED EC!vars
<1>1. Using' = Using /\ Told' = Told /\ Worked' = Worked
  <2>1. /\ Using' = IF c \in Using THEN Using \cup {c} ELSE Using \ {c}
        /\ Told' = IF c \in Told THEN Told \cup {c} ELSE Told \ {c}
        /\ Worked' = IF c \in Worked THEN Worked \cup {c} ELSE Worked \ {c}
    BY CallSeen
  <2> QED BY <2>1, InOrOut
<1>2. Taken' = Taken /\ Strict' = Strict /\ NameOf' = NameOf
  BY DEF Taken, Strict, NameOf, Letter, Name
<1> QED BY <1>1, <1>2 DEF EC!vars

\* Creating a Job takes its name, which was free (lines 139-146).
LEMMA RefineCreated ==
    ASSUME IInv, NEW c \in Callers, NEW r \in CallShape, call[c].pc = "idle",
           Named(c) = {}, Created(c), call' = [call EXCEPT ![c] = r], UNCHANGED command,
           \/ r.pc = "watch" /\ r.uid = Len(job) + 1
           \/ r.pc = "failed" /\ r.uid = call[c].uid
    PROVE  EC!Take(c)
<1> DEFINE n == Len(job) + 1
           j == NewCasadmJob(c)
<1>1. job \in Seq(Job) /\ Len(job) \in Nat /\ effect \subseteq 1..Len(job) /\ DOMAIN job = 1..Len(job)
  BY DEF IInv, Shapes
<1>2. j \in Job /\ j.caller = c /\ j.state = "active"
  BY DEF NewCasadmJob, Job
<1>3. /\ DOMAIN job' = 1..n /\ job'[n] = j
      /\ \A u \in 1..Len(job) : job'[u] = job[u]
  <2>1. job' = Append(job, j)
    BY DEF Created
  <2> HIDE DEF j
  <2> QED BY <1>1, <1>2, <2>1
<1> HIDE DEF j
<1>4. Taken' = Taken \cup {c}
  BY <1>1, <1>2, <1>3 DEF Taken
<1>5. effect' = effect
  BY DEF Created
<1>6. ~(n \in effect)
  BY <1>1
<1>7. /\ Told' = Told /\ c \notin Told
      /\ \/ Using' = Using \cup {c} /\ Worked' = Worked \ {c}
         \/ Using' = Using /\ Worked' = Worked
  <2>1. Shapes /\ call[c].pc \notin Working /\ call[c].pc # "ok"
    BY DEF IInv, Working
  <2>2. /\ Using' = IF r.pc \in Working THEN Using \cup {c} ELSE Using \ {c}
        /\ Told' = IF r.pc = "ok" THEN Told \cup {c} ELSE Told \ {c}
        /\ Worked' = IF r.uid \in effect THEN Worked \cup {c} ELSE Worked \ {c}
        /\ c \notin Using /\ c \notin Told
        /\ c \in Worked <=> call[c].uid \in effect
    BY <1>5, <2>1, CallSeen
  <2>3. Told' = Told
    BY <2>2, InOrOut
  <2>4. CASE r.pc = "watch" /\ r.uid = n
    BY <1>6, <2>2, <2>3, <2>4 DEF Working
  <2>5. CASE r.pc = "failed" /\ r.uid = call[c].uid
    BY <2>2, <2>3, <2>5, InOrOut DEF Working
  <2> QED BY <2>4, <2>5
<1>8. EC!Free(c)
  BY <1>1 DEF EC!Free, NameOf, Taken, Named
<1> QED BY <1>4, <1>7, <1>8 DEF EC!Take

\* The user of a name leaves: the deletion by name reaches its own Job, and a
\* process that ends leaves it behind.
LEMMA RefineLeave ==
    ASSUME IInv, NEW c \in Callers, DeleteJob(c) \/ Crash(c), UNCHANGED command
    PROVE  EC!Leave(c)
<1>1. call[c].pc \in Working /\ call[c] \in CallShape /\ UNCHANGED effect /\ Shapes
  BY DEF DeleteJob, Crash, At, Working, PCs, CallShape, IInv, Shapes
<1>2. /\ call[c].uid \in 1..Len(job) /\ job[call[c].uid].caller = c
      /\ job[call[c].uid].state # "deleted"
      /\ DOMAIN job = 1..Len(job) /\ job \in Seq(Job)
  BY <1>1 DEF IInv, OwnJob, Shapes
<1>3. CASE Crash(c)
  <2> DEFINE r == [call[c] EXCEPT !.pc = "failed"]
  <2>1. r \in CallShape /\ r.pc = "failed" /\ r.uid = call[c].uid
    BY <1>1, GotoCall DEF PCs
  <2>2. call' = [call EXCEPT ![c] = r] /\ UNCHANGED job
    BY <1>3 DEF Crash, Goto
  <2> HIDE DEF r
  <2>3. Taken' = Taken
    BY <2>2 DEF Taken
  <2>4. Using' = Using \ {c} /\ c \in Using /\ Told' = Told /\ Worked' = Worked
    <3>1. /\ Using' = Using \ {c} /\ c \in Using /\ Told' = Told \ {c} /\ c \notin Told
          /\ Worked' = IF r.uid \in effect THEN Worked \cup {c} ELSE Worked \ {c}
          /\ c \in Worked <=> call[c].uid \in effect
      BY <1>1, <2>1, <2>2, CallSeen DEF Working
    <3> QED BY <2>1, <3>1, InOrOut
  <2> QED BY <2>3, <2>4 DEF EC!Leave
<1>4. CASE DeleteJob(c)
  <2> DEFINE r == [call[c] EXCEPT !.pc = call[c].answer]
  <2>1. call[c].answer \in PCs /\ call[c].answer \in {"failed", "ok"}
    BY <1>1 DEF CallShape, PCs
  <2>2. r \in CallShape /\ r.pc = call[c].answer /\ r.uid = call[c].uid
    BY <1>1, <2>1, GotoCall
  <2>3. call' = [call EXCEPT ![c] = r]
    BY <1>4 DEF DeleteJob, Goto
  <2> HIDE DEF r
  <2>4. Taken' \in {Taken, Taken \ {c}}
    <3>1. CASE UNCHANGED job
      BY <3>1 DEF Taken
    <3>2. CASE job' = [u \in DOMAIN job |->
             IF u \in Named(c) THEN [job[u] EXCEPT !.state = "deleted"] ELSE job[u]]
      <4>1. /\ DOMAIN job' = 1..Len(job)
            /\ \A u \in 1..Len(job) :
                 /\ job'[u].caller = job[u].caller
                 /\ job'[u].state = IF u \in Named(c) THEN "deleted" ELSE job[u].state
        BY <1>1, <1>2, <3>2, DeletedByName
      <4>2. \A u \in 1..Len(job) : job[u].caller = c => job'[u].state = "deleted"
        BY <1>2, <4>1 DEF Named
      <4>3. \A u \in Named(c) : job[u].caller = c
        <5>1. SUFFICES ASSUME NEW u \in Named(c) PROVE u = call[c].uid
          BY <1>2
        <5> QED BY <1>2 DEF Named, IInv, NamesTaken
      <4>4. Taken' = Taken \ {c}
        BY <1>2, <4>1, <4>2, <4>3 DEF Taken
      <4> QED BY <4>4
    <3> QED BY <1>4, <3>1, <3>2 DEF DeleteJob
  <2>5. /\ Using' = Using \ {c} /\ c \in Using /\ Worked' = Worked
        /\ Told' = IF r.pc = "ok" THEN Told \cup {c} ELSE Told
    <3>1. /\ Using' = Using \ {c} /\ c \in Using /\ c \notin Told
          /\ Told' = IF r.pc = "ok" THEN Told \cup {c} ELSE Told \ {c}
          /\ Worked' = IF r.uid \in effect THEN Worked \cup {c} ELSE Worked \ {c}
          /\ c \in Worked <=> call[c].uid \in effect
      BY <1>1, <2>1, <2>2, <2>3, CallSeen DEF Working
    <3> QED BY <2>2, <3>1, InOrOut
  <2>6. r.pc = "ok" => (c \in Strict => c \in Worked)
    BY <1>4, <2>2 DEF DeleteJob, At, IInv, Reading, Strict, Worked
  <2> QED BY <2>4, <2>5, <2>6 DEF EC!Leave
<1> QED BY <1>3, <1>4

\* What a step of a pod leaves of its Job.
LEMMA PodStep ==
    ASSUME Shapes, NEW u \in DOMAIN job,
           StartPod(u) \/ RunPod(u) \/ PodSucceeds(u) \/ PodFails(u) \/ RemovePods(u)
    PROVE  \E j \in Job : /\ Becomes(u, j) /\ j.caller = job[u].caller
                          /\ j.state = "deleted" <=> job[u].state = "deleted"
<1>1. job[u] \in Job
  BY DEF Shapes
<1>2. CASE StartPod(u)
  BY <1>1, <1>2 DEF StartPod, Job
<1>3. CASE RunPod(u)
  BY <1>1, <1>3 DEF RunPod, Job
<1>4. CASE PodSucceeds(u)
  <2> DEFINE s == IF job[u].state = "active" THEN "finished" ELSE job[u].state
             j == [job[u] EXCEPT !.pod = "succeeded", !.state = s]
  <2>1. s \in {"active", "finished", "deleted"} /\ (s = "deleted" <=> job[u].state = "deleted")
    BY <1>1 DEF Job
  <2>2. Becomes(u, j)
    BY <1>4 DEF PodSucceeds
  <2> HIDE DEF s
  <2>3. j \in Job /\ j.caller = job[u].caller /\ j.state = s
    BY <1>1, <2>1 DEF Job
  <2> HIDE DEF j
  <2> QED BY <2>1, <2>2, <2>3
<1>5. CASE PodFails(u)
  <2> DEFINE s == IF job[u].state = "active" /\ job[u].failed = BackoffLimit
                  THEN "finished" ELSE job[u].state
             f == job[u].failed + 1
             j == [job[u] EXCEPT !.pod = "none", !.failed = f, !.state = s]
  <2>1. /\ s \in {"active", "finished", "deleted"} /\ f \in Nat
        /\ s = "deleted" <=> job[u].state = "deleted"
    BY <1>1 DEF Job
  <2>2. Becomes(u, j)
    BY <1>5 DEF PodFails
  <2> HIDE DEF s, f
  <2>3. j \in Job /\ j.caller = job[u].caller /\ j.state = s
    BY <1>1, <2>1 DEF Job
  <2> HIDE DEF j
  <2> QED BY <2>1, <2>2, <2>3
<1>6. CASE RemovePods(u)
  <2> DEFINE j == [job[u] EXCEPT !.pod = "none", !.failed = 0]
  <2>1. j \in Job /\ j.caller = job[u].caller /\ j.state = job[u].state
    BY <1>1 DEF Job
  <2>2. Becomes(u, j)
    BY <1>6 DEF RemovePods
  <2> HIDE DEF j
  <2> QED BY <2>1, <2>2
<1> QED BY <1>2, <1>3, <1>4, <1>5, <1>6

\* Steps of the cluster: the command of a Job takes effect, or a Job that nobody
\* attends expires.
LEMMA RefineCluster ==
    ASSUME RInv, ClusterStep
    PROVE  \/ \E c \in Callers : EC!TakeEffect(c) \/ EC!Expire(c)
           \/ UNCHANGED EC!vars
<1>1. PICK u \in DOMAIN job :
          \/ StartPod(u) \/ RunPod(u) \/ PodSucceeds(u) \/ PodFails(u)
          \/ RemovePods(u) \/ ExpireJob(u)
  BY DEF ClusterStep
<1>2. /\ u \in 1..Len(job) /\ job[u] \in Job /\ DOMAIN job = 1..Len(job) /\ job \in Seq(Job)
      /\ Shapes /\ UNCHANGED <<command, call>> /\ job[u].caller \in Callers
  <2>1. UNCHANGED <<command, call>>
    BY <1>1 DEF ClusterStep, StartPod, RunPod, PodSucceeds, PodFails, RemovePods, ExpireJob
  <2>2. u \in 1..Len(job) /\ job[u] \in Job /\ DOMAIN job = 1..Len(job) /\ job \in Seq(Job) /\ Shapes
    BY DEF RInv, IInv, Shapes
  <2> QED BY <2>1, <2>2 DEF Job
<1>3. Using' = Using /\ Told' = Told /\ Strict' = Strict /\ NameOf' = NameOf
  BY <1>2 DEF Using, Told, Strict, NameOf, Letter, Name, At
<1>4. ASSUME NEW j \in Job, Becomes(u, j), j.caller = job[u].caller
      PROVE  /\ DOMAIN job' = 1..Len(job) /\ Len(job') = Len(job) /\ job' \in Seq(Job)
             /\ \A w \in 1..Len(job) : job'[w] = IF w = u THEN j ELSE job[w]
  BY <1>2, <1>4 DEF Becomes
<1>5. CASE ~ExpireJob(u)
  <2>1. PICK j \in Job : Becomes(u, j) /\ j.caller = job[u].caller
                         /\ (j.state = "deleted" <=> job[u].state = "deleted")
    BY <1>1, <1>2, <1>5, PodStep
  <2>2. Taken' = Taken
    BY <1>2, <1>4, <2>1, TakenSame
  <2>3. effect' \in {effect, effect \cup {u}}
    BY <1>1, <1>5 DEF StartPod, RunPod, PodSucceeds, PodFails, RemovePods
  <2>4. Worked' \in {Worked, Worked \cup {job[u].caller}}
    <3>1. \A c \in Callers : call[c].uid = u => c = job[u].caller
      BY <1>2 DEF RInv, KnownJob
    <3>2. CASE effect' = effect
      BY <1>2, <3>2 DEF Worked
    <3>3. CASE effect' = effect \cup {u} /\ call[job[u].caller].uid = u
      BY <1>2, <3>1, <3>3 DEF Worked
    <3>4. CASE effect' = effect \cup {u} /\ call[job[u].caller].uid # u
      BY <1>2, <3>1, <3>4 DEF Worked
    <3> QED BY <2>3, <3>2, <3>3, <3>4
  <2> QED BY <1>2, <1>3, <2>2, <2>4 DEF EC!TakeEffect, EC!vars
<1>6. CASE ExpireJob(u)
  <2> DEFINE j == [job[u] EXCEPT !.state = "deleted"]
             c == job[u].caller
  <2>1. j \in Job /\ j.caller = c /\ j.state = "deleted" /\ Becomes(u, j) /\ UNCHANGED effect
    BY <1>2, <1>6 DEF ExpireJob, Job
  <2> HIDE DEF j
  <2>2. job[u].state # "deleted" /\ ~Attended(u) /\ c \in Callers
    BY <1>2, <1>6 DEF ExpireJob
  <2>3. Worked' = Worked
    BY <1>2, <2>1 DEF Worked
  <2>4. \A w \in 1..Len(job) : job[w].caller = c /\ job[w].state # "deleted" => w = u
    BY <1>2, <2>2, OneJob DEF RInv
  <2>5. Taken' = Taken \ {c} /\ c \in Taken
    BY <1>2, <1>4, <2>1, <2>2, <2>4 DEF Taken
  <2>6. c \notin Using
    <3>1. SUFFICES ASSUME c \in Using PROVE FALSE
      OBVIOUS
    <3>2. call[c].pc \in Working
      BY <3>1 DEF Using, Working
    <3>3. call[c].uid = u
      BY <2>2, <2>4, <3>2 DEF RInv, IInv, OwnJob
    <3> QED BY <2>2, <3>2, <3>3 DEF Attended, Working
  <2> QED BY <1>3, <2>2, <2>3, <2>5, <2>6 DEF EC!Expire
<1> QED BY <1>5, <1>6

\* Every step of a call is a step of the promise or is not seen there.
LEMMA RefineCall ==
    ASSUME RInv, NEW c \in Callers, ExecCommandJob(c) \/ Crash(c)
    PROVE  EC!Take(c) \/ EC!Leave(c) \/ UNCHANGED EC!vars
<1>0. UNCHANGED command /\ Shapes /\ IInv /\ call[c] \in CallShape
  BY DEF ExecCommandJob, Crash, RInv, IInv, Shapes
<1>1. ASSUME NEW pc \in PCs \ {"ok"}, Goto(c, pc), pc \in Working <=> call[c].pc \in Working,
             call[c].pc # "ok", UNCHANGED <<job, effect>>
      PROVE  UNCHANGED EC!vars
  <2> DEFINE r == [call[c] EXCEPT !.pc = pc]
  <2>1. r \in CallShape /\ r.pc = pc /\ r.uid = call[c].uid
    BY <1>0, GotoCall
  <2>2. call' = [call EXCEPT ![c] = r]
    BY <1>1 DEF Goto
  <2> HIDE DEF r
  <2> QED BY <1>0, <1>1, <2>1, <2>2, SeenSame
<1>2. ASSUME NEW a \in {"failed", "ok"}, Answer(c, a), call[c].pc \in Working, UNCHANGED <<job, effect>>
      PROVE  UNCHANGED EC!vars
  <2> DEFINE r == [call[c] EXCEPT !.pc = "delete", !.answer = a]
  <2>1. r \in CallShape /\ r.pc = "delete" /\ r.uid = call[c].uid
    BY <1>0, AnswerCall
  <2>2. call' = [call EXCEPT ![c] = r]
    BY <1>2 DEF Answer
  <2> HIDE DEF r
  <2> QED BY <1>0, <1>2, <2>1, <2>2, SeenSame DEF Working
<1>3. CASE CreateJob(c)
  <2>0. call[c].pc = "idle"
    BY <1>3 DEF CreateJob, At
  <2>1. ASSUME Named(c) = {}, Created(c),
               call' = [call EXCEPT ![c] = [NewCall EXCEPT !.pc = "watch", !.uid = Len(job) + 1]]
        PROVE  EC!Take(c)
    <3> DEFINE r == [NewCall EXCEPT !.pc = "watch", !.uid = Len(job) + 1]
    <3>1. r \in CallShape /\ r.pc = "watch" /\ r.uid = Len(job) + 1
      <4>1. Len(job) + 1 \in Nat
        BY <1>0 DEF Shapes
      <4> QED BY <4>1, WatchingCall
    <3>2. call' = [call EXCEPT ![c] = r]
      BY <2>1
    <3> HIDE DEF r
    <3> QED BY <1>0, <2>0, <2>1, <3>1, <3>2, RefineCreated
  <2>2. ASSUME Named(c) = {}, Created(c), Goto(c, "failed") PROVE EC!Take(c)
    <3> DEFINE r == [call[c] EXCEPT !.pc = "failed"]
    <3>1. r \in CallShape /\ r.pc = "failed" /\ r.uid = call[c].uid
      BY <1>0, GotoCall DEF PCs
    <3>2. call' = [call EXCEPT ![c] = r]
      BY <2>2 DEF Goto
    <3> HIDE DEF r
    <3> QED BY <1>0, <2>0, <2>2, <3>1, <3>2, RefineCreated
  <2>3. CASE Goto(c, "failed") /\ UNCHANGED <<job, effect>>
    BY <1>1, <2>0, <2>3 DEF PCs, Working
  <2> QED BY <1>3, <2>1, <2>2, <2>3 DEF CreateJob
<1>4. CASE WatchJob(c)
  BY <1>1, <1>2, <1>4 DEF WatchJob, At, PCs, Working
<1>5. CASE WaitForJob(c)
  BY <1>1, <1>5 DEF WaitForJob, At, PCs, Working
<1>6. CASE ListPods(c)
  <2>1. call[c].pc = "pods" /\ call[c].pc \in Working /\ UNCHANGED <<job, effect>>
    BY <1>6 DEF ListPods, At, Working
  <2>2. CASE Answer(c, "failed")
    BY <1>2, <2>1, <2>2
  <2>3. ASSUME NEW p \in SeenPods(c) \ {"starting"},
               call' = [call EXCEPT ![c] = [call[c] EXCEPT !.pc = "logs",
                                !.exit = CASE p = "succeeded" -> "zero"
                                           [] p = "failed"    -> "other"
                                           [] p = "running"   -> "unknown"]]
        PROVE  UNCHANGED EC!vars
    <3> DEFINE e == CASE p = "succeeded" -> "zero" [] p = "failed" -> "other" [] p = "running" -> "unknown"
               r == [call[c] EXCEPT !.pc = "logs", !.exit = e]
               j == job[call[c].uid]
    <3>1. j \in Job
      <4>1. call[c].uid \in 1..Len(job)
        BY <1>0, <2>1 DEF IInv, OwnJob
      <4> QED BY <1>0, <4>1 DEF Shapes
    <3>2. e \in {"unknown", "zero", "other"}
      BY <3>1 DEF SeenPods, Job
    <3>3. call' = [call EXCEPT ![c] = r]
      BY <2>3
    <3> HIDE DEF e
    <3>4. r \in CallShape /\ r.pc = "logs" /\ r.uid = call[c].uid
      BY <1>0, <3>2 DEF CallShape, PCs
    <3> HIDE DEF r
    <3> QED BY <1>0, <2>1, <3>3, <3>4, SeenSame DEF Working
  <2> QED BY <1>6, <2>2, <2>3 DEF ListPods
<1>7. CASE GetLogs(c)
  <2>1. call[c].pc \in Working /\ UNCHANGED <<job, effect>>
    BY <1>7 DEF GetLogs, At, Working
  <2>2. \E a \in {"failed", "ok"} : Answer(c, a)
    BY <1>7 DEF GetLogs
  <2> QED BY <1>2, <2>1, <2>2
<1>8. CASE DeleteJob(c) \/ Crash(c)
  BY <1>0, <1>8, RefineLeave
<1>9. CASE CallAgain(c)
  BY <1>1, <1>9 DEF CallAgain, At, PCs, Working
<1> QED
  BY <1>3, <1>4, <1>5, <1>6, <1>7, <1>8, <1>9 DEF ExecCommandJob

\* The Job that a caller knows is its own: Jobs keep their caller, and a call
\* learns of the Job that it creates.
LEMMA KnownNext == RInv /\ [Next]_vars => RInv'
<1> SUFFICES ASSUME RInv, [Next]_vars PROVE RInv'
  OBVIOUS
<1>1. IInv'
  BY InvNext DEF RInv
<1> SUFFICES KnownJob'
  BY <1>1 DEF RInv
<1>2. /\ job \in Seq(Job) /\ DOMAIN job = 1..Len(job) /\ Len(job) \in Nat
      /\ call \in [Callers -> CallShape]
      /\ \A d \in Callers : call[d].uid \in 0..Len(job)
  BY DEF RInv, IInv, Shapes
<1>3. ASSUME \A u \in 1..Len(job) : job'[u].caller = job[u].caller,
             \A d \in Callers : \/ call'[d].uid = call[d].uid
                                \/ job'[call'[d].uid].caller = d
      PROVE  KnownJob'
  BY <1>2, <1>3 DEF RInv, KnownJob
<1>4. ASSUME NEW c \in Callers, NEW r, call' = [call EXCEPT ![c] = r]
      PROVE  call'[c] = r /\ \A d \in Callers \ {c} : call'[d].uid = call[d].uid
  BY <1>2, <1>4
<1>5. ASSUME NEW c \in Callers, \E pc \in PCs : Goto(c, pc) PROVE \A d \in Callers : call'[d].uid = call[d].uid
  BY <1>2, <1>4, <1>5 DEF Goto, CallShape
<1>6. ASSUME NEW c \in Callers, \E a \in {"failed", "ok"} : Answer(c, a)
      PROVE  \A d \in Callers : call'[d].uid = call[d].uid
  BY <1>2, <1>4, <1>6 DEF Answer, CallShape
<1>7. CASE UNCHANGED vars
  BY <1>3, <1>7 DEF vars
<1>8. ASSUME NEW c \in Callers, CreateJob(c) PROVE KnownJob'
  <2> DEFINE j == NewCasadmJob(c)
  <2>1. j \in Job /\ j.caller = c
    BY DEF NewCasadmJob, Job
  <2>2. CASE Created(c)
    <3>1. job' = Append(job, j)
      BY <2>2 DEF Created
    <3> HIDE DEF j
    <3>2. job'[Len(job) + 1] = j /\ \A u \in 1..Len(job) : job'[u] = job[u]
      BY <1>2, <2>1, <3>1
    <3>3. CASE call' = [call EXCEPT ![c] = [NewCall EXCEPT !.pc = "watch", !.uid = Len(job) + 1]]
      <4>1. [NewCall EXCEPT !.pc = "watch", !.uid = Len(job) + 1].uid = Len(job) + 1
        <5>1. Len(job) + 1 \in Nat
          BY <1>2
        <5> QED BY <5>1, WatchingCall
      <4>2. call'[c].uid = Len(job) + 1
        BY <1>4, <3>3, <4>1
      <4> QED BY <1>3, <1>4, <2>1, <3>2, <3>3, <4>2
    <3>4. CASE Goto(c, "failed")
      BY <1>3, <1>5, <3>2, <3>4 DEF PCs
    <3> QED BY <1>8, <3>3, <3>4 DEF CreateJob
  <2>3. CASE Goto(c, "failed") /\ UNCHANGED job
    BY <1>3, <1>5, <2>3 DEF PCs
  <2> QED BY <1>8, <2>2, <2>3 DEF CreateJob
<1>9. ASSUME NEW c \in Callers, DeleteJob(c) PROVE KnownJob'
  <2>1. call[c].answer \in PCs
    BY <1>2 DEF CallShape, PCs
  <2>2. \A u \in 1..Len(job) : job'[u].caller = job[u].caller
    BY <1>9, DeletedByName DEF DeleteJob, RInv, IInv
  <2> QED BY <1>3, <1>5, <1>9, <2>1, <2>2 DEF DeleteJob
<1>10. ASSUME NEW c \in Callers, WatchJob(c) \/ WaitForJob(c) \/ GetLogs(c) \/ CallAgain(c) \/ Crash(c)
       PROVE  KnownJob'
  <2>1. UNCHANGED job
    BY <1>10 DEF WatchJob, WaitForJob, GetLogs, CallAgain, Crash
  <2>2. (\E pc \in PCs : Goto(c, pc)) \/ (\E a \in {"failed", "ok"} : Answer(c, a))
    BY <1>10 DEF WatchJob, WaitForJob, GetLogs, CallAgain, Crash, PCs
  <2> QED BY <1>3, <1>5, <1>6, <2>1, <2>2
<1>11. ASSUME NEW c \in Callers, ListPods(c) PROVE KnownJob'
  <2>1. UNCHANGED job
    BY <1>11 DEF ListPods
  <2>2. CASE Answer(c, "failed")
    BY <1>3, <1>6, <2>1, <2>2
  <2>3. ASSUME NEW e, call' = [call EXCEPT ![c] = [call[c] EXCEPT !.pc = "logs", !.exit = e]]
        PROVE  KnownJob'
    <3>1. [call[c] EXCEPT !.pc = "logs", !.exit = e].uid = call[c].uid
      BY <1>2 DEF CallShape
    <3> QED BY <1>3, <1>4, <2>1, <2>3, <3>1
  <2> QED BY <1>11, <2>2, <2>3 DEF ListPods
<1>12. CASE ClusterStep
  <2>1. PICK u \in DOMAIN job :
          \/ StartPod(u) \/ RunPod(u) \/ PodSucceeds(u) \/ PodFails(u)
          \/ RemovePods(u) \/ ExpireJob(u)
    BY <1>12 DEF ClusterStep
  <2>2. UNCHANGED call
    BY <2>1 DEF StartPod, RunPod, PodSucceeds, PodFails, RemovePods, ExpireJob
  <2>3. job[u] \in Job
    BY <1>2
  <2>4. \E j : job' = [job EXCEPT ![u] = j] /\ j.caller = job[u].caller
    <3>1. CASE ExpireJob(u)
      <4>1. [job[u] EXCEPT !.state = "deleted"].caller = job[u].caller
        BY <2>3 DEF Job
      <4> QED BY <3>1, <4>1 DEF ExpireJob, Becomes
    <3>2. CASE ~ExpireJob(u)
      <4>1. Shapes
        BY DEF RInv, IInv
      <4>2. \E j \in Job : Becomes(u, j) /\ j.caller = job[u].caller
        BY <2>1, <3>2, <4>1, PodStep
      <4> QED BY <4>2 DEF Becomes
    <3> QED BY <3>1, <3>2
  <2>5. \A w \in 1..Len(job) : job'[w].caller = job[w].caller
    BY <1>2, <2>4
  <2> QED BY <1>3, <2>2, <2>5
<1> QED
  BY <1>7, <1>8, <1>9, <1>10, <1>11, <1>12 DEF Next, ExecCommandJob

\* ExecCommandJob keeps the promise of ExclusiveCommand: a name is used by one
\* caller at a time, nobody but its user gives it back while it is used, and a
\* strict caller is told of success only for an effect of its own Job, for any
\* number of callers, names that collide, faults and crashes.
THEOREM CommandsKeepPromise == Spec => CommandsExclusive
<1>1. Init => RInv
  BY InvInit DEF RInv, KnownJob, Init, NewCall, NoUid
<1>2. Spec => []RInv
  BY <1>1, KnownNext, PTL DEF Spec
<1>3. Init => EC!Init
  BY DEF Init, EC!Init, Strict, Taken, Using, Worked, Told, At, NewCall
<1>4. RInv /\ [Next]_vars => [EC!Next]_EC!vars
  <2> SUFFICES ASSUME RInv, [Next]_vars PROVE EC!Next \/ UNCHANGED EC!vars
    OBVIOUS
  <2>1. UNCHANGED command => UNCHANGED <<NameOf, Strict>>
    BY DEF NameOf, Strict, Letter, Name
  <2>2. CASE UNCHANGED vars
    BY <2>2 DEF vars, EC!vars, NameOf, Strict, Letter, Name, Taken, Using, Worked, Told, At
  <2>3. ASSUME NEW c \in Callers, ExecCommandJob(c) \/ Crash(c) PROVE EC!Next \/ UNCHANGED EC!vars
    BY <2>1, <2>3, RefineCall DEF ExecCommandJob, Crash, EC!Next
  <2>4. CASE ClusterStep
    BY <2>1, <2>4, RefineCluster DEF ClusterStep, EC!Next
  <2> QED BY <2>2, <2>3, <2>4 DEF Next
<1> QED
  BY <1>2, <1>3, <1>4, PTL DEF Spec, CommandsExclusive, EC!Spec

-----------------------------------------------------------------------------
(***************************************************************************)
(* How many Jobs there can be.                                             *)
(***************************************************************************)
PInv == IInv /\ JobsPaid

\* The three ways in which a step keeps the balance: it excuses nobody, it
\* excuses one caller for a fault, or an excused caller creates a Job.
LEMMA Balance ==
    ASSUME Shapes, Shapes', JobsPaid,
           \/ ExcusedSet' \subseteq ExcusedSet /\ Len(job') + used <= Len(job) + used'
           \/ \E c \in Callers : /\ ExcusedSet' \subseteq ExcusedSet \cup {c}
                                 /\ Len(job') = Len(job) /\ used' = used + 1
           \/ \E c \in ExcusedSet : /\ ExcusedSet' \subseteq ExcusedSet \ {c}
                                    /\ Len(job') = Len(job) + 1 /\ used' = used
    PROVE  JobsPaid'
<1> DEFINE X == ExcusedSet
           Y == ExcusedSet'
<1>1. /\ IsFiniteSet(X) /\ IsFiniteSet(Y) /\ Cardinality(X) \in Nat /\ Cardinality(Y) \in Nat
      /\ Cardinality(Callers) \in Nat
  <2>1. X \subseteq Callers /\ Y \subseteq Callers /\ IsFiniteSet(Callers)
    BY JobAssumption DEF ExcusedSet
  <2>2. IsFiniteSet(X) /\ IsFiniteSet(Y)
    BY <2>1, FS_Subset
  <2> QED BY <2>1, <2>2, FS_CardinalityType
<1>2. /\ Len(job) \in Nat /\ Len(job') \in Nat /\ used \in Nat /\ used' \in Nat
      /\ Len(job) + Cardinality(X) <= Cardinality(Callers) + used
  BY JobAssumption DEF Shapes, JobsPaid
<1> SUFFICES Len(job') + Cardinality(Y) <= Cardinality(Callers) + used'
  BY DEF JobsPaid
<1> HIDE DEF X, Y
<1>3. CASE Y \subseteq X /\ Len(job') + used <= Len(job) + used'
  <2>1. Cardinality(Y) <= Cardinality(X)
    BY <1>1, <1>3, FS_Subset
  <2> QED BY <1>1, <1>2, <1>3, <2>1
<1>4. ASSUME NEW c \in Callers, Y \subseteq X \cup {c}, Len(job') = Len(job), used' = used + 1
      PROVE  Len(job') + Cardinality(Y) <= Cardinality(Callers) + used'
  <2>1. IsFiniteSet(X \cup {c}) /\ Cardinality(X \cup {c}) <= Cardinality(X) + 1
        /\ Cardinality(X \cup {c}) \in Nat
    <3>1. /\ IsFiniteSet(X \cup {c})
          /\ Cardinality(X \cup {c}) = Cardinality(X) \/ Cardinality(X \cup {c}) = Cardinality(X) + 1
      BY <1>1, FS_AddElement
    <3> QED BY <1>1, <3>1
  <2>2. Cardinality(Y) <= Cardinality(X \cup {c})
    BY <1>4, <2>1, FS_Subset
  <2> QED BY <1>1, <1>2, <1>4, <2>1, <2>2
<1>5. ASSUME NEW c \in X, Y \subseteq X \ {c}, Len(job') = Len(job) + 1, used' = used
      PROVE  Len(job') + Cardinality(Y) <= Cardinality(Callers) + used'
  <2>1. IsFiniteSet(X \ {c}) /\ Cardinality(X \ {c}) = Cardinality(X) - 1
    BY <1>1, FS_RemoveElement
  <2>2. Cardinality(Y) <= Cardinality(X \ {c})
    BY <1>5, <2>1, FS_Subset
  <2> QED BY <1>1, <1>2, <1>5, <2>1, <2>2
<1> QED
  BY <1>3, <1>4, <1>5 DEF X, Y

\* A step of a call that leaves the Jobs alone and is a fault, or does not turn
\* a call that may still succeed into one that cannot.
LEMMA PaidCall ==
    ASSUME PInv, IInv', NEW c \in Callers, NEW r, call' = [call EXCEPT ![c] = r],
           \A u \in 1..Len(job) : job'[u].failed = job[u].failed /\ job'[u].pod = job[u].pod,
           Len(job') = Len(job),
           used' = used + 1 \/ (used' = used /\ (Excused(c)' => Excused(c)))
    PROVE  PInv'
<1>1. \A d \in Callers : call'[d] = IF d = c THEN r ELSE call[d]
  BY DEF PInv, IInv, Shapes
<1>2. \A d \in Callers : call[d].pc \in Working => call[d].uid \in 1..Len(job)
  BY DEF PInv, IInv, OwnJob
<1>3. \A d \in Callers \ {c} : Excused(d)' => Excused(d)
  BY <1>1, <1>2 DEF Excused, At, Working
<1>4. Len(job) \in Nat /\ used \in Nat /\ used' \in Nat /\ Shapes /\ Shapes' /\ JobsPaid
  BY JobAssumption DEF PInv, IInv, Shapes
<1>5. CASE used' = used + 1
  <2>1. ExcusedSet' \subseteq ExcusedSet \cup {c}
    BY <1>3 DEF ExcusedSet
  <2>2. JobsPaid'
    BY <1>4, <1>5, <2>1, Balance
  <2> QED BY <2>2 DEF PInv
<1>6. CASE used' = used /\ (Excused(c)' => Excused(c))
  <2>1. ExcusedSet' \subseteq ExcusedSet
    BY <1>3, <1>6 DEF ExcusedSet
  <2>2. Len(job') + used <= Len(job) + used'
    BY <1>4, <1>6
  <2>3. JobsPaid'
    BY <1>4, <2>1, <2>2, Balance
  <2> QED BY <2>3 DEF PInv
<1> QED BY <1>5, <1>6

\* A call fails only after a fault: a wait that ends without one has seen a pod
\* end, and a pod that succeeded is read as done (lines 148-191).
LEMMA PaidCalls ==
    ASSUME PInv, IInv', NEW c \in Callers, UNCHANGED command,
           \/ WatchJob(c) \/ WaitForJob(c) \/ ListPods(c) \/ GetLogs(c)
           \/ DeleteJob(c) \/ CallAgain(c) \/ Crash(c)
    PROVE  PInv'
<1>0. /\ call[c] \in CallShape /\ Shapes /\ IInv
      /\ call[c].pc \in Working => call[c].uid \in 1..Len(job) /\ job[call[c].uid] \in Job
  <2>1. call[c] \in CallShape /\ Shapes
    BY DEF PInv, IInv, Shapes
  <2>2. call[c].pc \in Working => call[c].uid \in 1..Len(job)
    BY DEF PInv, IInv, OwnJob
  <2> QED BY <2>1, <2>2 DEF PInv, Shapes
<1>1. ASSUME NEW k, Fault(k) PROVE used' = used + 1
  BY <1>1 DEF Fault
<1>2. ASSUME NEW pc \in PCs, Goto(c, pc)
      PROVE  /\ call' = [call EXCEPT ![c] = [call[c] EXCEPT !.pc = pc]]
             /\ call'[c].pc = pc /\ call'[c].uid = call[c].uid
             /\ call'[c].exit = call[c].exit /\ call'[c].answer = call[c].answer
  BY <1>0, <1>2, GotoCall DEF Goto, Shapes
<1>3. ASSUME NEW a \in {"failed", "ok"}, Answer(c, a)
      PROVE  /\ call' = [call EXCEPT ![c] = [call[c] EXCEPT !.pc = "delete", !.answer = a]]
             /\ call'[c].pc = "delete" /\ call'[c].answer = a
  BY <1>0, <1>3, AnswerCall DEF Answer, Shapes
<1>4. CASE WatchJob(c)
  <2>1. UNCHANGED job
    BY <1>4 DEF WatchJob
  <2>2. CASE Fault("api") /\ Answer(c, "failed")
    BY <1>1, <1>3, <2>1, <2>2, PaidCall
  <2>3. CASE Goto(c, "wait") /\ UNCHANGED used
    <3>1. Excused(c)' => Excused(c)
      BY <1>2, <1>4, <2>1, <2>3 DEF Excused, At, WatchJob, PCs
    <3> QED BY <1>2, <2>1, <2>3, <3>1, PaidCall DEF PCs
  <2> QED BY <1>4, <2>2, <2>3 DEF WatchJob
<1>5. CASE WaitForJob(c)
  <2>1. UNCHANGED job /\ Goto(c, "pods") /\ call[c].pc = "wait"
    BY <1>5 DEF WaitForJob, At
  <2>2. CASE used' = used + 1
    BY <1>2, <2>1, <2>2, PaidCall DEF PCs
  <2>3. CASE Ended(call[c].uid) /\ UNCHANGED used
    <3>1. Excused(c)' => Excused(c)
      BY <1>2, <2>1, <2>3 DEF Excused, At, Ended, PCs
    <3> QED BY <1>2, <2>1, <2>3, <3>1, PaidCall DEF PCs
  <2> QED BY <1>1, <1>5, <2>2, <2>3 DEF WaitForJob
<1>6. CASE ListPods(c)
  <2>1. UNCHANGED job /\ call[c].pc = "pods" /\ call[c].pc \in Working
    BY <1>6 DEF ListPods, At, Working
  <2>2. CASE Fault("api") /\ Answer(c, "failed")
    BY <1>1, <1>3, <2>1, <2>2, PaidCall
  <2> DEFINE j == job[call[c].uid]
  <2>3. j \in Job
    BY <1>0, <2>1
  <2>4. CASE UNCHANGED used /\ Answer(c, "failed") /\ (SeenPods(c) = {} \/ "starting" \in SeenPods(c))
    <3>1. Excused(c)
      BY <2>1, <2>3, <2>4 DEF SeenPods, Excused, At, Job
    <3> QED BY <1>3, <2>1, <2>4, <3>1, PaidCall
  <2>5. ASSUME NEW p \in SeenPods(c) \ {"starting"}, UNCHANGED used,
               call' = [call EXCEPT ![c] = [call[c] EXCEPT !.pc = "logs",
                                !.exit = CASE p = "succeeded" -> "zero"
                                           [] p = "failed"    -> "other"
                                           [] p = "running"   -> "unknown"]]
        PROVE  PInv'
    <3> DEFINE e == CASE p = "succeeded" -> "zero" [] p = "failed" -> "other" [] p = "running" -> "unknown"
               r == [call[c] EXCEPT !.pc = "logs", !.exit = e]
    <3>1. p = "succeeded" => e = "zero"
      OBVIOUS
    <3> HIDE DEF e
    <3>2. r.pc = "logs" /\ r.exit = e /\ r.uid = call[c].uid
      BY <1>0 DEF CallShape
    <3>3. call' = [call EXCEPT ![c] = r]
      BY <2>5 DEF e
    <3> HIDE DEF r
    <3>4. call'[c] = r
      BY <1>0, <3>3 DEF Shapes
    <3>5. p = "succeeded" \/ Excused(c)
      BY <2>1, <2>3 DEF SeenPods, Excused, At, Job
    <3>6. Excused(c)' => Excused(c)
      BY <2>1, <3>1, <3>2, <3>4, <3>5 DEF Excused, At
    <3> QED BY <2>1, <2>5, <3>3, <3>6, PaidCall
  <2> QED BY <1>6, <2>2, <2>4, <2>5 DEF ListPods
<1>7. CASE GetLogs(c)
  <2>1. UNCHANGED job /\ call[c].pc = "logs"
    BY <1>7 DEF GetLogs, At
  <2>2. CASE Fault("api") /\ Answer(c, "failed")
    BY <1>1, <1>3, <2>1, <2>2, PaidCall
  <2>3. ASSUME NEW gone \in BOOLEAN, NEW a \in {"failed", "ok"}, UNCHANGED used,
               a = IF Accepted(c, gone) THEN "ok" ELSE "failed", Answer(c, a)
        PROVE  PInv'
    <3>1. Excused(c)' => Excused(c)
      BY <1>3, <2>1, <2>3 DEF Excused, At, Accepted
    <3> QED BY <1>3, <2>1, <2>3, <3>1, PaidCall
  <2> QED BY <1>7, <2>2, <2>3 DEF GetLogs
<1>8. CASE DeleteJob(c)
  <2>1. call[c].pc = "delete" /\ call[c].answer \in PCs /\ Goto(c, call[c].answer)
    BY <1>0, <1>8 DEF DeleteJob, At, CallShape, PCs
  <2>2. /\ Len(job') = Len(job)
        /\ \A u \in 1..Len(job) : job'[u].failed = job[u].failed /\ job'[u].pod = job[u].pod
    <3>1. CASE UNCHANGED job
      BY <3>1
    <3>2. CASE job' = [u \in DOMAIN job |->
             IF u \in Named(c) THEN [job[u] EXCEPT !.state = "deleted"] ELSE job[u]]
      BY <1>0, <3>2, DeletedByName
    <3> QED BY <1>8, <3>1, <3>2 DEF DeleteJob
  <2>3. Excused(c)' => Excused(c)
    <3>1. call'[c].pc = call[c].answer
      BY <1>2, <2>1
    <3>2. call[c].answer \in {"failed", "ok"}
      BY <1>0 DEF CallShape
    <3> QED BY <2>1, <3>1, <3>2 DEF Excused, At
  <2>4. used' = used + 1 \/ used' = used
    BY <1>1, <1>8 DEF DeleteJob
  <2>5. call' = [call EXCEPT ![c] = [call[c] EXCEPT !.pc = call[c].answer]]
    BY <2>1 DEF Goto
  <2> QED BY <2>2, <2>3, <2>4, <2>5, PaidCall
<1>9. CASE CallAgain(c)
  <2>1. UNCHANGED <<job, used>> /\ Goto(c, "idle") /\ call[c].pc = "failed"
    BY <1>9 DEF CallAgain, At
  <2>2. Excused(c)
    BY <2>1 DEF Excused
  <2> QED BY <1>2, <2>1, <2>2, PaidCall DEF PCs
<1>10. CASE Crash(c)
  <2>1. UNCHANGED job /\ Goto(c, "failed") /\ used' = used + 1
    BY <1>1, <1>10 DEF Crash
  <2> QED BY <1>2, <2>1, PaidCall DEF PCs
<1> QED
  BY <1>4, <1>5, <1>6, <1>7, <1>8, <1>9, <1>10

\* Creating a Job takes an excused caller, or a fault.
LEMMA PaidCreateJob ==
    ASSUME PInv, IInv', NEW c \in Callers, CreateJob(c), UNCHANGED command
    PROVE  PInv'
<1>0. /\ call[c].pc = "idle" /\ call[c] \in CallShape /\ Shapes /\ Shapes' /\ JobsPaid
      /\ job \in Seq(Job) /\ Len(job) \in Nat /\ used \in Nat /\ c \in ExcusedSet
  BY JobAssumption DEF CreateJob, At, PInv, IInv, Shapes, ExcusedSet, Excused
<1>1. ASSUME Goto(c, "failed")
      PROVE  call' = [call EXCEPT ![c] = [call[c] EXCEPT !.pc = "failed"]]
  BY <1>1 DEF Goto
<1>2. \A d \in Callers : call[d].pc \in Working => call[d].uid \in 1..Len(job)
  BY DEF PInv, IInv, OwnJob
<1>3. CASE Named(c) = {} /\ Created(c)
  <2>1. /\ Len(job') = Len(job) + 1 /\ \A u \in 1..Len(job) : job'[u] = job[u]
        /\ job'[Len(job) + 1].failed = 0
    <3> DEFINE j == NewCasadmJob(c)
    <3>1. job' = Append(job, j) /\ j \in Job /\ j.failed = 0
      BY <1>3 DEF Created, NewCasadmJob, Job
    <3> HIDE DEF j
    <3> QED BY <1>0, <3>1
  <2>2. ASSUME NEW r, call' = [call EXCEPT ![c] = r]
        PROVE  call'[c] = r /\ \A d \in Callers \ {c} : call'[d] = call[d] /\ (Excused(d)' => Excused(d))
    <3>1. call'[c] = r /\ \A d \in Callers \ {c} : call'[d] = call[d]
      BY <1>0, <2>2 DEF Shapes
    <3> QED BY <1>2, <2>1, <3>1 DEF Excused, At, Working
  <2>3. CASE Fault("lost") /\ Goto(c, "failed")
    <3>1. ExcusedSet' \subseteq ExcusedSet
      BY <1>0, <1>1, <2>2, <2>3 DEF ExcusedSet
    <3>2. Len(job') + used <= Len(job) + used'
      BY <1>0, <2>1, <2>3 DEF Fault
    <3> QED BY <1>0, <3>1, <3>2, Balance DEF PInv
  <2>4. CASE /\ call' = [call EXCEPT ![c] = [NewCall EXCEPT !.pc = "watch", !.uid = Len(job) + 1]]
             /\ UNCHANGED used
    <3> DEFINE r == [NewCall EXCEPT !.pc = "watch", !.uid = Len(job) + 1]
    <3>1. r.pc = "watch" /\ r.uid = Len(job) + 1 /\ call' = [call EXCEPT ![c] = r]
      <4>1. Len(job) + 1 \in Nat
        BY <1>0
      <4> QED BY <2>4, <4>1, WatchingCall
    <3> HIDE DEF r
    <3>2. ~Excused(c)'
      <4>1. call'[c].pc = "watch" /\ call'[c].uid = Len(job) + 1
        BY <2>2, <3>1
      <4>2. job'[call'[c].uid].failed = 0
        BY <2>1, <4>1
      <4>3. ~(job'[call'[c].uid].failed > 0)
        BY <4>2
      <4> QED BY <4>1, <4>3 DEF Excused, At
    <3>3. ExcusedSet' \subseteq ExcusedSet \ {c}
      BY <2>2, <3>1, <3>2 DEF ExcusedSet
    <3> QED BY <1>0, <2>1, <2>4, <3>3, Balance DEF PInv
  <2>5. CASE UNCHANGED job
    BY <1>0, <2>1, <2>5
  <2> QED BY <1>3, <2>3, <2>4, <2>5 DEF CreateJob
<1>4. CASE Goto(c, "failed") /\ UNCHANGED <<job, effect>> /\ (UNCHANGED used \/ Fault("api"))
  <2>1. used' = used + 1 \/ used' = used
    BY <1>4 DEF Fault
  <2>2. Excused(c)
    BY <1>0 DEF ExcusedSet
  <2> QED BY <1>1, <1>4, <2>1, <2>2, PaidCall
<1> QED
  BY <1>3, <1>4 DEF CreateJob

\* A pod that fails is a fault that excuses the one call with that Job.
LEMMA PaidCluster == ASSUME PInv, IInv', ClusterStep PROVE PInv'
<1>1. PICK u \in DOMAIN job :
          \/ StartPod(u) \/ RunPod(u) \/ PodSucceeds(u) \/ PodFails(u)
          \/ RemovePods(u) \/ ExpireJob(u)
  BY DEF ClusterStep
<1>2. /\ u \in 1..Len(job) /\ job[u] \in Job /\ Shapes /\ Shapes' /\ JobsPaid
      /\ job \in Seq(Job) /\ Len(job) \in Nat /\ used \in Nat /\ UNCHANGED call
  BY <1>1, JobAssumption DEF PInv, IInv, Shapes, StartPod, RunPod, PodSucceeds, PodFails, RemovePods, ExpireJob
<1>3. ASSUME NEW j \in Job, job' = [job EXCEPT ![u] = j]
      PROVE  /\ Len(job') = Len(job)
             /\ \A w \in 1..Len(job) : job'[w] = IF w = u THEN j ELSE job[w]
  BY <1>2, <1>3
<1>4. \A d \in Callers : call[d].pc \in Working =>
          call[d].uid \in 1..Len(job) /\ job[call[d].uid].caller = d /\ job[call[d].uid].state # "deleted"
  BY DEF PInv, IInv, OwnJob
<1>5. ASSUME NEW j \in Job, job' = [job EXCEPT ![u] = j], UNCHANGED used,
             \/ j.failed = job[u].failed /\ job[u].pod # "succeeded"
             \/ j.failed = job[u].failed /\ j.pod = job[u].pod
             \/ job[u].state = "deleted"
      PROVE  PInv'
  <2>1. \A d \in Callers : Excused(d)' => Excused(d)
    BY <1>2, <1>3, <1>4, <1>5 DEF Excused, At, Working
  <2>2. ExcusedSet' \subseteq ExcusedSet
    BY <2>1 DEF ExcusedSet
  <2>3. Len(job') + used <= Len(job) + used'
    BY <1>2, <1>3, <1>5
  <2> QED BY <1>2, <2>2, <2>3, Balance DEF PInv
<1>6. CASE PodFails(u)
  <2> DEFINE s == IF job[u].state = "active" /\ job[u].failed = BackoffLimit
                  THEN "finished" ELSE job[u].state
             f == job[u].failed + 1
             j == [job[u] EXCEPT !.pod = "none", !.failed = f, !.state = s]
             c == job[u].caller
  <2>1. f \in Nat /\ s \in {"active", "finished", "deleted"} /\ c \in Callers
    BY <1>2 DEF Job
  <2>2. job' = [job EXCEPT ![u] = j] /\ used' = used + 1
    BY <1>6 DEF PodFails, Becomes, Fault
  <2> HIDE DEF s, f
  <2>3. j \in Job
    BY <1>2, <2>1 DEF Job
  <2> HIDE DEF j
  <2>4. ASSUME NEW d \in Callers, d # c PROVE Excused(d)' => Excused(d)
    <3>1. call[d].pc \in Working => call[d].uid # u
      BY <1>4, <2>4
    <3> QED BY <1>2, <1>3, <1>4, <2>2, <2>3, <3>1 DEF Excused, At, Working
  <2>5. ExcusedSet' \subseteq ExcusedSet \cup {c}
    BY <2>4 DEF ExcusedSet
  <2> HIDE DEF c
  <2> QED BY <1>2, <1>3, <2>1, <2>2, <2>3, <2>5, Balance DEF PInv
<1>7. CASE StartPod(u)
  <2> DEFINE j == [job[u] EXCEPT !.pod = "starting"]
  <2>1. j \in Job /\ j.failed = job[u].failed
    BY <1>2 DEF Job
  <2> QED BY <1>5, <1>7, <2>1 DEF StartPod, Becomes
<1>8. CASE RunPod(u)
  <2> DEFINE j == [job[u] EXCEPT !.pod = "running"]
  <2>1. j \in Job /\ j.failed = job[u].failed
    BY <1>2 DEF Job
  <2> QED BY <1>5, <1>8, <2>1 DEF RunPod, Becomes
<1>9. CASE PodSucceeds(u)
  <2> DEFINE s == IF job[u].state = "active" THEN "finished" ELSE job[u].state
             j == [job[u] EXCEPT !.pod = "succeeded", !.state = s]
  <2>1. s \in {"active", "finished", "deleted"}
    BY <1>2 DEF Job
  <2>2. job' = [job EXCEPT ![u] = j] /\ UNCHANGED used /\ job[u].pod = "running"
    BY <1>9 DEF PodSucceeds, Becomes
  <2> HIDE DEF s
  <2>3. j \in Job /\ j.failed = job[u].failed
    BY <1>2, <2>1 DEF Job
  <2> QED BY <1>5, <2>2, <2>3
<1>10. CASE RemovePods(u)
  <2> DEFINE j == [job[u] EXCEPT !.pod = "none", !.failed = 0]
  <2>1. j \in Job
    BY <1>2 DEF Job
  <2> QED BY <1>5, <1>10, <2>1 DEF RemovePods, Becomes
<1>11. CASE ExpireJob(u)
  <2> DEFINE j == [job[u] EXCEPT !.state = "deleted"]
  <2>1. j \in Job /\ j.failed = job[u].failed /\ j.pod = job[u].pod
    BY <1>2 DEF Job
  <2> QED BY <1>5, <1>11, <2>1 DEF ExpireJob, Becomes
<1> QED
  BY <1>1, <1>6, <1>7, <1>8, <1>9, <1>10, <1>11

\* At first every caller is excused and there is no Job.
LEMMA PaidInit == Init => PInv
<1> SUFFICES ASSUME Init PROVE JobsPaid
  BY InvInit DEF PInv
<1>1. Len(job) = 0 /\ used = 0
  BY DEF Init
<1>2. ExcusedSet = Callers
  <2>1. \A c \in Callers : call[c].pc = "idle"
    BY DEF Init, NewCall
  <2> QED BY <2>1 DEF ExcusedSet, Excused
<1>3. Cardinality(Callers) \in Nat
  BY JobAssumption, FS_CardinalityType
<1> QED BY <1>1, <1>2, <1>3 DEF JobsPaid

\* Every variable keeps its type; in particular no more Jobs are ever created
\* than there are callers and faults: a call without a fault has one Job.
THEOREM TypeCorrect == Spec => []TypeOK
<1>1. PInv /\ [Next]_vars => PInv'
  <2> SUFFICES ASSUME PInv, [Next]_vars PROVE PInv'
    OBVIOUS
  <2>1. IInv'
    BY InvNext DEF PInv
  <2>2. CASE UNCHANGED vars
    BY <2>1, <2>2 DEF vars, PInv, JobsPaid, ExcusedSet, Excused, At
  <2>3. CASE Next
    BY <2>1, <2>3, PaidCreateJob, PaidCalls, PaidCluster DEF Next, ExecCommandJob, Crash
  <2> QED BY <2>2, <2>3
<1>2. PInv => TypeOK
  <2> SUFFICES ASSUME PInv PROVE TypeOK
    OBVIOUS
  <2> DEFINE n == Cardinality(Callers) + MaxFaults
  <2>1. Shapes /\ JobsPaid
    BY DEF PInv, IInv
  <2>2. Cardinality(Callers) \in Nat /\ Cardinality(ExcusedSet) \in Nat
    <3>1. ExcusedSet \subseteq Callers /\ IsFiniteSet(Callers)
      BY JobAssumption DEF ExcusedSet
    <3> QED BY <3>1, FS_Subset, FS_CardinalityType
  <2>3. Len(job) \in Nat /\ Len(job) <= n /\ n \in Nat
    BY <2>1, <2>2, JobAssumption DEF Shapes, JobsPaid
  <2>4. Cardinality(Uids) = n
    BY <2>3, FS_Interval DEF Uids
  <2>5. \A c \in Callers : call[c].uid \in Uids \cup {NoUid}
    BY <2>1, <2>3 DEF Shapes, Uids, NoUid
  <2>6. call \in [Callers -> Call]
    BY <2>1, <2>5 DEF Shapes, CallShape, Call
  <2> QED BY <2>1, <2>3, <2>4, <2>6, JobAssumption DEF Shapes, TypeOK
<1> QED
  BY <1>1, <1>2, PaidInit, PTL DEF Spec
=============================================================================
