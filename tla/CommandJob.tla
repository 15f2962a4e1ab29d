----------------------------- MODULE CommandJob -----------------------------
(***************************************************************************)
(* How a casadm command is run on a node: as a Kubernetes Job              *)
(* (ExecCommandJob of pkg/k8sutils/k8sutils.go, called by pkg/opencas),    *)
(* whose name is made from the command (pkg/opencas/casadm.go, getJobName  *)
(* of pkg/opencas/api.go).  The name is the only protection against        *)
(* running a command twice at a time: Create refuses a name that is taken. *)
(*                                                                         *)
(* A caller is a reconciliation or a handler on the node that needs its    *)
(* command done and calls again after an error.  Jobs are told apart by    *)
(* their uid, which the callers do not use when they delete.  This module  *)
(* shows where the failures come from that the other modules assume of a   *)
(* command: "job" (an error without effect), "late" (an error in spite of  *)
(* the effect) and "cut" (a listing that ends early).                      *)
(***************************************************************************)
EXTENDS Naturals, Sequences, FiniteSets

CONSTANTS
    Callers,       \* those who need a command done
    Commands,      \* the commands that they may have: functions of the callers
    MaxName,       \* length at which job names are cut (63 characters)
    BackoffLimit,  \* how often a failed pod of a Job is replaced (6 by default)
    FaultKinds,    \* "api", "lost", "watch", "slow", "casadm", "crash"
    MaxFaults      \* bound on what goes wrong

(***************************************************************************)
(* Commands: the letter of the casadm command and its parameters; a path   *)
(* is a sequence.  A value that casadm is to choose or to default is left  *)
(* out of the command.                                                     *)
(***************************************************************************)
startCacheCmd(path, mode, cls) == <<"S">> \o path \o mode \o cls
stopCacheCmd(cacheId) == <<"T", cacheId>>
addCoreCmd(cacheId, path) == <<"A", cacheId>> \o path
removeCoreCmd(cacheId, coreId) == <<"R", cacheId, coreId>>
listCachesCmd == <<"L">>
statsCmd(cacheId) == <<"P", cacheId>>
setCacheModeCmd(cacheId, mode) == <<"Q", cacheId, mode>>

\* What is left of a command that is too long for the name of a Job.
getJobName(cmd) == SubSeq(cmd, 1, IF Len(cmd) < MaxName THEN Len(cmd) ELSE MaxName)

ASSUME JobAssumption ==
    /\ IsFiniteSet(Callers)
    /\ \A f \in Commands : DOMAIN f = Callers
    /\ MaxName \in Nat /\ BackoffLimit \in Nat /\ MaxFaults \in Nat

VARIABLES
    command, \* the command of each caller, which stays
    call,    \* where each caller is
    job,     \* the Jobs that were created so far, with their pods
    effect,  \* the Jobs whose command was carried out
    used     \* how many faults there have been

vars == <<command, call, job, effect, used>>

Name(c) == getJobName(command[c])
Letter(c) == Head(command[c])

PCs == {"idle", "watch", "wait", "pods", "logs", "delete", "failed", "ok"}

\* Every Job costs a caller or a fault.
Uids == 1..(Cardinality(Callers) + MaxFaults)
NoUid == 0

(***************************************************************************)
(* A call: the Job it created, the exit code it found ("unknown" is -1),   *)
(* and what it is going to answer.                                         *)
(***************************************************************************)
Call == [pc : PCs, uid : Uids \cup {NoUid}, exit : {"unknown", "zero", "other"},
         answer : {"failed", "ok"}]
NewCall == [pc |-> "idle", uid |-> NoUid, exit |-> "unknown", answer |-> "failed"]

\* A Job: who created it, how many of its pods have failed, and the pod that has
\* not; "deleted" while pods of it may still be around.
Job == [caller : Callers, state : {"active", "finished", "deleted"},
        failed : Nat, pod : {"none", "starting", "running", "succeeded"}]

\* The type of every variable.
TypeOK ==
    /\ command \in Commands
    /\ call \in [Callers -> Call]
    /\ job \in Seq(Job) /\ Len(job) <= Cardinality(Uids)
    /\ effect \subseteq 1..Len(job)
    /\ \A c \in Callers : call[c].uid \in 0..Len(job)
    /\ used \in Nat

Init ==
    /\ command \in Commands
    /\ call = [c \in Callers |-> NewCall]
    /\ job = <<>>
    /\ effect = {}
    /\ used = 0

-----------------------------------------------------------------------------
Fault(k) == k \in FaultKinds /\ used < MaxFaults /\ used' = used + 1

At(c, pc) == call[c].pc = pc
Goto(c, pc) == call' = [call EXCEPT ![c] = [call[c] EXCEPT !.pc = pc]]

\* The call returns: the deferred deletion of the Job comes first.
Answer(c, a) == call' = [call EXCEPT ![c] = [call[c] EXCEPT !.pc = "delete", !.answer = a]]

\* The Jobs in the API server that have the name of c's command.
Named(c) == {u \in DOMAIN job : job[u].state # "deleted" /\ Name(job[u].caller) = Name(c)}

NewCasadmJob(c) == [caller |-> c, state |-> "active", failed |-> 0, pod |-> "none"]

Created(c) == job' = Append(job, NewCasadmJob(c)) /\ UNCHANGED effect

-----------------------------------------------------------------------------
(***************************************************************************)
(* ExecCommandJob                                                          *)
(***************************************************************************)
CreateJob_NoEarlyReturn(c) ==
    /\ At(c, "idle")
    /\ IF Named(c) = {}
       THEN Created(c) /\ call' = [call EXCEPT ![c] = [NewCall EXCEPT !.pc = "watch",
                                                                       !.uid = Len(job) + 1]]
       ELSE Answer(c, "failed") /\ UNCHANGED <<job, effect>>
    /\ UNCHANGED used

CreateJob_Adopted(c) ==
    /\ At(c, "idle")
    /\ \E u \in IF Named(c) = {} THEN {Len(job) + 1} ELSE Named(c) :
          call' = [call EXCEPT ![c] = [NewCall EXCEPT !.pc = "watch", !.uid = u]]
    /\ IF Named(c) = {} THEN Created(c) ELSE UNCHANGED <<job, effect>>
    /\ UNCHANGED used

\* Without a Job of its own a call has nothing to delete; if the answer of the
\* API server is lost it has, but does not know.
CreateJob(c) ==
    /\ At(c, "idle")
    /\ \/ /\ Named(c) = {}
          /\ Created(c)
          /\ \/ /\ call' = [call EXCEPT ![c] = [NewCall EXCEPT !.pc = "watch",
                                                                !.uid = Len(job) + 1]]
                /\ UNCHANGED used
             \/ Fault("lost") /\ Goto(c, "failed")
       \/ /\ (Named(c) # {} /\ UNCHANGED used) \/ Fault("api")
          /\ Goto(c, "failed") /\ UNCHANGED <<job, effect>>

WatchJob(c) ==
    /\ At(c, "watch")
    /\ \/ Goto(c, "wait") /\ UNCHANGED used
       \/ Fault("api") /\ Answer(c, "failed")
    /\ UNCHANGED <<job, effect>>

Ended(u) == job[u].failed > 0 \/ job[u].pod = "succeeded"

\* The wait ends with the first pod of the Job that ends, when the watch is
\* closed, or after five minutes: the error of that is overwritten.
WaitForJob(c) ==
    /\ At(c, "wait")
    /\ (Ended(call[c].uid) /\ UNCHANGED used) \/ Fault("watch") \/ Fault("slow")
    /\ Goto(c, "pods")
    /\ UNCHANGED <<job, effect>>

SeenPods_ByName(c) ==
    UNION {IF Name(job[u].caller) # Name(c) THEN {} ELSE
           (IF job[u].failed > 0 THEN {"failed"} ELSE {}) \cup ({job[u].pod} \ {"none"})
              : u \in DOMAIN job}

\* The states of the pods that are listed: those with the uid of the Job.
SeenPods(c) ==
    LET j == job[call[c].uid]
    IN (IF j.failed > 0 THEN {"failed"} ELSE {}) \cup ({j.pod} \ {"none"})

\* Any of the pods is the first of the list.  One that has not started yet has
\* no container status; one that runs has no exit code, which leaves -1.
ListPods(c) ==
    /\ At(c, "pods")
    /\ \/ /\ UNCHANGED used
          /\ \/ SeenPods(c) = {} /\ Answer(c, "failed")
             \/ "starting" \in SeenPods(c) /\ Answer(c, "failed")
             \/ \E p \in SeenPods(c) \ {"starting"} :
                   call' = [call EXCEPT ![c] = [call[c] EXCEPT !.pc = "logs",
                              !.exit = CASE p = "succeeded" -> "zero"
                                         [] p = "failed"    -> "other"
                                         [] p = "running"   -> "unknown"]]
       \/ Fault("api") /\ Answer(c, "failed")
    /\ UNCHANGED <<job, effect>>

Accepted_Inverted(c, gone) ==
    call[c].exit # "zero" \/ Letter(c) \in {"L", "P"} \/ (Letter(c) \in {"T", "R"} /\ gone)

\* What the callers in api.go make of the exit code: ListCaches and GetStatistics
\* do not look, StopCache and RemoveCore are content when the output says that
\* what they remove is gone.
Accepted(c, gone) ==
    call[c].exit = "zero" \/ Letter(c) \in {"L", "P"} \/ (Letter(c) \in {"T", "R"} /\ gone)

GetLogs(c) ==
    /\ At(c, "logs")
    /\ \/ /\ \E gone \in BOOLEAN : Answer(c, IF Accepted(c, gone) THEN "ok" ELSE "failed")
          /\ UNCHANGED used
       \/ Fault("api") /\ Answer(c, "failed")
    /\ UNCHANGED <<job, effect>>

\* The deferred deletion goes by the name; its error is ignored.
DeleteJob(c) ==
    /\ At(c, "delete")
    /\ \/ /\ job' = [u \in DOMAIN job |->
                       IF u \in Named(c) THEN [job[u] EXCEPT !.state = "deleted"] ELSE job[u]]
          /\ UNCHANGED used
       \/ Fault("api") /\ UNCHANGED job
    /\ Goto(c, call[c].answer)
    /\ UNCHANGED effect

\* The callers of a command come back after an error.
CallAgain(c) ==
    /\ At(c, "failed")
    /\ Goto(c, "idle")
    /\ UNCHANGED <<job, effect, used>>

ExecCommandJob(c) ==
    /\ \/ CreateJob(c) \/ WatchJob(c) \/ WaitForJob(c) \/ ListPods(c) \/ GetLogs(c)
       \/ DeleteJob(c) \/ CallAgain(c)
    /\ UNCHANGED command

\* The process of the caller ends; its Job stays.
Crash(c) ==
    /\ call[c].pc \notin {"idle", "failed", "ok"}
    /\ Fault("crash")
    /\ Goto(c, "failed")
    /\ UNCHANGED <<command, job, effect>>

-----------------------------------------------------------------------------
(***************************************************************************)
(* The cluster: one pod of a Job at a time, replaced if it fails.  The     *)
(* pods of a deleted Job are removed, but one that runs may carry out its  *)
(* command first, and so may one that fails.                               *)
(***************************************************************************)
Becomes(u, j) == job' = [job EXCEPT ![u] = j]

StartPod(u) ==
    /\ job[u].state = "active" /\ job[u].pod = "none"
    /\ Becomes(u, [job[u] EXCEPT !.pod = "starting"])
    /\ UNCHANGED <<call, effect, used>>

RunPod(u) ==
    /\ job[u].pod = "starting"
    /\ Becomes(u, [job[u] EXCEPT !.pod = "running"])
    /\ UNCHANGED <<call, effect, used>>

PodSucceeds(u) ==
    /\ job[u].pod = "running"
    /\ Becomes(u, [job[u] EXCEPT !.pod = "succeeded",
                                 !.state = IF @ = "active" THEN "finished" ELSE @])
    /\ effect' = effect \cup {u}
    /\ UNCHANGED <<call, used>>

\* By an error of casadm, or by an eviction or the end of the node, which may come
\* after the command was carried out.
PodFails(u) ==
    /\ job[u].pod = "running"
    /\ Fault("casadm")
    /\ effect' \in {effect, effect \cup {u}}
    /\ Becomes(u, [job[u] EXCEPT !.pod = "none", !.failed = @ + 1,
                     !.state = IF @ = "active" /\ job[u].failed = BackoffLimit
                               THEN "finished" ELSE @])
    /\ UNCHANGED call

RemovePods(u) ==
    /\ job[u].state = "deleted"
    /\ job[u].pod # "none" \/ job[u].failed > 0
    /\ Becomes(u, [job[u] EXCEPT !.pod = "none", !.failed = 0])
    /\ UNCHANGED <<call, effect, used>>

\* Its caller still works with the Job.
Attended(u) ==
    \E c \in Callers : call[c].uid = u /\ call[c].pc \in {"watch", "wait", "pods", "logs", "delete"}

ExpireJob_NoTTL(u) == FALSE /\ UNCHANGED vars

\* TTLSecondsAfterFinished: a Job that ended is deleted after a minute.  A
\* caller that is still there takes less than that to read the result.
ExpireJob(u) ==
    /\ job[u].state = "finished"
    /\ ~Attended(u)
    /\ Becomes(u, [job[u] EXCEPT !.state = "deleted"])
    /\ UNCHANGED <<call, effect, used>>

ClusterStep ==
    /\ \E u \in DOMAIN job :
          \/ StartPod(u) \/ RunPod(u) \/ PodSucceeds(u) \/ PodFails(u)
          \/ RemovePods(u) \/ ExpireJob(u)
    /\ UNCHANGED command

Next ==
    \/ \E c \in Callers : ExecCommandJob(c) \/ Crash(c)
    \/ ClusterStep

Spec == Init /\ [][Next]_vars

\* Callers go on, and the cluster starts, ends and removes pods and Jobs.
FairSpec ==
    /\ Spec
    /\ \A c \in Callers : WF_vars(ExecCommandJob(c))
    /\ WF_vars(ClusterStep)

-----------------------------------------------------------------------------
(***************************************************************************)
(* Properties                                                              *)
(***************************************************************************)

\* SAFETY.  Starting a cache, adding a core or setting a mode that was reported
\* as done was carried out by the Job of that call: neither a watch that is
\* closed, nor a timeout, nor a pod of a Job that had the same name before makes
\* an unfinished command look done (lines 173-191).
DoneMeansCarriedOut ==
    \A c \in Callers :
        At(c, "ok") /\ Letter(c) \in {"S", "A", "Q"} => call[c].uid \in effect

\* SAFETY.  The Job that a call waits for and reads is not deleted by another
\* call with the same job name, although deletion goes by the name: a call that
\* did not create the Job returns before it comes to that (lines 139-146).
WaitedJobStays ==
    \A c \in Callers :
        call[c].pc \in {"watch", "wait", "pods", "logs"} =>
            job[call[c].uid].state # "deleted"

\* LIVENESS.  Every command is done in the end, although Jobs that were left
\* behind, and the ones of other calls, take its name (api.go:156: they expire).
CommandsDone == \A c \in Callers : <>At(c, "ok")

(***************************************************************************)
(* What the callers may rely on, and how calls and Jobs are seen as it.    *)
(***************************************************************************)
Taken == {c \in Callers : \E u \in DOMAIN job : job[u].caller = c /\ job[u].state # "deleted"}

Using == {c \in Callers : call[c].pc \in {"watch", "wait", "pods", "logs", "delete"}}

Worked == {c \in Callers : call[c].uid \in effect}

Told == {c \in Callers : At(c, "ok")}

Strict == {c \in Callers : Letter(c) \in {"S", "A", "Q"}}

NameOf == [c \in Callers |-> Name(c)]

EC == INSTANCE ExclusiveCommand WITH
          name <- NameOf, strict <- Strict, taken <- Taken,
          using <- Using, worked <- Worked, told <- Told

\* REFINEMENT.  ExecCommandJob gives the name of a command to one caller at a time,
\* and its deletion by name never takes it from another one that is at it,
\* whatever is lost, closed, timed out or left behind by a crash (lines 139-191);
\* a strict caller is told of success only for an effect of its own Job.
CommandsExclusive == EC!Spec
=============================================================================
