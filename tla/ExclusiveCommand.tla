-------------------------- MODULE ExclusiveCommand --------------------------
(***************************************************************************)
(* What ExecCommandJob (pkg/k8sutils/k8sutils.go) promises to those who    *)
(* run casadm with it, without Jobs, pods and watches: among the callers   *)
(* whose commands have the same name one at a time uses it, nobody but the *)
(* user gives it back, and a strict caller is told that its command is     *)
(* done only if the command took effect during that use.                   *)
(*                                                                         *)
(* The promise has its limits.  A name may stay taken after its user has   *)
(* left, until it expires; and a command may take effect after its caller  *)
(* was told that it failed.                                                *)
(***************************************************************************)
CONSTANT Callers

VARIABLES
    name,    \* the name of each caller's command, which stays
    strict,  \* the callers that are content with nothing but the effect
    taken,   \* the callers whose names are taken
    using,   \* those of them that are at it
    worked,  \* the callers whose last use has taken effect
    told     \* the callers that were told that their command is done

vars == <<name, strict, taken, using, worked, told>>

Init ==
    /\ strict \subseteq Callers
    /\ taken = {} /\ using = {} /\ worked = {} /\ told = {}

Free(c) == \A d \in taken : name[d] # name[c]

Take(c) ==
    /\ Free(c) /\ c \notin told
    /\ taken' = taken \cup {c}
    /\ \/ using' = using \cup {c} /\ worked' = worked \ {c}
       \/ UNCHANGED <<using, worked>>   \* and does not learn of it
    /\ UNCHANGED told

TakeEffect(c) ==
    /\ worked' = worked \cup {c}
    /\ UNCHANGED <<taken, using, told>>

\* The user of a name leaves, and gives it back or not.
Leave(c) ==
    /\ c \in using
    /\ using' = using \ {c}
    /\ taken' \in {taken, taken \ {c}}
    /\ \/ UNCHANGED told
       \/ (c \in strict => c \in worked) /\ told' = told \cup {c}
    /\ UNCHANGED worked

Expire(c) ==
    /\ c \in taken \ using
    /\ taken' = taken \ {c}
    /\ UNCHANGED <<using, worked, told>>

Next ==
    /\ \E c \in Callers : Take(c) \/ TakeEffect(c) \/ Leave(c) \/ Expire(c)
    /\ UNCHANGED <<name, strict>>

Spec == Init /\ [][Next]_vars
=============================================================================
