---------------------------- MODULE MCCommandJob ----------------------------
(***************************************************************************)
(* An instance of CommandJob for TLC.                                      *)
(***************************************************************************)
EXTENDS CommandJob

CONSTANTS a1, a2

Both(x, y) == [c \in Callers |-> IF c = a1 THEN x ELSE y]

\* Two callers whose jobs have the same name: handlers of two volumes whose paths
\* differ only after the place where names are cut, operator and node server
\* that both list, or a process and the one that is to replace it.  The other
\* commands are treated as one of these: startCacheCmd and setCacheModeCmd as
\* addCoreCmd, removeCoreCmd as stopCacheCmd, statsCmd as listCachesCmd.
MCCommands == {
    Both(addCoreCmd(1, <<"pv", "x">>), addCoreCmd(1, <<"pv", "y">>)),
    Both(listCachesCmd, listCachesCmd),
    Both(stopCacheCmd(1), stopCacheCmd(1))}
=============================================================================
