-------------------------- MODULE MCDriverInstance --------------------------
(***************************************************************************)
(* An instance of DriverInstance for TLC.                                  *)
(***************************************************************************)
EXTENDS DriverInstance

CONSTANTS l1, l2, c1, c2

\* Another configuration, and other labels.
MCUserSpecs == {
    [labels |-> l1, cfg |-> c1],
    [labels |-> l1, cfg |-> c2],
    [labels |-> l2, cfg |-> c1]}
=============================================================================
