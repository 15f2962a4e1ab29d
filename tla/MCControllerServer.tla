------------------------ MODULE MCControllerServer ------------------------
(***************************************************************************)
(* Instances of ControllerServer for TLC: one volume, two nodes.           *)
(***************************************************************************)
EXTENDS ControllerServer

CONSTANTS n1, n2

-----------------------------------------------------------------------------
\* SAFETY, violated.  A volume that is published to a node has the intermediate
\* Pod that brings its backend there, and that Pod stays (README.md:128 "the
\* backend for the cached volume is requested on the same node where the Pod
\* is scheduled").
AttachedHasPod ==
    \A n \in Nodes : know[n] = "there" => obj[n].state \in {"pending", "live"}
=============================================================================
