--------------------------- MODULE MCNodeServer ---------------------------
(***************************************************************************)
(* Instances of NodeServer for TLC.  One volume is enough for progress;    *)
(* two share the ids that casadm gives to cores.                           *)
(***************************************************************************)
EXTENDS NodeServer, TLC

CONSTANTS d1, d2, c4, wt, v1, v2

\* Two volumes of one kind are alike.
VolumesAlike == Permutations(Volumes)

-----------------------------------------------------------------------------
\* LIVENESS, violated.  NodePublishVolume of what is published already succeeds
\* (node.go:370 "Check if mount is compatible. Return OK if these match"), so a
\* staged volume that a pod keeps asking for is published in the end.
PublishCompletes ==
    \A v \in Volumes :
        <>[](v \in want /\ kub[v].dev = "staged") => []<>(kub[v].pub = "published")
=============================================================================
