------------------------- MODULE MCCacheReconciler -------------------------
(***************************************************************************)
(* Instances of CacheReconciler for TLC, and the statements of the         *)
(* repository about the controller that its code does not keep.            *)
(***************************************************************************)
EXTENDS CacheReconciler

CONSTANTS d1, d2, c4, c8, wt, pt

\* Moving to another device and back, another line size, another mode, and
\* both ways to write the defaults.
MCUserSpecs == {
    [dev |-> d1, cls |-> Unset, mode |-> Unset],
    [dev |-> d1, cls |-> c4, mode |-> pt],
    [dev |-> d1, cls |-> c8, mode |-> wt],
    [dev |-> d2, cls |-> c4, mode |-> pt]}

MCEditSpecs == {
    [dev |-> d1, cls |-> c4, mode |-> Unset],
    [dev |-> d2, cls |-> Unset, mode |-> pt]}

\* What node.go:143 says of the label: "if label exists, but is empty, then
\* current cache is being removed".  At rest nothing is being removed.
EmptyLabelIsTransient == Settled => label # EmptyLabel

\* What README.md says of the resource: "Removing a Cache resource stops the
\* corresponding local cache instance."
RemovalStopsCache ==
    AtRest /\ ~cr.present => \A i \in DOMAIN caches : caches[i].vols # {}
=============================================================================
