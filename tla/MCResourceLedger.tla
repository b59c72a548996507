-------------------------- MODULE MCResourceLedger --------------------------
(***************************************************************************)
(* Instances of ResourceLedger for TLC.  Owners and handles are            *)
(* interchangeable, so both are symmetry sets; allocation ids are ordered. *)
(***************************************************************************)
EXTENDS ResourceLedger, TLC

CONSTANTS o1, o2, h1, h2, h3

MCOwners == {o1, o2}
MCHandles == {h1, h2, h3}
MCOrders == {1}

Symmetry == Permutations(MCOwners) \cup Permutations(MCHandles)
=============================================================================
