----------------------------- MODULE MCProfiles ------------------------------
(* Profiles on small instances. *)
EXTENDS Profiles, TLC

\* Sessions are interchangeable.
Symmetry == Permutations(Sessions)
=============================================================================
