------------------------------ MODULE MCTracker ------------------------------
(* The tracker on small instances. *)
EXTENDS Tracker, TLC

\* Sessions, listings, analyses and statuses are interchangeable.
Symmetry ==
  UNION {Permutations(Sessions), Permutations(Listings), Permutations(Analyses),
         Permutations(Status)}
=============================================================================
