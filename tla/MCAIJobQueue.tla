---------------------------- MODULE MCAIJobQueue ----------------------------
(* AIJobQueue on small instances. *)
EXTENDS AIJobQueue, TLC

\* Workers and sessions of one kind are interchangeable.
Symmetry == Permutations(Workers) \cup Permutations(Submitters)
=============================================================================
