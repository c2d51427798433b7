--------------------------- MODULE MCJobPipeline ----------------------------
(* JobPipeline on small instances. *)
EXTENDS JobPipeline, TLC

\* Every evaluate job leads to the one analysis of the instance.
OneAnalysis == [e \in EvaluateJobs |-> CHOOSE t \in TailorJobs : TRUE]

\* Workers are interchangeable, and so are enqueueing sessions.
Symmetry == Permutations(Workers) \cup Permutations(Submitters)
=============================================================================
