---------------------------- MODULE MCScrapeRuns -----------------------------
(* ScrapeRuns on small instances. *)
EXTENDS ScrapeRuns
=============================================================================
