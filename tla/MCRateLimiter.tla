--------------------------- MODULE MCRateLimiter ----------------------------
(* RateLimiter on small instances. *)
EXTENDS RateLimiter, TLC

CONSTANTS b1, b2

\* One tight bucket and one that admits two requests a window.
MCLimit == (b1 :> 1) @@ (b2 :> 2)
=============================================================================
