----------------------------- MODULE MCLLMCalls ------------------------------
(* The calls of the LLM on small instances. *)
EXTENDS LLMCalls
=============================================================================
