----------------------------- MODULE MCLlmChain -----------------------------
(* Bounded instances of LlmChain.                                          *)
EXTENDS LlmChain

CONSTANTS c1, c2

MCCalls == {c1, c2}
=============================================================================
