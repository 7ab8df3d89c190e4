------------------------- MODULE MCProviderResilience -------------------------
(* Two chunks on two workers.                                              *)
EXTENDS ProviderResilience

CONSTANTS c1, c2

MCChunks == {c1, c2}
MCDelays == {1, 2}
=============================================================================
