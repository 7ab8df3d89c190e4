--------------------------- MODULE MCCoverageHistory ---------------------------
(* Windows that nest, touch, overlap, or are an instant.                   *)
EXTENDS CoverageHistory

CONSTANTS a, x

MCWindows == {[start |-> w[1], end |-> w[2]] : w \in {<<0, 3>>, <<0, 1>>, <<1, 1>>, <<1, 2>>}}
=============================================================================
