----------------------- MODULE MCExtractionScheduler -----------------------
(* Instances of ExtractionScheduler: two attachments of each company, more *)
(* companies than workers.                                                 *)
EXTENDS ExtractionScheduler, TLC

CONSTANTS a1, a2, b1, b2, c1, c2, A, B, C

MCTickerOf == a1 :> A @@ a2 :> A @@ b1 :> B @@ b2 :> B @@ c1 :> C @@ c2 :> C
MCArrivals == {<<a1, a2, b1, b2, c1, c2>>, <<a1, b1, c1, a2, b2, c2>>}
=============================================================================
