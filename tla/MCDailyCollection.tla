------------------------- MODULE MCDailyCollection -------------------------
(* Instances of DailyCollection.                                           *)
EXTENDS DailyCollection, TLC

CONSTANTS d1, d2, d3, warrant, annex

MCPassedAt == [d \in PassedOver |-> IF d = warrant THEN 1 ELSE 2]

(* The issuer disclosures that are collected are interchangeable.          *)
Symmetry == Permutations(Disclosures \ PassedOver)
=============================================================================
