----------------------- MODULE MCPreparationPipeline -----------------------
(* Instances of PreparationPipeline.                                       *)
EXTENDS PreparationPipeline, TLC

CONSTANTS annA, annB, x1, x2, x3

(* One announcement has the documents, the third a copy of the first.      *)
AllOfA == [x \in Attachments |-> annA]
NoDuplicates == [x \in Attachments |-> x]
ThirdOfFirst == [NoDuplicates EXCEPT ![x3] = x1]
=============================================================================
