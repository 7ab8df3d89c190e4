------------------------ MODULE MCCompletionRequests ------------------------
(* An instance of CompletionRequests: a foreground request and two chunks  *)
(* of one disclosure, sharing its semaphore.                               *)
EXTENDS CompletionRequests, TLC

CONSTANTS p1, b1, b2, d1

OneDisclosure == p1 :> d1 @@ b1 :> d1 @@ b2 :> d1
=============================================================================
