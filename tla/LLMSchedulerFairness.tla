------------------------ MODULE LLMSchedulerFairness ------------------------
(***************************************************************************)
(* How fair the dispatch order of LLMScheduler is.  A history variable     *)
(* watches the dispatches: for how many of them each stage has had a job   *)
(* that could have been run instead.  It never influences the scheduler.   *)
(***************************************************************************)
EXTENDS LLMScheduler

VARIABLE overtaken  \* of each stage: other stages' dispatches while it was ready

fairVars == <<vars, overtaken>>

Stages == DOMAIN STAGE_WEIGHTS

FInit ==
  /\ Init
  /\ overtaken = [stage \in Stages |-> 0]

(* A dispatch, and who could have been served instead: the count restarts  *)
(* when its stage is served or has nothing it could run.                   *)
ObservedDispatch ==
  /\ DispatchOne
  /\ overtaken' = [stage \in Stages |->
       IF stage = StageAt(FirstReady) \/ ReadyTicker(stage) = 0 THEN 0 ELSE overtaken[stage] + 1]

OtherSteps ==
  /\ Main \/ DispatchEnds \/ (\E j \in Jobs : RegisterCallback(j) \/ Worker(j)) \/ Terminated
  /\ UNCHANGED overtaken

FNext == ObservedDispatch \/ OtherSteps

FSpec == FInit /\ [][FNext]_fairVars /\ WF_fairVars(FNext)

-----------------------------------------------------------------------------
(* A lane with a job to run waits for no more dispatches of the others     *)
(* than their weights add up to (3 for documents, 4 for announcements, 5   *)
(* for companies), however the queues change: "Weighted lanes prevent      *)
(* company reducers from starving document work" (HOW_IT_WORKS.md) and the *)
(* converse.                                                               *)
LaneGap == \A stage \in Stages : overtaken[stage] <= Len(StageCycle) - STAGE_WEIGHTS[stage]
=============================================================================
