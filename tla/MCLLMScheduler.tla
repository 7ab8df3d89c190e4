--------------------------- MODULE MCLLMScheduler ---------------------------
(* Instances of LLMScheduler, with the history of LLMSchedulerFairness.    *)
EXTENDS LLMSchedulerFairness, TLC

CONSTANTS a1, a2, ar, b1, br,              \* jobs of the instance with hooks
          d1, d2, d3, n1, n2, c1, c2,      \* jobs of the instance with lanes
          A, B, gA, gB, tickerU, tickerV

(* Two disclosures of two companies: document jobs, and the announcement   *)
(* reducers their completion hooks submit.                                 *)
HookStages  == a1 :> "document" @@ a2 :> "document" @@ ar :> "announcement"
               @@ b1 :> "document" @@ br :> "announcement"
HookGroups  == a1 :> gA @@ a2 :> gA @@ ar :> gA @@ b1 :> gB @@ br :> gB
HookTickers == a1 :> A @@ a2 :> A @@ ar :> A @@ b1 :> B @@ br :> B
HookOrders  == {<<a1, a2, b1>>, <<b1, a2, a1>>, <<a2, b1, a1>>}

(* Documents, announcement and company reducers of two companies, each in  *)
(* a group of its own: enough for the cycle of the stages to come round.   *)
LaneJobs    == {d1, d2, d3, n1, n2, c1, c2}
LaneStages  == d1 :> "document" @@ d2 :> "document" @@ d3 :> "document"
               @@ n1 :> "announcement" @@ n2 :> "announcement"
               @@ c1 :> "company" @@ c2 :> "company"
LaneTickers == [j \in LaneJobs |-> IF j \in {d1, d3, n1} THEN tickerU ELSE tickerV]
LaneOrders  == {<<d1, d2, d3, n1, n2, c1, c2>>, <<c1, d1, n1, c2, n2, d2, d3>>}

(* A behaviour submits the jobs of one instance or of the other.           *)
MCStageOf  == HookStages @@ LaneStages
MCGroupOf  == HookGroups @@ [j \in LaneJobs |-> j]
MCTickerOf == HookTickers @@ LaneTickers
MCFollowUp == [j \in Jobs |-> CASE j = a2 -> {ar} [] j = b1 -> {br} [] OTHER -> {}]
MCArrivals == HookOrders \cup LaneOrders
=============================================================================
