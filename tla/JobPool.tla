------------------------------ MODULE JobPool ------------------------------
(***************************************************************************)
(* What the two background schedulers of the pipeline promise their        *)
(* callers, and nothing of how: a job that was accepted runs once, never   *)
(* beyond the caps on the jobs running together, its completion hook runs  *)
(* once after it, and the pool closes only when no accepted job and no     *)
(* hook is left.  LLMScheduler and ExtractionScheduler implement it.       *)
(***************************************************************************)
EXTENDS FiniteSets, Naturals

CONSTANTS Jobs,
          Caps   \* set of <<class, cap>>: at most cap jobs of class run together

VARIABLES status,  \* new, pending, running, notifying (the hook runs), completed
          closed

vars == <<status, closed>>

Init == status = [j \in Jobs |-> "new"] /\ closed = FALSE

Running == {j \in Jobs : status[j] = "running"}

Within(running) ==
  \A class_cap \in Caps : Cardinality(running \cap class_cap[1]) <= class_cap[2]

Move(j, from, to) ==
  /\ status[j] = from
  /\ status' = [status EXCEPT ![j] = to]
  /\ UNCHANGED closed

Submit(j)   == ~closed /\ Move(j, "new", "pending")
Start(j)    == Within(Running \cup {j}) /\ Move(j, "pending", "running")
Finish(j)   == Move(j, "running", "notifying")
Complete(j) == Move(j, "notifying", "completed")

Close ==
  /\ \A j \in Jobs : status[j] \in {"new", "completed"}
  /\ closed' = TRUE
  /\ UNCHANGED status

Next ==
  \/ \E j \in Jobs : Submit(j) \/ Start(j) \/ Finish(j) \/ Complete(j)
  \/ Close

Spec == Init /\ [][Next]_vars
=============================================================================
