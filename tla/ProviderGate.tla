---------------------------- MODULE ProviderGate ----------------------------
(***************************************************************************)
(* AdaptiveProviderGate (provider_gate.py): the monitor that caps the      *)
(* requests in flight to one AI provider.  Its operations are one critical *)
(* section each, so each is one action here; the threads that call them    *)
(* are in module CompletionRequests.  Latency figures and event counters   *)
(* are telemetry and are left out.                                         *)
(***************************************************************************)
EXTENDS Integers

CONSTANTS ConfiguredMax,   \* configured_max: slots at full speed
          HealthyPerStep,  \* healthy_successes_per_step: successes per slot regained
          Enabled          \* adaptive gate, or a fixed cap of ConfiguredMax

ASSUME GateAssumption ==
  /\ ConfiguredMax \in Nat \ {0}
  /\ HealthyPerStep \in Nat /\ HealthyPerStep >= 2
  /\ Enabled \in BOOLEAN

VARIABLES currentLimit,     \* _current_limit
          active,           \* _active: slots taken
          healthyStreak,    \* _healthy_streak
          waitingPriority,  \* _waiting_priority
          waitingBulk       \* _waiting_bulk

gateVars == <<currentLimit, active, healthyStreak, waitingPriority, waitingBulk>>

GateInit ==
  /\ currentLimit = ConfiguredMax
  /\ active = 0
  /\ healthyStreak = 0
  /\ waitingPriority = 0
  /\ waitingBulk = 0

AtLeast(floor, n) == IF n < floor THEN floor ELSE n   \* max(floor, n)

Limit == IF Enabled THEN currentLimit ELSE ConfiguredMax

(* Mutant of MayEnter: bulk chunks yield to nobody.                        *)
MayEnterUnyielding(bulk) == active < Limit

(* The condition of the loop in acquire: a slot is free, and a bulk chunk  *)
(* lets a waiting foreground request go first.                             *)
MayEnter(bulk) ==
  /\ active < Limit
  /\ ~(bulk /\ waitingPriority > 0)

(* acquire that finds a slot at once: its waiting counter goes up and down *)
(* inside the one critical section.                                        *)
EnterAtOnce(bulk) ==
  /\ MayEnter(bulk)
  /\ active' = active + 1
  /\ UNCHANGED <<currentLimit, healthyStreak, waitingPriority, waitingBulk>>

(* acquire that has to wait: Condition.wait releases the monitor.          *)
StartWaiting(bulk) ==
  /\ ~MayEnter(bulk)
  /\ IF bulk
     THEN waitingBulk' = waitingBulk + 1 /\ UNCHANGED waitingPriority
     ELSE waitingPriority' = waitingPriority + 1 /\ UNCHANGED waitingBulk
  /\ UNCHANGED <<currentLimit, active, healthyStreak>>

(* Mutant of EnterAfterWait: the two counters are swapped.                 *)
EnterAfterWaitSwapped(bulk) ==
  /\ MayEnter(bulk)
  /\ active' = active + 1
  /\ IF bulk
     THEN waitingPriority' = AtLeast(0, waitingPriority - 1) /\ UNCHANGED waitingBulk
     ELSE waitingBulk' = AtLeast(0, waitingBulk - 1) /\ UNCHANGED waitingPriority
  /\ UNCHANGED <<currentLimit, healthyStreak>>

(* A waiter that wakes up (notify_all, or the half-second timeout) and     *)
(* finds the condition true.                                               *)
EnterAfterWait(bulk) ==
  /\ MayEnter(bulk)
  /\ active' = active + 1
  /\ IF bulk
     THEN waitingBulk' = AtLeast(0, waitingBulk - 1) /\ UNCHANGED waitingPriority
     ELSE waitingPriority' = AtLeast(0, waitingPriority - 1) /\ UNCHANGED waitingBulk
  /\ UNCHANGED <<currentLimit, healthyStreak>>

FinishActive == active' = AtLeast(0, active - 1)

(* Mutant of RampDue: one success too late.                                *)
RampDueLate(streak) ==
  currentLimit < ConfiguredMax /\ streak > HealthyPerStep * AtLeast(1, currentLimit)

RampDue(streak) ==
  /\ currentLimit < ConfiguredMax
  /\ streak >= HealthyPerStep * AtLeast(1, currentLimit)

RecordSuccess ==
  /\ FinishActive
  /\ IF ~Enabled
     THEN UNCHANGED <<currentLimit, healthyStreak>>
     ELSE IF RampDue(healthyStreak + 1)
          THEN currentLimit' = currentLimit + 1 /\ healthyStreak' = 0
          ELSE healthyStreak' = healthyStreak + 1 /\ UNCHANGED currentLimit
  /\ UNCHANGED <<waitingPriority, waitingBulk>>

(* Mutant of ReducedLimit: a throttled limit of one slot becomes zero.     *)
ReducedLimitUnfloored(kind) ==
  CASE kind = "throttle"  -> currentLimit \div 2
    [] kind = "transient" -> AtLeast(1, currentLimit - 1)
    [] OTHER              -> currentLimit

(* kind is "throttle" for status 429, "transient" for a transport failure  *)
(* or status >= 500, "plain" for the rest.                                 *)
ReducedLimit(kind) ==
  CASE kind = "throttle"  -> AtLeast(1, currentLimit \div 2)
    [] kind = "transient" -> AtLeast(1, currentLimit - 1)
    [] OTHER              -> currentLimit

(* Mutant of RecordFailure: the failed request keeps its slot.             *)
RecordFailureKeepsSlot(kind) ==
  /\ healthyStreak' = 0
  /\ currentLimit' = IF Enabled THEN ReducedLimit(kind) ELSE currentLimit
  /\ UNCHANGED <<active, waitingPriority, waitingBulk>>

RecordFailure(kind) ==
  /\ FinishActive
  /\ healthyStreak' = 0
  /\ currentLimit' = IF Enabled THEN ReducedLimit(kind) ELSE currentLimit
  /\ UNCHANGED <<waitingPriority, waitingBulk>>
=============================================================================
