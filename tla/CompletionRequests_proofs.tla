---------------------- MODULE CompletionRequests_proofs ----------------------
(***************************************************************************)
(* For any number of request threads, disclosures, slots, permits and      *)
(* attempts, and for each transport: the provider gate's counters are the  *)
(* threads they stand for, and its promise on admission holds.             *)
(*                                                                         *)
(* IInv is the inductive invariant.  Types alone are not inductive: that a *)
(* semaphore stays below its limit needs the count of its permits' owners. *)
(***************************************************************************)
EXTENDS CompletionRequests, FiniteSetTheorems, TLAPS

IInv == TypeOK /\ PermitAccounting /\ SlotAccounting /\ WaitersCounted /\ RampNotOverdue

USE DEF AtLeast, ReturnPermit, CountAttempt

-----------------------------------------------------------------------------
(* Counting: a finite set that a thread joins or leaves.                   *)

LEMMA Joins ==
  ASSUME NEW S \in SUBSET Requests, NEW r \in Requests, r \notin S
  PROVE  Cardinality(S \cup {r}) = Cardinality(S) + 1
BY RequestAssumption, FS_Subset, FS_AddElement

LEMMA Leaves ==
  ASSUME NEW S \in SUBSET Requests, NEW r \in S
  PROVE  /\ Cardinality(S \ {r}) = Cardinality(S) - 1
         /\ Cardinality(S) >= 1
<1>1. IsFiniteSet(S)
  BY RequestAssumption, FS_Subset
<1>2. Cardinality(S \ {r}) = Cardinality(S) - 1
  BY <1>1, FS_RemoveElement
<1>3. Cardinality(S \ {r}) \in Nat /\ Cardinality(S) \in Nat
  BY <1>1, FS_RemoveElement, FS_CardinalityType
<1> QED BY <1>2, <1>3

LEMMA Counts ==
  ASSUME NEW S \in SUBSET Requests
  PROVE  Cardinality(S) \in Nat /\ (Cardinality(S) = 0 <=> S = {})
BY RequestAssumption, FS_Subset, FS_CardinalityType, FS_EmptySet

LEMMA Subsets ==
  ASSUME NEW d
  PROVE  /\ Holding \in SUBSET Requests
         /\ Permitted(d) \in SUBSET Requests
         /\ Waiting(Bulk) \in SUBSET Requests
         /\ Waiting(Requests \ Bulk) \in SUBSET Requests
BY RequestAssumption DEF Holding, Permitted, Waiting

-----------------------------------------------------------------------------
(* The initial states.                                                     *)

LEMMA InitIInv == Init => IInv
<1> SUFFICES ASSUME Init PROVE IInv
  OBVIOUS
<1> USE DEF Init, GateInit
<1>1. TypeOK
  BY GateAssumption, RequestAssumption DEF TypeOK
<1>2. PermitAccounting
  <2> SUFFICES ASSUME NEW d \in Disclosures
               PROVE  permits[d] + Cardinality(Permitted(d)) = DisclosureLimit
    BY DEF PermitAccounting
  <2>1. Permitted(d) = {}
    BY DEF Permitted
  <2> QED BY <2>1, FS_EmptySet, RequestAssumption
<1>3. SlotAccounting
  <2>1. Holding = {}
    BY DEF Holding
  <2> QED BY <2>1, FS_EmptySet DEF SlotAccounting
<1>4. WaitersCounted
  <2>1. Waiting(Bulk) = {} /\ Waiting(Requests \ Bulk) = {}
    BY RequestAssumption DEF Waiting
  <2> QED BY <2>1, FS_EmptySet DEF WaitersCounted
<1>5. RampNotOverdue
  BY GateAssumption DEF RampNotOverdue
<1> QED BY <1>1, <1>2, <1>3, <1>4, <1>5 DEF IInv

-----------------------------------------------------------------------------
(* The counts, one at a time.  Each action moves one thread.               *)

LEMMA Moves ==
  ASSUME TypeOK, NEW r \in Requests, NEW label, pc' = [pc EXCEPT ![r] = label]
  PROVE  /\ pc'[r] = label
         /\ \A s \in Requests : s # r => pc'[s] = pc[s]
BY DEF TypeOK

(* Who waits in acquire changes only in AcquireWaits and AcquireAfterWait. *)
LEMMA WaitersStep ==
  ASSUME TypeOK, WaitersCounted, [Next]_vars
  PROVE  WaitersCounted'
<1> USE RequestAssumption
<1>u. ASSUME UNCHANGED <<pc, waitingBulk, waitingPriority>>
      PROVE  WaitersCounted'
  BY <1>u DEF WaitersCounted, Waiting
<1>n. ASSUME NEW r \in Requests, UNCHANGED <<waitingBulk, waitingPriority>>, NEW label,
             Goto(r, label), pc[r] # "waiting", label # "waiting"
      PROVE  WaitersCounted'
  <2>1. Waiting(Bulk)' = Waiting(Bulk) /\ Waiting(Requests \ Bulk)' = Waiting(Requests \ Bulk)
    BY <1>n, Moves DEF Waiting, Goto
  <2> QED BY <2>1, <1>n DEF WaitersCounted
<1>w. ASSUME NEW r \in Requests, AcquireWaits(r)
      PROVE  WaitersCounted'
  <2> USE <1>w DEF AcquireWaits, StartWaiting, Goto
  <2>1. CASE r \in Bulk
    <3>1. Waiting(Bulk)' = Waiting(Bulk) \cup {r} /\ r \notin Waiting(Bulk)
      BY <2>1, Moves DEF Waiting
    <3>2. Waiting(Requests \ Bulk)' = Waiting(Requests \ Bulk)
      BY <2>1, Moves DEF Waiting
    <3>3. Cardinality(Waiting(Bulk)') = Cardinality(Waiting(Bulk)) + 1
      BY <3>1, Joins, Subsets
    <3> QED BY <2>1, <3>2, <3>3 DEF WaitersCounted
  <2>2. CASE r \notin Bulk
    <3>1. /\ Waiting(Requests \ Bulk)' = Waiting(Requests \ Bulk) \cup {r}
          /\ r \notin Waiting(Requests \ Bulk)
      BY <2>2, Moves DEF Waiting
    <3>2. Waiting(Bulk)' = Waiting(Bulk)
      BY <2>2, Moves DEF Waiting
    <3>3. Cardinality(Waiting(Requests \ Bulk)') = Cardinality(Waiting(Requests \ Bulk)) + 1
      BY <3>1, Joins, Subsets
    <3> QED BY <2>2, <3>2, <3>3 DEF WaitersCounted
  <2> QED BY <2>1, <2>2
<1>a. ASSUME NEW r \in Requests, AcquireAfterWait(r)
      PROVE  WaitersCounted'
  <2> USE <1>a DEF AcquireAfterWait, EnterAfterWait, Goto
  <2>1. CASE r \in Bulk
    <3>1. Waiting(Bulk)' = Waiting(Bulk) \ {r} /\ r \in Waiting(Bulk)
      BY <2>1, Moves DEF Waiting
    <3>2. Waiting(Requests \ Bulk)' = Waiting(Requests \ Bulk)
      BY <2>1, Moves DEF Waiting
    <3>3. /\ Cardinality(Waiting(Bulk)') = Cardinality(Waiting(Bulk)) - 1
          /\ Cardinality(Waiting(Bulk)) >= 1
      BY <3>1, Leaves, Subsets
    <3>4. waitingBulk' = waitingBulk - 1 /\ UNCHANGED waitingPriority
      <4>1. waitingBulk' = AtLeast(0, waitingBulk - 1) /\ UNCHANGED waitingPriority
        BY <2>1
      <4>2. waitingBulk \in Nat /\ waitingBulk >= 1
        BY <3>3, Subsets, Counts DEF WaitersCounted
      <4> QED BY <4>1, <4>2
    <3> QED BY <3>2, <3>3, <3>4 DEF WaitersCounted
  <2>2. CASE r \notin Bulk
    <3>1. /\ Waiting(Requests \ Bulk)' = Waiting(Requests \ Bulk) \ {r}
          /\ r \in Waiting(Requests \ Bulk)
      BY <2>2, Moves DEF Waiting
    <3>2. Waiting(Bulk)' = Waiting(Bulk)
      BY <2>2, Moves DEF Waiting
    <3>3. /\ Cardinality(Waiting(Requests \ Bulk)') = Cardinality(Waiting(Requests \ Bulk)) - 1
          /\ Cardinality(Waiting(Requests \ Bulk)) >= 1
      BY <3>1, Leaves, Subsets
    <3>4. waitingPriority' = waitingPriority - 1 /\ UNCHANGED waitingBulk
      <4>1. waitingPriority' = AtLeast(0, waitingPriority - 1) /\ UNCHANGED waitingBulk
        BY <2>2
      <4>2. waitingPriority \in Nat /\ waitingPriority >= 1
        BY <3>3, Subsets, Counts DEF WaitersCounted
      <4> QED BY <4>1, <4>2
    <3> QED BY <3>2, <3>3, <3>4 DEF WaitersCounted
  <2> QED BY <2>1, <2>2
<1>1. CASE UNCHANGED vars
  BY <1>1, <1>u DEF vars, gateVars, reqVars
<1>2. ASSUME NEW r \in Requests, Step(r)
      PROVE  WaitersCounted'
  <2>1. CASE TakePermit(r)
    BY <2>1, <1>n DEF TakePermit, gateVars
  <2>2. CASE AcquireAtOnce(r)
    BY <2>2, <1>n DEF AcquireAtOnce, EnterAtOnce
  <2>3. CASE AcquireWaits(r)
    BY <2>3, <1>w
  <2>4. CASE AcquireAfterWait(r)
    BY <2>4, <1>a
  <2>5. ASSUME NEW o \in OutcomesOf(provider), Respond(r, o)
        PROVE  WaitersCounted'
    <3>1. UNCHANGED <<waitingBulk, waitingPriority>>
      BY <2>5 DEF Respond, RecordSuccess, RecordFailure, gateVars
    <3> QED BY <2>5, <3>1, <1>n DEF Respond
  <2>6. CASE Leave(r)
    BY <2>6, <1>n DEF Leave, gateVars
  <2>7. CASE ReleaseTyped(r)
    BY <2>7, <1>n DEF ReleaseTyped, RecordFailure
  <2> QED BY <1>2, <2>1, <2>2, <2>3, <2>4, <2>5, <2>6, <2>7 DEF Step
<1>3. CASE Terminated
  BY <1>1, <1>3 DEF Terminated
<1> QED BY <1>1, <1>2, <1>3 DEF Next

(* A slot is taken by the thread that enters, and given back, or stranded, *)
(* by the one whose request ends.                                          *)
LEMMA SlotsStep ==
  ASSUME TypeOK, SlotAccounting, [Next]_vars
  PROVE  SlotAccounting'
<1> USE DEF Goto
<1>same. ASSUME UNCHANGED <<active, stranded>>, Holding' = Holding
         PROVE  SlotAccounting'
  BY <1>same DEF SlotAccounting
<1>in. ASSUME NEW r \in Requests \ Holding, UNCHANGED stranded, active' = active + 1,
              Holding' = Holding \cup {r}
       PROVE  SlotAccounting'
  <2>1. Cardinality(Holding') = Cardinality(Holding) + 1
    BY <1>in, Joins, Subsets
  <2> QED BY <2>1, <1>in, Subsets, Counts DEF SlotAccounting, TypeOK
<1>out. ASSUME NEW r \in Holding, UNCHANGED stranded, FinishActive, Holding' = Holding \ {r}
        PROVE  SlotAccounting'
  <2>1. Cardinality(Holding') = Cardinality(Holding) - 1 /\ Cardinality(Holding) >= 1
    BY <1>out, Leaves, Subsets
  <2>2. Cardinality(Holding) \in Nat /\ active \in Nat /\ stranded \in Nat
    BY Subsets, Counts, GateAssumption DEF TypeOK
  <2>3. active' = active - 1
    BY <2>1, <2>2, <1>out DEF SlotAccounting, FinishActive
  <2> QED BY <2>1, <2>2, <2>3, <1>out DEF SlotAccounting
<1>1. CASE UNCHANGED vars
  <2>1. Holding' = Holding
    BY <1>1 DEF Holding, vars, reqVars
  <2> QED BY <2>1, <1>1, <1>same DEF vars, gateVars, reqVars
<1>2. ASSUME NEW r \in Requests, Step(r)
      PROVE  SlotAccounting'
  <2>1. CASE TakePermit(r)
    <3>1. Holding' = Holding
      BY <2>1, Moves DEF TakePermit, Holding
    <3> QED BY <3>1, <2>1, <1>same DEF TakePermit, gateVars
  <2>2. CASE AcquireAtOnce(r)
    <3>1. Holding' = Holding \cup {r} /\ r \notin Holding
      BY <2>2, Moves DEF AcquireAtOnce, Holding
    <3> QED BY <3>1, <2>2, <1>in DEF AcquireAtOnce, EnterAtOnce
  <2>3. CASE AcquireWaits(r)
    <3>1. Holding' = Holding
      BY <2>3, Moves DEF AcquireWaits, Holding
    <3> QED BY <3>1, <2>3, <1>same DEF AcquireWaits, StartWaiting
  <2>4. CASE AcquireAfterWait(r)
    <3>1. Holding' = Holding \cup {r} /\ r \notin Holding
      BY <2>4, Moves DEF AcquireAfterWait, Holding
    <3> QED BY <3>1, <2>4, <1>in DEF AcquireAfterWait, EnterAfterWait
  <2>5. ASSUME NEW o \in OutcomesOf(provider), Respond(r, o)
        PROVE  SlotAccounting'
    <3>0. /\ outcome'[r] = o
          /\ \A s \in Requests : s # r => outcome'[s] = outcome[s]
          /\ pc[r] = "sending" /\ pc'[r] = "leaving"
          /\ \A s \in Requests : s # r => pc'[s] = pc[s]
      BY <2>5, Moves DEF Respond, TypeOK
    <3>1. CASE o \in Typed
      <4>1. Holding' = Holding
        BY <3>0, <3>1 DEF Holding
      <4>2. UNCHANGED <<gateVars, stranded>>
        BY <2>5, <3>1 DEF Respond, Typed, Succeeded, Httpx, Unreleased
      <4> QED BY <4>1, <4>2, <1>same DEF gateVars
    <3>2. CASE o \notin Typed
      <4>1. Holding' = Holding \ {r} /\ r \in Holding
        BY <3>0, <3>2 DEF Holding
      <4>2. CASE o \in Unreleased
        <5>1. stranded' = stranded + 1 /\ UNCHANGED active
          BY <2>5, <4>2 DEF Respond, Typed, Succeeded, Httpx, Unreleased, gateVars
        <5>2. Cardinality(Holding') = Cardinality(Holding) - 1
          BY <4>1, Leaves, Subsets
        <5> QED BY <5>1, <5>2, Subsets, Counts DEF SlotAccounting, TypeOK
      <4>3. CASE o \notin Unreleased
        <5>1. FinishActive /\ UNCHANGED stranded
          BY <2>5, <3>2, <4>3 DEF Respond, RecordSuccess, RecordFailure
        <5> QED BY <5>1, <4>1, <1>out
      <4> QED BY <4>2, <4>3
    <3> QED BY <3>1, <3>2
  <2>6. CASE Leave(r)
    <3>0. /\ pc[r] = "leaving"
          /\ \A s \in Requests : s # r => pc'[s] = pc[s] /\ outcome'[s] = outcome[s]
      BY <2>6, Moves DEF Leave, TypeOK
    <3>1. outcome[r] \in Typed => pc'[r] = "typed"
      BY <2>6, Moves DEF Leave
    <3>2. outcome[r] \notin Typed => pc'[r] \in {"start", "done", "failed"}
      BY <2>6, Moves DEF Leave
    <3>3. Holding' = Holding
      BY <3>0, <3>1, <3>2 DEF Holding
    <3> QED BY <3>3, <2>6, <1>same DEF Leave, gateVars
  <2>7. CASE ReleaseTyped(r)
    <3>0. /\ pc[r] = "typed" /\ pc'[r] = "failed"
          /\ \A s \in Requests : s # r => pc'[s] = pc[s] /\ outcome'[s] = outcome[s]
      BY <2>7, Moves DEF ReleaseTyped, TypeOK
    <3>1. Holding' = Holding \ {r} /\ r \in Holding
      BY <3>0 DEF Holding
    <3> QED BY <3>1, <2>7, <1>out DEF ReleaseTyped, RecordFailure
  <2> QED BY <1>2, <2>1, <2>2, <2>3, <2>4, <2>5, <2>6, <2>7 DEF Step
<1>3. CASE Terminated
  BY <1>1, <1>3 DEF Terminated
<1> QED BY <1>1, <1>2, <1>3 DEF Next

(* A permit is taken in TakePermit and given back in Leave.                *)
LEMMA PermitsStep ==
  ASSUME TypeOK, PermitAccounting, [Next]_vars
  PROVE  PermitAccounting'
<1> USE RequestAssumption DEF Goto
<1>same. ASSUME UNCHANGED permits, \A d \in Disclosures : Permitted(d)' = Permitted(d)
         PROVE  PermitAccounting'
  BY <1>same DEF PermitAccounting
<1>stay. ASSUME NEW r \in Requests, UNCHANGED permits, NEW label, Goto(r, label),
                pc[r] \in {"permitted", "waiting", "sending", "leaving"} <=>
                  label \in {"permitted", "waiting", "sending", "leaving"}
         PROVE  PermitAccounting'
  <2>1. \A d \in Disclosures : Permitted(d)' = Permitted(d)
    BY <1>stay, Moves DEF Permitted
  <2> QED BY <2>1, <1>stay, <1>same
<1>1. CASE UNCHANGED vars
  <2>1. \A d \in Disclosures : Permitted(d)' = Permitted(d)
    BY <1>1 DEF Permitted, vars, reqVars
  <2> QED BY <2>1, <1>1, <1>same DEF vars, reqVars
<1>2. ASSUME NEW r \in Requests, Step(r)
      PROVE  PermitAccounting'
  <2>1. CASE TakePermit(r)
    <3> SUFFICES ASSUME NEW d \in Disclosures
                 PROVE  permits'[d] + Cardinality(Permitted(d)') = DisclosureLimit
      BY DEF PermitAccounting
    <3> USE <2>1 DEF TakePermit
    <3>0. permits[d] + Cardinality(Permitted(d)) = DisclosureLimit /\ permits[d] \in Nat
      BY DEF PermitAccounting, TypeOK
    <3>1. CASE d = DisclosureOf[r]
      <4>1. Permitted(d)' = Permitted(d) \cup {r} /\ r \notin Permitted(d)
        BY <3>1, Moves DEF Permitted
      <4>2. Cardinality(Permitted(d)') = Cardinality(Permitted(d)) + 1
        BY <4>1, Joins, Subsets
      <4>3. permits'[d] = permits[d] - 1
        BY <3>1 DEF TypeOK
      <4> QED BY <3>0, <4>2, <4>3, Subsets, Counts
    <3>2. CASE d # DisclosureOf[r]
      <4>1. Permitted(d)' = Permitted(d)
        BY <3>2, Moves DEF Permitted
      <4> QED BY <3>0, <3>2, <4>1 DEF TypeOK
    <3> QED BY <3>1, <3>2
  <2>2. CASE AcquireAtOnce(r)
    BY <2>2, <1>stay DEF AcquireAtOnce
  <2>3. CASE AcquireWaits(r)
    BY <2>3, <1>stay DEF AcquireWaits
  <2>4. CASE AcquireAfterWait(r)
    BY <2>4, <1>stay DEF AcquireAfterWait
  <2>5. ASSUME NEW o \in OutcomesOf(provider), Respond(r, o)
        PROVE  PermitAccounting'
    BY <2>5, <1>stay DEF Respond
  <2>6. CASE Leave(r)
    <3> SUFFICES ASSUME NEW d \in Disclosures
                 PROVE  permits'[d] + Cardinality(Permitted(d)') = DisclosureLimit
      BY DEF PermitAccounting
    <3>0. permits[d] + Cardinality(Permitted(d)) = DisclosureLimit /\ permits[d] \in Nat
      BY DEF PermitAccounting, TypeOK
    <3>1. /\ pc[r] = "leaving"
          /\ pc'[r] \in {"typed", "start", "done", "failed"}
          /\ \A s \in Requests : s # r => pc'[s] = pc[s]
      BY <2>6, Moves DEF Leave
    <3>2. permits' = [permits EXCEPT ![DisclosureOf[r]] = @ + 1]
      BY <2>6 DEF Leave
    <3>3. CASE d = DisclosureOf[r]
      <4>1. Permitted(d)' = Permitted(d) \ {r} /\ r \in Permitted(d)
        BY <3>1, <3>3 DEF Permitted
      <4>2. Cardinality(Permitted(d)') = Cardinality(Permitted(d)) - 1
        BY <4>1, Leaves, Subsets
      <4>3. permits'[d] = permits[d] + 1
        BY <3>2, <3>3 DEF TypeOK
      <4> QED BY <3>0, <4>2, <4>3, Subsets, Counts
    <3>4. CASE d # DisclosureOf[r]
      <4>1. Permitted(d)' = Permitted(d)
        BY <3>1, <3>4 DEF Permitted
      <4> QED BY <3>0, <3>2, <3>4, <4>1 DEF TypeOK
    <3> QED BY <3>3, <3>4
  <2>7. CASE ReleaseTyped(r)
    BY <2>7, <1>stay DEF ReleaseTyped
  <2> QED BY <1>2, <2>1, <2>2, <2>3, <2>4, <2>5, <2>6, <2>7 DEF Step
<1>3. CASE Terminated
  BY <1>1, <1>3 DEF Terminated
<1> QED BY <1>1, <1>2, <1>3 DEF Next

-----------------------------------------------------------------------------
(* The gate's own variables.                                               *)

GateTypeOK ==
  /\ currentLimit \in 1..ConfiguredMax
  /\ active \in 0..ConfiguredMax
  /\ healthyStreak \in Nat
  /\ waitingPriority \in Nat
  /\ waitingBulk \in Nat

(* Whatever a thread does to the gate is one of its operations.            *)
GateStep ==
  \/ UNCHANGED gateVars
  \/ \E bulk \in BOOLEAN : EnterAtOnce(bulk) \/ StartWaiting(bulk) \/ EnterAfterWait(bulk)
  \/ RecordSuccess
  \/ \E kind \in {"throttle", "transient", "plain"} : RecordFailure(kind)

LEMMA Kinds == \A o : FailureKind(o) \in {"throttle", "transient", "plain"}
<1> SUFFICES ASSUME NEW o PROVE FailureKind(o) \in {"throttle", "transient", "plain"}
  OBVIOUS
<1>1. CASE o \in {"http_429", "typed_429"}
  BY <1>1 DEF FailureKind
<1>2. CASE o \in {"http_5xx", "transport", "summary_error", "typed_outage"}
  BY <1>2 DEF FailureKind
<1>3. CASE o \notin {"http_429", "typed_429", "http_5xx", "transport", "summary_error",
                      "typed_outage"}
  BY <1>3 DEF FailureKind
<1> QED BY <1>1, <1>2, <1>3

LEMMA StepIsGateStep == [Next]_vars => GateStep
<1> SUFFICES ASSUME [Next]_vars PROVE GateStep
  OBVIOUS
<1>1. CASE UNCHANGED vars
  BY <1>1 DEF vars, GateStep
<1>2. ASSUME NEW r \in Requests, Step(r)
      PROVE  GateStep
  <2>1. CASE TakePermit(r)
    BY <2>1 DEF TakePermit, GateStep
  <2>2. CASE AcquireAtOnce(r)
    <3>1. \E bulk \in BOOLEAN : EnterAtOnce(bulk)
      BY <2>2, (r \in Bulk) \in BOOLEAN DEF AcquireAtOnce
    <3> QED BY <3>1 DEF GateStep
  <2>3. CASE AcquireWaits(r)
    <3>1. \E bulk \in BOOLEAN : StartWaiting(bulk)
      BY <2>3, (r \in Bulk) \in BOOLEAN DEF AcquireWaits
    <3> QED BY <3>1 DEF GateStep
  <2>4. CASE AcquireAfterWait(r)
    <3>1. \E bulk \in BOOLEAN : EnterAfterWait(bulk)
      BY <2>4, (r \in Bulk) \in BOOLEAN DEF AcquireAfterWait
    <3> QED BY <3>1 DEF GateStep
  <2>5. ASSUME NEW o \in OutcomesOf(provider), Respond(r, o)
        PROVE  GateStep
    BY <2>5, Kinds DEF Respond, GateStep
  <2>6. CASE Leave(r)
    BY <2>6 DEF Leave, GateStep
  <2>7. CASE ReleaseTyped(r)
    BY <2>7, Kinds DEF ReleaseTyped, GateStep
  <2> QED BY <1>2, <2>1, <2>2, <2>3, <2>4, <2>5, <2>6, <2>7 DEF Step
<1>3. CASE Terminated
  BY <1>1, <1>3 DEF Terminated
<1> QED BY <1>1, <1>2, <1>3 DEF Next

LEMMA GateTypesStep == GateTypeOK /\ GateStep => GateTypeOK'
<1> SUFFICES ASSUME GateTypeOK, GateStep PROVE GateTypeOK'
  OBVIOUS
<1> USE GateAssumption DEF GateTypeOK
<1>1. CASE UNCHANGED gateVars
  BY <1>1 DEF gateVars
<1>2. ASSUME NEW bulk \in BOOLEAN,
             EnterAtOnce(bulk) \/ StartWaiting(bulk) \/ EnterAfterWait(bulk)
      PROVE  GateTypeOK'
  BY <1>2 DEF EnterAtOnce, StartWaiting, EnterAfterWait, MayEnter, Limit
<1>3. CASE RecordSuccess
  BY <1>3 DEF RecordSuccess, FinishActive, RampDue
<1>4. ASSUME NEW kind \in {"throttle", "transient", "plain"}, RecordFailure(kind)
      PROVE  GateTypeOK'
  <2>1. ReducedLimit(kind) \in 1..ConfiguredMax
    BY DEF ReducedLimit
  <2> QED BY <1>4, <2>1 DEF RecordFailure, FinishActive
<1> QED BY <1>1, <1>2, <1>3, <1>4 DEF GateStep

LEMMA RampStep == GateTypeOK /\ RampNotOverdue /\ GateStep => RampNotOverdue'
<1> SUFFICES ASSUME GateTypeOK, RampNotOverdue, GateStep PROVE RampNotOverdue'
  OBVIOUS
<1> USE GateAssumption DEF GateTypeOK
<1>1. CASE UNCHANGED <<currentLimit, healthyStreak>>
  BY <1>1 DEF RampNotOverdue
<1>2. CASE RecordSuccess
  BY <1>2 DEF RecordSuccess, RampDue, RampNotOverdue
<1>3. ASSUME NEW kind \in {"throttle", "transient", "plain"}, RecordFailure(kind)
      PROVE  RampNotOverdue'
  <2>1. healthyStreak' = 0 /\ currentLimit' >= 1 /\ currentLimit' \in Nat
    BY <1>3 DEF RecordFailure, ReducedLimit
  <2>2. \A n \in Nat : n >= 1 => 0 < HealthyPerStep * n
    OBVIOUS
  <2> QED BY <2>1, <2>2 DEF RampNotOverdue
<1> QED BY <1>1, <1>2, <1>3 DEF GateStep, gateVars, EnterAtOnce, StartWaiting, EnterAfterWait

-----------------------------------------------------------------------------
(* Types.  The upper bound of a semaphore comes from PermitAccounting'.    *)

RequestTypeOK ==
  /\ provider \in Providers
  /\ pc \in [Requests -> {"start", "permitted", "waiting", "sending", "leaving",
                          "typed", "done", "failed"}]
  /\ outcome \in [Requests -> Outcomes \cup {"none"}]
  /\ attempt \in [Requests -> 1..Attempts]
  /\ permits \in [Disclosures -> Nat]
  /\ stranded \in Nat

LEMMA TypesStep ==
  ASSUME TypeOK, PermitAccounting, [Next]_vars
  PROVE  TypeOK'
<1> USE RequestAssumption DEF Goto
<1>g. GateTypeOK'
  BY GateTypesStep, StepIsGateStep DEF TypeOK, GateTypeOK
<1>p. permits' \in [Disclosures -> Nat] => permits' \in [Disclosures -> 0..DisclosureLimit]
  <2> SUFFICES ASSUME permits' \in [Disclosures -> Nat], NEW d \in Disclosures
               PROVE  permits'[d] \in 0..DisclosureLimit
    OBVIOUS
  <2>1. permits'[d] + Cardinality(Permitted(d)') = DisclosureLimit
    BY PermitsStep DEF PermitAccounting
  <2>2. Cardinality(Permitted(d)') \in Nat
    <3>1. Permitted(d)' \in SUBSET Requests
      BY DEF Permitted
    <3> QED BY <3>1, Counts
  <2> QED BY <2>1, <2>2
<1>s. RequestTypeOK'
  <2>1. CASE UNCHANGED vars
    BY <2>1 DEF RequestTypeOK, TypeOK, vars, reqVars
  <2>2. ASSUME NEW r \in Requests, Step(r)
        PROVE  RequestTypeOK'
    <3>1. CASE TakePermit(r)
      BY <3>1 DEF TakePermit, RequestTypeOK, TypeOK
    <3>2. CASE AcquireAtOnce(r) \/ AcquireWaits(r) \/ AcquireAfterWait(r)
      BY <3>2 DEF AcquireAtOnce, AcquireWaits, AcquireAfterWait, RequestTypeOK, TypeOK
    <3>3. ASSUME NEW o \in OutcomesOf(provider), Respond(r, o)
          PROVE  RequestTypeOK'
      <4>1. o \in Outcomes
        <5>1. provider \in {"openrouter", "gemini", "cloudflare"}
          BY RequestAssumption DEF TypeOK
        <5> QED BY <5>1 DEF OutcomesOf
      <4>2. stranded' \in {stranded, stranded + 1}
        BY <3>3 DEF Respond
      <4> QED BY <3>3, <4>1, <4>2 DEF Respond, RequestTypeOK, TypeOK
    <3>4. CASE Leave(r)
      <4>1. attempt' \in [Requests -> 1..Attempts]
        BY <3>4 DEF Leave, RequestTypeOK, TypeOK
      <4>2. outcome' \in [Requests -> Outcomes \cup {"none"}]
        BY <3>4 DEF Leave, RequestTypeOK, TypeOK
      <4> QED BY <3>4, <4>1, <4>2 DEF Leave, RequestTypeOK, TypeOK
    <3>5. CASE ReleaseTyped(r)
      BY <3>5 DEF ReleaseTyped, RequestTypeOK, TypeOK
    <3> QED BY <2>2, <3>1, <3>2, <3>3, <3>4, <3>5 DEF Step
  <2>3. CASE Terminated
    BY <2>1, <2>3 DEF Terminated
  <2> QED BY <2>1, <2>2, <2>3 DEF Next
<1> QED BY <1>g, <1>p, <1>s DEF TypeOK, RequestTypeOK, GateTypeOK

LEMMA IInvStep == IInv /\ [Next]_vars => IInv'
<1> SUFFICES ASSUME IInv, [Next]_vars PROVE IInv'
  OBVIOUS
<1>1. TypeOK'
  BY TypesStep DEF IInv
<1>2. PermitAccounting'
  BY PermitsStep DEF IInv
<1>3. SlotAccounting'
  BY SlotsStep DEF IInv
<1>4. WaitersCounted'
  BY WaitersStep DEF IInv
<1>5. RampNotOverdue'
  BY RampStep, StepIsGateStep DEF IInv, TypeOK, GateTypeOK
<1> QED BY <1>1, <1>2, <1>3, <1>4, <1>5 DEF IInv

-----------------------------------------------------------------------------
(* The results.                                                            *)

(* In every reachable state IInv holds.                                    *)
THEOREM Invariance == Spec => []IInv
BY InitIInv, IInvStep, PTL DEF Spec

(* The counters stay in range: the limit between 1 and the configured      *)
(* maximum through every halving, decrement and ramp, the active slots     *)
(* within the configured maximum, each semaphore within its permits, and   *)
(* the retry loop within its attempts.                                     *)
THEOREM TypeCorrect == Spec => []TypeOK
<1>1. IInv => TypeOK
  BY DEF IInv
<1> QED BY <1>1, Invariance, PTL

(* A slot is owned by one request or was stranded by a malformed body: no  *)
(* path through the handlers releases twice or, otherwise, forgets to.     *)
THEOREM SlotsAccounted == Spec => []SlotAccounting
<1>1. IInv => SlotAccounting
  BY DEF IInv
<1> QED BY <1>1, Invariance, PTL

(* The gate's waiting counters are the threads blocked in acquire.         *)
THEOREM WaitersAccounted == Spec => []WaitersCounted
<1>1. IInv => WaitersCounted
  BY DEF IInv
<1> QED BY <1>1, Invariance, PTL

(* Every permit of a disclosure is free or held by one of its requests.    *)
THEOREM PermitsAccounted == Spec => []PermitAccounting
<1>1. IInv => PermitAccounting
  BY DEF IInv
<1> QED BY <1>1, Invariance, PTL

(* Speed comes back on time: no healthy streak outlives its step.          *)
THEOREM RampsOnTime == Spec => []RampNotOverdue
<1>1. IInv => RampNotOverdue
  BY DEF IInv
<1> QED BY <1>1, Invariance, PTL

(* With a transport that types or wraps every failure (Cloudflare's) no    *)
(* slot is ever stranded: the slots counted are the requests that own one. *)
THEOREM CloudflareStrandsNothing == Spec => []NoStrandedSlot
<1> DEFINE None == provider = "cloudflare" => stranded = 0
<1>1. Init => None
  BY DEF Init
<1>2. None /\ [Next]_vars => None'
  <2> SUFFICES ASSUME None, [Next]_vars PROVE None'
    OBVIOUS
  <2> USE DEF Next, Step, TakePermit, AcquireAtOnce, AcquireWaits, AcquireAfterWait, Leave,
              ReleaseTyped, Terminated, vars, reqVars
  <2>1. provider' = provider
    BY DEF Respond
  <2>2. ASSUME NEW r \in Requests, NEW o \in OutcomesOf(provider), Respond(r, o),
               provider = "cloudflare"
        PROVE  stranded' = 0
    <3>1. o \notin Unreleased
      BY <2>2 DEF OutcomesOf
    <3> QED BY <2>2, <3>1 DEF Respond
  <2> QED BY <2>1, <2>2
<1>3. IInv /\ None => NoStrandedSlot
  <2> SUFFICES ASSUME IInv, None, provider = "cloudflare" PROVE active = Cardinality(Holding)
    BY DEF NoStrandedSlot
  <2> QED BY Subsets, Counts DEF IInv, SlotAccounting
<1>4. Spec => []None
  <2> HIDE DEF None
  <2> QED BY <1>1, <1>2, PTL DEF Spec
<1>5. QED
  <2> HIDE DEF None
  <2> QED BY <1>3, <1>4, Invariance, PTL

(* A chunk of a long document never takes a slot while a foreground        *)
(* request is blocked waiting for one.                                     *)
THEOREM ForegroundGoesFirst == Spec => ForegroundFirst
<1> DEFINE Yields == \A b \in Bulk :
                       pc[b] # "sending" /\ pc'[b] = "sending" => Waiting(Requests \ Bulk) = {}
<1>1. IInv /\ [Next]_vars => [Yields]_vars
  <2> SUFFICES ASSUME IInv, [Next]_vars, NEW b \in Bulk, pc[b] # "sending", pc'[b] = "sending"
               PROVE  Waiting(Requests \ Bulk) = {}
    OBVIOUS
  <2>0. b \in Requests
    BY RequestAssumption
  <2>1. MayEnter(TRUE)
    <3>1. CASE UNCHANGED vars
      BY <3>1 DEF vars, reqVars
    <3>2. ASSUME NEW r \in Requests, Step(r)
          PROVE  MayEnter(TRUE)
      <4>1. r = b
        BY <3>2, <2>0, Moves DEF IInv, Step, TakePermit, AcquireAtOnce, AcquireWaits,
             AcquireAfterWait, Respond, Leave, ReleaseTyped, Goto
      <4>2. AcquireAtOnce(b) \/ AcquireAfterWait(b)
        BY <3>2, <4>1, Moves DEF IInv, Step, TakePermit, AcquireWaits, Respond, Leave,
             ReleaseTyped, Goto
      <4>3. (b \in Bulk) = TRUE
        OBVIOUS
      <4> QED BY <4>2, <4>3 DEF AcquireAtOnce, AcquireAfterWait, EnterAtOnce, EnterAfterWait
    <3>3. CASE Terminated
      BY <3>1, <3>3 DEF Terminated
    <3> QED BY <3>1, <3>2, <3>3 DEF Next
  <2>2. waitingPriority = 0
    BY <2>1 DEF MayEnter, IInv, TypeOK
  <2> QED BY <2>2, Subsets, Counts DEF IInv, WaitersCounted
<1> QED BY <1>1, Invariance, PTL DEF Spec, ForegroundFirst
=============================================================================
