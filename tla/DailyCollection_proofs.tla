----------------------- MODULE DailyCollection_proofs -----------------------
(***************************************************************************)
(* For any finite set of disclosures, any windows, clock, bounds and       *)
(* faults: what the checkpoint holds is analysed, its watermark moves past *)
(* nothing unresolved, nothing is analysed twice without need, a dead run  *)
(* is closed by the next, and the recovery lane serves the oldest row.     *)
(*                                                                         *)
(* IInv is the inductive invariant.  Typed and Clocked are the types;      *)
(* MemoryFresh, InHandTaken and NothingReset say what the memory of the    *)
(* run under way owes to Synapse and to the checkpoint it started from;    *)
(* Resolved carries the watermark from the listing to the checkpoint;      *)
(* LatestChecked carries the check of the last attempt to the new row.     *)
(***************************************************************************)
EXTENDS DailyCollection, FiniteSetTheorems, FunctionTheorems, WellFoundedInduction, TLAPS

Early == {"idle", "recovering", "creating", "registering", "collecting"}
Taken == {"extracting", "analysing", "marking"}
Rows == [status : {"RUNNING", "PARTIAL", "FAILED"}, started : Nat, registered : BOOLEAN]

WorldTyped ==
  /\ now \in 1..MaxNow \cup {1}
  /\ announced \in [Disclosures -> Nat]

SynapseTyped ==
  /\ status \in [Disclosures -> {"absent", "PENDING", "EXTRACTING", "ANALYZING", "PARTIAL", "READY"}]
  /\ commits \in [Disclosures -> Nat]
  /\ runs \in Seq(Rows)
  /\ checkpoint \in [seen : Seq(Disclosures), latest : Nat]
  /\ unconfirmed \subseteq Disclosures

MemoryTyped ==
  /\ pc \in Early \cup {"publishing", "processing", "checkpointing"} \cup Taken
  /\ window \in [from : Int, to : Nat]
  /\ staged \in Seq(Disclosures) /\ watermark \in Nat
  /\ ready \subseteq Disclosures /\ eligible \subseteq Disclosures /\ missing \subseteq Disclosures
  /\ next \in 1..(Len(staged) + 1)

Typed == WorldTyped /\ SynapseTyped /\ MemoryTyped

Clocked ==
  /\ \A d \in Disclosures : announced[d] <= now \/ (d \in PassedOver /\ announced[d] = PassedAt[d])
  /\ \A i \in DOMAIN runs : runs[i].started \in 1..now
  /\ window.to <= now /\ checkpoint.latest <= now /\ watermark <= now
  /\ Len(checkpoint.seen) <= SeenCap

(* Before the upsert there is nothing to process, and what is staged is    *)
(* staged once and is not among the ids of the checkpoint.                 *)
MemoryFresh ==
  /\ pc \in Early => staged = <<>>
  /\ pc \in Early \cup {"publishing"} => ready = {} /\ eligible = {} /\ next = 1
  /\ \A i, j \in DOMAIN staged : staged[i] = staged[j] => i = j
  /\ Work \cap Seen = {}

(* What is eligible is READY, and no disclosure still to be processed is   *)
(* eligible unless it was READY at the upsert.                             *)
InHandTaken ==
  /\ \A d \in eligible : status[d] = "READY"
  /\ \A i \in next..Len(staged) : staged[i] \in eligible => staged[i] \in ready
  /\ pc \in Taken => next <= Len(staged) /\ InHand \notin ready
  /\ pc = "analysing" => status[InHand] = "ANALYZING"

(* An analysis whose commit was confirmed leaves its disclosure READY for  *)
(* good: no run takes it in hand again.                                    *)
NothingReset ==
  /\ \A d \in Disclosures \ unconfirmed : commits[d] > 0 => commits[d] = 1 /\ status[d] = "READY"
  /\ pc \in Taken \cup {"processing"} =>
       \A i \in next..Len(staged) : status[staged[i]] = "READY" => staged[i] \in ready \cup unconfirmed

Resolved ==
  pc \notin Early /\ watermark # checkpoint.latest =>
    Listed \subseteq Seen \cup Work \cup PassedOver \cup missing

IsLatest(i) == i \in Registered /\ \A j \in Registered : j <= i

LatestChecked ==
  /\ pc \in {"creating", "registering"} =>
       \A i \in Registered : IsLatest(i) /\ runs[i].status = "RUNNING" => now - runs[i].started <= StaleAge
  /\ pc = "registering" =>
       Len(runs) > 0 /\ runs[Len(runs)].started = now /\ ~runs[Len(runs)].registered

OnlyLatestRuns ==
  \A i, j \in Registered :
    /\ i < j
    /\ \A k \in Registered : ~(i < k /\ k < j)
    /\ runs[i].status = "RUNNING"
    => runs[j].started - runs[i].started <= StaleAge

IInv ==
  /\ Typed /\ Clocked
  /\ SeenAreReady /\ MemoryFresh /\ InHandTaken /\ NothingReset
  /\ Resolved
  /\ LatestChecked /\ OnlyLatestRuns
  /\ BacklogServed

-----------------------------------------------------------------------------
(* The operators of the model.                                             *)

LEMMA Largest ==
  ASSUME NEW S \in SUBSET Int, NEW n \in S, \A y \in S : y <= n
  PROVE  Max(S) \in S /\ \A y \in S : y <= Max(S)
BY DEF Max

LEMMA Smallest ==
  ASSUME NEW S \in SUBSET Int, NEW n \in S, \A y \in S : n <= y
  PROVE  Min(S) \in S /\ \A y \in S : Min(S) <= y
BY DEF Min

LEMMA LeastElement ==
  ASSUME NEW S \in SUBSET Nat, S # {}
  PROVE  \E x \in S : \A y \in S : x <= y
<1> DEFINE R == OpToRel(<, Nat)
<1>1. \E x \in S : \A y \in S : ~ (<<y, x>> \in R)
  BY WFMin, NatLessThanWellFounded
<1>2. \A x, y \in Nat : y < x => <<y, x>> \in R
  BY DEF OpToRel
<1> HIDE DEF R
<1>3. \A x, y \in Nat : ~ (y < x) => x <= y
  OBVIOUS
<1> QED BY <1>1, <1>2, <1>3

(* A bounded set of numbers has a largest one.                             *)
LEMMA BoundedMax ==
  ASSUME NEW S \in SUBSET Nat, S # {}, NEW n \in Nat, \A y \in S : y <= n
  PROVE  Max(S) \in S /\ \A y \in S : y <= Max(S)
<1> DEFINE Below == {n - y : y \in S}
<1>1. PICK x \in Below : \A y \in Below : x <= y
  <2>1. \A y \in S : n - y \in Nat
    OBVIOUS
  <2>2. Below \in SUBSET Nat /\ Below # {}
    BY <2>1
  <2> HIDE DEF Below
  <2> QED BY <2>2, LeastElement
<1>2. n - x \in S /\ \A y \in S : y <= n - x
  BY <1>1
<1> QED BY <1>2, Largest

LEMMA MaxOfTwo ==
  ASSUME NEW a \in Int, NEW b \in Int
  PROVE  Max({a, b}) \in {a, b} /\ a <= Max({a, b}) /\ b <= Max({a, b})
<1>1. CASE a <= b
  BY <1>1, Largest
<1>2. CASE b <= a
  BY <1>2, Largest
<1> QED BY <1>1, <1>2

LEMMA MinOfTwo ==
  ASSUME NEW a \in Int, NEW b \in Int
  PROVE  Min({a, b}) \in {a, b} /\ Min({a, b}) <= a /\ Min({a, b}) <= b
<1>1. CASE a <= b
  BY <1>1, Smallest
<1>2. CASE b <= a
  BY <1>2, Smallest
<1> QED BY <1>1, <1>2

(* The rank of a position among the kept ones: every rank below their      *)
(* number is taken, and by one position only.                              *)
LEMMA Ranks ==
  ASSUME NEW kept, NEW n \in Nat, kept \subseteq 1..n
  PROVE  /\ Cardinality(kept) \in Nat /\ Cardinality(kept) <= n
         /\ \A k \in 1..Cardinality(kept) :
              \E i \in kept : Cardinality({j \in kept : j < i}) = k - 1
         /\ \A i \in kept : Cardinality({j \in kept : j < i}) + 1 \in 1..Cardinality(kept)
         /\ \A i, j \in kept :
              Cardinality({l \in kept : l < i}) = Cardinality({l \in kept : l < j}) => i = j
<1> DEFINE m == Cardinality(kept)
           below(i) == {j \in kept : j < i}
           rank == [i \in kept |-> Cardinality(below(i))]
<1>1. IsFiniteSet(1..n) /\ Cardinality(1..n) = n
  BY FS_Interval
<1>2. IsFiniteSet(kept) /\ m \in Nat /\ m <= n
  BY <1>1, FS_Subset, FS_CardinalityType
<1>3. \A i : IsFiniteSet(below(i)) /\ Cardinality(below(i)) \in Nat
  <2>1. \A i : below(i) \in SUBSET kept
    OBVIOUS
  <2> QED BY <2>1, <1>2, FS_Subset, FS_CardinalityType
<1>4. ASSUME NEW i \in kept, NEW j \in kept, i < j
      PROVE  Cardinality(below(i)) + 1 <= Cardinality(below(j))
  <2>1. below(i) \cup {i} \in SUBSET below(j) /\ i \notin below(i)
    <3>1. \A l \in kept : l \in Int
      OBVIOUS
    <3>2. (\A l \in kept : l < i => l < j) /\ ~ (i < i)
      BY <3>1, <1>4
    <3> QED BY <3>2, <1>4
  <2>2. Cardinality(below(i) \cup {i}) = Cardinality(below(i)) + 1
    BY <2>1, <1>3, FS_AddElement
  <2>3. Cardinality(below(i) \cup {i}) <= Cardinality(below(j))
    BY <2>1, <1>3, FS_Subset
  <2> QED BY <2>2, <2>3
<1>5. ASSUME NEW i \in kept
      PROVE  Cardinality(below(i)) + 1 <= m
  <2>1. below(i) \cup {i} \in SUBSET kept /\ i \notin below(i)
    BY <1>5
  <2>2. Cardinality(below(i) \cup {i}) = Cardinality(below(i)) + 1
    BY <2>1, <1>3, FS_AddElement
  <2>3. Cardinality(below(i) \cup {i}) <= m
    BY <2>1, <1>2, FS_Subset
  <2> QED BY <2>2, <2>3
<1>6. \A i, j \in kept : Cardinality(below(i)) = Cardinality(below(j)) => i = j
  <2> SUFFICES ASSUME NEW i \in kept, NEW j \in kept, i # j
               PROVE  Cardinality(below(i)) # Cardinality(below(j))
    OBVIOUS
  <2>1. i \in Nat /\ j \in Nat
    OBVIOUS
  <2> HIDE DEF below
  <2>2. CASE i < j
    BY <2>2, <1>3, <1>4
  <2>3. CASE j < i
    BY <2>3, <1>3, <1>4
  <2> QED BY <2>1, <2>2, <2>3
<1>7. rank \in [kept -> 0..(m - 1)]
  <2> HIDE DEF below, m
  <2> QED BY <1>2, <1>3, <1>5
<1>8. rank \in Injection(kept, 0..(m - 1))
  <2>1. \A i, j \in kept : rank[i] = rank[j] => i = j
    BY <1>6
  <2> HIDE DEF rank
  <2> QED BY <2>1, <1>7, Fun_IsInj
<1>9. IsFiniteSet(0..(m - 1)) /\ Cardinality(0..(m - 1)) = m
  <2> HIDE DEF m
  <2> QED BY <1>2, FS_Interval
<1>10. rank \in Surjection(kept, 0..(m - 1))
  <2> HIDE DEF rank
  <2> QED BY <1>8, <1>9, FS_Injection
<1>11. \A k \in 0..(m - 1) : \E i \in kept : rank[i] = k
  <2> DEFINE ranks == 0..(m - 1)
  <2>1. rank \in Surjection(kept, ranks)
    BY <1>10
  <2> HIDE DEF rank, ranks
  <2>2. \A k \in ranks : \E i \in kept : rank[i] = k
    BY <2>1, Fun_SurjectionProperties
  <2> QED BY <2>2 DEF ranks
<1>12. ASSUME NEW k \in 1..m
       PROVE  \E i \in kept : Cardinality(below(i)) = k - 1
  <2> HIDE DEF below, m
  <2>1. k - 1 \in 0..(m - 1)
    BY <1>2
  <2> QED BY <2>1, <1>11
<1>13. ASSUME NEW i \in kept
       PROVE  Cardinality(below(i)) + 1 \in 1..m
  <2> HIDE DEF below, m
  <2> QED BY <1>2, <1>3, <1>5
<1> QED BY <1>2, <1>6, <1>12, <1>13

(* Keep takes the elements of S and loses none of them.                    *)
LEMMA KeepsAll ==
  ASSUME NEW T, NEW s \in Seq(T), NEW S
  PROVE  /\ Keep(s, S) \in Seq(T) /\ Len(Keep(s, S)) <= Len(s)
         /\ Range(Keep(s, S)) = Range(s) \cap S
         /\ (\A i, j \in DOMAIN s : s[i] = s[j] => i = j) =>
              \A i, j \in DOMAIN Keep(s, S) : Keep(s, S)[i] = Keep(s, S)[j] => i = j
<1> DEFINE kept == {i \in DOMAIN s : s[i] \in S}
           at(k) == CHOOSE i \in kept : Cardinality({j \in kept : j < i}) = k - 1
           m == Cardinality(kept)
<1>1. Len(s) \in Nat /\ kept \subseteq 1..Len(s) /\ DOMAIN s = 1..Len(s)
  OBVIOUS
<1>2. m \in Nat /\ m <= Len(s)
  BY <1>1, Ranks
<1>3. \A k \in 1..m : at(k) \in kept /\ Cardinality({j \in kept : j < at(k)}) = k - 1
  <2> SUFFICES ASSUME NEW k \in 1..m
               PROVE  at(k) \in kept /\ Cardinality({j \in kept : j < at(k)}) = k - 1
    OBVIOUS
  <2>1. \E i \in kept : Cardinality({j \in kept : j < i}) = k - 1
    BY <1>1, Ranks
  <2> HIDE DEF kept
  <2> QED BY <2>1
<1>4. \A i \in kept : \E k \in 1..m : at(k) = i
  <2> SUFFICES ASSUME NEW i \in kept
               PROVE  \E k \in 1..m : at(k) = i
    OBVIOUS
  <2> DEFINE k == Cardinality({j \in kept : j < i}) + 1
  <2>1. k \in 1..m
    BY <1>1, Ranks
  <2>2. at(k) \in kept /\ Cardinality({j \in kept : j < at(k)}) = k - 1
    BY <2>1, <1>3
  <2>3. Cardinality({j \in kept : j < i}) = k - 1
    <3>1. \A x : x + 1 \in 1..m => (x \in Int => x = (x + 1) - 1)
      OBVIOUS
    <3>2. Cardinality({j \in kept : j < i}) \in Nat
      <4>1. IsFiniteSet(1..Len(s)) /\ {j \in kept : j < i} \in SUBSET (1..Len(s))
        BY <1>1, FS_Interval
      <4> QED BY <4>1, FS_Subset, FS_CardinalityType
    <3> QED BY <3>2
  <2>4. at(k) = i
    BY <2>2, <2>3, <1>1, Ranks
  <2> QED BY <2>1, <2>4
<1>5. Keep(s, S) = [k \in 1..m |-> s[at(k)]]
  BY DEF Keep
<1> HIDE DEF at, m
<1>6. \A k \in 1..m : s[at(k)] \in T /\ s[at(k)] \in S /\ at(k) \in DOMAIN s
  <2>1. \A i \in kept : s[i] \in T /\ s[i] \in S /\ i \in DOMAIN s
    OBVIOUS
  <2> HIDE DEF kept
  <2> QED BY <1>3, <2>1
<1>7. Keep(s, S) \in Seq(T) /\ Len(Keep(s, S)) = m /\ DOMAIN Keep(s, S) = 1..m
  BY <1>2, <1>5, <1>6
<1>8. Range(Keep(s, S)) \subseteq Range(s) \cap S
  BY <1>5, <1>6, <1>7 DEF Range
<1>9. Range(s) \cap S \subseteq Range(Keep(s, S))
  <2> SUFFICES ASSUME NEW i \in DOMAIN s, s[i] \in S
               PROVE  s[i] \in Range(Keep(s, S))
    BY DEF Range
  <2>1. PICK k \in 1..m : at(k) = i
    BY <1>4
  <2>2. Keep(s, S)[k] = s[i]
    BY <2>1, <1>5
  <2> QED BY <2>2, <1>7 DEF Range
<1>10. ASSUME \A i, j \in DOMAIN s : s[i] = s[j] => i = j,
              NEW i \in 1..m, NEW j \in 1..m, Keep(s, S)[i] = Keep(s, S)[j]
       PROVE  i = j
  <2>1. at(i) = at(j)
    BY <1>5, <1>6, <1>10
  <2>2. i - 1 = j - 1
    BY <1>3, <2>1
  <2> QED BY <2>2, <1>2
<1> QED BY <1>2, <1>7, <1>8, <1>9, <1>10

LEMMA OrdersAreWhole ==
  ASSUME NEW rows, IsFiniteSet(rows), NEW s \in SetToSeqs(rows)
  PROVE  /\ s \in Seq(rows) /\ DOMAIN s = 1..Len(s)
         /\ Range(s) = rows
         /\ \A i, j \in DOMAIN s : s[i] = s[j] => i = j
<1> DEFINE n == Cardinality(rows)
           D == 1..n
<1>1. n \in Nat
  BY FS_CardinalityType
<1>2. s \in [D -> rows] /\ \A i, j \in D : s[i] = s[j] => i = j
  BY DEF SetToSeqs
<1>3. IsFiniteSet(D) /\ Cardinality(D) = n
  <2> HIDE DEF n
  <2> QED BY <1>1, FS_Interval
<1>4. s \in Seq(rows) /\ Len(s) = n
  <2> HIDE DEF n
  <2> QED BY <1>1, <1>2
<1> HIDE DEF D
<1>5. s \in Injection(D, rows)
  BY <1>2, Fun_IsInj
<1>6. s \in Surjection(D, rows)
  BY <1>3, <1>5, FS_Injection
<1>7. \A d \in rows : \E i \in D : s[i] = d
  BY <1>6, Fun_SurjectionProperties
<1>8. Range(s) = rows
  BY <1>2, <1>7 DEF Range
<1> HIDE DEF n
<1> QED BY <1>2, <1>4, <1>8

LEMMA Concatenated ==
  ASSUME NEW T, NEW s \in Seq(T), NEW t \in Seq(T)
  PROVE  /\ s \o t \in Seq(T) /\ Len(s \o t) = Len(s) + Len(t)
         /\ \A i \in 1..Len(s) : (s \o t)[i] = s[i]
         /\ \A i \in (Len(s) + 1)..(Len(s) + Len(t)) : (s \o t)[i] = t[i - Len(s)]
OBVIOUS

(* The lanes reorder the candidates and lose none; the oldest is the first *)
(* of the recovery lane, right after the newest few.                       *)
LEMMA LanesReorder ==
  ASSUME NEW T, NEW s \in Seq(T)
  PROVE  /\ Prioritized(s) \in Seq(T) /\ Len(Prioritized(s)) = Len(s)
         /\ Range(Prioritized(s)) = Range(s)
         /\ (\A i, j \in DOMAIN s : s[i] = s[j] => i = j) =>
              \A i, j \in DOMAIN Prioritized(s) : Prioritized(s)[i] = Prioritized(s)[j] => i = j
         /\ Len(s) > NewestHead /\ OldestSlots > 0 => Prioritized(s)[NewestHead + 1] = s[Len(s)]
<1> DEFINE n == Len(s)
           recovery == Min({OldestSlots, n - NewestHead})
           head == SubSeq(s, 1, NewestHead)
           oldest == SubSeq(s, n - recovery + 1, n)
           rest == SubSeq(s, NewestHead + 1, n - recovery)
<1>1. NewestHead \in Nat /\ OldestSlots \in Nat /\ n \in Nat
  BY CollectionAssumption
<1>2. /\ recovery \in Int /\ recovery <= OldestSlots /\ recovery <= n - NewestHead
      /\ recovery = OldestSlots \/ recovery = n - NewestHead
  <2>1. OldestSlots \in Int /\ n - NewestHead \in Int
    BY <1>1
  <2>2. recovery \in {OldestSlots, n - NewestHead} /\ recovery <= OldestSlots /\ recovery <= n - NewestHead
    BY <2>1, MinOfTwo
  <2> QED BY <2>1, <2>2
<1>3. Prioritized(s) = IF n <= NewestHead \/ recovery <= 0 THEN s ELSE head \o Reverse(oldest) \o rest
  BY DEF Prioritized
<1> HIDE DEF recovery
<1>4. CASE n <= NewestHead \/ recovery <= 0
  <2>1. Prioritized(s) = s
    BY <1>3, <1>4
  <2>2. ~ (Len(s) > NewestHead /\ OldestSlots > 0)
    BY <1>1, <1>2, <1>4
  <2> QED BY <2>1, <2>2
<1>5. CASE NewestHead < n /\ 0 < recovery
  <2>1. head \in Seq(T) /\ Len(head) = NewestHead /\ \A i \in 1..NewestHead : head[i] = s[i]
    BY <1>1, <1>5
  <2>2. /\ oldest \in Seq(T) /\ Len(oldest) = recovery
        /\ \A i \in 1..recovery : oldest[i] = s[n - recovery + i]
    BY <1>1, <1>2, <1>5
  <2>3. /\ rest \in Seq(T) /\ Len(rest) = n - recovery - NewestHead
        /\ \A i \in 1..(n - recovery - NewestHead) : rest[i] = s[NewestHead + i]
    BY <1>1, <1>2, <1>5
  <2> HIDE DEF head, oldest, rest
  <2> DEFINE lane == Reverse(oldest)
  <2>4. /\ lane \in Seq(T) /\ Len(lane) = recovery
        /\ \A i \in 1..recovery : lane[i] = s[n - i + 1]
    <3>1. /\ Reverse(oldest) \in Seq(T) /\ Len(Reverse(oldest)) = recovery
          /\ \A i \in 1..recovery : Reverse(oldest)[i] = oldest[recovery - i + 1]
      BY <2>2, <1>2 DEF Reverse
    <3>2. \A i \in 1..recovery : recovery - i + 1 \in 1..recovery /\ n - recovery + (recovery - i + 1) = n - i + 1
      BY <1>1, <1>2
    <3> QED BY <3>1, <3>2, <2>2
  <2> HIDE DEF lane
  <2> DEFINE first == head \o lane
  <2>5. /\ first \in Seq(T) /\ Len(first) = NewestHead + recovery
        /\ \A i \in 1..NewestHead : first[i] = s[i]
        /\ \A i \in (NewestHead + 1)..(NewestHead + recovery) : first[i] = s[n - (i - NewestHead) + 1]
    <3>1. /\ first \in Seq(T) /\ Len(first) = NewestHead + recovery
          /\ \A i \in 1..NewestHead : first[i] = head[i]
          /\ \A i \in (NewestHead + 1)..(NewestHead + recovery) : first[i] = lane[i - NewestHead]
      <4>1. /\ first \in Seq(T) /\ Len(first) = Len(head) + Len(lane)
            /\ \A i \in 1..Len(head) : first[i] = head[i]
            /\ \A i \in (Len(head) + 1)..(Len(head) + Len(lane)) : first[i] = lane[i - Len(head)]
        BY <2>1, <2>4, Concatenated
      <4> HIDE DEF first
      <4> QED BY <4>1, <2>1, <2>4, <1>1, <1>2
    <3>2. \A i \in (NewestHead + 1)..(NewestHead + recovery) : i - NewestHead \in 1..recovery
      BY <1>1, <1>2
    <3> QED BY <3>1, <3>2, <2>1, <2>4
  <2>6. Prioritized(s) = first \o rest
    BY <1>3, <1>5, <1>1, <1>2 DEF lane
  <2> HIDE DEF first
  <2> DEFINE from == [i \in 1..n |-> IF i <= NewestHead THEN i
                                     ELSE IF i <= NewestHead + recovery THEN n - (i - NewestHead) + 1
                                     ELSE i - recovery]
             to == [i \in 1..n |-> IF i <= NewestHead THEN i
                                   ELSE IF i <= n - recovery THEN i + recovery
                                   ELSE n - i + 1 + NewestHead]
  <2>7. /\ Prioritized(s) \in Seq(T) /\ Len(Prioritized(s)) = n
        /\ \A i \in 1..n : Prioritized(s)[i] = s[from[i]]
    <3>1. /\ Prioritized(s) \in Seq(T) /\ Len(Prioritized(s)) = n
          /\ \A i \in 1..(NewestHead + recovery) : Prioritized(s)[i] = first[i]
          /\ \A i \in (NewestHead + recovery + 1)..n : Prioritized(s)[i] = rest[i - (NewestHead + recovery)]
      <4>1. n = NewestHead + recovery + (n - recovery - NewestHead)
        BY <1>1, <1>2
      <4> QED BY <4>1, <2>3, <2>5, <2>6, Concatenated
    <3>2. ASSUME NEW i \in 1..n
          PROVE  Prioritized(s)[i] = s[from[i]]
      <4>1. CASE i <= NewestHead
        BY <4>1, <3>1, <2>5, <1>1, <1>2, <1>5
      <4>2. CASE NewestHead < i /\ i <= NewestHead + recovery
        BY <4>2, <3>1, <2>5, <1>1, <1>2, <1>5
      <4>3. CASE NewestHead + recovery < i
        <5>1. i - (NewestHead + recovery) \in 1..(n - recovery - NewestHead)
          BY <4>3, <1>1, <1>2
        <5>2. rest[i - (NewestHead + recovery)] = s[NewestHead + (i - (NewestHead + recovery))]
          BY <5>1, <2>3
        <5>3. from[i] = i - recovery /\ NewestHead + (i - (NewestHead + recovery)) = i - recovery
          BY <4>3, <1>1, <1>2, <1>5
        <5> QED BY <5>2, <5>3, <4>3, <3>1, <1>1, <1>2
      <4> QED BY <4>1, <4>2, <4>3, <1>1, <1>2
    <3> QED BY <3>1, <3>2
  <2>8. \A i \in 1..n : from[i] \in 1..n /\ to[i] \in 1..n /\ from[to[i]] = i /\ to[from[i]] = i
    BY <1>1, <1>2, <1>5
  <2>9. from[NewestHead + 1] = n /\ NewestHead + 1 \in 1..n
    BY <1>1, <1>2, <1>5
  <2> HIDE DEF from, to
  <2>10. Range(Prioritized(s)) = Range(s)
    <3>1. DOMAIN s = 1..n /\ DOMAIN Prioritized(s) = 1..n
      BY <2>7
    <3> QED BY <3>1, <2>7, <2>8 DEF Range
  <2>11. ASSUME \A i, j \in DOMAIN s : s[i] = s[j] => i = j,
                NEW i \in DOMAIN Prioritized(s), NEW j \in DOMAIN Prioritized(s),
                Prioritized(s)[i] = Prioritized(s)[j]
         PROVE  i = j
    <3>1. i \in 1..n /\ j \in 1..n /\ DOMAIN s = 1..n
      BY <2>7
    <3>2. from[i] = from[j]
      BY <3>1, <2>7, <2>8, <2>11
    <3> QED BY <3>1, <3>2, <2>8
  <2> QED BY <2>7, <2>9, <2>10, <2>11
<1> QED BY <1>1, <1>2, <1>4, <1>5

(* The watermark is the largest of a set that the clock bounds.            *)
LEMMA WatermarkBounded ==
  ASSUME Typed, Clocked, NEW cut, NEW completed \in SUBSET Listed
  PROVE  /\ Advanced(cut, completed) \in Nat /\ Advanced(cut, completed) <= now
         /\ cut => Advanced(cut, completed) = checkpoint.latest
<1> DEFINE S == {checkpoint.latest} \cup {announced[d] : d \in completed}
<1>1. now \in Nat /\ checkpoint.latest \in Nat /\ checkpoint.latest <= now
  BY CollectionAssumption DEF Typed, WorldTyped, SynapseTyped, Clocked
<1>2. \A d \in Listed : announced[d] \in Nat /\ announced[d] <= now
  <2>1. window.to \in Nat /\ window.to <= now
    BY DEF Typed, MemoryTyped, Clocked
  <2>2. \A d \in Listed : announced[d] \in Nat /\ announced[d] <= window.to
    BY DEF Listed, Typed, WorldTyped
  <2> QED BY <1>1, <2>1, <2>2
<1>3. S \in SUBSET Nat /\ S # {} /\ \A y \in S : y <= now
  BY <1>1, <1>2
<1>4. Max(S) \in Nat /\ Max(S) <= now
  <2> HIDE DEF S
  <2> QED BY <1>1, <1>3, BoundedMax
<1> QED BY <1>1, <1>4 DEF Advanced

(* What one listing leaves staged, skipped and left for a later run.       *)
LEMMA Collected ==
  ASSUME Typed, Clocked, Collect
  PROVE  /\ staged' \in Seq(Disclosures) /\ Work' \subseteq Candidates
         /\ \A i, j \in DOMAIN staged' : staged'[i] = staged'[j] => i = j
         /\ missing' \subseteq Disclosures
         /\ watermark' \in Nat /\ watermark' <= now
         /\ watermark' # checkpoint.latest => Listed \subseteq Seen \cup Work' \cup PassedOver \cup missing'
         /\ deferred' /\ Len(staged') > NewestHead /\ OldestSlots > 0 =>
              \A d \in Candidates \ PassedOver :
                (\A other \in Candidates \ {d} : announced[d] < announced[other]) => d \in Work' \cup missing'
<1>1. PICK listing \in NewestFirst(Candidates) : \E reached \in 0..Len(listing) :
           LET order == Prioritized(listing)
               cut == reached < Len(order)
               served == {order[i] : i \in 1..reached} \ PassedOver
           IN  \E gone \in SUBSET served :
                 /\ staged' = Keep(SubSeq(order, 1, reached), served \ gone)
                 /\ watermark' = Advanced(cut, (served \ gone) \cup (Listed \cap Seen))
                 /\ missing' = gone
                 /\ deferred' = cut
  BY DEF Collect
<1> DEFINE order == Prioritized(listing)
<1>2. PICK reached \in 0..Len(listing) :
           LET cut == reached < Len(order)
               served == {order[i] : i \in 1..reached} \ PassedOver
           IN  \E gone \in SUBSET served :
                 /\ staged' = Keep(SubSeq(order, 1, reached), served \ gone)
                 /\ watermark' = Advanced(cut, (served \ gone) \cup (Listed \cap Seen))
                 /\ missing' = gone
                 /\ deferred' = cut
  BY <1>1
<1> DEFINE cut == reached < Len(order)
           served == {order[i] : i \in 1..reached} \ PassedOver
<1>3. PICK gone \in SUBSET served :
        /\ staged' = Keep(SubSeq(order, 1, reached), served \ gone)
        /\ watermark' = Advanced(cut, (served \ gone) \cup (Listed \cap Seen))
        /\ missing' = gone
        /\ deferred' = cut
  BY <1>2
<1> DEFINE considered == SubSeq(order, 1, reached)
           n == Len(listing)
<1>4. IsFiniteSet(Candidates) /\ Candidates \subseteq Disclosures /\ Candidates \subseteq Listed
  <2>1. Candidates \in SUBSET Disclosures /\ Candidates \subseteq Listed
    BY DEF Candidates, Listed
  <2> QED BY <2>1, CollectionAssumption, FS_Subset
<1>5. /\ listing \in Seq(Candidates) /\ DOMAIN listing = 1..n /\ Range(listing) = Candidates
      /\ \A i, j \in DOMAIN listing : listing[i] = listing[j] => i = j
      /\ \A i \in 1..(n - 1) : announced[listing[i]] >= announced[listing[i + 1]]
  <2>1. /\ listing \in SetToSeqs(Candidates)
        /\ \A i \in 1..(n - 1) : announced[listing[i]] >= announced[listing[i + 1]]
    BY DEF NewestFirst
  <2> QED BY <2>1, <1>4, OrdersAreWhole
<1>6. /\ order \in Seq(Candidates) /\ Len(order) = n /\ Range(order) = Candidates
      /\ \A i, j \in DOMAIN order : order[i] = order[j] => i = j
      /\ n > NewestHead /\ OldestSlots > 0 => order[NewestHead + 1] = listing[n]
  BY <1>5, LanesReorder
<1> HIDE DEF order
<1>7. n \in Nat /\ reached \in 0..n /\ DOMAIN order = 1..n
  BY <1>5, <1>6
<1>8. /\ considered \in Seq(Candidates) /\ Len(considered) = reached /\ DOMAIN considered = 1..reached
      /\ \A i \in 1..reached : considered[i] = order[i]
  BY <1>6, <1>7
<1> HIDE DEF considered
<1>9. Range(considered) = {order[i] : i \in 1..reached}
  BY <1>8 DEF Range
<1>10. \A i, j \in DOMAIN considered : considered[i] = considered[j] => i = j
  BY <1>6, <1>7, <1>8
<1>11. staged' = Keep(considered, served \ gone)
  BY <1>3 DEF considered
<1>12. /\ staged' \in Seq(Candidates) /\ Len(staged') <= reached
       /\ Range(staged') = Range(considered) \cap (served \ gone)
       /\ \A i, j \in DOMAIN staged' : staged'[i] = staged'[j] => i = j
  <2> DEFINE chosen == served \ gone
  <2>1. staged' = Keep(considered, chosen)
    BY <1>11
  <2> HIDE DEF chosen
  <2>2. /\ staged' \in Seq(Candidates) /\ Len(staged') <= Len(considered)
        /\ Range(staged') = Range(considered) \cap chosen
        /\ \A i, j \in DOMAIN staged' : staged'[i] = staged'[j] => i = j
    BY <2>1, <1>8, <1>10, KeepsAll
  <2> QED BY <2>2, <1>8 DEF chosen
<1>13. Work' = served \ gone /\ served \subseteq Candidates
  <2>1. Work' = Range(staged')
    BY DEF Work
  <2>2. \A i \in 1..reached : order[i] \in Candidates
    BY <1>6, <1>7
  <2> QED BY <2>1, <2>2, <1>9, <1>12
<1>14. staged' \in Seq(Disclosures)
  BY <1>4, <1>12
<1>15. watermark' \in Nat /\ watermark' <= now /\ (cut => watermark' = checkpoint.latest)
  <2> DEFINE completed == (served \ gone) \cup (Listed \cap Seen)
  <2>1. completed \in SUBSET Listed /\ watermark' = Advanced(cut, completed)
    BY <1>3, <1>4, <1>13
  <2> HIDE DEF completed, cut
  <2> QED BY <2>1, WatermarkBounded
<1>16. ASSUME ~cut
       PROVE  Listed \subseteq Seen \cup Work' \cup PassedOver \cup missing'
  <2>1. reached = n
    <3>1. Len(order) = n /\ n \in Nat /\ reached \in 0..n /\ ~ (reached < Len(order))
      BY <1>6, <1>7, <1>16
    <3> QED BY ONLY <3>1
  <2>2. {order[i] : i \in 1..reached} = Candidates
    BY <2>1, <1>6, <1>7 DEF Range
  <2> QED BY <2>2, <1>3, <1>13 DEF Candidates
<1>17. ASSUME deferred', Len(staged') > NewestHead, OldestSlots > 0, NEW d \in Candidates \ PassedOver,
              \A other \in Candidates \ {d} : announced[d] < announced[other]
       PROVE  d \in Work' \cup missing'
  <2>1. NewestHead \in Nat /\ Len(staged') \in Nat
    BY <1>12, CollectionAssumption
  <2>2. NewestHead + 1 \in 1..reached /\ n > NewestHead
    BY <1>7, <1>12, <1>17, <2>1
  <2>3. PICK k \in 1..n : listing[k] = d
    BY <1>5 DEF Range
  <2>4. k = n
    <3> SUFFICES ASSUME k # n
                 PROVE  FALSE
      OBVIOUS
    <3>1. k \in 1..(n - 1) /\ k + 1 \in 1..n /\ k + 1 # k
      BY <1>7
    <3>2. listing[k + 1] \in Candidates \ {d}
      <4>1. listing[k + 1] \in Range(listing)
        BY <1>5, <3>1 DEF Range
      <4>2. Range(listing) = Candidates
        BY <1>5
      <4>3. listing[k + 1] # listing[k]
        BY <1>5, <3>1
      <4> QED BY <4>1, <4>2, <4>3, <2>3
    <3>3. announced[d] < announced[listing[k + 1]] /\ announced[d] >= announced[listing[k + 1]]
      BY <1>5, <1>17, <2>3, <3>1, <3>2
    <3>4. announced[d] \in Nat /\ announced[listing[k + 1]] \in Nat
      BY <1>4, <3>2 DEF Typed, WorldTyped
    <3> QED BY <3>3, <3>4
  <2>5. order[NewestHead + 1] = d
    BY <1>6, <1>17, <2>2, <2>3, <2>4
  <2>6. d \in served
    BY <2>2, <2>5, <1>17
  <2> QED BY <2>6, <1>3, <1>13
<1>18. missing' \subseteq Disclosures
  BY <1>3, <1>4, <1>13
<1> QED BY <1>12, <1>13, <1>14, <1>15, <1>16, <1>17, <1>18

-----------------------------------------------------------------------------
(* What several actions share.                                             *)

(* A process that ends leaves nothing in memory to go wrong.               *)
LEMMA ExitClears ==
  ASSUME Exit
  PROVE  /\ MemoryTyped' /\ MemoryFresh' /\ InHandTaken' /\ Resolved' /\ LatestChecked' /\ BacklogServed'
         /\ pc' = "idle" /\ window'.to = 0 /\ watermark' = 0
<1>1. /\ pc' = "idle" /\ window' = [from |-> 0, to |-> 0] /\ staged' = <<>> /\ watermark' = 0
      /\ ready' = {} /\ eligible' = {} /\ next' = 1 /\ missing' = {}
  BY DEF Exit
<1>2. MemoryTyped'
  BY <1>1 DEF MemoryTyped, Early
<1>3. Work' = {}
  BY <1>1 DEF Work, Range
<1>4. MemoryFresh' /\ InHandTaken'
  BY <1>1, <1>3 DEF MemoryFresh, InHandTaken, Early, Taken
<1>5. Resolved' /\ LatestChecked' /\ BacklogServed'
  BY <1>1 DEF Resolved, LatestChecked, BacklogServed, Early
<1> QED BY <1>1, <1>2, <1>4, <1>5

(* The rows may be closed, but not reopened, redated or registered.        *)
SameRows ==
  /\ DOMAIN runs' = DOMAIN runs /\ runs' \in Seq(Rows)
  /\ \A i \in DOMAIN runs : /\ runs'[i].registered = runs[i].registered
                            /\ runs'[i].started = runs[i].started
                            /\ runs'[i].status = "RUNNING" => runs[i].status = "RUNNING"

LEMMA SameRowsKeep ==
  ASSUME OnlyLatestRuns, SameRows
  PROVE  Registered' = Registered /\ OnlyLatestRuns'
<1>1. Registered' = Registered
  BY DEF SameRows, Registered
<1>2. \A i \in Registered : i \in DOMAIN runs
  BY DEF Registered
<1> QED BY <1>1, <1>2 DEF SameRows, OnlyLatestRuns

LEMMA RowsTyped ==
  ASSUME Typed
  PROVE  /\ Len(runs) \in Nat /\ DOMAIN runs = 1..Len(runs)
         /\ \A i \in 1..Len(runs) : runs[i] \in Rows
BY DEF Typed, SynapseTyped

LEMMA RowClosed ==
  ASSUME Typed, NEW value \in {"PARTIAL", "FAILED"}, runs' = SetRun(value)
  PROVE  SameRows
<1>1. runs \in Seq(Rows)
  BY DEF Typed, SynapseTyped
<1>2. /\ Len(runs) \in Nat /\ DOMAIN runs = 1..Len(runs)
      /\ \A i \in 1..Len(runs) : runs[i] \in Rows
  BY RowsTyped
<1>3. DOMAIN runs' = DOMAIN runs
  BY DEF SetRun
<1>4. \A i \in 1..Len(runs) : runs'[i] = IF i = Len(runs) THEN [runs[i] EXCEPT !.status = value] ELSE runs[i]
  BY <1>2 DEF SetRun
<1>5. \A i \in 1..Len(runs) : runs'[i] \in Rows
  BY <1>2, <1>4 DEF Rows
<1>6. runs' \in Seq(Rows)
  <2>1. runs' = [i \in 1..Len(runs) |-> runs'[i]]
    BY <1>2, <1>3 DEF SetRun
  <2>2. \A n \in Nat : \A f : f = [i \in 1..n |-> f[i]] /\ (\A i \in 1..n : f[i] \in Rows) => f \in Seq(Rows)
    OBVIOUS
  <2> QED BY <2>1, <2>2, <1>2, <1>5
<1>7. \A i \in 1..Len(runs) : /\ runs'[i].registered = runs[i].registered
                              /\ runs'[i].started = runs[i].started
                              /\ runs'[i].status = "RUNNING" => runs[i].status = "RUNNING"
  BY <1>2, <1>4 DEF Rows
<1> QED BY <1>2, <1>3, <1>6, <1>7 DEF SameRows

LEMMA RowsUnchanged ==
  ASSUME Typed, runs' = runs
  PROVE  SameRows
BY DEF SameRows, Typed, SynapseTyped

LEMMA RowsClocked ==
  ASSUME Clocked, SameRows, UNCHANGED now
  PROVE  \A i \in DOMAIN runs' : runs'[i].started \in 1..now'
BY DEF Clocked, SameRows

(* A run that ends, whatever became of its row, leaves what Synapse and    *)
(* the checkpoint say as it was.                                           *)
LEMMA RunEnds ==
  ASSUME IInv, Exit, UNCHANGED <<world, status, commits, checkpoint, unconfirmed>>,
         runs' \in Seq(Rows), \A i \in DOMAIN runs' : runs'[i].started \in 1..now', OnlyLatestRuns'
  PROVE  IInv'
<1>1. Typed /\ Clocked /\ SeenAreReady /\ NothingReset /\ OnlyLatestRuns
  BY DEF IInv
<1>2. UNCHANGED <<now, announced, status, commits, checkpoint, unconfirmed>>
  BY DEF world
<1>3. /\ MemoryTyped' /\ MemoryFresh' /\ InHandTaken' /\ Resolved' /\ LatestChecked' /\ BacklogServed'
      /\ pc' = "idle" /\ window'.to = 0 /\ watermark' = 0
  BY ExitClears
<1>4. WorldTyped' /\ SynapseTyped'
  BY <1>1, <1>2 DEF Typed, WorldTyped, SynapseTyped
<1>5. Clocked'
  <2>1. now \in Nat
    BY <1>1, CollectionAssumption DEF Typed, WorldTyped
  <2> QED BY <1>1, <1>2, <1>3, <2>1 DEF Clocked
<1>6. SeenAreReady'
  BY <1>1, <1>2 DEF SeenAreReady, Seen
<1>7. NothingReset'
  BY <1>1, <1>2, <1>3 DEF NothingReset, Taken
<1> QED BY <1>3, <1>4, <1>5, <1>6, <1>7 DEF IInv, Typed

LEMMA RunEndsSameRows ==
  ASSUME IInv, Exit, SameRows, UNCHANGED <<world, status, commits, checkpoint, unconfirmed>>
  PROVE  IInv'
<1>1. OnlyLatestRuns'
  BY SameRowsKeep DEF IInv
<1>2. \A i \in DOMAIN runs' : runs'[i].started \in 1..now'
  BY RowsClocked DEF IInv, world
<1> QED BY <1>1, <1>2, RunEnds DEF SameRows

LEMMA FailRunEnds ==
  ASSUME IInv, FailRun, UNCHANGED <<world, status, commits, checkpoint, unconfirmed>>
  PROVE  IInv'
<1>1. Typed /\ Exit
  BY DEF IInv, FailRun
<1>2. SameRows
  BY <1>1, RowClosed, RowsUnchanged DEF FailRun
<1> QED BY <1>1, <1>2, RunEndsSameRows

LEMMA CrashStep ==
  ASSUME IInv, Crash
  PROVE  IInv'
<1>1. Exit /\ UNCHANGED <<world, status, commits, checkpoint, unconfirmed>> /\ runs' = runs
  BY DEF Crash, synapse
<1>2. SameRows
  BY <1>1, RowsUnchanged DEF IInv
<1> QED BY <1>1, <1>2, RunEndsSameRows

-----------------------------------------------------------------------------
(* The world, and the opening of a run.                                    *)

LEMMA TickStep ==
  ASSUME IInv, Tick
  PROVE  IInv'
<1>1. /\ Typed /\ Clocked /\ SeenAreReady /\ MemoryFresh /\ InHandTaken /\ NothingReset
      /\ OnlyLatestRuns
  BY DEF IInv
<1>2. /\ pc = "idle" /\ now < MaxNow /\ now' = now + 1
      /\ UNCHANGED <<announced, status, commits, runs, checkpoint, pc, window, staged, watermark,
                     ready, eligible, next, missing, unconfirmed>>
  BY DEF Tick, synapse, memory
<1>3. Typed'
  <2>1. WorldTyped'
    BY <1>1, <1>2, CollectionAssumption DEF Typed, WorldTyped
  <2>2. SynapseTyped' /\ MemoryTyped'
    BY <1>1, <1>2 DEF Typed, SynapseTyped, MemoryTyped
  <2> QED BY <2>1, <2>2 DEF Typed
<1>4. Clocked'
  <2>1. now \in Nat /\ checkpoint.latest \in Nat /\ watermark \in Nat /\ window.to \in Nat
        /\ announced \in [Disclosures -> Nat]
    BY <1>1, CollectionAssumption DEF Typed, WorldTyped, SynapseTyped, MemoryTyped
  <2> QED BY <2>1, <1>1, <1>2 DEF Clocked
<1>5. SeenAreReady' /\ MemoryFresh' /\ OnlyLatestRuns'
  BY <1>1, <1>2 DEF SeenAreReady, Seen, MemoryFresh, Work, OnlyLatestRuns, Registered
<1>6. InHandTaken' /\ NothingReset'
  BY <1>1, <1>2 DEF InHandTaken, NothingReset, InHand
<1>7. Resolved' /\ LatestChecked' /\ BacklogServed'
  BY <1>2 DEF Resolved, LatestChecked, BacklogServed, Early
<1> QED BY <1>3, <1>4, <1>5, <1>6, <1>7 DEF IInv

LEMMA AnnounceStep ==
  ASSUME IInv, NEW d \in Disclosures, Announce(d)
  PROVE  IInv'
<1>1. /\ Typed /\ Clocked /\ SeenAreReady /\ MemoryFresh /\ InHandTaken /\ NothingReset
      /\ OnlyLatestRuns
  BY DEF IInv
<1>2. /\ pc = "idle" /\ announced' = [announced EXCEPT ![d] = now]
      /\ UNCHANGED <<now, status, commits, runs, checkpoint, pc, window, staged, watermark,
                     ready, eligible, next, missing, unconfirmed>>
  BY DEF Announce, synapse, memory
<1>3. now \in Nat /\ announced \in [Disclosures -> Nat]
  BY <1>1, CollectionAssumption DEF Typed, WorldTyped
<1>4. Typed'
  <2>1. WorldTyped'
    BY <1>1, <1>2, <1>3 DEF Typed, WorldTyped
  <2>2. SynapseTyped' /\ MemoryTyped'
    BY <1>1, <1>2 DEF Typed, SynapseTyped, MemoryTyped
  <2> QED BY <2>1, <2>2 DEF Typed
<1>5. Clocked'
  <2>1. \A row \in Disclosures : announced'[row] = announced[row] \/ announced'[row] <= now'
    BY <1>2, <1>3
  <2> QED BY <1>1, <1>2, <2>1 DEF Clocked
<1>6. SeenAreReady' /\ MemoryFresh' /\ OnlyLatestRuns'
  BY <1>1, <1>2 DEF SeenAreReady, Seen, MemoryFresh, Work, OnlyLatestRuns, Registered
<1>7. InHandTaken' /\ NothingReset'
  BY <1>1, <1>2 DEF InHandTaken, NothingReset, InHand
<1>8. Resolved' /\ LatestChecked' /\ BacklogServed'
  BY <1>2 DEF Resolved, LatestChecked, BacklogServed, Early
<1> QED BY <1>4, <1>5, <1>6, <1>7, <1>8 DEF IInv

LEMMA BeginStep ==
  ASSUME IInv, Begin
  PROVE  IInv'
<1>1. /\ Typed /\ Clocked /\ SeenAreReady /\ MemoryFresh /\ InHandTaken /\ NothingReset
      /\ OnlyLatestRuns
  BY DEF IInv
<1>2. /\ pc = "idle" /\ pc' = "recovering"
      /\ window' = [from |-> WindowStart(now, checkpoint.latest), to |-> now]
      /\ UNCHANGED <<now, announced, status, commits, runs, checkpoint, staged, watermark,
                     ready, eligible, next, missing, unconfirmed>>
  BY DEF Begin, world, synapse
<1>3. now \in Nat /\ checkpoint.latest \in Nat
  BY <1>1, CollectionAssumption DEF Typed, WorldTyped, SynapseTyped
<1>4. WindowStart(now, checkpoint.latest) \in Int
  <2> DEFINE fallback == now - Lookback
             wished == IF checkpoint.latest = 0 THEN fallback ELSE Min({fallback, checkpoint.latest - Overlap})
  <2>1. fallback \in Int /\ checkpoint.latest - Overlap \in Int /\ now - MaxWindow \in Int
    BY <1>3, CollectionAssumption
  <2>2. wished \in Int
    BY <2>1, MinOfTwo
  <2>3. WindowStart(now, checkpoint.latest) = Max({wished, now - MaxWindow})
    BY DEF WindowStart
  <2> HIDE DEF wished
  <2> QED BY <2>1, <2>2, <2>3, MaxOfTwo
<1>5. Typed'
  <2>1. WorldTyped' /\ SynapseTyped'
    BY <1>1, <1>2 DEF Typed, WorldTyped, SynapseTyped
  <2>2. MemoryTyped'
    BY <1>1, <1>2, <1>3, <1>4 DEF Typed, MemoryTyped, Early
  <2> QED BY <2>1, <2>2 DEF Typed
<1>6. Clocked'
  BY <1>1, <1>2, <1>3 DEF Clocked
<1>7. SeenAreReady' /\ MemoryFresh' /\ OnlyLatestRuns'
  BY <1>1, <1>2 DEF SeenAreReady, Seen, MemoryFresh, Work, OnlyLatestRuns, Registered, Early
<1>8. InHandTaken' /\ NothingReset'
  BY <1>1, <1>2 DEF InHandTaken, NothingReset, Taken
<1>9. Resolved' /\ LatestChecked' /\ BacklogServed'
  BY <1>2 DEF Resolved, LatestChecked, BacklogServed, Early
<1> QED BY <1>5, <1>6, <1>7, <1>8, <1>9 DEF IInv

(* While a run is being opened only its row changes.                       *)
LEMMA OpeningKeeps ==
  ASSUME IInv, pc \in Early, pc' \in Early, UNCHANGED <<world, status, commits, checkpoint, unconfirmed, memory>>
  PROVE  /\ WorldTyped' /\ MemoryTyped' /\ SeenAreReady' /\ MemoryFresh' /\ InHandTaken' /\ NothingReset'
         /\ Resolved' /\ BacklogServed'
<1>1. Typed /\ SeenAreReady /\ MemoryFresh /\ InHandTaken /\ NothingReset
  BY DEF IInv
<1>2. UNCHANGED <<now, announced, status, commits, checkpoint, unconfirmed, window, staged, watermark,
                  ready, eligible, next, missing>>
  BY DEF world, memory
<1>3. WorldTyped' /\ MemoryTyped'
  BY <1>1, <1>2 DEF Typed, WorldTyped, MemoryTyped
<1>4. SeenAreReady' /\ MemoryFresh'
  BY <1>1, <1>2 DEF SeenAreReady, Seen, MemoryFresh, Work
<1>5. InHandTaken' /\ NothingReset'
  BY <1>1, <1>2 DEF InHandTaken, NothingReset, Early, Taken
<1>6. Resolved' /\ BacklogServed'
  BY DEF Resolved, BacklogServed, Early
<1> QED BY <1>3, <1>4, <1>5, <1>6

LEMMA OpeningStep ==
  ASSUME IInv, pc \in Early, pc' \in Early, UNCHANGED <<world, status, commits, checkpoint, unconfirmed, memory>>,
         runs' \in Seq(Rows), \A i \in DOMAIN runs' : runs'[i].started \in 1..now',
         OnlyLatestRuns', LatestChecked'
  PROVE  IInv'
<1>1. Typed /\ Clocked
  BY DEF IInv
<1>2. /\ WorldTyped' /\ MemoryTyped' /\ SeenAreReady' /\ MemoryFresh' /\ InHandTaken' /\ NothingReset'
      /\ Resolved' /\ BacklogServed'
  BY OpeningKeeps
<1>3. UNCHANGED <<now, announced, status, commits, checkpoint, unconfirmed, window, watermark>>
  BY DEF world, memory
<1>4. SynapseTyped'
  BY <1>1, <1>3 DEF Typed, SynapseTyped
<1>5. Clocked'
  BY <1>1, <1>3 DEF Clocked
<1> QED BY <1>2, <1>4, <1>5 DEF IInv, Typed

(* Among the registered rows there is a last one, which Synapse reports.   *)
LEMMA LatestExists ==
  ASSUME Typed, NEW i, IsLatest(i)
  PROVE  Registered # {} /\ Max(Registered) = i
<1>1. Registered \in SUBSET Nat /\ i \in Registered /\ \A j \in Registered : j <= i
  BY RowsTyped DEF Registered, IsLatest
<1>2. Registered \in SUBSET Int /\ i \in Int
  BY <1>1
<1>3. Max(Registered) \in Registered /\ i <= Max(Registered)
  BY <1>1, <1>2, Largest
<1>4. Max(Registered) \in Int /\ Max(Registered) <= i
  BY <1>1, <1>2, <1>3
<1>5. Max(Registered) = i
  BY ONLY <1>2, <1>3, <1>4
<1> QED BY <1>1, <1>5

LEMMA RecoverStaleStep ==
  ASSUME IInv, NEW reply \in Replies, RecoverStale(reply)
  PROVE  IInv'
<1>1. Typed /\ Clocked /\ OnlyLatestRuns
  BY DEF IInv
<1>2. /\ pc = "recovering"
      /\ UNCHANGED <<world, status, commits, checkpoint, unconfirmed>>
      /\ IF reply = "ok" THEN pc' = "creating" /\ UNCHANGED memory ELSE Exit
      /\ runs' = IF Applied(reply)
                 THEN [i \in DOMAIN runs |-> IF i \in StaleRun THEN [runs[i] EXCEPT !.status = "FAILED"]
                                                               ELSE runs[i]]
                 ELSE runs
  BY DEF RecoverStale
<1>3. SameRows
  <2>1. CASE ~Applied(reply)
    BY <2>1, <1>1, <1>2, RowsUnchanged
  <2>2. CASE Applied(reply)
    <3>1. /\ Len(runs) \in Nat /\ DOMAIN runs = 1..Len(runs)
          /\ \A i \in 1..Len(runs) : runs[i] \in Rows
      BY <1>1, RowsTyped
    <3>2. runs' = [i \in 1..Len(runs) |-> IF i \in StaleRun THEN [runs[i] EXCEPT !.status = "FAILED"]
                                                          ELSE runs[i]]
      BY <2>2, <1>2, <3>1
    <3>3. \A i \in 1..Len(runs) : /\ runs'[i] \in Rows
                                  /\ runs'[i].registered = runs[i].registered
                                  /\ runs'[i].started = runs[i].started
                                  /\ runs'[i].status = "RUNNING" => runs[i].status = "RUNNING"
      BY <3>1, <3>2 DEF Rows
    <3>4. \A n \in Nat : \A f : f = [i \in 1..n |-> f[i]] /\ (\A i \in 1..n : f[i] \in Rows) => f \in Seq(Rows)
      OBVIOUS
    <3>5. runs' = [i \in 1..Len(runs) |-> runs'[i]] /\ DOMAIN runs' = 1..Len(runs)
      BY <3>2
    <3> QED BY <3>1, <3>3, <3>4, <3>5 DEF SameRows
  <2> QED BY <2>1, <2>2
<1>4. CASE reply = "ok"
  <2>1. /\ pc' = "creating" /\ UNCHANGED memory
        /\ runs' = [i \in DOMAIN runs |-> IF i \in StaleRun THEN [runs[i] EXCEPT !.status = "FAILED"]
                                                            ELSE runs[i]]
    BY <1>2, <1>4 DEF Applied
  <2>2. Registered' = Registered /\ OnlyLatestRuns'
    BY <1>1, <1>3, SameRowsKeep
  <2>3. ASSUME NEW i \in Registered', IsLatest(i)', runs'[i].status = "RUNNING"
        PROVE  now' - runs'[i].started <= StaleAge
    <3>1. IsLatest(i) /\ i \in DOMAIN runs
      BY <2>2, <2>3 DEF IsLatest, Registered
    <3>2. Registered # {} /\ Max(Registered) = i
      BY <1>1, <3>1, LatestExists
    <3>3. runs[i].status = "RUNNING" /\ runs'[i].started = runs[i].started /\ runs[i] \in Rows
      BY <1>1, <1>3, <2>3, <3>1, RowsTyped DEF SameRows
    <3>4. i \notin StaleRun
      BY <2>1, <2>3, <3>1, <3>3 DEF Rows
    <3>5. ~ (now - runs[i].started > StaleAge)
      BY <3>2, <3>3, <3>4 DEF StaleRun
    <3>6. now' = now /\ now \in Nat /\ runs[i].started \in Nat /\ StaleAge \in Nat
      BY <1>1, <1>2, <3>3, CollectionAssumption DEF world, Rows, Typed, WorldTyped
    <3> QED BY <3>3, <3>5, <3>6
  <2>4. LatestChecked'
    BY <2>1, <2>3 DEF LatestChecked
  <2>5. \A i \in DOMAIN runs' : runs'[i].started \in 1..now'
    BY <1>1, <1>2, <1>3, RowsClocked DEF world
  <2>6. pc \in Early /\ pc' \in Early /\ runs' \in Seq(Rows)
    BY <1>2, <1>3, <2>1 DEF Early, SameRows
  <2> QED BY <1>2, <2>1, <2>2, <2>4, <2>5, <2>6, OpeningStep
<1>5. CASE reply # "ok"
  BY <1>2, <1>3, <1>5, RunEndsSameRows
<1> QED BY <1>4, <1>5

(* A row not yet registered is out of sight of the latest attempt.         *)
LEMMA CreateRunStep ==
  ASSUME IInv, NEW reply \in Replies, CreateRun(reply)
  PROVE  IInv'
<1>1. Typed /\ Clocked /\ SeenAreReady /\ NothingReset /\ OnlyLatestRuns /\ LatestChecked
  BY DEF IInv
<1>2. /\ pc = "creating"
      /\ UNCHANGED <<world, status, commits, checkpoint, unconfirmed>> /\ now' = now
      /\ IF reply = "ok" THEN pc' = "registering" /\ UNCHANGED memory ELSE Exit
      /\ runs' = IF Applied(reply)
                 THEN Append(runs, [status |-> "RUNNING", started |-> now, registered |-> FALSE])
                 ELSE runs
  BY DEF CreateRun, world
<1>3. CASE ~Applied(reply)
  <2>1. reply # "ok"
    BY <1>3 DEF Applied
  <2> QED BY <2>1, <1>1, <1>2, <1>3, RowsUnchanged, RunEndsSameRows
<1>4. CASE Applied(reply)
  <2> DEFINE new == [status |-> "RUNNING", started |-> now, registered |-> FALSE]
  <2>1. now \in Nat /\ now >= 1
    BY <1>1, CollectionAssumption DEF Typed, WorldTyped
  <2>2. runs' = Append(runs, new) /\ new \in Rows /\ runs \in Seq(Rows)
    BY <1>1, <1>2, <1>4, <2>1 DEF Rows, Typed, SynapseTyped
  <2>3. new.registered = FALSE /\ new.started = now
    OBVIOUS
  <2> HIDE DEF new
  <2>4. /\ runs' \in Seq(Rows) /\ Len(runs) \in Nat /\ Len(runs') = Len(runs) + 1
        /\ DOMAIN runs = 1..Len(runs) /\ DOMAIN runs' = 1..(Len(runs) + 1)
        /\ \A i \in 1..Len(runs) : runs'[i] = runs[i]
        /\ runs'[Len(runs) + 1] = new
    BY <2>2
  <2>5. Registered' = Registered
    BY <2>3, <2>4 DEF Registered
  <2>6. \A i \in Registered : runs'[i] = runs[i]
    BY <2>4 DEF Registered
  <2>7. OnlyLatestRuns'
    BY <1>1, <2>5, <2>6 DEF OnlyLatestRuns
  <2>8. \A i \in DOMAIN runs' : runs'[i].started \in 1..now'
    BY <1>1, <1>2, <2>1, <2>3, <2>4 DEF Clocked
  <2>9. CASE reply = "ok"
    <3>1. \A i \in Registered : IsLatest(i)' => IsLatest(i)
      BY <2>5 DEF IsLatest
    <3>2. Len(runs') > 0 /\ runs'[Len(runs')].started = now' /\ ~runs'[Len(runs')].registered
      BY <1>2, <2>3, <2>4
    <3>3. LatestChecked'
      BY <1>1, <1>2, <2>5, <2>6, <2>9, <3>1, <3>2 DEF LatestChecked
    <3> QED BY <1>2, <2>4, <2>7, <2>8, <2>9, <3>3, OpeningStep DEF Early
  <2>10. CASE reply # "ok"
    BY <1>2, <2>4, <2>7, <2>8, <2>10, RunEnds
  <2> QED BY <2>9, <2>10
<1> QED BY <1>3, <1>4

LEMMA RegisterRunStep ==
  ASSUME IInv, NEW reply \in Replies, RegisterRun(reply)
  PROVE  IInv'
<1>1. Typed /\ Clocked /\ SeenAreReady /\ NothingReset /\ OnlyLatestRuns /\ LatestChecked
  BY DEF IInv
<1>2. /\ pc = "registering"
      /\ UNCHANGED <<world, status, commits, checkpoint, unconfirmed>> /\ now' = now
      /\ IF reply = "ok" THEN pc' = "collecting" /\ UNCHANGED memory ELSE Exit
      /\ runs' = IF Applied(reply) THEN [runs EXCEPT ![Len(runs)].registered = TRUE] ELSE runs
  BY DEF RegisterRun, world
<1>3. CASE ~Applied(reply)
  <2>1. reply # "ok"
    BY <1>3 DEF Applied
  <2> QED BY <2>1, <1>1, <1>2, <1>3, RowsUnchanged, RunEndsSameRows
<1>4. CASE Applied(reply)
  <2> DEFINE n == Len(runs)
  <2>1. n \in Nat /\ DOMAIN runs = 1..n /\ \A i \in 1..n : runs[i] \in Rows
    BY <1>1, RowsTyped
  <2>2. n > 0 /\ runs[n].started = now /\ ~runs[n].registered
    BY <1>1, <1>2 DEF LatestChecked
  <2>3. now \in Nat /\ now >= 1
    BY <1>1, CollectionAssumption DEF Typed, WorldTyped
  <2>4. runs' = [i \in 1..n |-> IF i = n THEN [runs[i] EXCEPT !.registered = TRUE] ELSE runs[i]]
    BY <1>2, <1>4, <2>1, <2>2
  <2> HIDE DEF n
  <2>5. \A i \in 1..n : /\ runs'[i] \in Rows /\ runs'[i].started = runs[i].started
                        /\ runs'[i].status = runs[i].status
                        /\ i # n => runs'[i] = runs[i]
                        /\ i = n => runs'[i].registered
    BY <2>1, <2>4 DEF Rows
  <2>6. runs' \in Seq(Rows) /\ DOMAIN runs' = 1..n
    BY <2>1, <2>4, <2>5
  <2>7. Registered' = Registered \cup {n} /\ n \notin Registered /\ Registered \subseteq 1..n
    BY <2>1, <2>2, <2>5, <2>6 DEF Registered
  <2>8. OnlyLatestRuns'
    <3> SUFFICES ASSUME NEW i \in Registered', NEW j \in Registered', i < j,
                        \A k \in Registered' : ~(i < k /\ k < j), runs'[i].status = "RUNNING"
                 PROVE  runs'[j].started - runs'[i].started <= StaleAge
      BY DEF OnlyLatestRuns
    <3>1. i \in Registered /\ i # n
      BY <2>1, <2>7
    <3>2. runs'[i] = runs[i]
      BY <2>5, <2>7, <3>1
    <3>3. CASE j = n
      <4>1. IsLatest(i)
        <5>1. ASSUME NEW k \in Registered
              PROVE  k <= i
          BY <2>1, <2>7, <3>1, <3>3
        <5> QED BY <3>1, <5>1 DEF IsLatest
      <4>2. now - runs[i].started <= StaleAge
        BY <1>1, <1>2, <3>1, <3>2, <4>1 DEF LatestChecked
      <4>3. runs'[j].started = now
        BY <2>1, <2>2, <2>5, <3>3
      <4> QED BY <3>2, <4>2, <4>3
    <3>4. CASE j # n
      <4>1. j \in Registered /\ runs'[j] = runs[j]
        BY <2>5, <2>7, <3>4
      <4> QED BY <1>1, <2>7, <3>1, <3>2, <4>1 DEF OnlyLatestRuns
    <3> QED BY <3>3, <3>4
  <2>9. \A i \in DOMAIN runs' : runs'[i].started \in 1..now'
    BY <1>1, <1>2, <2>1, <2>5, <2>6 DEF Clocked
  <2>10. CASE reply = "ok"
    <3>1. LatestChecked'
      BY <1>2, <2>10 DEF LatestChecked
    <3> QED BY <1>2, <2>6, <2>8, <2>9, <2>10, <3>1, OpeningStep DEF Early
  <2>11. CASE reply # "ok"
    BY <1>2, <2>6, <2>8, <2>9, <2>11, RunEnds
  <2> QED BY <2>10, <2>11
<1> QED BY <1>3, <1>4

-----------------------------------------------------------------------------
(* Collecting and publishing.                                              *)

LEMMA CollectStep ==
  ASSUME IInv, Collect
  PROVE  IInv'
<1>1. /\ Typed /\ Clocked /\ SeenAreReady /\ MemoryFresh /\ InHandTaken /\ NothingReset
      /\ OnlyLatestRuns
  BY DEF IInv
<1>2. /\ pc = "collecting" /\ pc' = "publishing"
      /\ UNCHANGED <<now, announced, status, commits, runs, checkpoint, window, ready, eligible, next,
                     unconfirmed>>
  BY DEF Collect, world, synapse
<1>3. /\ staged' \in Seq(Disclosures) /\ Work' \subseteq Candidates
      /\ \A i, j \in DOMAIN staged' : staged'[i] = staged'[j] => i = j
      /\ missing' \subseteq Disclosures
      /\ watermark' \in Nat /\ watermark' <= now
      /\ watermark' # checkpoint.latest => Listed \subseteq Seen \cup Work' \cup PassedOver \cup missing'
      /\ deferred' /\ Len(staged') > NewestHead /\ OldestSlots > 0 =>
           \A d \in Candidates \ PassedOver :
             (\A other \in Candidates \ {d} : announced[d] < announced[other]) => d \in Work' \cup missing'
  BY <1>1, Collected
<1>4. Listed' = Listed /\ Seen' = Seen /\ Candidates' = Candidates
  BY <1>2 DEF Listed, Seen, Candidates
<1>5. ready = {} /\ eligible = {} /\ next = 1 /\ Len(staged') \in Nat
  BY <1>1, <1>2, <1>3 DEF MemoryFresh, Early
<1>6. Typed'
  <2>1. WorldTyped' /\ SynapseTyped'
    BY <1>1, <1>2 DEF Typed, WorldTyped, SynapseTyped
  <2>2. MemoryTyped'
    BY <1>1, <1>2, <1>3, <1>5 DEF Typed, MemoryTyped
  <2> QED BY <2>1, <2>2 DEF Typed
<1>7. Clocked'
  BY <1>1, <1>2, <1>3 DEF Clocked
<1>8. SeenAreReady' /\ OnlyLatestRuns'
  BY <1>1, <1>2 DEF SeenAreReady, Seen, OnlyLatestRuns, Registered
<1>9. MemoryFresh'
  <2>1. Work' \cap Seen' = {}
    BY <1>3, <1>4 DEF Candidates
  <2> QED BY <2>1, <1>2, <1>3, <1>5 DEF MemoryFresh, Early
<1>10. InHandTaken' /\ NothingReset'
  BY <1>1, <1>2, <1>5 DEF InHandTaken, NothingReset, Taken
<1>11. Resolved' /\ LatestChecked' /\ BacklogServed'
  BY <1>2, <1>3, <1>4 DEF Resolved, LatestChecked, BacklogServed
<1> QED BY <1>6, <1>7, <1>8, <1>9, <1>10, <1>11 DEF IInv

LEMMA CollectFailsStep ==
  ASSUME IInv, CollectFails
  PROVE  IInv'
BY FailRunEnds DEF CollectFails

LEMMA UpsertStep ==
  ASSUME IInv, NEW reply \in Replies, UpsertDisclosures(reply)
  PROVE  IInv'
<1>1. /\ Typed /\ Clocked /\ SeenAreReady /\ MemoryFresh /\ InHandTaken /\ NothingReset
      /\ Resolved /\ OnlyLatestRuns
  BY DEF IInv
<1>2. /\ pc = "publishing"
      /\ UNCHANGED <<now, announced, commits, checkpoint, unconfirmed>>
      /\ status' = IF Applied(reply)
                   THEN [d \in Disclosures |-> IF d \in Work /\ status[d] = "absent" THEN "PENDING" ELSE status[d]]
                   ELSE status
  BY DEF UpsertDisclosures, world
<1>3. /\ status' \in [Disclosures -> {"absent", "PENDING", "EXTRACTING", "ANALYZING", "PARTIAL", "READY"}]
      /\ \A d \in Disclosures : status'[d] = "READY" <=> status[d] = "READY"
  BY <1>1, <1>2 DEF Typed, SynapseTyped
<1>4. ready = {} /\ eligible = {} /\ next = 1
  BY <1>1, <1>2 DEF MemoryFresh, Early
<1>5. SeenAreReady'
  <2>1. Seen' = Seen /\ Seen \subseteq Disclosures
    BY <1>1, <1>2 DEF Seen, Typed, SynapseTyped, Range
  <2> QED BY <2>1, <1>1, <1>3 DEF SeenAreReady
<1>6. \A d \in Disclosures \ unconfirmed' : commits'[d] > 0 => commits'[d] = 1 /\ status'[d] = "READY"
  BY <1>1, <1>2, <1>3 DEF NothingReset
<1>7. CASE reply = "ok"
  <2>1. /\ pc' = "processing" /\ ready' = {d \in Work : status[d] = "READY"} /\ eligible' = ready'
        /\ UNCHANGED <<runs, window, staged, watermark, next, missing>>
    BY <1>2, <1>7 DEF UpsertDisclosures
  <2>2. Work' = Work /\ Work \subseteq Disclosures /\ \A i \in DOMAIN staged : staged[i] \in Work
    BY <1>1, <2>1 DEF Work, Range, Typed, MemoryTyped
  <2>3. Typed'
    <3>1. WorldTyped' /\ SynapseTyped'
      BY <1>1, <1>2, <1>3, <2>1 DEF Typed, WorldTyped, SynapseTyped
    <3>2. MemoryTyped'
      BY <1>1, <2>1, <2>2 DEF Typed, MemoryTyped
    <3> QED BY <3>1, <3>2 DEF Typed
  <2>4. Clocked' /\ OnlyLatestRuns'
    BY <1>1, <1>2, <2>1 DEF Clocked, OnlyLatestRuns, Registered
  <2>5. MemoryFresh'
    BY <1>1, <1>2, <2>1, <2>2 DEF MemoryFresh, Early, Seen
  <2>6. InHandTaken'
    BY <1>3, <2>1, <2>2 DEF InHandTaken, Taken
  <2>7. NothingReset'
    <3>1. \A i \in 1..Len(staged) : i \in DOMAIN staged
      BY <1>1 DEF Typed, MemoryTyped
    <3>2. ASSUME NEW i \in next'..Len(staged'), status'[staged'[i]] = "READY"
          PROVE  staged'[i] \in ready'
      <4>1. i \in 1..Len(staged)
        BY <1>4, <2>1
      <4> QED BY <3>1, <3>2, <4>1, <1>3, <2>1, <2>2
    <3> QED BY <1>6, <3>2 DEF NothingReset
  <2>8. Resolved' /\ LatestChecked' /\ BacklogServed'
    BY <1>1, <1>2, <2>1, <2>2 DEF Resolved, LatestChecked, BacklogServed, Listed, Seen, Early
  <2> QED BY <1>5, <2>3, <2>4, <2>5, <2>6, <2>7, <2>8 DEF IInv
<1>8. CASE reply # "ok"
  <2>1. FailRun
    BY <1>8 DEF UpsertDisclosures
  <2>2. Exit /\ SameRows
    BY <1>1, <2>1, RowClosed, RowsUnchanged DEF FailRun
  <2>3. /\ MemoryTyped' /\ MemoryFresh' /\ InHandTaken' /\ Resolved' /\ LatestChecked' /\ BacklogServed'
        /\ pc' = "idle" /\ window'.to = 0 /\ watermark' = 0
    BY <2>2, ExitClears
  <2>4. WorldTyped' /\ SynapseTyped'
    BY <1>1, <1>2, <1>3, <2>2 DEF Typed, WorldTyped, SynapseTyped, SameRows
  <2>5. Clocked'
    <3>1. now \in Nat
      BY <1>1, CollectionAssumption DEF Typed, WorldTyped
    <3>2. \A i \in DOMAIN runs' : runs'[i].started \in 1..now'
      BY <1>1, <1>2, <2>2, RowsClocked
    <3> QED BY <1>1, <1>2, <2>3, <3>1, <3>2 DEF Clocked
  <2>6. NothingReset'
    BY <1>6, <2>3 DEF NothingReset, Taken
  <2>7. OnlyLatestRuns'
    BY <1>1, <2>2, SameRowsKeep
  <2> QED BY <1>5, <2>3, <2>4, <2>5, <2>6, <2>7 DEF IInv, Typed
<1> QED BY <1>7, <1>8

-----------------------------------------------------------------------------
(* One disclosure at a time.                                               *)

Busy == Taken \cup {"processing"}
Statuses == {"absent", "PENDING", "EXTRACTING", "ANALYZING", "PARTIAL", "READY"}

LEMMA HandTyped ==
  ASSUME IInv, next <= Len(staged)
  PROVE  /\ next \in 1..Len(staged) /\ InHand \in Disclosures /\ InHand \notin Seen
         /\ \A i \in DOMAIN staged : staged[i] \in Disclosures
         /\ \A i \in DOMAIN staged : staged[i] = InHand => i = next
         /\ InHand \in eligible => InHand \in ready
         /\ Len(staged) \in Nat /\ DOMAIN staged = 1..Len(staged)
<1>1. Typed /\ MemoryFresh /\ InHandTaken
  BY DEF IInv
<1>2. staged \in Seq(Disclosures) /\ next \in 1..(Len(staged) + 1)
  BY <1>1 DEF Typed, MemoryTyped
<1>3. /\ Len(staged) \in Nat /\ DOMAIN staged = 1..Len(staged) /\ next \in 1..Len(staged)
      /\ \A i \in DOMAIN staged : staged[i] \in Disclosures
  BY <1>2
<1>4. InHand \in Work
  BY <1>3 DEF InHand, Work, Range
<1> QED BY <1>1, <1>3, <1>4 DEF MemoryFresh, InHandTaken, InHand

(* What a step of the loop does to the disclosure in hand; the others stay *)
(* as they are.                                                            *)
Handled ==
  /\ pc \in Busy /\ pc' \in Busy /\ next <= Len(staged)
  /\ UNCHANGED <<now, announced, runs, checkpoint, window, staged, watermark, ready, missing>>
  /\ status' \in [Disclosures -> Statuses]
  /\ \A d \in Disclosures \ {InHand} : status'[d] = status[d]
  /\ commits' \in [Disclosures -> Nat] /\ unconfirmed \subseteq unconfirmed' /\ unconfirmed' \subseteq Disclosures
  /\ \A d \in Disclosures \ {InHand} : commits'[d] = commits[d]
  /\ next' = next \/ next' = next + 1
  /\ pc' \in Taken => next' = next /\ InHand \notin ready
  /\ pc' = "analysing" => status'[InHand] = "ANALYZING"
  /\ InHand \in ready => status' = status /\ commits' = commits
  /\ \/ eligible' = eligible
     \/ eligible' = eligible \cup {InHand} /\ status'[InHand] = "READY" /\ next' = next + 1
  /\ status'[InHand] = "READY" => InHand \in ready \cup unconfirmed' \/ next' = next + 1
  /\ InHand \notin unconfirmed' /\ commits'[InHand] > 0 => commits'[InHand] = 1 /\ status'[InHand] = "READY"

LEMMA HandledStep ==
  ASSUME IInv, Handled
  PROVE  IInv'
<1>1. /\ Typed /\ Clocked /\ SeenAreReady /\ MemoryFresh /\ InHandTaken /\ NothingReset
      /\ Resolved /\ OnlyLatestRuns
  BY DEF IInv
<1>2. /\ next \in 1..Len(staged) /\ InHand \in Disclosures /\ InHand \notin Seen
      /\ \A i \in DOMAIN staged : staged[i] \in Disclosures
      /\ \A i \in DOMAIN staged : staged[i] = InHand => i = next
      /\ InHand \in eligible => InHand \in ready
      /\ Len(staged) \in Nat /\ DOMAIN staged = 1..Len(staged)
  BY HandTyped DEF Handled
<1>3. /\ pc \in Busy /\ pc' \in Busy
      /\ UNCHANGED <<now, announced, runs, checkpoint, window, staged, watermark, ready, missing>>
      /\ next' = next \/ next' = next + 1
  BY DEF Handled
<1>4. Typed'
  <2>1. WorldTyped' /\ SynapseTyped'
    BY <1>1, <1>3 DEF Handled, Typed, WorldTyped, SynapseTyped, Statuses
  <2>2. MemoryTyped'
    <3>1. next' \in 1..(Len(staged') + 1)
      BY <1>2, <1>3
    <3>2. eligible' \subseteq Disclosures
      BY <1>1, <1>2 DEF Handled, Typed, MemoryTyped
    <3> QED BY <1>1, <1>3, <3>1, <3>2 DEF Typed, MemoryTyped, Busy
  <2> QED BY <2>1, <2>2 DEF Typed
<1>5. Clocked' /\ OnlyLatestRuns'
  BY <1>1, <1>3 DEF Clocked, OnlyLatestRuns, Registered
<1>6. SeenAreReady'
  <2>1. Seen' = Seen /\ Seen \subseteq Disclosures
    BY <1>1, <1>3 DEF Seen, Typed, SynapseTyped, Range
  <2> QED BY <2>1, <1>1, <1>2 DEF SeenAreReady, Handled
<1>7. MemoryFresh'
  BY <1>1, <1>3 DEF MemoryFresh, Work, Seen, Early, Busy, Taken
<1>8. InHandTaken'
  <2>1. \A d \in eligible' : status'[d] = "READY"
    <3>1. eligible \subseteq Disclosures /\ \A d \in eligible : status[d] = "READY"
      BY <1>1 DEF Typed, MemoryTyped, InHandTaken
    <3> QED BY <3>1, <1>2 DEF Handled
  <2>2. ASSUME NEW i \in next'..Len(staged'), staged'[i] \in eligible'
        PROVE  staged'[i] \in ready'
    <3>1. i \in next..Len(staged) /\ i \in DOMAIN staged /\ staged'[i] = staged[i] /\ ready' = ready
      BY <1>2, <1>3
    <3>2. CASE eligible' = eligible
      BY <1>1, <2>2, <3>1, <3>2 DEF InHandTaken
    <3>3. CASE eligible' = eligible \cup {InHand} /\ next' = next + 1
      <4>1. staged[i] # InHand
        BY <1>2, <3>1, <3>3
      <4> QED BY <1>1, <2>2, <3>1, <3>3, <4>1 DEF InHandTaken
    <3> QED BY <3>2, <3>3 DEF Handled
  <2>3. pc' \in Taken => next' <= Len(staged') /\ InHand' \notin ready'
    BY <1>2, <1>3 DEF Handled, InHand
  <2>4. pc' = "analysing" => status'[InHand'] = "ANALYZING"
    BY <1>3 DEF Handled, InHand, Taken
  <2> QED BY <2>1, <2>2, <2>3, <2>4 DEF InHandTaken
<1>9. NothingReset'
  <2>1. \A d \in Disclosures \ unconfirmed' : commits'[d] > 0 => commits'[d] = 1 /\ status'[d] = "READY"
    BY <1>1, <1>2 DEF NothingReset, Handled
  <2>2. ASSUME NEW i \in next'..Len(staged'), status'[staged'[i]] = "READY"
        PROVE  staged'[i] \in ready' \cup unconfirmed'
    <3>1. i \in next..Len(staged) /\ i \in DOMAIN staged /\ staged'[i] = staged[i] /\ ready' = ready
      BY <1>2, <1>3
    <3>2. CASE staged[i] = InHand
      <4>1. i = next /\ next' # next + 1
        BY <1>2, <3>1, <3>2
      <4> QED BY <2>2, <3>1, <3>2, <4>1 DEF Handled
    <3>3. CASE staged[i] # InHand
      <4>1. status[staged[i]] = "READY"
        BY <1>2, <2>2, <3>1, <3>3 DEF Handled
      <4> QED BY <1>1, <1>3, <3>1, <4>1 DEF NothingReset, Handled, Busy
    <3> QED BY <3>2, <3>3
  <2> QED BY <2>1, <2>2 DEF NothingReset
<1>10. Resolved' /\ LatestChecked' /\ BacklogServed'
  BY <1>1, <1>3 DEF Resolved, LatestChecked, BacklogServed, Listed, Seen, Work, Early, Busy, Taken
<1> QED BY <1>4, <1>5, <1>6, <1>7, <1>8, <1>9, <1>10 DEF IInv

(* Nothing is taken in hand whose analysis is stored and confirmed.        *)
LEMMA HandUnstored ==
  ASSUME IInv, next <= Len(staged), pc \in Busy, InHand \notin ready, InHand \notin unconfirmed
  PROVE  status[InHand] # "READY" /\ commits[InHand] = 0
<1>1. Typed /\ NothingReset
  BY DEF IInv
<1>2. next \in 1..Len(staged) /\ InHand \in Disclosures /\ Len(staged) \in Nat
  BY HandTyped
<1>3. status[InHand] # "READY"
  BY <1>1, <1>2 DEF NothingReset, InHand, Busy
<1>4. commits[InHand] \in Nat
  BY <1>1, <1>2 DEF Typed, SynapseTyped
<1> QED BY <1>1, <1>2, <1>3, <1>4 DEF NothingReset

LEMMA StatusSet ==
  ASSUME Typed, InHand \in Disclosures, NEW reply, NEW value \in Statuses, SetStatus(reply, value)
  PROVE  /\ status' \in [Disclosures -> Statuses]
         /\ \A d \in Disclosures \ {InHand} : status'[d] = status[d]
         /\ status'[InHand] = IF Applied(reply) THEN value ELSE status[InHand]
<1>1. status \in [Disclosures -> Statuses]
  BY DEF Typed, SynapseTyped, Statuses
<1>2. status' = IF Applied(reply) THEN [status EXCEPT ![InHand] = value] ELSE status
  BY DEF SetStatus
<1> QED BY <1>1, <1>2

(* Any other step of the loop that takes the disclosure in hand on.        *)
LEMMA HandlingStep ==
  ASSUME IInv, pc \in Busy, pc' \in Busy, next <= Len(staged), InHand \notin ready,
         UNCHANGED <<now, announced, runs, checkpoint, window, staged, watermark, ready, missing,
                     commits, unconfirmed, eligible>>,
         status' \in [Disclosures -> Statuses],
         \A d \in Disclosures \ {InHand} : status'[d] = status[d],
         status'[InHand] = "READY" => status[InHand] = "READY",
         next' = next \/ next' = next + 1,
         pc' \in Taken => next' = next,
         pc' = "analysing" => status'[InHand] = "ANALYZING"
  PROVE  IInv'
<1>1. Typed
  BY DEF IInv
<1>2. commits \in [Disclosures -> Nat] /\ unconfirmed \subseteq Disclosures
  BY <1>1 DEF Typed, SynapseTyped
<1>3. InHand \notin unconfirmed => status[InHand] # "READY" /\ commits[InHand] = 0
  BY HandUnstored
<1>4. Handled
  BY <1>2, <1>3 DEF Handled
<1> QED BY <1>4, HandledStep

LEMMA SkipReadyStep ==
  ASSUME IInv, SkipReady
  PROVE  IInv'
<1>1. Typed /\ InHandTaken /\ NothingReset
  BY DEF IInv
<1>2. /\ pc = "processing" /\ pc' = "processing" /\ next <= Len(staged) /\ InHand \in ready
      /\ next' = next + 1
      /\ UNCHANGED <<now, announced, status, commits, runs, checkpoint, window, staged, watermark,
                     ready, eligible, missing, unconfirmed>>
  BY DEF SkipReady, Processing, SkippedAsReady, NextDisclosure, world, synapse
<1>3. InHand \in Disclosures
  BY <1>2, HandTyped
<1>4. /\ commits \in [Disclosures -> Nat] /\ unconfirmed \subseteq Disclosures
      /\ status \in [Disclosures -> Statuses]
  BY <1>1 DEF Typed, SynapseTyped, Statuses
<1>5. Handled
  BY <1>1, <1>2, <1>3, <1>4 DEF Handled, Busy, Taken, NothingReset
<1> QED BY <1>5, HandledStep

LEMMA DeferStep ==
  ASSUME IInv, Defer
  PROVE  IInv'
<1>1. /\ pc = "processing" /\ pc' = "marking" /\ next <= Len(staged) /\ InHand \notin ready
      /\ UNCHANGED <<now, announced, status, commits, runs, checkpoint, window, staged, watermark,
                     ready, eligible, next, missing, unconfirmed>>
  BY DEF Defer, Processing, SkippedAsReady, world, synapse
<1>2. status \in [Disclosures -> Statuses]
  BY DEF IInv, Typed, SynapseTyped, Statuses
<1> QED BY <1>1, <1>2, HandlingStep DEF Busy, Taken

LEMMA StartExtractionStep ==
  ASSUME IInv, NEW reply \in Replies, StartExtraction(reply)
  PROVE  IInv'
<1>1. /\ pc = "processing" /\ pc' \in {"extracting", "marking"} /\ next <= Len(staged) /\ InHand \notin ready
      /\ SetStatus(reply, "EXTRACTING")
      /\ UNCHANGED <<now, announced, commits, runs, checkpoint, window, staged, watermark,
                     ready, eligible, next, missing, unconfirmed>>
  BY DEF StartExtraction, Processing, SkippedAsReady, Proceed, Failing, world
<1>2. Typed /\ InHand \in Disclosures
  BY <1>1, HandTyped DEF IInv
<1>3. /\ status' \in [Disclosures -> Statuses]
      /\ \A d \in Disclosures \ {InHand} : status'[d] = status[d]
      /\ status'[InHand] = IF Applied(reply) THEN "EXTRACTING" ELSE status[InHand]
  BY <1>1, <1>2, StatusSet DEF Statuses
<1> QED BY <1>1, <1>3, HandlingStep DEF Busy, Taken

LEMMA TakenHand ==
  ASSUME IInv, pc \in Taken
  PROVE  next <= Len(staged) /\ InHand \notin ready /\ Typed /\ InHand \in Disclosures
<1>1. next <= Len(staged) /\ InHand \notin ready
  BY DEF IInv, InHandTaken
<1> QED BY <1>1, HandTyped DEF IInv

LEMMA StartAnalysisStep ==
  ASSUME IInv, NEW reply \in Replies, StartAnalysis(reply)
  PROVE  IInv'
<1>1. /\ pc = "extracting" /\ pc' \in {"analysing", "marking"}
      /\ pc' = "analysing" => reply = "ok"
      /\ SetStatus(reply, "ANALYZING")
      /\ UNCHANGED <<now, announced, commits, runs, checkpoint, window, staged, watermark,
                     ready, eligible, next, missing, unconfirmed>>
  BY DEF StartAnalysis, Proceed, Failing, world
<1>2. next <= Len(staged) /\ InHand \notin ready /\ Typed /\ InHand \in Disclosures
  BY <1>1, TakenHand DEF Taken
<1>3. /\ status' \in [Disclosures -> Statuses]
      /\ \A d \in Disclosures \ {InHand} : status'[d] = status[d]
      /\ status'[InHand] = IF Applied(reply) THEN "ANALYZING" ELSE status[InHand]
  BY <1>1, <1>2, StatusSet DEF Statuses
<1>4. pc' = "analysing" => status'[InHand] = "ANALYZING"
  BY <1>1, <1>3 DEF Applied
<1> QED BY <1>1, <1>2, <1>3, <1>4, HandlingStep DEF Busy, Taken

LEMMA WorkFailsStep ==
  ASSUME IInv, NEW cause, WorkFails(cause)
  PROVE  IInv'
<1>1. /\ pc \in {"extracting", "analysing"} /\ pc' = "marking"
      /\ UNCHANGED <<now, announced, status, commits, runs, checkpoint, window, staged, watermark,
                     ready, eligible, next, missing, unconfirmed>>
  BY DEF WorkFails, Failing, world, synapse
<1>2. next <= Len(staged) /\ InHand \notin ready /\ Typed /\ InHand \in Disclosures
  BY <1>1, TakenHand DEF Taken
<1>3. status \in [Disclosures -> Statuses]
  BY <1>2 DEF Typed, SynapseTyped, Statuses
<1> QED BY <1>1, <1>2, <1>3, HandlingStep DEF Busy, Taken

LEMMA MarkPartialStep ==
  ASSUME IInv, NEW reply \in Replies, MarkPartial(reply)
  PROVE  IInv'
<1>1. /\ pc = "marking" /\ pc' = "processing" /\ next' = next + 1
      /\ SetStatus(reply, "PARTIAL")
      /\ UNCHANGED <<now, announced, commits, runs, checkpoint, window, staged, watermark,
                     ready, eligible, missing, unconfirmed>>
  BY DEF MarkPartial, NextDisclosure, world
<1>2. next <= Len(staged) /\ InHand \notin ready /\ Typed /\ InHand \in Disclosures
  BY <1>1, TakenHand DEF Taken
<1>3. /\ status' \in [Disclosures -> Statuses]
      /\ \A d \in Disclosures \ {InHand} : status'[d] = status[d]
      /\ status'[InHand] = IF Applied(reply) THEN "PARTIAL" ELSE status[InHand]
  BY <1>1, <1>2, StatusSet DEF Statuses
<1> QED BY <1>1, <1>2, <1>3, HandlingStep DEF Busy, Taken

LEMMA OneMore ==
  ASSUME NEW D, NEW counter \in [D -> Nat], NEW d \in D
  PROVE  LET more == [counter EXCEPT ![d] = @ + 1]
         IN  more \in [D -> Nat] /\ more[d] = counter[d] + 1 /\ \A e \in D \ {d} : more[e] = counter[e]
OBVIOUS

(* A commit makes its disclosure READY and eligible, unless its reply is   *)
(* lost; then the disclosure joins those in doubt.                         *)
LEMMA CommitAnalysisStep ==
  ASSUME IInv, NEW reply \in Replies, CommitAnalysis(reply)
  PROVE  IInv'
<1>1. /\ pc = "analysing" /\ SetStatus(reply, "READY")
      /\ commits' = IF Applied(reply) THEN [commits EXCEPT ![InHand] = @ + 1] ELSE commits
      /\ unconfirmed' = IF reply = "reply lost" THEN unconfirmed \cup {InHand} ELSE unconfirmed
      /\ UNCHANGED <<now, announced, runs, checkpoint, window, staged, watermark, ready, missing>>
      /\ \/ /\ reply = "ok" /\ pc' = "processing" /\ next' = next + 1
            /\ eligible' = eligible \cup {InHand}
         \/ reply # "ok" /\ pc' = "marking" /\ next' = next /\ eligible' = eligible
  BY DEF CommitAnalysis, NextDisclosure, Failing, world
<1>2. next <= Len(staged) /\ InHand \notin ready /\ Typed /\ InHand \in Disclosures
  BY <1>1, TakenHand DEF Taken
<1>3. status[InHand] = "ANALYZING"
  BY <1>1 DEF IInv, InHandTaken
<1>4. InHand \notin unconfirmed => commits[InHand] = 0
  BY <1>1, <1>2, HandUnstored DEF Busy, Taken
<1>5. /\ status' \in [Disclosures -> Statuses]
      /\ \A d \in Disclosures \ {InHand} : status'[d] = status[d]
      /\ status'[InHand] = IF Applied(reply) THEN "READY" ELSE status[InHand]
  BY <1>1, <1>2, StatusSet DEF Statuses
<1>6. commits \in [Disclosures -> Nat] /\ unconfirmed \subseteq Disclosures
  BY <1>2 DEF Typed, SynapseTyped
<1>7. /\ commits' \in [Disclosures -> Nat]
      /\ \A d \in Disclosures \ {InHand} : commits'[d] = commits[d]
      /\ commits'[InHand] = IF Applied(reply) THEN commits[InHand] + 1 ELSE commits[InHand]
  <2>1. CASE Applied(reply)
    BY <2>1, <1>1, <1>2, <1>6, OneMore
  <2>2. CASE ~Applied(reply)
    BY <2>2, <1>1, <1>6
  <2> QED BY <2>1, <2>2
<1>8. unconfirmed \subseteq unconfirmed' /\ unconfirmed' \subseteq Disclosures
  BY <1>1, <1>2, <1>6
<1>9. CASE reply = "ok"
  <2>1. Applied(reply) /\ status'[InHand] = "READY" /\ commits'[InHand] = commits[InHand] + 1
    BY <1>5, <1>7, <1>9 DEF Applied
  <2>2. InHand \notin unconfirmed' => commits'[InHand] = 1
    BY <2>1, <1>4, <1>8
  <2>3. Handled
    BY <1>1, <1>2, <1>5, <1>7, <1>8, <1>9, <2>1, <2>2 DEF Handled, Busy, Taken
  <2> QED BY <2>3, HandledStep
<1>10. CASE reply = "reply lost"
  <2>1. InHand \in unconfirmed'
    BY <1>1, <1>10
  <2>2. Handled
    BY <1>1, <1>2, <1>5, <1>7, <1>8, <1>10, <2>1 DEF Handled, Busy, Taken
  <2> QED BY <2>2, HandledStep
<1>11. CASE reply = "request lost"
  <2>1. status'[InHand] = "ANALYZING" /\ commits'[InHand] = commits[InHand]
    BY <1>3, <1>5, <1>7, <1>11 DEF Applied
  <2>2. InHand \notin unconfirmed' => ~ (commits'[InHand] > 0)
    BY <2>1, <1>4, <1>8
  <2>3. pc' = "marking" /\ next' = next /\ eligible' = eligible
    BY <1>1, <1>11
  <2>4. Handled
    BY <1>1, <1>2, <1>5, <1>7, <1>8, <2>1, <2>2, <2>3 DEF Handled, Busy, Taken
  <2> QED BY <2>4, HandledStep
<1> QED BY <1>9, <1>10, <1>11 DEF Replies

-----------------------------------------------------------------------------
(* Closing the run, then the checkpoint.                                   *)

LEMMA CloseRunStep ==
  ASSUME IInv, NEW reply \in Replies, NEW late \in BOOLEAN, CloseRun(reply, late)
  PROVE  IInv'
<1>1. /\ Typed /\ Clocked /\ SeenAreReady /\ MemoryFresh /\ InHandTaken /\ NothingReset
      /\ Resolved /\ OnlyLatestRuns
  BY DEF IInv
<1>2. /\ pc = "processing"
      /\ UNCHANGED <<world, status, commits, checkpoint, unconfirmed>>
      /\ \/ runs' = SetRun("PARTIAL") /\ Proceed("checkpointing")
         \/ runs' \in {SetRun("FAILED"), SetRun("PARTIAL"), runs} /\ Exit
  BY DEF CloseRun
<1>3. CASE runs' \in {SetRun("FAILED"), SetRun("PARTIAL"), runs} /\ Exit
  <2>1. SameRows
    BY <1>1, <1>3, RowClosed, RowsUnchanged
  <2> QED BY <1>2, <1>3, <2>1, RunEndsSameRows
<1>4. CASE runs' = SetRun("PARTIAL") /\ Proceed("checkpointing")
  <2>1. /\ pc' = "checkpointing"
        /\ UNCHANGED <<now, announced, status, commits, checkpoint, unconfirmed, window, staged, watermark,
                       ready, eligible, next, missing>>
    BY <1>2, <1>4 DEF Proceed, world
  <2>2. SameRows
    BY <1>1, <1>4, RowClosed
  <2>3. Typed'
    <3>1. WorldTyped' /\ SynapseTyped'
      BY <1>1, <2>1, <2>2 DEF Typed, WorldTyped, SynapseTyped, SameRows
    <3>2. MemoryTyped'
      BY <1>1, <2>1 DEF Typed, MemoryTyped
    <3> QED BY <3>1, <3>2 DEF Typed
  <2>4. Clocked'
    <3>1. \A i \in DOMAIN runs' : runs'[i].started \in 1..now'
      BY <1>1, <2>1, <2>2, RowsClocked
    <3> QED BY <1>1, <2>1, <3>1 DEF Clocked
  <2>5. SeenAreReady' /\ MemoryFresh'
    BY <1>1, <2>1 DEF SeenAreReady, Seen, MemoryFresh, Work, Early
  <2>6. InHandTaken' /\ NothingReset'
    BY <1>1, <2>1 DEF InHandTaken, NothingReset, Taken
  <2>7. OnlyLatestRuns'
    BY <1>1, <2>2, SameRowsKeep
  <2>8. Resolved' /\ LatestChecked' /\ BacklogServed'
    BY <1>1, <1>2, <2>1 DEF Resolved, LatestChecked, BacklogServed, Listed, Seen, Work, Early
  <2> QED BY <2>3, <2>4, <2>5, <2>6, <2>7, <2>8 DEF IInv
<1> QED BY <1>2, <1>3, <1>4

LEMMA LastOnes ==
  ASSUME NEW T, NEW s \in Seq(T), NEW n \in Nat \ {0}
  PROVE  LastOf(s, n) \in Seq(T) /\ Len(LastOf(s, n)) <= n /\ Range(LastOf(s, n)) \subseteq Range(s)
<1> DEFINE len == Len(s)
           first == Max({1, len - n + 1})
<1>1. len \in Nat /\ 1 \in Int /\ len - n + 1 \in Int
  OBVIOUS
<1>2. first \in {1, len - n + 1} /\ 1 <= first /\ len - n + 1 <= first
  <2> HIDE DEF len
  <2> QED BY <1>1, MaxOfTwo
<1>3. LastOf(s, n) = SubSeq(s, first, len)
  BY DEF LastOf
<1> HIDE DEF first
<1>4. first \in 1..(len + 1) /\ len - first + 1 <= n /\ len - first + 1 \in Nat
  <2> HIDE DEF len
  <2> QED BY <1>1, <1>2
<1>5. /\ LastOf(s, n) \in Seq(T) /\ Len(LastOf(s, n)) = len - first + 1
      /\ \A i \in 1..(len - first + 1) : LastOf(s, n)[i] = s[first + i - 1]
  BY <1>3, <1>4
<1>6. \A i \in 1..(len - first + 1) : first + i - 1 \in 1..len
  <2> HIDE DEF len
  <2> QED BY <1>1, <1>4
<1>7. Range(LastOf(s, n)) \subseteq Range(s)
  <2>1. DOMAIN LastOf(s, n) = 1..(len - first + 1) /\ DOMAIN s = 1..len
    BY <1>5
  <2> QED BY <2>1, <1>5, <1>6 DEF Range
<1> QED BY <1>4, <1>5, <1>7

(* What is saved are old ids and ids of this run that are READY.           *)
LEMMA SavedSound ==
  ASSUME IInv
  PROVE  /\ Saved \in [seen : Seq(Disclosures), latest : Nat]
         /\ Len(Saved.seen) <= SeenCap /\ Saved.latest <= now
         /\ \A d \in Range(Saved.seen) : status[d] = "READY"
         /\ Saved.latest # checkpoint.latest => Saved.latest = watermark /\ \A d \in Work : status[d] = "READY"
<1>1. Typed /\ Clocked /\ SeenAreReady /\ InHandTaken
  BY DEF IInv
<1> DEFINE kept == Keep(staged, {d \in Work : Eligible(d)})
           all == checkpoint.seen \o kept
<1>2. staged \in Seq(Disclosures) /\ checkpoint.seen \in Seq(Disclosures)
  BY <1>1 DEF Typed, MemoryTyped, SynapseTyped
<1>3. kept \in Seq(Disclosures) /\ Range(kept) \subseteq eligible
  <2>1. kept \in Seq(Disclosures) /\ Range(kept) = Range(staged) \cap {d \in Work : Eligible(d)}
    BY <1>2, KeepsAll
  <2> QED BY <2>1 DEF Eligible
<1> HIDE DEF kept
<1>4. all \in Seq(Disclosures) /\ Range(all) \subseteq Range(checkpoint.seen) \cup Range(kept)
  <2>1. /\ all \in Seq(Disclosures) /\ Len(all) = Len(checkpoint.seen) + Len(kept)
        /\ \A i \in 1..Len(checkpoint.seen) : all[i] = checkpoint.seen[i]
        /\ \A i \in (Len(checkpoint.seen) + 1)..(Len(checkpoint.seen) + Len(kept)) :
             all[i] = kept[i - Len(checkpoint.seen)]
    BY <1>2, <1>3, Concatenated
  <2>2. /\ DOMAIN checkpoint.seen = 1..Len(checkpoint.seen) /\ DOMAIN kept = 1..Len(kept)
        /\ Len(checkpoint.seen) \in Nat /\ Len(kept) \in Nat
    BY <1>2, <1>3
  <2> HIDE DEF all
  <2>3. DOMAIN all = 1..(Len(checkpoint.seen) + Len(kept))
    BY <2>1
  <2>4. ASSUME NEW i \in DOMAIN all
        PROVE  all[i] \in Range(checkpoint.seen) \cup Range(kept)
    <3>1. CASE i \in 1..Len(checkpoint.seen)
      BY <3>1, <2>1, <2>2 DEF Range
    <3>2. CASE i \in (Len(checkpoint.seen) + 1)..(Len(checkpoint.seen) + Len(kept))
      <4>1. i - Len(checkpoint.seen) \in DOMAIN kept
        BY <2>2, <3>2
      <4> QED BY <4>1, <3>2, <2>1 DEF Range
    <3> QED BY <2>2, <2>3, <3>1, <3>2
  <2> QED BY <2>1, <2>4 DEF Range
<1>5. Saved = [seen |-> LastOf(all, SeenCap),
               latest |-> IF \A d \in Work : Eligible(d) THEN watermark ELSE checkpoint.latest]
  BY DEF Saved, kept
<1> HIDE DEF all
<1>6. /\ LastOf(all, SeenCap) \in Seq(Disclosures) /\ Len(LastOf(all, SeenCap)) <= SeenCap
      /\ Range(LastOf(all, SeenCap)) \subseteq Range(checkpoint.seen) \cup Range(kept)
  <2>1. SeenCap \in Nat \ {0}
    BY CollectionAssumption
  <2>2. /\ LastOf(all, SeenCap) \in Seq(Disclosures) /\ Len(LastOf(all, SeenCap)) <= SeenCap
        /\ Range(LastOf(all, SeenCap)) \subseteq Range(all)
    BY <2>1, <1>4, LastOnes
  <2> QED BY <2>2, <1>4
<1>7. /\ watermark \in Nat /\ watermark <= now
      /\ checkpoint.latest \in Nat /\ checkpoint.latest <= now
  BY <1>1 DEF Typed, MemoryTyped, SynapseTyped, Clocked
<1>8. \A d \in Range(checkpoint.seen) \cup Range(kept) : status[d] = "READY"
  BY <1>1, <1>3 DEF SeenAreReady, Seen, InHandTaken
<1>9. (\A d \in Work : Eligible(d)) => \A d \in Work : status[d] = "READY"
  BY <1>1 DEF Eligible, InHandTaken
<1> QED BY <1>5, <1>6, <1>7, <1>8, <1>9

LEMMA CommitStateStep ==
  ASSUME IInv, NEW reply \in Replies, NEW refused \in BOOLEAN, CommitState(reply, refused)
  PROVE  IInv'
<1>1. Typed /\ Clocked /\ NothingReset /\ OnlyLatestRuns
  BY DEF IInv
<1>2. /\ Exit /\ UNCHANGED <<now, announced, status, commits, runs, unconfirmed>>
      /\ checkpoint' = checkpoint \/ checkpoint' = Saved
  BY DEF CommitState, world
<1>3. CASE checkpoint' = checkpoint
  BY <1>1, <1>2, <1>3, RowsUnchanged, RunEndsSameRows DEF world
<1>4. CASE checkpoint' = Saved
  <2>1. /\ MemoryTyped' /\ MemoryFresh' /\ InHandTaken' /\ Resolved' /\ LatestChecked' /\ BacklogServed'
        /\ pc' = "idle" /\ window'.to = 0 /\ watermark' = 0
    BY <1>2, ExitClears
  <2>2. /\ checkpoint' \in [seen : Seq(Disclosures), latest : Nat]
        /\ Len(checkpoint'.seen) <= SeenCap /\ checkpoint'.latest <= now
        /\ \A d \in Range(checkpoint'.seen) : status[d] = "READY"
    BY <1>4, SavedSound
  <2>3. WorldTyped' /\ SynapseTyped'
    BY <1>1, <1>2, <2>2 DEF Typed, WorldTyped, SynapseTyped
  <2>4. Clocked'
    <3>1. now \in Nat
      BY <1>1, CollectionAssumption DEF Typed, WorldTyped
    <3> QED BY <1>1, <1>2, <2>1, <2>2, <3>1 DEF Clocked
  <2>5. SeenAreReady'
    BY <1>2, <2>2 DEF SeenAreReady, Seen
  <2>6. NothingReset' /\ OnlyLatestRuns'
    BY <1>1, <1>2, <2>1 DEF NothingReset, Taken, OnlyLatestRuns, Registered
  <2> QED BY <2>1, <2>3, <2>4, <2>5, <2>6 DEF IInv, Typed
<1> QED BY <1>2, <1>3, <1>4

-----------------------------------------------------------------------------
(* The theorems.                                                           *)

LEMMA InitHolds == Init => IInv
<1> SUFFICES ASSUME Init
             PROVE  IInv
  OBVIOUS
<1>1. /\ now = 1 /\ announced = [d \in Disclosures |-> IF d \in PassedOver THEN PassedAt[d] ELSE 0]
      /\ status = [d \in Disclosures |-> "absent"] /\ commits = [d \in Disclosures |-> 0]
      /\ runs = <<>> /\ checkpoint = [seen |-> <<>>, latest |-> 0] /\ pc = "idle"
      /\ window = [from |-> 0, to |-> 0] /\ staged = <<>> /\ watermark = 0
      /\ ready = {} /\ eligible = {} /\ next = 1 /\ missing = {} /\ unconfirmed = {}
  BY DEF Init
<1>2. SeenCap \in Nat /\ MaxNow \in Nat /\ \A d \in PassedOver : PassedAt[d] \in Nat
  BY CollectionAssumption DEF PassedOver
<1>3. WorldTyped /\ SynapseTyped /\ MemoryTyped
  BY <1>1, <1>2 DEF WorldTyped, SynapseTyped, MemoryTyped, Early
<1>4. Clocked
  <2>1. \A d \in Disclosures : announced[d] <= now \/ (d \in PassedOver /\ announced[d] = PassedAt[d])
    BY <1>1
  <2> QED BY <1>1, <1>2, <2>1 DEF Clocked
<1>5. Work = {} /\ Seen = {} /\ Registered = {}
  BY <1>1 DEF Work, Seen, Registered, Range
<1>6. SeenAreReady /\ MemoryFresh /\ InHandTaken /\ NothingReset
  BY <1>1, <1>5 DEF SeenAreReady, MemoryFresh, InHandTaken, NothingReset, Early, Taken
<1>7. Resolved /\ LatestChecked /\ OnlyLatestRuns /\ BacklogServed
  BY <1>1, <1>5 DEF Resolved, LatestChecked, OnlyLatestRuns, BacklogServed, Early
<1> QED BY <1>3, <1>4, <1>6, <1>7 DEF IInv, Typed

LEMMA StutteringHolds ==
  ASSUME IInv, UNCHANGED vars
  PROVE  IInv'
<1>1. UNCHANGED <<now, announced, status, commits, runs, checkpoint, pc, window, staged, watermark, ready,
                  eligible, next, missing, deferred, unconfirmed>>
  BY DEF vars, world, synapse, memory
<1>2. Typed' /\ Clocked'
  BY <1>1 DEF IInv, Typed, WorldTyped, SynapseTyped, MemoryTyped, Clocked
<1>3. SeenAreReady' /\ MemoryFresh' /\ InHandTaken' /\ NothingReset'
  BY <1>1 DEF IInv, SeenAreReady, MemoryFresh, InHandTaken, NothingReset, Seen, Work, InHand
<1>4. Resolved' /\ BacklogServed'
  BY <1>1 DEF IInv, Resolved, BacklogServed, Seen, Work, Listed, Candidates
<1>5. LatestChecked' /\ OnlyLatestRuns'
  BY <1>1 DEF IInv, LatestChecked, OnlyLatestRuns, Registered, IsLatest
<1> QED BY <1>2, <1>3, <1>4, <1>5 DEF IInv

LEMMA NextHolds == IInv /\ [Next]_vars => IInv'
<1> SUFFICES ASSUME IInv, [Next]_vars
             PROVE  IInv'
  OBVIOUS
<1>1. CASE Tick
  BY <1>1, TickStep
<1>2. CASE \E d \in Disclosures : Announce(d)
  BY <1>2, AnnounceStep
<1>3. CASE Begin
  BY <1>3, BeginStep
<1>4. CASE Collect
  BY <1>4, CollectStep
<1>5. CASE CollectFails
  BY <1>5, CollectFailsStep
<1>6. CASE SkipReady
  BY <1>6, SkipReadyStep
<1>7. CASE Defer
  BY <1>7, DeferStep
<1>8. CASE \E cause \in {"error", "deadline", "rate"} : WorkFails(cause)
  BY <1>8, WorkFailsStep
<1>9. CASE Crash
  BY <1>9, CrashStep
<1>10. CASE UNCHANGED vars
  BY <1>10, StutteringHolds
<1>11. ASSUME NEW reply \in Replies, Step(reply)
       PROVE  IInv'
  <2>1. CASE RecoverStale(reply)
    BY <2>1, RecoverStaleStep
  <2>2. CASE CreateRun(reply)
    BY <2>2, CreateRunStep
  <2>3. CASE RegisterRun(reply)
    BY <2>3, RegisterRunStep
  <2>4. CASE UpsertDisclosures(reply)
    BY <2>4, UpsertStep
  <2>5. CASE StartExtraction(reply)
    BY <2>5, StartExtractionStep
  <2>6. CASE StartAnalysis(reply)
    BY <2>6, StartAnalysisStep
  <2>7. CASE CommitAnalysis(reply)
    BY <2>7, CommitAnalysisStep
  <2>8. CASE MarkPartial(reply)
    BY <2>8, MarkPartialStep
  <2>9. CASE \E late \in BOOLEAN : CloseRun(reply, late)
    BY <2>9, CloseRunStep
  <2>10. CASE \E refused \in BOOLEAN : CommitState(reply, refused)
    BY <2>10, CommitStateStep
  <2> QED BY <1>11, <2>1, <2>2, <2>3, <2>4, <2>5, <2>6, <2>7, <2>8, <2>9, <2>10 DEF Step
<1> QED BY <1>1, <1>2, <1>3, <1>4, <1>5, <1>6, <1>7, <1>8, <1>9, <1>10, <1>11 DEF Next

(* The invariant holds in every reachable state of every instance.         *)
THEOREM Invariance == Spec => []IInv
<1>1. Init => IInv
  BY InitHolds
<1>2. IInv /\ [Next]_vars => IInv'
  BY NextHolds
<1> QED BY <1>1, <1>2, PTL DEF Spec

LEMMA InvariantTypes == IInv => TypeOK
<1> SUFFICES ASSUME IInv
             PROVE  TypeOK
  OBVIOUS
<1>1. Typed /\ Clocked
  BY DEF IInv
<1>2. now \in 1..MaxNow \cup {1} /\ now \in Nat
  BY <1>1, CollectionAssumption DEF Typed, WorldTyped
<1>3. \A d \in Disclosures : announced[d] \in 0..now \/ (d \in PassedOver /\ announced[d] = PassedAt[d])
  BY <1>1, <1>2 DEF Typed, WorldTyped, Clocked
<1>4. \A i \in DOMAIN runs : runs[i].status \in {"RUNNING", "PARTIAL", "FAILED"} /\ runs[i].started \in 1..now
  BY <1>1, RowsTyped DEF Clocked, Rows
<1>5. Seen \cup Work \cup ready \cup eligible \cup unconfirmed \cup missing \subseteq Disclosures
  BY <1>1 DEF Typed, SynapseTyped, MemoryTyped, Seen, Work, Range
<1>6. checkpoint.latest \in 0..now /\ watermark \in 0..now
  BY <1>1, <1>2 DEF Typed, SynapseTyped, MemoryTyped, Clocked
<1> QED BY <1>1, <1>2, <1>3, <1>4, <1>5, <1>6 DEF TypeOK, Typed, SynapseTyped, MemoryTyped, Clocked

(* Whatever the checkpoint says was seen is READY in Synapse, through      *)
(* every crash, lost reply, partial run and forgotten id: durable_-        *)
(* checkpoint.py keeps analysed ids only and nothing READY is reset.       *)
THEOREM SeenIsReady == Spec => []SeenAreReady
<1>1. IInv => SeenAreReady
  BY DEF IInv
<1> QED BY <1>1, Invariance, PTL

(* A second analysis of a disclosure means that the reply to its first     *)
(* commit was lost: run_window skips what the upsert reports READY and     *)
(* collect_window stages nothing twice.                                    *)
THEOREM AnalysesAreOnce == Spec => []AnalysedOnce
<1>1. IInv => AnalysedOnce
  <2>1. IInv => \A d \in Disclosures \ unconfirmed : commits[d] > 0 => commits[d] = 1
    BY DEF IInv, NothingReset
  <2>2. IInv => \A d \in Disclosures : commits[d] \in Nat
    BY DEF IInv, Typed, SynapseTyped
  <2> QED BY <2>1, <2>2 DEF AnalysedOnce
<1> QED BY <1>1, Invariance, PTL

(* No registered run stays RUNNING behind a later one, unless that one     *)
(* started before the stale age: _recover_stale_source_run closes it.      *)
THEOREM DeadRunsAreClosed == Spec => []DeadRunsClosed
<1>1. IInv => DeadRunsClosed
  BY InvariantTypes DEF IInv, OnlyLatestRuns, DeadRunsClosed
<1> QED BY <1>1, Invariance, PTL

(* A run that its budget cut short after more than the newest few has      *)
(* served the oldest candidate, through _prioritize_candidates.            *)
THEOREM OldestIsServed == Spec => []BacklogServed
<1>1. IInv => BacklogServed
  BY DEF IInv
<1> QED BY <1>1, Invariance, PTL

(* Only the save at the end of a run changes the checkpoint.               *)
LEMMA CheckpointStep ==
  ASSUME Next, checkpoint' # checkpoint
  PROVE  pc = "checkpointing" /\ checkpoint' = Saved
<1>1. ~Tick /\ (\A d \in Disclosures : ~Announce(d)) /\ ~Begin /\ ~Collect /\ ~CollectFails
  BY DEF Tick, Announce, Begin, Collect, CollectFails, synapse
<1>2. ~SkipReady /\ ~Defer /\ ~Crash /\ \A cause \in {"error", "deadline", "rate"} : ~WorkFails(cause)
  BY DEF SkipReady, Defer, Crash, WorkFails, synapse
<1>3. PICK reply \in Replies : Step(reply)
  BY <1>1, <1>2 DEF Next
<1>4. ~RecoverStale(reply) /\ ~CreateRun(reply) /\ ~RegisterRun(reply) /\ ~UpsertDisclosures(reply)
  BY DEF RecoverStale, CreateRun, RegisterRun, UpsertDisclosures
<1>5. ~StartExtraction(reply) /\ ~StartAnalysis(reply) /\ ~CommitAnalysis(reply) /\ ~MarkPartial(reply)
  BY DEF StartExtraction, StartAnalysis, CommitAnalysis, MarkPartial
<1>6. \A late \in BOOLEAN : ~CloseRun(reply, late)
  BY DEF CloseRun
<1>7. PICK refused \in BOOLEAN : CommitState(reply, refused)
  BY <1>3, <1>4, <1>5, <1>6 DEF Step
<1> QED BY <1>7 DEF CommitState

(* The watermark of the checkpoint moves only past rows that are READY,    *)
(* passed over for good (out of scope, or nothing selected by the policy)  *)
(* or without an attachment of theirs, whatever the order of the           *)
(* candidates and the place where the request budget cut it.               *)
THEOREM WatermarkIsResolved == Spec => WatermarkResolved
<1>1. ASSUME IInv, [Next]_vars
      PROVE  [checkpoint'.latest # checkpoint.latest =>
                \A d \in Listed : d \in PassedOver \cup missing \/ status[d] = "READY"]_vars
  <2> SUFFICES ASSUME Next, checkpoint'.latest # checkpoint.latest
               PROVE  \A d \in Listed : d \in PassedOver \cup missing \/ status[d] = "READY"
    BY <1>1
  <2>1. pc = "checkpointing" /\ checkpoint' = Saved
    BY CheckpointStep
  <2>2. Saved.latest = watermark /\ watermark # checkpoint.latest /\ \A d \in Work : status[d] = "READY"
    BY <1>1, <2>1, SavedSound
  <2>3. Listed \subseteq Seen \cup Work \cup PassedOver \cup missing
    BY <1>1, <2>1, <2>2 DEF IInv, Resolved, Early
  <2>4. \A d \in Seen : status[d] = "READY"
    BY <1>1 DEF IInv, SeenAreReady
  <2> QED BY <2>2, <2>3, <2>4
<1> QED BY <1>1, Invariance, PTL DEF Spec, WatermarkResolved
=============================================================================
