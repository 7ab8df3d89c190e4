------------------------- MODULE LLMScheduler_proofs -------------------------
(***************************************************************************)
(* For any finite set of jobs, any stages, groups and tickers, any hooks   *)
(* that submit further jobs, order of submission, number of workers and    *)
(* caps: the global LLM scheduler's counters and nested queues are the     *)
(* jobs they stand for, no worker idles beside a job it may run, no lane   *)
(* waits longer than the weights say, and the scheduler is a job pool.     *)
(*                                                                         *)
(* IInv is the inductive invariant.  Stacked is what keeps a completion    *)
(* that runs inside a dispatch from ending that dispatch.                  *)
(***************************************************************************)
EXTENDS LLMSchedulerFairness, FiniteSetTheorems, WellFoundedInduction, TLAPS

Frames == {Loop} \cup {Register(j) : j \in Jobs} \cup {Inline(j) : j \in Jobs}

(* At the bottom of the lock owner's stack is a dispatch loop.             *)
Stacked == stack \in Seq(Frames) /\ (stack # <<>> => stack[1] = Loop)

(* What the main thread has to submit no hook submits.                     *)
Arriving ==
  /\ arrivals \in Seq(Jobs) /\ IsInjective(arrivals)
  /\ \A i \in 1..Len(arrivals) : phase[arrivals[i]] = "new"
  /\ \A j \in Jobs : FollowUp[j] \cap ToSet(arrivals) = {}

Finished ==
  /\ main # "submitting" => arrivals = <<>>
  /\ main \in {"drained", "closed"} => InPhase({"queued", "active", "ended", "callback"}) = {}

QueuedOf(g) == {j \in InPhase({"queued"}) : GroupOf[j] = g}
GroupCounted(g) == {j \in Counted : GroupOf[j] = g}
TickerCounted(t) == {j \in Counted : TickerOf[j] = t}

CountsExact ==
  /\ activeTotal = Cardinality(Counted)
  /\ \A g \in Groups : activeByGroup[g] = Cardinality(GroupCounted(g))
  /\ \A t \in Tickers : activeByTicker[t] = Cardinality(TickerCounted(t))
  /\ callbacksInflight = Cardinality(InPhase({"callback"}))

QueuesExact ==
  /\ IsInjective(tickerOrder)
  /\ \A t \in Tickers :
       /\ IsInjective(groupOrder[t])
       /\ ToSet(groupOrder[t]) = {g \in Groups : TickerOfGroup[g] = t /\ queue[g] # <<>>}
       /\ t \in ToSet(tickerOrder) <=> groupOrder[t] # <<>>
  /\ \A g \in Groups : IsInjective(queue[g]) /\ ToSet(queue[g]) = QueuedOf(g)

IInv == TypeOK /\ Stacked /\ Arriving /\ Finished /\ CountsExact /\ QueuesExact /\ WorkConserving

-----------------------------------------------------------------------------
(* Numbers and sequences.                                                  *)

LEMMA LeastElement ==
  ASSUME NEW S \in SUBSET Nat, S # {}
  PROVE  Min(S) \in S /\ \A y \in S : Min(S) <= y
<1> DEFINE R == OpToRel(<, Nat)
<1>1. \E x \in S : \A y \in S : ~ (<<y, x>> \in R)
  BY WFMin, NatLessThanWellFounded
<1>2. \A x, y \in Nat : y < x => <<y, x>> \in R
  BY DEF OpToRel
<1> HIDE DEF R
<1>3. \A x, y \in Nat : ~ (y < x) => x <= y
  OBVIOUS
<1>4. \E x \in S : \A y \in S : x <= y
  BY <1>1, <1>2, <1>3
<1> QED BY <1>4 DEF Min

LEMMA Concatenation ==
  ASSUME NEW S, NEW a \in Seq(S), NEW b \in Seq(S)
  PROVE  /\ a \o b \in Seq(S) /\ Len(a \o b) = Len(a) + Len(b)
         /\ \A k \in 1..(Len(a) + Len(b)) : (a \o b)[k] = IF k <= Len(a) THEN a[k] ELSE b[k - Len(a)]
OBVIOUS

LEMMA Rotation ==
  ASSUME NEW S, NEW s \in Seq(S), NEW i \in 1..Len(s)
  PROVE  /\ Rotated(s, i) \in Seq(S) /\ Len(Rotated(s, i)) = Len(s)
         /\ \A k \in 1..Len(s) : Rotated(s, i)[k] = IF k <= Len(s) - i THEN s[k + i] ELSE s[k - (Len(s) - i)]
<1> DEFINE n == Len(s)
           a == SubSeq(s, i + 1, n)
           b == SubSeq(s, 1, i)
<1>1. n \in Nat /\ i \in Nat /\ 1 <= i /\ i <= n
  OBVIOUS
<1>2. a \in Seq(S) /\ Len(a) = n - i /\ \A k \in 1..(n - i) : a[k] = s[k + i]
  BY <1>1
<1>3. b \in Seq(S) /\ Len(b) = i /\ \A k \in 1..i : b[k] = s[k]
  BY <1>1
<1>4. Rotated(s, i) = a \o b
  BY DEF Rotated
<1> HIDE DEF a, b, n
<1>5. Len(a) + Len(b) = n
  BY <1>1, <1>2, <1>3
<1>6. /\ a \o b \in Seq(S) /\ Len(a \o b) = n
      /\ \A k \in 1..n : (a \o b)[k] = IF k <= n - i THEN a[k] ELSE b[k - (n - i)]
  BY <1>2, <1>3, <1>5, Concatenation
<1>7. \A k \in 1..n : ~(k <= n - i) => k - (n - i) \in 1..i
  BY <1>1
<1>8. \A k \in 1..n : k <= n - i => k \in 1..(n - i)
  BY <1>1
<1>9. \A k \in 1..n : Rotated(s, i)[k] = IF k <= n - i THEN s[k + i] ELSE s[k - (n - i)]
  BY <1>2, <1>3, <1>4, <1>6, <1>7, <1>8
<1> QED BY <1>4, <1>6, <1>9 DEF n

(* A queue without its first element.                                      *)
LEMMA Popped ==
  ASSUME NEW S, NEW q \in Seq(S), q # <<>>, IsInjective(q)
  PROVE  /\ Head(q) \in S /\ Tail(q) \in Seq(S) /\ Len(Tail(q)) = Len(q) - 1
         /\ IsInjective(Tail(q))
         /\ ToSet(Tail(q)) = ToSet(q) \ {Head(q)} /\ Head(q) \in ToSet(q)
<1>1. Len(q) \in Nat /\ Len(q) >= 1 /\ DOMAIN q = 1..Len(q) /\ Head(q) = q[1] /\ q[1] \in S
  OBVIOUS
<1>2. /\ Tail(q) \in Seq(S) /\ Len(Tail(q)) = Len(q) - 1 /\ DOMAIN Tail(q) = 1..(Len(q) - 1)
      /\ \A i \in 1..(Len(q) - 1) : Tail(q)[i] = q[i + 1]
  BY <1>1
<1>3. \A a, b \in 1..Len(q) : q[a] = q[b] => a = b
  BY <1>1 DEF IsInjective
<1>4. IsInjective(Tail(q))
  <2> SUFFICES ASSUME NEW a \in 1..(Len(q) - 1), NEW b \in 1..(Len(q) - 1), q[a + 1] = q[b + 1]
               PROVE  a = b
    BY <1>2 DEF IsInjective
  <2>1. a + 1 \in 1..Len(q) /\ b + 1 \in 1..Len(q)
    BY <1>1
  <2> QED BY <1>3, <2>1
<1>5. ToSet(Tail(q)) = {q[i] : i \in 2..Len(q)}
  <2>1. \A i \in 1..(Len(q) - 1) : i + 1 \in 2..Len(q)
    BY <1>1
  <2>2. \A i \in 2..Len(q) : i - 1 \in 1..(Len(q) - 1) /\ (i - 1) + 1 = i
    BY <1>1
  <2>3. ToSet(Tail(q)) = {q[i + 1] : i \in 1..(Len(q) - 1)}
    BY <1>2 DEF ToSet
  <2>4. {q[i + 1] : i \in 1..(Len(q) - 1)} \subseteq {q[i] : i \in 2..Len(q)}
    BY <2>1
  <2>5. {q[i] : i \in 2..Len(q)} \subseteq {q[i + 1] : i \in 1..(Len(q) - 1)}
    BY <2>2
  <2> QED BY <2>3, <2>4, <2>5
<1>6. ToSet(q) = {q[i] : i \in 2..Len(q)} \cup {q[1]} /\ q[1] \notin {q[i] : i \in 2..Len(q)}
  <2>1. \A i \in 1..Len(q) : i = 1 \/ i \in 2..Len(q)
    BY <1>1
  <2>2. \A i \in 2..Len(q) : i \in 1..Len(q) /\ i # 1
    BY <1>1
  <2> QED BY <1>1, <1>3, <2>1, <2>2 DEF ToSet
<1> QED BY <1>1, <1>2, <1>4, <1>5, <1>6

(* An element put at the end of a sequence that has it not.                *)
LEMMA Appended ==
  ASSUME NEW S, NEW q \in Seq(S), IsInjective(q), NEW e \in S, e \notin ToSet(q)
  PROVE  /\ Append(q, e) \in Seq(S) /\ IsInjective(Append(q, e)) /\ Append(q, e) # <<>>
         /\ ToSet(Append(q, e)) = ToSet(q) \cup {e}
<1>1. /\ Len(q) \in Nat /\ DOMAIN q = 1..Len(q)
      /\ Append(q, e) \in Seq(S) /\ DOMAIN Append(q, e) = 1..(Len(q) + 1) /\ Len(Append(q, e)) = Len(q) + 1
      /\ \A i \in 1..Len(q) : Append(q, e)[i] = q[i]
      /\ Append(q, e)[Len(q) + 1] = e
  OBVIOUS
<1>2. \A i \in 1..(Len(q) + 1) : i \in 1..Len(q) \/ i = Len(q) + 1
  BY <1>1
<1>3. \A i \in 1..Len(q) : q[i] # e
  BY <1>1 DEF ToSet
<1>4. \A i \in 1..Len(q) : i \in 1..(Len(q) + 1)
  BY <1>1
<1>5. \A a, b \in 1..Len(q) : q[a] = q[b] => a = b
  BY <1>1 DEF IsInjective
<1>6. IsInjective(Append(q, e))
  <2> SUFFICES ASSUME NEW a \in 1..(Len(q) + 1), NEW b \in 1..(Len(q) + 1), Append(q, e)[a] = Append(q, e)[b]
               PROVE  a = b
    BY <1>1 DEF IsInjective
  <2> QED BY <1>1, <1>2, <1>3, <1>5
<1>7. ToSet(Append(q, e)) = ToSet(q) \cup {e}
  <2>1. ToSet(Append(q, e)) \subseteq ToSet(q) \cup {e}
    BY <1>1, <1>2 DEF ToSet
  <2>2. ToSet(q) \subseteq ToSet(Append(q, e))
    BY <1>1, <1>4 DEF ToSet
  <2>3. e \in ToSet(Append(q, e))
    <3>1. Len(q) + 1 \in 1..(Len(q) + 1)
      BY <1>1
    <3> QED BY <1>1, <3>1 DEF ToSet
  <2> QED BY <2>1, <2>2, <2>3
<1>8. Append(q, e) # <<>>
  BY <1>1
<1> QED BY <1>1, <1>6, <1>7, <1>8

LEMMA Prefix ==
  ASSUME NEW S, NEW s \in Seq(S), NEW n \in Nat, n <= Len(s)
  PROVE  SubSeq(s, 1, n) \in Seq(S) /\ Len(SubSeq(s, 1, n)) = n /\ \A i \in 1..n : SubSeq(s, 1, n)[i] = s[i]
OBVIOUS

LEMMA WithoutLast ==
  ASSUME NEW S, NEW s \in Seq(S), s # <<>>
  PROVE  /\ Front(s) \in Seq(S) /\ Len(Front(s)) = Len(s) - 1 /\ Len(s) \in Nat \ {0}
         /\ \A i \in 1..(Len(s) - 1) : Front(s)[i] = s[i]
         /\ Last(s) = s[Len(s)] /\ Last(s) \in S
<1>1. Len(s) \in Nat /\ Len(s) >= 1
  OBVIOUS
<1>2. Len(s) - 1 \in Nat /\ Len(s) - 1 <= Len(s) /\ Len(s) \in 1..Len(s)
  BY <1>1
<1>3. /\ SubSeq(s, 1, Len(s) - 1) \in Seq(S) /\ Len(SubSeq(s, 1, Len(s) - 1)) = Len(s) - 1
      /\ \A i \in 1..(Len(s) - 1) : SubSeq(s, 1, Len(s) - 1)[i] = s[i]
  BY <1>2, Prefix
<1> QED BY <1>1, <1>2, <1>3 DEF Front, Last

(* What a search leaves: the same keys, the one found behind the rest.     *)
LEMMA Turned ==
  ASSUME NEW S, NEW s \in Seq(S), IsInjective(s), NEW r \in 1..Len(s)
  PROVE  LET turned == Rotated(s, r) IN
         /\ turned \in Seq(S) /\ IsInjective(turned) /\ ToSet(turned) = ToSet(s)
         /\ turned # <<>> /\ Last(turned) = s[r]
<1> DEFINE n == Len(s)
           turned == Rotated(s, r)
           Old(k) == IF k <= n - r THEN k + r ELSE k - (n - r)
<1>1. /\ turned \in Seq(S) /\ Len(turned) = n
      /\ \A k \in 1..n : turned[k] = IF k <= n - r THEN s[k + r] ELSE s[k - (n - r)]
  BY Rotation
<1>2. n \in Nat /\ r \in Nat /\ 1 <= r /\ r <= n /\ DOMAIN s = 1..n
  OBVIOUS
<1> HIDE DEF n, turned
<1>3. DOMAIN turned = 1..n
  BY <1>1
<1>4. \A k \in 1..n : Old(k) \in 1..n /\ turned[k] = s[Old(k)]
  BY <1>1, <1>2
<1>5. \A k, m \in 1..n : Old(k) = Old(m) => k = m
  BY <1>2
<1>6. \A k \in 1..n : \E m \in 1..n : Old(m) = k
  <2> SUFFICES ASSUME NEW k \in 1..n PROVE \E m \in 1..n : Old(m) = k
    OBVIOUS
  <2>1. CASE k > r
    <3>1. k - r \in 1..n /\ Old(k - r) = k
      BY <1>2, <2>1
    <3> QED BY <3>1
  <2>2. CASE k <= r
    <3>1. k + (n - r) \in 1..n /\ Old(k + (n - r)) = k
      BY <1>2, <2>2
    <3> QED BY <3>1
  <2> QED BY <1>2, <2>1, <2>2
<1>7. \A a, b \in 1..n : s[a] = s[b] => a = b
  BY <1>2 DEF IsInjective
<1>8. Old(n) = r /\ n \in 1..n
  BY <1>2
<1> HIDE DEF Old
<1>9. IsInjective(turned)
  BY <1>3, <1>4, <1>5, <1>7 DEF IsInjective
<1>10. ToSet(turned) = ToSet(s)
  <2>1. ToSet(turned) \subseteq ToSet(s)
    BY <1>2, <1>3, <1>4 DEF ToSet
  <2>2. ToSet(s) \subseteq ToSet(turned)
    <3> SUFFICES ASSUME NEW k \in 1..n PROVE s[k] \in ToSet(turned)
      BY <1>2 DEF ToSet
    <3>1. PICK m \in 1..n : Old(m) = k
      BY <1>6
    <3> QED BY <1>3, <1>4, <3>1 DEF ToSet
  <2> QED BY <2>1, <2>2
<1>11. turned # <<>> /\ Last(turned) = s[r]
  BY <1>1, <1>2, <1>4, <1>8 DEF Last
<1> QED BY <1>1, <1>9, <1>10, <1>11 DEF n, turned

(* ... and without that one, when its queue is empty.                      *)
LEMMA Shortened ==
  ASSUME NEW S, NEW s \in Seq(S), IsInjective(s), s # <<>>
  PROVE  /\ Front(s) \in Seq(S) /\ IsInjective(Front(s)) /\ ToSet(Front(s)) = ToSet(s) \ {Last(s)}
<1> DEFINE n == Len(s)
<1>1. /\ Front(s) \in Seq(S) /\ Len(Front(s)) = n - 1 /\ n \in Nat \ {0}
      /\ \A i \in 1..(n - 1) : Front(s)[i] = s[i]
      /\ Last(s) = s[n]
  BY WithoutLast
<1>2. DOMAIN s = 1..n /\ DOMAIN Front(s) = 1..(n - 1)
  BY <1>1
<1>3. \A a, b \in 1..n : s[a] = s[b] => a = b
  BY <1>2 DEF IsInjective
<1> HIDE DEF n
<1>4. \A i \in 1..(n - 1) : i \in 1..n /\ i # n
  BY <1>1
<1>5. \A i \in 1..n : i = n \/ i \in 1..(n - 1)
  BY <1>1
<1>6. IsInjective(Front(s))
  BY <1>1, <1>2, <1>3, <1>4 DEF IsInjective
<1>7. ToSet(Front(s)) \subseteq ToSet(s) \ {Last(s)}
  <2>1. n \in 1..n
    BY <1>1
  <2> QED BY <1>1, <1>2, <1>3, <1>4, <2>1 DEF ToSet
<1>8. ToSet(s) \ {Last(s)} \subseteq ToSet(Front(s))
  BY <1>1, <1>2, <1>5 DEF ToSet
<1> QED BY <1>1, <1>6, <1>7, <1>8

-----------------------------------------------------------------------------
(* Counting jobs.                                                          *)

LEMMA JobsCounted ==
  ASSUME NEW S \in SUBSET Jobs
  PROVE  IsFiniteSet(S) /\ Cardinality(S) \in Nat /\ (Cardinality(S) = 0 <=> S = {})
BY SchedulerAssumption, FS_Subset, FS_CardinalityType, FS_EmptySet

LEMMA Joins ==
  ASSUME NEW S \in SUBSET Jobs, NEW j \in Jobs, j \notin S
  PROVE  Cardinality(S \cup {j}) = Cardinality(S) + 1
BY JobsCounted, FS_AddElement

LEMMA Leaves ==
  ASSUME NEW S \in SUBSET Jobs, NEW j \in S
  PROVE  Cardinality(S \ {j}) = Cardinality(S) - 1 /\ Cardinality(S) \in Nat \ {0}
<1>1. IsFiniteSet(S) /\ Cardinality(S) \in Nat /\ Cardinality(S) # 0
  BY JobsCounted
<1> QED BY <1>1, FS_RemoveElement

LEMMA Phases ==
  /\ \A S : InPhase(S) \in SUBSET Jobs
  /\ Counted \in SUBSET Jobs
  /\ \A x : GroupCounted(x) \in SUBSET Jobs /\ TickerCounted(x) \in SUBSET Jobs /\ QueuedOf(x) \in SUBSET Jobs
BY DEF InPhase, Counted, GroupCounted, TickerCounted, QueuedOf

LEMMA Owners ==
  /\ \A j \in Jobs : GroupOf[j] \in Groups /\ TickerOf[j] \in Tickers /\ TickerOfGroup[GroupOf[j]] = TickerOf[j]
  /\ \A g \in Groups : TickerOfGroup[g] \in Tickers
<1>1. \A j \in Jobs : GroupOf[j] \in Groups /\ TickerOf[j] \in Tickers /\ TickerOfGroup[GroupOf[j]] = TickerOf[j]
  BY SchedulerAssumption DEF Groups, Tickers
<1>2. \A g \in Groups : \E j \in Jobs : GroupOf[j] = g
  BY DEF Groups
<1> QED BY <1>1, <1>2

(* The frames of the lock's owner.                                         *)
LEMMA FrameTypes ==
  /\ \A j \in Jobs : Loop # Inline(j) /\ Loop # Register(j) /\ Inline(j) \in Frames /\ Register(j) \in Frames
  /\ Loop \in Frames
<1>1. Loop.kind = "loop" /\ \A j : Inline(j).kind = "callback" /\ Register(j).kind = "register"
  BY DEF Loop, Inline, Register
<1>2. Loop \in Frames /\ \A j \in Jobs : Inline(j) \in Frames /\ Register(j) \in Frames
  BY DEF Frames
<1> QED BY <1>1, <1>2

LEMMA Pushed ==
  ASSUME NEW s \in Seq(Frames), NEW f \in Frames, s # <<>> => s[1] = Loop, s = <<>> => f = Loop
  PROVE  Append(s, f) \in Seq(Frames) /\ Append(s, f) # <<>> /\ Append(s, f)[1] = Loop
<1>1. CASE s = <<>>
  BY <1>1
<1>2. CASE s # <<>>
  <2>1. Len(s) \in Nat /\ 1 <= Len(s) /\ 1 \in 1..Len(s)
    BY <1>2
  <2>2. \A i \in 1..Len(s) : Append(s, f)[i] = s[i]
    OBVIOUS
  <2> QED BY <1>2, <2>1, <2>2
<1> QED BY <1>1, <1>2

(* The frames under the top.                                               *)
LEMMA Below ==
  ASSUME Stacked, stack # <<>>
  PROVE  /\ Front(stack) \in Seq(Frames) /\ (Front(stack) # <<>> => Front(stack)[1] = Loop)
         /\ Last(stack) # Loop => Front(stack) # <<>>
<1>1. /\ Front(stack) \in Seq(Frames) /\ Len(Front(stack)) = Len(stack) - 1 /\ Len(stack) \in Nat \ {0}
      /\ \A i \in 1..(Len(stack) - 1) : Front(stack)[i] = stack[i]
      /\ Last(stack) = stack[Len(stack)]
  BY WithoutLast DEF Stacked
<1>2. Front(stack) # <<>> => 1 \in 1..(Len(stack) - 1)
  BY <1>1
<1>3. Last(stack) # Loop => Len(stack) # 1
  BY <1>1 DEF Stacked
<1>4. Front(stack) = <<>> => Len(stack) - 1 = 0
  BY <1>1
<1> QED BY <1>1, <1>2, <1>3, <1>4 DEF Stacked

-----------------------------------------------------------------------------
(* The workers.                                                            *)

Settling(j, p) ==
  /\ <<phase[j], p>> \in {<<"active", "ended">>, <<"ended", "callback">>, <<"callback", "done">>}
  /\ phase' = [phase EXCEPT ![j] = p]
  /\ activeTotal' = IF p = "callback" THEN activeTotal - 1 ELSE activeTotal
  /\ activeByGroup' = IF p = "callback" THEN [activeByGroup EXCEPT ![GroupOf[j]] = @ - 1] ELSE activeByGroup
  /\ activeByTicker' = IF p = "callback" THEN [activeByTicker EXCEPT ![TickerOf[j]] = @ - 1] ELSE activeByTicker
  /\ callbacksInflight' = IF p = "ended" THEN callbacksInflight
                          ELSE IF p = "callback" THEN callbacksInflight + 1 ELSE callbacksInflight - 1
  /\ UNCHANGED <<tickerOrder, groupOrder, queue, cursor, arrivals, main, rejected>>

(* A job that ends, is accounted for, or whose hook returns disturbs no    *)
(* queue, and its counters follow it.                                      *)
LEMMA Settles ==
  ASSUME TypeOK, Arriving, Finished, CountsExact, QueuesExact, NEW j \in Jobs, NEW p, Settling(j, p)
  PROVE  TypeOK' /\ Arriving' /\ Finished' /\ CountsExact' /\ QueuesExact'
<1> DEFINE h == GroupOf[j]
           t == TickerOf[j]
           called == InPhase({"callback"})
<1> USE DEF Settling
<1>1. \/ phase[j] = "active" /\ p = "ended"
      \/ phase[j] = "ended" /\ p = "callback"
      \/ phase[j] = "callback" /\ p = "done"
  OBVIOUS
<1>2. phase'[j] = p /\ \A k \in Jobs \ {j} : phase'[k] = phase[k]
  BY DEF TypeOK
<1>3. h \in Groups /\ t \in Tickers
  BY Owners
<1>4. /\ \A g : QueuedOf(g)' = QueuedOf(g)
      /\ Counted' = IF p = "callback" THEN Counted \ {j} ELSE Counted
      /\ called' = IF p = "callback" THEN called \cup {j} ELSE called \ {j}
      /\ \A g : GroupCounted(g)' = IF p = "callback" /\ g = h THEN GroupCounted(g) \ {j} ELSE GroupCounted(g)
      /\ \A u : TickerCounted(u)' = IF p = "callback" /\ u = t THEN TickerCounted(u) \ {j} ELSE TickerCounted(u)
  <2>1. \A g : QueuedOf(g)' = QueuedOf(g)
    BY <1>1, <1>2 DEF InPhase, QueuedOf
  <2>2. Counted' = IF p = "callback" THEN Counted \ {j} ELSE Counted
    BY <1>1, <1>2 DEF InPhase, Counted
  <2>3. called' = IF p = "callback" THEN called \cup {j} ELSE called \ {j}
    BY <1>1, <1>2 DEF InPhase
  <2>4. \A g : GroupCounted(g)' = IF p = "callback" /\ g = h THEN GroupCounted(g) \ {j} ELSE GroupCounted(g)
    BY <2>2 DEF GroupCounted
  <2>5. \A u : TickerCounted(u)' = IF p = "callback" /\ u = t THEN TickerCounted(u) \ {j} ELSE TickerCounted(u)
    BY <2>2 DEF TickerCounted
  <2> QED BY <2>1, <2>2, <2>3, <2>4, <2>5
<1>5. /\ p = "callback" => j \in Counted /\ j \in GroupCounted(h) /\ j \in TickerCounted(t) /\ j \notin called
      /\ p = "done" => j \in called
      /\ p = "ended" => j \notin called
  BY <1>1 DEF InPhase, Counted, GroupCounted, TickerCounted
<1>6. /\ \A g \in Groups : /\ activeByGroup[g] \in 0..MaxPerGroup
                           /\ activeByGroup'[g] = IF p = "callback" /\ g = h THEN activeByGroup[g] - 1 ELSE activeByGroup[g]
      /\ \A u \in Tickers : /\ activeByTicker[u] \in 0..MaxPerTicker
                            /\ activeByTicker'[u] = IF p = "callback" /\ u = t THEN activeByTicker[u] - 1 ELSE activeByTicker[u]
  BY <1>3 DEF TypeOK
<1> HIDE DEF h, t, called
<1>7. activeTotal' = Cardinality(Counted') /\ activeTotal' \in 0..MaxWorkers
  <2>1. activeTotal = Cardinality(Counted) /\ activeTotal \in 0..MaxWorkers /\ MaxWorkers \in Nat
    BY SchedulerAssumption DEF CountsExact, TypeOK
  <2>2. CASE p = "callback"
    <3>1. Counted \in SUBSET Jobs /\ j \in Counted
      BY <1>5, <2>2, Phases
    <3>2. Cardinality(Counted \ {j}) = Cardinality(Counted) - 1 /\ Cardinality(Counted) \in Nat \ {0}
      BY <3>1, Leaves
    <3>3. Counted' = Counted \ {j} /\ activeTotal' = activeTotal - 1
      BY <1>4, <2>2
    <3> QED BY <2>1, <3>2, <3>3
  <2>3. CASE p # "callback"
    BY <1>4, <2>1, <2>3
  <2> QED BY <2>2, <2>3
<1>8. \A g \in Groups : activeByGroup'[g] = Cardinality(GroupCounted(g)') /\ activeByGroup'[g] \in 0..MaxPerGroup
  <2> SUFFICES ASSUME NEW g \in Groups
               PROVE  activeByGroup'[g] = Cardinality(GroupCounted(g)') /\ activeByGroup'[g] \in 0..MaxPerGroup
    OBVIOUS
  <2>1. activeByGroup[g] = Cardinality(GroupCounted(g)) /\ MaxPerGroup \in Nat
    BY SchedulerAssumption DEF CountsExact
  <2>2. CASE p = "callback" /\ g = h
    <3>1. j \in GroupCounted(g) /\ GroupCounted(g) \in SUBSET Jobs
      BY <1>5, <2>2, Phases
    <3>2. Cardinality(GroupCounted(g) \ {j}) = Cardinality(GroupCounted(g)) - 1 /\ Cardinality(GroupCounted(g)) \in Nat \ {0}
      BY <3>1, Leaves
    <3>3. GroupCounted(g)' = GroupCounted(g) \ {j} /\ activeByGroup'[g] = activeByGroup[g] - 1
      BY <1>4, <1>6, <2>2
    <3>4. activeByGroup[g] \in 0..MaxPerGroup /\ activeByGroup[g] \in Nat \ {0}
      BY <1>6, <2>1, <3>2
    <3> QED BY <2>1, <3>2, <3>3, <3>4
  <2>3. CASE ~(p = "callback" /\ g = h)
    BY <1>4, <1>6, <2>1, <2>3
  <2> QED BY <2>2, <2>3
<1>9. \A u \in Tickers : activeByTicker'[u] = Cardinality(TickerCounted(u)') /\ activeByTicker'[u] \in 0..MaxPerTicker
  <2> SUFFICES ASSUME NEW u \in Tickers
               PROVE  activeByTicker'[u] = Cardinality(TickerCounted(u)') /\ activeByTicker'[u] \in 0..MaxPerTicker
    OBVIOUS
  <2>1. activeByTicker[u] = Cardinality(TickerCounted(u)) /\ MaxPerTicker \in Nat
    BY SchedulerAssumption DEF CountsExact
  <2>2. CASE p = "callback" /\ u = t
    <3>1. j \in TickerCounted(u) /\ TickerCounted(u) \in SUBSET Jobs
      BY <1>5, <2>2, Phases
    <3>2. Cardinality(TickerCounted(u) \ {j}) = Cardinality(TickerCounted(u)) - 1 /\ Cardinality(TickerCounted(u)) \in Nat \ {0}
      BY <3>1, Leaves
    <3>3. TickerCounted(u)' = TickerCounted(u) \ {j} /\ activeByTicker'[u] = activeByTicker[u] - 1
      BY <1>4, <1>6, <2>2
    <3>4. activeByTicker[u] \in 0..MaxPerTicker /\ activeByTicker[u] \in Nat \ {0}
      BY <1>6, <2>1, <3>2
    <3> QED BY <2>1, <3>2, <3>3, <3>4
  <2>3. CASE ~(p = "callback" /\ u = t)
    BY <1>4, <1>6, <2>1, <2>3
  <2> QED BY <2>2, <2>3
<1>10. callbacksInflight' = Cardinality(called') /\ callbacksInflight' \in Nat
  <2>1. callbacksInflight = Cardinality(called) /\ callbacksInflight \in Nat /\ called \in SUBSET Jobs
    BY Phases DEF CountsExact, TypeOK, called
  <2>2. CASE p = "callback"
    BY <1>4, <1>5, <2>1, <2>2, Joins
  <2>3. CASE p = "done"
    BY <1>4, <1>5, <2>1, <2>3, Leaves
  <2>4. CASE p = "ended"
    BY <1>4, <1>5, <2>1, <2>4
  <2> QED BY <1>1, <2>2, <2>3, <2>4
<1>11. TypeOK'
  <2>1. phase' \in [Jobs -> {"new", "queued", "active", "ended", "callback", "done"}]
    BY <1>1 DEF TypeOK
  <2>2. activeByGroup' \in [Groups -> 0..MaxPerGroup]
    <3>1. activeByGroup' = [g \in Groups |-> activeByGroup'[g]]
      BY DEF TypeOK
    <3> QED BY <1>8, <3>1
  <2>3. activeByTicker' \in [Tickers -> 0..MaxPerTicker]
    <3>1. activeByTicker' = [u \in Tickers |-> activeByTicker'[u]]
      BY DEF TypeOK
    <3> QED BY <1>9, <3>1
  <2> QED BY <1>7, <1>10, <2>1, <2>2, <2>3 DEF TypeOK
<1>12. Arriving'
  BY <1>1, <1>2 DEF Arriving
<1>13. Finished'
  BY <1>1, <1>2 DEF Finished, InPhase
<1>14. CountsExact'
  BY <1>7, <1>8, <1>9, <1>10 DEF CountsExact, called
<1>15. QueuesExact'
  BY <1>4 DEF QueuesExact
<1> QED BY <1>11, <1>12, <1>13, <1>14, <1>15

(* What a search finds depends on the queues, the counters and the cursor. *)
LEMMA SameReadiness ==
  ASSUME UNCHANGED <<cursor, tickerOrder, groupOrder, queue, activeTotal, activeByGroup, activeByTicker>>
  PROVE  NothingReady' <=> NothingReady
<1>1. \A g, stage : GroupReady(g, stage)' <=> GroupReady(g, stage)
  BY DEF GroupReady
<1>2. \A t, stage : ReadyGroup(t, stage)' = ReadyGroup(t, stage)
  BY DEF ReadyGroup, SelectInSeq, GroupReady
<1>3. \A stage : ReadyTicker(stage)' = ReadyTicker(stage)
  BY DEF ReadyTicker, SelectInSeq, TickerReady, ReadyGroup, GroupReady
<1>4. \A o : StageAt(o)' = StageAt(o)
  BY DEF StageAt
<1>5. ReadyOffsets' = ReadyOffsets
  BY <1>3, <1>4 DEF ReadyOffsets
<1> QED BY <1>5 DEF NothingReady

LEMMA JobEndsHolds ==
  ASSUME IInv, NEW j \in Jobs, JobEnds(j)
  PROVE  IInv'
<1>1. /\ phase[j] = "active" /\ phase' = [phase EXCEPT ![j] = "ended"]
      /\ UNCHANGED <<tickerOrder, groupOrder, queue, cursor, activeTotal, activeByGroup, activeByTicker,
                     callbacksInflight, stack, arrivals, main, rejected>>
  BY DEF JobEnds, queues, counters, callers
<1>2. Settling(j, "ended")
  BY <1>1 DEF Settling
<1>3. TypeOK' /\ Arriving' /\ Finished' /\ CountsExact' /\ QueuesExact'
  BY <1>2, Settles DEF IInv
<1>4. Stacked' /\ WorkConserving'
  BY <1>1, SameReadiness DEF IInv, Stacked, WorkConserving, LockFree
<1> QED BY <1>3, <1>4 DEF IInv

LEMMA DoneOnWorkerHolds ==
  ASSUME IInv, NEW j \in Jobs, DoneOnWorker(j)
  PROVE  IInv'
<1>1. /\ phase[j] = "ended" /\ phase' = [phase EXCEPT ![j] = "callback"]
      /\ activeTotal' = activeTotal - 1
      /\ activeByGroup' = [activeByGroup EXCEPT ![GroupOf[j]] = @ - 1]
      /\ activeByTicker' = [activeByTicker EXCEPT ![TickerOf[j]] = @ - 1]
      /\ callbacksInflight' = callbacksInflight + 1
      /\ UNCHANGED <<tickerOrder, groupOrder, queue, cursor, stack, arrivals, main, rejected>>
  BY DEF DoneOnWorker, Account, queues, callers
<1>2. Settling(j, "callback")
  BY <1>1 DEF Settling
<1>3. TypeOK' /\ Arriving' /\ Finished' /\ CountsExact' /\ QueuesExact'
  BY <1>2, Settles DEF IInv
<1>4. Stacked' /\ WorkConserving'
  <2>1. callbacksInflight \in Nat
    BY DEF IInv, TypeOK
  <2> QED BY <1>1, <2>1 DEF IInv, Stacked, WorkConserving
<1> QED BY <1>3, <1>4 DEF IInv

LEMMA DoneCallbackHolds ==
  ASSUME IInv, NEW j \in Jobs, DoneCallback(j)
  PROVE  IInv'
<1>1. /\ phase[j] = "callback" /\ MayProceed(j) /\ phase' = [phase EXCEPT ![j] = "done"]
      /\ callbacksInflight' = callbacksInflight - 1
      /\ stack' = IF IsInline(j) THEN ReplaceTop(Loop) ELSE Append(stack, Loop)
      /\ UNCHANGED <<tickerOrder, groupOrder, queue, cursor, activeTotal, activeByGroup, activeByTicker, arrivals,
                     main, rejected>>
  BY DEF DoneCallback, queues, counters, callers
<1>2. Settling(j, "done")
  BY <1>1 DEF Settling
<1>3. TypeOK' /\ Arriving' /\ Finished' /\ CountsExact' /\ QueuesExact'
  BY <1>2, Settles DEF IInv
<1>4. Stacked' /\ stack' # <<>>
  <2>1. Stacked /\ Loop \in Frames
    BY FrameTypes DEF IInv
  <2>2. CASE IsInline(j)
    <3>1. stack # <<>>
      BY <1>1, <2>2 DEF MayProceed, OnTop
    <3>2. Front(stack) \in Seq(Frames) /\ (Front(stack) # <<>> => Front(stack)[1] = Loop)
      BY <2>1, <3>1, Below
    <3> HIDE DEF Stacked
    <3> QED BY <1>1, <2>1, <2>2, <3>2, Pushed DEF ReplaceTop, Stacked
  <2>3. CASE ~IsInline(j)
    BY <1>1, <2>1, <2>3, Pushed DEF Stacked
  <2> QED BY <2>2, <2>3
<1>5. WorkConserving'
  BY <1>4 DEF WorkConserving, LockFree
<1> QED BY <1>3, <1>4, <1>5 DEF IInv

-----------------------------------------------------------------------------
(* Submissions, by the main thread and by hooks.                           *)

With(q, e) == IF Contains(q, e) THEN q ELSE Append(q, e)

LEMMA Included ==
  ASSUME NEW S, NEW q \in Seq(S), IsInjective(q), NEW e \in S
  PROVE  /\ With(q, e) \in Seq(S) /\ IsInjective(With(q, e)) /\ With(q, e) # <<>>
         /\ ToSet(With(q, e)) = ToSet(q) \cup {e}
<1>1. Len(q) \in Nat /\ DOMAIN q = 1..Len(q)
  OBVIOUS
<1>2. CASE Contains(q, e)
  <2>1. e \in ToSet(q) /\ With(q, e) = q
    BY <1>1, <1>2 DEF Contains, ToSet, With
  <2>2. q # <<>>
    BY <2>1 DEF ToSet
  <2> QED BY <2>1, <2>2
<1>3. CASE ~Contains(q, e)
  <2>1. e \notin ToSet(q) /\ With(q, e) = Append(q, e)
    BY <1>1, <1>3 DEF Contains, ToSet, With
  <2> QED BY <2>1, Appended
<1> QED BY <1>2, <1>3

LEMMA EnqueueHolds ==
  ASSUME TypeOK, Stacked, CountsExact, QueuesExact, NEW j \in Jobs, phase[j] = "new", Enqueue(j),
         UNCHANGED <<cursor, counters, callbacksInflight, main>>
  PROVE  /\ TypeOK' /\ Stacked' /\ stack' # <<>> /\ CountsExact' /\ QueuesExact'
         /\ phase'[j] = "queued" /\ \A k \in Jobs \ {j} : phase'[k] = phase[k]
<1> DEFINE t == TickerOf[j]
           h == GroupOf[j]
<1>1. /\ phase' = [phase EXCEPT ![j] = "queued"]
      /\ tickerOrder' = With(tickerOrder, t)
      /\ groupOrder' = IF Contains(groupOrder[t], h) THEN groupOrder
                       ELSE [groupOrder EXCEPT ![t] = Append(groupOrder[t], h)]
      /\ queue' = [queue EXCEPT ![h] = Append(queue[h], j)]
      /\ stack' = Append(stack, Loop)
      /\ UNCHANGED <<rejected, cursor, activeTotal, activeByGroup, activeByTicker, callbacksInflight, main>>
  BY DEF Enqueue, With, counters
<1>2. t \in Tickers /\ h \in Groups /\ TickerOfGroup[h] = t
  BY Owners
<1> HIDE DEF t, h
<1>3. phase'[j] = "queued" /\ \A k \in Jobs \ {j} : phase'[k] = phase[k]
  BY <1>1 DEF TypeOK
<1>4. /\ Counted' = Counted /\ InPhase({"callback"})' = InPhase({"callback"})
      /\ \A x : GroupCounted(x)' = GroupCounted(x) /\ TickerCounted(x)' = TickerCounted(x)
      /\ \A g : QueuedOf(g)' = IF g = h THEN QueuedOf(g) \cup {j} ELSE QueuedOf(g)
      /\ j \notin QueuedOf(h)
  <2>1. Counted' = Counted /\ InPhase({"callback"})' = InPhase({"callback"})
    BY <1>3 DEF Counted, InPhase
  <2>2. \A x : GroupCounted(x)' = GroupCounted(x) /\ TickerCounted(x)' = TickerCounted(x)
    BY <2>1 DEF GroupCounted, TickerCounted
  <2>3. \A g : QueuedOf(g)' = IF g = h THEN QueuedOf(g) \cup {j} ELSE QueuedOf(g)
    BY <1>3 DEF QueuedOf, InPhase, h
  <2> QED BY <2>1, <2>2, <2>3 DEF QueuedOf, InPhase
<1>5. /\ queue[h] \in Seq(Jobs) /\ IsInjective(queue[h]) /\ ToSet(queue[h]) = QueuedOf(h)
      /\ groupOrder[t] \in Seq(Groups) /\ IsInjective(groupOrder[t])
      /\ tickerOrder \in Seq(Tickers) /\ IsInjective(tickerOrder)
  BY <1>2 DEF TypeOK, QueuesExact
<1>6. /\ Append(queue[h], j) \in Seq(Jobs) /\ IsInjective(Append(queue[h], j)) /\ Append(queue[h], j) # <<>>
      /\ ToSet(Append(queue[h], j)) = QueuedOf(h) \cup {j}
  BY <1>4, <1>5, Appended
<1>7. /\ tickerOrder' \in Seq(Tickers) /\ IsInjective(tickerOrder') /\ ToSet(tickerOrder') = ToSet(tickerOrder) \cup {t}
      /\ With(groupOrder[t], h) \in Seq(Groups) /\ IsInjective(With(groupOrder[t], h))
      /\ ToSet(With(groupOrder[t], h)) = ToSet(groupOrder[t]) \cup {h} /\ With(groupOrder[t], h) # <<>>
  <2>1. tickerOrder' \in Seq(Tickers) /\ IsInjective(tickerOrder') /\ ToSet(tickerOrder') = ToSet(tickerOrder) \cup {t}
    <3>1. /\ With(tickerOrder, t) \in Seq(Tickers) /\ IsInjective(With(tickerOrder, t))
          /\ ToSet(With(tickerOrder, t)) = ToSet(tickerOrder) \cup {t}
      <4>1. tickerOrder \in Seq(Tickers) /\ IsInjective(tickerOrder) /\ t \in Tickers
        BY <1>2, <1>5
      <4> QED BY ONLY <4>1, Included
    <3> QED BY <1>1, <3>1
  <2>2. /\ With(groupOrder[t], h) \in Seq(Groups) /\ IsInjective(With(groupOrder[t], h))
        /\ ToSet(With(groupOrder[t], h)) = ToSet(groupOrder[t]) \cup {h} /\ With(groupOrder[t], h) # <<>>
    <3>1. groupOrder[t] \in Seq(Groups) /\ IsInjective(groupOrder[t]) /\ h \in Groups
      BY <1>2, <1>5
    <3> QED BY <3>1, Included
  <2> QED BY <2>1, <2>2
<1>8. /\ \A g \in Groups : queue'[g] = IF g = h THEN Append(queue[h], j) ELSE queue[g]
      /\ \A u \in Tickers : groupOrder'[u] = IF u = t THEN With(groupOrder[t], h) ELSE groupOrder[u]
  BY <1>1, <1>2 DEF TypeOK, With
<1>9. TypeOK'
  <2>1. phase' \in [Jobs -> {"new", "queued", "active", "ended", "callback", "done"}]
    BY <1>1 DEF TypeOK
  <2>2. queue' \in [Groups -> Seq(Jobs)]
    BY <1>1, <1>6 DEF TypeOK
  <2>3. groupOrder' \in [Tickers -> Seq(Groups)]
    <3>1. groupOrder' = [u \in Tickers |-> groupOrder'[u]]
      BY <1>1 DEF TypeOK
    <3>2. \A u \in Tickers : groupOrder'[u] \in Seq(Groups)
      BY <1>7, <1>8 DEF TypeOK
    <3> QED BY <3>1, <3>2
  <2> QED BY <1>1, <1>7, <2>1, <2>2, <2>3 DEF TypeOK
<1>10. Stacked' /\ stack' # <<>>
  BY <1>1, FrameTypes, Pushed DEF Stacked
<1>11. CountsExact'
  BY <1>1, <1>4 DEF CountsExact
<1>12. QueuesExact'
  <2>1. \A g \in Groups : queue'[g] # <<>> <=> queue[g] # <<>> \/ g = h
    BY <1>6, <1>8
  <2>2. ASSUME NEW u \in Tickers
        PROVE  /\ IsInjective(groupOrder'[u])
               /\ ToSet(groupOrder'[u]) = {g \in Groups : TickerOfGroup[g] = u /\ queue'[g] # <<>>}
               /\ u \in ToSet(tickerOrder') <=> groupOrder'[u] # <<>>
    <3>1. /\ IsInjective(groupOrder[u])
          /\ ToSet(groupOrder[u]) = {g \in Groups : TickerOfGroup[g] = u /\ queue[g] # <<>>}
          /\ u \in ToSet(tickerOrder) <=> groupOrder[u] # <<>>
      BY DEF QueuesExact
    <3>2. CASE u = t
      BY <1>2, <1>7, <1>8, <2>1, <3>1, <3>2
    <3>3. CASE u # t
      BY <1>2, <1>7, <1>8, <2>1, <3>1, <3>3
    <3> QED BY <3>2, <3>3
  <2>3. ASSUME NEW g \in Groups PROVE IsInjective(queue'[g]) /\ ToSet(queue'[g]) = QueuedOf(g)'
    <3>1. CASE g = h
      BY <1>4, <1>6, <1>8, <3>1
    <3>2. CASE g # h
      BY <1>4, <1>8, <3>2 DEF QueuesExact
    <3> QED BY <3>1, <3>2
  <2> QED BY <1>7, <2>2, <2>3 DEF QueuesExact
<1> QED BY <1>3, <1>9, <1>10, <1>11, <1>12

LEMMA MainSubmitsHolds ==
  ASSUME IInv, MainSubmits
  PROVE  IInv'
<1>1. /\ main = "submitting" /\ arrivals # <<>> /\ Enqueue(Head(arrivals)) /\ arrivals' = Tail(arrivals)
      /\ UNCHANGED <<cursor, counters, callbacksInflight, main>>
  BY DEF MainSubmits
<1>2. /\ arrivals \in Seq(Jobs) /\ IsInjective(arrivals) /\ \A i \in 1..Len(arrivals) : phase[arrivals[i]] = "new"
      /\ \A k \in Jobs : FollowUp[k] \cap ToSet(arrivals) = {}
  BY DEF IInv, Arriving
<1>3. PICK j \in Jobs : j = Head(arrivals)
  BY <1>1, <1>2
<1>4. phase[j] = "new"
  <2>1. 1 \in 1..Len(arrivals) /\ j = arrivals[1]
    BY <1>1, <1>2, <1>3
  <2> QED BY <1>2, <2>1
<1>5. /\ TypeOK' /\ Stacked' /\ stack' # <<>> /\ CountsExact' /\ QueuesExact'
      /\ phase'[j] = "queued" /\ \A k \in Jobs \ {j} : phase'[k] = phase[k]
  <2>1. Enqueue(j)
    BY <1>1, <1>3
  <2> QED BY <1>1, <1>4, <2>1, EnqueueHolds DEF IInv
<1>6. Arriving'
  <2>1. /\ Tail(arrivals) \in Seq(Jobs) /\ IsInjective(Tail(arrivals)) /\ Len(Tail(arrivals)) \in Nat
        /\ ToSet(Tail(arrivals)) = ToSet(arrivals) \ {j}
    BY <1>1, <1>2, <1>3, Popped
  <2>2. ASSUME NEW i \in 1..Len(Tail(arrivals)) PROVE phase'[Tail(arrivals)[i]] = "new"
    <3>1. Tail(arrivals)[i] \in ToSet(Tail(arrivals)) /\ Tail(arrivals)[i] \in Jobs
      <4>1. i \in DOMAIN Tail(arrivals)
        BY <2>1
      <4> QED BY <2>1, <4>1 DEF ToSet
    <3>2. Tail(arrivals)[i] \in ToSet(arrivals) \ {j}
      BY <2>1, <3>1
    <3>3. phase[Tail(arrivals)[i]] = "new"
      BY <1>2, <3>2 DEF ToSet
    <3> QED BY <1>5, <3>1, <3>2, <3>3
  <2>3. \A k \in Jobs : FollowUp[k] \cap ToSet(Tail(arrivals)) = {}
    BY <1>2, <2>1
  <2> QED BY <1>1, <2>1, <2>2, <2>3 DEF Arriving
<1>7. Finished' /\ WorkConserving'
  BY <1>1, <1>5 DEF Finished, WorkConserving, LockFree
<1> QED BY <1>5, <1>6, <1>7 DEF IInv

LEMMA HookSubmitsHolds ==
  ASSUME IInv, NEW j \in Jobs, HookSubmits(j)
  PROVE  IInv'
<1>1. PICK k \in FollowUp[j] :
        /\ phase[j] = "callback" /\ phase[k] = "new"
        /\ IF main = "closed" THEN Reject ELSE Enqueue(k)
        /\ UNCHANGED <<cursor, counters, callbacksInflight, arrivals, main>>
  BY DEF HookSubmits
<1>2. k \in Jobs
  BY <1>1, SchedulerAssumption
<1>3. main \notin {"drained", "closed"}
  BY <1>1 DEF IInv, Finished, InPhase
<1>4. Enqueue(k)
  BY <1>1, <1>3
<1>5. /\ TypeOK' /\ Stacked' /\ stack' # <<>> /\ CountsExact' /\ QueuesExact'
      /\ phase'[k] = "queued" /\ \A x \in Jobs \ {k} : phase'[x] = phase[x]
  BY <1>1, <1>2, <1>4, EnqueueHolds DEF IInv
<1>6. Arriving'
  <2>1. /\ arrivals \in Seq(Jobs) /\ IsInjective(arrivals) /\ \A i \in 1..Len(arrivals) : phase[arrivals[i]] = "new"
        /\ \A x \in Jobs : FollowUp[x] \cap ToSet(arrivals) = {}
    BY DEF IInv, Arriving
  <2>2. k \notin ToSet(arrivals)
    BY <1>1, <2>1
  <2>3. \A i \in 1..Len(arrivals) : arrivals[i] \in Jobs \ {k}
    BY <2>1, <2>2 DEF ToSet
  <2> QED BY <1>1, <1>5, <2>1, <2>3 DEF Arriving
<1>7. Finished' /\ WorkConserving'
  BY <1>1, <1>3, <1>5 DEF IInv, Finished, WorkConserving, LockFree
<1> QED BY <1>5, <1>6, <1>7 DEF IInv

-----------------------------------------------------------------------------
(* The lock's owner.                                                       *)

LEMMA RegisterCallbackHolds ==
  ASSUME IInv, NEW j \in Jobs, RegisterCallback(j)
  PROVE  IInv'
<1>1. /\ stack # <<>> /\ Last(stack) # Loop
      /\ UNCHANGED <<tickerOrder, groupOrder, queue, cursor, arrivals, main, rejected>>
  BY FrameTypes DEF RegisterCallback, OnTop, queues, callers
<1>2. Stacked /\ Front(stack) \in Seq(Frames) /\ Front(stack) # <<>> /\ Front(stack)[1] = Loop
  BY <1>1, Below DEF IInv
<1>3. CASE phase[j] = "ended"
  <2>1. /\ phase' = [phase EXCEPT ![j] = "callback"] /\ stack' = Append(Front(stack), Inline(j))
        /\ activeTotal' = activeTotal - 1
        /\ activeByGroup' = [activeByGroup EXCEPT ![GroupOf[j]] = @ - 1]
        /\ activeByTicker' = [activeByTicker EXCEPT ![TickerOf[j]] = @ - 1]
        /\ callbacksInflight' = callbacksInflight + 1
    BY <1>3 DEF RegisterCallback, Account, ReplaceTop
  <2>2. Settling(j, "callback")
    BY <1>1, <1>3, <2>1 DEF Settling
  <2>3. TypeOK' /\ Arriving' /\ Finished' /\ CountsExact' /\ QueuesExact'
    BY <2>2, Settles DEF IInv
  <2>4. Stacked' /\ stack' # <<>>
    BY <1>2, <2>1, FrameTypes, Pushed DEF Stacked
  <2> QED BY <2>3, <2>4 DEF IInv, WorkConserving, LockFree
<1>4. CASE phase[j] # "ended"
  <2>1. stack' = Front(stack) /\ UNCHANGED <<phase, activeTotal, activeByGroup, activeByTicker, callbacksInflight>>
    BY <1>4 DEF RegisterCallback, counters
  <2>2. TypeOK' /\ Arriving' /\ Finished'
    BY <1>1, <2>1 DEF IInv, TypeOK, Arriving, Finished, InPhase
  <2>3. CountsExact' /\ QueuesExact'
    BY <1>1, <2>1 DEF IInv, CountsExact, QueuesExact, InPhase, Counted, GroupCounted, TickerCounted, QueuedOf
  <2>4. Stacked' /\ WorkConserving'
    BY <1>2, <2>1 DEF Stacked, WorkConserving, LockFree
  <2> QED BY <2>2, <2>3, <2>4 DEF IInv
<1> QED BY <1>3, <1>4

LEMMA DispatchEndsHolds ==
  ASSUME IInv, DispatchEnds
  PROVE  IInv'
<1>1. /\ stack # <<>> /\ NothingReady /\ stack' = Front(stack)
      /\ UNCHANGED <<phase, tickerOrder, groupOrder, queue, cursor, activeTotal, activeByGroup, activeByTicker,
                     callbacksInflight, arrivals, main, rejected>>
  BY DEF DispatchEnds, OnTop, queues, counters, callers
<1>2. TypeOK' /\ Arriving' /\ Finished'
  BY <1>1 DEF IInv, TypeOK, Arriving, Finished, InPhase
<1>3. CountsExact' /\ QueuesExact'
  BY <1>1 DEF IInv, CountsExact, QueuesExact, InPhase, Counted, GroupCounted, TickerCounted, QueuedOf
<1>4. Stacked'
  BY <1>1, Below DEF IInv, Stacked
<1>5. WorkConserving'
  BY <1>1, SameReadiness DEF WorkConserving
<1> QED BY <1>2, <1>3, <1>4, <1>5 DEF IInv

(* A search finds nothing, or a place whose key is as asked for.           *)
LEMMA GroupSearch ==
  ASSUME NEW t, groupOrder[t] \in Seq(Groups), NEW stage
  PROVE  /\ ReadyGroup(t, stage) \in 0..Len(groupOrder[t])
         /\ ReadyGroup(t, stage) # 0 => GroupReady(groupOrder[t][ReadyGroup(t, stage)], stage)
<1> DEFINE F == {i \in 1..Len(groupOrder[t]) : GroupReady(groupOrder[t][i], stage)}
<1>1. ReadyGroup(t, stage) = IF F # {} THEN Min(F) ELSE 0
  BY DEF ReadyGroup, SelectInSeq
<1>2. F \in SUBSET Nat /\ F \subseteq 1..Len(groupOrder[t]) /\ Len(groupOrder[t]) \in Nat
  OBVIOUS
<1>3. F # {} => Min(F) \in F
  <2> HIDE DEF F
  <2> QED BY <1>2, LeastElement
<1>4. CASE F = {}
  <2>1. 0 \in 0..Len(groupOrder[t])
    BY <1>2
  <2> QED BY <1>1, <1>4, <2>1
<1>5. CASE F # {}
  <2>1. ReadyGroup(t, stage) \in F
    BY <1>1, <1>3, <1>5
  <2> QED BY <1>2, <2>1
<1> QED BY <1>4, <1>5

LEMMA TickerSearch ==
  ASSUME tickerOrder \in Seq(Tickers), NEW stage
  PROVE  /\ ReadyTicker(stage) \in 0..Len(tickerOrder)
         /\ ReadyTicker(stage) # 0 => TickerReady(tickerOrder[ReadyTicker(stage)], stage)
<1> DEFINE F == {i \in 1..Len(tickerOrder) : TickerReady(tickerOrder[i], stage)}
<1>1. ReadyTicker(stage) = IF F # {} THEN Min(F) ELSE 0
  BY DEF ReadyTicker, SelectInSeq
<1>2. F \in SUBSET Nat /\ F \subseteq 1..Len(tickerOrder) /\ Len(tickerOrder) \in Nat
  OBVIOUS
<1>3. F # {} => Min(F) \in F
  <2> HIDE DEF F
  <2> QED BY <1>2, LeastElement
<1>4. CASE F = {}
  <2>1. 0 \in 0..Len(tickerOrder)
    BY <1>2
  <2> QED BY <1>1, <1>4, <2>1
<1>5. CASE F # {}
  <2>1. ReadyTicker(stage) \in F
    BY <1>1, <1>3, <1>5
  <2> QED BY <1>2, <2>1
<1> QED BY <1>4, <1>5

(* The job a dispatch starts: the head of a queue under its caps.          *)
Startable(t, g, i, k) ==
  /\ i \in 1..Len(tickerOrder) /\ t = tickerOrder[i] /\ t \in Tickers /\ tickerOrder \in Seq(Tickers)
  /\ k \in 1..Len(groupOrder[t]) /\ g = groupOrder[t][k] /\ g \in Groups /\ groupOrder[t] \in Seq(Groups)
  /\ activeTotal < MaxWorkers /\ activeByTicker[t] < MaxPerTicker /\ activeByGroup[g] < MaxPerGroup
  /\ TickerOfGroup[g] = t /\ queue[g] \in Seq(Jobs) /\ queue[g] # <<>> /\ IsInjective(queue[g])
  /\ Head(queue[g]) \in Jobs /\ phase[Head(queue[g])] = "queued" /\ GroupOf[Head(queue[g])] = g
  /\ TickerOf[Head(queue[g])] = t

LEMMA Found ==
  ASSUME TypeOK, QueuesExact, DispatchOne
  PROVE  \E t, g, i, k : /\ Startable(t, g, i, k) /\ Start(t, g, i, k)
                         /\ \E o \in ReadyOffsets : cursor' = (cursor + o + 1) % Len(StageCycle)
<1>1. ~NothingReady
  BY DEF DispatchOne
<1>2. PICK o \in ReadyOffsets, i \in DOMAIN tickerOrder :
        /\ i = ReadyTicker(StageAt(o))
        /\ \E k \in DOMAIN groupOrder[tickerOrder[i]] :
             /\ k = ReadyGroup(tickerOrder[i], StageAt(o))
             /\ Start(tickerOrder[i], groupOrder[tickerOrder[i]][k], i, k)
        /\ cursor' = (cursor + o + 1) % Len(StageCycle)
  BY DEF DispatchOne
<1>3. PICK k \in DOMAIN groupOrder[tickerOrder[i]] :
        /\ k = ReadyGroup(tickerOrder[i], StageAt(o))
        /\ Start(tickerOrder[i], groupOrder[tickerOrder[i]][k], i, k)
  BY <1>2
<1> DEFINE t == tickerOrder[i]
           g == groupOrder[t][k]
           j == Head(queue[g])
<1>4. tickerOrder \in Seq(Tickers) /\ i \in 1..Len(tickerOrder) /\ t \in Tickers /\ i # 0
  <2>1. tickerOrder \in Seq(Tickers)
    BY DEF TypeOK
  <2>2. i \in 1..Len(tickerOrder)
    BY <2>1
  <2> QED BY <2>1, <2>2
<1>5. groupOrder[t] \in Seq(Groups) /\ k \in 1..Len(groupOrder[t]) /\ g \in Groups /\ k # 0
  BY <1>3, <1>4 DEF TypeOK
<1>6. activeByTicker[t] < MaxPerTicker
  BY <1>2, <1>4, TickerSearch DEF TickerReady
<1>7. activeByGroup[g] < MaxPerGroup
  BY <1>3, <1>5, GroupSearch DEF GroupReady
<1>8. activeTotal < MaxWorkers
  BY <1>1, SchedulerAssumption DEF NothingReady, TypeOK
<1>9. TickerOfGroup[g] = t /\ queue[g] # <<>>
  <2>1. g \in ToSet(groupOrder[t])
    BY <1>5 DEF ToSet
  <2> QED BY <1>4, <2>1 DEF QueuesExact
<1>10. queue[g] \in Seq(Jobs) /\ IsInjective(queue[g]) /\ ToSet(queue[g]) = QueuedOf(g)
  BY <1>5 DEF TypeOK, QueuesExact
<1>11. j \in Jobs /\ j \in QueuedOf(g)
  BY <1>9, <1>10, Popped
<1>12. phase[j] = "queued" /\ GroupOf[j] = g /\ TickerOf[j] = t
  BY <1>9, <1>11, Owners DEF QueuedOf, InPhase
<1>13. Startable(t, g, i, k)
  BY <1>4, <1>5, <1>6, <1>7, <1>8, <1>9, <1>10, <1>11, <1>12 DEF Startable
<1> QED BY <1>2, <1>3, <1>13

LEMMA DispatchOneHolds ==
  ASSUME IInv, DispatchOne
  PROVE  IInv'
<1>1. PICK t, g, i, k : /\ Startable(t, g, i, k) /\ Start(t, g, i, k)
                        /\ \E o \in ReadyOffsets : cursor' = (cursor + o + 1) % Len(StageCycle)
  BY Found DEF IInv
<1> DEFINE groups == Rotated(groupOrder[t], k)
           tickers == Rotated(tickerOrder, i)
           groupsLeft == IF Len(queue[g]) = 1 THEN Front(groups) ELSE groups
<1>2. PICK j \in Jobs : j = Head(queue[g])
  BY <1>1 DEF Startable
<1>3. /\ i \in 1..Len(tickerOrder) /\ t = tickerOrder[i] /\ t \in Tickers
      /\ k \in 1..Len(groupOrder[t]) /\ g = groupOrder[t][k] /\ g \in Groups
      /\ activeTotal < MaxWorkers /\ activeByTicker[t] < MaxPerTicker /\ activeByGroup[g] < MaxPerGroup
      /\ TickerOfGroup[g] = t /\ queue[g] \in Seq(Jobs) /\ queue[g] # <<>> /\ IsInjective(queue[g])
      /\ phase[j] = "queued" /\ GroupOf[j] = g /\ TickerOf[j] = t
  BY <1>1, <1>2 DEF Startable
<1>4. /\ queue' = [queue EXCEPT ![g] = Tail(queue[g])]
      /\ groupOrder' = [groupOrder EXCEPT ![t] = groupsLeft]
      /\ tickerOrder' = IF groupsLeft = <<>> THEN Front(tickers) ELSE tickers
      /\ activeTotal' = activeTotal + 1
      /\ activeByGroup' = [activeByGroup EXCEPT ![g] = activeByGroup[g] + 1]
      /\ activeByTicker' = [activeByTicker EXCEPT ![t] = activeByTicker[t] + 1]
      /\ phase' = [phase EXCEPT ![j] = "active"]
      /\ stack' = Append(stack, Register(j))
  BY <1>1, <1>2 DEF Start
<1>5. /\ stack # <<>> /\ UNCHANGED <<callbacksInflight, arrivals, main, rejected>>
  BY DEF DispatchOne, OnTop, callers
<1>6. TypeOK /\ Stacked /\ Arriving /\ Finished /\ CountsExact /\ QueuesExact
  BY DEF IInv
<1>7. /\ groupOrder[t] \in Seq(Groups) /\ IsInjective(groupOrder[t])
      /\ ToSet(groupOrder[t]) = {x \in Groups : TickerOfGroup[x] = t /\ queue[x] # <<>>}
      /\ tickerOrder \in Seq(Tickers) /\ IsInjective(tickerOrder)
  BY <1>3, <1>6 DEF TypeOK, QueuesExact
<1>8. /\ groups \in Seq(Groups) /\ IsInjective(groups) /\ ToSet(groups) = ToSet(groupOrder[t]) /\ groups # <<>> /\ Last(groups) = g
      /\ Front(groups) \in Seq(Groups) /\ IsInjective(Front(groups)) /\ ToSet(Front(groups)) = ToSet(groups) \ {g}
  <2>1. /\ groups \in Seq(Groups) /\ IsInjective(groups) /\ ToSet(groups) = ToSet(groupOrder[t]) /\ groups # <<>> /\ Last(groups) = g
    BY <1>3, <1>7, Turned
  <2> HIDE DEF groups
  <2> QED BY <2>1, Shortened
<1>9. /\ tickers \in Seq(Tickers) /\ IsInjective(tickers) /\ ToSet(tickers) = ToSet(tickerOrder) /\ tickers # <<>> /\ Last(tickers) = t
      /\ Front(tickers) \in Seq(Tickers) /\ IsInjective(Front(tickers)) /\ ToSet(Front(tickers)) = ToSet(tickers) \ {t}
  <2>1. /\ tickers \in Seq(Tickers) /\ IsInjective(tickers) /\ ToSet(tickers) = ToSet(tickerOrder) /\ tickers # <<>> /\ Last(tickers) = t
    BY <1>3, <1>7, Turned
  <2> HIDE DEF tickers
  <2> QED BY <2>1, Shortened
<1> HIDE DEF groups, tickers
<1>10. /\ groupsLeft \in Seq(Groups) /\ IsInjective(groupsLeft)
       /\ ToSet(groupsLeft) = IF Len(queue[g]) = 1 THEN ToSet(groupOrder[t]) \ {g} ELSE ToSet(groupOrder[t])
  BY <1>8
<1> HIDE DEF groupsLeft
<1>11. /\ tickerOrder' \in Seq(Tickers) /\ IsInjective(tickerOrder')
       /\ ToSet(tickerOrder') = IF groupsLeft = <<>> THEN ToSet(tickerOrder) \ {t} ELSE ToSet(tickerOrder)
  BY <1>4, <1>9
<1>12. /\ Tail(queue[g]) \in Seq(Jobs) /\ IsInjective(Tail(queue[g])) /\ ToSet(Tail(queue[g])) = QueuedOf(g) \ {j}
       /\ Tail(queue[g]) = <<>> <=> Len(queue[g]) = 1
  <2>1. ToSet(queue[g]) = QueuedOf(g)
    BY <1>3, <1>6 DEF QueuesExact
  <2>2. /\ Tail(queue[g]) \in Seq(Jobs) /\ IsInjective(Tail(queue[g])) /\ ToSet(Tail(queue[g])) = QueuedOf(g) \ {j}
        /\ Len(Tail(queue[g])) = Len(queue[g]) - 1 /\ Len(queue[g]) \in Nat
    BY <1>2, <1>3, <2>1, Popped
  <2>3. \A s \in Seq(Jobs) : s = <<>> <=> Len(s) = 0
    OBVIOUS
  <2>4. Tail(queue[g]) = <<>> <=> Len(Tail(queue[g])) = 0
    BY <2>2, <2>3
  <2> QED BY <2>2, <2>4
<1>13. /\ phase'[j] = "active" /\ \A x \in Jobs \ {j} : phase'[x] = phase[x]
       /\ \A x \in Groups : queue'[x] = IF x = g THEN Tail(queue[g]) ELSE queue[x]
       /\ \A x \in Groups : activeByGroup'[x] = IF x = g THEN activeByGroup[g] + 1 ELSE activeByGroup[x]
       /\ \A u \in Tickers : activeByTicker'[u] = IF u = t THEN activeByTicker[t] + 1 ELSE activeByTicker[u]
       /\ \A u \in Tickers : groupOrder'[u] = IF u = t THEN groupsLeft ELSE groupOrder[u]
  BY <1>3, <1>4, <1>6 DEF TypeOK
<1>14. /\ Counted' = Counted \cup {j} /\ j \notin Counted /\ InPhase({"callback"})' = InPhase({"callback"})
       /\ \A x : GroupCounted(x)' = IF x = g THEN GroupCounted(x) \cup {j} ELSE GroupCounted(x)
       /\ \A u : TickerCounted(u)' = IF u = t THEN TickerCounted(u) \cup {j} ELSE TickerCounted(u)
       /\ \A x : QueuedOf(x)' = IF x = g THEN QueuedOf(x) \ {j} ELSE QueuedOf(x)
       /\ \A x : j \notin GroupCounted(x) /\ j \notin TickerCounted(x)
  <2>1. Counted' = Counted \cup {j} /\ j \notin Counted /\ InPhase({"callback"})' = InPhase({"callback"})
    BY <1>3, <1>13 DEF InPhase, Counted
  <2>2. \A x : GroupCounted(x)' = IF x = g THEN GroupCounted(x) \cup {j} ELSE GroupCounted(x)
    BY <1>3, <2>1 DEF GroupCounted
  <2>3. \A u : TickerCounted(u)' = IF u = t THEN TickerCounted(u) \cup {j} ELSE TickerCounted(u)
    BY <1>3, <2>1 DEF TickerCounted
  <2>4. \A x : QueuedOf(x)' = IF x = g THEN QueuedOf(x) \ {j} ELSE QueuedOf(x)
    BY <1>3, <1>13 DEF QueuedOf, InPhase
  <2> QED BY <2>1, <2>2, <2>3, <2>4 DEF GroupCounted, TickerCounted
<1>15. TypeOK'
  <2>1. phase' \in [Jobs -> {"new", "queued", "active", "ended", "callback", "done"}]
    BY <1>4, <1>6 DEF TypeOK
  <2>2. queue' \in [Groups -> Seq(Jobs)] /\ groupOrder' \in [Tickers -> Seq(Groups)]
    BY <1>4, <1>6, <1>10, <1>12 DEF TypeOK
  <2>3. activeTotal' \in 0..MaxWorkers
    BY <1>3, <1>4, <1>6, SchedulerAssumption DEF TypeOK
  <2>4. activeByGroup' \in [Groups -> 0..MaxPerGroup]
    <3>1. activeByGroup[g] \in 0..MaxPerGroup /\ MaxPerGroup \in Nat
      BY <1>3, <1>6, SchedulerAssumption DEF TypeOK
    <3>2. activeByGroup[g] + 1 \in 0..MaxPerGroup
      BY <1>3, <3>1
    <3> QED BY <1>4, <1>6, <3>2 DEF TypeOK
  <2>5. activeByTicker' \in [Tickers -> 0..MaxPerTicker]
    <3>1. activeByTicker[t] \in 0..MaxPerTicker /\ MaxPerTicker \in Nat
      BY <1>3, <1>6, SchedulerAssumption DEF TypeOK
    <3>2. activeByTicker[t] + 1 \in 0..MaxPerTicker
      BY <1>3, <3>1
    <3> QED BY <1>4, <1>6, <3>2 DEF TypeOK
  <2>6. cursor' \in 0..Len(StageCycle) - 1
    <3>1. Len(StageCycle) = 6
      BY DEF StageCycle
    <3>2. PICK o \in ReadyOffsets : cursor' = (cursor + o + 1) % 6
      BY <1>1, <3>1
    <3>3. o \in 0..5 /\ cursor \in 0..5
      BY <1>6, <3>1 DEF TypeOK, ReadyOffsets
    <3>4. cursor + o + 1 \in Nat
      BY <3>3
    <3>5. (cursor + o + 1) % 6 \in 0..5
      BY <3>4
    <3> QED BY <3>1, <3>2, <3>5
  <2> QED BY <1>5, <1>6, <1>11, <2>1, <2>2, <2>3, <2>4, <2>5, <2>6 DEF TypeOK
<1>16. Stacked' /\ stack' # <<>>
  BY <1>4, <1>5, <1>6, FrameTypes, Pushed DEF Stacked
<1>17. Arriving'
  BY <1>3, <1>5, <1>6, <1>13 DEF Arriving
<1>18. Finished'
  <2>1. main \notin {"drained", "closed"}
    BY <1>3, <1>6 DEF Finished, InPhase
  <2> QED BY <1>5, <1>6, <2>1 DEF Finished
<1>19. CountsExact'
  <2>1. activeTotal' = Cardinality(Counted')
    BY <1>4, <1>6, <1>14, Phases, Joins DEF CountsExact
  <2>2. \A x \in Groups : activeByGroup'[x] = Cardinality(GroupCounted(x)')
    <3> SUFFICES ASSUME NEW x \in Groups PROVE activeByGroup'[x] = Cardinality(GroupCounted(x)')
      OBVIOUS
    <3>1. Cardinality(GroupCounted(x) \cup {j}) = Cardinality(GroupCounted(x)) + 1
      BY <1>14, Phases, Joins
    <3> QED BY <1>6, <1>13, <1>14, <3>1 DEF CountsExact
  <2>3. \A u \in Tickers : activeByTicker'[u] = Cardinality(TickerCounted(u)')
    <3> SUFFICES ASSUME NEW u \in Tickers PROVE activeByTicker'[u] = Cardinality(TickerCounted(u)')
      OBVIOUS
    <3>1. Cardinality(TickerCounted(u) \cup {j}) = Cardinality(TickerCounted(u)) + 1
      BY <1>14, Phases, Joins
    <3> QED BY <1>6, <1>13, <1>14, <3>1 DEF CountsExact
  <2> QED BY <1>5, <1>6, <1>14, <2>1, <2>2, <2>3 DEF CountsExact
<1>20. QueuesExact'
  <2>1. \A x \in Groups : queue'[x] # <<>> <=> queue[x] # <<>> /\ ~(x = g /\ Len(queue[g]) = 1)
    BY <1>3, <1>12, <1>13
  <2>2. ASSUME NEW u \in Tickers
        PROVE  /\ IsInjective(groupOrder'[u])
               /\ ToSet(groupOrder'[u]) = {x \in Groups : TickerOfGroup[x] = u /\ queue'[x] # <<>>}
               /\ u \in ToSet(tickerOrder') <=> groupOrder'[u] # <<>>
    <3>1. /\ IsInjective(groupOrder[u])
          /\ ToSet(groupOrder[u]) = {x \in Groups : TickerOfGroup[x] = u /\ queue[x] # <<>>}
          /\ u \in ToSet(tickerOrder) <=> groupOrder[u] # <<>>
      BY <1>6 DEF QueuesExact
    <3>2. CASE u = t
      <4>1. groupOrder'[u] = groupsLeft /\ t \in ToSet(tickerOrder)
        <5>1. g \in ToSet(groupOrder[t])
          BY <1>3, <1>7
        <5>2. groupOrder[t] # <<>>
          BY <5>1 DEF ToSet
        <5> QED BY <1>13, <3>1, <3>2, <5>2
      <4>2. ToSet(groupOrder'[u]) = {x \in Groups : TickerOfGroup[x] = u /\ queue'[x] # <<>>}
        BY <1>3, <1>7, <1>10, <2>1, <3>2, <4>1
      <4>3. u \in ToSet(tickerOrder') <=> groupOrder'[u] # <<>>
        BY <1>11, <3>2, <4>1
      <4> QED BY <1>10, <4>1, <4>2, <4>3
    <3>3. CASE u # t
      <4>1. groupOrder'[u] = groupOrder[u]
        BY <1>13, <3>3
      <4>2. ToSet(groupOrder'[u]) = {x \in Groups : TickerOfGroup[x] = u /\ queue'[x] # <<>>}
        BY <1>3, <2>1, <3>1, <3>3, <4>1
      <4> QED BY <1>11, <3>1, <3>3, <4>1, <4>2
    <3> QED BY <3>2, <3>3
  <2>3. ASSUME NEW x \in Groups PROVE IsInjective(queue'[x]) /\ ToSet(queue'[x]) = QueuedOf(x)'
    <3>1. CASE x = g
      BY <1>12, <1>13, <1>14, <3>1
    <3>2. CASE x # g
      BY <1>6, <1>13, <1>14, <3>2 DEF QueuesExact
    <3> QED BY <3>1, <3>2
  <2> QED BY <1>11, <2>2, <2>3 DEF QueuesExact
<1>21. WorkConserving'
  BY <1>16 DEF WorkConserving, LockFree
<1> QED BY <1>15, <1>16, <1>17, <1>18, <1>19, <1>20, <1>21 DEF IInv

-----------------------------------------------------------------------------
LEMMA MainHolds ==
  ASSUME IInv, MainWaits \/ WaitReturns \/ Close
  PROVE  IInv'
<1>1. /\ UNCHANGED <<phase, tickerOrder, groupOrder, queue, cursor, activeTotal, activeByGroup, activeByTicker,
                     callbacksInflight, stack, arrivals, rejected>>
      /\ main' \in {"submitting", "waiting", "drained", "closed"}
  BY DEF MainWaits, WaitReturns, Close, queues, counters
<1>2. TypeOK' /\ Arriving'
  BY <1>1 DEF IInv, TypeOK, Arriving
<1>3. CountsExact' /\ QueuesExact'
  BY <1>1 DEF IInv, CountsExact, QueuesExact, InPhase, Counted, GroupCounted, TickerCounted, QueuedOf
<1>4. Stacked' /\ WorkConserving'
  BY <1>1, SameReadiness DEF IInv, Stacked, WorkConserving, LockFree
<1>5. Finished'
  <2>1. CASE MainWaits
    BY <2>1 DEF MainWaits, Finished
  <2>2. CASE WaitReturns
    <3>1. activeTotal = 0 /\ callbacksInflight = 0 /\ tickerOrder = <<>>
      BY <2>2 DEF WaitReturns, Drained
    <3>2. Counted = {} /\ InPhase({"callback"}) = {}
      BY <3>1, Phases, JobsCounted DEF IInv, CountsExact
    <3>3. InPhase({"queued"}) = {}
      <4> SUFFICES ASSUME NEW j \in InPhase({"queued"}) PROVE FALSE
        OBVIOUS
      <4>1. j \in Jobs /\ GroupOf[j] \in Groups /\ TickerOf[j] \in Tickers /\ TickerOfGroup[GroupOf[j]] = TickerOf[j]
        BY Owners DEF InPhase
      <4>2. j \in ToSet(queue[GroupOf[j]])
        BY <4>1 DEF IInv, QueuesExact, QueuedOf
      <4>3. queue[GroupOf[j]] # <<>>
        BY <4>2 DEF ToSet
      <4>4. GroupOf[j] \in ToSet(groupOrder[TickerOf[j]])
        BY <4>1, <4>3 DEF IInv, QueuesExact
      <4>5. groupOrder[TickerOf[j]] # <<>>
        BY <4>4 DEF ToSet
      <4>6. TickerOf[j] \in ToSet(<<>>)
        BY <3>1, <4>1, <4>5 DEF IInv, QueuesExact
      <4> QED BY <4>6 DEF ToSet
    <3>4. InPhase({"queued", "active", "ended", "callback"}) = {}
      BY <3>2, <3>3 DEF InPhase, Counted
    <3> QED BY <1>1, <2>2, <3>4 DEF WaitReturns, Finished, IInv, InPhase
  <2>3. CASE Close
    BY <1>1, <2>3 DEF Close, Finished, IInv, InPhase
  <2> QED BY <2>1, <2>2, <2>3
<1> QED BY <1>2, <1>3, <1>4, <1>5 DEF IInv

LEMMA InitHolds ==
  ASSUME Init
  PROVE  IInv
<1>1. /\ phase = [j \in Jobs |-> "new"] /\ tickerOrder = <<>> /\ groupOrder = [t \in Tickers |-> <<>>]
      /\ queue = [g \in Groups |-> <<>>] /\ cursor = 0 /\ activeTotal = 0
      /\ activeByGroup = [g \in Groups |-> 0] /\ activeByTicker = [t \in Tickers |-> 0]
      /\ callbacksInflight = 0 /\ stack = <<>> /\ main = "submitting" /\ rejected = FALSE
      /\ arrivals \in Seq(Jobs) /\ IsInjective(arrivals) /\ \A j \in Jobs : FollowUp[j] \cap ToSet(arrivals) = {}
  BY SchedulerAssumption DEF Init
<1>2. \A S : "new" \notin S => InPhase(S) = {}
  BY <1>1 DEF InPhase
<1>3. Counted = {} /\ InPhase({"queued"}) = {} /\ InPhase({"callback"}) = {}
  BY <1>2 DEF Counted
<1>4. \A x : GroupCounted(x) = {} /\ TickerCounted(x) = {} /\ QueuedOf(x) = {}
  BY <1>3 DEF GroupCounted, TickerCounted, QueuedOf
<1>5. 0 \in 0..MaxWorkers /\ 0 \in 0..MaxPerGroup /\ 0 \in 0..MaxPerTicker /\ 0 \in 0..Len(StageCycle) - 1
  BY SchedulerAssumption DEF StageCycle
<1>6. TypeOK
  <2>1. phase \in [Jobs -> {"new", "queued", "active", "ended", "callback", "done"}]
    BY <1>1
  <2>2. queue \in [Groups -> Seq(Jobs)] /\ groupOrder \in [Tickers -> Seq(Groups)] /\ tickerOrder \in Seq(Tickers)
    BY <1>1
  <2> QED BY <1>1, <1>5, <2>1, <2>2 DEF TypeOK
<1>7. Stacked /\ Arriving /\ Finished
  BY <1>1 DEF Stacked, Arriving, Finished
<1>8. CountsExact
  <2>1. Cardinality({}) = 0
    BY FS_EmptySet
  <2> QED BY <1>1, <1>3, <1>4, <2>1 DEF CountsExact
<1>9. QueuesExact
  <2>1. IsInjective(<<>>) /\ ToSet(<<>>) = {}
    BY DEF IsInjective, ToSet
  <2>2. \A g \in Groups : queue[g] = <<>>
    BY <1>1
  <2>3. \A t \in Tickers : groupOrder[t] = <<>>
    BY <1>1
  <2> QED BY <1>1, <1>4, <2>1, <2>2, <2>3 DEF QueuesExact
<1>10. WorkConserving
  <2>1. tickerOrder \in Seq(Tickers) /\ Len(tickerOrder) = 0
    BY <1>1
  <2>2. \A stage : ReadyTicker(stage) \in 0..Len(tickerOrder)
    BY <2>1, TickerSearch
  <2>3. \A stage : ~(ReadyTicker(stage) > 0)
    BY <2>1, <2>2
  <2> QED BY <2>3 DEF WorkConserving, NothingReady, ReadyOffsets
<1> QED BY <1>6, <1>7, <1>8, <1>9, <1>10 DEF IInv

LEMMA NextHolds ==
  ASSUME IInv, [Next]_vars
  PROVE  IInv'
<1>1. CASE Main
  BY <1>1, MainSubmitsHolds, MainHolds DEF Main
<1>2. CASE LockOwner
  BY <1>2, DispatchOneHolds, DispatchEndsHolds, RegisterCallbackHolds DEF LockOwner
<1>3. ASSUME NEW j \in Jobs, Worker(j) PROVE IInv'
  BY <1>3, JobEndsHolds, DoneOnWorkerHolds, HookSubmitsHolds, DoneCallbackHolds DEF Worker
<1>4. CASE UNCHANGED vars
  <2>1. UNCHANGED <<phase, tickerOrder, groupOrder, queue, cursor, activeTotal, activeByGroup, activeByTicker,
                    callbacksInflight, stack, arrivals, main, rejected>>
    BY <1>4 DEF vars
  <2>2. TypeOK' /\ Arriving' /\ Finished'
    BY <2>1 DEF IInv, TypeOK, Arriving, Finished, InPhase
  <2>3. CountsExact' /\ QueuesExact'
    BY <2>1 DEF IInv, CountsExact, QueuesExact, InPhase, Counted, GroupCounted, TickerCounted, QueuedOf
  <2>4. Stacked' /\ WorkConserving'
    BY <2>1, SameReadiness DEF IInv, Stacked, WorkConserving, LockFree
  <2> QED BY <2>2, <2>3, <2>4 DEF IInv
<1> QED BY <1>1, <1>2, <1>3, <1>4 DEF Next, Terminated

(* The inductive invariant holds in every reachable state.                 *)
THEOREM Invariance == Spec => []IInv
<1>1. Init => IInv
  BY InitHolds
<1>2. IInv /\ [Next]_vars => IInv'
  BY NextHolds
<1> QED BY <1>1, <1>2, PTL DEF Spec

(* Counters and nested queues, which submit, the dispatch and both         *)
(* critical sections of _done keep apart, are the jobs they stand for.     *)
THEOREM BooksAreExact == Spec => []BookkeepingExact
<1>1. ASSUME IInv PROVE BookkeepingExact
  <2>1. \A t \in Tickers : Contains(tickerOrder, t) <=> t \in ToSet(tickerOrder)
    BY <1>1 DEF IInv, TypeOK, Contains, ToSet
  <2> QED BY <1>1, <2>1 DEF IInv, CountsExact, QueuesExact, BookkeepingExact, QueuedOf, GroupCounted, TickerCounted
<1> QED BY <1>1, Invariance, PTL

(* With no completion hook outstanding, a worker is idle only if no job    *)
(* that waits may run: _done dispatches after the hook, and a job that     *)
(* ended early is completed inside the dispatch.                           *)
THEOREM NoIdleWorker == Spec => []WorkConserving
<1>1. IInv => WorkConserving
  BY DEF IInv
<1> QED BY <1>1, Invariance, PTL

-----------------------------------------------------------------------------
(* The job pool the scheduler implements: the status of each job.          *)

StatusOf(p) == CASE p = "new"                 -> "new"
                 [] p = "queued"              -> "pending"
                 [] p \in {"active", "ended"} -> "running"
                 [] p = "callback"            -> "notifying"
                 [] OTHER                     -> "completed"

Status == [j \in Jobs |-> StatusOf(phase[j])]

LEMMA StatusValues ==
  /\ StatusOf("new") = "new" /\ StatusOf("queued") = "pending" /\ StatusOf("active") = "running"
  /\ StatusOf("ended") = "running" /\ StatusOf("callback") = "notifying" /\ StatusOf("done") = "completed"
BY DEF StatusOf

LEMMA StatusMoves ==
  ASSUME TypeOK, NEW j \in Jobs, NEW p, phase' = [phase EXCEPT ![j] = p]
  PROVE  Status[j] = StatusOf(phase[j]) /\ Status' = [Status EXCEPT ![j] = StatusOf(p)]
<1>1. phase'[j] = p /\ \A k \in Jobs \ {j} : phase'[k] = phase[k]
  BY DEF TypeOK
<1>2. Status = [k \in Jobs |-> StatusOf(phase[k])]
  BY DEF Status
<1>3. Status' = [k \in Jobs |-> StatusOf(phase'[k])]
  BY DEF Status
<1>4. Status' = [k \in Jobs |-> IF k = j THEN StatusOf(p) ELSE StatusOf(phase[k])]
  BY <1>1, <1>3
<1> QED BY <1>2, <1>4

(* A dispatch keeps the pool's caps.                                       *)
LEMMA StaysWithin ==
  ASSUME TypeOK, TypeOK', CountsExact', NEW j \in Jobs, phase' = [phase EXCEPT ![j] = "active"]
  PROVE  Pool!Within(Pool!Running \cup {j})
<1>1. Pool!Running \cup {j} = Counted'
  <2>1. \A k \in Jobs : Status[k] = "running" <=> phase[k] \in {"active", "ended"}
    BY StatusValues DEF Status, TypeOK
  <2>2. Pool!Running = {k \in Jobs : Status[k] = "running"}
    BY DEF Pool!Running, Status, StatusOf
  <2>3. phase'[j] = "active" /\ \A k \in Jobs \ {j} : phase'[k] = phase[k]
    BY DEF TypeOK
  <2> QED BY <2>1, <2>2, <2>3 DEF Counted, InPhase
<1>2. Counted' \cap Jobs = Counted' /\ \A x : /\ Counted' \cap {k \in Jobs : GroupOf[k] = x} = GroupCounted(x)'
                                             /\ Counted' \cap {k \in Jobs : TickerOf[k] = x} = TickerCounted(x)'
  BY DEF Counted, GroupCounted, TickerCounted, InPhase
<1>3. /\ Cardinality(Counted') <= MaxWorkers
      /\ \A g \in Groups : Cardinality(GroupCounted(g)') <= MaxPerGroup
      /\ \A t \in Tickers : Cardinality(TickerCounted(t)') <= MaxPerTicker
  BY DEF CountsExact, TypeOK
<1>4. Cardinality(Counted' \cap Jobs) <= MaxWorkers
  BY <1>2, <1>3
<1>5. /\ \A g \in Groups : Cardinality(Counted' \cap {k \in Jobs : GroupOf[k] = g}) <= MaxPerGroup
      /\ \A t \in Tickers : Cardinality(Counted' \cap {k \in Jobs : TickerOf[k] = t}) <= MaxPerTicker
  BY <1>2, <1>3
<1>6. ASSUME NEW S, S = Counted' PROVE Pool!Within(S)
  <2>1. ASSUME NEW c \in {<<Jobs, MaxWorkers>>}
                     \cup {<<{k \in Jobs : GroupOf[k] = g}, MaxPerGroup>> : g \in Groups}
                     \cup {<<{k \in Jobs : TickerOf[k] = t}, MaxPerTicker>> : t \in Tickers}
        PROVE  Cardinality(S \cap c[1]) <= c[2]
    <3>1. CASE c = <<Jobs, MaxWorkers>>
      BY <1>4, <1>6, <3>1
    <3>2. ASSUME NEW t \in Tickers, c = <<{k \in Jobs : TickerOf[k] = t}, MaxPerTicker>>
          PROVE  Cardinality(S \cap c[1]) <= c[2]
      BY <1>5, <1>6, <3>2
    <3>3. ASSUME NEW g \in Groups, c = <<{k \in Jobs : GroupOf[k] = g}, MaxPerGroup>>
          PROVE  Cardinality(S \cap c[1]) <= c[2]
      BY <1>5, <1>6, <3>3
    <3> QED BY <3>1, <3>2, <3>3
  <2>2. \A R : Pool!Cardinality(R) = Cardinality(R)
    BY DEF Pool!Cardinality, Cardinality
  <2> QED BY <2>1, <2>2 DEF Pool!Within
<1> QED BY <1>1, <1>6

LEMMA PoolStep ==
  ASSUME IInv, IInv', [Next]_vars
  PROVE  [Pool!Next]_(Pool!vars)
<1> USE DEF IInv
<1>1. ASSUME UNCHANGED Status, (main = "closed")' = (main = "closed") PROVE UNCHANGED Pool!vars
  BY <1>1 DEF Pool!vars, Status, StatusOf
<1>2. ASSUME NEW j \in Jobs, phase[j] = "new", Enqueue(j), main # "closed", main' = main PROVE Pool!Next
  <2>1. phase' = [phase EXCEPT ![j] = "queued"]
    BY <1>2 DEF Enqueue
  <2>2. Status[j] = "new" /\ Status' = [Status EXCEPT ![j] = "pending"]
    BY <1>2, <2>1, StatusMoves, StatusValues
  <2>3. Pool!Submit(j)
    BY <1>2, <2>2 DEF Pool!Submit, Pool!Move, Status, StatusOf
  <2> QED BY <2>3 DEF Pool!Next
<1>3. CASE DispatchOne
  <2>1. PICK j \in Jobs : phase[j] = "queued" /\ phase' = [phase EXCEPT ![j] = "active"]
    <3>1. PICK t, g, i, k : Startable(t, g, i, k) /\ Start(t, g, i, k)
      BY <1>3, Found
    <3> QED BY <3>1 DEF Startable, Start
  <2>2. main' = main
    BY <1>3 DEF DispatchOne, callers
  <2>3. Status[j] = "pending" /\ Status' = [Status EXCEPT ![j] = "running"]
    BY <2>1, StatusMoves, StatusValues
  <2>4. Pool!Within(Pool!Running \cup {j})
    BY <2>1, StaysWithin
  <2>5. Pool!Start(j)
    BY <2>2, <2>3, <2>4 DEF Pool!Start, Pool!Move, Status, StatusOf
  <2>6. Pool!Next
    BY <2>5 DEF Pool!Next
  <2> QED BY <2>6
<1>4. ASSUME NEW j \in Jobs, JobEnds(j) PROVE UNCHANGED Pool!vars
  <2>1. phase[j] = "active" /\ main' = main /\ phase' = [phase EXCEPT ![j] = "ended"]
    BY <1>4 DEF JobEnds, callers
  <2>2. Status[j] = "running" /\ Status' = [Status EXCEPT ![j] = "running"]
    BY <2>1, StatusMoves, StatusValues
  <2>3. Status' = Status
    BY <2>2 DEF Status
  <2> QED BY <1>1, <2>1, <2>3
<1>5. ASSUME NEW j \in Jobs, phase[j] = "ended", Account(j), main' = main PROVE Pool!Next
  <2>1. phase' = [phase EXCEPT ![j] = "callback"]
    BY <1>5 DEF Account
  <2>2. Status[j] = "running" /\ Status' = [Status EXCEPT ![j] = "notifying"]
    BY <1>5, <2>1, StatusMoves, StatusValues
  <2>3. Pool!Finish(j)
    BY <1>5, <2>2 DEF Pool!Finish, Pool!Move, Status, StatusOf
  <2> QED BY <2>3 DEF Pool!Next
<1>6. ASSUME NEW j \in Jobs, DoneCallback(j) PROVE Pool!Next
  <2>1. phase[j] = "callback" /\ main' = main /\ phase' = [phase EXCEPT ![j] = "done"]
    BY <1>6 DEF DoneCallback, callers
  <2>2. Status[j] = "notifying" /\ Status' = [Status EXCEPT ![j] = "completed"]
    BY <2>1, StatusMoves, StatusValues
  <2>3. Pool!Complete(j)
    BY <2>1, <2>2 DEF Pool!Complete, Pool!Move, Status, StatusOf
  <2> QED BY <2>3 DEF Pool!Next
<1>7. CASE Close
  <2>1. main = "drained" /\ main' = "closed" /\ UNCHANGED phase
    BY <1>7 DEF Close
  <2>2. \A j \in Jobs : phase[j] \in {"new", "done"}
    BY <2>1 DEF Finished, InPhase, TypeOK
  <2>3. \A j \in Jobs : Status[j] \in {"new", "completed"}
    BY <2>2, StatusValues DEF Status
  <2>4. UNCHANGED Status
    BY <2>1 DEF Status
  <2>5. Pool!Close
    BY <2>1, <2>3, <2>4 DEF Pool!Close, Status, StatusOf
  <2> QED BY <2>5 DEF Pool!Next
<1>8. CASE MainWaits \/ WaitReturns \/ DispatchEnds \/ UNCHANGED vars
  <2>1. UNCHANGED phase /\ (main = "closed")' = (main = "closed")
    BY <1>8 DEF MainWaits, WaitReturns, DispatchEnds, vars, callers
  <2> QED BY <1>1, <2>1 DEF Status
<1>9. ASSUME NEW j \in Jobs, RegisterCallback(j) PROVE [Pool!Next]_(Pool!vars)
  <2>1. main' = main
    BY <1>9 DEF RegisterCallback, callers
  <2>2. CASE phase[j] = "ended"
    BY <1>5, <1>9, <2>1, <2>2 DEF RegisterCallback
  <2>3. CASE phase[j] # "ended"
    <3>1. UNCHANGED phase
      BY <1>9, <2>3 DEF RegisterCallback
    <3> QED BY <1>1, <2>1, <3>1 DEF Status
  <2> QED BY <2>2, <2>3
<1>10. ASSUME NEW j \in Jobs, DoneOnWorker(j) PROVE Pool!Next
  BY <1>5, <1>10 DEF DoneOnWorker, callers
<1>11. CASE MainSubmits
  <2>1. PICK j \in Jobs : phase[j] = "new" /\ Enqueue(j)
    <3>1. arrivals # <<>> /\ Enqueue(Head(arrivals))
      BY <1>11 DEF MainSubmits
    <3>2. arrivals \in Seq(Jobs) /\ \A i \in 1..Len(arrivals) : phase[arrivals[i]] = "new"
      BY DEF Arriving
    <3>3. 1 \in 1..Len(arrivals) /\ Head(arrivals) = arrivals[1] /\ arrivals[1] \in Jobs
      BY <3>1, <3>2
    <3> QED BY <3>1, <3>2, <3>3
  <2> QED BY <1>2, <1>11, <2>1 DEF MainSubmits
<1>12. ASSUME NEW j \in Jobs, HookSubmits(j) PROVE Pool!Next
  <2>1. PICK k \in Jobs : phase[j] = "callback" /\ phase[k] = "new" /\ (main = "closed" \/ Enqueue(k)) /\ main' = main
    BY <1>12, SchedulerAssumption DEF HookSubmits
  <2>2. main # "closed"
    BY <2>1 DEF Finished, InPhase
  <2> QED BY <1>2, <2>1, <2>2
<1> QED BY <1>3, <1>4, <1>6, <1>7, <1>8, <1>9, <1>10, <1>11, <1>12 DEF Next, Main, LockOwner, Worker, Terminated

(* Every behaviour of the scheduler is one of the job pool: no job runs    *)
(* twice or beyond the caps, each hook is called once after its job,       *)
(* nothing is accepted after close, and wait lets it close only when no    *)
(* job and no hook is left, also of those that hooks have submitted.       *)
THEOREM ImplementsJobPool == Spec => IsJobPool
<1>1. Init => Pool!Init
  <2> SUFFICES ASSUME Init PROVE Pool!Init
    OBVIOUS
  <2>1. phase = [j \in Jobs |-> "new"] /\ main = "submitting"
    BY DEF Init
  <2>2. Status = [j \in Jobs |-> "new"]
    BY <2>1, StatusValues DEF Status
  <2> QED BY <2>1, <2>2 DEF Pool!Init, Status, StatusOf
<1>2. IInv /\ IInv' /\ [Next]_vars => [Pool!Next]_(Pool!vars)
  BY PoolStep
<1> QED BY <1>1, <1>2, Invariance, PTL DEF Spec, IsJobPool, Pool!Spec

-----------------------------------------------------------------------------
(* The lanes.  Lag[s][c + 1] is the number of turns of the stage cycle     *)
(* just before cursor c that are not s's: a stage that had a job to run    *)
(* at every one of those dispatches was passed over at most that often,    *)
(* because a dispatch goes to the first ready stage from the cursor on.    *)

Lag == [document     |-> <<3, 0, 0, 0, 1, 2>>,
        announcement |-> <<1, 2, 3, 4, 0, 0>>,
        company      |-> <<0, 1, 2, 3, 4, 5>>]

GapBounded ==
  /\ overtaken \in [Stages -> Nat]
  /\ \A s \in Stages : overtaken[s] <= Lag[s][cursor + 1]

LEMMA Lanes ==
  /\ Stages = {"document", "announcement", "company"}
  /\ Len(StageCycle) = 6
  /\ \A s \in Stages, c \in 0..5 : Lag[s][c + 1] \in Nat /\ Lag[s][c + 1] <= 6 - STAGE_WEIGHTS[s]
<1>1. Stages = {"document", "announcement", "company"}
  BY DEF Stages, STAGE_WEIGHTS
<1>2. Len(StageCycle) = 6
  BY DEF StageCycle
<1>3. \A s \in {"document", "announcement", "company"}, c \in 0..5 :
        Lag[s][c + 1] \in Nat /\ Lag[s][c + 1] <= 6 - STAGE_WEIGHTS[s]
  BY DEF Lag, STAGE_WEIGHTS
<1> QED BY <1>1, <1>2, <1>3

(* A dispatch that passes no turn of s moves the cursor further from s's   *)
(* last one.                                                               *)
LEMMA Advances ==
  ASSUME NEW c \in 0..5, NEW o \in 0..5, NEW s \in Stages,
         \A p \in 0..o : StageCycle[((c + p) % 6) + 1] # s
  PROVE  Lag[s][((c + o + 1) % 6) + 1] >= Lag[s][c + 1] + 1
<1>1. \A n \in 0..11 : n % 6 = IF n < 6 THEN n ELSE n - 6
  OBVIOUS
<1>2. s \in {"document", "announcement", "company"}
  BY Lanes
<1>3. /\ \A x \in 0..5 : StageCycle[x + 1] = IF x < 3 THEN "document" ELSE IF x < 5 THEN "announcement" ELSE "company"
      /\ \A x \in 0..5 : Lag["document"][x + 1] = IF x = 0 THEN 3 ELSE IF x < 4 THEN 0 ELSE x - 3
      /\ \A x \in 0..5 : Lag["announcement"][x + 1] = IF x < 4 THEN x + 1 ELSE 0
      /\ \A x \in 0..5 : Lag["company"][x + 1] = x
  BY DEF StageCycle, Lag
<1> DEFINE At(x) == IF x < 6 THEN x ELSE x - 6
<1>4. \A p \in 0..o : At(c + p) \in 0..5 /\ StageCycle[At(c + p) + 1] # s
  BY <1>1
<1>5. At(c + o + 1) \in 0..5 /\ (c + o + 1) % 6 = At(c + o + 1)
  BY <1>1
<1>6. CASE s = "document"
  <2>1. \A p \in 0..o : At(c + p) >= 3
    BY <1>3, <1>4, <1>6
  <2>2. c >= 3 /\ (c + o >= 6 => 6 - c \in 0..o)
    BY <2>1
  <2>3. c + o < 6
    BY <2>1, <2>2
  <2>4. Lag["document"][At(c + o + 1) + 1] >= Lag["document"][c + 1] + 1
    BY <1>3, <1>5, <2>2, <2>3
  <2> QED BY <1>5, <1>6, <2>4
<1>7. CASE s = "announcement"
  <2>1. \A p \in 0..o : ~(At(c + p) >= 3 /\ At(c + p) < 5)
    BY <1>3, <1>4, <1>7
  <2>2. /\ c < 3 \/ c = 5
        /\ c < 3 /\ c + o >= 3 => 3 - c \in 0..o
        /\ c = 5 /\ o >= 4 => 4 \in 0..o
    BY <2>1
  <2>3. (c < 3 => c + o < 3) /\ (c = 5 => o < 4)
    BY <2>1, <2>2
  <2>4. Lag["announcement"][At(c + o + 1) + 1] >= Lag["announcement"][c + 1] + 1
    BY <1>3, <1>5, <2>2, <2>3
  <2> QED BY <1>5, <1>7, <2>4
<1>8. CASE s = "company"
  <2>1. \A p \in 0..o : At(c + p) # 5
    BY <1>3, <1>4, <1>8
  <2>2. Lag["company"][At(c + o + 1) + 1] >= Lag["company"][c + 1] + 1
    BY <1>3, <1>5, <2>1
  <2> QED BY <1>5, <1>8, <2>2
<1> QED BY <1>2, <1>6, <1>7, <1>8

(* A dispatch serves the first stage, from the cursor on, that has a job.  *)
LEMMA FirstServed ==
  ASSUME TypeOK, DispatchOne
  PROVE  /\ FirstReady \in 0..5 /\ cursor \in 0..5
         /\ cursor' = (cursor + FirstReady + 1) % 6
         /\ \A p \in 0..FirstReady : p # FirstReady => ~(ReadyTicker(StageAt(p)) > 0)
<1>1. Len(StageCycle) = 6 /\ cursor \in 0..5
  BY Lanes DEF TypeOK
<1>2. ReadyOffsets \in SUBSET Nat /\ ReadyOffsets \subseteq 0..5
  BY <1>1 DEF ReadyOffsets
<1>3. PICK o \in ReadyOffsets : o = FirstReady /\ cursor' = (cursor + o + 1) % Len(StageCycle)
  BY DEF DispatchOne
<1>4. \E q \in ReadyOffsets : \A p \in ReadyOffsets : q <= p
  BY <1>2, <1>3, LeastElement
<1>5. FirstReady \in ReadyOffsets /\ \A p \in ReadyOffsets : FirstReady <= p
  BY <1>4 DEF FirstReady
<1>6. \A p \in 0..FirstReady : p # FirstReady => p \notin ReadyOffsets /\ p \in 0..Len(StageCycle) - 1
  BY <1>1, <1>2, <1>5
<1>7. \A p \in 0..FirstReady : p # FirstReady => ~(ReadyTicker(StageAt(p)) > 0)
  BY <1>6 DEF ReadyOffsets
<1> QED BY <1>1, <1>2, <1>3, <1>5, <1>7

LEMMA DispatchKeepsGap ==
  ASSUME TypeOK, GapBounded, ObservedDispatch
  PROVE  GapBounded'
<1>1. DispatchOne
  BY DEF ObservedDispatch
<1>2. /\ FirstReady \in 0..5 /\ cursor \in 0..5
      /\ cursor' = (cursor + FirstReady + 1) % 6
      /\ \A p \in 0..FirstReady : p # FirstReady => ~(ReadyTicker(StageAt(p)) > 0)
  BY <1>1, FirstServed
<1>3. cursor' \in 0..5
  BY <1>2
<1>4. \A s : ReadyTicker(s) \in Nat
  <2>1. tickerOrder \in Seq(Tickers) /\ Len(tickerOrder) \in Nat
    BY DEF TypeOK
  <2> QED BY <2>1, TickerSearch
<1>5. \A s \in Stages : overtaken'[s] = IF s = StageAt(FirstReady) \/ ReadyTicker(s) = 0 THEN 0 ELSE overtaken[s] + 1
  BY DEF ObservedDispatch
<1>6. overtaken' \in [Stages -> Nat]
  BY DEF ObservedDispatch, GapBounded
<1>7. ASSUME NEW s \in Stages PROVE overtaken'[s] <= Lag[s][cursor' + 1]
  <2>1. CASE s = StageAt(FirstReady) \/ ReadyTicker(s) = 0
    BY <1>3, <1>5, <2>1, Lanes
  <2>2. CASE s # StageAt(FirstReady) /\ ReadyTicker(s) # 0
    <3>1. \A p \in 0..FirstReady : StageAt(p) # s
      BY <1>2, <1>4, <2>2
    <3>2. \A p \in 0..FirstReady : StageCycle[((cursor + p) % 6) + 1] # s
      BY <3>1, Lanes DEF StageAt
    <3>3. Lag[s][cursor' + 1] >= Lag[s][cursor + 1] + 1
      BY <1>2, <3>2, Advances
    <3>4. overtaken'[s] = overtaken[s] + 1 /\ overtaken[s] \in Nat /\ overtaken[s] <= Lag[s][cursor + 1]
      BY <1>5, <2>2 DEF GapBounded
    <3>5. Lag[s][cursor + 1] \in Nat /\ Lag[s][cursor' + 1] \in Nat
      BY <1>2, <1>3, Lanes
    <3> QED BY <3>3, <3>4, <3>5
  <2> QED BY <2>1, <2>2
<1> QED BY <1>6, <1>7 DEF GapBounded

LEMMA CursorKept ==
  ASSUME OtherSteps
  PROVE  UNCHANGED cursor
<1>1. CASE Main
  BY <1>1 DEF Main, MainSubmits, MainWaits, WaitReturns, Close
<1>2. CASE DispatchEnds
  BY <1>2 DEF DispatchEnds
<1>3. ASSUME NEW j \in Jobs, RegisterCallback(j) PROVE UNCHANGED cursor
  BY <1>3 DEF RegisterCallback
<1>4. ASSUME NEW j \in Jobs, Worker(j) PROVE UNCHANGED cursor
  BY <1>4 DEF Worker, JobEnds, DoneOnWorker, HookSubmits, DoneCallback
<1>5. CASE Terminated
  BY <1>5 DEF Terminated, vars
<1> QED BY <1>1, <1>2, <1>3, <1>4, <1>5 DEF OtherSteps

(* Whatever is submitted, finishes or is held back by a cap meanwhile: a   *)
(* stage that keeps a job to run is served after at most as many           *)
(* dispatches of the other stages as their weights add up to.              *)
THEOREM NoLaneStarves == FSpec => []LaneGap
<1>1. FInit => IInv /\ GapBounded
  <2> SUFFICES ASSUME FInit PROVE IInv /\ GapBounded
    OBVIOUS
  <2>1. IInv
    BY InitHolds DEF FInit
  <2>2. cursor = 0 /\ overtaken = [s \in Stages |-> 0]
    BY DEF FInit, Init
  <2>3. \A s \in Stages : Lag[s][0 + 1] \in Nat
    BY Lanes
  <2> QED BY <2>1, <2>2, <2>3 DEF GapBounded
<1>2. IInv /\ GapBounded /\ [FNext]_fairVars => IInv' /\ GapBounded'
  <2> SUFFICES ASSUME IInv, GapBounded, [FNext]_fairVars PROVE IInv' /\ GapBounded'
    OBVIOUS
  <2>1. [Next]_vars
    BY DEF FNext, ObservedDispatch, OtherSteps, Next, LockOwner, fairVars
  <2>2. IInv'
    BY <2>1, NextHolds
  <2>3. ASSUME ObservedDispatch PROVE GapBounded'
    BY <2>3, DispatchKeepsGap DEF IInv
  <2>4. ASSUME OtherSteps \/ UNCHANGED fairVars PROVE GapBounded'
    <3>1. UNCHANGED <<cursor, overtaken>>
      BY <2>4, CursorKept DEF OtherSteps, fairVars, vars
    <3> QED BY <3>1 DEF GapBounded
  <2> QED BY <2>2, <2>3, <2>4 DEF FNext
<1>3. IInv /\ GapBounded => LaneGap
  <2> SUFFICES ASSUME IInv, GapBounded, NEW s \in Stages
               PROVE  overtaken[s] <= Len(StageCycle) - STAGE_WEIGHTS[s]
    BY DEF LaneGap
  <2>1. Len(StageCycle) = 6 /\ cursor \in 0..5
    BY Lanes DEF IInv, TypeOK
  <2>2. Lag[s][cursor + 1] \in Nat /\ Lag[s][cursor + 1] <= 6 - STAGE_WEIGHTS[s]
    BY <2>1, Lanes
  <2>3. STAGE_WEIGHTS[s] \in Nat
    <3>1. s \in {"document", "announcement", "company"}
      BY Lanes
    <3> QED BY <3>1 DEF STAGE_WEIGHTS
  <2>4. overtaken[s] \in Nat /\ overtaken[s] <= Lag[s][cursor + 1]
    BY DEF GapBounded
  <2> QED BY <2>1, <2>2, <2>3, <2>4
<1> QED BY <1>1, <1>2, <1>3, PTL DEF FSpec
=============================================================================
