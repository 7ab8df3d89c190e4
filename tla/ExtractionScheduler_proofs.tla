---------------------- MODULE ExtractionScheduler_proofs ----------------------
(***************************************************************************)
(* For any finite set of jobs, any tickers, order of submission, number of *)
(* workers and caps: the extraction scheduler's counters and queues are    *)
(* the jobs they stand for, no worker idles beside a job it may run, no    *)
(* ticker is served twice while another could run, and the scheduler is a  *)
(* job pool.                                                               *)
(*                                                                         *)
(* IInv is the inductive invariant.  Stacked says what the lock's owner    *)
(* may be doing, which is why a dispatch is never lost; Ordered, that a    *)
(* ticker just served stands behind those it has overtaken.                *)
(***************************************************************************)
EXTENDS ExtractionScheduler, FiniteSetTheorems, FunctionTheorems, WellFoundedInduction, TLAPS

Frames == {Loop} \cup {Register(j) : j \in Jobs} \cup {Inline(j) : j \in Jobs}

(* Dispatches under way below; at most one job is being handed over.       *)
Stacked ==
  /\ stack \in Seq(Frames)
  /\ \A i \in 1..(Len(stack) - 1) : stack[i] = Loop
  /\ stack # <<>> => \/ Last(stack) = Loop
                     \/ Len(stack) >= 2 /\ \E j \in Jobs : \/ Last(stack) = Register(j) /\ phase[j] \in {"active", "ended"}
                                                           \/ Last(stack) = Inline(j) /\ phase[j] = "callback"

Arriving ==
  /\ arrivals \in Seq(Jobs) /\ IsInjective(arrivals)
  /\ \A i \in 1..Len(arrivals) : phase[arrivals[i]] = "new"

Finished ==
  /\ main # "submitting" => arrivals = <<>>
  /\ main \in {"drained", "closed"} => InPhase({"queued", "active", "ended", "callback"}) = {}

(* In the order of the queues, x comes before u.                           *)
Before(order, x, u) == \A i, k \in 1..Len(order) : order[i] = u /\ order[k] = x => k < i

Ordered ==
  \A x, u \in Tickers : passed[<<x, u>>] # 0 =>
    x # u /\ passed[<<x, u>>] = 1 /\ Ready(x) /\ Before(tickerOrder, x, u)

QueuedOf(t) == {j \in InPhase({"queued"}) : TickerOf[j] = t}
CountedOf(t) == {j \in Counted : TickerOf[j] = t}

Books ==
  /\ Cardinality(InPhase({"queued"}) \cup Counted) <= MaxInflight
  /\ activeTotal = Cardinality(Counted)
  /\ \A t \in Tickers : activeByTicker[t] = Cardinality(CountedOf(t))
  /\ callbacksInflight = Cardinality(InPhase({"callback"}))
  /\ IsInjective(tickerOrder)
  /\ ToSet(tickerOrder) = {t \in Tickers : queue[t] # <<>>}
  /\ \A t \in Tickers : IsInjective(queue[t]) /\ ToSet(queue[t]) = QueuedOf(t)

IInv == TypeOK /\ Stacked /\ Arriving /\ Finished /\ Books /\ WorkConserving /\ Ordered

-----------------------------------------------------------------------------
(* Numbers and sequences.                                                  *)

LEMMA LeastElement ==
  ASSUME NEW S \in SUBSET Nat, S # {}
  PROVE  Min(S) \in S /\ \A y \in S : Min(S) <= y
<1> DEFINE R == OpToRel(<, Nat)
<1>1. \E x \in S : \A y \in S : ~ (<<y, x>> \in R)
  BY WFMin, NatLessThanWellFounded
<1>2. \A x, y \in Nat : y < x => <<y, x>> \in R
  BY DEF OpToRel
<1> HIDE DEF R
<1>3. \A x, y \in Nat : ~ (y < x) => x <= y
  OBVIOUS
<1>4. \E x \in S : \A y \in S : x <= y
  BY <1>1, <1>2, <1>3
<1> QED BY <1>4 DEF Min

(* The search ends at the first ticker under its cap.                      *)
LEMMA Search ==
  ASSUME TypeOK
  PROVE  /\ ReadyTicker \in Nat /\ ReadyTicker <= Len(tickerOrder) /\ Len(tickerOrder) \in Nat
         /\ ReadyTicker = 0 => \A i \in 1..Len(tickerOrder) : activeByTicker[tickerOrder[i]] >= MaxPerTicker
         /\ ReadyTicker # 0 =>
              /\ activeByTicker[tickerOrder[ReadyTicker]] < MaxPerTicker
              /\ \A i \in 1..Len(tickerOrder) : i < ReadyTicker => activeByTicker[tickerOrder[i]] >= MaxPerTicker
<1> DEFINE Found == {i \in 1..Len(tickerOrder) : activeByTicker[tickerOrder[i]] < MaxPerTicker}
<1>1. ReadyTicker = IF Found # {} THEN Min(Found) ELSE 0
  BY DEF ReadyTicker, SelectInSeq
<1>2. tickerOrder \in Seq(Tickers) /\ Len(tickerOrder) \in Nat
  BY DEF TypeOK
<1>3. \A i \in 1..Len(tickerOrder) : activeByTicker[tickerOrder[i]] \in Nat /\ MaxPerTicker \in Nat
  BY <1>2, ExtractionAssumption DEF TypeOK
<1>4. Found \in SUBSET Nat
  OBVIOUS
<1>5. CASE Found = {}
  BY <1>1, <1>2, <1>3, <1>5
<1>6. CASE Found # {}
  <2>1. ReadyTicker \in Found /\ \A i \in Found : ReadyTicker <= i
    <3> HIDE DEF Found
    <3> QED BY <1>1, <1>4, <1>6, LeastElement
  <2>2. \A i \in 1..Len(tickerOrder) : i < ReadyTicker => i \notin Found
    BY <2>1
  <2> QED BY <1>2, <1>3, <2>1, <2>2
<1> QED BY <1>5, <1>6

LEMMA Concatenation ==
  ASSUME NEW S, NEW a \in Seq(S), NEW b \in Seq(S)
  PROVE  /\ a \o b \in Seq(S) /\ Len(a \o b) = Len(a) + Len(b)
         /\ \A k \in 1..(Len(a) + Len(b)) : (a \o b)[k] = IF k <= Len(a) THEN a[k] ELSE b[k - Len(a)]
OBVIOUS

LEMMA Rotation ==
  ASSUME NEW S, NEW s \in Seq(S), NEW i \in 1..Len(s)
  PROVE  /\ Rotated(s, i) \in Seq(S) /\ Len(Rotated(s, i)) = Len(s)
         /\ \A k \in 1..Len(s) : Rotated(s, i)[k] = IF k <= Len(s) - i THEN s[k + i] ELSE s[k - (Len(s) - i)]
<1> DEFINE n == Len(s)
           a == SubSeq(s, i + 1, n)
           b == SubSeq(s, 1, i)
<1>1. n \in Nat /\ i \in Nat /\ 1 <= i /\ i <= n
  OBVIOUS
<1>2. a \in Seq(S) /\ Len(a) = n - i /\ \A k \in 1..(n - i) : a[k] = s[k + i]
  BY <1>1
<1>3. b \in Seq(S) /\ Len(b) = i /\ \A k \in 1..i : b[k] = s[k]
  BY <1>1
<1>4. Rotated(s, i) = a \o b
  BY DEF Rotated
<1> HIDE DEF a, b, n
<1>5. Len(a) + Len(b) = n
  BY <1>1, <1>2, <1>3
<1>6. /\ a \o b \in Seq(S) /\ Len(a \o b) = n
      /\ \A k \in 1..n : (a \o b)[k] = IF k <= n - i THEN a[k] ELSE b[k - (n - i)]
  BY <1>2, <1>3, <1>5, Concatenation
<1>7. \A k \in 1..n : ~(k <= n - i) => k - (n - i) \in 1..i
  BY <1>1
<1>8. \A k \in 1..n : k <= n - i => k \in 1..(n - i)
  BY <1>1
<1>9. \A k \in 1..n : Rotated(s, i)[k] = IF k <= n - i THEN s[k + i] ELSE s[k - (n - i)]
  BY <1>2, <1>3, <1>4, <1>6, <1>7, <1>8
<1> QED BY <1>4, <1>6, <1>9 DEF n

(* A queue without its first element.                                      *)
LEMMA Popped ==
  ASSUME NEW S, NEW q \in Seq(S), q # <<>>, IsInjective(q)
  PROVE  /\ Head(q) \in S /\ Tail(q) \in Seq(S) /\ Len(Tail(q)) = Len(q) - 1
         /\ IsInjective(Tail(q))
         /\ ToSet(Tail(q)) = ToSet(q) \ {Head(q)} /\ Head(q) \in ToSet(q)
<1>1. Len(q) \in Nat /\ Len(q) >= 1 /\ DOMAIN q = 1..Len(q) /\ Head(q) = q[1] /\ q[1] \in S
  OBVIOUS
<1>2. /\ Tail(q) \in Seq(S) /\ Len(Tail(q)) = Len(q) - 1 /\ DOMAIN Tail(q) = 1..(Len(q) - 1)
      /\ \A i \in 1..(Len(q) - 1) : Tail(q)[i] = q[i + 1]
  BY <1>1
<1>3. \A a, b \in 1..Len(q) : q[a] = q[b] => a = b
  BY <1>1 DEF IsInjective
<1>4. IsInjective(Tail(q))
  <2> SUFFICES ASSUME NEW a \in 1..(Len(q) - 1), NEW b \in 1..(Len(q) - 1), q[a + 1] = q[b + 1]
               PROVE  a = b
    BY <1>2 DEF IsInjective
  <2>1. a + 1 \in 1..Len(q) /\ b + 1 \in 1..Len(q)
    BY <1>1
  <2> QED BY <1>3, <2>1
<1>5. ToSet(Tail(q)) = {q[i] : i \in 2..Len(q)}
  <2>1. \A i \in 1..(Len(q) - 1) : i + 1 \in 2..Len(q)
    BY <1>1
  <2>2. \A i \in 2..Len(q) : i - 1 \in 1..(Len(q) - 1) /\ (i - 1) + 1 = i
    BY <1>1
  <2>3. ToSet(Tail(q)) = {q[i + 1] : i \in 1..(Len(q) - 1)}
    BY <1>2 DEF ToSet
  <2>4. {q[i + 1] : i \in 1..(Len(q) - 1)} \subseteq {q[i] : i \in 2..Len(q)}
    BY <2>1
  <2>5. {q[i] : i \in 2..Len(q)} \subseteq {q[i + 1] : i \in 1..(Len(q) - 1)}
    BY <2>2
  <2> QED BY <2>3, <2>4, <2>5
<1>6. ToSet(q) = {q[i] : i \in 2..Len(q)} \cup {q[1]} /\ q[1] \notin {q[i] : i \in 2..Len(q)}
  <2>1. \A i \in 1..Len(q) : i = 1 \/ i \in 2..Len(q)
    BY <1>1
  <2>2. \A i \in 2..Len(q) : i \in 1..Len(q) /\ i # 1
    BY <1>1
  <2> QED BY <1>1, <1>3, <2>1, <2>2 DEF ToSet
<1> QED BY <1>1, <1>2, <1>4, <1>5, <1>6

(* An element put at the end of a sequence that has it not.                *)
LEMMA Appended ==
  ASSUME NEW S, NEW q \in Seq(S), IsInjective(q), NEW e \in S, e \notin ToSet(q)
  PROVE  /\ Append(q, e) \in Seq(S) /\ IsInjective(Append(q, e)) /\ Append(q, e) # <<>>
         /\ ToSet(Append(q, e)) = ToSet(q) \cup {e}
<1>1. /\ Len(q) \in Nat /\ DOMAIN q = 1..Len(q)
      /\ Append(q, e) \in Seq(S) /\ DOMAIN Append(q, e) = 1..(Len(q) + 1) /\ Len(Append(q, e)) = Len(q) + 1
      /\ \A i \in 1..Len(q) : Append(q, e)[i] = q[i]
      /\ Append(q, e)[Len(q) + 1] = e
  OBVIOUS
<1>2. \A i \in 1..(Len(q) + 1) : i \in 1..Len(q) \/ i = Len(q) + 1
  BY <1>1
<1>3. \A i \in 1..Len(q) : q[i] # e
  BY <1>1 DEF ToSet
<1>4. \A i \in 1..Len(q) : i \in 1..(Len(q) + 1)
  BY <1>1
<1>5. \A a, b \in 1..Len(q) : q[a] = q[b] => a = b
  BY <1>1 DEF IsInjective
<1>6. IsInjective(Append(q, e))
  <2> SUFFICES ASSUME NEW a \in 1..(Len(q) + 1), NEW b \in 1..(Len(q) + 1), Append(q, e)[a] = Append(q, e)[b]
               PROVE  a = b
    BY <1>1 DEF IsInjective
  <2> QED BY <1>1, <1>2, <1>3, <1>5
<1>7. ToSet(Append(q, e)) = ToSet(q) \cup {e}
  <2>1. ToSet(Append(q, e)) \subseteq ToSet(q) \cup {e}
    BY <1>1, <1>2 DEF ToSet
  <2>2. ToSet(q) \subseteq ToSet(Append(q, e))
    BY <1>1, <1>4 DEF ToSet
  <2>3. e \in ToSet(Append(q, e))
    <3>1. Len(q) + 1 \in 1..(Len(q) + 1)
      BY <1>1
    <3> QED BY <1>1, <3>1 DEF ToSet
  <2> QED BY <2>1, <2>2, <2>3
<1>8. Append(q, e) # <<>>
  BY <1>1
<1> QED BY <1>1, <1>6, <1>7, <1>8

LEMMA Prefix ==
  ASSUME NEW S, NEW s \in Seq(S), NEW n \in Nat, n <= Len(s)
  PROVE  SubSeq(s, 1, n) \in Seq(S) /\ Len(SubSeq(s, 1, n)) = n /\ \A i \in 1..n : SubSeq(s, 1, n)[i] = s[i]
OBVIOUS

LEMMA WithoutLast ==
  ASSUME NEW S, NEW s \in Seq(S), s # <<>>
  PROVE  /\ Front(s) \in Seq(S) /\ Len(Front(s)) = Len(s) - 1 /\ Len(s) \in Nat \ {0}
         /\ \A i \in 1..(Len(s) - 1) : Front(s)[i] = s[i]
         /\ Last(s) = s[Len(s)] /\ Last(s) \in S
<1>1. Len(s) \in Nat /\ Len(s) >= 1
  OBVIOUS
<1>2. Len(s) - 1 \in Nat /\ Len(s) - 1 <= Len(s) /\ Len(s) \in 1..Len(s)
  BY <1>1
<1>3. /\ SubSeq(s, 1, Len(s) - 1) \in Seq(S) /\ Len(SubSeq(s, 1, Len(s) - 1)) = Len(s) - 1
      /\ \A i \in 1..(Len(s) - 1) : SubSeq(s, 1, Len(s) - 1)[i] = s[i]
  BY <1>2, Prefix
<1> QED BY <1>1, <1>2, <1>3 DEF Front, Last

(* What a search leaves: the same tickers, the one found behind the rest.  *)
LEMMA Turned ==
  ASSUME NEW S, NEW s \in Seq(S), IsInjective(s), NEW r \in 1..Len(s)
  PROVE  LET turned == Rotated(s, r) IN
         /\ turned \in Seq(S) /\ IsInjective(turned) /\ ToSet(turned) = ToSet(s)
         /\ turned # <<>> /\ Last(turned) = s[r]
         /\ \A x, u : (\E k \in 1..Len(s) : k > r /\ s[k] = x) /\ Before(s, x, u) => Before(turned, x, u)
         /\ \A x : (\E k \in 1..Len(s) : k > r /\ s[k] = x) => Before(turned, x, s[r])
<1> DEFINE n == Len(s)
           turned == Rotated(s, r)
           Old(k) == IF k <= n - r THEN k + r ELSE k - (n - r)
<1>1. /\ turned \in Seq(S) /\ Len(turned) = n
      /\ \A k \in 1..n : turned[k] = IF k <= n - r THEN s[k + r] ELSE s[k - (n - r)]
  BY Rotation
<1>2. n \in Nat /\ r \in Nat /\ 1 <= r /\ r <= n /\ DOMAIN s = 1..n
  OBVIOUS
<1> HIDE DEF n, turned
<1>3. DOMAIN turned = 1..n
  BY <1>1
<1>4. \A k \in 1..n : Old(k) \in 1..n /\ turned[k] = s[Old(k)]
  BY <1>1, <1>2
<1>5. \A k, m \in 1..n : Old(k) = Old(m) => k = m
  BY <1>2
<1>6. \A k \in 1..n : \E m \in 1..n : Old(m) = k
  <2> SUFFICES ASSUME NEW k \in 1..n PROVE \E m \in 1..n : Old(m) = k
    OBVIOUS
  <2>1. CASE k > r
    <3>1. k - r \in 1..n /\ Old(k - r) = k
      BY <1>2, <2>1
    <3> QED BY <3>1
  <2>2. CASE k <= r
    <3>1. k + (n - r) \in 1..n /\ Old(k + (n - r)) = k
      BY <1>2, <2>2
    <3> QED BY <3>1
  <2> QED BY <1>2, <2>1, <2>2
<1>7. \A a, b \in 1..n : s[a] = s[b] => a = b
  BY <1>2 DEF IsInjective
<1>8. \A k \in 1..n : Old(k) > r => k <= n - r
  BY <1>2
<1>9. \A k, m \in 1..n : k <= n - r /\ Old(k) < Old(m) => k < m
  BY <1>2
<1>10. \A k, m \in 1..n : k <= n - r /\ Old(m) = r => k < m
  BY <1>2
<1>11. Old(n) = r /\ n \in 1..n
  BY <1>2
<1> HIDE DEF Old
<1>12. IsInjective(turned)
  BY <1>3, <1>4, <1>5, <1>7 DEF IsInjective
<1>13. ToSet(turned) = ToSet(s)
  <2>1. ToSet(turned) \subseteq ToSet(s)
    BY <1>2, <1>3, <1>4 DEF ToSet
  <2>2. ToSet(s) \subseteq ToSet(turned)
    <3> SUFFICES ASSUME NEW k \in 1..n PROVE s[k] \in ToSet(turned)
      BY <1>2 DEF ToSet
    <3>1. PICK m \in 1..n : Old(m) = k
      BY <1>6
    <3> QED BY <1>3, <1>4, <3>1 DEF ToSet
  <2> QED BY <2>1, <2>2
<1>14. turned # <<>> /\ Last(turned) = s[r]
  BY <1>1, <1>2, <1>4, <1>11 DEF Last
<1>15. ASSUME NEW x, NEW u, NEW p \in 1..n, p > r, s[p] = x, Before(s, x, u)
       PROVE  Before(turned, x, u)
  <2> SUFFICES ASSUME NEW i \in 1..n, NEW k \in 1..n, turned[i] = u, turned[k] = x
               PROVE  k < i
    BY <1>1 DEF Before
  <2>1. Old(k) \in 1..n /\ Old(i) \in 1..n /\ Old(k) = p /\ s[Old(i)] = u /\ s[Old(k)] = x
    BY <1>4, <1>7, <1>15
  <2>2. Old(k) < Old(i)
    BY <1>15, <2>1 DEF Before, n
  <2> QED BY <1>8, <1>9, <1>15, <2>1, <2>2
<1>16. ASSUME NEW x, NEW p \in 1..n, p > r, s[p] = x
       PROVE  Before(turned, x, s[r])
  <2> SUFFICES ASSUME NEW i \in 1..n, NEW k \in 1..n, turned[i] = s[r], turned[k] = x
               PROVE  k < i
    BY <1>1 DEF Before
  <2>1. Old(k) = p
    BY <1>4, <1>7, <1>16
  <2>2. Old(i) = r
    <3>1. r \in 1..n /\ Old(i) \in 1..n /\ s[Old(i)] = s[r]
      BY <1>2, <1>4
    <3> QED BY <1>7, <3>1
  <2> QED BY <1>8, <1>10, <1>16, <2>1, <2>2
<1> QED BY <1>1, <1>12, <1>13, <1>14, <1>15, <1>16 DEF n, turned

(* ... and without that one, when its queue is empty.                      *)
LEMMA Shortened ==
  ASSUME NEW S, NEW s \in Seq(S), IsInjective(s), s # <<>>
  PROVE  /\ Front(s) \in Seq(S) /\ IsInjective(Front(s)) /\ ToSet(Front(s)) = ToSet(s) \ {Last(s)}
         /\ \A x, u : Before(s, x, u) => Before(Front(s), x, u)
<1> DEFINE n == Len(s)
<1>1. /\ Front(s) \in Seq(S) /\ Len(Front(s)) = n - 1 /\ n \in Nat \ {0}
      /\ \A i \in 1..(n - 1) : Front(s)[i] = s[i]
      /\ Last(s) = s[n]
  BY WithoutLast
<1>2. DOMAIN s = 1..n /\ DOMAIN Front(s) = 1..(n - 1)
  BY <1>1
<1>3. \A a, b \in 1..n : s[a] = s[b] => a = b
  BY <1>2 DEF IsInjective
<1> HIDE DEF n
<1>4. \A i \in 1..(n - 1) : i \in 1..n /\ i # n
  BY <1>1
<1>5. \A i \in 1..n : i = n \/ i \in 1..(n - 1)
  BY <1>1
<1>6. IsInjective(Front(s))
  BY <1>1, <1>2, <1>3, <1>4 DEF IsInjective
<1>7. ToSet(Front(s)) \subseteq ToSet(s) \ {Last(s)}
  <2>1. n \in 1..n
    BY <1>1
  <2> QED BY <1>1, <1>2, <1>3, <1>4, <2>1 DEF ToSet
<1>8. ToSet(s) \ {Last(s)} \subseteq ToSet(Front(s))
  BY <1>1, <1>2, <1>5 DEF ToSet
<1>9. \A x, u : Before(s, x, u) => Before(Front(s), x, u)
  BY <1>1, <1>4 DEF Before, n
<1> QED BY <1>1, <1>6, <1>7, <1>8, <1>9

-----------------------------------------------------------------------------
(* Counting jobs.                                                          *)

LEMMA JobsCounted ==
  ASSUME NEW S \in SUBSET Jobs
  PROVE  IsFiniteSet(S) /\ Cardinality(S) \in Nat /\ (Cardinality(S) = 0 <=> S = {})
BY ExtractionAssumption, FS_Subset, FS_CardinalityType, FS_EmptySet

LEMMA Joins ==
  ASSUME NEW S \in SUBSET Jobs, NEW j \in Jobs, j \notin S
  PROVE  Cardinality(S \cup {j}) = Cardinality(S) + 1
BY JobsCounted, FS_AddElement

LEMMA Leaves ==
  ASSUME NEW S \in SUBSET Jobs, NEW j \in S
  PROVE  Cardinality(S \ {j}) = Cardinality(S) - 1 /\ Cardinality(S) \in Nat \ {0}
<1>1. IsFiniteSet(S) /\ Cardinality(S) \in Nat /\ Cardinality(S) # 0
  BY JobsCounted
<1> QED BY <1>1, FS_RemoveElement

LEMMA Phases ==
  /\ \A S : InPhase(S) \in SUBSET Jobs
  /\ Counted \in SUBSET Jobs /\ \A t : CountedOf(t) \in SUBSET Jobs /\ QueuedOf(t) \in SUBSET Jobs
BY DEF InPhase, Counted, CountedOf, QueuedOf

LEMMA PhaseMoves ==
  ASSUME TypeOK, NEW j \in Jobs, NEW p, phase' = [phase EXCEPT ![j] = p]
  PROVE  /\ phase'[j] = p /\ \A k \in Jobs \ {j} : phase'[k] = phase[k]
         /\ \A S : InPhase(S)' = IF p \in S THEN InPhase(S) \cup {j} ELSE InPhase(S) \ {j}
         /\ Counted' = IF p \in {"active", "ended"} THEN Counted \cup {j} ELSE Counted \ {j}
         /\ \A t : CountedOf(t)' = IF p \in {"active", "ended"} /\ TickerOf[j] = t THEN CountedOf(t) \cup {j}
                                   ELSE CountedOf(t) \ {j}
         /\ \A t : QueuedOf(t)' = IF p = "queued" /\ TickerOf[j] = t THEN QueuedOf(t) \cup {j} ELSE QueuedOf(t) \ {j}
<1>1. phase'[j] = p /\ \A k \in Jobs \ {j} : phase'[k] = phase[k]
  BY DEF TypeOK
<1>2. \A S : InPhase(S)' = IF p \in S THEN InPhase(S) \cup {j} ELSE InPhase(S) \ {j}
  BY <1>1 DEF InPhase
<1>3. Counted' = IF p \in {"active", "ended"} THEN Counted \cup {j} ELSE Counted \ {j}
  BY <1>2 DEF Counted
<1>4. \A t : CountedOf(t)' = IF p \in {"active", "ended"} /\ TickerOf[j] = t THEN CountedOf(t) \cup {j}
                             ELSE CountedOf(t) \ {j}
  BY <1>3 DEF CountedOf, Counted, InPhase
<1>5. \A t : QueuedOf(t)' = IF p = "queued" /\ TickerOf[j] = t THEN QueuedOf(t) \cup {j} ELSE QueuedOf(t) \ {j}
  BY <1>2 DEF QueuedOf, InPhase
<1> QED BY <1>1, <1>2, <1>3, <1>4, <1>5

(* The places in the queues are the queued jobs.                           *)
LEMMA PlacesCounted ==
  ASSUME TypeOK, Books
  PROVE  Cardinality(Places) = Cardinality(InPhase({"queued"}))
<1> DEFINE f == [p \in Places |-> queue[p[1]][p[2]]]
           Q == InPhase({"queued"})
<1>1. /\ \A p \in Places : p[1] \in Tickers /\ p[2] \in DOMAIN queue[p[1]] /\ p = <<p[1], p[2]>>
      /\ \A t \in Tickers : \A i \in DOMAIN queue[t] : <<t, i>> \in Places
  BY DEF Places
<1>2. \A t \in Tickers : \A i \in DOMAIN queue[t] : queue[t][i] \in QueuedOf(t)
  BY DEF Books, ToSet
<1>3. f \in [Places -> Q]
  BY <1>1, <1>2 DEF QueuedOf
<1>4. \A a, b \in Places : f[a] = f[b] => a = b
  <2> SUFFICES ASSUME NEW a \in Places, NEW b \in Places, f[a] = f[b] PROVE a = b
    OBVIOUS
  <2>1. queue[a[1]][a[2]] \in QueuedOf(a[1]) /\ queue[b[1]][b[2]] \in QueuedOf(b[1])
    BY <1>1, <1>2
  <2>2. queue[a[1]][a[2]] = queue[b[1]][b[2]] /\ a[1] = b[1]
    BY <2>1 DEF QueuedOf
  <2>3. a[2] = b[2]
    BY <1>1, <2>2 DEF Books, IsInjective
  <2> QED BY <1>1, <2>2, <2>3
<1>5. \A j \in Q : \E p \in Places : f[p] = j
  <2> SUFFICES ASSUME NEW j \in Q PROVE \E p \in Places : f[p] = j
    OBVIOUS
  <2>1. TickerOf[j] \in Tickers /\ j \in QueuedOf(TickerOf[j])
    BY DEF Tickers, QueuedOf, InPhase
  <2>2. PICK i \in DOMAIN queue[TickerOf[j]] : queue[TickerOf[j]][i] = j
    BY <2>1 DEF Books, ToSet
  <2>3. <<TickerOf[j], i>> \in Places
    BY <1>1, <2>1, <2>2
  <2> QED BY <2>2, <2>3
<1> HIDE DEF f, Q
<1>6. ExistsBijection(Q, Places)
  BY <1>3, <1>4, <1>5, Fun_IsBij, Fun_ExistsBij, Fun_ExistsBijSymmetric
<1>7. IsFiniteSet(Q)
  BY JobsCounted, Phases DEF Q
<1> QED BY <1>6, <1>7, FS_Bijection DEF Q

(* The tickers of the order are those with queued jobs.                    *)
LEMMA OrderTyped ==
  ASSUME TypeOK, Books
  PROVE  /\ tickerOrder \in Seq(Tickers) /\ Len(tickerOrder) \in Nat /\ DOMAIN tickerOrder = 1..Len(tickerOrder)
         /\ \A i \in 1..Len(tickerOrder) : tickerOrder[i] \in Tickers /\ queue[tickerOrder[i]] # <<>>
         /\ \A t \in Tickers : queue[t] # <<>> => \E i \in 1..Len(tickerOrder) : tickerOrder[i] = t
         /\ \A i, k \in 1..Len(tickerOrder) : tickerOrder[i] = tickerOrder[k] => i = k
<1>1. tickerOrder \in Seq(Tickers) /\ Len(tickerOrder) \in Nat /\ DOMAIN tickerOrder = 1..Len(tickerOrder)
  BY DEF TypeOK
<1>2. ToSet(tickerOrder) = {t \in Tickers : queue[t] # <<>>}
  BY DEF Books
<1>3. ToSet(tickerOrder) = {tickerOrder[i] : i \in 1..Len(tickerOrder)}
  BY <1>1 DEF ToSet
<1> QED BY <1>1, <1>2, <1>3 DEF Books, IsInjective

-----------------------------------------------------------------------------
(* The producer.                                                           *)

LEMMA SubmitHolds ==
  ASSUME IInv, Submit
  PROVE  IInv'
<1> DEFINE j == Head(arrivals)
           t == TickerOf[j]
<1>1. /\ main = "submitting" /\ arrivals # <<>> /\ stack = <<>> /\ Inflight < MaxInflight
      /\ phase' = [phase EXCEPT ![j] = "queued"]
      /\ tickerOrder' = IF Contains(tickerOrder, t) THEN tickerOrder ELSE Append(tickerOrder, t)
      /\ queue' = [queue EXCEPT ![t] = Append(queue[t], j)]
      /\ arrivals' = Tail(arrivals) /\ stack' = <<Loop>>
      /\ UNCHANGED <<activeTotal, activeByTicker, callbacksInflight, main, passed>>
  BY DEF Submit, counters, LockFree
<1>2. TypeOK /\ Arriving /\ Finished /\ Books /\ Ordered
  BY DEF IInv
<1>3. /\ j \in Jobs /\ Tail(arrivals) \in Seq(Jobs) /\ IsInjective(Tail(arrivals))
      /\ ToSet(Tail(arrivals)) = ToSet(arrivals) \ {j} /\ Len(Tail(arrivals)) \in Nat
  BY <1>1, <1>2, Popped DEF Arriving
<1>4. phase[j] = "new" /\ t \in Tickers
  <2>1. j = arrivals[1] /\ 1 \in 1..Len(arrivals)
    BY <1>1, <1>2 DEF Arriving
  <2> QED BY <1>2, <1>3, <2>1 DEF Arriving, Tickers
<1> HIDE DEF j, t
<1>5. /\ phase'[j] = "queued" /\ \A k \in Jobs \ {j} : phase'[k] = phase[k]
      /\ InPhase({"queued"})' = InPhase({"queued"}) \cup {j}
      /\ InPhase({"callback"})' = InPhase({"callback"}) \ {j}
      /\ Counted' = Counted \ {j}
      /\ \A u : CountedOf(u)' = CountedOf(u) \ {j}
      /\ \A u : QueuedOf(u)' = IF TickerOf[j] = u THEN QueuedOf(u) \cup {j} ELSE QueuedOf(u) \ {j}
  <2>1. \A S : InPhase(S)' = IF "queued" \in S THEN InPhase(S) \cup {j} ELSE InPhase(S) \ {j}
    BY <1>1, <1>2, <1>3, PhaseMoves
  <2>2. /\ phase'[j] = "queued" /\ \A k \in Jobs \ {j} : phase'[k] = phase[k]
        /\ Counted' = Counted \ {j}
    BY <1>1, <1>2, <1>3, PhaseMoves
  <2>3. \A u : CountedOf(u)' = CountedOf(u) \ {j}
    BY <1>1, <1>2, <1>3, PhaseMoves
  <2>4. \A u : QueuedOf(u)' = IF TickerOf[j] = u THEN QueuedOf(u) \cup {j} ELSE QueuedOf(u) \ {j}
    BY <1>3, <2>2 DEF QueuedOf, InPhase
  <2>5. InPhase({"queued"})' = InPhase({"queued"}) \cup {j}
    BY <2>1
  <2>6. InPhase({"callback"})' = InPhase({"callback"}) \ {j}
    BY <2>1
  <2> QED BY <2>2, <2>3, <2>4, <2>5, <2>6
<1>6. /\ j \notin InPhase({"queued"}) /\ j \notin Counted /\ j \notin InPhase({"callback"})
      /\ \A u : j \notin CountedOf(u) /\ j \notin QueuedOf(u)
  BY <1>4 DEF InPhase, Counted, CountedOf, QueuedOf
<1>7. /\ queue[t] \in Seq(Jobs) /\ IsInjective(queue[t]) /\ ToSet(queue[t]) = QueuedOf(t)
  BY <1>2, <1>4 DEF TypeOK, Books
<1>8. /\ Append(queue[t], j) \in Seq(Jobs) /\ IsInjective(Append(queue[t], j)) /\ Append(queue[t], j) # <<>>
      /\ ToSet(Append(queue[t], j)) = QueuedOf(t) \cup {j}
  BY <1>3, <1>6, <1>7, Appended
<1>9. \A u \in Tickers : queue'[u] = IF u = t THEN Append(queue[t], j) ELSE queue[u]
  BY <1>1, <1>2, <1>4 DEF TypeOK
<1>10. /\ tickerOrder' \in Seq(Tickers) /\ IsInjective(tickerOrder')
       /\ ToSet(tickerOrder') = ToSet(tickerOrder) \cup {t}
       /\ \A x, u : x \in ToSet(tickerOrder) /\ Before(tickerOrder, x, u) => Before(tickerOrder', x, u)
  <2>1. /\ tickerOrder \in Seq(Tickers) /\ IsInjective(tickerOrder) /\ Len(tickerOrder) \in Nat
        /\ DOMAIN tickerOrder = 1..Len(tickerOrder)
    BY <1>2, OrderTyped DEF Books
  <2>2. CASE Contains(tickerOrder, t)
    <3>1. t \in ToSet(tickerOrder)
      BY <2>1, <2>2 DEF Contains, ToSet
    <3> QED BY <1>1, <2>1, <2>2, <3>1
  <2>3. CASE ~Contains(tickerOrder, t)
    <3>1. t \notin ToSet(tickerOrder)
      BY <2>1, <2>3 DEF Contains, ToSet
    <3>2. tickerOrder' = Append(tickerOrder, t)
      BY <1>1, <2>3
    <3>3. ASSUME NEW x \in ToSet(tickerOrder), NEW u, Before(tickerOrder, x, u)
          PROVE  Before(tickerOrder', x, u)
      <4> SUFFICES ASSUME NEW i \in 1..Len(tickerOrder'), NEW k \in 1..Len(tickerOrder'),
                          tickerOrder'[i] = u, tickerOrder'[k] = x
                   PROVE  k < i
        BY DEF Before
      <4>1. /\ Len(tickerOrder') = Len(tickerOrder) + 1 /\ tickerOrder'[Len(tickerOrder) + 1] = t
            /\ \A m \in 1..Len(tickerOrder) : tickerOrder'[m] = tickerOrder[m]
        BY <1>4, <2>1, <3>2
      <4>2. \A m \in 1..(Len(tickerOrder) + 1) : m \in 1..Len(tickerOrder) \/ m = Len(tickerOrder) + 1
        BY <2>1
      <4>3. k \in 1..Len(tickerOrder)
        BY <3>1, <3>3, <4>1, <4>2
      <4>4. CASE i = Len(tickerOrder) + 1
        BY <2>1, <4>3, <4>4
      <4>5. CASE i \in 1..Len(tickerOrder)
        BY <3>3, <4>1, <4>3, <4>5 DEF Before
      <4> QED BY <4>1, <4>2, <4>4, <4>5
    <3> QED BY <1>4, <2>1, <3>1, <3>2, <3>3, Appended
  <2> QED BY <2>2, <2>3
<1>11. TypeOK'
  <2>1. phase' \in [Jobs -> {"new", "queued", "active", "ended", "callback", "done"}]
    BY <1>1, <1>2 DEF TypeOK
  <2>2. queue' \in [Tickers -> Seq(Jobs)]
    BY <1>1, <1>2, <1>8 DEF TypeOK
  <2> QED BY <1>1, <1>2, <1>10, <2>1, <2>2 DEF TypeOK
<1>12. Stacked'
  <2>1. Loop \in Frames /\ <<Loop>> \in Seq(Frames) /\ Len(<<Loop>>) = 1 /\ <<Loop>>[1] = Loop
    BY DEF Frames
  <2> QED BY <1>1, <2>1 DEF Stacked, Last
<1>13. Arriving'
  <2> SUFFICES ASSUME NEW i \in 1..Len(Tail(arrivals)) PROVE phase'[Tail(arrivals)[i]] = "new"
    BY <1>1, <1>3 DEF Arriving
  <2>1. Tail(arrivals)[i] \in ToSet(arrivals) \ {j}
    <3>1. i \in DOMAIN Tail(arrivals)
      BY <1>3
    <3>2. Tail(arrivals)[i] \in ToSet(Tail(arrivals))
      BY <3>1 DEF ToSet
    <3> QED BY <1>3, <3>2
  <2>2. arrivals \in Seq(Jobs) /\ Tail(arrivals)[i] \in Jobs
    BY <1>2, <1>3 DEF Arriving
  <2>3. phase[Tail(arrivals)[i]] = "new"
    BY <1>2, <2>1, <2>2 DEF Arriving, ToSet
  <2> QED BY <1>5, <2>1, <2>2, <2>3
<1>14. Finished'
  BY <1>1 DEF Finished
<1>15. Books'
  <2>1. Cardinality(InPhase({"queued"})' \cup Counted') <= MaxInflight
    <3> DEFINE held == InPhase({"queued"}) \cup Counted
    <3>1. InPhase({"queued"}) \in SUBSET Jobs /\ Counted \in SUBSET Jobs /\ InPhase({"queued"}) \cap Counted = {}
      BY DEF InPhase, Counted
    <3>2. /\ IsFiniteSet(InPhase({"queued"})) /\ IsFiniteSet(Counted)
          /\ Cardinality(InPhase({"queued"})) \in Nat /\ Cardinality(Counted) \in Nat
      BY <3>1, JobsCounted
    <3>3. Cardinality(held) = Cardinality(InPhase({"queued"})) + Cardinality(Counted)
      <4>1. Cardinality(InPhase({"queued"}) \cap Counted) = 0
        BY <3>1, FS_EmptySet
      <4>2. Cardinality(held) = Cardinality(InPhase({"queued"})) + Cardinality(Counted)
                                - Cardinality(InPhase({"queued"}) \cap Counted)
        BY <3>2, FS_Union
      <4> HIDE DEF held
      <4> QED BY <3>2, <4>1, <4>2
    <3>4. Cardinality(held) < MaxInflight /\ Cardinality(held) \in Nat /\ MaxInflight \in Nat
      BY <1>1, <1>2, <3>2, <3>3, PlacesCounted, ExtractionAssumption DEF Inflight, Books
    <3>5. InPhase({"queued"})' \cup Counted' = held \cup {j}
      BY <1>5, <1>6
    <3>6. held \in SUBSET Jobs /\ j \notin held
      BY <1>6, <3>1
    <3> HIDE DEF held
    <3> QED BY <1>3, <3>4, <3>5, <3>6, Joins
  <2>2. activeTotal' = Cardinality(Counted')
    BY <1>1, <1>2, <1>5, <1>6 DEF Books
  <2>3. \A u \in Tickers : activeByTicker'[u] = Cardinality(CountedOf(u)')
    <3>1. \A u : CountedOf(u)' = CountedOf(u)
      BY <1>5, <1>6
    <3> QED BY <1>1, <1>2, <3>1 DEF Books
  <2>4. callbacksInflight' = Cardinality(InPhase({"callback"})')
    BY <1>1, <1>2, <1>5, <1>6 DEF Books
  <2>5. ToSet(tickerOrder') = {u \in Tickers : queue'[u] # <<>>}
    <3>1. \A u \in Tickers : queue'[u] # <<>> <=> queue[u] # <<>> \/ u = t
      BY <1>8, <1>9
    <3> QED BY <1>2, <1>4, <1>10, <3>1 DEF Books
  <2>6. \A u \in Tickers : IsInjective(queue'[u]) /\ ToSet(queue'[u]) = QueuedOf(u)'
    <3> SUFFICES ASSUME NEW u \in Tickers PROVE IsInjective(queue'[u]) /\ ToSet(queue'[u]) = QueuedOf(u)'
      OBVIOUS
    <3>1. CASE u = t
      BY <1>5, <1>8, <1>9, <3>1 DEF t
    <3>2. CASE u # t
      <4>1. queue'[u] = queue[u] /\ QueuedOf(u)' = QueuedOf(u)
        BY <1>5, <1>6, <1>9, <3>2 DEF t
      <4> QED BY <1>2, <4>1 DEF Books
    <3> QED BY <3>1, <3>2
  <2> QED BY <1>10, <2>1, <2>2, <2>3, <2>4, <2>5, <2>6 DEF Books
<1>16. WorkConserving'
  BY <1>1 DEF WorkConserving, LockFree
<1>17. Ordered'
  <2> SUFFICES ASSUME NEW x \in Tickers, NEW u \in Tickers, passed[<<x, u>>] # 0
               PROVE  x # u /\ passed[<<x, u>>] = 1 /\ Ready(x)' /\ Before(tickerOrder', x, u)
    BY <1>1 DEF Ordered
  <2>1. x # u /\ passed[<<x, u>>] = 1 /\ Ready(x) /\ Before(tickerOrder, x, u)
    BY <1>2 DEF Ordered
  <2>2. x \in ToSet(tickerOrder)
    BY <1>2, <2>1 DEF Books, Ready
  <2>3. Ready(x)'
    BY <1>1, <1>8, <1>9, <2>1 DEF Ready
  <2> QED BY <1>10, <2>1, <2>2, <2>3
<1> QED BY <1>11, <1>12, <1>13, <1>14, <1>15, <1>16, <1>17 DEF IInv

-----------------------------------------------------------------------------
(* The workers.                                                            *)

(* A job that ends, is accounted for, or whose hook returns disturbs no    *)
(* queue, and its counters follow it.                                      *)
Settling(j, p) ==
  /\ <<phase[j], p>> \in {<<"active", "ended">>, <<"ended", "callback">>, <<"callback", "done">>}
  /\ phase' = [phase EXCEPT ![j] = p]
  /\ activeTotal' = IF p = "callback" THEN activeTotal - 1 ELSE activeTotal
  /\ activeByTicker' = IF p = "callback" THEN [activeByTicker EXCEPT ![TickerOf[j]] = @ - 1] ELSE activeByTicker
  /\ callbacksInflight' = IF p = "ended" THEN callbacksInflight
                          ELSE IF p = "callback" THEN callbacksInflight + 1 ELSE callbacksInflight - 1
  /\ UNCHANGED <<tickerOrder, queue, arrivals, main, passed>>

LEMMA Settles ==
  ASSUME TypeOK, Arriving, Finished, Books, Ordered, NEW j \in Jobs, NEW p, Settling(j, p)
  PROVE  TypeOK' /\ Arriving' /\ Finished' /\ Books' /\ Ordered'
<1> DEFINE t == TickerOf[j]
           called == InPhase({"callback"})
           queued == InPhase({"queued"})
<1> USE DEF Settling
<1>1. \/ phase[j] = "active" /\ p = "ended"
      \/ phase[j] = "ended" /\ p = "callback"
      \/ phase[j] = "callback" /\ p = "done"
  OBVIOUS
<1>2. phase'[j] = p /\ \A k \in Jobs \ {j} : phase'[k] = phase[k]
  BY PhaseMoves
<1>3. t \in Tickers
  BY DEF Tickers
<1>4. /\ queued' = queued /\ \A u : QueuedOf(u)' = QueuedOf(u)
      /\ Counted' = IF p = "callback" THEN Counted \ {j} ELSE Counted
      /\ called' = IF p = "callback" THEN called \cup {j} ELSE called \ {j}
      /\ \A u : CountedOf(u)' = IF p = "callback" /\ u = t THEN CountedOf(u) \ {j} ELSE CountedOf(u)
  <2>1. queued' = queued /\ \A u : QueuedOf(u)' = QueuedOf(u)
    BY <1>1, <1>2 DEF InPhase, QueuedOf
  <2>2. Counted' = IF p = "callback" THEN Counted \ {j} ELSE Counted
    BY <1>1, <1>2 DEF InPhase, Counted
  <2>3. called' = IF p = "callback" THEN called \cup {j} ELSE called \ {j}
    BY <1>1, <1>2 DEF InPhase
  <2>4. \A u : CountedOf(u)' = IF p = "callback" /\ u = t THEN CountedOf(u) \ {j} ELSE CountedOf(u)
    BY <2>2 DEF CountedOf
  <2> QED BY <2>1, <2>2, <2>3, <2>4
<1>5. /\ p = "callback" => j \in Counted /\ j \in CountedOf(t) /\ j \notin called
      /\ p = "done" => j \in called
      /\ p = "ended" => j \notin called
  BY <1>1 DEF InPhase, Counted, CountedOf
<1>6. \A u \in Tickers : /\ activeByTicker[u] \in 0..MaxPerTicker
                         /\ activeByTicker'[u] = IF p = "callback" /\ u = t THEN activeByTicker[u] - 1 ELSE activeByTicker[u]
  BY <1>3 DEF TypeOK
<1> HIDE DEF t, called, queued
<1>7. activeTotal' = Cardinality(Counted') /\ activeTotal' \in 0..MaxWorkers
  <2>1. activeTotal = Cardinality(Counted) /\ activeTotal \in 0..MaxWorkers /\ MaxWorkers \in Nat
    BY ExtractionAssumption DEF Books, TypeOK
  <2>2. CASE p = "callback"
    <3>1. Counted \in SUBSET Jobs /\ j \in Counted
      BY <1>5, <2>2, Phases
    <3>2. Cardinality(Counted \ {j}) = Cardinality(Counted) - 1 /\ Cardinality(Counted) \in Nat \ {0}
      BY <3>1, Leaves
    <3>3. Counted' = Counted \ {j} /\ activeTotal' = activeTotal - 1
      BY <1>4, <2>2
    <3> QED BY <2>1, <3>2, <3>3
  <2>3. CASE p # "callback"
    BY <1>4, <2>1, <2>3
  <2> QED BY <2>2, <2>3
<1>8. \A u \in Tickers : /\ activeByTicker'[u] = Cardinality(CountedOf(u)')
                         /\ activeByTicker'[u] \in 0..MaxPerTicker /\ activeByTicker'[u] <= activeByTicker[u]
  <2> SUFFICES ASSUME NEW u \in Tickers
               PROVE  /\ activeByTicker'[u] = Cardinality(CountedOf(u)')
                      /\ activeByTicker'[u] \in 0..MaxPerTicker /\ activeByTicker'[u] <= activeByTicker[u]
    OBVIOUS
  <2>1. activeByTicker[u] = Cardinality(CountedOf(u)) /\ MaxPerTicker \in Nat
    BY ExtractionAssumption DEF Books
  <2>2. CASE p = "callback" /\ u = t
    <3>1. j \in CountedOf(u) /\ CountedOf(u) \in SUBSET Jobs
      BY <1>5, <2>2, Phases
    <3>2. Cardinality(CountedOf(u) \ {j}) = Cardinality(CountedOf(u)) - 1 /\ Cardinality(CountedOf(u)) \in Nat \ {0}
      BY <3>1, Leaves
    <3>3. CountedOf(u)' = CountedOf(u) \ {j} /\ activeByTicker'[u] = activeByTicker[u] - 1
      BY <1>4, <1>6, <2>2
    <3>4. activeByTicker[u] \in 0..MaxPerTicker /\ activeByTicker[u] \in Nat \ {0}
      BY <1>6, <2>1, <3>2
    <3> QED BY <2>1, <3>2, <3>3, <3>4
  <2>3. CASE ~(p = "callback" /\ u = t)
    BY <1>4, <1>6, <2>1, <2>3
  <2> QED BY <2>2, <2>3
<1>9. callbacksInflight' = Cardinality(called') /\ callbacksInflight' \in Nat
  <2>1. callbacksInflight = Cardinality(called) /\ callbacksInflight \in Nat /\ called \in SUBSET Jobs
    BY Phases DEF Books, TypeOK, called
  <2>2. CASE p = "callback"
    BY <1>4, <1>5, <2>1, <2>2, Joins
  <2>3. CASE p = "done"
    BY <1>4, <1>5, <2>1, <2>3, Leaves
  <2>4. CASE p = "ended"
    BY <1>4, <1>5, <2>1, <2>4
  <2> QED BY <1>1, <2>2, <2>3, <2>4
<1>10. TypeOK'
  <2>1. phase' \in [Jobs -> {"new", "queued", "active", "ended", "callback", "done"}]
    BY <1>1 DEF TypeOK
  <2>2. activeByTicker' \in [Tickers -> 0..MaxPerTicker]
    <3>1. DOMAIN activeByTicker' = Tickers /\ activeByTicker' = [u \in Tickers |-> activeByTicker'[u]]
      BY DEF TypeOK
    <3> QED BY <1>8, <3>1
  <2> QED BY <1>7, <1>9, <2>1, <2>2 DEF TypeOK
<1>11. Arriving'
  BY <1>1, <1>2 DEF Arriving
<1>12. Finished'
  BY <1>1, <1>2 DEF Finished, InPhase
<1>13. Books'
  <2>1. Cardinality(queued' \cup Counted') <= MaxInflight
    <3>1. queued' \cup Counted' \subseteq queued \cup Counted /\ queued \cup Counted \in SUBSET Jobs
      BY <1>4, Phases DEF queued
    <3>2. IsFiniteSet(queued \cup Counted) /\ Cardinality(queued \cup Counted) \in Nat
      BY <3>1, JobsCounted
    <3>3. Cardinality(queued' \cup Counted') <= Cardinality(queued \cup Counted) /\ Cardinality(queued' \cup Counted') \in Nat
      BY <3>1, <3>2, FS_Subset, FS_CardinalityType
    <3>4. Cardinality(queued \cup Counted) <= MaxInflight /\ MaxInflight \in Nat
      BY ExtractionAssumption DEF Books, queued
    <3> QED BY <3>2, <3>3, <3>4
  <2> QED BY <1>4, <1>7, <1>8, <1>9, <2>1 DEF Books, called, queued
<1>14. Ordered'
  <2> SUFFICES ASSUME NEW x \in Tickers, NEW u \in Tickers, passed[<<x, u>>] # 0
               PROVE  x # u /\ passed[<<x, u>>] = 1 /\ Ready(x)' /\ Before(tickerOrder', x, u)
    BY DEF Ordered
  <2>1. x # u /\ passed[<<x, u>>] = 1 /\ Ready(x) /\ Before(tickerOrder, x, u)
    BY DEF Ordered
  <2>2. activeByTicker'[x] < MaxPerTicker
    BY <1>6, <1>8, <2>1, ExtractionAssumption DEF Ready
  <2> QED BY <2>1, <2>2 DEF Ready
<1> QED BY <1>10, <1>11, <1>12, <1>13, <1>14

LEMMA FrameKinds ==
  /\ \A j \in Jobs : Loop # Inline(j) /\ Loop # Register(j) /\ Loop \in Frames /\ Inline(j) \in Frames /\ Register(j) \in Frames
  /\ \A j, k \in Jobs : Inline(j) # Register(k) /\ (Inline(j) = Inline(k) => j = k) /\ (Register(j) = Register(k) => j = k)
<1>1. /\ Loop.kind = "loop"
      /\ \A j : Inline(j).kind = "callback" /\ Inline(j).job = j /\ Register(j).kind = "register" /\ Register(j).job = j
  BY DEF Loop, Inline, Register
<1>2. \A j \in Jobs : Loop \in Frames /\ Inline(j) \in Frames /\ Register(j) \in Frames
  BY DEF Frames
<1> QED BY <1>1, <1>2

(* The lock's owner: its frames, the last of them apart.                   *)
LEMMA Owner ==
  ASSUME Stacked
  PROVE  /\ Len(stack) \in Nat /\ (stack # <<>> => Len(stack) \in Nat \ {0} /\ Last(stack) = stack[Len(stack)])
         /\ stack # <<>> => Front(stack) \in Seq(Frames) /\ Len(Front(stack)) = Len(stack) - 1
         /\ \A i \in 1..(Len(stack) - 1) : stack[i] = Loop /\ Front(stack)[i] = Loop
         /\ \A j \in Jobs : IsInline(j) <=> OnTop(Inline(j))
<1>1. stack \in Seq(Frames) /\ Len(stack) \in Nat /\ \A i \in 1..(Len(stack) - 1) : stack[i] = Loop
  BY DEF Stacked
<1>2. CASE stack = <<>>
  <2>1. Len(stack) = 0 /\ ~ \E i \in 1..(Len(stack) - 1) : TRUE
    BY <1>2
  <2>2. \A j \in Jobs : ~IsInline(j) /\ ~OnTop(Inline(j))
    BY <1>2 DEF IsInline, OnTop, Contains
  <2> QED BY <1>1, <1>2, <2>1, <2>2
<1>3. CASE stack # <<>>
  <2>1. /\ Len(stack) \in Nat \ {0} /\ Last(stack) = stack[Len(stack)] /\ Front(stack) \in Seq(Frames)
        /\ Len(Front(stack)) = Len(stack) - 1
        /\ \A i \in 1..(Len(stack) - 1) : Front(stack)[i] = stack[i]
    BY <1>1, <1>3, WithoutLast
  <2>2. \A i \in 1..Len(stack) : i = Len(stack) \/ i \in 1..(Len(stack) - 1)
    BY <2>1
  <2>3. Len(stack) \in 1..Len(stack)
    BY <2>1
  <2>4. \A j \in Jobs : IsInline(j) <=> stack[Len(stack)] = Inline(j)
    BY <1>1, <2>2, <2>3, FrameKinds DEF IsInline, Contains
  <2> QED BY <1>1, <1>3, <2>1, <2>4 DEF OnTop
<1> QED BY <1>2, <1>3

LEMMA JobEndsHolds ==
  ASSUME IInv, NEW j \in Jobs, JobEnds(j)
  PROVE  IInv'
<1>1. /\ phase[j] = "active" /\ phase' = [phase EXCEPT ![j] = "ended"]
      /\ UNCHANGED <<tickerOrder, queue, activeTotal, activeByTicker, callbacksInflight, stack, arrivals, main, passed>>
  BY DEF JobEnds, queues, counters, producer
<1>2. TypeOK' /\ Arriving' /\ Finished' /\ Books' /\ Ordered'
  <2>1. Settling(j, "ended")
    BY <1>1 DEF Settling
  <2> QED BY <2>1, Settles DEF IInv
<1>3. Stacked'
  BY <1>1 DEF IInv, TypeOK, Stacked
<1>4. WorkConserving'
  BY <1>1 DEF IInv, WorkConserving, LockFree, NothingReady, ReadyTicker, SelectInSeq
<1> QED BY <1>2, <1>3, <1>4 DEF IInv

LEMMA DoneOnWorkerHolds ==
  ASSUME IInv, NEW j \in Jobs, DoneOnWorker(j)
  PROVE  IInv'
<1>1. /\ phase[j] = "ended" /\ stack = <<>> /\ phase' = [phase EXCEPT ![j] = "callback"]
      /\ activeTotal' = activeTotal - 1
      /\ activeByTicker' = [activeByTicker EXCEPT ![TickerOf[j]] = @ - 1]
      /\ callbacksInflight' = callbacksInflight + 1
      /\ UNCHANGED <<tickerOrder, queue, stack, arrivals, main, passed>>
  BY DEF DoneOnWorker, Account, LockFree, queues, producer
<1>2. TypeOK' /\ Arriving' /\ Finished' /\ Books' /\ Ordered'
  <2>1. Settling(j, "callback")
    BY <1>1 DEF Settling
  <2> QED BY <2>1, Settles DEF IInv
<1>3. Stacked'
  BY <1>1 DEF IInv, Stacked
<1>4. WorkConserving'
  <2>1. callbacksInflight \in Nat
    BY DEF IInv, TypeOK
  <2> QED BY <1>1, <2>1 DEF WorkConserving
<1> QED BY <1>2, <1>3, <1>4 DEF IInv

LEMMA DoneCallbackHolds ==
  ASSUME IInv, NEW j \in Jobs, DoneCallback(j)
  PROVE  IInv'
<1>1. /\ phase[j] = "callback" /\ MayProceed(j) /\ phase' = [phase EXCEPT ![j] = "done"]
      /\ callbacksInflight' = callbacksInflight - 1
      /\ stack' = IF IsInline(j) THEN ReplaceTop(Loop) ELSE Append(stack, Loop)
      /\ UNCHANGED <<tickerOrder, queue, activeTotal, activeByTicker, arrivals, main, passed>>
  BY DEF DoneCallback, queues, counters, producer
<1>2. TypeOK' /\ Arriving' /\ Finished' /\ Books' /\ Ordered'
  <2>1. Settling(j, "done")
    BY <1>1 DEF Settling
  <2> QED BY <2>1, Settles DEF IInv
<1>3. Stacked' /\ stack' # <<>>
  <2>1. Stacked /\ Loop \in Frames
    BY FrameKinds DEF IInv
  <2>2. CASE OnTop(Inline(j))
    <3>1. stack # <<>> /\ IsInline(j)
      BY <2>1, <2>2, Owner DEF OnTop
    <3>2. stack' = Append(Front(stack), Loop)
      BY <1>1, <3>1 DEF ReplaceTop
    <3>3. /\ Front(stack) \in Seq(Frames) /\ Len(Front(stack)) \in Nat
          /\ \A i \in 1..Len(Front(stack)) : Front(stack)[i] = Loop
      BY <2>1, <3>1, Owner
    <3>4. /\ stack' \in Seq(Frames) /\ Len(stack') = Len(Front(stack)) + 1 /\ stack' # <<>>
          /\ \A i \in 1..Len(Front(stack)) : stack'[i] = Front(stack)[i]
          /\ stack'[Len(Front(stack)) + 1] = Loop
      BY <2>1, <3>2, <3>3
    <3> QED BY <3>3, <3>4 DEF Stacked, Last
  <2>3. CASE LockFree /\ ~IsInline(j)
    <3>1. stack' = <<Loop>>
      BY <1>1, <2>3 DEF LockFree
    <3> QED BY <2>1, <3>1 DEF Stacked, Last
  <2> QED BY <1>1, <2>2, <2>3 DEF MayProceed
<1>4. WorkConserving'
  BY <1>3 DEF WorkConserving, LockFree
<1> QED BY <1>2, <1>3, <1>4 DEF IInv

-----------------------------------------------------------------------------
(* The lock's owner.                                                       *)

LEMMA RegisterCallbackHolds ==
  ASSUME IInv, NEW j \in Jobs, RegisterCallback(j)
  PROVE  IInv'
<1>1. /\ stack # <<>> /\ Last(stack) = Register(j)
      /\ UNCHANGED <<tickerOrder, queue, arrivals, main, passed>>
  BY DEF RegisterCallback, OnTop, queues, producer
<1>2. /\ Stacked /\ Len(stack) >= 2 /\ phase[j] \in {"active", "ended"}
      /\ Front(stack) \in Seq(Frames) /\ Len(stack) \in Nat /\ Len(Front(stack)) = Len(stack) - 1
      /\ \A i \in 1..(Len(stack) - 1) : Front(stack)[i] = Loop
  <2>1. Stacked
    BY DEF IInv
  <2>2. Len(stack) >= 2 /\ phase[j] \in {"active", "ended"}
    BY <1>1, <2>1, FrameKinds DEF Stacked
  <2> QED BY <1>1, <2>1, <2>2, Owner
<1>3. Front(stack) # <<>> /\ Last(Front(stack)) = Loop
  <2>1. Len(stack) - 1 \in 1..(Len(stack) - 1)
    BY <1>2
  <2> QED BY <1>2, <2>1 DEF Last
<1>4. CASE phase[j] = "ended"
  <2>1. /\ phase' = [phase EXCEPT ![j] = "callback"] /\ stack' = Append(Front(stack), Inline(j))
        /\ activeTotal' = activeTotal - 1
        /\ activeByTicker' = [activeByTicker EXCEPT ![TickerOf[j]] = @ - 1]
        /\ callbacksInflight' = callbacksInflight + 1
    BY <1>4 DEF RegisterCallback, Account, ReplaceTop
  <2>2. TypeOK' /\ Arriving' /\ Finished' /\ Books' /\ Ordered'
    <3>1. Settling(j, "callback")
      BY <1>1, <1>4, <2>1 DEF Settling
    <3> QED BY <3>1, Settles DEF IInv
  <2>3. Stacked' /\ stack' # <<>>
    <3>1. Inline(j) \in Frames /\ phase'[j] = "callback"
      BY <2>1, FrameKinds DEF IInv, TypeOK
    <3>2. /\ stack' \in Seq(Frames) /\ Len(stack') = Len(stack) /\ stack' # <<>>
          /\ \A i \in 1..(Len(stack) - 1) : stack'[i] = Front(stack)[i]
          /\ stack'[Len(stack)] = Inline(j)
      BY <1>2, <2>1, <3>1
    <3> QED BY <1>2, <3>1, <3>2 DEF Stacked, Last
  <2>4. WorkConserving'
    BY <2>3 DEF WorkConserving, LockFree
  <2> QED BY <2>2, <2>3, <2>4 DEF IInv
<1>5. CASE phase[j] # "ended"
  <2>1. stack' = Front(stack) /\ UNCHANGED <<phase, activeTotal, activeByTicker, callbacksInflight>>
    BY <1>5 DEF RegisterCallback, counters
  <2>2. TypeOK' /\ Arriving' /\ Finished' /\ Ordered'
    BY <1>1, <2>1 DEF IInv, TypeOK, Arriving, Finished, Ordered, InPhase, Ready, Before
  <2>3. Books'
    BY <1>1, <2>1 DEF IInv, Books, InPhase, Counted, CountedOf, QueuedOf
  <2>4. Stacked'
    BY <1>2, <1>3, <2>1 DEF Stacked
  <2>5. WorkConserving'
    BY <1>3, <2>1 DEF WorkConserving, LockFree
  <2> QED BY <2>2, <2>3, <2>4, <2>5 DEF IInv
<1> QED BY <1>4, <1>5

LEMMA DispatchEndsHolds ==
  ASSUME IInv, DispatchEnds
  PROVE  IInv'
<1>1. /\ stack # <<>> /\ NothingReady /\ stack' = Front(stack)
      /\ UNCHANGED <<phase, tickerOrder, queue, activeTotal, activeByTicker, callbacksInflight, arrivals, main, passed>>
  BY DEF DispatchEnds, OnTop, queues, counters, producer
<1>2. TypeOK' /\ Arriving' /\ Finished' /\ Ordered'
  BY <1>1 DEF IInv, TypeOK, Arriving, Finished, Ordered, InPhase, Ready, Before
<1>3. Books'
  BY <1>1 DEF IInv, Books, InPhase, Counted, CountedOf, QueuedOf
<1>4. Stacked'
  <2>1. /\ Front(stack) \in Seq(Frames) /\ Len(stack) \in Nat \ {0} /\ Len(Front(stack)) = Len(stack) - 1
        /\ \A i \in 1..(Len(stack) - 1) : Front(stack)[i] = Loop
    BY <1>1, Owner DEF IInv
  <2>2. Front(stack) # <<>> => Len(stack) - 1 \in 1..(Len(stack) - 1)
    BY <2>1
  <2> QED BY <1>1, <2>1, <2>2 DEF Stacked, Last
<1>5. WorkConserving'
  BY <1>1 DEF WorkConserving, NothingReady, ReadyTicker, SelectInSeq
<1> QED BY <1>2, <1>3, <1>4, <1>5 DEF IInv

LEMMA MainHolds ==
  ASSUME IInv, Wait \/ WaitReturns \/ Close
  PROVE  IInv'
<1>1. UNCHANGED <<phase, tickerOrder, queue, activeTotal, activeByTicker, callbacksInflight, stack, arrivals, passed>>
  BY DEF Wait, WaitReturns, Close, MainGoes, queues, counters
<1>2. TypeOK' /\ Arriving' /\ Ordered'
  BY <1>1 DEF IInv, TypeOK, Arriving, Ordered, Ready, Before, Wait, WaitReturns, Close, MainGoes
<1>3. Books'
  BY <1>1 DEF IInv, Books, InPhase, Counted, CountedOf, QueuedOf
<1>4. Stacked' /\ WorkConserving'
  BY <1>1 DEF IInv, Stacked, WorkConserving, LockFree, NothingReady, ReadyTicker, SelectInSeq
<1>5. Finished'
  <2>1. CASE Wait
    BY <2>1 DEF Wait, MainGoes, Finished
  <2>2. CASE WaitReturns
    <3>1. activeTotal = 0 /\ callbacksInflight = 0 /\ \A t \in Tickers : queue[t] = <<>>
      BY <2>2 DEF WaitReturns, Drained
    <3>2. Counted = {} /\ InPhase({"callback"}) = {}
      BY <3>1, Phases, JobsCounted DEF IInv, Books
    <3>3. InPhase({"queued"}) = {}
      <4> SUFFICES ASSUME NEW j \in InPhase({"queued"}) PROVE FALSE
        OBVIOUS
      <4>1. TickerOf[j] \in Tickers /\ j \in QueuedOf(TickerOf[j])
        BY DEF Tickers, QueuedOf, InPhase
      <4>2. j \in ToSet(<<>>)
        BY <3>1, <4>1 DEF IInv, Books
      <4> QED BY <4>2 DEF ToSet
    <3>4. InPhase({"queued", "active", "ended", "callback"}) = {}
      BY <3>2, <3>3 DEF InPhase, Counted
    <3> QED BY <1>1, <2>2, <3>4 DEF WaitReturns, MainGoes, Finished, IInv, InPhase
  <2>3. CASE Close
    BY <1>1, <2>3 DEF Close, MainGoes, Finished, IInv, InPhase
  <2> QED BY <2>1, <2>2, <2>3
<1> QED BY <1>2, <1>3, <1>4, <1>5 DEF IInv

(* The ticker found under its cap, and the first job of its queue.         *)
LEMMA Found ==
  ASSUME TypeOK, Books, ~NothingReady
  PROVE  LET t == tickerOrder[ReadyTicker] j == Head(queue[t]) IN
         /\ ReadyTicker \in 1..Len(tickerOrder) /\ t \in Tickers
         /\ activeTotal < MaxWorkers /\ activeByTicker[t] < MaxPerTicker
         /\ \A i \in 1..Len(tickerOrder) : i < ReadyTicker => activeByTicker[tickerOrder[i]] >= MaxPerTicker
         /\ queue[t] \in Seq(Jobs) /\ queue[t] # <<>> /\ IsInjective(queue[t])
         /\ j \in Jobs /\ phase[j] = "queued" /\ TickerOf[j] = t
<1> DEFINE t == tickerOrder[ReadyTicker]
           j == Head(queue[t])
<1>1. activeTotal < MaxWorkers /\ ReadyTicker # 0
  BY ExtractionAssumption DEF NothingReady, TypeOK
<1>2. ReadyTicker \in 1..Len(tickerOrder)
  BY <1>1, Search
<1>3. t \in Tickers /\ queue[t] # <<>>
  BY <1>2, OrderTyped
<1>4. queue[t] \in Seq(Jobs) /\ IsInjective(queue[t]) /\ ToSet(queue[t]) = QueuedOf(t)
  BY <1>3 DEF TypeOK, Books
<1>5. j \in Jobs /\ j \in QueuedOf(t)
  BY <1>3, <1>4, Popped
<1> QED BY <1>1, <1>2, <1>3, <1>4, <1>5, Search DEF QueuedOf, InPhase

LEMMA DispatchOneHolds ==
  ASSUME IInv, DispatchOne
  PROVE  IInv'
<1> DEFINE r == ReadyTicker
           t == tickerOrder[r]
           j == Head(queue[t])
           turned == Rotated(tickerOrder, r)
<1>1. /\ stack # <<>> /\ Last(stack) = Loop /\ ~NothingReady
      /\ queue' = [queue EXCEPT ![t] = Tail(queue[t])]
      /\ tickerOrder' = IF Len(queue[t]) = 1 THEN Front(turned) ELSE turned
      /\ activeTotal' = activeTotal + 1
      /\ activeByTicker' = [activeByTicker EXCEPT ![t] = activeByTicker[t] + 1]
      /\ phase' = [phase EXCEPT ![j] = "active"]
      /\ stack' = Append(stack, Register(j))
      /\ passed' = [pair \in Tickers \X Tickers |->
                      IF pair[1] = t \/ ~Ready(pair[1]) THEN 0
                      ELSE IF pair[2] = t THEN passed[pair] + 1 ELSE passed[pair]]
      /\ UNCHANGED <<callbacksInflight, arrivals, main>>
  BY DEF DispatchOne, OnTop, producer
<1>2. TypeOK /\ Stacked /\ Arriving /\ Finished /\ Books /\ Ordered
  BY DEF IInv
<1>3. /\ r \in 1..Len(tickerOrder) /\ t \in Tickers
      /\ activeTotal < MaxWorkers /\ activeByTicker[t] < MaxPerTicker
      /\ \A i \in 1..Len(tickerOrder) : i < r => activeByTicker[tickerOrder[i]] >= MaxPerTicker
      /\ queue[t] \in Seq(Jobs) /\ queue[t] # <<>> /\ IsInjective(queue[t])
      /\ j \in Jobs /\ phase[j] = "queued" /\ TickerOf[j] = t
  BY <1>1, <1>2, Found
<1>4. /\ Tail(queue[t]) \in Seq(Jobs) /\ Len(Tail(queue[t])) = Len(queue[t]) - 1 /\ Len(queue[t]) \in Nat
      /\ IsInjective(Tail(queue[t])) /\ ToSet(Tail(queue[t])) = QueuedOf(t) \ {j}
  <2>1. ToSet(queue[t]) = QueuedOf(t)
    BY <1>2, <1>3 DEF Books
  <2> QED BY <1>3, <2>1, Popped
<1>5. /\ turned \in Seq(Tickers) /\ IsInjective(turned) /\ ToSet(turned) = ToSet(tickerOrder)
      /\ turned # <<>> /\ Last(turned) = t
      /\ \A x, u : (\E k \in 1..Len(tickerOrder) : k > r /\ tickerOrder[k] = x) /\ Before(tickerOrder, x, u) => Before(turned, x, u)
      /\ \A x : (\E k \in 1..Len(tickerOrder) : k > r /\ tickerOrder[k] = x) => Before(turned, x, t)
  BY <1>2, <1>3, OrderTyped, Turned DEF Books
<1> HIDE DEF r, t, j, turned
<1>6. /\ tickerOrder' \in Seq(Tickers) /\ IsInjective(tickerOrder')
      /\ ToSet(tickerOrder') = IF Len(queue[t]) = 1 THEN ToSet(tickerOrder) \ {t} ELSE ToSet(tickerOrder)
      /\ \A x, u : Before(turned, x, u) => Before(tickerOrder', x, u)
  <2>1. CASE Len(queue[t]) = 1
    BY <1>1, <1>5, <2>1, Shortened
  <2>2. CASE Len(queue[t]) # 1
    BY <1>1, <1>5, <2>2
  <2> QED BY <2>1, <2>2
<1>7. /\ phase'[j] = "active" /\ \A k \in Jobs \ {j} : phase'[k] = phase[k]
  BY <1>1, <1>2, <1>3 DEF TypeOK
<1>8. /\ InPhase({"queued"})' = InPhase({"queued"}) \ {j} /\ j \in InPhase({"queued"})
      /\ Counted' = Counted \cup {j} /\ j \notin Counted
      /\ InPhase({"callback"})' = InPhase({"callback"})
  BY <1>3, <1>7 DEF InPhase, Counted
<1>9. /\ \A u : CountedOf(u)' = IF u = t THEN CountedOf(u) \cup {j} ELSE CountedOf(u)
      /\ \A u : QueuedOf(u)' = IF u = t THEN QueuedOf(u) \ {j} ELSE QueuedOf(u)
      /\ \A u : j \notin CountedOf(u)
  BY <1>3, <1>8 DEF CountedOf, QueuedOf
<1>10. /\ \A u \in Tickers : queue'[u] = IF u = t THEN Tail(queue[t]) ELSE queue[u]
       /\ \A u \in Tickers : activeByTicker'[u] = IF u = t THEN activeByTicker[t] + 1 ELSE activeByTicker[u]
  BY <1>1, <1>2, <1>3 DEF TypeOK
<1>11. activeTotal' \in 0..MaxWorkers /\ activeByTicker' \in [Tickers -> 0..MaxPerTicker]
  <2>1. activeTotal \in 0..MaxWorkers /\ MaxWorkers \in Nat /\ MaxPerTicker \in Nat /\ activeByTicker \in [Tickers -> 0..MaxPerTicker]
    BY <1>2, ExtractionAssumption DEF TypeOK
  <2>2. activeTotal + 1 \in 0..MaxWorkers
    BY <1>3, <2>1
  <2>3. activeByTicker[t] \in 0..MaxPerTicker
    BY <1>3, <2>1
  <2>4. activeByTicker[t] + 1 \in 0..MaxPerTicker
    BY <1>3, <2>1, <2>3
  <2> QED BY <1>1, <2>1, <2>2, <2>4
<1>12. ASSUME NEW x \in Tickers, NEW u \in Tickers, passed'[<<x, u>>] # 0
       PROVE  x # u /\ passed'[<<x, u>>] = 1 /\ Ready(x)' /\ Before(tickerOrder', x, u)
  <2>1. /\ x # t /\ Ready(x)
        /\ passed'[<<x, u>>] = IF u = t THEN passed[<<x, u>>] + 1 ELSE passed[<<x, u>>]
    BY <1>1, <1>12
  <2>2. Ready(x)'
    BY <1>10, <2>1 DEF Ready
  <2>3. PICK k \in 1..Len(tickerOrder) : tickerOrder[k] = x
    BY <1>2, <2>1, OrderTyped DEF Ready
  <2>4. k > r
    <3>1. activeByTicker[x] < MaxPerTicker /\ activeByTicker[x] \in Nat /\ MaxPerTicker \in Nat
      BY <1>2, <2>1, ExtractionAssumption DEF Ready, TypeOK
    <3>2. ~(k < r)
      BY <1>3, <2>3, <3>1
    <3>3. k # r
      BY <2>1, <2>3 DEF t
    <3> QED BY <1>2, <1>3, <3>2, <3>3, OrderTyped
  <2>5. CASE u = t
    <3>1. passed[<<x, t>>] = 0
      <4> SUFFICES ASSUME passed[<<x, t>>] # 0 PROVE FALSE
        OBVIOUS
      <4>1. Before(tickerOrder, x, t)
        BY <1>2, <1>3 DEF Ordered
      <4>2. k < r
        BY <1>3, <2>3, <4>1 DEF Before, t
      <4> QED BY <1>2, <1>3, <2>4, <4>2, OrderTyped
    <3> QED BY <1>5, <1>6, <2>1, <2>2, <2>3, <2>4, <2>5, <3>1
  <2>6. CASE u # t
    <3>1. passed[<<x, u>>] # 0 /\ passed'[<<x, u>>] = passed[<<x, u>>]
      BY <1>12, <2>1, <2>6
    <3>2. x # u /\ passed[<<x, u>>] = 1 /\ Before(tickerOrder, x, u)
      BY <1>2, <3>1 DEF Ordered
    <3> QED BY <1>5, <1>6, <2>2, <2>3, <2>4, <3>1, <3>2
  <2> QED BY <2>5, <2>6
<1>13. TypeOK'
  <2>1. phase' \in [Jobs -> {"new", "queued", "active", "ended", "callback", "done"}]
    BY <1>1, <1>2 DEF TypeOK
  <2>2. queue' \in [Tickers -> Seq(Jobs)]
    BY <1>1, <1>2, <1>4 DEF TypeOK
  <2>3. passed' \in [Tickers \X Tickers -> Nat]
    <3>1. \A pair \in Tickers \X Tickers : passed[pair] \in Nat /\ passed[pair] + 1 \in Nat
      BY <1>2 DEF TypeOK
    <3> QED BY <1>1, <3>1
  <2> QED BY <1>1, <1>2, <1>6, <1>11, <2>1, <2>2, <2>3 DEF TypeOK
<1>14. Stacked' /\ stack' # <<>>
  <2>1. /\ stack \in Seq(Frames) /\ Len(stack) \in Nat \ {0} /\ Last(stack) = stack[Len(stack)]
        /\ Register(j) \in Frames /\ \A i \in 1..(Len(stack) - 1) : stack[i] = Loop
    BY <1>1, <1>2, <1>3, Owner, FrameKinds DEF Stacked
  <2>2. /\ stack' \in Seq(Frames) /\ Len(stack') = Len(stack) + 1 /\ stack' # <<>>
        /\ \A i \in 1..Len(stack) : stack'[i] = stack[i]
        /\ stack'[Len(stack) + 1] = Register(j)
    BY <1>1, <2>1
  <2>3. \A i \in 1..Len(stack) : i = Len(stack) \/ i \in 1..(Len(stack) - 1)
    BY <2>1
  <2>4. \A i \in 1..Len(stack) : stack'[i] = Loop
    BY <1>1, <2>1, <2>2, <2>3
  <2>5. Last(stack') = Register(j) /\ Len(stack') >= 2 /\ Len(stack') - 1 = Len(stack)
    BY <2>1, <2>2 DEF Last
  <2> QED BY <1>3, <1>7, <2>2, <2>4, <2>5 DEF Stacked
<1>15. Arriving'
  BY <1>1, <1>2, <1>3, <1>7 DEF Arriving
<1>16. Finished'
  <2>1. main \notin {"drained", "closed"}
    BY <1>2, <1>3 DEF Finished, InPhase
  <2> QED BY <1>1, <1>2, <2>1 DEF Finished
<1>17. Books'
  <2>1. InPhase({"queued"})' \cup Counted' = InPhase({"queued"}) \cup Counted
    BY <1>8
  <2>2. activeTotal' = Cardinality(Counted')
    BY <1>1, <1>2, <1>3, <1>8, Phases, Joins DEF Books
  <2>3. \A u \in Tickers : activeByTicker'[u] = Cardinality(CountedOf(u)')
    <3> SUFFICES ASSUME NEW u \in Tickers PROVE activeByTicker'[u] = Cardinality(CountedOf(u)')
      OBVIOUS
    <3>1. Cardinality(CountedOf(u) \cup {j}) = Cardinality(CountedOf(u)) + 1
      BY <1>3, <1>9, Phases, Joins
    <3> QED BY <1>2, <1>9, <1>10, <3>1 DEF Books
  <2>4. callbacksInflight' = Cardinality(InPhase({"callback"})')
    BY <1>1, <1>2, <1>8 DEF Books
  <2>5. ToSet(tickerOrder') = {u \in Tickers : queue'[u] # <<>>}
    <3>1. Tail(queue[t]) = <<>> <=> Len(queue[t]) = 1
      <4>1. \A s \in Seq(Jobs) : s = <<>> <=> Len(s) = 0
        OBVIOUS
      <4>2. Tail(queue[t]) = <<>> <=> Len(Tail(queue[t])) = 0
        BY <1>4, <4>1
      <4> QED BY <1>4, <4>2
    <3>2. \A u \in Tickers : queue'[u] # <<>> <=> queue[u] # <<>> /\ ~(u = t /\ Len(queue[t]) = 1)
      BY <1>3, <1>10, <3>1
    <3> QED BY <1>2, <1>3, <1>6, <3>2 DEF Books
  <2>6. \A u \in Tickers : IsInjective(queue'[u]) /\ ToSet(queue'[u]) = QueuedOf(u)'
    <3> SUFFICES ASSUME NEW u \in Tickers PROVE IsInjective(queue'[u]) /\ ToSet(queue'[u]) = QueuedOf(u)'
      OBVIOUS
    <3>1. CASE u = t
      BY <1>4, <1>9, <1>10, <3>1
    <3>2. CASE u # t
      <4>1. queue'[u] = queue[u] /\ QueuedOf(u)' = QueuedOf(u)
        BY <1>9, <1>10, <3>2
      <4> QED BY <1>2, <4>1 DEF Books
    <3> QED BY <3>1, <3>2
  <2> QED BY <1>2, <1>6, <2>1, <2>2, <2>3, <2>4, <2>5, <2>6 DEF Books
<1>18. WorkConserving'
  BY <1>14 DEF WorkConserving, LockFree
<1>19. Ordered'
  BY <1>12 DEF Ordered
<1> QED BY <1>13, <1>14, <1>15, <1>16, <1>17, <1>18, <1>19 DEF IInv

-----------------------------------------------------------------------------
LEMMA InitHolds ==
  ASSUME Init
  PROVE  IInv
<1>1. /\ phase = [j \in Jobs |-> "new"] /\ tickerOrder = <<>> /\ queue = [t \in Tickers |-> <<>>]
      /\ activeTotal = 0 /\ activeByTicker = [t \in Tickers |-> 0] /\ callbacksInflight = 0 /\ stack = <<>>
      /\ arrivals \in Seq(Jobs) /\ IsInjective(arrivals) /\ main = "submitting"
      /\ passed = [pair \in Tickers \X Tickers |-> 0]
  BY ExtractionAssumption DEF Init
<1>2. \A S : "new" \notin S => InPhase(S) = {}
  BY <1>1 DEF InPhase
<1>3. Counted = {} /\ InPhase({"queued"}) = {} /\ InPhase({"callback"}) = {}
  BY <1>2 DEF Counted
<1>4. \A t : CountedOf(t) = {} /\ QueuedOf(t) = {}
  BY <1>3 DEF CountedOf, QueuedOf
<1>5. MaxWorkers \in Nat /\ MaxPerTicker \in Nat /\ MaxInflight \in Nat /\ 0 \in 0..MaxWorkers /\ 0 \in 0..MaxPerTicker
  BY ExtractionAssumption
<1>6. TypeOK
  <2>1. phase \in [Jobs -> {"new", "queued", "active", "ended", "callback", "done"}] /\ queue \in [Tickers -> Seq(Jobs)]
    BY <1>1
  <2>2. tickerOrder \in Seq(Tickers) /\ passed \in [Tickers \X Tickers -> Nat]
    BY <1>1
  <2> QED BY <1>1, <1>5, <2>1, <2>2 DEF TypeOK
<1>7. Stacked
  BY <1>1 DEF Stacked
<1>8. Arriving
  BY <1>1 DEF Arriving
<1>9. Finished
  BY <1>1 DEF Finished
<1>10. Books
  <2>1. IsInjective(<<>>) /\ ToSet(<<>>) = {}
    BY DEF IsInjective, ToSet
  <2>2. \A t \in Tickers : queue[t] = <<>> /\ activeByTicker[t] = 0
    BY <1>1
  <2>3. Cardinality({}) = 0
    BY FS_EmptySet
  <2>4. InPhase({"queued"}) \cup Counted = {}
    BY <1>3
  <2>5. Cardinality(InPhase({"queued"}) \cup Counted) <= MaxInflight
    BY <1>5, <2>3, <2>4
  <2>6. activeTotal = Cardinality(Counted) /\ callbacksInflight = Cardinality(InPhase({"callback"}))
    BY <1>1, <1>3, <2>3
  <2>7. \A t \in Tickers : activeByTicker[t] = Cardinality(CountedOf(t))
    BY <1>4, <2>2, <2>3
  <2>8. IsInjective(tickerOrder) /\ ToSet(tickerOrder) = {t \in Tickers : queue[t] # <<>>}
    BY <1>1, <2>1, <2>2
  <2>9. \A t \in Tickers : IsInjective(queue[t]) /\ ToSet(queue[t]) = QueuedOf(t)
    BY <1>4, <2>1, <2>2
  <2> QED BY <2>5, <2>6, <2>7, <2>8, <2>9 DEF Books
<1>11. WorkConserving
  <2>1. {i \in 1..Len(tickerOrder) : activeByTicker[tickerOrder[i]] < MaxPerTicker} = {}
    BY <1>1
  <2>2. ReadyTicker = 0
    BY <2>1 DEF ReadyTicker, SelectInSeq
  <2> QED BY <2>2 DEF WorkConserving, NothingReady
<1>12. Ordered
  BY <1>1 DEF Ordered
<1> QED BY <1>6, <1>7, <1>8, <1>9, <1>10, <1>11, <1>12 DEF IInv

LEMMA NextHolds ==
  ASSUME IInv, [Next]_vars
  PROVE  IInv'
<1>1. CASE Main
  BY <1>1, SubmitHolds, MainHolds DEF Main
<1>2. CASE LockOwner
  BY <1>2, DispatchOneHolds, DispatchEndsHolds, RegisterCallbackHolds DEF LockOwner
<1>3. ASSUME NEW j \in Jobs, Worker(j) PROVE IInv'
  BY <1>3, JobEndsHolds, DoneOnWorkerHolds, DoneCallbackHolds DEF Worker
<1>4. CASE UNCHANGED vars
  <2>1. UNCHANGED <<phase, tickerOrder, queue, activeTotal, activeByTicker, callbacksInflight, stack, arrivals, main, passed>>
    BY <1>4 DEF vars
  <2>2. TypeOK' /\ Arriving' /\ Finished' /\ Ordered'
    BY <2>1 DEF IInv, TypeOK, Arriving, Finished, Ordered, InPhase, Ready, Before
  <2>3. Books'
    BY <2>1 DEF IInv, Books, InPhase, Counted, CountedOf, QueuedOf
  <2>4. Stacked' /\ WorkConserving'
    BY <2>1 DEF IInv, Stacked, WorkConserving, LockFree, NothingReady, ReadyTicker, SelectInSeq
  <2> QED BY <2>2, <2>3, <2>4 DEF IInv
<1> QED BY <1>1, <1>2, <1>3, <1>4 DEF Next, Terminated

(* The inductive invariant holds in every reachable state.                 *)
THEOREM Invariance == Spec => []IInv
<1>1. Init => IInv
  BY InitHolds
<1>2. IInv /\ [Next]_vars => IInv'
  BY NextHolds
<1> QED BY <1>1, <1>2, PTL DEF Spec

(* The scheduler's counters, its order of tickers and their queues, which  *)
(* submit, the dispatch and both critical sections of _done keep apart,    *)
(* are the jobs they stand for, and the backlog is never exceeded.         *)
THEOREM BooksAreExact == Spec => []BookkeepingExact
<1>1. IInv => BookkeepingExact
  BY DEF IInv, Books, BookkeepingExact, QueuedOf, CountedOf
<1> QED BY <1>1, Invariance, PTL

(* With no completion hook outstanding, a worker is idle only if no job    *)
(* that waits may run: _done dispatches after the hook, and a job that     *)
(* ended early is completed inside the dispatch.                           *)
THEOREM NoIdleWorker == Spec => []WorkConserving
<1>1. IInv => WorkConserving
  BY DEF IInv
<1> QED BY <1>1, Invariance, PTL

(* No ticker is dispatched twice while another has a job it may run,       *)
(* whatever the search puts behind: the docstring's "ticker-fair".         *)
THEOREM NoTickerPassedTwice == Spec => []TickerFair
<1>1. IInv => TickerFair
  <2> SUFFICES ASSUME IInv, NEW pair \in Tickers \X Tickers PROVE passed[pair] <= 1
    BY DEF TickerFair
  <2>1. pair = <<pair[1], pair[2]>> /\ pair[1] \in Tickers /\ pair[2] \in Tickers
    OBVIOUS
  <2>2. passed[<<pair[1], pair[2]>>] = 0 \/ passed[<<pair[1], pair[2]>>] = 1
    BY <2>1 DEF IInv, Ordered
  <2> QED BY <2>1, <2>2
<1> QED BY <1>1, Invariance, PTL

-----------------------------------------------------------------------------
(* The job pool the scheduler implements: the status of each job.          *)

StatusOf(p) == CASE p = "new"                 -> "new"
                 [] p = "queued"              -> "pending"
                 [] p \in {"active", "ended"} -> "running"
                 [] p = "callback"            -> "notifying"
                 [] OTHER                     -> "completed"

Status == [j \in Jobs |-> StatusOf(phase[j])]

LEMMA StatusValues ==
  /\ StatusOf("new") = "new" /\ StatusOf("queued") = "pending" /\ StatusOf("active") = "running"
  /\ StatusOf("ended") = "running" /\ StatusOf("callback") = "notifying" /\ StatusOf("done") = "completed"
BY DEF StatusOf

LEMMA StatusMoves ==
  ASSUME TypeOK, NEW j \in Jobs, NEW p, phase' = [phase EXCEPT ![j] = p]
  PROVE  Status[j] = StatusOf(phase[j]) /\ Status' = [Status EXCEPT ![j] = StatusOf(p)]
<1>1. phase'[j] = p /\ \A k \in Jobs \ {j} : phase'[k] = phase[k]
  BY PhaseMoves
<1>2. Status = [k \in Jobs |-> StatusOf(phase[k])]
  BY DEF Status
<1>3. Status' = [k \in Jobs |-> StatusOf(phase'[k])]
  BY DEF Status
<1>4. Status' = [k \in Jobs |-> IF k = j THEN StatusOf(p) ELSE StatusOf(phase[k])]
  BY <1>1, <1>3
<1> QED BY <1>2, <1>4

(* A dispatch keeps the pool's caps.                                       *)
LEMMA StaysWithin ==
  ASSUME TypeOK, TypeOK', Books', NEW j \in Jobs, phase' = [phase EXCEPT ![j] = "active"]
  PROVE  Pool!Within(Pool!Running \cup {j})
<1>1. Pool!Running \cup {j} = Counted'
  <2>1. \A k \in Jobs : Status[k] = "running" <=> phase[k] \in {"active", "ended"}
    BY StatusValues DEF Status, TypeOK
  <2>2. Pool!Running = {k \in Jobs : Status[k] = "running"}
    BY DEF Pool!Running, Status, StatusOf
  <2>3. phase'[j] = "active" /\ \A k \in Jobs \ {j} : phase'[k] = phase[k]
    BY DEF TypeOK
  <2> QED BY <2>1, <2>2, <2>3 DEF Counted, InPhase
<1>2. Counted' \cap Jobs = Counted' /\ \A t : Counted' \cap {k \in Jobs : TickerOf[k] = t} = CountedOf(t)'
  BY DEF Counted, CountedOf, InPhase
<1>3. Cardinality(Counted') <= MaxWorkers /\ \A t \in Tickers : Cardinality(CountedOf(t)') <= MaxPerTicker
  BY DEF Books, TypeOK
<1>4. Cardinality(Counted' \cap Jobs) <= MaxWorkers
  BY <1>2, <1>3
<1>5. \A t \in Tickers : Cardinality(Counted' \cap {k \in Jobs : TickerOf[k] = t}) <= MaxPerTicker
  BY <1>2, <1>3
<1>6. ASSUME NEW S, S = Counted' PROVE Pool!Within(S)
  <2>1. ASSUME NEW c \in {<<Jobs, MaxWorkers>>} \cup {<<{k \in Jobs : TickerOf[k] = t}, MaxPerTicker>> : t \in Tickers}
        PROVE  Cardinality(S \cap c[1]) <= c[2]
    <3>1. CASE c = <<Jobs, MaxWorkers>>
      BY <1>4, <1>6, <3>1
    <3>2. ASSUME NEW t \in Tickers, c = <<{k \in Jobs : TickerOf[k] = t}, MaxPerTicker>>
          PROVE  Cardinality(S \cap c[1]) <= c[2]
      BY <1>5, <1>6, <3>2
    <3> QED BY <3>1, <3>2
  <2>2. \A R : Pool!Cardinality(R) = Cardinality(R)
    BY DEF Pool!Cardinality, Cardinality
  <2> QED BY <2>1, <2>2 DEF Pool!Within
<1> QED BY <1>1, <1>6

LEMMA PoolStep ==
  ASSUME IInv, IInv', [Next]_vars
  PROVE  [Pool!Next]_(Pool!vars)
<1> USE DEF IInv
<1>1. ASSUME UNCHANGED Status, (main = "closed")' = (main = "closed") PROVE UNCHANGED Pool!vars
  BY <1>1 DEF Pool!vars, Status, StatusOf
<1>2. CASE Submit
  <2>1. PICK j \in Jobs : phase[j] = "new" /\ phase' = [phase EXCEPT ![j] = "queued"]
    <3>1. arrivals # <<>> /\ phase' = [phase EXCEPT ![Head(arrivals)] = "queued"]
      BY <1>2 DEF Submit
    <3>2. arrivals \in Seq(Jobs) /\ \A i \in 1..Len(arrivals) : phase[arrivals[i]] = "new"
      BY DEF Arriving
    <3>3. 1 \in 1..Len(arrivals) /\ Head(arrivals) = arrivals[1] /\ arrivals[1] \in Jobs
      BY <3>1, <3>2
    <3> QED BY <3>1, <3>2, <3>3
  <2>2. main = "submitting" /\ main' = main
    BY <1>2 DEF Submit
  <2>3. Status[j] = "new" /\ Status' = [Status EXCEPT ![j] = "pending"]
    BY <2>1, StatusMoves, StatusValues
  <2>4. Pool!Submit(j)
    BY <2>2, <2>3 DEF Pool!Submit, Pool!Move, Status, StatusOf
  <2>5. Pool!Next
    BY <2>4 DEF Pool!Next
  <2> QED BY <2>5
<1>3. CASE DispatchOne
  <2>1. PICK j \in Jobs : phase[j] = "queued" /\ phase' = [phase EXCEPT ![j] = "active"]
    BY <1>3, Found DEF DispatchOne
  <2>2. main' = main
    BY <1>3 DEF DispatchOne, producer
  <2>3. Status[j] = "pending" /\ Status' = [Status EXCEPT ![j] = "running"]
    BY <2>1, StatusMoves, StatusValues
  <2>4. Pool!Within(Pool!Running \cup {j})
    BY <2>1, StaysWithin
  <2>5. Pool!Start(j)
    BY <2>2, <2>3, <2>4 DEF Pool!Start, Pool!Move, Status, StatusOf
  <2>6. Pool!Next
    BY <2>5 DEF Pool!Next
  <2> QED BY <2>6
<1>4. ASSUME NEW j \in Jobs, JobEnds(j) PROVE UNCHANGED Pool!vars
  <2>1. phase[j] = "active" /\ main' = main /\ phase' = [phase EXCEPT ![j] = "ended"]
    BY <1>4 DEF JobEnds, producer
  <2>2. Status[j] = "running" /\ Status' = [Status EXCEPT ![j] = "running"]
    BY <2>1, StatusMoves, StatusValues
  <2>3. Status' = Status
    BY <2>2 DEF Status
  <2> QED BY <1>1, <2>1, <2>3
<1>5. ASSUME NEW j \in Jobs, phase[j] = "ended", Account(j), main' = main PROVE Pool!Next
  <2>1. phase' = [phase EXCEPT ![j] = "callback"]
    BY <1>5 DEF Account
  <2>2. Status[j] = "running" /\ Status' = [Status EXCEPT ![j] = "notifying"]
    BY <1>5, <2>1, StatusMoves, StatusValues
  <2>3. Pool!Finish(j)
    BY <1>5, <2>2 DEF Pool!Finish, Pool!Move, Status, StatusOf
  <2> QED BY <2>3 DEF Pool!Next
<1>6. ASSUME NEW j \in Jobs, DoneCallback(j) PROVE Pool!Next
  <2>1. phase[j] = "callback" /\ main' = main /\ phase' = [phase EXCEPT ![j] = "done"]
    BY <1>6 DEF DoneCallback, producer
  <2>2. Status[j] = "notifying" /\ Status' = [Status EXCEPT ![j] = "completed"]
    BY <2>1, StatusMoves, StatusValues
  <2>3. Pool!Complete(j)
    BY <2>1, <2>2 DEF Pool!Complete, Pool!Move, Status, StatusOf
  <2> QED BY <2>3 DEF Pool!Next
<1>7. CASE Close
  <2>1. main = "drained" /\ main' = "closed" /\ UNCHANGED phase
    BY <1>7 DEF Close, MainGoes
  <2>2. \A j \in Jobs : phase[j] \in {"new", "done"}
    BY <2>1 DEF Finished, InPhase, TypeOK
  <2>3. \A j \in Jobs : Status[j] \in {"new", "completed"}
    BY <2>2, StatusValues DEF Status
  <2>4. UNCHANGED Status
    BY <2>1 DEF Status
  <2>5. Pool!Close
    BY <2>1, <2>3, <2>4 DEF Pool!Close, Status, StatusOf
  <2> QED BY <2>5 DEF Pool!Next
<1>8. CASE Wait \/ WaitReturns \/ DispatchEnds \/ UNCHANGED vars
  <2>1. UNCHANGED phase /\ (main = "closed")' = (main = "closed")
    BY <1>8 DEF Wait, WaitReturns, DispatchEnds, MainGoes, vars, producer
  <2> QED BY <1>1, <2>1 DEF Status
<1>9. ASSUME NEW j \in Jobs, RegisterCallback(j) PROVE [Pool!Next]_(Pool!vars)
  <2>1. main' = main
    BY <1>9 DEF RegisterCallback, producer
  <2>2. CASE phase[j] = "ended"
    BY <1>5, <1>9, <2>1, <2>2 DEF RegisterCallback
  <2>3. CASE phase[j] # "ended"
    <3>1. UNCHANGED phase
      BY <1>9, <2>3 DEF RegisterCallback
    <3> QED BY <1>1, <2>1, <3>1 DEF Status
  <2> QED BY <2>2, <2>3
<1>10. ASSUME NEW j \in Jobs, DoneOnWorker(j) PROVE Pool!Next
  BY <1>5, <1>10 DEF DoneOnWorker, producer
<1> QED BY <1>2, <1>3, <1>4, <1>6, <1>7, <1>8, <1>9, <1>10 DEF Next, Main, LockOwner, Worker, Terminated

(* Every behaviour of the scheduler is one of the job pool: no job runs    *)
(* twice or beyond the caps, each hook is called once after its job, and   *)
(* wait and close, called one after the other, leave no job behind.        *)
THEOREM ImplementsJobPool == Spec => IsJobPool
<1>1. Init => Pool!Init
  <2> SUFFICES ASSUME Init PROVE Pool!Init
    OBVIOUS
  <2>1. phase = [j \in Jobs |-> "new"] /\ main = "submitting"
    BY DEF Init
  <2>2. Status = [j \in Jobs |-> "new"]
    BY <2>1, StatusValues DEF Status
  <2> QED BY <2>1, <2>2 DEF Pool!Init, Status, StatusOf
<1>2. IInv /\ IInv' /\ [Next]_vars => [Pool!Next]_(Pool!vars)
  BY PoolStep
<1> QED BY <1>1, <1>2, Invariance, PTL DEF Spec, IsJobPool, Pool!Spec
=============================================================================
