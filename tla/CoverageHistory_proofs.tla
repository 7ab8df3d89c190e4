------------------------ MODULE CoverageHistory_proofs ------------------------
(***************************************************************************)
(* For any list of announcements and any server, windows, kinds of run,    *)
(* faults and number of runs: a collection that calls itself complete is   *)
(* complete, what is covered is stored, and a window committed to Synapse  *)
(* is READY there.                                                         *)
(***************************************************************************)
EXTENDS CoverageHistory, FiniteSetTheorems, FunctionTheorems, SequenceTheorems, WellFoundedInduction, TLAPS

Ranges == {r \in [start : Nat, end : Nat] : r.start <= r.end}

Lanes == {"primary", "wide", "day", "day_wide", "ticker"}

Working == [lane : Lanes, days : SUBSET Nat, size : Nat, offset : Nat, seen : SUBSET Rows,
            probe : BOOLEAN, fanout : BOOLEAN, day : Nat, tickers : SUBSET Master,
            all : SUBSET Rows, short : SUBSET Nat, due : SUBSET Rows]

Ended == [lane : {"done"}, items : SUBSET Rows, complete : BOOLEAN, due : SUBSET Rows]

Known == {i \in Rows : listed[i].ticker \in Master}
DayOf(i) == Day(listed[i].at)
Current == List(Scope, Shard)

ListTyped ==
  /\ now \in Nat /\ listed \in Seq([at : Nat, ticker : Tickers])
  /\ \A i \in Rows : listed[i].at <= now
  /\ col = Idle \/ col \in Working \/ col \in Ended

(* Where the collector is: it goes through the days in their order.        *)
Placed ==
  /\ \E a, b \in Nat : a <= b /\ col.days = a .. b
  /\ col.day \in col.days
  /\ \A i \in col.due : DayOf(i) \in col.days
  /\ col.lane \in {"primary", "wide"} => col.day = Min(col.days)
  /\ col.lane \notin {"wide", "day_wide"} => col.size = PageSize
  /\ col.lane = "ticker" => col.tickers # {}

(* What stands before the offset has been seen, also after the list has    *)
(* grown at its head.                                                      *)
Passed ==
  /\ col.seen \subseteq Current
  /\ \A i \in col.due \cap Current : Position(i, Current) <= col.offset => i \in col.seen

(* What is behind the collector it has, or it knows that it has not.       *)
Gathered ==
  col.short = {} =>
    /\ col.lane \in {"day", "day_wide", "ticker"} => \A i \in col.due \cap Known : DayOf(i) < col.day => i \in col.all
    /\ col.lane = "ticker" =>
         \A i \in col.due \cap Known : DayOf(i) = col.day /\ listed[i].ticker \notin col.tickers => i \in col.all

Collecting ==
  /\ col \in Working => Placed /\ Passed /\ Gathered
  /\ ListingComplete

Local == {"collect", "filter", "process", "finish"}
Publishing == {"upsert", "mark", "commit", "set_aside", "verdict", "cover", "recant"}
Statuses == {"none", "DISCOVERED", "ANALYZING", "READY", "PARTIAL"}

LocalRun == [kind : Kinds, window : Ranges, before : SUBSET Ranges, missing : SUBSET Ranges, snapshot : Nat,
             queries : Seq(Ranges), raw : SUBSET Rows, complete : BOOLEAN, errors : BOOLEAN, work : SUBSET Rows]

SynapseRun == [kind : Kinds, window : Ranges, clean : BOOLEAN, work : SUBSET Rows]

HistoryTyped ==
  /\ pc \in {"idle"} \union Local \union Publishing
  /\ pc \in Local => run \in LocalRun
  /\ pc \in Publishing => run \in SynapseRun
  /\ pc # "collect" <=> col = Idle
  /\ coverage \in SUBSET Ranges /\ IsFiniteSet(coverage) /\ \A r \in coverage : r.end <= now
  /\ stored \in SUBSET Rows /\ ready \in SUBSET stored
  /\ Len(listed) <= MaxRows /\ remote \in [1 .. MaxRows -> Statuses]

(* The report of an older version proves no more than the instant at which *)
(* it was written.                                                         *)
LastKnown ==
  lastRun = {} \/ \E e \in Nat : /\ lastRun = {[start |-> 0, end |-> e, snapshot |-> 0]}
                                 /\ \A i \in Rows : listed[i].at = 0 => i \in stored

InGap(i, gap) == gap.start <= listed[i].at /\ listed[i].at <= gap.end

(* A gap has been asked for, or will be.                                   *)
Fetched(gap) == \A i \in Known : InGap(i, gap) => i \in run.raw
Queued(gap) == \E k \in 1 .. Len(run.queries) : run.queries[k] = Query(run.kind, run.window, gap)

(* The rows that had been listed when the run began, of the days asked for.*)
Due(query) == {i \in Rows : listed[i].at <= run.snapshot /\ Day(query.start) <= DayOf(i) /\ DayOf(i) <= Day(query.end)}

Planned ==
  /\ run.before = coverage /\ run.snapshot <= now /\ IsFiniteSet(run.missing)
  /\ \A g \in run.missing : g.end <= run.snapshot /\ run.window.start <= g.start /\ g.end <= run.window.end

Reading ==
  /\ pc \in Local => Planned
  /\ pc = "collect" =>
       /\ run.queries # <<>> /\ Due(Head(run.queries)) \subseteq col.due
       /\ \A g \in run.missing : Queued(g) \/ (run.complete => Fetched(g))
  /\ pc = "filter" /\ run.complete => \A g \in run.missing : Fetched(g)
  /\ pc \in {"process", "finish"} /\ run.kind # "limited" /\ Clean =>
       \A i \in Known : IsCovered(run.missing, listed[i].at) => i \in stored \union run.work
  /\ pc = "finish" => run.work = {}

(* A run that is clean has covered its window, and what is no longer to be *)
(* done is READY.                                                          *)
Published ==
  /\ pc \in Publishing /\ run.clean => \A i \in Rows : Within(i, run.window) => IsCovered(coverage, listed[i].at)
  /\ pc \in {"mark", "commit", "set_aside"} => run.work # {}
  /\ pc \in {"mark", "commit", "set_aside", "verdict", "cover"} /\ run.clean =>
       \A i \in Items : i \in run.work \/ remote[i] = "READY"
  /\ pc \in {"verdict", "cover"} => run.work = {}
  /\ pc = "cover" => run.clean

IInv ==
  /\ ListTyped /\ Collecting /\ HistoryTyped /\ LastKnown
  /\ Reading /\ MissingExact /\ CoveredRowsStored /\ Published

-----------------------------------------------------------------------------
(* Numbers, and what is built a step at a time.                            *)

LEMMA Pairs ==
  ASSUME NEW m \in Int, NEW n \in Int
  PROVE  /\ Max({m, n}) = IF m >= n THEN m ELSE n
         /\ Min({m, n}) = IF m <= n THEN m ELSE n
<1>1. \A x \in {m, n} : (\A y \in {m, n} : x >= y) => x = IF m >= n THEN m ELSE n
  OBVIOUS
<1>2. \A x \in {m, n} : (\A y \in {m, n} : x <= y) => x = IF m <= n THEN m ELSE n
  OBVIOUS
<1>3. \E x \in {m, n} : \A y \in {m, n} : x >= y
  <2>1. CASE m >= n
    BY <2>1
  <2>2. CASE ~(m >= n)
    BY <2>2
  <2> QED BY <2>1, <2>2
<1>4. \E x \in {m, n} : \A y \in {m, n} : x <= y
  <2>1. CASE m <= n
    BY <2>1
  <2>2. CASE ~(m <= n)
    BY <2>2
  <2> QED BY <2>1, <2>2
<1> QED BY <1>1, <1>2, <1>3, <1>4 DEF Max, Min

(* A set of numbers has a least element: there are no gaps and no days to  *)
(* skip.                                                                   *)
LEMMA LeastElement ==
  ASSUME NEW S \in SUBSET Nat, S # {}
  PROVE  \E n \in S : \A m \in S : n <= m
<1> DEFINE R == OpToRel(<, Nat)
<1>1. \E x \in S : \A y \in S : ~ (<<y, x>> \in R)
  BY WFMin, NatLessThanWellFounded
<1>2. \A x, y \in Nat : y < x => <<y, x>> \in R
  BY DEF OpToRel
<1> HIDE DEF R
<1>3. \A x, y \in Nat : ~ (y < x) => x <= y
  OBVIOUS
<1> QED BY <1>1, <1>2, <1>3

(* The ranges in their order.                                              *)
LEMMA Orders ==
  \A r, q, p \in Ranges :
    /\ Before(r, q) \/ Before(q, r) \/ r = q
    /\ ~Before(r, r)
    /\ Before(r, q) => ~Before(q, r) /\ r # q
    /\ Before(r, q) /\ Before(q, p) => Before(r, p)
<1>1. \A r, q \in Ranges : r.start = q.start /\ r.end = q.end => r = q
  BY DEF Ranges
<1>2. \A r \in Ranges : r.start \in Int /\ r.end \in Int
  BY DEF Ranges
<1> QED BY <1>1, <1>2 DEF Before

(* Finitely many ranges have a sorted sequence, and it holds each of them. *)
LEMMA SortedRanges ==
  ASSUME NEW R \in SUBSET Ranges, IsFiniteSet(R)
  PROVE  /\ Cardinality(R) \in Nat
         /\ Sorted(R) \in [1 .. Cardinality(R) -> R]
         /\ \A i, j \in 1 .. Cardinality(R) : i < j => Before(Sorted(R)[i], Sorted(R)[j])
         /\ \A r \in R : \E i \in 1 .. Cardinality(R) : Sorted(R)[i] = r
<1> DEFINE n == Cardinality(R)
           upTo(r) == {q \in R : ~Before(r, q)}
           rank == [r \in R |-> Cardinality(upTo(r))]
<1>1. n \in Nat
  BY FS_CardinalityType
<1>2. ASSUME NEW r \in R
      PROVE  IsFiniteSet(upTo(r)) /\ rank[r] \in 1 .. n
  <2>1. upTo(r) \in SUBSET R /\ r \in upTo(r)
    BY Orders
  <2>2. IsFiniteSet(upTo(r)) /\ Cardinality(upTo(r)) <= n
    BY <2>1, FS_Subset
  <2>3. Cardinality(upTo(r)) \in Nat /\ Cardinality(upTo(r)) # 0
    BY <2>1, <2>2, FS_CardinalityType, FS_EmptySet
  <2> QED BY <1>1, <2>2, <2>3
<1>3. ASSUME NEW r \in R, NEW q \in R, Before(r, q) PROVE rank[r] < rank[q]
  <2>1. upTo(r) \in SUBSET upTo(q) /\ q \in upTo(q) /\ q \notin upTo(r)
    BY <1>3, Orders
  <2>2. Cardinality(upTo(r)) <= Cardinality(upTo(q)) /\ Cardinality(upTo(r)) # Cardinality(upTo(q))
    BY <1>2, <2>1, FS_Subset
  <2>3. rank[r] \in Nat /\ rank[q] \in Nat
    BY <1>2
  <2> QED BY <2>2, <2>3
<1>4. rank \in Injection(R, 1 .. n)
  <2>1. \A r, q \in R : rank[r] = rank[q] => r = q
    <3>1. \A r, q \in R : rank[r] \in Int
      BY <1>2
    <3> HIDE DEF rank
    <3> QED BY <1>3, <3>1, Orders
  <2>2. rank \in [R -> 1 .. n]
    BY <1>2
  <2> QED BY <2>1, <2>2 DEF Injection, IsInjective
<1>5. IsFiniteSet(1 .. n) /\ Cardinality(1 .. n) = n
  BY <1>1, FS_Interval
<1>6. rank \in Surjection(R, 1 .. n)
  BY <1>4, <1>5, FS_Injection
<1>7. \A k \in 1 .. n : \E r \in R : rank[r] = k
  BY <1>6 DEF Surjection
<1>8. \A r \in R : rank[r] \in Int
  BY <1>2
<1> HIDE DEF rank
<1> DEFINE s == [k \in 1 .. n |-> CHOOSE r \in R : rank[r] = k]
<1>9. \A k \in 1 .. n : s[k] \in R /\ rank[s[k]] = k
  BY <1>7
<1>10. s \in [1 .. n -> R]
  BY <1>9
<1>11. \A i, j \in DOMAIN s : i < j => Before(s[i], s[j])
  <2> SUFFICES ASSUME NEW i \in 1 .. n, NEW j \in 1 .. n, i < j PROVE Before(s[i], s[j])
    OBVIOUS
  <2>1. s[i] # s[j] /\ ~(rank[s[j]] < rank[s[i]])
    BY <1>9
  <2> HIDE DEF s
  <2> QED BY <1>3, <1>9, <2>1, Orders
<1> HIDE DEF s
<1>12. \E f \in [1 .. n -> R] : \A i, j \in DOMAIN f : i < j => Before(f[i], f[j])
  BY <1>10, <1>11
<1>13. /\ Sorted(R) \in [1 .. n -> R]
       /\ \A i, j \in DOMAIN Sorted(R) : i < j => Before(Sorted(R)[i], Sorted(R)[j])
  BY <1>12 DEF Sorted
<1> DEFINE t == Sorted(R)
<1> HIDE DEF t
<1>14. t \in [1 .. n -> R] /\ \A i, j \in 1 .. n : i < j => Before(t[i], t[j])
  BY <1>13 DEF t
<1>15. t \in Injection(1 .. n, R)
  <2>1. \A i, j \in 1 .. n : i < j \/ j < i \/ i = j
    OBVIOUS
  <2>2. \A i, j \in 1 .. n : t[i] = t[j] => i = j
    BY <1>14, <2>1, Orders
  <2> QED BY <1>14, <2>2 DEF Injection, IsInjective
<1>16. t \in Surjection(1 .. n, R)
  BY <1>5, <1>15, FS_Injection
<1>17. \A r \in R : \E i \in 1 .. n : t[i] = r
  BY <1>16 DEF Surjection
<1> QED BY <1>1, <1>14, <1>17 DEF t

(* What is built a step at a time exists.                                  *)
Iterated(f, N, V, v, G) == f \in [0 .. N -> V] /\ f[0] = v /\ \A n \in 1 .. N : f[n] = G[n][f[n - 1]]

(* What a recursive function computes step by step, in N steps.            *)
LEMMA Iterates ==
  ASSUME NEW N \in Nat, NEW V, NEW v \in V, NEW G \in [1 .. N -> [V -> V]]
  PROVE  \E f : Iterated(f, N, V, v, G)
<1> DEFINE Upto(f, n) == f[0] = v /\ \A m \in 1 .. n : f[m] = G[m][f[m - 1]]
           Open == {n \in 0 .. N : ~ \E f \in [0 .. N -> V] : Upto(f, n)}
<1>1. SUFFICES Open = {}
  <2>1. N \in 0 .. N
    OBVIOUS
  <2>2. ASSUME N \notin Open PROVE \E f \in [0 .. N -> V] : Upto(f, N)
    BY <2>1, <2>2
  <2> QED BY <2>2 DEF Iterated
<1>2. SUFFICES ASSUME Open # {} PROVE FALSE
  OBVIOUS
<1>3. Open \in SUBSET Nat
  OBVIOUS
<1>4. PICK n \in Open : \A m \in Open : n <= m
  BY <1>2, <1>3, LeastElement
<1>5. n \in 0 .. N
  OBVIOUS
<1>6. n # 0
  <2>1. [m \in 0 .. N |-> v] \in [0 .. N -> V] /\ Upto([m \in 0 .. N |-> v], 0)
    BY <1>5
  <2> QED BY <2>1
<1>7. n - 1 \in 0 .. N /\ n - 1 \notin Open
  <2>1. n - 1 \in 0 .. N /\ ~(n <= n - 1)
    BY <1>5, <1>6
  <2> HIDE DEF Open
  <2> QED BY <1>4, <2>1
<1>8. PICK f \in [0 .. N -> V] : Upto(f, n - 1)
  BY <1>7
<1> DEFINE g == [f EXCEPT ![n] = G[n][f[n - 1]]]
<1>9. g \in [0 .. N -> V]
  <2>1. n \in 1 .. N
    BY <1>5, <1>6
  <2>2. G[n] \in [V -> V] /\ f[n - 1] \in V
    BY <1>7, <2>1
  <2>3. G[n][f[n - 1]] \in V
    BY <2>2
  <2> QED BY <2>3
<1>10. Upto(g, n)
  <2>1. g[n] = G[n][f[n - 1]] /\ \A m \in 0 .. N : m # n => g[m] = f[m]
    BY <1>5
  <2> HIDE DEF g
  <2>2. g[0] = v
    BY <1>5, <1>6, <1>8, <2>1
  <2>3. ASSUME NEW m \in 1 .. n PROVE g[m] = G[m][g[m - 1]]
    <3>1. CASE m = n
      BY <1>7, <2>1, <3>1, <1>5
    <3>2. CASE m # n
      <4>1. m \in 1 .. (n - 1) /\ m \in 0 .. N /\ m - 1 \in 0 .. N /\ m - 1 # n
        BY <1>5, <1>6, <3>2
      <4> QED BY <1>8, <2>1, <3>2, <4>1
    <3> QED BY <3>1, <3>2
  <2> QED BY <2>2, <2>3
<1> QED BY <1>9, <1>10

(* And what every step keeps holds at the end.                             *)
LEMMA Steps ==
  ASSUME NEW N \in Nat, NEW S \in SUBSET (0 .. N), 0 \in S, \A n \in 1 .. N : n - 1 \in S => n \in S
  PROVE  S = 0 .. N
<1> DEFINE Open == (0 .. N) \ S
<1>1. SUFFICES ASSUME Open # {} PROVE FALSE
  OBVIOUS
<1>2. Open \in SUBSET Nat
  OBVIOUS
<1>3. PICK n \in Open : \A m \in Open : n <= m
  BY <1>1, <1>2, LeastElement
<1>4. n \in 1 .. N /\ n - 1 \in 0 .. N /\ ~(n <= n - 1)
  OBVIOUS
<1>5. n - 1 \in S
  BY <1>3, <1>4
<1> QED BY <1>4, <1>5

-----------------------------------------------------------------------------
(* Ranges that are merged.                                                 *)

Apart(m) == \A i, j \in 1 .. Len(m) : i < j => m[i].end < m[j].start

LEMMA PointsOf ==
  \A r \in Ranges : r.start \in Nat /\ r.end \in Nat /\ r.start <= r.end
                   /\ \A p : p \in Points(r) <=> p \in Int /\ 2 * r.start <= p /\ p <= 2 * r.end
BY DEF Ranges, Points

(* A range that starts behind the others is merged: nothing is lost and    *)
(* nothing added, and what remains is sorted and apart.                    *)
LEMMA MergedOne ==
  ASSUME NEW done \in Seq(Ranges), Apart(done), NEW r \in Ranges, NEW n \in Nat, n = Len(done),
         done # <<>> => done[n].start <= r.start
  PROVE  LET m == Merged(done, r)
         IN  /\ m \in Seq(Ranges) /\ Apart(m) /\ m # <<>> /\ m[Len(m)].start <= r.start
             /\ \A p : (\E i \in 1 .. Len(m) : p \in Points(m[i]))
                         <=> p \in Points(r) \/ \E i \in 1 .. Len(done) : p \in Points(done[i])
<1> DEFINE m == Merged(done, r)
<1>1. done = <<>> <=> n = 0
  OBVIOUS
<1>2. \A i \in 1 .. n : done[i] \in Ranges
  <2>1. \A S : \A s \in Seq(S) : \A i \in 1 .. Len(s) : s[i] \in S
    OBVIOUS
  <2> QED BY <2>1
<1>3. r.start \in Nat /\ r.end \in Nat /\ r.start <= r.end
  BY PointsOf
<1>4. CASE done # <<>> /\ r.start <= done[n].end
  <2> DEFINE top == IF done[n].end >= r.end THEN done[n].end ELSE r.end
             last == [start |-> done[n].start, end |-> top]
  <2>1. n \in 1 .. n /\ done[n] \in Ranges
    BY <1>1, <1>2, <1>4
  <2>2. done[n].start \in Nat /\ done[n].end \in Nat /\ done[n].start <= done[n].end
    BY <2>1, PointsOf
  <2>3. top \in Nat /\ done[n].end <= top /\ r.end <= top /\ top \in {done[n].end, r.end}
    BY <1>3, <2>2
  <2>4. m = [done EXCEPT ![n] = last]
    <3>1. m = [done EXCEPT ![n].end = Max({@, r.end})]
      BY <1>4 DEF Merged, Last
    <3>2. Max({done[n].end, r.end}) = top
      BY <1>3, <2>2, Pairs
    <3>3. [done[n] EXCEPT !.end = top] = last
      BY <2>1 DEF Ranges
    <3> QED BY <2>1, <3>1, <3>2, <3>3
  <2>5. last \in Ranges
    BY <2>2, <2>3 DEF Ranges
  <2>6. m \in Seq(Ranges) /\ Len(m) = n /\ m[n] = last /\ \A i \in 1 .. n : i # n => m[i] = done[i]
    BY <1>1, <2>1, <2>4, <2>5, ExceptSeq
  <2>7. last.start = done[n].start /\ last.end = top
    OBVIOUS
  <2> HIDE DEF m, last, top
  <2>8. Apart(m)
    <3> SUFFICES ASSUME NEW i \in 1 .. n, NEW j \in 1 .. n, i < j PROVE m[i].end < m[j].start
      BY <2>6 DEF Apart
    <3>1. i # n
      BY <1>1
    <3>2. m[i] = done[i]
      BY <2>6, <3>1
    <3>3. m[j].start = done[j].start
      BY <2>6, <2>7
    <3> QED BY <3>2, <3>3 DEF Apart
  <2>9. \A p : p \in Points(last) <=> p \in Points(r) \/ p \in Points(done[n])
    BY <1>3, <1>4, <2>1, <2>2, <2>3, <2>5, <2>7, PointsOf
  <2>10. ASSUME NEW p
         PROVE  (\E i \in 1 .. n : p \in Points(m[i])) <=> p \in Points(r) \/ \E i \in 1 .. n : p \in Points(done[i])
    <3>1. ASSUME NEW i \in 1 .. n, p \in Points(m[i])
          PROVE  p \in Points(r) \/ \E k \in 1 .. n : p \in Points(done[k])
      <4>1. CASE i = n
        BY <2>1, <2>6, <2>9, <3>1, <4>1
      <4>2. CASE i # n
        BY <2>6, <3>1, <4>2
      <4> QED BY <4>1, <4>2
    <3>2. ASSUME NEW i \in 1 .. n, p \in Points(done[i])
          PROVE  \E k \in 1 .. n : p \in Points(m[k])
      <4>1. CASE i = n
        BY <2>1, <2>6, <2>9, <3>2, <4>1
      <4>2. CASE i # n
        BY <2>6, <3>2, <4>2
      <4> QED BY <4>1, <4>2
    <3>3. p \in Points(r) => \E k \in 1 .. n : p \in Points(m[k])
      BY <2>1, <2>6, <2>9
    <3> QED BY <3>1, <3>2, <3>3
  <2>11. m # <<>> /\ m[n].start <= r.start
    BY <1>1, <1>4, <2>1, <2>6, <2>7
  <2> QED BY <1>1, <2>6, <2>8, <2>10, <2>11 DEF m
<1>5. CASE ~(done # <<>> /\ r.start <= done[n].end)
  <2>1. m = Append(done, r)
    BY <1>5 DEF Merged, Last
  <2>2. m \in Seq(Ranges) /\ Len(m) = n + 1 /\ m[n + 1] = r /\ \A i \in 1 .. n : m[i] = done[i]
    BY <2>1, AppendProperties
  <2> HIDE DEF m
  <2>3. \A i \in 1 .. n : done[i].end < r.start
    <3> SUFFICES ASSUME NEW i \in 1 .. n PROVE done[i].end < r.start
      OBVIOUS
    <3>1. n \in 1 .. n /\ done[n] \in Ranges /\ done[i] \in Ranges
      BY <1>1, <1>2
    <3>2. done[n].end \in Nat /\ done[n].start \in Nat /\ done[i].end \in Nat /\ done[n].start <= done[n].end
      BY <3>1, PointsOf
    <3>3. done[n].end < r.start
      BY <1>1, <1>3, <1>5, <3>1, <3>2
    <3>4. i = n \/ done[i].end < done[n].start
      <4>1. i = n \/ i < n
        BY <1>1
      <4> QED BY <3>1, <4>1 DEF Apart
    <3> QED BY <1>3, <3>2, <3>3, <3>4
  <2>4. Apart(m)
    <3> SUFFICES ASSUME NEW i \in 1 .. (n + 1), NEW j \in 1 .. (n + 1), i < j PROVE m[i].end < m[j].start
      BY <2>2 DEF Apart
    <3>1. i \in 1 .. n /\ (j \in 1 .. n \/ j = n + 1)
      BY <1>1
    <3> QED BY <2>2, <2>3, <3>1 DEF Apart
  <2>5. \A i : i \in 1 .. (n + 1) <=> i \in 1 .. n \/ i = n + 1
    BY <1>1
  <2>6. ASSUME NEW p
        PROVE  (\E i \in 1 .. (n + 1) : p \in Points(m[i])) <=> p \in Points(r) \/ \E i \in 1 .. n : p \in Points(done[i])
    BY <2>2, <2>5
  <2>7. m # <<>>
    BY <1>1, <2>2
  <2>8. m[Len(m)].start <= r.start
    BY <1>3, <2>2
  <2> QED BY <1>1, <2>2, <2>4, <2>6, <2>7, <2>8 DEF m
<1> QED BY <1>4, <1>5

(* Normalising keeps the points of the ranges and leaves them sorted and   *)
(* apart.                                                                  *)
LEMMA Normalized ==
  ASSUME NEW R \in SUBSET Ranges, IsFiniteSet(R)
  PROVE  /\ Normalize(R) \in Seq(Ranges) /\ Apart(Normalize(R))
         /\ \A p : (\E i \in 1 .. Len(Normalize(R)) : p \in Points(Normalize(R)[i])) <=> \E r \in R : p \in Points(r)
<1> DEFINE N == Cardinality(R)
           s == Sorted(R)
<1>1. /\ N \in Nat /\ s \in [1 .. N -> R] /\ \A i, j \in 1 .. N : i < j => Before(s[i], s[j])
      /\ \A r \in R : \E i \in 1 .. N : s[i] = r
  BY SortedRanges
<1> HIDE DEF N, s
<1> DEFINE V == Seq(Ranges)
           G == [n \in 1 .. N |-> [done \in V |-> Merged(done, s[n])]]
           IsMerged(f) == f = [n \in 0 .. N |-> IF n = 0 THEN <<>> ELSE Merged(f[n - 1], s[n])]
<1>2. \A n \in 1 .. N : s[n] \in Ranges
  BY <1>1
<1>3. G \in [1 .. N -> [V -> V]]
  <2> SUFFICES ASSUME NEW n \in 1 .. N, NEW done \in V PROVE Merged(done, s[n]) \in V
    OBVIOUS
  <2>1. s[n].start \in Nat /\ s[n].end \in Nat
    BY <1>2, PointsOf
  <2>2. CASE done # <<>> /\ s[n].start <= done[Len(done)].end
    <3>1. Len(done) \in 1 .. Len(done) /\ Len(done) \in Nat
      BY <2>2
    <3>2. done[Len(done)] \in Ranges
      <4>1. \A S : \A t \in Seq(S) : \A i \in 1 .. Len(t) : t[i] \in S
        OBVIOUS
      <4> QED BY <3>1, <4>1
    <3> DEFINE top == Max({done[Len(done)].end, s[n].end})
    <3>3. top \in Nat /\ done[Len(done)].end <= top
      BY <2>1, <3>2, PointsOf, Pairs
    <3> HIDE DEF top
    <3>4. [done[Len(done)] EXCEPT !.end = top] \in Ranges
      BY <3>2, <3>3 DEF Ranges
    <3>5. Merged(done, s[n]) = [done EXCEPT ![Len(done)] = [done[Len(done)] EXCEPT !.end = top]]
      BY <2>2 DEF Merged, Last, top
    <3> QED BY <3>1, <3>4, <3>5, ExceptSeq
  <2>3. CASE ~(done # <<>> /\ s[n].start <= done[Len(done)].end)
    <3>1. Merged(done, s[n]) = Append(done, s[n])
      BY <2>3 DEF Merged, Last
    <3> QED BY <1>2, <3>1, AppendProperties
  <2> QED BY <2>2, <2>3
<1>4. <<>> \in V
  OBVIOUS
<1>5. PICK f \in [0 .. N -> V] : f[0] = <<>> /\ \A n \in 1 .. N : f[n] = G[n][f[n - 1]]
  <2>1. N \in Nat
    BY <1>1
  <2> HIDE DEF G, V
  <2>2. \E f : Iterated(f, N, V, <<>>, G)
    BY <2>1, <1>3, <1>4, Iterates
  <2> QED BY <2>2 DEF Iterated
<1>6. IsMerged(f)
  <2>1. ASSUME NEW n \in 0 .. N PROVE f[n] = IF n = 0 THEN <<>> ELSE Merged(f[n - 1], s[n])
    <3>1. CASE n # 0
      <4>1. n \in 1 .. N /\ n - 1 \in 0 .. N
        BY <1>1, <3>1
      <4>2. f[n - 1] \in V
        BY <4>1
      <4> QED BY <1>5, <3>1, <4>1, <4>2
    <3> QED BY <1>5, <3>1
  <2> QED BY <2>1
<1> DEFINE m == CHOOSE g : IsMerged(g)
<1>7. IsMerged(m)
  BY <1>6
<1>8. Normalize(R) = m[N]
  BY DEF Normalize, N, s
<1> HIDE DEF m
<1> DEFINE Good(n) == /\ m[n] \in Seq(Ranges) /\ Apart(m[n])
                      /\ n > 0 => m[n] # <<>> /\ m[n][Len(m[n])].start <= s[n].start
                      /\ \A p : (\E i \in 1 .. Len(m[n]) : p \in Points(m[n][i])) <=> \E k \in 1 .. n : p \in Points(s[k])
<1>9. m[0] = <<>> /\ \A n \in 1 .. N : m[n] = Merged(m[n - 1], s[n])
  BY <1>1, <1>7
<1> DEFINE S == {n \in 0 .. N : Good(n)}
<1>10. 0 \in S
  <2>1. m[0] = <<>> /\ 0 \in 0 .. N
    BY <1>1, <1>9
  <2>2. Len(m[0]) = 0 /\ m[0] \in Seq(Ranges)
    BY <2>1
  <2>3. \A i : i \notin 1 .. 0
    OBVIOUS
  <2>4. Apart(m[0])
    BY <2>2, <2>3 DEF Apart
  <2>5. \A p : (\E i \in 1 .. Len(m[0]) : p \in Points(m[0][i])) <=> \E k \in 1 .. 0 : p \in Points(s[k])
    BY <2>2, <2>3
  <2>6. ~(0 > 0)
    OBVIOUS
  <2>7. Good(0)
    BY <2>2, <2>4, <2>5, <2>6
  <2> HIDE DEF Good
  <2> QED BY <2>1, <2>7
<1>11. ASSUME NEW n \in 1 .. N, n - 1 \in S PROVE n \in S
  <2>1. n - 1 \in 0 .. N /\ n \in 0 .. N /\ n \in Nat /\ n > 0 /\ Good(n - 1)
    BY <1>1, <1>11
  <2>2. Len(m[n - 1]) \in Nat
    BY <2>1
  <2>3. m[n - 1] # <<>> => m[n - 1][Len(m[n - 1])].start <= s[n].start
    <3>1. CASE n - 1 > 0
      <4>1. n - 1 \in 1 .. N /\ n - 1 < n
        BY <2>1, <3>1
      <4>2. s[n - 1].start <= s[n].start /\ s[n - 1].start \in Nat /\ s[n].start \in Nat
        <5>1. n \in 1 .. N /\ s[n - 1] \in Ranges /\ s[n] \in Ranges
          BY <1>2, <4>1
        <5>2. Before(s[n - 1], s[n])
          BY <1>1, <4>1
        <5>3. s[n - 1].start \in Nat /\ s[n].start \in Nat
          BY <5>1, PointsOf
        <5> QED BY <5>2, <5>3 DEF Before
      <4>3. CASE m[n - 1] # <<>>
        <5>1. Len(m[n - 1]) \in 1 .. Len(m[n - 1])
          BY <2>1, <4>3
        <5>2. m[n - 1][Len(m[n - 1])] \in Ranges
          <6>1. \A T : \A t \in Seq(T) : \A i \in 1 .. Len(t) : t[i] \in T
            OBVIOUS
          <6> QED BY <2>1, <5>1, <6>1
        <5>3. m[n - 1][Len(m[n - 1])].start \in Nat
          BY <5>2, PointsOf
        <5> QED BY <2>1, <3>1, <4>2, <5>3
      <4> QED BY <4>3
    <3>2. CASE n - 1 = 0
      BY <1>9, <3>2
    <3> QED BY <2>1, <3>1, <3>2
  <2>4. m[n] = Merged(m[n - 1], s[n]) /\ s[n] \in Ranges
    BY <1>2, <1>9
  <2>5. /\ m[n] \in Seq(Ranges) /\ Apart(m[n]) /\ m[n] # <<>> /\ m[n][Len(m[n])].start <= s[n].start
        /\ \A p : (\E i \in 1 .. Len(m[n]) : p \in Points(m[n][i]))
                    <=> p \in Points(s[n]) \/ \E i \in 1 .. Len(m[n - 1]) : p \in Points(m[n - 1][i])
    <3> DEFINE d == m[n - 1]
    <3>1. /\ d \in Seq(Ranges) /\ Apart(d) /\ Len(d) \in Nat /\ (d # <<>> => d[Len(d)].start <= s[n].start)
          /\ m[n] = Merged(d, s[n]) /\ s[n] \in Ranges
      BY <2>1, <2>2, <2>3, <2>4
    <3> HIDE DEF d
    <3>2. /\ m[n] \in Seq(Ranges) /\ Apart(m[n]) /\ m[n] # <<>> /\ m[n][Len(m[n])].start <= s[n].start
          /\ \A p : (\E i \in 1 .. Len(m[n]) : p \in Points(m[n][i]))
                      <=> p \in Points(s[n]) \/ \E i \in 1 .. Len(d) : p \in Points(d[i])
      BY <3>1, MergedOne
    <3> QED BY <3>2 DEF d
  <2>6. \A k : k \in 1 .. n <=> k = n \/ k \in 1 .. (n - 1)
    BY <2>1
  <2>7. ASSUME NEW p
        PROVE  (\E i \in 1 .. Len(m[n]) : p \in Points(m[n][i])) <=> \E k \in 1 .. n : p \in Points(s[k])
    BY <2>1, <2>5, <2>6
  <2> QED BY <2>1, <2>5, <2>7
<1>12. S \in SUBSET (0 .. N)
  OBVIOUS
<1>13. S = 0 .. N
  <2> HIDE DEF S
  <2> QED BY <1>1, <1>10, <1>11, <1>12, Steps
<1>14. Good(N)
  <2>1. N \in 0 .. N
    BY <1>1
  <2> HIDE DEF Good
  <2> QED BY <1>13, <2>1
<1>15. \A p : (\E k \in 1 .. N : p \in Points(s[k])) <=> \E r \in R : p \in Points(r)
  BY <1>1
<1> QED BY <1>8, <1>14, <1>15

-----------------------------------------------------------------------------
(* What is left of a window.                                               *)

States == [missing : SUBSET Ranges, cursor : Nat, covered : BOOLEAN, stopped : BOOLEAN]

(* Points that are asked for and lie behind the cursor are in a gap or in  *)
(* a range; a gap and a range share at most a boundary; before it stops,   *)
(* the cursor has passed every range it has seen.                          *)
Passing(requested, m, s, n) ==
  /\ s \in States /\ IsFiniteSet(s.missing)
  /\ requested.start <= s.cursor
  /\ ~s.covered => s.cursor = requested.start
  /\ \A g \in s.missing :
       /\ requested.start <= g.start /\ g.end <= requested.end
       /\ \A k \in 1 .. Len(m) : m[k].end <= g.start \/ g.end <= m[k].start
  /\ \A p \in Points(requested) :
       p < 2 * s.cursor \/ (s.covered /\ p = 2 * s.cursor) =>
         (\E g \in s.missing : p \in Points(g)) \/ (\E k \in 1 .. Len(m) : p \in Points(m[k]))
  /\ ~s.stopped => \A k \in 1 .. n : m[k].end <= s.cursor
  /\ s.stopped => \/ s.covered /\ s.cursor >= requested.end
                  \/ \A k \in 1 .. Len(m) : m[k].end <= s.cursor \/ m[k].start > requested.end

(* One range further, the gaps so far and the ranges hold every point      *)
(* behind the cursor.                                                      *)
LEMMA CursorPasses ==
  ASSUME NEW requested \in Ranges, NEW m \in Seq(Ranges), Apart(m), NEW n \in 1 .. Len(m),
         NEW s, Passing(requested, m, s, n - 1)
  PROVE  Passing(requested, m, CursorStep(requested, s, m[n]), n)
<1> DEFINE e == m[n]
           t == CursorStep(requested, s, e)
           M == Len(m)
<1>1. M \in Nat /\ n \in Nat /\ \A k \in 1 .. M : m[k] \in Ranges
  <2>1. \A S : \A x \in Seq(S) : \A i \in 1 .. Len(x) : x[i] \in S
    OBVIOUS
  <2> QED BY <2>1
<1>2. requested.start \in Nat /\ requested.end \in Nat /\ requested.start <= requested.end
  BY PointsOf
<1>3. e \in Ranges /\ e.start \in Nat /\ e.end \in Nat /\ e.start <= e.end
  BY <1>1, PointsOf
<1>4. \A k \in 1 .. M : m[k].start \in Nat /\ m[k].end \in Nat /\ m[k].start <= m[k].end
  BY <1>1, PointsOf
<1>5. /\ s \in States /\ s.missing \in SUBSET Ranges /\ s.cursor \in Nat /\ s.covered \in BOOLEAN /\ s.stopped \in BOOLEAN
      /\ IsFiniteSet(s.missing) /\ requested.start <= s.cursor
  BY DEF Passing, States
<1>6. \A k \in 1 .. n : k = n \/ k \in 1 .. (n - 1)
  BY <1>1
<1>7. \A k \in 1 .. M : k \in 1 .. (n - 1) \/ k = n \/ (n < k /\ e.end < m[k].start)
  BY <1>1 DEF Apart
<1> HIDE DEF e, M
<1>8. CASE s.stopped
  <2>1. t = s
    BY <1>8 DEF CursorStep
  <2> QED BY <1>8, <2>1 DEF Passing, e
<1>9. CASE ~s.stopped /\ (e.end < requested.start \/ e.end < s.cursor)
  <2>1. t = s
    BY <1>9 DEF CursorStep
  <2>2. \A k \in 1 .. n : m[k].end <= s.cursor
    <3>1. e.end <= s.cursor
      BY <1>2, <1>3, <1>5, <1>9
    <3> QED BY <1>6, <1>9, <3>1 DEF Passing, e
  <2> QED BY <1>9, <2>1, <2>2 DEF Passing, e
<1>10. CASE /\ ~s.stopped /\ ~(e.end < requested.start \/ e.end < s.cursor)
            /\ e.start > requested.end
  <2>1. t = [s EXCEPT !.stopped = TRUE]
    BY <1>10 DEF CursorStep
  <2>2. /\ t \in States /\ t.missing = s.missing /\ t.cursor = s.cursor /\ t.covered = s.covered /\ t.stopped = TRUE
    BY <1>5, <2>1 DEF States
  <2>3. \A k \in 1 .. M : m[k].end <= s.cursor \/ m[k].start > requested.end
    BY <1>2, <1>3, <1>4, <1>7, <1>10 DEF Passing, e
  <2> QED BY <2>2, <2>3 DEF Passing, e, M
<1>11. CASE /\ ~s.stopped /\ ~(e.end < requested.start \/ e.end < s.cursor)
            /\ ~(e.start > requested.end)
  <2> DEFINE gap == [start |-> s.cursor, end |-> e.start]
             gaps == IF e.start > s.cursor THEN s.missing \union {gap} ELSE s.missing
  <2>1. e.start <= requested.end /\ requested.start <= e.end /\ s.cursor <= e.end
    BY <1>2, <1>3, <1>5, <1>11
  <2>2. Max({s.cursor, e.end}) = e.end /\ Min({e.start, requested.end}) = e.start
    <3>1. s.cursor \in Int /\ e.end \in Int /\ e.start \in Int /\ requested.end \in Int
      BY <1>2, <1>3, <1>5
    <3>2. \A x, y \in Int : /\ Max({x, y}) = IF x >= y THEN x ELSE y
                            /\ Min({x, y}) = IF x <= y THEN x ELSE y
      BY Pairs
    <3>3. /\ Max({s.cursor, e.end}) = IF s.cursor >= e.end THEN s.cursor ELSE e.end
          /\ Min({e.start, requested.end}) = IF e.start <= requested.end THEN e.start ELSE requested.end
      BY <3>1, <3>2
    <3> QED BY <2>1, <3>1, <3>3
  <2>3. t = [missing |-> gaps, cursor |-> e.end, covered |-> TRUE, stopped |-> e.end >= requested.end]
    <3>1. t = [missing |-> IF e.start > s.cursor
                           THEN s.missing \union {[start |-> s.cursor, end |-> Min({e.start, requested.end})]}
                           ELSE s.missing,
               cursor |-> Max({s.cursor, e.end}),
               covered |-> e.start <= Max({s.cursor, e.end}) /\ Max({s.cursor, e.end}) <= e.end,
               stopped |-> Max({s.cursor, e.end}) >= requested.end]
      BY <1>11 DEF CursorStep
    <3>2. (e.start <= e.end /\ e.end <= e.end) = TRUE
      BY <1>3
    <3> HIDE DEF t
    <3> QED BY <2>2, <3>1, <3>2
  <2>4. e.start > s.cursor => gap \in Ranges /\ gap.start = s.cursor /\ gap.end = e.start
    BY <1>3, <1>5 DEF Ranges
  <2> HIDE DEF gap, t
  <2>5. t \in States /\ t.missing = gaps /\ t.cursor = e.end /\ t.covered = TRUE /\ (t.stopped <=> e.end >= requested.end)
    <3>1. gaps \in SUBSET Ranges
      BY <1>5, <2>4
    <3>2. (e.end >= requested.end) \in BOOLEAN
      OBVIOUS
    <3> HIDE DEF gaps
    <3> QED BY <1>3, <2>3, <3>1, <3>2 DEF States
  <2>6. IsFiniteSet(t.missing)
    <3>1. IsFiniteSet(s.missing) /\ t.missing = gaps
      BY <1>5, <2>5
    <3>2. IsFiniteSet(s.missing \union {gap})
      BY <3>1, FS_AddElement
    <3> QED BY <3>1, <3>2
  <2>7. requested.start <= t.cursor
    BY <2>1, <2>5
  <2>8. ASSUME NEW g \in t.missing
        PROVE  /\ requested.start <= g.start /\ g.end <= requested.end
               /\ \A k \in 1 .. M : m[k].end <= g.start \/ g.end <= m[k].start
    <3>1. CASE g \in s.missing
      BY <3>1 DEF Passing, M
    <3>2. CASE g \notin s.missing
      <4>1. e.start > s.cursor /\ g = gap
        BY <2>5, <2>8, <3>2
      <4>2. ASSUME NEW k \in 1 .. M PROVE m[k].end <= s.cursor \/ e.start <= m[k].start
        <5>1. CASE k \in 1 .. (n - 1)
          BY <1>11, <5>1 DEF Passing
        <5>2. CASE k = n
          BY <1>3, <5>2 DEF e
        <5>3. CASE e.end < m[k].start
          BY <1>3, <1>4, <5>3
        <5> QED BY <1>7, <5>1, <5>2, <5>3
      <4> QED BY <1>5, <2>1, <2>4, <4>1, <4>2
    <3> QED BY <3>1, <3>2
  <2>9. ASSUME NEW p \in Points(requested), p < 2 * t.cursor \/ (t.covered /\ p = 2 * t.cursor)
        PROVE  (\E g \in t.missing : p \in Points(g)) \/ (\E k \in 1 .. M : p \in Points(m[k]))
    <3>1. p \in Int /\ p <= 2 * e.end
      BY <1>3, <2>5, <2>9, PointsOf
    <3>2. CASE p < 2 * s.cursor
      <4>1. s.missing \subseteq t.missing
        BY <2>5
      <4> QED BY <3>2, <4>1 DEF Passing, M
    <3>3. CASE ~(p < 2 * s.cursor) /\ p <= 2 * e.start /\ e.start > s.cursor
      <4>1. p \in Points(gap)
        BY <1>3, <1>5, <2>4, <3>1, <3>3, PointsOf
      <4> QED BY <2>5, <3>3, <4>1
    <3>4. CASE ~(p < 2 * s.cursor) /\ ~(p <= 2 * e.start /\ e.start > s.cursor)
      <4>1. 2 * e.start <= p
        BY <1>3, <1>5, <3>1, <3>4
      <4>2. p \in Points(e)
        BY <1>3, <3>1, <4>1, PointsOf
      <4> QED BY <4>2 DEF e, M
    <3> QED BY <3>2, <3>3, <3>4
  <2>10. \A k \in 1 .. n : m[k].end <= e.end
    <3> SUFFICES ASSUME NEW k \in 1 .. n PROVE m[k].end <= e.end
      OBVIOUS
    <3>1. CASE k \in 1 .. (n - 1)
      <4>1. m[k].end <= s.cursor /\ k \in 1 .. M
        BY <1>1, <1>11, <3>1 DEF Passing, M
      <4> QED BY <1>3, <1>4, <1>5, <2>1, <4>1
    <3>2. CASE k = n
      BY <1>3, <3>2 DEF e
    <3> QED BY <1>6, <3>1, <3>2
  <2> HIDE DEF gaps
  <2>11. Passing(requested, m, t, n)
    BY <2>5, <2>6, <2>7, <2>8, <2>9, <2>10 DEF Passing, M
  <2> QED BY <2>11 DEF t, e
<1> QED BY <1>5, <1>8, <1>9, <1>10, <1>11

(* subtract_coverage: the gaps lie in the window, they fill it up together *)
(* with what is covered, and they share boundaries only with that.         *)
LEMMA Subtracted ==
  ASSUME NEW requested \in Ranges, NEW R \in SUBSET Ranges, IsFiniteSet(R)
  PROVE  /\ Subtract(requested, R) \in SUBSET Ranges /\ IsFiniteSet(Subtract(requested, R))
         /\ \A g \in Subtract(requested, R) : requested.start <= g.start /\ g.end <= requested.end
         /\ \A p \in Points(requested) :
              (\E g \in Subtract(requested, R) : p \in Points(g)) \/ (\E r \in R : p \in Points(r))
         /\ \A g \in Subtract(requested, R), r \in R : \A p \in Points(g) : p \in Points(r) => p % 2 = 0
<1> DEFINE m == Normalize(R)
           M == Len(m)
<1>1. m \in Seq(Ranges) /\ Apart(m)
      /\ \A p : (\E i \in 1 .. M : p \in Points(m[i])) <=> \E r \in R : p \in Points(r)
  BY Normalized
<1> HIDE DEF m
<1>2. M \in Nat /\ \A k \in 1 .. M : m[k] \in Ranges
  <2>1. \A S : \A x \in Seq(S) : \A i \in 1 .. Len(x) : x[i] \in S
    OBVIOUS
  <2> QED BY <1>1, <2>1
<1> HIDE DEF M
<1>3. requested.start \in Nat /\ requested.end \in Nat /\ requested.start <= requested.end
  BY PointsOf
<1> DEFINE u == Uncovered(requested)
           G == [n \in 1 .. M |-> [s \in States |-> CursorStep(requested, s, m[n])]]
           IsScan(f) == f = [n \in 0 .. M |-> IF n = 0 THEN u ELSE CursorStep(requested, f[n - 1], m[n])]
<1>4. u \in States /\ u.missing = {} /\ u.cursor = requested.start /\ u.covered = FALSE /\ u.stopped = FALSE
  BY <1>3 DEF Uncovered, States
<1> HIDE DEF u
<1>5. \A n \in 1 .. M : \A s \in States : CursorStep(requested, s, m[n]) \in States
  <2> SUFFICES ASSUME NEW n \in 1 .. M, NEW s \in States PROVE CursorStep(requested, s, m[n]) \in States
    OBVIOUS
  <2>1. m[n].start \in Nat /\ m[n].end \in Nat /\ m[n].start <= m[n].end
    BY <1>2, PointsOf
  <2>2. s.cursor \in Nat /\ s.missing \in SUBSET Ranges
    BY DEF States
  <2> DEFINE e == m[n]
             next == Max({s.cursor, e.end})
             least == Min({e.start, requested.end})
             gap == [start |-> s.cursor, end |-> least]
             gaps == IF e.start > s.cursor THEN s.missing \union {gap} ELSE s.missing
  <2>3. \A x, y \in Int : /\ Max({x, y}) = IF x >= y THEN x ELSE y
                          /\ Min({x, y}) = IF x <= y THEN x ELSE y
    BY Pairs
  <2>4. /\ next = IF s.cursor >= e.end THEN s.cursor ELSE e.end
        /\ least = IF e.start <= requested.end THEN e.start ELSE requested.end
    <3>1. s.cursor \in Int /\ e.end \in Int /\ e.start \in Int /\ requested.end \in Int
      BY <1>3, <2>1, <2>2
    <3> QED BY <2>3, <3>1
  <2> HIDE DEF e
  <2>5. CASE s.stopped \/ e.end < requested.start \/ e.end < s.cursor
    BY <2>5 DEF CursorStep, e
  <2>6. CASE ~(s.stopped \/ e.end < requested.start \/ e.end < s.cursor) /\ e.start > requested.end
    <3>1. CursorStep(requested, s, e) = [s EXCEPT !.stopped = TRUE]
      BY <2>6 DEF CursorStep
    <3> QED BY <3>1 DEF States, e
  <2>7. CASE ~(s.stopped \/ e.end < requested.start \/ e.end < s.cursor) /\ ~(e.start > requested.end)
    <3>1. CursorStep(requested, s, e)
            = [missing |-> gaps, cursor |-> next, covered |-> e.start <= next /\ next <= e.end,
               stopped |-> next >= requested.end]
      BY <2>7 DEF CursorStep
    <3> HIDE DEF next, least
    <3>2. next \in Nat /\ least = e.start /\ e.start \in Nat
      BY <1>3, <2>1, <2>2, <2>4, <2>7 DEF e
    <3>3. e.start > s.cursor => gap \in Ranges
      BY <2>2, <3>2 DEF Ranges
    <3> HIDE DEF gap
    <3>4. gaps \in SUBSET Ranges
      BY <2>2, <3>3
    <3> HIDE DEF gaps
    <3>5. (e.start <= next /\ next <= e.end) \in BOOLEAN /\ (next >= requested.end) \in BOOLEAN
      OBVIOUS
    <3> QED BY <3>1, <3>2, <3>4, <3>5 DEF States, e
  <2> QED BY <2>5, <2>6, <2>7
<1>6. G \in [1 .. M -> [States -> States]]
  BY <1>5
<1>7. PICK f \in [0 .. M -> States] : f[0] = u /\ \A n \in 1 .. M : f[n] = G[n][f[n - 1]]
  <2>1. M \in Nat /\ u \in States
    BY <1>2, <1>4
  <2> HIDE DEF G
  <2>2. \E f : Iterated(f, M, States, u, G)
    BY <2>1, <1>6, Iterates
  <2> QED BY <2>2 DEF Iterated
<1>8. IsScan(f)
  <2>1. ASSUME NEW n \in 0 .. M PROVE f[n] = IF n = 0 THEN u ELSE CursorStep(requested, f[n - 1], m[n])
    <3>1. CASE n # 0
      <4>1. n \in 1 .. M /\ n - 1 \in 0 .. M
        BY <1>2, <3>1
      <4>2. f[n - 1] \in States
        BY <4>1
      <4> QED BY <1>7, <3>1, <4>1, <4>2
    <3> QED BY <1>7, <3>1
  <2> QED BY <2>1
<1> DEFINE c == CHOOSE h : IsScan(h)
           s == c[M]
           atEnd == s.cursor = requested.end /\ ~s.covered
           rest == [start |-> s.cursor, end |-> requested.end]
           D == IF s.cursor < requested.end \/ atEnd THEN s.missing \union {rest} ELSE s.missing
<1>9. IsScan(c)
  BY <1>8
<1>10. Subtract(requested, R) = D
  BY DEF Subtract, m, M, u
<1> HIDE DEF c
<1>11. c[0] = u /\ \A n \in 1 .. M : c[n] = CursorStep(requested, c[n - 1], m[n])
  BY <1>2, <1>9
<1> DEFINE S == {n \in 0 .. M : Passing(requested, m, c[n], n)}
<1>12. 0 \in S
  <2>1. Passing(requested, m, u, 0)
    <3>1. \A p \in Points(requested) : ~(p < 2 * u.cursor)
      BY <1>3, <1>4, PointsOf
    <3>2. IsFiniteSet(u.missing) /\ requested.start <= u.cursor
      BY <1>3, <1>4, FS_EmptySet
    <3>3. \A k : k \notin 1 .. 0
      OBVIOUS
    <3> QED BY <1>4, <3>1, <3>2, <3>3 DEF Passing
  <2> QED BY <1>2, <1>11, <2>1
<1>13. ASSUME NEW n \in 1 .. M, n - 1 \in S PROVE n \in S
  <2>1. n \in 0 .. M /\ Passing(requested, m, c[n - 1], n - 1)
    BY <1>2, <1>13
  <2>2. Passing(requested, m, CursorStep(requested, c[n - 1], m[n]), n)
    BY <1>1, <2>1, CursorPasses DEF M
  <2> QED BY <1>11, <2>1, <2>2
<1>14. Passing(requested, m, s, M)
  <2>1. S \in SUBSET (0 .. M) /\ M \in 0 .. M
    BY <1>2
  <2> HIDE DEF S
  <2>2. S = 0 .. M
    BY <1>2, <1>12, <1>13, <2>1, Steps
  <2> QED BY <2>1, <2>2 DEF S
<1> HIDE DEF s
<1>15. /\ s.missing \in SUBSET Ranges /\ s.cursor \in Nat /\ s.covered \in BOOLEAN /\ s.stopped \in BOOLEAN
       /\ IsFiniteSet(s.missing) /\ requested.start <= s.cursor /\ (~s.covered => s.cursor = requested.start)
  BY <1>14 DEF Passing, States
<1>16. \A k \in 1 .. M : m[k].start \in Nat /\ m[k].end \in Nat /\ m[k].start <= m[k].end
  BY <1>2, PointsOf
<1>17. s.cursor < requested.end \/ atEnd =>
         /\ s.cursor <= requested.end /\ rest \in Ranges /\ rest.start = s.cursor /\ rest.end = requested.end
         /\ \A k \in 1 .. M : m[k].end <= s.cursor \/ m[k].start > requested.end
  BY <1>3, <1>14, <1>15 DEF Passing, Ranges, M
<1> HIDE DEF rest
<1>18. D \in SUBSET Ranges /\ IsFiniteSet(D)
  BY <1>15, <1>17, FS_AddElement
<1>19. ASSUME NEW g \in D
       PROVE  /\ requested.start <= g.start /\ g.end <= requested.end
              /\ \A k \in 1 .. M : m[k].end <= g.start \/ g.end <= m[k].start
  <2>1. CASE g \in s.missing
    BY <1>14, <2>1 DEF Passing, M
  <2>2. CASE g \notin s.missing
    <3>1. g = rest /\ (s.cursor < requested.end \/ atEnd)
      BY <1>19, <2>2
    <3>2. \A k \in 1 .. M : m[k].start > requested.end => requested.end <= m[k].start
      BY <1>3, <1>16
    <3> QED BY <1>3, <1>15, <1>17, <3>1, <3>2
  <2> QED BY <2>1, <2>2
<1>20. ASSUME NEW p \in Points(requested) PROVE (\E g \in D : p \in Points(g)) \/ (\E r \in R : p \in Points(r))
  <2>1. p \in Int /\ 2 * requested.start <= p /\ p <= 2 * requested.end
    BY PointsOf
  <2>2. CASE p < 2 * s.cursor \/ (s.covered /\ p = 2 * s.cursor)
    <3>1. (\E g \in s.missing : p \in Points(g)) \/ (\E k \in 1 .. M : p \in Points(m[k]))
      BY <1>14, <2>2 DEF Passing, M
    <3>2. s.missing \subseteq D
      OBVIOUS
    <3> HIDE DEF D
    <3> QED BY <1>1, <3>1, <3>2
  <2>3. CASE ~(p < 2 * s.cursor \/ (s.covered /\ p = 2 * s.cursor))
    <3>1. s.cursor < requested.end \/ atEnd
      BY <1>3, <1>15, <2>1, <2>3
    <3>2. p \in Points(rest)
      BY <1>15, <1>17, <2>1, <2>3, <3>1, PointsOf
    <3>3. rest \in D
      BY <3>1
    <3> HIDE DEF D
    <3> QED BY <3>2, <3>3
  <2> QED BY <2>2, <2>3
<1>21. ASSUME NEW g \in D, NEW r \in R, NEW p \in Points(g), p \in Points(r) PROVE p % 2 = 0
  <2>1. PICK k \in 1 .. M : p \in Points(m[k])
    BY <1>1, <1>21
  <2>2. g \in Ranges /\ m[k] \in Ranges
    BY <1>2, <1>18
  <2>3. /\ g.start \in Nat /\ g.end \in Nat /\ p \in Int /\ 2 * g.start <= p /\ p <= 2 * g.end
        /\ m[k].start \in Nat /\ m[k].end \in Nat /\ 2 * m[k].start <= p /\ p <= 2 * m[k].end
    BY <2>1, <2>2, PointsOf
  <2>4. m[k].end <= g.start \/ g.end <= m[k].start
    BY <1>19
  <2>5. p = 2 * g.start \/ p = 2 * g.end
    BY <2>3, <2>4
  <2> QED BY <2>3, <2>5
<1> HIDE DEF D
<1> QED BY <1>10, <1>18, <1>19, <1>20, <1>21

-----------------------------------------------------------------------------
(* Numbers and finite sets.                                                *)

LEMMA Ends ==
  ASSUME NEW a \in Int, NEW b \in Int, a <= b
  PROVE  Min(a .. b) = a /\ Max(a .. b) = b
<1>1. \A x \in a .. b : (\A y \in a .. b : x <= y) => x = a
  OBVIOUS
<1>2. \A x \in a .. b : (\A y \in a .. b : y <= x) => x = b
  OBVIOUS
<1>3. a \in a .. b /\ b \in a .. b /\ \A y \in a .. b : a <= y /\ y <= b
  OBVIOUS
<1> QED BY <1>1, <1>2, <1>3 DEF Min, Max

(* The places in a list: each one is taken once.                           *)
LEMMA Positions ==
  ASSUME NEW L \in SUBSET Nat, IsFiniteSet(L)
  PROVE  /\ Cardinality(L) \in Nat
         /\ \A i \in L : Position(i, L) \in 1 .. Cardinality(L)
         /\ \A i, j \in L : Position(i, L) = Position(j, L) => i = j
         /\ \A k \in 1 .. Cardinality(L) : \E i \in L : Position(i, L) = k
<1> DEFINE n == Cardinality(L)
           f == [i \in L |-> Position(i, L)]
<1>1. n \in Nat
  BY FS_CardinalityType
<1>2. ASSUME NEW i \in L
      PROVE  /\ IsFiniteSet({j \in L : i <= j}) /\ Position(i, L) \in 1 .. n
  <2>1. {j \in L : i <= j} \in SUBSET L
    OBVIOUS
  <2>2. IsFiniteSet({j \in L : i <= j}) /\ Cardinality({j \in L : i <= j}) <= n
    BY <2>1, FS_Subset
  <2>3. Cardinality({j \in L : i <= j}) \in Nat /\ Cardinality({j \in L : i <= j}) # 0
    BY <2>2, FS_CardinalityType, FS_EmptySet
  <2> QED BY <1>1, <2>2, <2>3 DEF Position
<1>3. ASSUME NEW i \in L, NEW j \in L, i < j PROVE Position(j, L) # Position(i, L)
  <2> i \in Nat /\ j \in Nat /\ \A k \in L : k \in Nat
    OBVIOUS
  <2>4. \A k \in L : j <= k => i <= k
    BY <1>3
  <2>1. {k \in L : j <= k} \in SUBSET {k \in L : i <= k}
    BY <2>4
  <2>2. i \in {k \in L : i <= k} /\ i \notin {k \in L : j <= k}
    BY <1>3
  <2>3. Cardinality({k \in L : i <= k}) # Cardinality({k \in L : j <= k})
    BY <1>2, <2>1, <2>2, FS_Subset
  <2> QED BY <2>3 DEF Position
<1>4. \A i, j \in L : Position(i, L) = Position(j, L) => i = j
  <2>1. \A i, j \in L : i < j \/ j < i \/ i = j
    OBVIOUS
  <2> QED BY <1>3, <2>1
<1>5. f \in Injection(L, 1 .. n)
  BY <1>2, <1>4 DEF Injection, IsInjective
<1>6. IsFiniteSet(1 .. n) /\ Cardinality(1 .. n) = n
  BY <1>1, FS_Interval
<1>7. f \in Surjection(L, 1 .. n)
  BY <1>5, <1>6, FS_Injection
<1>8. \A k \in 1 .. n : \E i \in L : Position(i, L) = k
  BY <1>7 DEF Surjection
<1> QED BY <1>1, <1>2, <1>4, <1>8

(* A page has at most as many rows as were asked for, and fewer only at    *)
(* the end of the list.                                                    *)
LEMMA Slices ==
  ASSUME NEW L \in SUBSET Nat, IsFiniteSet(L), NEW n \in Nat, col.offset \in Nat
  PROVE  /\ Slice(L, n) \subseteq L /\ Cardinality(Slice(L, n)) \in Nat /\ Cardinality(Slice(L, n)) <= n
         /\ Cardinality(Slice(L, n)) < n => \A i \in L : Position(i, L) <= col.offset + n
         /\ Slice(L, n) = {} <=> Cardinality(Slice(L, n)) = 0
<1> DEFINE S == Slice(L, n)
           o == col.offset
           R == (o + 1) .. (o + n)
           f == [i \in S |-> Position(i, L)]
<1>1. S \in SUBSET L /\ o \in Nat
  BY DEF Slice
<1>2. IsFiniteSet(S) /\ Cardinality(S) \in Nat /\ (S = {} <=> Cardinality(S) = 0)
  BY <1>1, FS_Subset, FS_CardinalityType, FS_EmptySet
<1>3. Cardinality(L) \in Nat /\ \A i \in L : Position(i, L) \in Nat
  BY Positions
<1>4. \A i \in S : Position(i, L) \in R
  BY <1>1, <1>3 DEF Slice
<1>5. f \in Injection(S, R)
  <2>1. \A i, j \in S : Position(i, L) = Position(j, L) => i = j
    BY <1>1, Positions
  <2>2. f \in [S -> R]
    BY <1>4
  <2> QED BY <2>1, <2>2 DEF Injection, IsInjective
<1>6. IsFiniteSet(R) /\ Cardinality(R) = n
  <2>1. o + 1 \in Int /\ o + n \in Int
    BY <1>1
  <2>2. IsFiniteSet(R) /\ Cardinality(R) = IF o + 1 > o + n THEN 0 ELSE (o + n) - (o + 1) + 1
    BY <2>1, FS_Interval
  <2> QED BY <1>1, <2>2
<1>7. Cardinality(S) <= n
  BY <1>5, <1>6, FS_Injection
<1>8. ASSUME NEW i \in L, ~(Position(i, L) <= o + n) PROVE Cardinality(S) = n
  <2>1. \A k \in R : k \in 1 .. Cardinality(L)
    BY <1>1, <1>3, <1>8, Positions
  <2>2. \A k \in R : \E j \in L : Position(j, L) = k
    BY <2>1, Positions
  <2>3. \A k \in R : o < k /\ k <= o + n
    BY <1>1
  <2>4. \A k \in R : \E j \in S : f[j] = k
    BY <2>2, <2>3 DEF Slice
  <2>5. f \in Surjection(S, R)
    BY <1>4, <2>4 DEF Surjection
  <2> QED BY <1>5, <1>6, <2>5, FS_Injection
<1>9. Cardinality(S) < n => Cardinality(S) # n
  BY <1>2
<1> QED BY <1>1, <1>2, <1>7, <1>8, <1>9

-----------------------------------------------------------------------------
(* A page.                                                                 *)

LEMMA Listings ==
  ASSUME listed \in Seq([at : Nat, ticker : Tickers]), NEW days, NEW ticker
  PROVE  /\ Rows \in SUBSET Nat /\ List(days, ticker) \subseteq Rows /\ List(days, ticker) \in SUBSET Nat
         /\ IsFiniteSet(List(days, ticker)) /\ Cardinality(List(days, ticker)) \in Nat
         /\ \A i \in Rows : i >= 1 /\ listed[i].at \in Nat /\ listed[i].ticker \in Tickers
<1>1. Len(listed) \in Nat /\ Rows = 1 .. Len(listed)
  BY DEF Rows
<1>2. IsFiniteSet(Rows)
  BY <1>1, FS_Interval
<1>3. List(days, ticker) \in SUBSET Rows
  BY DEF List
<1>4. IsFiniteSet(List(days, ticker)) /\ Cardinality(List(days, ticker)) \in Nat
  BY <1>2, <1>3, FS_Subset, FS_CardinalityType
<1>5. Rows \in SUBSET Nat /\ \A i \in Rows : i >= 1
  BY <1>1
<1>6. \A i \in Rows : listed[i] \in [at : Nat, ticker : Tickers]
  <2>1. \A S : \A s \in Seq(S) : \A i \in 1 .. Len(s) : s[i] \in S
    OBVIOUS
  <2> QED BY <1>1, <2>1
<1> QED BY <1>3, <1>4, <1>5, <1>6

Evidence(replies, reported) ==
  \/ col.offset + Cardinality(replies) >= reported
  \/ replies = {} /\ col.offset + Cardinality(replies) = 0
  \/ replies # {} /\ Cardinality(replies) < col.size

(* What a page tells: the rows due up to the new offset have been seen,    *)
(* although rows may have arrived at the head since the last page.         *)
LEMMA PageSeen ==
  ASSUME ListTyped, col \in Working, Placed, Passed, NEW replies \in Replies(Current),
         NEW total \in {Cardinality(Current), Cardinality(Current) + 1},
         NEW reported, reported = Reported(total, replies), NEW seen, seen = col.seen \union replies
  PROVE  /\ Cardinality(replies) \in Nat /\ reported \in Nat /\ seen \subseteq Current
         /\ \A i \in col.due \cap Current : Position(i, Current) <= col.offset + Cardinality(replies) => i \in seen
         /\ col.lane \notin {"wide", "day_wide"} /\ Evidence(replies, reported) => col.due \cap Current \subseteq seen
         /\ reported <= Cardinality(seen) => Current \subseteq seen
<1> DEFINE L == Current
           c == Cardinality(replies)
<1>1. L \in SUBSET Nat /\ IsFiniteSet(L) /\ Cardinality(L) \in Nat
  BY Listings DEF ListTyped, Current
<1>2. col.offset \in Nat /\ col.size \in Nat
  BY DEF Working
<1>3. PageSize \in Nat \ {0}
  BY ListingAssumption
<1>4. PICK n \in Nat : /\ n = col.size \/ (n = PageSize /\ col.size > PageSize)
                       /\ replies = Slice(L, n) \/ (replies = {} /\ col.offset > 0)
  BY <1>2, <1>3 DEF Replies
<1>5. /\ replies \subseteq L /\ c \in Nat /\ c <= n /\ (replies = {} <=> c = 0)
      /\ replies = Slice(L, n) /\ c < n => \A i \in L : Position(i, L) <= col.offset + n
  <2>1. CASE replies = Slice(L, n)
    <3> HIDE DEF L
    <3> QED BY <1>1, <1>2, <1>4, <2>1, Slices
  <2>2. CASE replies = {} /\ replies # Slice(L, n)
    BY <2>2, <1>4, FS_EmptySet
  <2> QED BY <1>4, <2>1, <2>2
<1>6. \A i \in L : Position(i, L) \in Nat /\ Position(i, L) <= Cardinality(L)
  <2> HIDE DEF L
  <2>1. \A i \in L : Position(i, L) \in 1 .. Cardinality(L)
    BY <1>1, Positions
  <2> QED BY <1>1, <2>1
<1>7. total \in Nat /\ (total = 0 => Cardinality(L) = 0) /\ total >= Cardinality(L)
  BY <1>1
<1>8. reported \in Nat /\ reported >= Cardinality(L)
  BY <1>1, <1>5, <1>7 DEF Reported
<1>9. seen \subseteq L
  BY <1>5 DEF Passed
<1>10. ASSUME NEW i \in col.due \cap L, Position(i, L) <= col.offset + c PROVE i \in seen
  <2>1. CASE Position(i, L) <= col.offset
    BY <2>1 DEF Passed
  <2>2. CASE col.offset < Position(i, L)
    <3>1. Position(i, L) \in Nat
      BY <1>6
    <3>2. c # 0 /\ Position(i, L) <= col.offset + n
      BY <1>2, <1>5, <1>10, <2>2, <3>1
    <3>3. i \in Slice(L, n)
      BY <2>2, <3>2 DEF Slice
    <3> QED BY <1>4, <1>5, <3>2, <3>3
  <2> QED BY <1>2, <1>6, <2>1, <2>2
<1>11. ASSUME col.lane \notin {"wide", "day_wide"}, Evidence(replies, reported), NEW i \in col.due \cap L
       PROVE  i \in seen
  <2>1. n = PageSize /\ col.size = PageSize
    BY <1>3, <1>4, <1>11 DEF Placed
  <2>2. Position(i, L) \in Nat /\ Position(i, L) <= Cardinality(L)
    BY <1>6
  <2>3. CASE col.offset + c >= reported
    BY <1>1, <1>2, <1>5, <1>8, <1>10, <2>2, <2>3
  <2>4. CASE ~(col.offset + c >= reported)
    <3>1. replies = Slice(L, n) /\ c < n
      BY <1>2, <1>3, <1>4, <1>5, <1>11, <2>1, <2>4 DEF Evidence
    <3>2. Position(i, L) <= col.offset + n
      BY <1>5, <3>1
    <3>3. Position(i, L) <= col.offset \/ i \in Slice(L, n)
      BY <1>2, <2>2, <3>2 DEF Slice
    <3> QED BY <3>1, <3>3 DEF Passed
  <2> QED BY <2>3, <2>4
<1>12. ASSUME reported <= Cardinality(seen) PROVE L \subseteq seen
  <2> HIDE DEF L
  <2>1. IsFiniteSet(seen) /\ Cardinality(seen) <= Cardinality(L) /\ Cardinality(seen) \in Nat
    BY <1>1, <1>9, FS_Subset, FS_CardinalityType
  <2>2. Cardinality(seen) = Cardinality(L)
    BY <1>1, <1>8, <1>12, <2>1
  <2> QED BY <1>1, <1>9, <2>2, FS_Subset
<1> QED BY <1>5, <1>8, <1>9, <1>10, <1>11, <1>12

-----------------------------------------------------------------------------
(* The end of a shard.                                                     *)

LEMMA Days ==
  ASSUME Placed
  PROVE  /\ Min(col.days) \in Nat /\ Max(col.days) \in Nat /\ col.day \in Nat
         /\ \A d \in col.days : d \in Nat /\ Min(col.days) <= d /\ d <= Max(col.days)
         /\ \A d \in Nat : Min(col.days) <= d /\ d <= Max(col.days) => d \in col.days
<1>1. PICK a, b \in Nat : a <= b /\ col.days = a .. b
  BY DEF Placed
<1>2. Min(col.days) = a /\ Max(col.days) = b
  BY <1>1, Ends
<1>3. col.day \in col.days
  BY DEF Placed
<1> QED BY <1>1, <1>2, <1>3

(* A new shard is read from its beginning.                                 *)
LEMMA Begun ==
  ASSUME ListTyped, UNCHANGED listed, col'.offset = 0, col'.seen = {}
  PROVE  Passed'
<1>1. List(Scope', Shard') \in SUBSET Nat /\ IsFiniteSet(List(Scope', Shard'))
  BY Listings DEF ListTyped
<1>2. Current' = List(Scope', Shard')
  BY DEF Current, List, Rows
<1>3. \A i \in List(Scope', Shard') : Position(i, List(Scope', Shard')) # 0 /\ Position(i, List(Scope', Shard')) \in Nat
  <2>1. \A L \in SUBSET Nat : IsFiniteSet(L) =>
          Cardinality(L) \in Nat /\ \A i \in L : Position(i, L) \in 1 .. Cardinality(L)
    BY Positions
  <2> QED BY <1>1, <2>1
<1> QED BY <1>2, <1>3 DEF Passed, Position

LEMMA RowsSame ==
  ASSUME UNCHANGED listed
  PROVE  Rows' = Rows /\ Known' = Known /\ Working' = Working /\ Ended' = Ended /\ \A i : DayOf(i)' = DayOf(i)
BY DEF Rows, Known, Working, Ended, DayOf

(* The collection has come to its end.                                     *)
LEMMA FinishHolds ==
  ASSUME ListTyped, col \in Working, UNCHANGED <<now, listed>>,
         NEW items \in SUBSET Rows, NEW complete \in BOOLEAN,
         complete => \A i \in col.due \cap Known : i \in items,
         col' = Finish(items, complete)
  PROVE  ListTyped' /\ Collecting'
<1>1. col' = [lane |-> "done", items |-> items, complete |-> complete, due |-> col.due] /\ col.due \in SUBSET Rows
  BY DEF Finish, Working
<1>2. col' \in Ended /\ col'.lane = "done"
  BY <1>1 DEF Ended
<1>3. \A c \in Working : c.lane # "done"
  BY DEF Working, Lanes
<1>4. ListTyped'
  BY <1>2, RowsSame DEF ListTyped
<1>5. col' \notin Working'
  BY <1>2, <1>3, RowsSame
<1>6. ListingComplete'
  BY <1>1 DEF ListingComplete, Known
<1> QED BY <1>4, <1>5, <1>6 DEF Collecting

(* The next shard, with what has been gathered so far.                     *)
Begins(lane, size, day, tickers, all, short) ==
  /\ lane \in Lanes /\ size \in Nat /\ day \in col.days /\ tickers \in SUBSET Master
  /\ all \in SUBSET Rows /\ short \in SUBSET Nat
  /\ col' = [col EXCEPT !.lane = lane, !.size = size, !.offset = 0, !.seen = {}, !.day = day, !.tickers = tickers,
                        !.all = all, !.short = short]
  /\ lane \in {"primary", "wide"} => day = Min(col.days)
  /\ lane \notin {"wide", "day_wide"} => size = PageSize
  /\ lane = "ticker" => tickers # {}
  /\ short = {} =>
       /\ lane \in {"day", "day_wide", "ticker"} => \A i \in col.due \cap Known : DayOf(i) < day => i \in all
       /\ lane = "ticker" =>
            \A i \in col.due \cap Known : DayOf(i) = day /\ listed[i].ticker \notin tickers => i \in all

(* A new shard starts at the head of its list.                             *)
LEMMA ShardBegins ==
  ASSUME ListTyped, col \in Working, Placed, UNCHANGED <<now, listed>>,
         NEW lane, NEW size, NEW day, NEW tickers, NEW all, NEW short,
         Begins(lane, size, day, tickers, all, short)
  PROVE  ListTyped' /\ Collecting'
<1>1. /\ col'.lane = lane /\ col'.size = size /\ col'.offset = 0 /\ col'.seen = {}
      /\ col'.day = day /\ col'.tickers = tickers /\ col'.all = all /\ col'.short = short
      /\ col'.days = col.days /\ col'.due = col.due
  BY DEF Begins, Working
<1>2. col' \in Working
  <2>1. day \in Nat
    BY Days DEF Begins
  <2> QED BY <2>1 DEF Begins, Working
<1>3. ListTyped'
  BY <1>2, RowsSame DEF ListTyped
<1>4. Passed'
  BY <1>1, Begun
<1>5. Placed'
  BY <1>1, RowsSame DEF Placed, Begins
<1>6. Gathered'
  BY <1>1, RowsSame DEF Gathered, Begins
<1>7. ListingComplete'
  BY <1>1 DEF ListingComplete, Lanes, Begins
<1> QED BY <1>3, <1>4, <1>5, <1>6, <1>7 DEF Collecting

(* The day is over: what was due on it is there or it is counted as short. *)
LEMMA NextDayHolds ==
  ASSUME ListTyped, col \in Working, Placed, UNCHANGED <<now, listed>>,
         NEW all \in SUBSET Rows, NEW short \in SUBSET Nat,
         short = {} => \A i \in col.due \cap Known : DayOf(i) <= col.day => i \in all,
         col' = NextDay(all, short)
  PROVE  ListTyped' /\ Collecting'
<1>1. \A i \in col.due : DayOf(i) \in Nat /\ DayOf(i) <= Max(col.days)
  BY Days DEF Placed
<1>2. CASE col.day = Max(col.days)
  BY <1>1, <1>2, FinishHolds DEF NextDay
<1>3. CASE col.day # Max(col.days)
  <2>1. col.day + 1 \in Nat /\ col.day + 1 \in col.days
    BY <1>3, Days DEF Placed
  <2>2. col' = [col EXCEPT !.lane = "day", !.size = PageSize, !.offset = 0, !.seen = {}, !.day = col.day + 1,
                           !.tickers = {}, !.all = all, !.short = short]
    BY <1>3 DEF NextDay, FirstDay, Lane, Working
  <2>3. short = {} => \A i \in col.due \cap Known : DayOf(i) < col.day + 1 => i \in all
    BY <1>1, Days
  <2>4. PageSize \in Nat /\ "day" \in Lanes /\ {} \in SUBSET Master
    BY ListingAssumption DEF Lanes
  <2>5. Begins("day", PageSize, col.day + 1, {}, all, short)
    BY <2>1, <2>2, <2>3, <2>4 DEF Begins
  <2> QED BY <2>5, ShardBegins
<1> QED BY <1>2, <1>3

Shown(items, complete, reported) ==
  /\ items \in SUBSET Rows /\ complete \in BOOLEAN /\ reported \in Nat
  /\ col.lane \notin {"wide", "day_wide"} /\ complete => col.due \cap Current \subseteq items
  /\ reported <= Cardinality(items) => Current \subseteq items

(* A day without proof is asked for ticker by ticker, or counted as short. *)
LEMMA FanOutHolds ==
  ASSUME ListTyped, col \in Working, Placed, Gathered, UNCHANGED <<now, listed>>, col.lane \in {"day", "day_wide"},
         NEW master \in {Master, {}}, col' = FanOut(master)
  PROVE  ListTyped' /\ Collecting'
<1>1. col.all \in SUBSET Rows /\ col.short \in SUBSET Nat /\ col.day \in Nat /\ col.day \in col.days
  BY DEF Working, Placed
<1>2. CASE col.fanout /\ master # {}
  <2>1. col' = [col EXCEPT !.lane = "ticker", !.size = PageSize, !.offset = 0, !.seen = {}, !.day = col.day,
                           !.tickers = Master, !.all = col.all, !.short = col.short]
    BY <1>2 DEF FanOut, Lane, Working
  <2>2. PageSize \in Nat
    BY ListingAssumption
  <2>3. Begins("ticker", PageSize, col.day, Master, col.all, col.short)
    BY <1>1, <1>2, <2>1, <2>2 DEF Begins, Lanes, Gathered, Known
  <2> QED BY <2>3, ShardBegins
<1>3. CASE ~(col.fanout /\ master # {})
  <2>1. col.short \union {col.day} \in SUBSET Nat /\ col.short \union {col.day} # {}
    BY <1>1
  <2>2. col' = NextDay(col.all, col.short \union {col.day})
    BY <1>3 DEF FanOut
  <2> QED BY <1>1, <2>1, <2>2, NextDayHolds
<1> QED BY <1>2, <1>3

(* A ticker is over; behind the last one lies the next day.                *)
LEMMA TickerDoneHolds ==
  ASSUME ListTyped, col \in Working, Placed, Gathered, UNCHANGED <<now, listed>>, col.lane = "ticker",
         NEW items, NEW complete, NEW reported, Shown(items, complete, reported), col' = TickerDone(items, complete)
  PROVE  ListTyped' /\ Collecting'
<1> DEFINE all == col.all \union items
           short == IF complete THEN col.short ELSE col.short \union {col.day}
           left == col.tickers \ {Shard}
<1>1. /\ col.all \in SUBSET Rows /\ col.short \in SUBSET Nat /\ col.day \in Nat /\ col.day \in col.days
      /\ col.tickers \in SUBSET Master /\ col.tickers # {}
  BY DEF Working, Placed
<1>2. all \in SUBSET Rows /\ short \in SUBSET Nat /\ left \in SUBSET Master
  BY <1>1 DEF Shown
<1>3. Shard \in col.tickers /\ Scope = {col.day}
  BY <1>1 DEF Shard, Scope
<1>4. ASSUME short = {}
      PROVE  /\ \A i \in col.due \cap Known : DayOf(i) < col.day => i \in all
             /\ \A i \in col.due \cap Known : DayOf(i) = col.day /\ listed[i].ticker \notin left => i \in all
  <2>1. complete /\ col.short = {}
    BY <1>4 DEF Shown
  <2>2. col.due \cap Current \subseteq items
    BY <2>1 DEF Shown
  <2>3. ASSUME NEW i \in col.due \cap Known, DayOf(i) = col.day, listed[i].ticker \notin left PROVE i \in all
    <3>1. CASE listed[i].ticker = Shard
      <4>1. i \in Current
        BY <1>3, <2>3, <3>1 DEF Current, List, DayOf, Known
      <4> QED BY <2>2, <4>1
    <3>2. CASE listed[i].ticker # Shard
      BY <2>1, <2>3, <3>2 DEF Gathered
    <3> QED BY <3>1, <3>2
  <2> QED BY <2>1, <2>3 DEF Gathered
<1>5. CASE left = {}
  <2>1. short = {} => \A i \in col.due \cap Known : DayOf(i) <= col.day => i \in all
    <3>1. \A i \in col.due : DayOf(i) \in Nat
      BY Days DEF Placed
    <3> QED BY <1>1, <1>4, <1>5, <3>1
  <2>2. col' = NextDay(all, short)
    BY <1>5 DEF TickerDone
  <2> HIDE DEF all, short
  <2> QED BY <1>2, <2>1, <2>2, NextDayHolds
<1>6. CASE left # {}
  <2>1. col' = [col EXCEPT !.lane = "ticker", !.size = PageSize, !.offset = 0, !.seen = {}, !.day = col.day,
                           !.tickers = left, !.all = all, !.short = short]
    BY <1>6 DEF TickerDone, Lane, Working
  <2>2. PageSize \in Nat
    BY ListingAssumption
  <2> HIDE DEF all, short, left
  <2>3. Begins("ticker", PageSize, col.day, left, all, short)
    BY <1>1, <1>2, <1>4, <1>6, <2>1, <2>2 DEF Begins, Lanes
  <2> QED BY <2>3, ShardBegins
<1> QED BY <1>5, <1>6

(* A shard is over, with proof or without.                                 *)
LEMMA ShardDoneHolds ==
  ASSUME ListTyped, col \in Working, Placed, Gathered, UNCHANGED <<now, listed>>,
         NEW items, NEW complete, NEW reported, Shown(items, complete, reported),
         NEW master \in {Master, {}}, col' = ShardDone(items, complete, reported, master)
  PROVE  ListTyped' /\ Collecting'
<1>1. /\ col.lane \in Lanes /\ col.all \in SUBSET Rows /\ col.short \in SUBSET Nat /\ col.day \in Nat
      /\ col.day \in col.days /\ col.due \in SUBSET Rows /\ items \in SUBSET Rows /\ complete \in BOOLEAN
      /\ col.tickers \in SUBSET Master
  BY DEF Working, Placed, Shown
<1>2. PageSize \in Nat /\ \A r \in Nat : Min({ProbeMax, Max({ProbeBase, r})}) \in Nat
  <2>1. PageSize \in Nat /\ ProbeMax \in Nat /\ ProbeBase \in Nat
    BY ListingAssumption
  <2>2. \A m, n \in Nat : Max({m, n}) \in {m, n}
    BY Pairs
  <2>3. \A m, n \in Nat : Min({m, n}) \in {m, n}
    BY Pairs
  <2>4. ASSUME NEW r \in Nat PROVE Min({ProbeMax, Max({ProbeBase, r})}) \in Nat
    <3>1. Max({ProbeBase, r}) \in Nat
      BY <2>1, <2>2
    <3> QED BY <2>1, <2>3, <3>1
  <2> QED BY <2>1, <2>4
<1> DEFINE size == Min({ProbeMax, Max({ProbeBase, reported})})
<1>3. size \in Nat
  BY <1>2 DEF Shown
<1> HIDE DEF size
<1>4. ASSUME col.lane \in {"primary", "wide"}, col' = Finish(items, TRUE), col.due \cap Current \subseteq items
      PROVE  ListTyped' /\ Collecting'
  <2>1. col.due \subseteq Current
    BY <1>1, <1>4 DEF Current, Scope, Shard, List, Placed, DayOf
  <2>2. \A i \in col.due \cap Known : i \in items
    BY <1>4, <2>1
  <2>3. TRUE \in BOOLEAN
    OBVIOUS
  <2> QED BY <1>1, <1>4, <2>2, <2>3, FinishHolds
<1>5. ASSUME col.lane \in {"primary", "wide"}, col' = FirstDay PROVE ListTyped' /\ Collecting'
  <2>1. col' = [col EXCEPT !.lane = "day", !.size = PageSize, !.offset = 0, !.seen = {}, !.day = col.day,
                           !.tickers = col.tickers, !.all = col.all, !.short = col.short]
    BY <1>5 DEF FirstDay, Lane, Working
  <2>2. \A i \in col.due : ~(DayOf(i) < col.day)
    BY <1>5, Days DEF Placed
  <2>3. Begins("day", PageSize, col.day, col.tickers, col.all, col.short)
    BY <1>1, <1>2, <2>1, <2>2 DEF Begins, Lanes
  <2> QED BY <2>3, ShardBegins
<1>6. ASSUME NEW lane \in {"wide", "day_wide"}, col.lane = "primary" <=> lane = "wide", col.lane \in {"primary", "day"},
             col' = Lane(lane, size)
      PROVE  ListTyped' /\ Collecting'
  <2>1. col' = [col EXCEPT !.lane = lane, !.size = size, !.offset = 0, !.seen = {}, !.day = col.day,
                           !.tickers = col.tickers, !.all = col.all, !.short = col.short]
    BY <1>6 DEF Lane, Working
  <2>2. Begins(lane, size, col.day, col.tickers, col.all, col.short)
    BY <1>1, <1>3, <1>6, <2>1 DEF Begins, Lanes, Placed, Gathered
  <2> QED BY <2>2, ShardBegins
<1>7. ASSUME col.lane \in {"day", "day_wide"}, col' = NextDay(col.all \union items, col.short),
             col.due \cap Current \subseteq items
      PROVE  ListTyped' /\ Collecting'
  <2>1. ASSUME col.short = {}, NEW i \in col.due \cap Known, DayOf(i) <= col.day PROVE i \in col.all \union items
    <3>1. CASE DayOf(i) = col.day
      <4>1. i \in Current
        BY <1>1, <1>7, <3>1 DEF Current, Scope, Shard, List, DayOf
      <4> QED BY <1>7, <4>1
    <3>2. CASE DayOf(i) < col.day
      BY <1>7, <2>1, <3>2 DEF Gathered
    <3>3. DayOf(i) \in Nat
      BY Days DEF Placed
    <3> QED BY <1>1, <2>1, <3>1, <3>2, <3>3
  <2>2. col.all \union items \in SUBSET Rows
    BY <1>1
  <2> QED BY <1>1, <1>7, <2>1, <2>2, NextDayHolds
<1>8. Proven(items, complete, reported) => Current \subseteq items
  BY DEF Proven, Shown
<1>9. CASE col.lane = "primary"
  <2>1. \/ complete /\ col' = Finish(items, TRUE)
        \/ col' = Lane("wide", size)
        \/ col' = FirstDay
    BY <1>1, <1>9 DEF ShardDone, Probe, size
  <2>2. complete => col.due \cap Current \subseteq items
    BY <1>9 DEF Shown
  <2> QED BY <1>4, <1>5, <1>6, <1>9, <2>1, <2>2
<1>10. CASE col.lane = "wide"
  <2>1. \/ Proven(items, complete, reported) /\ col' = Finish(items, TRUE)
        \/ col' = FirstDay
    BY <1>10 DEF ShardDone
  <2> QED BY <1>4, <1>5, <1>8, <1>10, <2>1
<1>11. CASE col.lane = "day"
  <2>1. \/ complete /\ col' = NextDay(col.all \union items, col.short)
        \/ col' = Lane("day_wide", size)
        \/ col' = FanOut(master)
    BY <1>1, <1>11 DEF ShardDone, Probe, size
  <2>2. complete => col.due \cap Current \subseteq items
    BY <1>11 DEF Shown
  <2> QED BY <1>6, <1>7, <1>11, <2>1, <2>2, FanOutHolds
<1>12. CASE col.lane = "day_wide"
  <2>1. \/ Proven(items, complete, reported) /\ col' = NextDay(col.all \union items, col.short)
        \/ col' = FanOut(master)
    BY <1>12 DEF ShardDone
  <2> QED BY <1>7, <1>8, <1>12, <2>1, FanOutHolds
<1>13. CASE col.lane = "ticker"
  <2>1. col' = TickerDone(items, complete)
    BY <1>13 DEF ShardDone
  <2> QED BY <1>13, <2>1, TickerDoneHolds
<1> QED BY <1>1, <1>9, <1>10, <1>11, <1>12, <1>13 DEF Lanes

LEMMA PageHolds ==
  ASSUME ListTyped, Collecting, Page
  PROVE  ListTyped' /\ Collecting'
<1>1. col \in Working /\ Placed /\ Passed /\ Gathered
  <2>1. col.lane \in Lanes
    BY DEF Page, Paging, Lanes
  <2>2. col # Idle /\ col \notin Ended
    BY <2>1 DEF Idle, Ended, Lanes
  <2> QED BY <2>2 DEF ListTyped, Collecting
<1>2. PICK replies \in Replies(Current), total \in {Cardinality(Current), Cardinality(Current) + 1}, master \in {Master, {}} :
        col' = PageRead(replies, Reported(total, replies), master)
  BY DEF Page, Current
<1>3. UNCHANGED <<now, listed>>
  BY DEF Page
<1> DEFINE reported == Reported(total, replies)
           seen == col.seen \union replies
           offset == col.offset + Cardinality(replies)
<1>4. /\ Cardinality(replies) \in Nat /\ reported \in Nat /\ seen \subseteq Current
      /\ \A i \in col.due \cap Current : Position(i, Current) <= offset => i \in seen
      /\ col.lane \notin {"wide", "day_wide"} /\ Evidence(replies, reported) => col.due \cap Current \subseteq seen
      /\ reported <= Cardinality(seen) => Current \subseteq seen
  BY <1>1, PageSeen
<1>5. Current \subseteq Rows /\ col.offset \in Nat
  BY <1>1, Listings DEF ListTyped, Current, Working
<1> HIDE DEF reported, seen
<1>6. \/ \E complete \in BOOLEAN : /\ complete => Evidence(replies, reported)
                                   /\ col' = ShardDone(seen, complete, reported, master)
      \/ col' = [col EXCEPT !.seen = seen, !.offset = offset]
  BY <1>2 DEF PageRead, Evidence, reported, seen
<1>7. ASSUME NEW complete \in BOOLEAN, complete => Evidence(replies, reported),
             col' = ShardDone(seen, complete, reported, master)
      PROVE  ListTyped' /\ Collecting'
  <2>1. Shown(seen, complete, reported)
    BY <1>4, <1>5, <1>7 DEF Shown
  <2> QED BY <1>1, <1>3, <1>7, <2>1, ShardDoneHolds
<1>8. CASE col' = [col EXCEPT !.seen = seen, !.offset = offset]
  <2>1. /\ col'.lane = col.lane /\ col'.days = col.days /\ col'.size = col.size /\ col'.day = col.day
        /\ col'.tickers = col.tickers /\ col'.all = col.all /\ col'.short = col.short /\ col'.due = col.due
        /\ col'.offset = offset /\ col'.seen = seen
    BY <1>1, <1>8 DEF Working
  <2>2. offset \in Nat /\ seen \in SUBSET Rows
    BY <1>4, <1>5
  <2>3. col' \in Working
    BY <1>1, <1>8, <2>2 DEF Working
  <2>4. ListTyped'
    BY <1>3, <2>3, RowsSame DEF ListTyped
  <2>5. Placed' /\ Gathered'
    BY <1>1, <1>3, <2>1, RowsSame DEF Placed, Gathered
  <2>6. Current' = Current
    BY <1>3, <2>1 DEF Current, List, Scope, Shard, Rows
  <2>7. Passed'
    BY <1>3, <1>4, <2>1, <2>6 DEF Passed, Position
  <2>8. ListingComplete'
    BY <1>1, <2>1 DEF ListingComplete, Working, Lanes
  <2> QED BY <2>4, <2>5, <2>7, <2>8 DEF Collecting
<1> QED BY <1>6, <1>7, <1>8

LEMMA PageFailsHolds ==
  ASSUME ListTyped, Collecting, PageFails
  PROVE  ListTyped' /\ Collecting'
<1>1. col \in Working
  BY DEF PageFails, Paging, ListTyped, Idle, Ended
<1>2. col' = Finish({}, FALSE) /\ UNCHANGED <<now, listed>>
  BY DEF PageFails
<1> QED BY <1>1, <1>2, FinishHolds

-----------------------------------------------------------------------------
(* The list grows.                                                         *)

LEMMA ListGrows ==
  ASSUME ListTyped, Publish
  PROVE  /\ now' = now + 1 /\ now \in Nat /\ col' = col /\ listed' \in Seq([at : Nat, ticker : Tickers])
         /\ Rows \subseteq Rows' /\ \A i \in Rows : listed'[i] = listed[i] /\ DayOf(i)' = DayOf(i)
         /\ \A i \in Rows' : i \notin Rows => listed'[i].at = now'
         /\ Rows' \in SUBSET Nat /\ IsFiniteSet(Rows') /\ Len(listed') <= MaxRows
<1>1. PICK batch \in BoundedSeq(Tickers, MaxRows - Len(listed)) :
        listed' = listed \o [i \in DOMAIN batch |-> [at |-> now + 1, ticker |-> batch[i]]]
  BY DEF Publish
<1>2. now' = now + 1 /\ now \in Nat /\ col' = col
  BY DEF Publish, ListTyped
<1> DEFINE new == [i \in DOMAIN batch |-> [at |-> now + 1, ticker |-> batch[i]]]
<1>3. PICK m \in 0 .. (MaxRows - Len(listed)) : batch \in [1 .. m -> Tickers]
  BY DEF BoundedSeq, SeqOf
<1>4. batch \in Seq(Tickers) /\ new \in Seq([at : Nat, ticker : Tickers]) /\ Len(new) = m /\ m \in Nat
      /\ \A i \in 1 .. m : new[i].at = now'
  BY <1>2, <1>3
<1>5. listed \in Seq([at : Nat, ticker : Tickers]) /\ Len(listed) \in Nat /\ Rows = 1 .. Len(listed)
  BY DEF ListTyped, Rows
<1> HIDE DEF new
<1>6. /\ listed' \in Seq([at : Nat, ticker : Tickers]) /\ Rows' = 1 .. (Len(listed) + m) /\ Len(listed') = Len(listed) + m
      /\ \A i \in 1 .. Len(listed) : listed'[i] = listed[i]
      /\ \A i \in 1 .. (Len(listed) + m) : i \notin 1 .. Len(listed) => listed'[i] = new[i - Len(listed)]
  BY <1>1, <1>4, <1>5, ConcatProperties DEF Rows, new
<1>7. Rows \subseteq Rows' /\ \A i \in Rows : listed'[i] = listed[i] /\ DayOf(i)' = DayOf(i)
  BY <1>4, <1>5, <1>6 DEF DayOf
<1>8. ASSUME NEW i \in Rows', i \notin Rows PROVE listed'[i].at = now'
  <2>1. i - Len(listed) \in 1 .. m /\ listed'[i] = new[i - Len(listed)]
    BY <1>4, <1>5, <1>6, <1>8
  <2> QED BY <1>4, <2>1
<1>9. IsFiniteSet(Rows') /\ Rows' \in SUBSET Nat
  <2>1. IsFiniteSet(1 .. (Len(listed) + m))
    BY <1>4, <1>5, FS_Interval
  <2>2. \A i \in 1 .. (Len(listed) + m) : i \in Nat
    BY <1>4, <1>5
  <2> QED BY <1>6, <2>1, <2>2
<1>10. Len(listed') <= MaxRows
  <2>1. MaxRows \in Nat
    BY ListingAssumption
  <2> QED BY <1>3, <1>5, <1>6, <2>1
<1> QED BY <1>2, <1>6, <1>7, <1>8, <1>9, <1>10

(* The list grows at its head while it is read: what was due moves back,   *)
(* never forward.                                                          *)
LEMMA PublishHolds ==
  ASSUME ListTyped, Collecting, Publish
  PROVE  ListTyped' /\ Collecting'
<1>1. now' = now + 1 /\ now \in Nat /\ col' = col
  BY ListGrows
<1>2. listed' \in Seq([at : Nat, ticker : Tickers])
  BY ListGrows
<1>3. Rows \subseteq Rows' /\ \A i \in Rows : listed'[i] = listed[i] /\ DayOf(i)' = DayOf(i)
  BY ListGrows
<1>4. \A i \in Rows' : listed'[i].at <= now'
  <2> SUFFICES ASSUME NEW i \in Rows' PROVE listed'[i].at <= now'
    OBVIOUS
  <2>1. CASE i \in Rows
    <3>1. listed[i].at \in Nat /\ listed[i].at <= now
      BY <2>1, Listings DEF ListTyped
    <3> QED BY <1>1, <1>3, <2>1, <3>1
  <2>2. CASE i \notin Rows
    BY <1>1, <2>2, ListGrows
  <2> QED BY <2>1, <2>2
<1>5. Working \subseteq Working' /\ Ended \subseteq Ended'
  BY <1>3 DEF Working, Ended
<1>6. ListTyped'
  BY <1>1, <1>2, <1>4, <1>5 DEF ListTyped, Idle
<1>7. \A i \in Rows : i \in Known' <=> i \in Known
  BY <1>3 DEF Known
<1>8. ListingComplete'
  <2>1. ASSUME col.lane = "done", col.complete, NEW i \in col.due, listed'[i].ticker \in Master PROVE i \in col.items
    <3>1. col.due \subseteq Rows
      BY <2>1 DEF ListTyped, Idle, Ended, Working
    <3> QED BY <1>3, <2>1, <3>1 DEF Collecting, ListingComplete
  <2> QED BY <1>1, <2>1 DEF ListingComplete
<1>9. ASSUME col' \in Working' PROVE Placed' /\ Passed' /\ Gathered'
  <2>1. col \in Working /\ col.due \subseteq Rows /\ col.offset \in Nat
    BY <1>1, <1>9 DEF ListTyped, Idle, Ended, Working, Lanes
  <2>2. Placed /\ Passed /\ Gathered
    BY <2>1 DEF Collecting
  <2>3. Placed'
    BY <1>1, <1>3, <2>1, <2>2 DEF Placed
  <2>4. Gathered'
    BY <1>1, <1>3, <1>7, <2>1, <2>2 DEF Gathered
  <2>5. Scope' = Scope /\ Shard' = Shard
    BY <1>1 DEF Scope, Shard
  <2>6. Current \subseteq Current' /\ \A i \in Rows : i \in Current' => i \in Current
    BY <1>3, <2>5 DEF Current, List
  <2>7. Current' \in SUBSET Nat /\ IsFiniteSet(Current') /\ Current \in SUBSET Nat /\ IsFiniteSet(Current)
    <3>1. Current' \in SUBSET Rows' /\ Current \in SUBSET Rows'
      BY <1>3 DEF Current, List
    <3> QED BY <3>1, ListGrows, FS_Subset
  <2>8. ASSUME NEW i \in Current PROVE Position(i, Current) <= Position(i, Current')
    <3>1. {j \in Current : i <= j} \in SUBSET {j \in Current' : i <= j} /\ {j \in Current' : i <= j} \in SUBSET Current'
      BY <2>6
    <3>2. IsFiniteSet({j \in Current' : i <= j})
      BY <2>7, <3>1, FS_Subset
    <3> QED BY <3>1, <3>2, FS_Subset DEF Position
  <2>9. ASSUME NEW i \in col.due \cap Current', Position(i, Current') <= col.offset PROVE i \in col.seen
    <3>1. i \in Current
      BY <2>1, <2>6
    <3>2. Position(i, Current) \in Nat /\ Position(i, Current') \in Nat
      BY <2>6, <2>7, <3>1, Positions
    <3>3. Position(i, Current) <= col.offset
      BY <2>1, <2>8, <2>9, <3>1, <3>2
    <3> QED BY <2>2, <2>9, <3>1, <3>3 DEF Passed
  <2>10. Passed'
    BY <1>1, <2>2, <2>6, <2>9 DEF Passed, Position
  <2> QED BY <2>3, <2>4, <2>10
<1> QED BY <1>6, <1>8, <1>9 DEF Collecting

-----------------------------------------------------------------------------
(* A collection begins, and is put away.                                   *)

LEMMA DaysPass ==
  ASSUME NEW s \in Nat, NEW t \in Nat, s <= t
  PROVE  Day(s) \in Nat /\ Day(t) \in Nat /\ Day(s) <= Day(t)
<1> DEFINE d == DayLength
<1>1. d \in Nat /\ d > 0
  BY ListingAssumption
<1> HIDE DEF d
<1>2. s \div d \in Nat /\ t \div d \in Nat
  BY <1>1
<1>3. s \div d <= t \div d
  BY <1>1
<1> QED BY <1>2, <1>3 DEF Day, d

(* A collection starts with everything due and nothing seen.               *)
LEMMA StartedHolds ==
  ASSUME ListTyped, UNCHANGED <<now, listed>>, NEW a \in Nat, NEW b \in Nat, a <= b,
         NEW probe \in BOOLEAN, NEW fanout \in BOOLEAN, col' = Started(a .. b, probe, fanout)
  PROVE  ListTyped' /\ Collecting' /\ col' \in Working' /\ col'.due = {i \in Rows : DayOf(i) \in a .. b}
<1> DEFINE due == {i \in Rows : DayOf(i) \in a .. b}
<1>1. Min(a .. b) = a /\ a \in a .. b
  BY Ends
<1>2. col' = [lane |-> "primary", days |-> a .. b, size |-> PageSize, offset |-> 0, seen |-> {},
              probe |-> probe, fanout |-> fanout, day |-> a, tickers |-> {}, all |-> {}, short |-> {}, due |-> due]
  BY <1>1 DEF Started, DayOf
<1>3. due \in SUBSET Rows
  OBVIOUS
<1> HIDE DEF due
<1>4. PageSize \in Nat /\ a .. b \in SUBSET Nat
  BY ListingAssumption
<1>5. col' \in Working
  BY <1>2, <1>3, <1>4 DEF Working, Lanes
<1>6. ListTyped' /\ col' \in Working'
  BY <1>5, RowsSame DEF ListTyped
<1>7. Passed'
  BY <1>2, Begun
<1>8. Placed'
  <2>1. \A i \in due : DayOf(i) \in a .. b
    BY DEF due
  <2> QED BY <1>1, <1>2, <1>3, <2>1, RowsSame DEF Placed
<1>9. Gathered' /\ ListingComplete'
  BY <1>2 DEF Gathered, ListingComplete
<1> QED BY <1>2, <1>6, <1>7, <1>8, <1>9 DEF Collecting, due

LEMMA IdleHolds ==
  ASSUME ListTyped, UNCHANGED <<now, listed>>, col' = Idle
  PROVE  ListTyped' /\ Collecting'
<1>1. ListTyped'
  BY RowsSame DEF ListTyped, Idle
<1>2. Idle.lane = "idle" /\ \A c \in Working : c.lane # "idle"
  BY DEF Idle, Working, Lanes
<1>3. col' \notin Working'
  BY <1>2, RowsSame
<1>4. ListingComplete'
  BY <1>2 DEF ListingComplete
<1> QED BY <1>1, <1>3, <1>4 DEF Collecting

LEMMA ListingKept ==
  ASSUME ListTyped, Collecting, UNCHANGED listing
  PROVE  ListTyped' /\ Collecting'
<1>1. now' = now /\ listed' = listed /\ col' = col
  BY DEF listing
<1>2. ListTyped'
  BY <1>1 DEF ListTyped, Idle, Working, Ended, Rows
<1>3. Scope' = Scope /\ Shard' = Shard /\ Known' = Known /\ Rows' = Rows
  BY <1>1 DEF Scope, Shard, Known, Rows
<1>4. Current' = Current
  BY <1>1, <1>3 DEF Current, List
<1>5. Placed' <=> Placed
  BY <1>1 DEF Placed, DayOf
<1>6. Passed' <=> Passed
  BY <1>1, <1>4 DEF Passed, Position
<1>7. Gathered' <=> Gathered
  BY <1>1, <1>3 DEF Gathered, DayOf
<1>8. ListingComplete' <=> ListingComplete
  BY <1>1 DEF ListingComplete
<1>9. col' \in Working' <=> col \in Working
  BY <1>1, <1>3 DEF Working
<1> QED BY <1>2, <1>5, <1>6, <1>7, <1>8, <1>9 DEF Collecting

-----------------------------------------------------------------------------
(* The plan of a run.                                                      *)

LEMMA CoveredPoints ==
  \A R \in SUBSET Ranges : \A t \in Int : IsCovered(R, t) <=> \E r \in R : 2 * t \in Points(r)
<1> SUFFICES ASSUME NEW R \in SUBSET Ranges, NEW t \in Int
             PROVE  IsCovered(R, t) <=> \E r \in R : 2 * t \in Points(r)
  OBVIOUS
<1>1. ASSUME NEW r \in R PROVE (r.start <= t /\ t <= r.end) <=> 2 * t \in Points(r)
  <2>1. r.start \in Nat /\ r.end \in Nat /\ (2 * t \in Points(r) <=> 2 * r.start <= 2 * t /\ 2 * t <= 2 * r.end)
    BY PointsOf
  <2> QED BY <2>1
<1> QED BY <1>1 DEF IsCovered

(* The same of the set of ranges that is saved.                            *)
LEMMA NormalizedSet ==
  ASSUME NEW R \in SUBSET Ranges, IsFiniteSet(R)
  PROVE  /\ ToSet(Normalize(R)) \in SUBSET Ranges /\ IsFiniteSet(ToSet(Normalize(R)))
         /\ AllPoints(ToSet(Normalize(R))) = AllPoints(R)
         /\ \A t \in Int : IsCovered(ToSet(Normalize(R)), t) <=> IsCovered(R, t)
         /\ \A n \in Nat : (\A r \in R : r.end <= n) => \A r \in ToSet(Normalize(R)) : r.end <= n
<1> DEFINE m == Normalize(R)
           T == ToSet(m)
<1>1. m \in Seq(Ranges) /\ \A p : (\E i \in 1 .. Len(m) : p \in Points(m[i])) <=> \E r \in R : p \in Points(r)
  BY Normalized
<1> HIDE DEF m
<1>2. Len(m) \in Nat /\ DOMAIN m = 1 .. Len(m) /\ \A i \in 1 .. Len(m) : m[i] \in Ranges
  <2>1. \A S : \A x \in Seq(S) : Len(x) \in Nat /\ DOMAIN x = 1 .. Len(x) /\ \A i \in 1 .. Len(x) : x[i] \in S
    OBVIOUS
  <2> QED BY <1>1, <2>1
<1>3. T = {m[i] : i \in 1 .. Len(m)}
  BY <1>2 DEF ToSet
<1> HIDE DEF T
<1>4. T \in SUBSET Ranges
  BY <1>2, <1>3
<1>5. IsFiniteSet(T)
  <2>1. IsFiniteSet(1 .. Len(m))
    BY <1>2, FS_Interval
  <2>2. [i \in 1 .. Len(m) |-> m[i]] \in Surjection(1 .. Len(m), T)
    BY <1>3 DEF Surjection
  <2> QED BY <2>1, <2>2, FS_Surjection
<1>6. \A p : (\E r \in T : p \in Points(r)) <=> \E r \in R : p \in Points(r)
  BY <1>1, <1>3
<1>7. AllPoints(T) = AllPoints(R)
  BY <1>6 DEF AllPoints
<1>8. \A t \in Int : IsCovered(T, t) <=> IsCovered(R, t)
  <2>1. \A t \in Int : IsCovered(T, t) <=> \E r \in T : 2 * t \in Points(r)
    BY <1>4, CoveredPoints
  <2>2. \A t \in Int : IsCovered(R, t) <=> \E r \in R : 2 * t \in Points(r)
    BY CoveredPoints
  <2> QED BY <1>6, <2>1, <2>2
<1>9. ASSUME NEW n \in Nat, \A r \in R : r.end <= n, NEW r \in T PROVE r.end <= n
  <2>1. r \in Ranges
    BY <1>4
  <2>2. r.end \in Nat /\ 2 * r.end \in Points(r)
    <3>1. r.end \in Nat /\ r.start \in Nat /\ r.start <= r.end
      BY <2>1, PointsOf
    <3> QED BY <2>1, <3>1, PointsOf
  <2>3. PICK q \in R : 2 * r.end \in Points(q)
    BY <1>6, <2>2
  <2>4. 2 * r.end <= 2 * q.end /\ q.end \in Nat /\ q.end <= n
    BY <1>9, <2>3, PointsOf
  <2> QED BY <2>2, <2>4
<1> QED BY <1>4, <1>5, <1>7, <1>8, <1>9 DEF T, m

(* A finite set, put into a sequence, is in it.                            *)
LEMMA Sequenced ==
  ASSUME NEW S, IsFiniteSet(S)
  PROVE  /\ SetToSeq(S) \in Seq(S)
         /\ \A x \in S : \E k \in 1 .. Len(SetToSeq(S)) : SetToSeq(S)[k] = x
         /\ S # {} => SetToSeq(S) # <<>>
<1> DEFINE n == Cardinality(S)
           s == SetToSeq(S)
<1>1. n \in Nat /\ \E f \in [1 .. n -> S] : IsInjective(f)
  <2>1. n \in Nat /\ ExistsBijection(1 .. n, S)
    BY FS_CardinalityType
  <2> QED BY <2>1 DEF ExistsBijection, Bijection, Injection
<1>2. s \in [1 .. n -> S] /\ IsInjective(s)
  BY <1>1 DEF SetToSeq
<1> HIDE DEF s
<1>3. s \in Injection(1 .. n, S)
  BY <1>2 DEF Injection
<1>4. Cardinality(1 .. n) = n /\ IsFiniteSet(1 .. n)
  BY <1>1, FS_Interval
<1>5. s \in Surjection(1 .. n, S)
  BY <1>3, <1>4, FS_Injection
<1>6. s \in Seq(S) /\ Len(s) = n
  BY <1>1, <1>2
<1>7. \A x \in S : \E k \in 1 .. n : s[k] = x
  BY <1>5 DEF Surjection
<1>8. S # {} => s # <<>>
  <2>1. S # {} => n # 0
    BY <1>1, <1>7
  <2> QED BY <1>6, <2>1
<1> QED BY <1>6, <1>7, <1>8 DEF s

(* The report of an older version, cut at its poll, covers what it stored. *)
LEMMA Recoveries ==
  ASSUME ListTyped, LastKnown
  PROVE  /\ Recovered \in SUBSET Ranges /\ IsFiniteSet(Recovered) /\ \A r \in Recovered : r.end = 0
         /\ \A i \in Rows : IsCovered(Recovered, listed[i].at) => i \in stored
<1>1. CASE lastRun = {}
  <2>1. Recovered = {}
    BY <1>1 DEF Recovered
  <2> QED BY <2>1, FS_EmptySet DEF IsCovered
<1>2. CASE lastRun # {}
  <2>1. PICK e \in Nat : /\ lastRun = {[start |-> 0, end |-> e, snapshot |-> 0]}
                         /\ \A i \in Rows : listed[i].at = 0 => i \in stored
    BY <1>2 DEF LastKnown
  <2>2. Min({e, 0}) = 0
    BY Pairs
  <2>3. {p \in lastRun : p.start <= p.snapshot} = lastRun
    BY <2>1
  <2> DEFINE p == [start |-> 0, end |-> e, snapshot |-> 0]
             r == [start |-> 0, end |-> 0]
  <2>4. Recovered = {r}
    <3>1. Recovered = {[start |-> q.start, end |-> Min({q.end, q.snapshot})] : q \in {p}}
      BY <2>1, <2>3 DEF Recovered
    <3>2. p.start = 0 /\ p.end = e /\ p.snapshot = 0
      OBVIOUS
    <3> HIDE DEF p
    <3> QED BY <2>2, <3>1, <3>2
  <2>5. \A i \in Rows : listed[i].at \in Nat
    BY Listings DEF ListTyped
  <2>6. r \in Ranges /\ r.start = 0 /\ r.end = 0
    BY DEF Ranges
  <2> HIDE DEF r
  <2>7. IsFiniteSet(Recovered)
    BY <2>4, FS_Singleton
  <2>8. \A i \in Rows : IsCovered(Recovered, listed[i].at) => listed[i].at = 0
    BY <2>4, <2>5, <2>6 DEF IsCovered
  <2> QED BY <2>1, <2>4, <2>6, <2>7, <2>8
<1> QED BY <1>1, <1>2

(* What is migrated is as good as what was covered.                        *)
LEMMA MigratedHolds ==
  ASSUME ListTyped, HistoryTyped, LastKnown, CoveredRowsStored
  PROVE  /\ Migrated \in SUBSET Ranges /\ IsFiniteSet(Migrated) /\ \A r \in Migrated : r.end <= now
         /\ \A i \in Known : IsCovered(Migrated, listed[i].at) => i \in stored
<1> DEFINE R == coverage \union Recovered
<1>1. R \in SUBSET Ranges /\ IsFiniteSet(R) /\ now \in Nat /\ \A r \in R : r.end <= now
  <2>1. Recovered \in SUBSET Ranges /\ IsFiniteSet(Recovered) /\ \A r \in Recovered : r.end = 0
    BY Recoveries
  <2>2. coverage \in SUBSET Ranges /\ IsFiniteSet(coverage) /\ now \in Nat /\ \A r \in coverage : r.end <= now
    BY DEF HistoryTyped, ListTyped
  <2>3. IsFiniteSet(R)
    BY <2>1, <2>2, FS_Union
  <2>4. \A r \in Recovered : r.end <= now
    BY <2>1, <2>2
  <2> QED BY <2>1, <2>2, <2>3, <2>4
<1>2. ASSUME NEW i \in Known, IsCovered(R, listed[i].at) PROVE i \in stored
  <2>1. IsCovered(coverage, listed[i].at) \/ IsCovered(Recovered, listed[i].at)
    BY <1>2 DEF IsCovered
  <2> QED BY <2>1, Recoveries DEF CoveredRowsStored, Known
<1>3. \A i \in Known : listed[i].at \in Int
  BY Listings DEF ListTyped, Known
<1> HIDE DEF R
<1>4. /\ ToSet(Normalize(R)) \in SUBSET Ranges /\ IsFiniteSet(ToSet(Normalize(R)))
      /\ \A r \in ToSet(Normalize(R)) : r.end <= now
      /\ \A t \in Int : IsCovered(ToSet(Normalize(R)), t) <=> IsCovered(R, t)
  BY <1>1, NormalizedSet
<1>5. Migrated = ToSet(Normalize(R))
  BY DEF Migrated, R
<1> QED BY <1>2, <1>3, <1>4, <1>5

(* Windows are cut at the poll; the gaps fill them up.                     *)
LEMMA Plans ==
  ASSUME now \in Nat, NEW kind \in Kinds, NEW window \in Windows, NEW before \in SUBSET Ranges, IsFiniteSet(before)
  PROVE  LET missing == Missing(kind, window, before)
         IN  /\ window \in Ranges /\ missing \in SUBSET Ranges /\ IsFiniteSet(missing)
             /\ \A g \in missing : g.end <= now /\ window.start <= g.start /\ g.end <= window.end
             /\ \A g \in missing : /\ Query(kind, window, g) \in Ranges
                                   /\ Query(kind, window, g).start <= g.start /\ Query(kind, window, g).end = g.end
             /\ Incremental(kind) /\ missing # {} =>
                  LET requested == AllPoints({[window EXCEPT !.end = Min({@, now})]})
                  IN /\ AllPoints(missing) \union (AllPoints(before) \intersect requested) = requested
                     /\ \A p \in AllPoints(missing) \intersect AllPoints(before) : p % 2 = 0
<1> DEFINE missing == Missing(kind, window, before)
           cut == [window EXCEPT !.end = Min({@, now})]
<1>1. window \in [start : Nat, end : Nat] /\ window \in Ranges
  BY HistoryAssumption, ListingAssumption DEF IsRange, Ranges
<1>2. cut = [start |-> window.start, end |-> Min({window.end, now})] /\ window.start \in Nat /\ window.end \in Nat
  BY <1>1
<1>3. Min({window.end, now}) = IF window.end <= now THEN window.end ELSE now
  BY <1>2, Pairs
<1>4. cut.start = window.start /\ cut.end = Min({window.end, now}) /\ cut.end \in Nat /\ cut.end <= now /\ cut.end <= window.end
  BY <1>2, <1>3
<1>5. window.start <= now => cut \in Ranges
  BY <1>1, <1>2, <1>3 DEF Ranges
<1>6. Pollable(window) = IF window.start <= now THEN {cut} ELSE {}
  BY DEF Pollable
<1> HIDE DEF cut
<1>7. CASE ~(window.start <= now)
  <2>1. missing = {}
    BY <1>6, <1>7 DEF Missing
  <2> HIDE DEF missing
  <2> QED BY <1>1, <2>1, FS_EmptySet DEF missing
<1>8. CASE window.start <= now
  <2>1. missing = IF Incremental(kind) THEN Subtract(cut, before) ELSE {cut}
    BY <1>6, <1>8 DEF Missing
  <2> HIDE DEF missing
  <2>2. cut \in Ranges
    BY <1>5, <1>8
  <2>3. /\ Subtract(cut, before) \in SUBSET Ranges /\ IsFiniteSet(Subtract(cut, before))
        /\ \A g \in Subtract(cut, before) : cut.start <= g.start /\ g.end <= cut.end
        /\ \A p \in Points(cut) : (\E g \in Subtract(cut, before) : p \in Points(g)) \/ (\E r \in before : p \in Points(r))
        /\ \A g \in Subtract(cut, before), r \in before : \A p \in Points(g) : p \in Points(r) => p % 2 = 0
    BY <2>2, Subtracted
  <2>4. missing \in SUBSET Ranges /\ IsFiniteSet(missing) /\ \A g \in missing : cut.start <= g.start /\ g.end <= cut.end
    <3>1. cut.start <= cut.start /\ cut.end <= cut.end
      BY <1>2, <1>4
    <3> QED BY <2>1, <2>2, <2>3, <3>1, FS_Singleton
  <2>5. \A g \in missing : g.start \in Nat /\ g.end \in Nat /\ g.start <= g.end
    BY <2>4, PointsOf
  <2>6. \A g \in missing : g.end <= now /\ window.start <= g.start /\ g.end <= window.end
    BY <1>2, <1>4, <2>4, <2>5
  <2>7. ASSUME NEW g \in missing
        PROVE  /\ Query(kind, window, g) \in Ranges
               /\ Query(kind, window, g).start <= g.start /\ Query(kind, window, g).end = g.end
    <3>1. CASE Incremental(kind)
      <4> DEFINE s == Max({window.start, g.start - Overlap})
      <4>1. Overlap \in Nat
        BY HistoryAssumption
      <4>2. s = IF window.start >= g.start - Overlap THEN window.start ELSE g.start - Overlap
        BY <1>2, <2>5, <4>1, Pairs
      <4>3. s \in Nat /\ s <= g.start
        BY <1>2, <2>5, <2>6, <4>1, <4>2
      <4>4. Query(kind, window, g) = [g EXCEPT !.start = s]
        BY <3>1 DEF Query
      <4> HIDE DEF s
      <4>5. g \in [start : Nat, end : Nat]
        BY <2>4 DEF Ranges
      <4>6. [g EXCEPT !.start = s] = [start |-> s, end |-> g.end]
        BY <4>5
      <4>7. Query(kind, window, g).start = s /\ Query(kind, window, g).end = g.end
        BY <4>4, <4>6
      <4>8. s <= g.end
        BY <2>5, <4>3
      <4>9. [start |-> s, end |-> g.end] \in Ranges
        BY <2>5, <4>3, <4>8 DEF Ranges
      <4> QED BY <4>3, <4>4, <4>6, <4>7, <4>9
    <3>2. CASE ~Incremental(kind)
      BY <2>4, <2>5, <3>2 DEF Query
    <3> QED BY <3>1, <3>2
  <2>8. ASSUME Incremental(kind)
        PROVE  /\ AllPoints(missing) \union (AllPoints(before) \intersect AllPoints({cut})) = AllPoints({cut})
               /\ \A p \in AllPoints(missing) \intersect AllPoints(before) : p % 2 = 0
    <3>1. missing = Subtract(cut, before) /\ AllPoints({cut}) = Points(cut)
      BY <2>1, <2>8 DEF AllPoints
    <3>2. \A g \in missing : Points(g) \subseteq Points(cut)
      <4>1. \A g \in missing : \A p \in Points(g) : p \in Int /\ 2 * g.start <= p /\ p <= 2 * g.end
        BY <2>4, PointsOf
      <4>2. cut.start \in Nat /\ cut.end \in Nat
        BY <2>2, PointsOf
      <4>3. \A g \in missing : \A p \in Points(g) : 2 * cut.start <= p /\ p <= 2 * cut.end
        BY <2>4, <2>5, <4>1, <4>2
      <4> QED BY <2>2, <4>1, <4>3, PointsOf
    <3> QED BY <2>3, <3>1, <3>2 DEF AllPoints
  <2> QED BY <1>1, <2>4, <2>6, <2>7, <2>8 DEF missing, cut
<1> QED BY <1>7, <1>8

(* The collector that a run starts is due all rows of the days asked for.  *)
LEMMA CollectorBegins ==
  ASSUME ListTyped, UNCHANGED <<now, listed>>, NEW query \in Ranges, NEW kind, col' = Collector(query, kind)
  PROVE  /\ ListTyped' /\ Collecting' /\ col' # Idle
         /\ \A i \in Rows : Day(query.start) <= DayOf(i) /\ DayOf(i) <= Day(query.end) => i \in col'.due
<1>1. query.start \in Nat /\ query.end \in Nat /\ query.start <= query.end
  BY PointsOf
<1>2. Day(query.start) \in Nat /\ Day(query.end) \in Nat /\ Day(query.start) <= Day(query.end)
  BY <1>1, DaysPass
<1>3. col' = Started(Day(query.start) .. Day(query.end), kind # "synapse", kind = "historical_audit")
  BY DEF Collector
<1>4. (kind # "synapse") \in BOOLEAN /\ (kind = "historical_audit") \in BOOLEAN
  OBVIOUS
<1>5. /\ ListTyped' /\ Collecting' /\ col' \in Working'
      /\ col'.due = {i \in Rows : DayOf(i) \in Day(query.start) .. Day(query.end)}
  BY <1>2, <1>3, <1>4, StartedHolds
<1>6. col' # Idle
  BY <1>5 DEF Working, Lanes, Idle
<1>7. \A i \in Rows : DayOf(i) \in Nat
  <2>1. \A i \in Rows : listed[i].at \in Nat /\ listed[i].at <= listed[i].at
    BY Listings DEF ListTyped
  <2> QED BY <2>1, DaysPass DEF DayOf
<1> QED BY <1>2, <1>5, <1>6, <1>7

LEMMA StartHolds ==
  ASSUME IInv, NEW kind \in Kinds, NEW window \in Windows, StartRun(kind, window)
  PROVE  IInv'
<1> DEFINE before == IF Incremental(kind) THEN Migrated ELSE coverage
           missing == Missing(kind, window, before)
           asked == {Query(kind, window, gap) : gap \in missing}
           queries == SetToSeq(asked)
<1>1. /\ pc = "idle" /\ coverage' = before
      /\ run' = [kind |-> kind, window |-> window, before |-> before, missing |-> missing, snapshot |-> now,
                 queries |-> queries, raw |-> {}, complete |-> TRUE, errors |-> FALSE, work |-> {}]
      /\ (missing = {} /\ pc' = "finish" /\ col' = Idle)
         \/ (missing # {} /\ pc' = "collect" /\ col' = Collector(Head(queries), kind))
      /\ now' = now /\ listed' = listed /\ stored' = stored /\ ready' = ready /\ lastRun' = lastRun /\ remote' = remote
  BY DEF StartRun
<1>2. ListTyped /\ Collecting /\ HistoryTyped /\ LastKnown /\ CoveredRowsStored
  BY DEF IInv
<1>3. /\ before \in SUBSET Ranges /\ IsFiniteSet(before) /\ \A r \in before : r.end <= now
      /\ \A i \in Known : IsCovered(before, listed[i].at) => i \in stored
  <2>1. CASE Incremental(kind)
    BY <1>2, <2>1, MigratedHolds
  <2>2. CASE ~Incremental(kind)
    BY <1>2, <2>2 DEF HistoryTyped, CoveredRowsStored, Known
  <2> QED BY <2>1, <2>2
<1> HIDE DEF before
<1>4. now \in Nat /\ listed \in Seq([at : Nat, ticker : Tickers])
  BY <1>2 DEF ListTyped
<1>5. /\ window \in Ranges /\ missing \in SUBSET Ranges /\ IsFiniteSet(missing)
      /\ \A g \in missing : g.end <= now /\ window.start <= g.start /\ g.end <= window.end
      /\ \A g \in missing : /\ Query(kind, window, g) \in Ranges
                            /\ Query(kind, window, g).start <= g.start /\ Query(kind, window, g).end = g.end
  BY <1>3, <1>4, Plans
<1>6. Incremental(kind) /\ missing # {} =>
        /\ AllPoints(missing) \union (AllPoints(before) \intersect AllPoints({[window EXCEPT !.end = Min({@, now})]}))
             = AllPoints({[window EXCEPT !.end = Min({@, now})]})
        /\ \A p \in AllPoints(missing) \intersect AllPoints(before) : p % 2 = 0
  BY <1>3, <1>4, Plans
<1> HIDE DEF missing
<1>7. asked \in SUBSET Ranges /\ IsFiniteSet(asked) /\ (missing # {} => asked # {})
  <2>1. [g \in missing |-> Query(kind, window, g)] \in Surjection(missing, asked)
    BY DEF Surjection
  <2> QED BY <1>5, <2>1, FS_Surjection
<1>8. \A g \in missing : Query(kind, window, g) \in asked
  OBVIOUS
<1> HIDE DEF asked
<1>9. /\ queries \in Seq(Ranges) /\ (missing # {} => queries # <<>>)
      /\ \A x \in asked : \E k \in 1 .. Len(queries) : queries[k] = x
  <2>1. /\ queries \in Seq(asked) /\ (asked # {} => queries # <<>>)
        /\ \A x \in asked : \E k \in 1 .. Len(queries) : queries[k] = x
    BY <1>7, Sequenced
  <2>2. \A S, T : S \subseteq T => \A s \in Seq(S) : s \in Seq(T)
    BY SeqMonotonic
  <2> QED BY <1>7, <2>1, <2>2
<1> HIDE DEF queries
<1>10. /\ run'.kind = kind /\ run'.window = window /\ run'.before = before /\ run'.missing = missing /\ run'.snapshot = now
       /\ run'.queries = queries /\ run'.raw = {} /\ run'.complete = TRUE /\ run'.errors = FALSE /\ run'.work = {}
  BY <1>1
<1>11. Rows' = Rows /\ Known' = Known /\ \A i : DayOf(i)' = DayOf(i)
  BY <1>1, RowsSame
<1>12. CASE missing = {}
  <2>1. pc' = "finish" /\ col' = Idle
    BY <1>1, <1>12
  <2>2. ListTyped' /\ Collecting'
    BY <1>1, <1>2, <2>1, IdleHolds
  <2>3. run' \in LocalRun'
    BY <1>1, <1>3, <1>4, <1>5, <1>9, <1>11 DEF LocalRun
  <2>4. HistoryTyped'
    BY <1>1, <1>2, <1>3, <1>11, <2>1, <2>3 DEF HistoryTyped, Local, Publishing
  <2>5. Reading'
    <3>1. Planned'
      BY <1>1, <1>4, <1>10, <1>12, FS_EmptySet DEF Planned
    <3> QED BY <1>10, <1>12, <2>1, <3>1 DEF Reading, IsCovered
  <2>6. MissingExact'
    BY <2>1 DEF MissingExact
  <2>7. Published'
    BY <2>1 DEF Published, Publishing
  <2>8. LastKnown' /\ CoveredRowsStored'
    BY <1>1, <1>2, <1>3, <1>11 DEF LastKnown, CoveredRowsStored, Known, IsCovered
  <2> QED BY <2>2, <2>4, <2>5, <2>6, <2>7, <2>8 DEF IInv
<1>13. CASE missing # {}
  <2>1. pc' = "collect" /\ col' = Collector(Head(queries), kind)
    BY <1>1, <1>13
  <2>2. Head(queries) \in Ranges
    BY <1>9, <1>13, HeadTailProperties
  <2>3. /\ ListTyped' /\ Collecting' /\ col' # Idle
        /\ \A i \in Rows : Day(Head(queries).start) <= DayOf(i) /\ DayOf(i) <= Day(Head(queries).end) => i \in col'.due
    BY <1>1, <1>2, <2>1, <2>2, CollectorBegins
  <2>4. run' \in LocalRun'
    BY <1>1, <1>3, <1>4, <1>5, <1>9, <1>11 DEF LocalRun
  <2>5. HistoryTyped'
    BY <1>1, <1>2, <1>3, <1>11, <2>1, <2>3, <2>4 DEF HistoryTyped, Local, Publishing, Idle
  <2>6. Reading'
    <3>1. Planned'
      BY <1>1, <1>4, <1>5, <1>10 DEF Planned
    <3>2. Due(Head(run.queries))' \subseteq col'.due
      BY <1>10, <1>11, <2>3 DEF Due
    <3>3. \A g \in run'.missing : Queued(g)'
      BY <1>8, <1>9, <1>10 DEF Queued, Query, Incremental
    <3> QED BY <1>9, <1>10, <1>13, <2>1, <3>1, <3>2, <3>3 DEF Reading
  <2>7. MissingExact'
    BY <1>6, <1>10, <1>13 DEF MissingExact
  <2>8. Published'
    BY <2>1 DEF Published, Publishing
  <2>9. LastKnown' /\ CoveredRowsStored'
    BY <1>1, <1>2, <1>3, <1>11 DEF LastKnown, CoveredRowsStored, Known, IsCovered
  <2> QED BY <2>3, <2>5, <2>6, <2>7, <2>8, <2>9 DEF IInv
<1> QED BY <1>12, <1>13

-----------------------------------------------------------------------------
(* The steps of a run.                                                     *)

(* What a collection answers for stays as it was when it began.            *)
LEMMA DueKept ==
  ASSUME ListTyped, Page \/ PageFails
  PROVE  col'.due = col.due /\ col' # Idle
<1> DEFINE Same(c) == c.due = col.due /\ c.lane # "idle"
<1>1. col \in Working
  <2>1. col.lane \in Lanes
    BY DEF Page, PageFails, Paging, Lanes
  <2>2. col # Idle /\ col \notin Ended
    BY <2>1 DEF Idle, Ended, Lanes
  <2> QED BY <2>2 DEF ListTyped
<1>2. \A items, complete : Same(Finish(items, complete))
  BY DEF Finish
<1>3. \A lane, size : lane # "idle" => Same(Lane(lane, size)) /\ Lane(lane, size) = [col EXCEPT !.lane = lane, !.size = size, !.offset = 0, !.seen = {}]
  BY <1>1 DEF Lane, Working
<1>4. \A all, short : Same(NextDay(all, short))
  <2>1. \A all, short : Same([FirstDay EXCEPT !.day = @ + 1, !.all = all, !.short = short, !.tickers = {}])
    BY <1>1 DEF FirstDay, Lane, Working
  <2> QED BY <1>2, <2>1 DEF NextDay
<1>5. \A master : Same(FanOut(master))
  <2>1. \A master : Same([Lane("ticker", PageSize) EXCEPT !.tickers = master])
    BY <1>1 DEF Lane, Working
  <2> QED BY <1>4, <2>1 DEF FanOut
<1>6. \A items, complete : Same(TickerDone(items, complete))
  <2>1. \A left, all, short : Same([Lane("ticker", PageSize) EXCEPT !.tickers = left, !.all = all, !.short = short])
    BY <1>1 DEF Lane, Working
  <2> QED BY <1>4, <2>1 DEF TickerDone
<1>7. Same(FirstDay) /\ \A lane, reported : lane # "idle" => Same(Probe(lane, reported))
  BY <1>3 DEF FirstDay, Probe
<1>8. \A seen, offset : Same([col EXCEPT !.seen = seen, !.offset = offset])
  BY <1>1 DEF Working, Lanes
<1> HIDE DEF Same
<1>9. \A items, complete, reported, master : complete \in BOOLEAN => Same(ShardDone(items, complete, reported, master))
  <2> SUFFICES ASSUME NEW items, NEW complete \in BOOLEAN, NEW reported, NEW master
               PROVE  Same(ShardDone(items, complete, reported, master))
    OBVIOUS
  <2>1. col.lane \in Lanes
    BY <1>1 DEF Working
  <2> QED BY <1>2, <1>4, <1>5, <1>6, <1>7, <2>1 DEF ShardDone, Lanes
<1>10. ASSUME Page PROVE Same(col')
  <2>1. PICK replies, total, master : col' = PageRead(replies, Reported(total, replies), master)
    BY <1>10 DEF Page
  <2> DEFINE reported == Reported(total, replies)
             seen == col.seen \union replies
             offset == col.offset + Cardinality(replies)
  <2> HIDE DEF reported, seen, offset
  <2>2. \/ \E complete \in BOOLEAN : col' = ShardDone(seen, complete, reported, master)
        \/ col' = [col EXCEPT !.seen = seen, !.offset = offset]
    BY <2>1 DEF PageRead, reported, seen, offset
  <2>3. ASSUME NEW complete \in BOOLEAN, col' = ShardDone(seen, complete, reported, master) PROVE Same(col')
    BY <1>9, <2>3
  <2>4. CASE col' = [col EXCEPT !.seen = seen, !.offset = offset]
    BY <1>8, <2>4
  <2> QED BY <2>2, <2>3, <2>4
<1>11. ASSUME PageFails PROVE Same(col')
  BY <1>2, <1>11 DEF PageFails
<1> QED BY <1>10, <1>11 DEF Same, Idle

LEMMA ListingHolds ==
  ASSUME IInv, Listing
  PROVE  IInv'
<1>1. ListTyped /\ Collecting /\ HistoryTyped /\ LastKnown /\ Reading /\ MissingExact /\ CoveredRowsStored /\ Published
  BY DEF IInv
<1>2. /\ coverage' = coverage /\ stored' = stored /\ ready' = ready /\ lastRun' = lastRun /\ pc' = pc /\ run' = run
      /\ remote' = remote /\ remoteRun' = remoteRun /\ remoteCoverage' = remoteCoverage
  BY DEF Listing, database, synapse
<1>3. CASE Publish /\ pc \in {"idle", "collect"}
  <2>1. ListTyped' /\ Collecting'
    BY <1>1, <1>3, PublishHolds
  <2>2. /\ now' = now + 1 /\ now \in Nat /\ col' = col
        /\ Rows \subseteq Rows' /\ \A i \in Rows : listed'[i] = listed[i] /\ DayOf(i)' = DayOf(i)
        /\ \A i \in Rows' : i \notin Rows => listed'[i].at = now'
        /\ Len(listed') <= MaxRows
    BY <1>1, <1>3, ListGrows
  <2>3. \A r \in coverage : r.end \in Nat /\ r.end <= now
    BY <1>1, PointsOf DEF HistoryTyped
  <2>4. HistoryTyped'
    <3>1. LocalRun \subseteq LocalRun' /\ SynapseRun \subseteq SynapseRun'
      BY <2>2 DEF LocalRun, SynapseRun
    <3>2. \A r \in coverage : r.end <= now'
      BY <2>2, <2>3
    <3>3. stored' \in SUBSET Rows'
      BY <1>1, <1>2, <2>2 DEF HistoryTyped
    <3> QED BY <1>1, <1>2, <2>2, <3>1, <3>2, <3>3 DEF HistoryTyped, Idle
  <2>5. LastKnown'
    <3>1. \A i \in Rows' : listed'[i].at = 0 => i \in Rows /\ listed[i].at = 0
      BY <2>2
    <3> QED BY <1>1, <1>2, <3>1 DEF LastKnown
  <2>6. CoveredRowsStored'
    <3> SUFFICES ASSUME NEW i \in Rows', listed'[i].ticker \in Master, IsCovered(coverage, listed'[i].at)
                 PROVE  i \in stored
      BY <1>2 DEF CoveredRowsStored, IsCovered
    <3>1. i \in Rows
      <4>1. PICK r \in coverage : listed'[i].at <= r.end
        BY DEF IsCovered
      <4> QED BY <2>2, <2>3, <4>1
    <3> QED BY <1>1, <2>2, <3>1 DEF CoveredRowsStored
  <2>7. MissingExact'
    BY <1>1, <1>2 DEF MissingExact
  <2>8. Published'
    BY <1>2, <1>3 DEF Published, Publishing
  <2>9. CASE pc = "idle"
    <3>1. Reading'
      BY <1>2, <2>9 DEF Reading, Local
    <3> QED BY <2>1, <2>4, <2>5, <2>6, <2>7, <2>8, <3>1 DEF IInv
  <2>10. CASE pc = "collect"
    <3>1. Planned /\ run \in LocalRun
      BY <1>1, <2>10 DEF Reading, HistoryTyped, Local
    <3>2. run.snapshot \in Nat /\ run.missing \in SUBSET Ranges
      BY <3>1 DEF LocalRun
    <3>3. Planned'
      BY <1>2, <2>2, <3>1, <3>2 DEF Planned
    <3>4. \A i \in Rows' : listed'[i].at <= run.snapshot => i \in Rows
      <4>1. run.snapshot <= now
        BY <3>1 DEF Planned
      <4> QED BY <2>2, <3>2, <4>1
    <3>5. Due(Head(run.queries))' \subseteq col'.due
      <4>1. Due(Head(run.queries)) \subseteq col.due
        BY <1>1, <2>10 DEF Reading
      <4> QED BY <1>2, <2>2, <3>4, <4>1 DEF Due
    <3>6. ASSUME NEW g \in run.missing PROVE Queued(g)' \/ (run.complete => Fetched(g)')
      <4>1. Queued(g) \/ (run.complete => Fetched(g))
        BY <1>1, <2>10 DEF Reading
      <4>2. Queued(g) => Queued(g)'
        BY <1>2 DEF Queued, Query, Incremental
      <4>3. Fetched(g) => Fetched(g)'
        <5>1. g.end \in Nat /\ g.end <= run.snapshot
          BY <3>1, <3>2, PointsOf DEF Planned
        <5>2. ASSUME NEW i \in Rows', listed'[i].at <= g.end PROVE i \in Rows
          <6>1. CASE i \notin Rows
            <7>1. listed'[i].at = now + 1 /\ run.snapshot <= now
              BY <2>2, <3>1, <6>1 DEF Planned
            <7> QED BY <2>2, <3>2, <5>1, <5>2, <7>1
          <6> QED BY <6>1
        <5> QED BY <1>2, <2>2, <5>2 DEF Fetched, InGap, Known
      <4> QED BY <4>1, <4>2, <4>3
    <3>7. Reading'
      <4>1. run'.queries # <<>>
        BY <1>1, <1>2, <2>10 DEF Reading
      <4> QED BY <1>2, <2>10, <3>3, <3>5, <3>6, <4>1 DEF Reading
    <3> QED BY <2>1, <2>4, <2>5, <2>6, <2>7, <2>8, <3>7 DEF IInv
  <2> QED BY <1>3, <2>9, <2>10
<1>4. CASE Page \/ PageFails
  <2>1. now' = now /\ listed' = listed
    BY <1>4 DEF Page, PageFails
  <2>2. ListTyped' /\ Collecting'
    BY <1>1, <1>4, PageHolds, PageFailsHolds
  <2>3. Rows' = Rows /\ Known' = Known /\ \A i : DayOf(i)' = DayOf(i)
    BY <2>1, RowsSame
  <2>4. pc = "collect" /\ col' # Idle /\ col'.due = col.due
    <3>1. col' # Idle /\ col'.due = col.due
      BY <1>1, <1>4, DueKept
    <3>2. col # Idle
      <4>1. col.lane \in Lanes
        BY <1>4 DEF Page, PageFails, Paging, Lanes
      <4> QED BY <4>1 DEF Idle, Lanes
    <3> QED BY <1>1, <3>1, <3>2 DEF HistoryTyped
  <2>5. HistoryTyped'
    BY <1>1, <1>2, <2>1, <2>3, <2>4 DEF HistoryTyped, LocalRun, SynapseRun, Idle
  <2>6. LastKnown' /\ MissingExact' /\ CoveredRowsStored' /\ Published'
    BY <1>1, <1>2, <2>1, <2>3, <2>4 DEF LastKnown, MissingExact, CoveredRowsStored, Published, Publishing
  <2>7. Reading'
    <3>1. Planned'
      BY <1>1, <1>2, <2>1, <2>4 DEF Reading, Local, Planned
    <3>2. Due(Head(run.queries))' \subseteq col'.due
      BY <1>1, <1>2, <2>1, <2>3, <2>4 DEF Reading, Due
    <3>3. ASSUME NEW g \in run.missing PROVE Queued(g)' \/ (run.complete => Fetched(g)')
      <4>1. Queued(g) \/ (run.complete => Fetched(g))
        BY <1>1, <2>4 DEF Reading
      <4>2. Queued(g) => Queued(g)'
        BY <1>2 DEF Queued, Query, Incremental
      <4>3. Fetched(g) => Fetched(g)'
        BY <1>2, <2>1, <2>3 DEF Fetched, InGap
      <4> QED BY <4>1, <4>2, <4>3
    <3>4. run'.queries # <<>>
      BY <1>1, <1>2, <2>4 DEF Reading
    <3> QED BY <1>2, <2>4, <3>1, <3>2, <3>3, <3>4 DEF Reading
  <2> QED BY <2>2, <2>5, <2>6, <2>7 DEF IInv
<1> QED BY <1>3, <1>4 DEF Listing

LEMMA RangeCollectedHolds ==
  ASSUME IInv, RangeCollected
  PROVE  IInv'
<1> DEFINE left == Tail(run.queries)
<1>1. ListTyped /\ Collecting /\ HistoryTyped /\ LastKnown /\ Reading /\ MissingExact /\ CoveredRowsStored /\ Published
  BY DEF IInv
<1>2. /\ pc = "collect" /\ col.lane = "done"
      /\ run' = [run EXCEPT !.queries = left, !.raw = @ \union col.items, !.complete = @ /\ col.complete]
      /\ (left = <<>> /\ pc' = "filter" /\ col' = Idle) \/ (left # <<>> /\ pc' = "collect" /\ col' = Collector(Head(left), run.kind))
      /\ now' = now /\ listed' = listed /\ coverage' = coverage /\ stored' = stored /\ ready' = ready /\ lastRun' = lastRun
      /\ remote' = remote
  BY DEF RangeCollected, database, synapse
<1>3. Planned /\ run \in LocalRun /\ run.queries # <<>> /\ Due(Head(run.queries)) \subseteq col.due
      /\ \A g \in run.missing : Queued(g) \/ (run.complete => Fetched(g))
  BY <1>1, <1>2 DEF Reading, HistoryTyped, Local
<1>4. col \in Ended /\ (col.complete => \A i \in col.due \cap Known : i \in col.items)
  <2>1. col \in Ended
    BY <1>1, <1>2 DEF ListTyped, Idle, Working, Lanes
  <2> QED BY <1>1, <1>2, <2>1 DEF Collecting, ListingComplete, Known
<1>5. /\ run.kind \in Kinds /\ run.window \in Ranges /\ run.before \in SUBSET Ranges /\ run.missing \in SUBSET Ranges
      /\ run.snapshot \in Nat /\ run.queries \in Seq(Ranges) /\ run.raw \in SUBSET Rows /\ run.complete \in BOOLEAN
  BY <1>3 DEF LocalRun
<1>6. col.items \in SUBSET Rows /\ col.complete \in BOOLEAN /\ col.due \in SUBSET Rows
  BY <1>4 DEF Ended
<1>7. left \in Seq(Ranges) /\ Len(run.queries) = Len(left) + 1 /\ Len(left) \in Nat
      /\ \A k \in 1 .. Len(left) : left[k] = run.queries[k + 1]
  BY <1>3, <1>5, HeadTailProperties
<1> HIDE DEF left
<1>8. /\ run'.kind = run.kind /\ run'.window = run.window /\ run'.before = run.before /\ run'.missing = run.missing
      /\ run'.snapshot = run.snapshot /\ run'.queries = left /\ run'.raw = run.raw \union col.items
      /\ run'.complete = (run.complete /\ col.complete)
  BY <1>2, <1>3 DEF LocalRun
<1>9. Rows' = Rows /\ Known' = Known /\ \A i : DayOf(i)' = DayOf(i)
  BY <1>2, RowsSame
<1>10. run' \in LocalRun'
  <2>1. (run.complete /\ col.complete) \in BOOLEAN /\ run.raw \union col.items \in SUBSET Rows
    BY <1>5, <1>6
  <2> QED BY <1>2, <1>3, <1>7, <1>9, <2>1 DEF LocalRun
<1>11. Planned'
  BY <1>2, <1>3, <1>8 DEF Planned
(* What has been asked for was complete, or the run knows better.          *)
<1>12. ASSUME NEW g \in run.missing PROVE Queued(g)' \/ (run'.complete => Fetched(g)')
  <2> SUFFICES ASSUME ~ Queued(g)', run.complete, col.complete PROVE Fetched(g)'
    BY <1>8
  <2>1. CASE ~ Queued(g)
    <3>1. Fetched(g)
      BY <1>3, <2>1
    <3> QED BY <1>2, <1>8, <1>9, <3>1 DEF Fetched, InGap
  <2>2. CASE Queued(g)
    <3> DEFINE q == Query(run.kind, run.window, g)
    <3>1. PICK k \in 1 .. Len(run.queries) : run.queries[k] = q
      BY <2>2 DEF Queued
    <3>2. k = 1
      <4>1. CASE k # 1
        <5>1. k - 1 \in 1 .. Len(left) /\ left[k - 1] = run.queries[k]
          BY <1>7, <4>1
        <5>2. Query(run'.kind, run'.window, g) = q
          BY <1>8
        <5> HIDE DEF q
        <5> QED BY <1>8, <3>1, <5>1, <5>2 DEF Queued
      <4> QED BY <4>1
    <3>3. Head(run.queries) = q
      BY <1>3, <1>5, <3>1, <3>2, HeadTailProperties
    <3>4. q \in Ranges
      BY <1>3, <1>5, <3>3, HeadTailProperties
    <3>5. q.start <= g.start /\ q.end = g.end
      <4>1. /\ run.window.start \in Nat /\ g.start \in Nat /\ g.end \in Nat /\ run.window.start <= g.start
            /\ g \in [start : Nat, end : Nat] /\ Overlap \in Nat
        BY <1>3, <1>5, PointsOf, HistoryAssumption DEF Planned, Ranges
      <4>2. Max({run.window.start, g.start - Overlap}) <= g.start
        <5>1. \A x, y \in Int : Max({x, y}) = IF x >= y THEN x ELSE y
          BY Pairs
        <5>2. run.window.start \in Int /\ (g.start - Overlap) \in Int /\ g.start - Overlap <= g.start
          BY <4>1
        <5>3. Max({run.window.start, g.start - Overlap}) =
                IF run.window.start >= g.start - Overlap THEN run.window.start ELSE g.start - Overlap
          BY <5>1, <5>2
        <5> QED BY <4>1, <5>2, <5>3
      <4> QED BY <4>1, <4>2 DEF Query
    <3> HIDE DEF q
    <3>6. ASSUME NEW i \in Known, InGap(i, g) PROVE i \in col.items
      <4>1. i \in Rows /\ listed[i].at \in Nat /\ g.start \in Nat /\ g.end \in Nat /\ q.start \in Nat /\ q.end \in Nat
        BY <1>1, <1>5, <3>4, Listings, PointsOf DEF ListTyped, Known
      <4>2. q.start <= listed[i].at /\ listed[i].at <= q.end
        BY <3>5, <3>6, <4>1 DEF InGap
      <4>3. Day(q.start) <= DayOf(i) /\ DayOf(i) <= Day(q.end)
        BY <4>1, <4>2, DaysPass DEF DayOf
      <4>4. listed[i].at <= run.snapshot
        BY <1>3, <1>5, <3>6, <4>1 DEF Planned, InGap
      <4>5. i \in Due(q)
        BY <4>1, <4>3, <4>4 DEF Due
      <4> QED BY <1>3, <1>4, <3>3, <4>5
    <3> QED BY <1>2, <1>8, <1>9, <3>6 DEF Fetched, InGap
  <2> QED BY <2>1, <2>2
<1>13. LastKnown' /\ CoveredRowsStored' /\ MissingExact'
  BY <1>1, <1>2, <1>8, <1>9 DEF LastKnown, CoveredRowsStored, MissingExact
<1>14. Published'
  BY <1>2 DEF Published, Publishing
<1>15. CASE left = <<>>
  <2>1. pc' = "filter" /\ col' = Idle
    BY <1>2, <1>15
  <2>2. ListTyped' /\ Collecting'
    BY <1>1, <1>2, <2>1, IdleHolds
  <2>3. HistoryTyped'
    BY <1>1, <1>2, <1>9, <1>10, <2>1 DEF HistoryTyped, Local, Publishing
  <2>4. \A g \in run.missing : ~ Queued(g)'
    <3>1. Len(left) = 0
      BY <1>15
    <3> QED BY <1>8, <3>1 DEF Queued
  <2>5. Reading'
    BY <1>8, <1>11, <1>12, <2>1, <2>4 DEF Reading
  <2> QED BY <1>13, <1>14, <2>2, <2>3, <2>5 DEF IInv
<1>16. CASE left # <<>>
  <2>1. pc' = "collect" /\ col' = Collector(Head(left), run.kind)
    BY <1>2, <1>16
  <2>2. Head(left) \in Ranges
    BY <1>7, <1>16, HeadTailProperties
  <2>3. /\ ListTyped' /\ Collecting' /\ col' # Idle
        /\ \A i \in Rows : Day(Head(left).start) <= DayOf(i) /\ DayOf(i) <= Day(Head(left).end) => i \in col'.due
    BY <1>1, <1>2, <2>1, <2>2, CollectorBegins
  <2>4. HistoryTyped'
    BY <1>1, <1>2, <1>9, <1>10, <2>1, <2>3 DEF HistoryTyped, Local, Publishing, Idle
  <2>5. Due(Head(run.queries))' \subseteq col'.due
    BY <1>8, <1>9, <2>3 DEF Due
  <2>6. Reading'
    BY <1>8, <1>11, <1>12, <1>16, <2>1, <2>5 DEF Reading
  <2> QED BY <1>13, <1>14, <2>3, <2>4, <2>6 DEF IInv
<1> QED BY <1>15, <1>16

(* The row processed next is one that is to be done.                       *)
LEMMA Greatest ==
  ASSUME NEW L \in SUBSET Nat, IsFiniteSet(L), L # {}
  PROVE  Max(L) \in L
<1>1. Cardinality(L) \in Nat /\ Cardinality(L) # 0
  BY FS_CardinalityType, FS_EmptySet
<1>2. PICK i \in L : Position(i, L) = 1
  <2>1. 1 \in 1 .. Cardinality(L)
    BY <1>1
  <2> QED BY <2>1, Positions
<1>3. {j \in L : i <= j} \in SUBSET L
  OBVIOUS
<1>4. PICK x : {j \in L : i <= j} = {x}
  BY <1>2, <1>3, FS_Subset, FS_Singleton DEF Position
<1>5. x = i
  <2>1. i \in {j \in L : i <= j}
    OBVIOUS
  <2> QED BY <1>4, <2>1
<1>6. \A j \in L : i >= j
  <2>1. \A j \in L : j \in Nat /\ i \in Nat /\ (i <= j => j = i)
    BY <1>4, <1>5
  <2> QED BY <2>1
<1> QED BY <1>6 DEF Max

LEMMA RowsFilteredHolds ==
  ASSUME IInv, RowsFiltered
  PROVE  IInv'
<1>1. ListTyped /\ Collecting /\ HistoryTyped /\ LastKnown /\ Reading /\ MissingExact /\ CoveredRowsStored /\ Published
  BY DEF IInv
<1>2. PICK master \in {Master, {}} :
        LET rows == {i \in run.raw : Within(i, run.window) /\ ~Trusted(i) /\ ~Cached(i) /\ ~Unlisted(i, master)}
        IN \E work \in (IF run.kind = "limited" THEN SUBSET rows ELSE {rows}) :
             run' = [run EXCEPT !.raw = {}, !.work = work, !.errors = ~run.complete]
  BY DEF RowsFiltered
<1> DEFINE rows == {i \in run.raw : Within(i, run.window) /\ ~Trusted(i) /\ ~Cached(i) /\ ~Unlisted(i, master)}
<1>3. PICK work \in SUBSET rows : /\ run.kind # "limited" => work = rows
                                  /\ run' = [run EXCEPT !.raw = {}, !.work = work, !.errors = ~run.complete]
  BY <1>2
<1>4. /\ pc = "filter" /\ pc' = "process" /\ now' = now /\ listed' = listed /\ col' = col
      /\ coverage' = coverage /\ stored' = stored /\ ready' = ready /\ lastRun' = lastRun /\ remote' = remote
  BY DEF RowsFiltered, listing, database, synapse
<1>5. Planned /\ run \in LocalRun /\ (run.complete => \A g \in run.missing : Fetched(g))
  BY <1>1, <1>4 DEF Reading, HistoryTyped, Local
<1>6. /\ run.window \in Ranges /\ run.missing \in SUBSET Ranges /\ run.raw \in SUBSET Rows /\ run.complete \in BOOLEAN
  BY <1>5 DEF LocalRun
<1>7. rows \in SUBSET Rows
  BY <1>6
<1>8. /\ run'.kind = run.kind /\ run'.window = run.window /\ run'.before = run.before /\ run'.missing = run.missing
      /\ run'.snapshot = run.snapshot /\ run'.work = work /\ run'.complete = run.complete /\ run'.errors = ~run.complete
  BY <1>3, <1>5 DEF LocalRun
<1>9. Rows' = Rows /\ Known' = Known
  BY <1>4, RowsSame
<1>10. run' \in LocalRun'
  <2>1. (~run.complete) \in BOOLEAN /\ work \in SUBSET Rows /\ {} \in SUBSET Rows
    BY <1>7
  <2> QED BY <1>3, <1>5, <1>9, <2>1 DEF LocalRun
<1>11. ListTyped' /\ Collecting'
  BY <1>1, <1>4, ListingKept DEF listing
<1>12. HistoryTyped'
  BY <1>1, <1>4, <1>9, <1>10 DEF HistoryTyped, Local, Publishing, Idle
(* What is passed over is stored already, or not a stock's.                *)
<1>13. ASSUME run.kind # "limited", run.complete, NEW i \in Known, IsCovered(run.missing, listed[i].at)
       PROVE  i \in stored \union work
  <2>1. PICK g \in run.missing : InGap(i, g)
    BY <1>13 DEF IsCovered, InGap
  <2>2. i \in run.raw /\ i \in Rows
    BY <1>5, <1>13, <2>1 DEF Fetched, Known
  <2>3. Within(i, run.window)
    <3>1. g.start \in Nat /\ g.end \in Nat /\ run.window.start \in Nat /\ run.window.end \in Nat /\ listed[i].at \in Nat
      BY <1>1, <1>6, <2>2, PointsOf, Listings DEF ListTyped
    <3> QED BY <1>5, <2>1, <3>1 DEF Planned, Within, InGap
  <2>4. Trusted(i) => i \in stored
    BY <1>1, <1>5, <1>13 DEF Trusted, CoveredRowsStored, Planned, Known
  <2>5. Cached(i) => i \in stored
    BY <1>1 DEF Cached, HistoryTyped
  <2>6. ~Unlisted(i, master)
    BY <1>13 DEF Unlisted, Known
  <2>7. CASE Trusted(i) \/ Cached(i)
    BY <2>4, <2>5, <2>7
  <2>8. CASE ~Trusted(i) /\ ~Cached(i)
    BY <1>3, <1>13, <2>2, <2>3, <2>6, <2>8
  <2> QED BY <2>7, <2>8
<1>14. Reading'
  <2>1. Planned'
    BY <1>4, <1>5, <1>8 DEF Planned
  <2>2. \A i \in Known : listed'[i].at = listed[i].at
    BY <1>4
  <2> QED BY <1>4, <1>8, <1>9, <1>13, <2>1, <2>2 DEF Reading, Clean, IsCovered
<1>15. LastKnown' /\ CoveredRowsStored'
  BY <1>1, <1>4, <1>9 DEF LastKnown, CoveredRowsStored
<1>16. MissingExact' /\ Published'
  BY <1>4 DEF MissingExact, Published, Publishing
<1> QED BY <1>11, <1>12, <1>14, <1>15, <1>16 DEF IInv

LEMMA ProcessHolds ==
  ASSUME IInv, Process \/ Processed
  PROVE  IInv'
<1>1. ListTyped /\ Collecting /\ HistoryTyped /\ LastKnown /\ Reading /\ MissingExact /\ CoveredRowsStored /\ Published
  BY DEF IInv
<1>2. /\ pc = "process" /\ now' = now /\ listed' = listed /\ col' = col /\ coverage' = coverage /\ lastRun' = lastRun
      /\ remote' = remote
  BY DEF Process, Processed, listing, database, synapse
<1>3. Planned /\ run \in LocalRun /\ run.work \in SUBSET Rows /\ Rows \in SUBSET Nat /\ stored \in SUBSET Rows
      /\ ready \in SUBSET stored
      /\ (run.kind # "limited" /\ Clean => \A i \in Known : IsCovered(run.missing, listed[i].at) => i \in stored \union run.work)
  <2>1. run \in LocalRun
    BY <1>1, <1>2 DEF HistoryTyped, Local
  <2> QED BY <1>1, <1>2, <2>1, Listings DEF Reading, HistoryTyped, Local, LocalRun, ListTyped
<1>4. Rows' = Rows /\ Known' = Known
  BY <1>2, RowsSame
<1>5. ListTyped' /\ Collecting'
  BY <1>1, <1>2, ListingKept DEF listing
(* The row at hand leaves the list of work when it is stored, or with an   *)
(* error.                                                                  *)
<1>6. /\ pc' \in {"process", "finish"} /\ (pc' = "finish" => run'.work = {})
      /\ run' \in LocalRun /\ stored \subseteq stored' /\ stored' \in SUBSET Rows /\ ready' \in SUBSET stored'
      /\ run'.kind = run.kind /\ run'.window = run.window /\ run'.before = run.before /\ run'.missing = run.missing
      /\ run'.snapshot = run.snapshot /\ run'.complete = run.complete
      /\ run'.errors \/ (run'.errors = run.errors /\ stored \union run.work \subseteq stored' \union run'.work)
  <2>1. CASE Processed
    BY <1>1, <1>3, <2>1 DEF Processed, database
  <2>2. CASE Process
    <3> DEFINE i == Max(run.work)
    <3>1. i \in run.work
      <4>1. run.work # {} /\ IsFiniteSet(run.work)
        <5>1. IsFiniteSet(Rows)
          <6>1. Len(listed) \in Nat
            BY <1>1 DEF ListTyped
          <6> QED BY <6>1, FS_Interval DEF Rows
        <5> QED BY <1>3, <2>2, <5>1, FS_Subset DEF Process
      <4> QED BY <1>3, <4>1, Greatest
    <3> HIDE DEF i
    <3>2. i \in Rows /\ pc' = "process"
      BY <1>2, <1>3, <2>2, <3>1 DEF Process
    <3>3. Summarised(i) \/ RowFails(i) \/ RowLost(i)
      BY <2>2 DEF Process, i
    <3>4. \/ run' = [run EXCEPT !.work = @ \ {i}] /\ stored' = stored \union {i} /\ ready' \in {ready, ready \union {i}}
          \/ run' = [run EXCEPT !.work = @ \ {i}, !.errors = TRUE] /\ stored' \in {stored, stored \union {i}} /\ ready' = ready
      BY <3>3 DEF Summarised, RowFails, RowLost
    <3> QED BY <1>3, <3>1, <3>2, <3>4 DEF LocalRun
  <2> QED BY <2>1, <2>2
<1>7. HistoryTyped'
  BY <1>1, <1>2, <1>4, <1>6 DEF HistoryTyped, LocalRun, Local, Publishing, Idle
<1>8. Reading'
  <2>1. Planned'
    BY <1>2, <1>3, <1>6 DEF Planned
  <2>2. ASSUME run'.kind # "limited", Clean', NEW i \in Known, IsCovered(run.missing, listed[i].at)
        PROVE  i \in stored' \union run'.work
    <3>1. run.errors \in BOOLEAN /\ run.complete /\ ~run.errors /\ stored \union run.work \subseteq stored' \union run'.work
      BY <1>3, <1>6, <2>2 DEF Clean, LocalRun
    <3> QED BY <1>3, <1>6, <2>2, <3>1 DEF Clean
  <2>3. \A i \in Known : listed'[i].at = listed[i].at
    BY <1>2
  <2> QED BY <1>4, <1>6, <2>1, <2>2, <2>3 DEF Reading, IsCovered
<1>9. LastKnown' /\ CoveredRowsStored'
  BY <1>1, <1>2, <1>4, <1>6 DEF LastKnown, CoveredRowsStored
<1>10. MissingExact' /\ Published'
  BY <1>6 DEF MissingExact, Published, Publishing
<1> QED BY <1>5, <1>7, <1>8, <1>9, <1>10 DEF IInv

LEMMA FinishedHolds ==
  ASSUME IInv, Finished
  PROVE  IInv'
<1> DEFINE R == coverage \union Added
           after == ToSet(Normalize(R))
<1>1. ListTyped /\ Collecting /\ HistoryTyped /\ LastKnown /\ Reading /\ CoveredRowsStored
  BY DEF IInv
<1>2. /\ pc = "finish" /\ coverage' = after /\ lastRun' = {}
      /\ \/ pc' = "upsert" /\ run' = [window |-> run.window, clean |-> Clean /\ Proves(after), work |-> {}, kind |-> run.kind]
         \/ pc' = "idle" /\ run' = NoRun
      /\ now' = now /\ listed' = listed /\ col' = col /\ stored' = stored /\ ready' = ready /\ remote' = remote
  BY DEF Finished, listing, synapse
<1>3. /\ run \in LocalRun /\ run.missing \in SUBSET Ranges /\ run.window \in Ranges /\ run.complete \in BOOLEAN
      /\ run.errors \in BOOLEAN /\ run.snapshot \in Nat /\ Planned /\ run.work = {}
      /\ (run.kind # "limited" /\ Clean => \A i \in Known : IsCovered(run.missing, listed[i].at) => i \in stored)
  <2>1. run \in LocalRun
    BY <1>1, <1>2 DEF HistoryTyped, Local
  <2> QED BY <1>1, <1>2, <2>1 DEF Reading, Local, LocalRun
<1>4. now \in Nat /\ \A i \in Rows : listed[i].at \in Nat
  BY <1>1, Listings DEF ListTyped
<1>5. R \in SUBSET Ranges /\ IsFiniteSet(R) /\ \A r \in R : r.end <= now
  <2>1. Added \subseteq run.missing
    BY DEF Added
  <2>2. IsFiniteSet(Added)
    BY <1>3, <2>1, FS_Subset DEF Planned
  <2>3. \A g \in Added : g \in Ranges /\ g.end <= now
    <3>1. \A g \in run.missing : g.end \in Nat /\ g.end <= run.snapshot /\ run.snapshot <= now
      BY <1>3, PointsOf DEF Planned
    <3> QED BY <1>3, <1>4, <2>1, <3>1
  <2>4. IsFiniteSet(R)
    BY <1>1, <2>2, FS_Union DEF HistoryTyped
  <2> QED BY <1>1, <2>3, <2>4 DEF HistoryTyped
<1>6. ASSUME NEW i \in Known, IsCovered(R, listed[i].at) PROVE i \in stored
  <2>1. IsCovered(coverage, listed[i].at) \/ IsCovered(Added, listed[i].at)
    BY <1>6 DEF IsCovered
  <2>2. CASE IsCovered(coverage, listed[i].at)
    BY <1>1, <2>2 DEF CoveredRowsStored, Known
  <2>3. CASE IsCovered(Added, listed[i].at)
    BY <1>3, <2>3 DEF Added, IsCovered
  <2> QED BY <2>1, <2>2, <2>3
<1> HIDE DEF R
<1>7. /\ after \in SUBSET Ranges /\ IsFiniteSet(after) /\ \A r \in after : r.end <= now
      /\ \A t \in Int : IsCovered(after, t) <=> IsCovered(R, t)
  BY <1>4, <1>5, NormalizedSet
<1> HIDE DEF after
<1>8. Rows' = Rows /\ Known' = Known
  BY <1>2, RowsSame
<1>9. ListTyped' /\ Collecting'
  BY <1>1, <1>2, ListingKept DEF listing
<1>10. (Clean /\ Proves(after)) \in BOOLEAN
  BY <1>3 DEF Clean, Proves
<1>11. ASSUME pc' = "upsert"
       PROVE  /\ run' \in SynapseRun
              /\ run'.window = run.window /\ run'.clean = (Clean /\ Proves(after)) /\ run'.work = {}
  <2> DEFINE clean == Clean /\ Proves(after)
  <2>1. run.kind \in Kinds
    BY <1>3 DEF LocalRun
  <2>2. clean \in BOOLEAN
    BY <1>10
  <2> HIDE DEF clean
  <2>3. run' = [window |-> run.window, clean |-> clean, work |-> {}, kind |-> run.kind]
    <3>1. run' = [window |-> run.window, clean |-> Clean /\ Proves(after), work |-> {}, kind |-> run.kind]
      BY <1>2, <1>11
    <3> QED BY <3>1 DEF clean
  <2>4. run'.window = run.window /\ run'.clean = clean /\ run'.work = {}
    BY <2>3
  <2>5. run' \in SynapseRun
    BY <1>3, <2>1, <2>2, <2>3 DEF SynapseRun
  <2> QED BY <2>4, <2>5 DEF clean
<1>12. HistoryTyped'
  <2>1. SynapseRun' = SynapseRun
    BY <1>8 DEF SynapseRun
  <2> QED BY <1>1, <1>2, <1>7, <1>8, <1>11, <2>1 DEF HistoryTyped, Local, Publishing, Idle
<1>13. LastKnown' /\ MissingExact' /\ Reading'
  BY <1>2 DEF LastKnown, MissingExact, Reading, Local
<1>14. CoveredRowsStored'
  BY <1>2, <1>4, <1>6, <1>7, <1>8 DEF CoveredRowsStored, Known
<1>15. Published'
  <2>1. ASSUME Proves(after), NEW i \in Rows, Within(i, run.window) PROVE IsCovered(after, listed[i].at)
    <3>1. PICK r \in after : r.start <= run.window.start /\ run.window.end <= r.end
      BY <2>1 DEF Proves
    <3>2. /\ r.start \in Nat /\ r.end \in Nat /\ run.window.start \in Nat /\ run.window.end \in Nat
          /\ listed[i].at \in Nat
      BY <1>3, <1>4, <1>7, PointsOf
    <3> QED BY <2>1, <3>1, <3>2 DEF IsCovered, Within
  <2>2. CASE pc' = "idle"
    BY <2>2 DEF Published, Publishing
  <2>3. CASE pc' = "upsert"
    <3>1. run'.window = run.window /\ run'.clean = (Clean /\ Proves(after)) /\ run'.work = {}
      BY <1>11, <2>3
    <3>2. ASSUME run'.clean
          PROVE  \A i \in Rows : run'.window.start <= listed'[i].at /\ listed'[i].at <= run'.window.end
                                   => IsCovered(after, listed'[i].at)
      <4>1. Proves(after)
        BY <3>1, <3>2
      <4> QED BY <1>2, <2>1, <3>1, <4>1 DEF Within
    <3>3. coverage' = after /\ Rows' = Rows
      BY <1>2, <1>8
    <3> QED BY <2>3, <3>2, <3>3 DEF Published, Publishing, Within, IsCovered
  <2> QED BY <1>2, <2>2, <2>3
<1> QED BY <1>9, <1>12, <1>13, <1>14, <1>15 DEF IInv

-----------------------------------------------------------------------------
(* The steps of the publication, and the end of a run.                     *)

(* While a window is published, neither the list nor the database changes. *)
LEMMA PublishingHolds ==
  ASSUME IInv, pc \in Publishing, pc' \in Publishing, UNCHANGED <<listing, database>>,
         run' \in SynapseRun, remote' \in [1 .. MaxRows -> Statuses], Published'
  PROVE  IInv'
<1>1. ListTyped /\ Collecting /\ HistoryTyped /\ LastKnown /\ CoveredRowsStored
  BY DEF IInv
<1>2. now' = now /\ listed' = listed /\ col' = col /\ coverage' = coverage /\ stored' = stored /\ ready' = ready
      /\ lastRun' = lastRun
  BY DEF listing, database
<1>3. Rows' = Rows /\ Known' = Known /\ SynapseRun' = SynapseRun
  BY <1>2, RowsSame DEF SynapseRun
<1>4. ListTyped' /\ Collecting'
  BY <1>1, ListingKept
<1>5. pc' \notin Local /\ pc # "collect" /\ pc' # "collect"
  BY DEF Publishing, Local
<1>6. HistoryTyped'
  BY <1>1, <1>2, <1>3, <1>5 DEF HistoryTyped, Idle
<1>7. LastKnown' /\ CoveredRowsStored'
  BY <1>1, <1>2, <1>3 DEF LastKnown, CoveredRowsStored
<1>8. Reading' /\ MissingExact'
  BY <1>5 DEF Reading, MissingExact, Local
<1> QED BY <1>4, <1>6, <1>7, <1>8 DEF IInv

(* A run that ends, however it ends, leaves what the database says true.   *)
LEMMA EndHolds ==
  ASSUME IInv, pc' = "idle", col' = Idle, UNCHANGED <<now, listed, database>>,
         remote' \in [1 .. MaxRows -> Statuses]
  PROVE  IInv'
<1>1. ListTyped /\ Collecting /\ HistoryTyped /\ LastKnown /\ CoveredRowsStored
  BY DEF IInv
<1>2. now' = now /\ listed' = listed /\ coverage' = coverage /\ stored' = stored /\ ready' = ready
      /\ lastRun' = lastRun
  BY DEF database
<1>3. Rows' = Rows /\ Known' = Known
  BY <1>2, RowsSame
<1>4. ListTyped' /\ Collecting'
  BY <1>1, <1>2, IdleHolds
<1>5. HistoryTyped'
  BY <1>1, <1>2, <1>3 DEF HistoryTyped, Local, Publishing
<1>6. LastKnown' /\ CoveredRowsStored'
  BY <1>1, <1>2, <1>3 DEF LastKnown, CoveredRowsStored
<1>7. Reading' /\ MissingExact' /\ Published'
  BY DEF Reading, MissingExact, Published, Local, Publishing
<1> QED BY <1>4, <1>5, <1>6, <1>7 DEF IInv

(* A step of the publication keeps to its window, and takes from what is   *)
(* to be done only what is READY, unless the run is no longer clean.       *)
LEMMA PublishedHolds ==
  ASSUME IInv, pc \in Publishing, pc' \in Publishing, UNCHANGED <<listing, database>>,
         run' \in SynapseRun, run'.window = run.window, run'.clean => run.clean,
         remote' \in [1 .. MaxRows -> Statuses],
         pc' \in {"mark", "commit", "set_aside"} => run'.work # {},
         pc' \in {"mark", "commit", "set_aside", "verdict", "cover"} /\ run'.clean =>
           \A i \in Items : i \in run'.work \/ remote'[i] = "READY",
         pc' \in {"verdict", "cover"} => run'.work = {},
         pc' = "cover" => run'.clean
  PROVE  IInv'
<1>1. listed' = listed /\ coverage' = coverage /\ stored' = stored
  BY DEF listing, database
<1>2. Rows' = Rows
  BY <1>1 DEF Rows
<1>3. Items' = Items
  BY <1>1 DEF Items, Within
<1>4. Published
  BY DEF IInv
<1>5. pc' \in Publishing /\ run'.clean => \A i \in Rows : Within(i, run.window) => IsCovered(coverage, listed[i].at)
  BY <1>4 DEF Published
<1>6. pc' \in Publishing /\ run'.clean =>
        \A i \in Rows' : run'.window.start <= listed'[i].at /\ listed'[i].at <= run'.window.end
                         => IsCovered(coverage', listed'[i].at)
  BY <1>1, <1>2, <1>5 DEF Within
<1>7. Published'
  BY <1>3, <1>6 DEF Published, Within, IsCovered
<1> QED BY <1>7, PublishingHolds

(* What every step of the publication may use.                             *)
LEMMA PublishingFacts ==
  ASSUME IInv, pc \in Publishing
  PROVE  /\ run \in [kind : Kinds, window : Ranges, clean : BOOLEAN, work : SUBSET Rows]
         /\ run \in SynapseRun /\ col = Idle /\ Published
         /\ remote \in [1 .. MaxRows -> Statuses] /\ Rows \subseteq 1 .. MaxRows
         /\ Items \subseteq Rows
         /\ run.work # {} => Item \in run.work /\ Item \in 1 .. MaxRows
<1>1. ListTyped /\ HistoryTyped /\ Published
  BY DEF IInv
<1>2. run \in SynapseRun /\ col = Idle /\ remote \in [1 .. MaxRows -> Statuses] /\ stored \in SUBSET Rows
      /\ Len(listed) <= MaxRows
  BY <1>1 DEF HistoryTyped, Publishing
<1>3. MaxRows \in Nat /\ Len(listed) \in Nat
  BY <1>1, ListingAssumption DEF ListTyped
<1>4. Rows = 1 .. Len(listed)
  BY DEF Rows
<1>5. Rows \subseteq 1 .. MaxRows /\ Rows \subseteq Nat
  BY <1>2, <1>3, <1>4
<1>6. run.work \subseteq Rows
  BY <1>2 DEF SynapseRun
<1>7. ASSUME run.work # {} PROVE Item \in run.work
  <2>1. \E x \in run.work : \A y \in run.work : x <= y
    BY <1>5, <1>6, <1>7, LeastElement
  <2> QED BY <2>1 DEF Item, Min
<1> QED BY <1>1, <1>2, <1>5, <1>6, <1>7 DEF SynapseRun, Items

LEMMA UpsertHolds ==
  ASSUME IInv, Upsert
  PROVE  IInv'
<1>1. pc \in Publishing /\ UNCHANGED <<listing, database>>
  BY DEF Upsert, KeepLocal, Publishing
<1>2. run \in SynapseRun /\ col = Idle /\ remote \in [1 .. MaxRows -> Statuses] /\ Items \subseteq Rows
  BY <1>1, PublishingFacts
<1>3. Upserted \in [1 .. MaxRows -> Statuses]
  BY <1>2 DEF Upserted, Statuses
<1>4. CASE Done
  <2>1. remote' \in [1 .. MaxRows -> Statuses]
    BY <1>2, <1>3 DEF Upsert
  <2>2. pc' = "idle" /\ col' = Idle /\ UNCHANGED <<now, listed, database>>
    BY <1>1, <1>2, <1>4 DEF Done, listing
  <2> QED BY <2>1, <2>2, EndHolds
<1>5. CASE ~Done
  <2>1. /\ remote' = Upserted /\ pc' = (IF Items = {} THEN "verdict" ELSE "mark")
        /\ run' = [run EXCEPT !.work = Items]
    BY <1>5 DEF Upsert
  <2>2. run' \in SynapseRun /\ run'.window = run.window /\ run'.clean = run.clean /\ run'.work = Items
    BY <1>2, <2>1 DEF SynapseRun
  <2>3. pc' \in {"mark", "verdict"} /\ pc' \in Publishing
    BY <2>1 DEF Publishing
  <2> QED BY <1>1, <1>3, <2>1, <2>2, <2>3, PublishedHolds
<1> QED BY <1>4, <1>5

(* A call that is made or has failed leaves the item to be done.           *)
LEMMA ItemStays ==
  ASSUME IInv, pc \in {"mark", "commit"}, pc' \in {"commit", "set_aside"}, UNCHANGED <<listing, database, run>>,
         NEW status \in Statuses, remote' \in {remote, Set(status)}
  PROVE  IInv'
<1>1. pc \in Publishing /\ pc' \in Publishing
  BY DEF Publishing
<1>2. /\ run \in SynapseRun /\ remote \in [1 .. MaxRows -> Statuses] /\ Published
      /\ run.work # {} => Item \in run.work /\ Item \in 1 .. MaxRows
  BY <1>1, PublishingFacts
<1>3. run.work # {}
  BY <1>2 DEF Published
<1>4. remote' \in [1 .. MaxRows -> Statuses]
  BY <1>2 DEF Set
<1>5. Rows' = Rows /\ SynapseRun' = SynapseRun /\ run' = run
  <2>1. listed' = listed
    BY DEF listing
  <2> QED BY <2>1 DEF Rows, SynapseRun
<1>6. Items \subseteq Rows /\ Rows \subseteq 1 .. MaxRows
  BY <1>1, PublishingFacts
<1>7. \A i \in 1 .. MaxRows : i # Item => remote'[i] = remote[i]
  BY <1>2 DEF Set
<1>8. run.clean => \A i \in Items : i \in run.work \/ remote[i] = "READY"
  BY <1>2 DEF Published
<1>9. run'.clean => \A i \in Items : i \in run'.work \/ remote'[i] = "READY"
  BY <1>2, <1>3, <1>5, <1>6, <1>7, <1>8
<1> QED BY <1>1, <1>2, <1>3, <1>4, <1>5, <1>9, PublishedHolds

(* The item that has been dealt with is READY, or the run is not clean.    *)
LEMMA NextItemHolds ==
  ASSUME IInv, pc \in {"commit", "set_aside"}, UNCHANGED <<listing, database>>,
         \/ NextItem(FALSE) /\ remote' = Set("READY")
         \/ NextItem(TRUE) /\ (remote' = Set("PARTIAL") \/ remote' = remote)
  PROVE  IInv'
<1> DEFINE left == run.work \ {Item}
<1>1. pc \in Publishing
  BY DEF Publishing
<1>2. /\ run \in SynapseRun /\ remote \in [1 .. MaxRows -> Statuses] /\ Published
      /\ Items \subseteq Rows /\ Rows \subseteq 1 .. MaxRows
      /\ run.work # {} => Item \in run.work /\ Item \in 1 .. MaxRows
  BY <1>1, PublishingFacts
<1>3. run.work # {}
  BY <1>2 DEF Published
<1>4. /\ pc' = IF left = {} THEN "verdict" ELSE "mark"
      /\ \/ run' = [run EXCEPT !.work = left, !.clean = @ /\ ~FALSE] /\ remote' = Set("READY")
         \/ run' = [run EXCEPT !.work = left, !.clean = @ /\ ~TRUE]
  BY DEF NextItem
<1>5. left \subseteq run.work /\ \A i \in run.work : i \in left \/ i = Item
  OBVIOUS
<1> HIDE DEF left
<1>6. /\ run'.window = run.window /\ run'.work = left /\ run' \in SynapseRun
      /\ run'.clean => run.clean /\ remote' = Set("READY")
  <2>1. CASE run' = [run EXCEPT !.work = left, !.clean = @ /\ ~FALSE] /\ remote' = Set("READY")
    BY <1>2, <1>5, <2>1 DEF SynapseRun
  <2>2. CASE run' = [run EXCEPT !.work = left, !.clean = @ /\ ~TRUE]
    BY <1>2, <1>5, <2>2 DEF SynapseRun
  <2> QED BY <1>4, <2>1, <2>2
<1>7. remote' \in [1 .. MaxRows -> Statuses]
  BY <1>2 DEF Set, Statuses
<1>8. ASSUME run'.clean, NEW i \in Items PROVE i \in left \/ remote'[i] = "READY"
  <2>1. run.clean /\ remote' = [remote EXCEPT ![Item] = "READY"]
    BY <1>6, <1>8 DEF Set
  <2>2. i \in run.work \/ remote[i] = "READY"
    BY <1>1, <1>2, <2>1 DEF Published
  <2> QED BY <1>2, <1>3, <1>5, <2>1, <2>2
<1>9. pc' \in {"mark", "verdict"} /\ pc' \in Publishing
  BY <1>4 DEF Publishing
<1> QED BY <1>1, <1>4, <1>6, <1>7, <1>8, <1>9, PublishedHolds

LEMMA ItemStepHolds ==
  ASSUME IInv, Mark \/ MarkRefused \/ Commit \/ SetAside
  PROVE  IInv'
<1>1. CASE Mark
  <2>1. /\ pc = "mark" /\ pc' \in {"commit", "set_aside"} /\ UNCHANGED <<listing, database, run>>
        /\ remote' \in {remote, Set("ANALYZING")} /\ "ANALYZING" \in Statuses
    BY <1>1 DEF Mark, Call, KeepLocal, Statuses
  <2> QED BY <2>1, ItemStays
<1>2. CASE MarkRefused
  <2>1. /\ pc = "mark" /\ pc' = "set_aside" /\ UNCHANGED <<listing, database, run>>
        /\ remote' \in {remote, Set("ANALYZING")} /\ "ANALYZING" \in Statuses
    BY <1>2 DEF MarkRefused, synapse, Statuses
  <2> QED BY <2>1, ItemStays
<1>3. CASE Commit
  <2>1. pc = "commit" /\ UNCHANGED <<listing, database>> /\ "READY" \in Statuses
    BY <1>3 DEF Commit, Call, KeepLocal, Statuses
  <2>2. CASE remote' = Set("READY") /\ NextItem(FALSE)
    BY <2>1, <2>2, NextItemHolds
  <2>3. CASE remote' \in {remote, Set("READY")} /\ pc' = "set_aside" /\ UNCHANGED run
    BY <2>1, <2>3, ItemStays
  <2> QED BY <1>3, <2>2, <2>3 DEF Commit, Call
<1>4. CASE SetAside
  <2>1. /\ pc = "set_aside" /\ UNCHANGED <<listing, database>> /\ NextItem(TRUE)
        /\ remote' = Set("PARTIAL") \/ remote' = remote
    BY <1>4 DEF SetAside, KeepLocal
  <2> QED BY <2>1, NextItemHolds
<1> QED BY <1>1, <1>2, <1>3, <1>4

LEMMA VerdictHolds ==
  ASSUME IInv, Verdict \/ CommitCoverage \/ Recant
  PROVE  IInv'
<1>1. pc \in {"verdict", "cover", "recant"} /\ UNCHANGED <<listing, database, remote>>
  BY DEF Verdict, CommitCoverage, Recant, KeepLocal
<1>2. pc \in Publishing
  BY <1>1 DEF Publishing
<1>3. /\ run \in SynapseRun /\ col = Idle /\ remote \in [1 .. MaxRows -> Statuses] /\ Published
  BY <1>2, PublishingFacts
<1>4. CASE Done
  <2>1. pc' = "idle" /\ col' = Idle /\ UNCHANGED <<now, listed, database>> /\ remote' \in [1 .. MaxRows -> Statuses]
    BY <1>1, <1>3, <1>4 DEF Done, listing
  <2> QED BY <2>1, EndHolds
<1>5. CASE ~Done
  <2>1. run' = run /\ \/ pc = "verdict" /\ pc' = "cover" /\ run.clean
                      \/ pc = "cover" /\ pc' = "recant"
    BY <1>5 DEF Verdict, CommitCoverage, Recant
  <2>2. SynapseRun' = SynapseRun
    <3>1. listed' = listed
      BY <1>1 DEF listing
    <3> QED BY <3>1 DEF SynapseRun, Rows
  <2>3. pc' \in Publishing
    BY <2>1 DEF Publishing
  <2>4. /\ pc' = "cover" => run'.work = {} /\ run'.clean /\ \A i \in Items : i \in run'.work \/ remote'[i] = "READY"
        /\ pc' \in {"cover", "recant"}
    BY <1>1, <1>3, <2>1 DEF Published
  <2> QED BY <1>1, <1>2, <1>3, <2>1, <2>3, <2>4, PublishedHolds
<1> QED BY <1>4, <1>5

LEMMA AbortHolds ==
  ASSUME IInv, Abort
  PROVE  IInv'
<1>1. pc' = "idle" /\ col' = Idle /\ UNCHANGED <<now, listed, database, remote>>
  BY DEF Abort
<1>2. remote' \in [1 .. MaxRows -> Statuses]
  BY <1>1 DEF IInv, HistoryTyped
<1> QED BY <1>1, <1>2, EndHolds

-----------------------------------------------------------------------------
(* The specification.                                                      *)

LEMMA InitHolds ==
  ASSUME Init
  PROVE  IInv
<1>1. /\ MaxRows \in Nat \ {0} /\ MaxTime \in Nat
  BY ListingAssumption
<1>2. listed \in Seq([at : Nat, ticker : Tickers]) /\ Len(listed) <= 1 /\ \A i \in Rows : listed[i].at = 0
  <2>1. PICK m \in 0 .. 1 : listed \in [1 .. m -> [at : {0}, ticker : Tickers]]
    BY DEF Init, BoundedSeq, SeqOf
  <2>2. m \in Nat /\ m <= 1
    BY <2>1
  <2>3. \A i \in 1 .. m : listed[i] \in [at : Nat, ticker : Tickers] /\ listed[i].at = 0
    BY <2>1
  <2>4. listed = [i \in 1 .. m |-> listed[i]]
    BY <2>1
  <2>5. listed \in [1 .. m -> [at : Nat, ticker : Tickers]]
    BY <2>3, <2>4
  <2>6. \A S : \A f \in [1 .. m -> S] : f \in Seq(S) /\ Len(f) = m
    BY <2>2
  <2> QED BY <2>2, <2>3, <2>5, <2>6 DEF Rows
<1>5. /\ now = 0 /\ col = Idle /\ coverage = {} /\ ready = {} /\ pc = "idle"
      /\ remote = [i \in 1 .. MaxRows |-> "none"]
  BY DEF Init
<1>6. ListTyped
  BY <1>2, <1>5 DEF ListTyped
<1>7. Collecting
  BY <1>5 DEF Collecting, Working, Lanes, Idle, ListingComplete
<1>8. stored \in SUBSET Rows
  BY DEF Init
<1>9. HistoryTyped
  <2>1. IsFiniteSet(coverage)
    BY <1>5, FS_EmptySet
  <2>2. remote \in [1 .. MaxRows -> Statuses]
    BY <1>5 DEF Statuses
  <2>3. Len(listed) <= MaxRows
    BY <1>1, <1>2
  <2> QED BY <1>5, <1>8, <2>1, <2>2, <2>3 DEF HistoryTyped, Local, Publishing
<1>10. LastKnown
  <2>1. CASE lastRun = {}
    BY <2>1 DEF LastKnown
  <2>2. CASE \E end \in 0 .. MaxTime : lastRun = {[start |-> 0, end |-> end, snapshot |-> 0]} /\ stored = Rows
    BY <1>1, <2>2 DEF LastKnown
  <2> QED BY <2>1, <2>2 DEF Init
<1>11. Reading /\ MissingExact /\ CoveredRowsStored /\ Published
  BY <1>5 DEF Reading, MissingExact, CoveredRowsStored, Published, Local, Publishing, IsCovered
<1> QED BY <1>6, <1>7, <1>9, <1>10, <1>11 DEF IInv

LEMMA StutterHolds ==
  ASSUME IInv, UNCHANGED vars
  PROVE  IInv'
<1>1. ListTyped /\ Collecting /\ HistoryTyped /\ LastKnown /\ Reading /\ MissingExact /\ CoveredRowsStored /\ Published
  BY DEF IInv
<1>2. /\ now' = now /\ listed' = listed /\ col' = col /\ coverage' = coverage /\ stored' = stored /\ ready' = ready
      /\ lastRun' = lastRun /\ pc' = pc /\ run' = run /\ remote' = remote /\ UNCHANGED listing
  BY DEF vars, listing, database, synapse
<1>3. Rows' = Rows /\ Known' = Known
  BY <1>2, RowsSame
<1>4. ListTyped' /\ Collecting'
  BY <1>1, <1>2, ListingKept
<1>5. HistoryTyped'
  <2>1. SynapseRun' = SynapseRun /\ LocalRun' = LocalRun
    BY <1>3 DEF SynapseRun, LocalRun
  <2> QED BY <1>1, <1>2, <1>3, <2>1 DEF HistoryTyped, Idle
<1>6. LastKnown' /\ CoveredRowsStored'
  BY <1>1, <1>2, <1>3 DEF LastKnown, CoveredRowsStored
<1>7. Reading'
  <2>1. Planned' = Planned /\ Clean' = Clean /\ \A g : Queued(g)' = Queued(g)
    BY <1>2 DEF Planned, Clean, Queued
  <2>2. \A g : Fetched(g)' = Fetched(g)
    BY <1>2, <1>3 DEF Fetched, InGap
  <2>3. Due(Head(run.queries))' = Due(Head(run.queries))
    BY <1>2, <1>3 DEF Due, DayOf
  <2> QED BY <1>1, <1>2, <1>3, <2>1, <2>2, <2>3 DEF Reading
<1>8. MissingExact'
  BY <1>1, <1>2 DEF MissingExact
<1>9. Published'
  <2>1. Items' = Items
    BY <1>2 DEF Items, Within
  <2> QED BY <1>1, <1>2, <1>3, <2>1 DEF Published, Within
<1> QED BY <1>4, <1>5, <1>6, <1>7, <1>8, <1>9 DEF IInv

(* Every reachable state satisfies the inductive invariant: the collector  *)
(* has what is behind it or knows that it has not, every gap of the run    *)
(* has been asked for or will be, and what is called covered is stored.    *)
THEOREM Invariance == Spec => []IInv
<1>1. Init => IInv
  BY InitHolds
<1>2. IInv /\ [Step]_vars => IInv'
  <2> SUFFICES ASSUME IInv, [Step]_vars PROVE IInv'
    OBVIOUS
  <2>1. CASE Listing
    BY <2>1, ListingHolds
  <2>2. CASE Start
    BY <2>2, StartHolds DEF Start
  <2>3. CASE RangeCollected
    BY <2>3, RangeCollectedHolds
  <2>4. CASE RowsFiltered
    BY <2>4, RowsFilteredHolds
  <2>5. CASE Process \/ Processed
    BY <2>5, ProcessHolds
  <2>6. CASE Finished
    BY <2>6, FinishedHolds
  <2>7. CASE Upsert
    BY <2>7, UpsertHolds
  <2>8. CASE Mark \/ MarkRefused \/ Commit \/ SetAside
    BY <2>8, ItemStepHolds
  <2>9. CASE Verdict \/ CommitCoverage \/ Recant
    BY <2>9, VerdictHolds
  <2>10. CASE Abort
    BY <2>10, AbortHolds
  <2>11. CASE UNCHANGED vars
    BY <2>11, StutterHolds
  <2> QED BY <2>1, <2>2, <2>3, <2>4, <2>5, <2>6, <2>7, <2>8, <2>9, <2>10, <2>11 DEF Step
<1> QED BY <1>1, <1>2, PTL DEF Spec

(* A collection that calls itself complete has every row of the stock      *)
(* master that was listed when it began, whatever was listed meanwhile and *)
(* whatever pages came back empty or capped (idx_client.py:466).           *)
THEOREM ListingIsComplete == Spec => []ListingComplete
<1>1. IInv => ListingComplete
  BY DEF IInv, Collecting
<1> QED BY <1>1, Invariance, PTL

(* A stock's announcement at a covered instant is in the database, over    *)
(* any number of runs of any kind, their failures and the ends of the      *)
(* process (pipeline.py:1224, 1473).                                       *)
THEOREM CoverageIsStored == Spec => []CoveredRowsStored
<1>1. IInv => CoveredRowsStored
  BY DEF IInv
<1> QED BY <1>1, Invariance, PTL

(* The gaps a run asks for and the ranges that were covered when it began  *)
(* are together the window it was asked for, and have boundaries in common *)
(* only (incremental.py:47).                                               *)
THEOREM GapsAreExact == Spec => []MissingExact
<1>1. IInv => MissingExact
  BY DEF IInv
<1> QED BY <1>1, Invariance, PTL

(* A window is committed to Synapse only in a step that finds every        *)
(* announcement of a stock in it READY there (synapse_pipeline.py:473).    *)
THEOREM RemoteIsBacked == Spec => RemoteCoverageBacked
<1>1. IInv /\ [Step]_vars =>
        [\A window \in remoteCoverage' \ remoteCoverage, i \in Rows :
           listed[i].ticker \in Master /\ Within(i, window) => remote[i] = "READY"]_vars
  <2> SUFFICES ASSUME IInv, Step, NEW window \in remoteCoverage' \ remoteCoverage, NEW i \in Rows,
                      listed[i].ticker \in Master, Within(i, window)
               PROVE  remote[i] = "READY"
    OBVIOUS
  <2>1. CommitCoverage
    BY DEF Step, Listing, Start, StartRun, RangeCollected, RowsFiltered, Process, Processed, Finished, Upsert, Mark,
           MarkRefused, Call, Commit, SetAside, Verdict, Recant, Abort, synapse
  <2>2. pc = "cover" /\ window = run.window
    BY <2>1 DEF CommitCoverage
  <2>3. Published /\ CoveredRowsStored
    BY DEF IInv
  <2>4. run.clean /\ run.work = {}
    BY <2>2, <2>3 DEF Published
  <2>5. IsCovered(coverage, listed[i].at)
    BY <2>2, <2>3, <2>4 DEF Published, Publishing
  <2>6. i \in Items
    BY <2>2, <2>3, <2>5 DEF CoveredRowsStored, Items
  <2> QED BY <2>2, <2>3, <2>4, <2>6 DEF Published
<1> QED BY <1>1, Invariance, PTL DEF Spec, RemoteCoverageBacked
=============================================================================
