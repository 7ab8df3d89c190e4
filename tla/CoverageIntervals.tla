--------------------------- MODULE CoverageIntervals ---------------------------
(***************************************************************************)
(* The interval algebra of incremental.py.  A range [start, end] holds     *)
(* every instant between its boundaries, both included.  Boundaries are    *)
(* integers; as instants lie densely between two of them, Points numbers   *)
(* the boundaries by the even numbers and the open segments between        *)
(* neighbours by the odd ones.                                             *)
(***************************************************************************)
EXTENDS Integers, SequencesExt, FiniteSetsExt

IsRange(r) == r.start <= r.end

Points(r) == (2 * r.start) .. (2 * r.end)
AllPoints(ranges) == UNION {Points(r) : r \in ranges}

Before(r, s) == \/ r.start < s.start
                \/ r.start = s.start /\ r.end < s.end

(* normalize_coverage_ranges: sorted, and merged where they overlap or     *)
(* touch.                                                                  *)
Merged(done, r) ==
  IF done # <<>> /\ r.start <= Last(done).end
  THEN [done EXCEPT ![Len(done)].end = Max({@, r.end})]
  ELSE Append(done, r)

Sorted(ranges) ==
  CHOOSE s \in [1 .. Cardinality(ranges) -> ranges] : \A i, j \in DOMAIN s : i < j => Before(s[i], s[j])

Normalize(ranges) ==
  LET sorted == Sorted(ranges)
      merged[n \in 0 .. Cardinality(ranges)] == IF n = 0 THEN <<>> ELSE Merged(merged[n - 1], sorted[n])
  IN merged[Cardinality(ranges)]

(* Mutant of CursorStep: a gap begins an offset after the covered boundary.*)
CursorStepOffset(requested, s, existing) ==
  IF s.stopped \/ existing.end < requested.start \/ existing.end < s.cursor THEN s
  ELSE IF existing.start > requested.end THEN [s EXCEPT !.stopped = TRUE]
  ELSE LET next == Max({s.cursor, existing.end})
       IN [missing |-> IF existing.start > s.cursor + 1
                       THEN s.missing \union {[start |-> s.cursor + 1, end |-> existing.start]}
                       ELSE s.missing,
           cursor |-> next, covered |-> TRUE, stopped |-> next >= requested.end]

(* subtract_coverage: a cursor moves over the requested range from one     *)
(* covered range to the next; what lies between is missing, together with  *)
(* the boundaries.                                                         *)
CursorStep(requested, s, existing) ==
  IF s.stopped \/ existing.end < requested.start \/ existing.end < s.cursor THEN s
  ELSE IF existing.start > requested.end THEN [s EXCEPT !.stopped = TRUE]
  ELSE LET gap == [start |-> s.cursor, end |-> Min({existing.start, requested.end})]
           next == Max({s.cursor, existing.end})
       IN [missing |-> IF existing.start > s.cursor THEN s.missing \union {gap} ELSE s.missing,
           cursor  |-> next,
           covered |-> existing.start <= next /\ next <= existing.end,
           stopped |-> next >= requested.end]

Uncovered(requested) == [missing |-> {}, cursor |-> requested.start, covered |-> FALSE, stopped |-> FALSE]

Subtract(requested, covered) ==
  LET ranges == Normalize(covered)
      scan[n \in 0 .. Len(ranges)] == IF n = 0 THEN Uncovered(requested) ELSE CursorStep(requested, scan[n - 1], ranges[n])
      s == scan[Len(ranges)]
      atEnd == s.cursor = requested.end /\ ~s.covered
  IN IF s.cursor < requested.end \/ atEnd
     THEN s.missing \union {[start |-> s.cursor, end |-> requested.end]}
     ELSE s.missing

(* coverage_contains.                                                      *)
IsCovered(ranges, instant) == \E r \in ranges : r.start <= instant /\ instant <= r.end
=============================================================================
