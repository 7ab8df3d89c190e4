------------------------- MODULE AnnouncementListing -------------------------
(***************************************************************************)
(* The exchange's list of announcements and the collector that pages       *)
(* through it (idx_client.py).  The endpoint knows whole days only, lists  *)
(* the newest row first and grows at that end while it is read; it has     *)
(* been seen to return an empty page in the middle of a list, to cap a     *)
(* wide page and to report a total that is too large.  The collector goes  *)
(* from pages over the whole range to one wide page, to single days, to a  *)
(* wide page for the day, and, in an audit, to the tickers of the stock    *)
(* master.                                                                 *)
(*                                                                         *)
(* A page is never shorter than asked for unless the list ends, up to the  *)
(* normal page size, and no row is withdrawn or listed late: what the      *)
(* collector takes for granted.                                            *)
(***************************************************************************)
EXTENDS Integers, Sequences, FiniteSets, SequencesExt, FiniteSetsExt

CONSTANTS Tickers, Master,     \* all tickers, those of the stock master
          MaxTime, DayLength,
          MaxRows,             \* bound on rows
          PageSize,            \* idx_page_size
          ProbeBase, ProbeMax  \* idx_wide_page_probe_size, ..._max_size

ASSUME ListingAssumption ==
  /\ Master \subseteq Tickers
  /\ {MaxRows, DayLength, PageSize, ProbeBase, ProbeMax} \subseteq Nat \ {0}
  /\ MaxTime \in Nat

VARIABLES
  now,
  listed,   \* the rows in the order they were listed, [at, ticker]
  col       \* the collector

Rows == 1 .. Len(listed)
Day(t) == t \div DayLength

Idle == [lane |-> "idle"]

(* The server's list for a query, newest first: the ids, and where one of  *)
(* them stands.                                                            *)
List(days, ticker) ==
  {i \in Rows : Day(listed[i].at) \in days /\ ticker \in {"ALL", listed[i].ticker}}

Position(i, list) == Cardinality({j \in list : i <= j})

-----------------------------------------------------------------------------
(* Time passes, and what was announced in the meantime is listed.          *)
Publish ==
  /\ now < MaxTime
  /\ now' = now + 1
  /\ \E batch \in BoundedSeq(Tickers, MaxRows - Len(listed)) :
       listed' = listed \o [i \in DOMAIN batch |-> [at |-> now + 1, ticker |-> batch[i]]]
  /\ UNCHANGED col

-----------------------------------------------------------------------------
(* collect_announcements.                                                  *)

Lane(lane, size) == [col EXCEPT !.lane = lane, !.size = size, !.offset = 0, !.seen = {}]

Started(days, probe, fanout) ==
  [lane |-> "primary", days |-> days, size |-> PageSize, offset |-> 0, seen |-> {},
   probe |-> probe, fanout |-> fanout,
   day |-> Min(days), tickers |-> {}, all |-> {}, short |-> {},
   due |-> {i \in Rows : Day(listed[i].at) \in days}]

Finish(items, complete) ==
  [lane |-> "done", items |-> items, complete |-> complete, due |-> col.due]

Scope == IF col.lane \in {"primary", "wide"} THEN col.days ELSE {col.day}
Shard == IF col.lane = "ticker" THEN CHOOSE t \in col.tickers : TRUE ELSE "ALL"

FirstDay == Lane("day", PageSize)

NextDay(all, short) ==
  IF col.day = Max(col.days) THEN Finish(all, short = {})
  ELSE [FirstDay EXCEPT !.day = @ + 1, !.all = all, !.short = short, !.tickers = {}]

(* _wide_page_probe asks for one page with everything that was reported.   *)
ProbeUseful(reported) == col.probe /\ ProbeMax > PageSize /\ reported <= ProbeMax
Probe(lane, reported) == Lane(lane, Min({ProbeMax, Max({ProbeBase, reported})}))

(* The rows of a day that could not be listed are dropped, unless the      *)
(* stock master names the tickers to ask for.                              *)
FanOut(master) ==
  IF col.fanout /\ master # {}
  THEN [Lane("ticker", PageSize) EXCEPT !.tickers = master]
  ELSE NextDay(col.all, col.short \union {col.day})

TickerDone(items, complete) ==
  LET all == col.all \union items
      short == IF complete THEN col.short ELSE col.short \union {col.day}
      left == col.tickers \ {Shard}
  IN IF left = {} THEN NextDay(all, short)
     ELSE [Lane("ticker", PageSize) EXCEPT !.tickers = left, !.all = all, !.short = short]

(* Mutant of Proven: a short page is the end of the list here too.         *)
ProvenByShortPage(items, complete, reported) == complete

(* A wide page proves nothing if it has fewer rows than were reported.     *)
Proven(items, complete, reported) == complete /\ reported <= Cardinality(items)

ShardDone(items, complete, reported, master) ==
  CASE col.lane = "primary" /\ complete -> Finish(items, TRUE)
    [] col.lane = "primary" /\ ~complete /\ ProbeUseful(reported) -> Probe("wide", reported)
    [] col.lane = "primary" /\ ~complete /\ ~ProbeUseful(reported) -> FirstDay
    [] col.lane = "wide" -> IF Proven(items, complete, reported) THEN Finish(items, TRUE) ELSE FirstDay
    [] col.lane = "day" /\ complete -> NextDay(col.all \union items, col.short)
    [] col.lane = "day" /\ ~complete /\ ProbeUseful(reported) -> Probe("day_wide", reported)
    [] col.lane = "day" /\ ~complete /\ ~ProbeUseful(reported) -> FanOut(master)
    [] col.lane = "day_wide" -> IF Proven(items, complete, reported)
                                THEN NextDay(col.all \union items, col.short) ELSE FanOut(master)
    [] col.lane = "ticker" -> TickerDone(items, complete)

-----------------------------------------------------------------------------
(* _collect_range_once, a page at a time.                                  *)

Paging == col.lane \in {"primary", "wide", "day", "day_wide", "ticker"}

Slice(list, size) ==
  {i \in list : col.offset < Position(i, list) /\ Position(i, list) <= col.offset + size}

(* A page as the list has it, an empty one behind the first, a capped one. *)
Replies(list) ==
  {Slice(list, col.size)}
  \union (IF col.offset > 0 THEN {{}} ELSE {})
  \union (IF col.size > PageSize THEN {Slice(list, PageSize)} ELSE {})

Reported(total, replies) == IF total = 0 THEN Cardinality(replies) ELSE total

PageRead(replies, reported, master) ==
  LET seen == col.seen \union replies
      offset == col.offset + Cardinality(replies)
  IN IF replies = {} THEN ShardDone(seen, offset = 0 \/ offset >= reported, reported, master)
     ELSE IF Cardinality(replies) < col.size \/ offset >= reported THEN ShardDone(seen, TRUE, reported, master)
     ELSE [col EXCEPT !.seen = seen, !.offset = offset]

Page ==
  /\ Paging
  /\ LET list == List(Scope, Shard)
     IN \E replies \in Replies(list), total \in {Cardinality(list), Cardinality(list) + 1}, master \in {Master, {}} :
          col' = PageRead(replies, Reported(total, replies), master)
  /\ UNCHANGED <<now, listed>>

(* The request fails for good: retries are spent, the source refuses it.   *)
PageFails ==
  /\ Paging
  /\ col' = Finish({}, FALSE)
  /\ UNCHANGED <<now, listed>>

-----------------------------------------------------------------------------
(* A collection that calls itself complete has every row that was listed   *)
(* when it began, whatever arrived meanwhile and whatever pages came back  *)
(* empty or capped; the tickers outside the stock master are not its       *)
(* business (collect_announcements, idx_client.py:466).                    *)
ListingComplete ==
  col.lane = "done" /\ col.complete =>
    \A i \in col.due : listed[i].ticker \in Master => i \in col.items
=============================================================================
