---------------------------- MODULE CoverageHistory ----------------------------
(***************************************************************************)
(* Which part of the exchange's history has been read: the scrape coverage *)
(* a pipeline run plans from and adds to (pipeline.py, db.py), and the     *)
(* Synapse run that publishes a window and commits it as covered           *)
(* (synapse_pipeline.py).  A run asks the collector of AnnouncementListing *)
(* for the gaps of its window, processes the rows and, if nothing went     *)
(* wrong, calls the gaps covered; no later run asks for them again.        *)
(*                                                                         *)
(* What happens to a row between the listing and its summary is            *)
(* PreparationPipeline's subject and one step here.                        *)
(***************************************************************************)
EXTENDS CoverageIntervals, AnnouncementListing

CONSTANTS Overlap,   \* IDX_INCREMENTAL_OVERLAP_DAYS, in instants
          Kinds,     \* of runs
          Windows,   \* a run may be asked for
          MaxFaults, \* bound on calls and steps that fail, and on ends of the process
          MaxRuns    \* bound on runs

ASSUME HistoryAssumption ==
  /\ {Overlap, MaxFaults, MaxRuns} \subseteq Nat
  /\ Kinds \subseteq {"incremental", "historical_audit", "limited", "synapse"}
  /\ \A w \in Windows : w \in [start : 0 .. MaxTime, end : 0 .. MaxTime] /\ IsRange(w)

VARIABLES
  (* The checkpoint database and the last report.                          *)
  coverage,        \* scrape_coverage_ranges
  stored,          \* announcements
  ready,           \* those with a valid summary
  lastRun,         \* what last_run.json proves: ranges
  (* The process.                                                          *)
  pc, run,
  (* Synapse.                                                              *)
  remote,          \* processing status of the disclosures
  remoteRun,       \* status of the last run
  remoteCoverage,  \* windows committed
  (* Bounds.                                                               *)
  runs, faults

listing == <<now, listed, col>>
database == <<coverage, stored, ready, lastRun>>
synapse == <<remote, remoteRun, remoteCoverage>>
bounds == <<runs, faults>>
vars == <<listing, database, pc, run, synapse, bounds>>

NoRun == [kind |-> "none"]
Within(i, window) == window.start <= listed[i].at /\ listed[i].at <= window.end

(* Before the first run: at most one row, and perhaps the report of an     *)
(* older version whose window reached beyond the time it was made.         *)
Init ==
  /\ now = 0
  /\ listed \in BoundedSeq([at : {0}, ticker : Tickers], 1)
  /\ col = Idle
  /\ coverage = {} /\ ready = {}
  /\ \/ lastRun = {} /\ stored = {}
     \/ \E end \in 0 .. MaxTime :
          lastRun = {[start |-> 0, end |-> end, snapshot |-> 0]} /\ stored = Rows
  /\ pc = "idle" /\ run = NoRun
  /\ remote = [i \in 1 .. MaxRows |-> "none"] /\ remoteRun = "none" /\ remoteCoverage = {}
  /\ runs = 0 /\ faults = 0

Fault == faults < MaxFaults /\ faults' = faults + 1 /\ UNCHANGED runs
NoFault == UNCHANGED bounds

-----------------------------------------------------------------------------
(* The plan of a run.                                                      *)

Incremental(kind) == kind \in {"incremental", "synapse"}

(* _successful_coverage_from_reports: the end is cut at the poll.          *)
Recovered ==
  {[start |-> r.start, end |-> Min({r.end, r.snapshot})] : r \in {p \in lastRun : p.start <= p.snapshot}}

Migrated == ToSet(Normalize(coverage \union Recovered))

Pollable(window) ==
  IF window.start <= now THEN {[window EXCEPT !.end = Min({@, now})]} ELSE {}

Missing(kind, window, before) ==
  IF Incremental(kind) THEN UNION {Subtract(p, before) : p \in Pollable(window)} ELSE Pollable(window)

Query(kind, window, gap) ==
  IF Incremental(kind) THEN [gap EXCEPT !.start = Max({window.start, @ - Overlap})] ELSE gap

(* IDXClient pages by day; the Synapse runner's has no wide page.          *)
Collector(query, kind) ==
  Started(Day(query.start) .. Day(query.end), kind # "synapse", kind = "historical_audit")

StartRun(kind, window) ==
  LET before == IF Incremental(kind) THEN Migrated ELSE coverage
      missing == Missing(kind, window, before)
      queries == SetToSeq({Query(kind, window, gap) : gap \in missing})
  IN /\ pc = "idle" /\ runs < MaxRuns
     /\ runs' = runs + 1
     /\ coverage' = before
     /\ run' = [kind |-> kind, window |-> window, before |-> before, missing |-> missing,
                snapshot |-> now, queries |-> queries, raw |-> {}, complete |-> TRUE, errors |-> FALSE, work |-> {}]
     /\ IF missing = {} THEN pc' = "finish" /\ col' = Idle
        ELSE pc' = "collect" /\ col' = Collector(Head(queries), kind)
     /\ remoteRun' = IF kind = "synapse" THEN "RUNNING" ELSE "none"
     /\ UNCHANGED <<now, listed, stored, ready, lastRun, remote, remoteCoverage, faults>>

-----------------------------------------------------------------------------
(* Collection and the choice of rows.                                      *)

RangeCollected ==
  /\ pc = "collect" /\ col.lane = "done"
  /\ LET left == Tail(run.queries)
     IN /\ run' = [run EXCEPT !.queries = left, !.raw = @ \union col.items, !.complete = @ /\ col.complete]
        /\ IF left = <<>> THEN pc' = "filter" /\ col' = Idle
           ELSE pc' = pc /\ col' = Collector(Head(left), run.kind)
  /\ UNCHANGED <<now, listed, database, synapse, bounds>>

(* Mutant of Trusted: everything below one high watermark is known.        *)
TrustedByWatermark(i) ==
  Incremental(run.kind) /\ \E r \in run.before : listed[i].at <= r.end

(* Rows of a neighbouring day that are covered are known.                  *)
Trusted(i) == Incremental(run.kind) /\ IsCovered(run.before, listed[i].at)

Cached(i) == run.kind # "historical_audit" /\ i \in ready
Unlisted(i, master) == master # {} /\ listed[i].ticker \notin master

RowsFiltered ==
  /\ pc = "filter"
  /\ \E master \in {Master, {}} :
       LET rows == {i \in run.raw : Within(i, run.window) /\ ~Trusted(i) /\ ~Cached(i) /\ ~Unlisted(i, master)}
       IN \E work \in (IF run.kind = "limited" THEN SUBSET rows ELSE {rows}) :
            run' = [run EXCEPT !.raw = {}, !.work = work, !.errors = ~run.complete]
  /\ pc' = "process"
  /\ UNCHANGED <<listing, database, synapse, bounds>>

-----------------------------------------------------------------------------
(* Rows, and the verdict.                                                  *)

Summarised(i) ==
  /\ stored' = stored \union {i} /\ ready' = ready \union {i}
  /\ run' = [run EXCEPT !.work = @ \ {i}]
  /\ NoFault

(* An error is recorded, before or after the row was stored.               *)
RowFails(i) ==
  /\ Fault
  /\ stored' \in {stored, stored \union {i}} /\ UNCHANGED ready
  /\ run' = [run EXCEPT !.work = @ \ {i}, !.errors = TRUE]

(* A completion hook of its documents raised, which is only logged: there  *)
(* is no summary, and no error of the run.                                 *)
RowLost(i) ==
  /\ Fault
  /\ stored' = stored \union {i} /\ UNCHANGED ready
  /\ run' = [run EXCEPT !.work = @ \ {i}]

Process ==
  /\ pc = "process" /\ run.work # {}
  /\ LET i == Max(run.work) IN Summarised(i) \/ RowFails(i) \/ RowLost(i)
  /\ UNCHANGED <<listing, coverage, lastRun, pc, synapse>>

Processed ==
  /\ pc = "process" /\ run.work = {}
  /\ pc' = "finish"
  /\ UNCHANGED <<listing, database, run, synapse, bounds>>

Clean == run.complete /\ ~run.errors
Added == IF run.kind # "limited" /\ Clean THEN run.missing ELSE {}
Deferred == run.window.end > run.snapshot

(* Mutant of Proves: a window that reaches beyond the poll is proven.      *)
ProvesListed(after) == run.complete

(* _report_proves_window.                                                  *)
Proves(after) ==
  ~Deferred /\ run.complete /\ \E r \in after : r.start <= run.window.start /\ run.window.end <= r.end

(* The report that is written replaces the last one; what it proves is in  *)
(* the database already.                                                   *)
Finished ==
  LET after == ToSet(Normalize(coverage \union Added))
  IN /\ pc = "finish"
     /\ coverage' = after
     /\ lastRun' = {}
     /\ IF run.kind = "synapse"
        THEN pc' = "upsert" /\ run' = [window |-> run.window, clean |-> Clean /\ Proves(after), work |-> {}, kind |-> run.kind]
        ELSE pc' = "idle" /\ run' = NoRun
     /\ UNCHANGED <<listing, stored, ready, synapse, bounds>>

-----------------------------------------------------------------------------
(* SynapsePublisher.publish_window and the end of run_window.  A call may  *)
(* fail, and what failed may have been applied.                            *)

Done == pc' = "idle" /\ run' = NoRun
KeepLocal == UNCHANGED <<listing, database>>

Items == {i \in stored : Within(i, run.window)}

Upserted == [i \in DOMAIN remote |-> IF i \in Items /\ remote[i] = "none" THEN "DISCOVERED" ELSE remote[i]]

Upsert ==
  /\ pc = "upsert"
  /\ \/ remote' = Upserted /\ UNCHANGED remoteRun
        /\ pc' = (IF Items = {} THEN "verdict" ELSE "mark")
        /\ run' = [run EXCEPT !.work = Items]
        /\ NoFault
     \/ Fault /\ remote' \in {remote, Upserted} /\ remoteRun' \in {remoteRun, "FAILED"} /\ Done
  /\ UNCHANGED remoteCoverage
  /\ KeepLocal

Item == Min(run.work)
Set(status) == [remote EXCEPT ![Item] = status]
NextItem(errors) ==
  LET left == run.work \ {Item}
  IN /\ run' = [run EXCEPT !.work = left, !.clean = @ /\ ~errors]
     /\ pc' = IF left = {} THEN "verdict" ELSE "mark"

(* The next call is made, or the step fails and the item is set aside.     *)
Call(status, then) ==
  /\ \/ remote' = Set(status) /\ then /\ NoFault
     \/ Fault /\ remote' \in {remote, Set(status)} /\ pc' = "set_aside" /\ UNCHANGED run
  /\ UNCHANGED <<remoteRun, remoteCoverage>>
  /\ KeepLocal

(* Without a validated summary the item fails.                             *)
Mark ==
  /\ pc = "mark" /\ Item \in ready
  /\ Call("ANALYZING", pc' = "commit" /\ UNCHANGED run)

MarkRefused ==
  /\ pc = "mark" /\ Item \notin ready
  /\ pc' = "set_aside"
  /\ UNCHANGED <<listing, database, run, synapse, bounds>>

Commit ==
  /\ pc = "commit"
  /\ Call("READY", NextItem(FALSE))

(* The error is remembered, and whether PARTIAL could be written.          *)
SetAside ==
  /\ pc = "set_aside"
  /\ \/ remote' = Set("PARTIAL") /\ NoFault
     \/ Fault /\ UNCHANGED remote
  /\ NextItem(TRUE)
  /\ UNCHANGED <<remoteRun, remoteCoverage>>
  /\ KeepLocal

Verdict ==
  /\ pc = "verdict"
  /\ LET status == IF run.clean THEN "COMPLETE" ELSE "PARTIAL"
     IN \/ remoteRun' = status /\ (IF run.clean THEN pc' = "cover" /\ UNCHANGED run ELSE Done) /\ NoFault
        \/ Fault /\ remoteRun' \in {remoteRun, status} /\ Done
  /\ UNCHANGED <<remote, remoteCoverage>>
  /\ KeepLocal

CommitCoverage ==
  LET committed == remoteCoverage \union {run.window}
  IN /\ pc = "cover"
     /\ \/ remoteCoverage' = committed /\ Done /\ NoFault
        \/ Fault /\ remoteCoverage' \in {remoteCoverage, committed} /\ pc' = "recant" /\ UNCHANGED run
     /\ UNCHANGED <<remote, remoteRun>>
     /\ KeepLocal

(* The run is PARTIAL after all.                                           *)
Recant ==
  /\ pc = "recant"
  /\ \/ remoteRun' = "PARTIAL" /\ NoFault
     \/ Fault /\ UNCHANGED remoteRun
  /\ Done
  /\ UNCHANGED <<remote, remoteCoverage>>
  /\ KeepLocal

(* The process dies, or the pipeline raises and the run is closed.         *)
Abort ==
  /\ Fault
  /\ pc # "idle"
  /\ pc' = "idle" /\ run' = NoRun /\ col' = Idle
  /\ remoteRun' \in {remoteRun} \union (IF run.kind = "synapse" /\ pc \in {"collect", "filter", "process", "finish"}
                                       THEN {"FAILED"} ELSE {})
  /\ UNCHANGED <<now, listed, database, remote, remoteCoverage>>

-----------------------------------------------------------------------------
(* What arrives while rows are processed is seen by the next run, as if    *)
(* it had arrived just before it.                                          *)
Listing ==
  /\ \/ pc \in {"idle", "collect"} /\ Publish /\ NoFault
     \/ Page /\ NoFault
     \/ PageFails /\ Fault
  /\ UNCHANGED <<database, pc, run, synapse>>

Start ==
  \E kind \in Kinds, window \in Windows :
    /\ kind = "synapse" => window.start < window.end
    /\ StartRun(kind, window)

Step ==
  \/ Listing \/ Start \/ RangeCollected \/ RowsFiltered \/ Process \/ Processed \/ Finished
  \/ Upsert \/ Mark \/ MarkRefused \/ Commit \/ SetAside \/ Verdict \/ CommitCoverage \/ Recant \/ Abort

Spec == Init /\ [][Step]_vars

-----------------------------------------------------------------------------
(* A stock's announcement at a covered instant is in the database: no run  *)
(* will ask for it again (pipeline.py:1224, 1473).                         *)
CoveredRowsStored ==
  \A i \in Rows : listed[i].ticker \in Master /\ IsCovered(coverage, listed[i].at) => i \in stored

(* The gaps and the covered ranges together are the requested window, and  *)
(* they share boundaries only (subtract_coverage, incremental.py:47).      *)
MissingExact ==
  pc \in {"collect", "filter"} /\ Incremental(run.kind) =>
    LET requested == AllPoints({[run.window EXCEPT !.end = Min({@, run.snapshot})]})
        missing == AllPoints(run.missing)
        covered == AllPoints(run.before)
    IN /\ missing \union (covered \intersect requested) = requested
       /\ \A p \in missing \intersect covered : p % 2 = 0

(* A window is committed to Synapse only when every announcement of a      *)
(* stock in it is READY there (synapse_pipeline.py:473).                   *)
RemoteCoverageBacked ==
  [][\A window \in remoteCoverage' \ remoteCoverage, i \in Rows :
       listed[i].ticker \in Master /\ Within(i, window) => remote[i] = "READY"]_vars
=============================================================================
