--------------------------- MODULE DailyCollection ---------------------------
(***************************************************************************)
(* The scheduled IDX collector, run after run: _daily_window and           *)
(* _run_collection (idx_website_cli.py), IdxWebsiteSource.collect_window   *)
(* (sources/idx_website.py), SourceIngestionRunner.run_window              *)
(* (source_ingestion.py) and the checkpoint that lives with Synapse        *)
(* (source_state_client.py, durable_checkpoint.py).  One run at a time:    *)
(* the workflow has a concurrency group.  A run may die between any two of *)
(* its remote calls, and a call may be lost before or after Synapse has    *)
(* carried it out.  What one run leaves behind, a checkpoint, run rows and *)
(* half-processed disclosures, is all the next one starts from.            *)
(***************************************************************************)
EXTENDS Integers, Sequences, SequencesExt, FiniteSets, FiniteSetsExt

CONSTANTS Disclosures,   \* rows of the IDX listing
          OutOfScope,    \* rows of no issuer, with an unsupported ticker, or not of a stock
          Unselected,    \* rows of whose attachments the "smart" policy selects none
          PassedAt,      \* when those are announced: only its place among the others matters
          Lookback,      \* DAILY_FALLBACK_LOOKBACK (30 hours), in clock ticks
          MaxWindow,     \* COLLECT_MAX_WINDOW (48 hours)
          Overlap,       \* IDX_INCREMENTAL_OVERLAP_DAYS (24 hours)
          Period,        \* between two scheduled runs (24 hours)
          StaleAge,      \* STALE_SOURCE_RUN_AGE (85 minutes)
          SeenCap,       \* ids a checkpoint keeps (1000)
          NewestHead, OldestSlots,   \* RECOVERY_LANE_NEWEST_HEAD (6), RECOVERY_LANE_OLDEST_SLOTS (10)
          MaxNow,        \* bound on the clock
          MaxRuns,       \* bound on run rows
          MaxFaults      \* bound on lost calls, failures, deferrals and crashes

ASSUME CollectionAssumption ==
  /\ IsFiniteSet(Disclosures) /\ OutOfScope \cup Unselected \subseteq Disclosures
  /\ PassedAt \in [OutOfScope \cup Unselected -> Nat \ {0}]
  /\ {Lookback, MaxWindow, Overlap, SeenCap, NewestHead} \subseteq Nat \ {0}
  /\ Lookback <= MaxWindow
  /\ {StaleAge, Period, OldestSlots, MaxNow, MaxRuns, MaxFaults} \subseteq Nat

VARIABLES
  (* The world, and Synapse.                                               *)
  now,          \* the clock
  announced,    \* when a row was announced; 0: not yet
  status,       \* of a disclosure in Synapse
  commits,      \* analyses Synapse has stored for it
  runs,         \* the run rows, in order of creation
  checkpoint,   \* the durable checkpoint: seen ids, oldest first, and the watermark
  (* One run's memory.                                                     *)
  pc, window,
  staged,       \* the disclosures of the source result, in candidate order
  watermark,    \* latest_announced_at of the pending checkpoint
  ready,        \* READY in the reply to the upsert
  eligible,     \* checkpoint_eligible_external_ids
  next,         \* index in staged of the disclosure being processed
  stopped,      \* "no", or what stopped the AI work of the run: "deadline", "rate"
  errors,       \* stats.errors is not empty
  (* History and bounds.                                                   *)
  unconfirmed,  \* disclosures of which the reply to an analysis commit was lost
  missing,      \* rows this run skipped because an attachment returned 404
  deferred,     \* this run hit its request budget
  faults

synapse == <<status, commits, runs, checkpoint>>
world == <<now, announced>>
memory == <<window, staged, watermark, ready, eligible, next, stopped, errors, missing, deferred>>
vars == <<world, synapse, pc, memory, unconfirmed, faults>>

(* The rows that every run skips for what they are: they are never staged, *)
(* and no checkpoint remembers them.                                       *)
PassedOver == OutOfScope \cup Unselected

Init ==
  /\ now = 1
  /\ announced = [d \in Disclosures |-> IF d \in PassedOver THEN PassedAt[d] ELSE 0]
  /\ status = [d \in Disclosures |-> "absent"]
  /\ commits = [d \in Disclosures |-> 0]
  /\ runs = <<>>
  /\ checkpoint = [seen |-> <<>>, latest |-> 0]
  /\ pc = "idle"
  /\ window = [from |-> 0, to |-> 0]
  /\ staged = <<>> /\ watermark = 0
  /\ ready = {} /\ eligible = {}
  /\ next = 1 /\ stopped = "no" /\ errors = FALSE
  /\ missing = {} /\ deferred = FALSE
  /\ unconfirmed = {}
  /\ faults = 0

-----------------------------------------------------------------------------
(* Faults and remote calls.                                                *)

Fault == faults < MaxFaults /\ faults' = faults + 1

(* A call comes back, or raises: because it never arrived, or because its  *)
(* reply did not.  Idempotent calls are repeated once by the client, which *)
(* leaves the same three outcomes.                                         *)
Replies == {"ok", "reply lost", "request lost"}
Applied(reply) == reply # "request lost"
Received(reply) == IF reply = "ok" THEN UNCHANGED faults ELSE Fault

SetRun(value) == [runs EXCEPT ![Len(runs)].status = value]

(* The process ends, by a return, a raise or a kill: its memory goes.      *)
Exit ==
  /\ pc' = "idle"
  /\ window' = [from |-> 0, to |-> 0]
  /\ staged' = <<>> /\ watermark' = 0
  /\ ready' = {} /\ eligible' = {}
  /\ next' = 1 /\ stopped' = "no" /\ errors' = FALSE
  /\ missing' = {} /\ deferred' = FALSE

Crash ==
  /\ pc # "idle" /\ Fault /\ Exit
  /\ UNCHANGED <<world, synapse, unconfirmed>>

-----------------------------------------------------------------------------
(* The world.  A row announced during a run is later than its window.      *)

Tick ==
  /\ pc = "idle" /\ now < MaxNow
  /\ now' = now + 1
  /\ UNCHANGED <<announced, synapse, pc, memory, unconfirmed, faults>>

Announce(d) ==
  /\ pc = "idle" /\ announced[d] = 0
  /\ announced' = [announced EXCEPT ![d] = now]
  /\ UNCHANGED <<now, synapse, pc, memory, unconfirmed, faults>>

-----------------------------------------------------------------------------
(* Opening a run.                                                          *)

WindowStart(time, latest) ==
  LET fallback == time - Lookback
      wished == IF latest = 0 THEN fallback ELSE Min({fallback, latest - Overlap})
  IN  Max({wished, time - MaxWindow})

(* daily: restore the checkpoint, choose the window.                       *)
Begin ==
  /\ pc = "idle" /\ Len(runs) < MaxRuns
  /\ window' = [from |-> WindowStart(now, checkpoint.latest), to |-> now]
  /\ pc' = "recovering"
  /\ UNCHANGED <<world, synapse, staged, watermark, ready, eligible, next, stopped, errors,
                 missing, deferred, unconfirmed, faults>>

(* Synapse reports the run registered last as the latest attempt.          *)
Registered == {i \in DOMAIN runs : runs[i].registered}

(* Mutant of StaleRun: whatever is left RUNNING is left alone.            *)
StaleRunIgnored == {}

StaleRun ==
  IF Registered = {} THEN {}
  ELSE {i \in {Max(Registered)} : runs[i].status = "RUNNING" /\ now - runs[i].started > StaleAge}

(* _recover_stale_source_run: the row a dead run left RUNNING is closed.   *)
RecoverStale(reply) ==
  /\ pc = "recovering"
  /\ IF StaleRun = {} THEN reply = "ok" ELSE Received(reply)
  /\ StaleRun = {} => UNCHANGED faults
  /\ runs' = IF Applied(reply)
             THEN [i \in DOMAIN runs |-> IF i \in StaleRun THEN [runs[i] EXCEPT !.status = "FAILED"]
                                                           ELSE runs[i]]
             ELSE runs
  /\ IF reply = "ok" THEN pc' = "creating" /\ UNCHANGED memory ELSE Exit
  /\ UNCHANGED <<world, status, commits, checkpoint, unconfirmed>>

(* create_run raises outside the try block: nobody closes the new row.     *)
CreateRun(reply) ==
  /\ pc = "creating" /\ Received(reply)
  /\ runs' = IF Applied(reply)
             THEN Append(runs, [status |-> "RUNNING", started |-> now, registered |-> FALSE])
             ELSE runs
  /\ IF reply = "ok" THEN pc' = "registering" /\ UNCHANGED memory ELSE Exit
  /\ UNCHANGED <<world, status, commits, checkpoint, unconfirmed>>

RegisterRun(reply) ==
  /\ pc = "registering" /\ Received(reply)
  /\ runs' = IF Applied(reply) THEN [runs EXCEPT ![Len(runs)].registered = TRUE] ELSE runs
  /\ IF reply = "ok" THEN pc' = "collecting" /\ UNCHANGED memory ELSE Exit
  /\ UNCHANGED <<world, status, commits, checkpoint, unconfirmed>>

-----------------------------------------------------------------------------
(* Collecting the window.                                                  *)

(* Mutant of Prioritized: no lane for the backlog.                         *)
PrioritizedNewest(newestFirst) == newestFirst

(* _prioritize_candidates: the newest few, then the oldest few starting    *)
(* from the oldest, then the rest, newest first.                           *)
Prioritized(newestFirst) ==
  LET n == Len(newestFirst)
      recovery == Min({OldestSlots, n - NewestHead})
  IN  IF n <= NewestHead \/ recovery <= 0 THEN newestFirst
      ELSE SubSeq(newestFirst, 1, NewestHead)
           \o Reverse(SubSeq(newestFirst, n - recovery + 1, n))
           \o SubSeq(newestFirst, NewestHead + 1, n - recovery)

(* The elements of s that are in S, in the order of s.                     *)
Keep(s, S) ==
  LET kept == {i \in DOMAIN s : s[i] \in S}
  IN  [k \in 1..Cardinality(kept) |->
         s[CHOOSE i \in kept : Cardinality({j \in kept : j < i}) = k - 1]]

(* The orders the listing may have: of one instant, rows come in any order. *)
NewestFirst(rows) ==
  {s \in SetToSeqs(rows) : \A i \in 1..(Len(s) - 1) : announced[s[i]] >= announced[s[i + 1]]}

Listed == {d \in Disclosures : announced[d] # 0 /\ window.from <= announced[d] /\ announced[d] <= window.to}
Seen == Range(checkpoint.seen)
Candidates == Listed \ Seen

(* Mutant of Advanced: the watermark moves past deferred rows.             *)
AdvancedAlways(cut, completed) == Max({checkpoint.latest} \cup {announced[d] : d \in completed})

(* The watermark stays when the request budget cut the window short.       *)
Advanced(cut, completed) ==
  IF cut THEN checkpoint.latest ELSE Max({checkpoint.latest} \cup {announced[d] : d \in completed})

(* collect_window: such rows, and rows whose attachment is gone (404),     *)
(* are passed over; at an exhausted request budget the row in hand and     *)
(* those after it are left for a later run.                                *)
Collect ==
  /\ pc = "collecting"
  /\ \E listing \in NewestFirst(Candidates) : \E reached \in 0..Len(listing) :
           LET order == Prioritized(listing)
               cut == reached < Len(order)
               served == {order[i] : i \in 1..reached} \ PassedOver
           IN  \E gone \in SUBSET served :
                 /\ cut => order[reached + 1] \notin PassedOver
                 /\ IF cut \/ gone # {} THEN Fault ELSE UNCHANGED faults
                 /\ staged' = Keep(SubSeq(order, 1, reached), served \ gone)
                 /\ watermark' = Advanced(cut, (served \ gone) \cup (Listed \cap Seen))
                 /\ missing' = gone
                 /\ deferred' = cut
  /\ pc' = "publishing"
  /\ UNCHANGED <<world, synapse, window, ready, eligible, next, stopped, errors, unconfirmed>>

(* The outer except of run_window: the row is closed as FAILED, if that    *)
(* call arrives, and the error goes on to the command line.                *)
FailRun ==
  /\ runs' \in {SetRun("FAILED"), runs}
  /\ Exit

(* A protected site, an incomplete listing, a source error: no disclosure  *)
(* is touched.                                                             *)
CollectFails ==
  /\ pc = "collecting" /\ Fault /\ FailRun
  /\ UNCHANGED <<world, status, commits, checkpoint, unconfirmed>>

-----------------------------------------------------------------------------
(* Publishing the disclosures.                                             *)

Work == Range(staged)

UpsertDisclosures(reply) ==
  /\ pc = "publishing"
  /\ Received(reply)
  /\ status' = IF Applied(reply)
               THEN [d \in Disclosures |-> IF d \in Work /\ status[d] = "absent" THEN "PENDING" ELSE status[d]]
               ELSE status
  /\ IF reply = "ok"
     THEN /\ pc' = "processing"
          /\ ready' = {d \in Work : status[d] = "READY"}
          /\ eligible' = ready'
          /\ UNCHANGED <<runs, window, staged, watermark, next, stopped, errors, missing, deferred>>
     ELSE FailRun
  /\ UNCHANGED <<world, commits, checkpoint, unconfirmed>>

InHand == staged[next]
Processing(step) == pc = step /\ next <= Len(staged)
Proceed(step) == pc' = step /\ UNCHANGED <<window, staged, watermark, ready, eligible, next, stopped,
                                           errors, missing, deferred>>
NextDisclosure == pc' = "processing" /\ next' = next + 1

SetStatus(reply, value) == status' = IF Applied(reply) THEN [status EXCEPT ![InHand] = value] ELSE status

(* Mutant of SkippedAsReady: what is READY already is processed again.     *)
NeverSkipped(d) == FALSE

SkippedAsReady(d) == d \in ready

SkipReady ==
  /\ Processing("processing") /\ SkippedAsReady(InHand)
  /\ NextDisclosure
  /\ UNCHANGED <<world, synapse, window, staged, watermark, ready, eligible, stopped, errors,
                 missing, deferred, unconfirmed, faults>>

(* After a provider 429 or the AI deadline the rest is only marked.        *)
Defer ==
  /\ Processing("processing") /\ ~SkippedAsReady(InHand) /\ stopped # "no"
  /\ errors' = TRUE
  /\ pc' = "marking"
  /\ UNCHANGED <<world, synapse, window, staged, watermark, ready, eligible, next, stopped,
                 missing, deferred, unconfirmed, faults>>

(* The except branch of one disclosure: remember why, then mark it.        *)
Failing(cause) ==
  /\ stopped' = IF cause \in {"deadline", "rate"} THEN cause ELSE stopped
  /\ errors' = TRUE
  /\ pc' = "marking"
  /\ UNCHANGED <<window, staged, watermark, ready, eligible, next, missing, deferred>>

StartExtraction(reply) ==
  /\ Processing("processing") /\ ~SkippedAsReady(InHand) /\ stopped = "no"
  /\ Received(reply)
  /\ SetStatus(reply, "EXTRACTING")
  /\ IF reply = "ok" THEN Proceed("extracting") ELSE Failing("error")
  /\ UNCHANGED <<world, commits, runs, checkpoint, unconfirmed>>

(* Attachments, budgets, document summaries, then the files: any of them   *)
(* may raise.                                                              *)
StartAnalysis(reply) ==
  /\ pc = "extracting"
  /\ Received(reply)
  /\ SetStatus(reply, "ANALYZING")
  /\ IF reply = "ok" THEN Proceed("analysing") ELSE Failing("error")
  /\ UNCHANGED <<world, commits, runs, checkpoint, unconfirmed>>

WorkFails(cause) ==
  /\ pc \in {"extracting", "analysing"}
  /\ Fault
  /\ Failing(cause)
  /\ UNCHANGED <<world, synapse, unconfirmed>>

(* commit_analysis is sent once: a lost reply leaves the caller in doubt,  *)
(* and it marks PARTIAL what Synapse has just made READY.                  *)
CommitAnalysis(reply) ==
  /\ pc = "analysing"
  /\ Received(reply)
  /\ SetStatus(reply, "READY")
  /\ commits' = IF Applied(reply) THEN [commits EXCEPT ![InHand] = @ + 1] ELSE commits
  /\ unconfirmed' = IF reply = "reply lost" THEN unconfirmed \cup {InHand} ELSE unconfirmed
  /\ IF reply = "ok"
     THEN /\ eligible' = eligible \cup {InHand}
          /\ NextDisclosure
          /\ UNCHANGED <<window, staged, watermark, ready, stopped, errors, missing, deferred>>
     ELSE Failing("error")
  /\ UNCHANGED <<world, runs, checkpoint>>

(* Marking PARTIAL may fail too, which is only one more error.             *)
MarkPartial(reply) ==
  /\ pc = "marking"
  /\ Received(reply)
  /\ SetStatus(reply, "PARTIAL")
  /\ NextDisclosure
  /\ UNCHANGED <<world, commits, runs, checkpoint, window, staged, watermark, ready, eligible,
                 stopped, errors, missing, deferred, unconfirmed>>

-----------------------------------------------------------------------------
(* Closing the run, then the checkpoint.                                   *)

(* A website run proves no coverage, so its row ends PARTIAL, with or      *)
(* without errors; if that call, or the budget snapshot after it, raises,  *)
(* the row is closed as FAILED, if that call arrives, and the checkpoint   *)
(* is left alone.                                                          *)
CloseRun(reply, late) ==
  /\ pc = "processing" /\ next > Len(staged)
  /\ IF reply = "ok" /\ ~late
     THEN /\ UNCHANGED faults
          /\ runs' = SetRun("PARTIAL")
          /\ Proceed("checkpointing")
     ELSE /\ Fault
          /\ runs' \in {SetRun("FAILED"), IF Applied(reply) THEN SetRun("PARTIAL") ELSE runs}
          /\ Exit
  /\ UNCHANGED <<world, status, commits, checkpoint, unconfirmed>>

(* Mutant of Eligible: every staged id is kept.                            *)
EligibleAll(d) == TRUE

Eligible(d) == d \in eligible

LastOf(s, n) == SubSeq(s, Max({1, Len(s) - n + 1}), Len(s))

(* SelectiveMemoryCheckpointStore.save.                                    *)
Saved ==
  [seen |-> LastOf(checkpoint.seen \o Keep(staged, {d \in Work : Eligible(d)}), SeenCap),
   latest |-> IF \A d \in Work : Eligible(d) THEN watermark ELSE checkpoint.latest]

(* A run with errors keeps the progress of what is READY, but not if an    *)
(* older Synapse refuses such a checkpoint (400).                          *)
CommitState(reply, refused) ==
  /\ pc = "checkpointing"
  /\ IF refused THEN errors /\ Saved # checkpoint /\ reply = "ok" /\ Fault ELSE Received(reply)
  /\ checkpoint' = IF refused \/ ~Applied(reply) THEN checkpoint ELSE Saved
  /\ Exit
  /\ UNCHANGED <<world, status, commits, runs, unconfirmed>>

-----------------------------------------------------------------------------
Step(reply) ==
  \/ RecoverStale(reply) \/ CreateRun(reply) \/ RegisterRun(reply)
  \/ UpsertDisclosures(reply)
  \/ StartExtraction(reply) \/ StartAnalysis(reply) \/ CommitAnalysis(reply) \/ MarkPartial(reply)
  \/ \E late \in BOOLEAN : CloseRun(reply, late)
  \/ \E refused \in BOOLEAN : CommitState(reply, refused)

Next ==
  \/ Tick
  \/ \E d \in Disclosures : Announce(d)
  \/ Begin \/ Collect \/ CollectFails \/ SkipReady \/ Defer
  \/ \E cause \in {"error", "deadline", "rate"} : WorkFails(cause)
  \/ \E reply \in Replies : Step(reply)
  \/ Crash

Spec == Init /\ [][Next]_vars

-----------------------------------------------------------------------------
(* Properties.                                                             *)

(* The types of the variables; a conjunct of DeadRunsClosed.               *)
TypeOK ==
  /\ now \in 1..MaxNow \cup {1}
  /\ \A d \in Disclosures : announced[d] \in 0..now \/ (d \in PassedOver /\ announced[d] = PassedAt[d])
  /\ status \in [Disclosures -> {"absent", "PENDING", "EXTRACTING", "ANALYZING", "PARTIAL", "READY"}]
  /\ commits \in [Disclosures -> Nat]
  /\ \A i \in DOMAIN runs : runs[i].status \in {"RUNNING", "PARTIAL", "FAILED"} /\ runs[i].started \in 1..now
  /\ Seen \cup Work \cup ready \cup eligible \cup unconfirmed \cup missing \subseteq Disclosures
  /\ Len(checkpoint.seen) <= SeenCap
  /\ checkpoint.latest \in 0..now /\ watermark \in 0..now
  /\ next \in 1..(Len(staged) + 1)

(* Whatever the checkpoint says was seen is READY in Synapse: no crash,    *)
(* lost call, partial run or forgotten id makes a later run pass over a    *)
(* disclosure that has no analysis.                                        *)
SeenAreReady == \A d \in Seen : status[d] = "READY"

(* The watermark moves only when nothing in the run's window is left: each *)
(* row of the window is READY or was passed over for good, as out of       *)
(* scope, as one of whose attachments the policy selects none, or because  *)
(* an attachment is gone.                                                  *)
WatermarkResolved ==
  [][checkpoint'.latest # checkpoint.latest =>
       \A d \in Listed : d \in PassedOver \cup missing \/ status[d] = "READY"]_vars

(* A disclosure is analysed a second time only if the reply to its first   *)
(* commit was lost: through crashes before the checkpoint, ids dropped     *)
(* from it, and overlapping windows.                                       *)
AnalysedOnce == \A d \in Disclosures : commits[d] > 1 => d \in unconfirmed

(* A registered run that is nobody's any more is closed by the next one,   *)
(* unless that one starts before the stale age: no row stays RUNNING out   *)
(* of sight of the latest attempt.                                         *)
DeadRunsClosed ==
  /\ TypeOK
  /\ \A i, j \in Registered :
       /\ i < j
       /\ \A k \in Registered : ~(i < k /\ k < j)
       /\ runs[i].status = "RUNNING"
       => runs[j].started - runs[i].started <= StaleAge

(* A run cut short by its request budget after serving more than the       *)
(* newest few has served the disclosure that is older than all the other   *)
(* candidates: newer rows cannot starve the end of the backlog.            *)
BacklogServed ==
  pc = "publishing" /\ deferred /\ Len(staged) > NewestHead /\ OldestSlots > 0 =>
    \A d \in Candidates \ PassedOver :
      (\A other \in Candidates \ {d} : announced[d] < announced[other]) => d \in Work \cup missing

(* A disclosure the run staged and could not finish is found by the next   *)
(* daily run, once there is a watermark to hold: "the time watermark stays *)
(* at the previous durable value so the unresolved disclosure remains      *)
(* discoverable on the next run" (durable_checkpoint.py:35-37).            *)
RemainsDiscoverable ==
  [][checkpoint'.seen # checkpoint.seen /\ checkpoint.latest # 0 =>
       \A d \in Work \ eligible :
         announced[d] >= WindowStart(now + Period, checkpoint'.latest)]_vars
=============================================================================
