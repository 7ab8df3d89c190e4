---------------------------- MODULE RecoveryRunner ----------------------------
(***************************************************************************)
(* recover-pending --execute-live: RecoveryRunner (recovery_runner.py)     *)
(* over the Synapse adapters (recovery_preflight_adapter.py,               *)
(* recovery_write_adapter.py) and the live hooks                           *)
(* (recovery_live_pipeline.py).  An operator writes down pending           *)
(* disclosures as they are, the manifest; a run reads all of them again    *)
(* and works on them one by one if nothing has changed.  The daily         *)
(* collector may be at work on the same rows, calls may be lost, and the   *)
(* process may be interrupted or killed at any of them.                    *)
(*                                                                         *)
(* Every row of a file is DOWNLOADED and EXTRACTED: neither the collector  *)
(* nor this runner writes others.  Of updated_at only its comparison with  *)
(* the manifest matters.  The source lists what the record declares;       *)
(* hashes that disagree are failures of the step that compares them.       *)
(***************************************************************************)
EXTENDS Integers, Sequences, FiniteSets, SequencesExt

CONSTANTS Records, Attachments,
          Of,                 \* the record of an attachment
          MaxSourceRequests,  \* --max-source-requests
          MaxVisits,          \* bound on writes of the daily collector
          MaxFaults,          \* bound on lost calls, failing steps, interruptions and kills
          MaxRuns             \* bound on runs

ASSUME RecoveryAssumption ==
  /\ IsFiniteSet(Attachments) /\ Of \in [Attachments -> Records]
  /\ {MaxSourceRequests, MaxVisits, MaxFaults, MaxRuns} \subseteq Nat

VARIABLES
  (* Synapse.                                                              *)
  status, analysed,
  moved,        \* updated_at is no longer the one in the manifest
  rows,         \* attachments with a row
  runRow,       \* the RETRY run of the last invocation
  (* The data directory.                                                   *)
  raw, text,    \* downloaded files, extracted texts
  manifest,     \* a sequence of records with the status expected of each
  (* The process.                                                          *)
  pc,
  cache,        \* _responses of the preflight adapter
  plan,         \* of the records preflighted
  at,           \* index in manifest
  drawn,        \* downloads of the record in hand
  worked,       \* db_commits, files_downloaded or files_reused is positive
  errors,
  (* History and bounds.                                                   *)
  daily,        \* what the collector is doing with a record
  overtaken,    \* records it wrote to after the last check of them
  cleared,      \* records which matched their manifest at that check
  excused,      \* records whose work was cut short, or a status write of theirs not confirmed
  orphaned,     \* the run row cannot be closed any more
  unnoted,      \* the last record done by a run whose interruption left no error; 0: no such run
  visits, faults, invocations

synapse == <<status, analysed, moved, rows, runRow>>
files == <<raw, text>>
memory == <<cache, plan, at, drawn, worked, errors>>
history == <<overtaken, cleared, excused, orphaned, unnoted>>
bounds == <<visits, faults, invocations>>
vars == <<synapse, files, manifest, pc, memory, daily, history, bounds>>

Pending == {"DISCOVERED", "EXTRACTING", "PARTIAL"}
FilesOf(r) == {a \in Attachments : Of[a] = r}

None == [none |-> TRUE]
NoEntries == [r \in Records |-> None]

(* What the daily collector can have left before.                          *)
Init ==
  /\ status \in [Records -> {"DISCOVERED", "PARTIAL"}]
  /\ analysed = [r \in Records |-> FALSE]
  /\ moved = [r \in Records |-> FALSE]
  /\ rows \in {UNION {FilesOf(r) : r \in written} : written \in SUBSET {r \in Records : status[r] = "PARTIAL"}}
  /\ runRow = "none"
  /\ raw = {} /\ text = {}
  /\ manifest = <<>>
  /\ pc = "idle"
  /\ cache = NoEntries /\ plan = NoEntries
  /\ at = 1 /\ drawn = 0 /\ worked = FALSE /\ errors = FALSE
  /\ daily = [r \in Records |-> "away"]
  /\ overtaken = {} /\ cleared = {} /\ excused = {} /\ orphaned = FALSE /\ unnoted = 0
  /\ visits = 0 /\ faults = 0 /\ invocations = 0

-----------------------------------------------------------------------------
(* Faults, calls, and the end of the process.                              *)

Fault == faults < MaxFaults /\ faults' = faults + 1 /\ UNCHANGED <<visits, invocations>>
NoFault == UNCHANGED bounds

(* Idempotent calls are repeated once by the client, which leaves these.   *)
Replies == {"ok", "reply lost", "request lost"}
Applied(reply) == reply # "request lost"
Received(reply) == IF reply = "ok" THEN NoFault ELSE Fault

InHand == manifest[at].id
Executing == pc \in {"claiming", "downloading", "extracting", "analysing", "committing", "finishing",
                     "verifying", "reporting", "failing", "resetting"}

Leave ==
  /\ pc' = "idle"
  /\ cache' = NoEntries /\ plan' = NoEntries
  /\ at' = 1 /\ drawn' = 0 /\ worked' = FALSE /\ errors' = FALSE

Go(step) == pc' = step /\ UNCHANGED <<plan, at, drawn, worked, errors>>

(* Mutant of Invalidated: the response stays.                              *)
KeepCached(r, reply) == cache

(* A write that is confirmed drops the cached preflight of its record.     *)
Invalidated(r, reply) == IF reply = "ok" THEN [cache EXCEPT ![r] = None] ELSE cache

Response(r) == [status |-> status[r], analysed |-> analysed[r], moved |-> moved[r],
                rows |-> rows \cap FilesOf(r)]
Fetched(r) == IF cache[r] = None THEN Response(r) ELSE cache[r]

(* _manifest_mismatch_reasons: status and updated_at are what can change.  *)
Matches(entry, response) == response.status = entry.status /\ ~response.moved

-----------------------------------------------------------------------------
(* The operator and the collector.                                         *)

WriteManifest(batch) ==
  /\ pc = "idle" /\ invocations < MaxRuns
  /\ \A r \in Range(batch) : status[r] \in Pending
  /\ manifest' = [i \in DOMAIN batch |-> [id |-> batch[i], status |-> status[batch[i]]]]
  /\ moved' = [r \in Records |-> FALSE]
  /\ runRow' = "none" /\ orphaned' = FALSE /\ unnoted' = 0
  /\ UNCHANGED <<status, analysed, rows, files, pc, memory, daily, overtaken, cleared, excused, bounds>>

(* The same manifest may be run again.                                     *)
Invoke ==
  /\ pc = "idle" /\ manifest # <<>> /\ invocations < MaxRuns
  /\ invocations' = invocations + 1
  /\ pc' = "preflight"
  /\ runRow' = "none" /\ orphaned' = FALSE /\ unnoted' = 0
  /\ UNCHANGED <<status, analysed, moved, rows, files, manifest, memory, daily, overtaken, cleared,
                 excused, visits, faults>>

(* Another machine, or a cleaned data directory.                           *)
LoseFiles ==
  /\ pc = "idle" /\ raw # {} /\ Fault
  /\ raw' = {} /\ text' = {}
  /\ UNCHANGED <<synapse, manifest, pc, memory, daily, history>>

CollectorWrites(r, from, to, value) ==
  /\ daily[r] \in from
  /\ visits < MaxVisits /\ visits' = visits + 1
  /\ daily' = [daily EXCEPT ![r] = to]
  /\ status' = [status EXCEPT ![r] = value]
  /\ moved' = [moved EXCEPT ![r] = TRUE]
  /\ overtaken' = overtaken \cup {r}
  /\ UNCHANGED <<runRow, files, manifest, pc, memory, cleared, excused, orphaned, unnoted, faults, invocations>>

CollectorStarts(r) ==
  status[r] # "READY" /\ CollectorWrites(r, {"away"}, "extracting", "EXTRACTING") /\ UNCHANGED <<analysed, rows>>
CollectorExtracted(r) ==
  CollectorWrites(r, {"extracting"}, "analysing", "ANALYZING") /\ rows' = rows \cup FilesOf(r) /\ UNCHANGED analysed
CollectorCommits(r) ==
  /\ CollectorWrites(r, {"analysing"}, "away", "READY")
  /\ analysed' = [analysed EXCEPT ![r] = TRUE]
  /\ UNCHANGED rows
CollectorFails(r) ==
  CollectorWrites(r, {"extracting", "analysing"}, "away", "PARTIAL") /\ UNCHANGED <<analysed, rows>>

Collector(r) == CollectorStarts(r) \/ CollectorExtracted(r) \/ CollectorCommits(r) \/ CollectorFails(r)

-----------------------------------------------------------------------------
(* Preflight of the whole manifest, before anything is written.            *)

(* A stored file counts if it or its text is on this machine.              *)
Valid(response) == response.rows \cap (raw \cup text)

(* prepare_source asks for the listing once, and queues what has no row.   *)
PlanFor(r, response) ==
  LET valid == Valid(response)
      missing == FilesOf(r) \ valid
      queue == FilesOf(r) \ response.rows
  IN [noop |-> response.analysed,
      valid |-> valid,
      needed |-> Cardinality(missing),
      queue |-> SetToSeq(queue),
      requests |-> IF missing = {} \/ response.analysed THEN 0 ELSE 1 + Cardinality(queue \ raw)]

Preflight ==
  /\ pc = "preflight"
  /\ LET response == Fetched(InHand) IN
       /\ Matches(manifest[at], response)
       /\ cache' = [cache EXCEPT ![InHand] = response]
       /\ plan' = [plan EXCEPT ![InHand] = PlanFor(InHand, response)]
  /\ IF at = Len(manifest) THEN pc' = "opening" /\ at' = 1 ELSE pc' = pc /\ at' = at + 1
  /\ NoFault
  /\ UNCHANGED <<synapse, files, manifest, drawn, worked, errors, daily, history>>

(* The first record that cannot proceed ends a live run.                   *)
PreflightRefused ==
  /\ pc = "preflight" /\ ~Matches(manifest[at], Fetched(InHand))
  /\ Leave /\ NoFault
  /\ UNCHANGED <<synapse, files, manifest, daily, history>>

(* The read, or the listing of the source, fails.                          *)
PreflightFails ==
  /\ pc = "preflight"
  /\ Leave /\ Fault
  /\ UNCHANGED <<synapse, files, manifest, daily, history>>

PlannedRequests == FoldSeq(LAMBDA entry, sum : sum + plan[entry.id].requests, 0, manifest)
Candidates == {entry \in Range(manifest) : ~plan[entry.id].noop}

NothingToOpen ==
  /\ pc = "opening"
  /\ PlannedRequests > MaxSourceRequests \/ Candidates = {}
  /\ Leave /\ NoFault
  /\ UNCHANGED <<synapse, files, manifest, daily, history>>

CreateRun(reply) ==
  /\ pc = "opening"
  /\ PlannedRequests <= MaxSourceRequests /\ Candidates # {}
  /\ Received(reply)
  /\ runRow' = IF Applied(reply) THEN "RUNNING" ELSE runRow
  /\ IF reply = "ok" THEN Go("record") /\ UNCHANGED <<cache, orphaned>>
                     ELSE Leave /\ orphaned' = Applied(reply)
  /\ UNCHANGED <<status, analysed, moved, rows, files, manifest, daily, overtaken, cleared, excused,
                 unnoted>>

-----------------------------------------------------------------------------
(* One record.                                                             *)

NextRecord == pc' = "record" /\ at' = at + 1 /\ drawn' = 0 /\ UNCHANGED <<plan, worked, errors>>

SkipAnalysed ==
  /\ pc = "record" /\ at <= Len(manifest) /\ plan[InHand].noop
  /\ NextRecord /\ NoFault
  /\ UNCHANGED <<synapse, files, manifest, cache, daily, history>>

(* Mutant of Refreshed: the response of the preflight is used again.       *)
PreflightResponse(r) == Fetched(r)

(* refresh_disclosure: the last check before the first write.              *)
Refreshed(r) == Response(r)

Refresh ==
  /\ pc = "record" /\ at <= Len(manifest) /\ ~plan[InHand].noop
  /\ LET response == Refreshed(InHand) IN
       /\ cache' = [cache EXCEPT ![InHand] = response]
       /\ pc' = IF Matches(manifest[at], response) THEN "claiming" ELSE "failing"
  /\ worked' = (worked \/ plan[InHand].valid # {})
  /\ overtaken' = overtaken \ {InHand} /\ excused' = excused \ {InHand}
  /\ cleared' = IF pc' = "claiming" THEN cleared \cup {InHand} ELSE cleared \ {InHand}
  /\ NoFault
  /\ UNCHANGED <<synapse, files, manifest, plan, at, drawn, errors, daily, orphaned, unnoted>>

RefreshFails ==
  /\ pc = "record" /\ at <= Len(manifest) /\ ~plan[InHand].noop
  /\ Fault
  /\ pc' = "failing" /\ cache' = [cache EXCEPT ![InHand] = None]
  /\ worked' = (worked \/ plan[InHand].valid # {})
  /\ UNCHANGED <<synapse, files, manifest, plan, at, drawn, errors, daily, history>>

(* update_processing_status for the record in hand, and what follows.      *)
WriteStatus(reply, value, step) ==
  /\ Received(reply)
  /\ status' = IF Applied(reply) THEN [status EXCEPT ![InHand] = value] ELSE status
  /\ moved' = IF Applied(reply) THEN [moved EXCEPT ![InHand] = TRUE] ELSE moved
  /\ cache' = Invalidated(InHand, reply)
  /\ excused' = IF reply = "ok" THEN excused ELSE excused \cup {InHand}
  /\ worked' = (worked \/ reply = "ok")
  /\ pc' = IF reply = "ok" THEN step ELSE "failing"
  /\ UNCHANGED <<analysed, rows, runRow, files, manifest, plan, at, drawn, errors, daily, overtaken, cleared,
                 orphaned, unnoted>>

Claim(reply) == pc = "claiming" /\ WriteStatus(reply, "EXTRACTING", "downloading")

(* Mutant of Exhausted: a queue that runs out ends the downloads.          *)
NeverExhausted(p) == FALSE

(* The plan counts what is not on this machine, the queue what has no row. *)
Exhausted(p) == drawn < p.needed /\ drawn >= Len(p.queue)

QueueExhausted ==
  /\ pc = "downloading" /\ Exhausted(plan[InHand])
  /\ Go("failing") /\ NoFault
  /\ UNCHANGED <<synapse, files, manifest, cache, daily, history>>

Download ==
  /\ pc = "downloading" /\ drawn < plan[InHand].needed /\ drawn < Len(plan[InHand].queue)
  /\ raw' = raw \cup {plan[InHand].queue[drawn + 1]}
  /\ worked' = TRUE
  /\ pc' = "extracting" /\ NoFault
  /\ UNCHANGED <<synapse, text, manifest, cache, plan, at, drawn, errors, daily, history>>

(* Extraction writes the text, then the row is sent.                       *)
PublishFile(reply) ==
  /\ pc = "extracting"
  /\ Received(reply)
  /\ LET a == plan[InHand].queue[drawn + 1] IN
       /\ text' = text \cup {a}
       /\ rows' = IF Applied(reply) THEN rows \cup {a} ELSE rows
  /\ cache' = Invalidated(InHand, reply)
  /\ IF reply = "ok" THEN pc' = "downloading" /\ drawn' = drawn + 1
                     ELSE pc' = "failing" /\ UNCHANGED drawn
  /\ UNCHANGED <<status, analysed, moved, runRow, raw, manifest, plan, at, worked, errors, daily, history>>

StartAnalysis(reply) ==
  /\ pc = "downloading" /\ ~Exhausted(plan[InHand])
  /\ drawn >= plan[InHand].needed \/ drawn >= Len(plan[InHand].queue)
  /\ WriteStatus(reply, "ANALYZING", "analysing")

(* files_to_analyze                                                        *)
Documents == plan[InHand].valid \cup {plan[InHand].queue[i] : i \in 1..drawn}

Analyse ==
  /\ pc = "analysing" /\ Documents \subseteq text
  /\ Go("committing") /\ NoFault
  /\ UNCHANGED <<synapse, files, manifest, cache, daily, history>>

(* A valid file without its text has nothing to analyse.                   *)
TextUnavailable ==
  /\ pc = "analysing" /\ ~(Documents \subseteq text)
  /\ Go("failing") /\ NoFault
  /\ UNCHANGED <<synapse, files, manifest, cache, daily, history>>

(* Downloads, extraction and the provider may raise.                       *)
StepFails ==
  /\ pc \in {"downloading", "extracting", "analysing"}
  /\ Go("failing") /\ Fault
  /\ UNCHANGED <<synapse, files, manifest, cache, daily, history>>

(* Synapse makes the record READY with its active analysis, or keeps the   *)
(* analysis without promoting it, which is an error here.                  *)
Commit(reply) ==
  /\ pc = "committing"
  /\ Received(reply)
  /\ IF reply \in {"ok", "reply lost"}
     THEN /\ analysed' = [analysed EXCEPT ![InHand] = TRUE]
          /\ status' = [status EXCEPT ![InHand] = "READY"]
          /\ moved' = [moved EXCEPT ![InHand] = TRUE]
     ELSE UNCHANGED <<analysed, status, moved>>
  /\ cache' = Invalidated(InHand, reply)
  /\ Go(IF reply = "ok" THEN "finishing" ELSE "failing")
  /\ UNCHANGED <<rows, runRow, files, manifest, daily, history>>

Finish(reply) == pc = "finishing" /\ WriteStatus(reply, "READY", "verifying")

Verify ==
  /\ pc = "verifying"
  /\ LET response == Fetched(InHand) IN
       /\ cache' = [cache EXCEPT ![InHand] = response]
       /\ Go(IF response.status = "READY" /\ response.analysed THEN "reporting" ELSE "failing")
  /\ NoFault
  /\ UNCHANGED <<synapse, files, manifest, daily, history>>

VerifyFails ==
  /\ pc = "verifying"
  /\ Go("failing") /\ Fault
  /\ UNCHANGED <<synapse, files, manifest, cache, daily, history>>

(* The result of the record is kept, and shown to the caller's observer,   *)
(* which may raise.                                                        *)
Report ==
  /\ pc = "reporting"
  /\ NextRecord /\ NoFault
  /\ UNCHANGED <<synapse, files, manifest, cache, daily, history>>

ReportFails ==
  /\ pc = "reporting"
  /\ Go("failing") /\ Fault
  /\ UNCHANGED <<synapse, files, manifest, cache, daily, history>>

-----------------------------------------------------------------------------
(* Failure of a record, interruption, and the end of the run.              *)

(* The row goes back to PARTIAL if it is seen EXTRACTING or ANALYZING; the *)
(* cache may answer.  The run goes on to its end, not to the next record.  *)
Inspect ==
  /\ pc = "failing"
  /\ LET response == Fetched(InHand) IN
       /\ cache' = [cache EXCEPT ![InHand] = response]
       /\ pc' = IF response.status \in {"EXTRACTING", "ANALYZING"} THEN "resetting" ELSE "closing"
  /\ errors' = TRUE /\ NoFault
  /\ UNCHANGED <<synapse, files, manifest, plan, at, drawn, worked, daily, history>>

InspectFails ==
  /\ pc = "failing" /\ cache[InHand] = None
  /\ pc' = "closing" /\ errors' = TRUE /\ Fault
  /\ excused' = excused \cup {InHand}
  /\ UNCHANGED <<synapse, files, manifest, cache, plan, at, drawn, worked, daily, overtaken, cleared,
                 orphaned, unnoted>>

Reset(reply) ==
  /\ pc = "resetting"
  /\ Received(reply)
  /\ status' = IF Applied(reply) THEN [status EXCEPT ![InHand] = "PARTIAL"] ELSE status
  /\ moved' = IF Applied(reply) THEN [moved EXCEPT ![InHand] = TRUE] ELSE moved
  /\ cache' = Invalidated(InHand, reply)
  /\ excused' = IF reply = "ok" THEN excused ELSE excused \cup {InHand}
  /\ worked' = (worked \/ reply = "ok")
  /\ pc' = "closing"
  /\ UNCHANGED <<analysed, rows, runRow, files, manifest, plan, at, drawn, errors, daily, overtaken, cleared,
                 orphaned, unnoted>>

AllRecords ==
  /\ pc = "record" /\ at > Len(manifest)
  /\ Go("closing") /\ NoFault
  /\ UNCHANGED <<synapse, files, manifest, cache, daily, history>>

CutShort == IF Executing /\ pc # "reporting" THEN {InHand} ELSE {}

(* already_emitted: an interruption notes no error for a record whose      *)
(* result is kept already.                                                 *)
Noted == IF pc = "reporting" THEN {TRUE, errors} ELSE {TRUE}

(* The result of an interrupted record counts the files it would reuse.    *)
Reusing == at <= Len(manifest) /\ ~plan[InHand].noop /\ plan[InHand].valid # {}

(* Mutants of Interrupted: the result of any record counts as that of the  *)
(* record in hand; the process ends without closing its run.               *)
InterruptedOnceReported ==
  pc' = "closing" /\ errors' = (errors \/ pc = "record" \/ at = 1) /\ UNCHANGED <<cache, plan, at, drawn, worked>>
InterruptedOutright == Leave
Interrupted ==
  /\ pc' = "closing" /\ errors' \in Noted
  /\ worked' \in {worked, worked \/ Reusing}
  /\ UNCHANGED <<cache, plan, at, drawn>>

(* Ctrl+C, or a BaseException of another kind, once the run is open.       *)
Interrupt ==
  /\ pc = "record" \/ Executing
  /\ Interrupted /\ Fault
  /\ excused' = excused \cup CutShort
  /\ unnoted' = IF pc = "reporting" /\ ~errors' THEN at ELSE unnoted
  /\ UNCHANGED <<synapse, files, manifest, daily, overtaken, cleared, orphaned>>

Kill ==
  /\ pc # "idle"
  /\ Leave /\ Fault
  /\ excused' = excused \cup CutShort
  /\ orphaned' = (runRow = "RUNNING")
  /\ UNCHANGED <<synapse, files, manifest, daily, overtaken, cleared, unnoted>>

(* _terminal_status                                                        *)
Terminal == IF ~errors THEN "COMPLETE" ELSE IF worked THEN "PARTIAL" ELSE "FAILED"

CloseRun(reply) ==
  /\ pc = "closing"
  /\ Received(reply)
  /\ runRow' = IF Applied(reply) THEN Terminal ELSE runRow
  /\ orphaned' = ~Applied(reply)
  /\ Leave
  /\ UNCHANGED <<status, analysed, moved, rows, files, manifest, daily, overtaken, cleared, excused, unnoted>>

Batches == {s \in UNION {[1..n -> Records] : n \in 1..Cardinality(Records)} : IsInjective(s)}

Next ==
  \/ \E batch \in Batches : WriteManifest(batch)
  \/ Invoke \/ LoseFiles
  \/ \E r \in Records : Collector(r)
  \/ Preflight \/ PreflightRefused \/ PreflightFails \/ NothingToOpen
  \/ \E reply \in Replies : CreateRun(reply) \/ Claim(reply) \/ PublishFile(reply) \/ StartAnalysis(reply)
                            \/ Finish(reply) \/ Reset(reply) \/ CloseRun(reply)
  \/ \E reply \in Replies \cup {"not promoted"} : Commit(reply)
  \/ SkipAnalysed \/ Refresh \/ RefreshFails
  \/ QueueExhausted \/ Download \/ Analyse \/ TextUnavailable \/ StepFails
  \/ Verify \/ VerifyFails \/ Report \/ ReportFails \/ Inspect \/ InspectFails \/ AllRecords
  \/ Interrupt \/ Kill

Spec == Init /\ [][Next]_vars

-----------------------------------------------------------------------------
(* Properties.                                                             *)

(* The types of the variables; a conjunct of RunClosed.                    *)
Statuses == Pending \cup {"ANALYZING", "READY"}

TypeOK ==
  /\ status \in [Records -> Statuses]
  /\ analysed \in [Records -> BOOLEAN] /\ moved \in [Records -> BOOLEAN]
  /\ rows \subseteq Attachments /\ raw \subseteq Attachments /\ text \subseteq raw
  /\ runRow \in {"none", "RUNNING", "COMPLETE", "PARTIAL", "FAILED"}
  /\ \A i \in DOMAIN manifest : manifest[i].id \in Records /\ manifest[i].status \in Pending
  /\ at \in 1..(Len(manifest) + 1) /\ unnoted \in 0..Len(manifest) /\ drawn \in 0..Cardinality(Attachments)
  /\ Executing => at <= Len(manifest) /\ plan[InHand] # None /\ drawn <= plan[InHand].needed

(* recovery_runner.py:1206: a run takes a record back from READY only if   *)
(* the collector wrote to it after the run's last look, so that what       *)
(* happens between manifest, preflight and execution never costs a         *)
(* finished record.                                                        *)
ReadyKept ==
  [][\A r \in Records : (status[r] = "READY" /\ status'[r] # "READY" /\ visits' = visits) => r \in overtaken]_vars

(* recovery_runner.py:1100: no record is left EXTRACTING or ANALYZING by a *)
(* run that failed on it in an ordinary way.                               *)
FailureReleases ==
  pc = "idle" => \A r \in Records : status[r] \in {"EXTRACTING", "ANALYZING"} => r \in excused \cup overtaken

(* A run is reported COMPLETE only if every record of its manifest has its *)
(* analysis, but for the records after the one whose result was just kept  *)
(* when the run was interrupted: that interruption leaves no error         *)
(* (recovery_runner.py:1134), and the records are not attempted.           *)
CompleteMeansAnalysed ==
  runRow = "COMPLETE" =>
    \A i \in DOMAIN manifest : analysed[manifest[i].id] \/ (unnoted # 0 /\ i > unnoted)

(* A run row stays RUNNING only if the process was killed, or Synapse did  *)
(* not get the call that closes it.                                        *)
RunClosed ==
  /\ TypeOK
  /\ pc = "idle" /\ runRow = "RUNNING" => orphaned

(* An analysis the runner commits is made from every attachment of its     *)
(* record.                                                                 *)
AnalysisComplete ==
  [][\A r \in Records : (analysed'[r] # analysed[r] /\ visits' = visits) => Documents = FilesOf(r)]_vars

(* recovery_preflight_adapter.py:53 calls the refresh "the final           *)
(* pre-mutation guard": a record that no longer matched its manifest there *)
(* is not written to.                                                      *)
GuardHolds ==
  [][\A r \in Records : (status'[r] # status[r] /\ visits' = visits) => r \in cleared]_vars
=============================================================================
