------------------------- MODULE PreparationPipeline -------------------------
(***************************************************************************)
(* Pipeline.run (pipeline.py) from the collected metadata to the coverage  *)
(* commit.  The producer prepares the announcements one by one; each       *)
(* attachment is extracted by a background job; the last of {extraction    *)
(* hooks, producer} of an announcement registers its documents with the    *)
(* LLM scheduler; the hook of the last document queues the reducer; when   *)
(* both pools have drained the run is judged and its interval is, or is    *)
(* not, recorded as covered.  The pools are the ones of module JobPool:    *)
(* jobs run once, in any order, and a pool drains when every hook has      *)
(* returned.  The database outlives the process, which may crash.          *)
(***************************************************************************)
EXTENDS Integers, FiniteSets

CONSTANTS Announcements,   \* of one metadata gap
          Attachments,     \* the selected ones
          AnnouncementOf,  \* Attachments -> Announcements
          DuplicateOf,     \* Attachments -> Attachments; itself if it is no duplicate
          Routine,         \* announcements that triage may send to the direct path
          Mode,            \* "incremental" or "historical_audit"
          MaxRuns,         \* bound on runs over the gap, crashed ones included
          Faults,          \* what may fail (FaultKinds)
          Crashes          \* may the process die?

FaultKinds == {"preparation", "extraction", "document", "reducer", "registration"}
Nobody == "nobody"

ASSUME PipelineAssumption ==
  /\ IsFiniteSet(Attachments) /\ Nobody \notin Announcements
  /\ AnnouncementOf \in [Attachments -> Announcements]
  /\ DuplicateOf \in [Attachments -> Attachments]
  /\ Routine \subseteq Announcements
  /\ Mode \in {"incremental", "historical_audit"}
  /\ MaxRuns \in Nat \ {0}
  /\ Faults \subseteq FaultKinds
  /\ Crashes \in BOOLEAN

NoSummary == [kind |-> "none", from |-> {}]
Summary(documents) == [kind |-> "summary", from |-> documents]

VARIABLES
  (* The database and the files: they survive a crash.                     *)
  text,               \* attachments whose extracted text is stored
  suppressed,         \* attachments deselected as duplicates
  documentSummary,    \* attachments whose document summary is stored
  summary,            \* of each announcement: none, or the documents it was made from
  covered,            \* the gap is recorded as covered
  (* One run's memory.                                                     *)
  run,                \* number of this run
  main,               \* preparing, extracting, summarising, completed, partial
  producer,           \* the announcement being prepared, or Nobody
  plan,               \* PreparationPlan: unseen, skipped, open, closed, queued, failed
  prepared,           \* plan.prepared, then AnnouncementPlan.prepared
  pendingExtractions, extractionFailures, pendingDocuments, documentUpdates,
  caller,             \* who is inside the registration calls of an announcement
  call,               \* which step: none, deduplicate, register, reduce
  extraction,         \* of each attachment: its extraction job and hook
  document,           \* of each attachment: its LLM job and hook
  reducer,            \* of each announcement: its LLM job
  errors,             \* announcements with an entry in errors
  lost                \* history: announcements of which a hook has raised

store == <<text, suppressed, documentSummary, summary>>
counts == <<pendingExtractions, extractionFailures, pendingDocuments, documentUpdates>>
jobs == <<extraction, document, reducer>>
verdict == <<errors, lost>>
control == <<covered, run>>
vars == <<store, control, main, producer, plan, prepared, counts, caller, call, jobs, verdict>>

Of(a) == {x \in Attachments : AnnouncementOf[x] = a}

EachAnnouncement(value) == [a \in Announcements |-> value]
EachAttachment(value) == [x \in Attachments |-> value]

Init ==
  /\ text = {} /\ suppressed = {} /\ documentSummary = {}
  /\ summary = EachAnnouncement(NoSummary)
  /\ covered = FALSE
  /\ run = 1
  /\ main = "preparing"
  /\ producer = Nobody
  /\ plan = EachAnnouncement("unseen")
  /\ prepared = EachAnnouncement({})
  /\ pendingExtractions = EachAnnouncement(0)
  /\ extractionFailures = EachAnnouncement(0)
  /\ pendingDocuments = EachAnnouncement(0)
  /\ documentUpdates = EachAnnouncement(0)
  /\ caller = EachAnnouncement(Nobody)
  /\ call = EachAnnouncement("none")
  /\ extraction = EachAttachment("idle")
  /\ document = EachAttachment("idle")
  /\ reducer = EachAnnouncement("idle")
  /\ errors = {}
  /\ lost = {}

-----------------------------------------------------------------------------
(* The producer.                                                           *)

(* An incremental run skips what already has a valid summary; otherwise    *)
(* the attachments are upserted as selected, and the summary goes if that  *)
(* changes the selection of one of them.                                   *)
BeginAnnouncement(a) ==
  /\ main = "preparing" /\ producer = Nobody /\ plan[a] = "unseen"
  /\ IF Mode = "incremental" /\ summary[a] # NoSummary
     THEN /\ plan' = [plan EXCEPT ![a] = "skipped"]
          /\ UNCHANGED <<producer, suppressed, summary>>
     ELSE /\ plan' = [plan EXCEPT ![a] = "open"]
          /\ producer' = a
          /\ suppressed' = suppressed \ Of(a)
          /\ summary' = IF suppressed \cap Of(a) = {} THEN summary
                        ELSE [summary EXCEPT ![a] = NoSummary]
  /\ UNCHANGED <<text, documentSummary, control, main, prepared, counts, caller, call, jobs, verdict>>

(* Mutant of Counted: the extraction is submitted and not counted.         *)
CountedNot(counter, a) == counter

Counted(counter, a) == [counter EXCEPT ![a] = @ + 1]

(* One turn of the attachment loop: cached text, or a file to extract.     *)
Attach(x) ==
  LET a == AnnouncementOf[x]
  IN /\ producer = a /\ plan[a] = "open" /\ extraction[x] = "idle"
     /\ IF x \in text
        THEN /\ prepared' = [prepared EXCEPT ![a] = @ \cup {x}]
             /\ extraction' = [extraction EXCEPT ![x] = "cached"]
             /\ UNCHANGED counts
        ELSE /\ pendingExtractions' = Counted(pendingExtractions, a)
             /\ extraction' = [extraction EXCEPT ![x] = "running"]
             /\ UNCHANGED <<prepared, extractionFailures, pendingDocuments, documentUpdates>>
  /\ UNCHANGED <<store, control, main, producer, plan, caller, call, document, reducer, verdict>>

(* The preparation raises (a download, the selection, a cached text): the  *)
(* announcement is given up, its jobs run on.                              *)
PreparationFails(a) ==
  /\ "preparation" \in Faults
  /\ producer = a /\ plan[a] = "open"
  /\ plan' = [plan EXCEPT ![a] = "failed"]
  /\ producer' = Nobody
  /\ errors' = errors \cup {a}
  /\ UNCHANGED <<store, control, main, prepared, counts, caller, call, jobs, lost>>

ClosePreparation(a) ==
  /\ producer = a /\ plan[a] = "open"
  /\ \A x \in Of(a) : extraction[x] # "idle"
  /\ plan' = [plan EXCEPT ![a] = "closed"]
  /\ UNCHANGED <<store, control, main, producer, prepared, counts, caller, call, jobs, verdict>>

-----------------------------------------------------------------------------
(* Extraction jobs and their hook.                                         *)

ExtractionEnds(x) ==
  /\ extraction[x] = "running"
  /\ \/ text' = text \cup {x} /\ extraction' = [extraction EXCEPT ![x] = "ended"]
     \/ /\ "extraction" \in Faults   \* returns None, or raises
        /\ \E end \in {"ended", "raised"} : extraction' = [extraction EXCEPT ![x] = end]
        /\ UNCHANGED text
  /\ UNCHANGED <<suppressed, documentSummary, summary, control, main, producer, plan, prepared,
                 counts, caller, call, document, reducer, verdict>>

OneLess(counter, a) == [counter EXCEPT ![a] = @ - 1]

(* extraction_done up to the release of plan.lock.                         *)
ExtractionCounted(x) ==
  LET a == AnnouncementOf[x]
  IN /\ extraction[x] \in {"ended", "raised"}
     /\ errors' = IF extraction[x] = "raised" THEN errors \cup {a} ELSE errors
     /\ IF x \in text
        THEN prepared' = [prepared EXCEPT ![a] = @ \cup {x}] /\ UNCHANGED extractionFailures
        ELSE extractionFailures' = [extractionFailures EXCEPT ![a] = @ + 1] /\ UNCHANGED prepared
     /\ pendingExtractions' = OneLess(pendingExtractions, a)
     /\ extraction' = [extraction EXCEPT ![x] = "counted"]
  /\ UNCHANGED <<store, control, main, producer, plan, pendingDocuments, documentUpdates, caller,
                 call, document, reducer, lost>>

(* Mutant of Ready: downstream_queued is not tested.                       *)
ReadyAgain(a) == plan[a] \in {"closed", "queued"} /\ pendingExtractions[a] = 0

(* The first lock of _complete_preparation_if_ready.                       *)
Ready(a) == plan[a] = "closed" /\ pendingExtractions[a] = 0

Claim(a, who) ==
  /\ plan' = [plan EXCEPT ![a] = "queued"]
  /\ caller' = [caller EXCEPT ![a] = who]
  /\ call' = [call EXCEPT ![a] = "deduplicate"]

HookCompletes(x) ==
  LET a == AnnouncementOf[x]
  IN /\ extraction[x] = "counted"
     /\ IF Ready(a)
        THEN /\ Claim(a, "extraction hook")
             /\ extraction' = [extraction EXCEPT ![x] = "calling"]
        ELSE /\ extraction' = [extraction EXCEPT ![x] = "notified"]
             /\ UNCHANGED <<plan, caller, call>>
  /\ UNCHANGED <<store, control, main, producer, prepared, counts, document, reducer, verdict>>

ProducerCompletes(a) ==
  /\ producer = a /\ plan[a] \in {"closed", "queued"} /\ caller[a] # "producer"
  /\ IF Ready(a)
     THEN Claim(a, "producer") /\ UNCHANGED producer
     ELSE producer' = Nobody /\ UNCHANGED <<plan, caller, call>>
  /\ UNCHANGED <<store, control, main, prepared, counts, jobs, verdict>>

-----------------------------------------------------------------------------
(* What the caller does without a lock: the rest of                        *)
(* _complete_preparation_if_ready, _queue_llm_plan and the two             *)
(* _queue_..._reducer functions.  Each reads files and the database.       *)

(* Mutant of Released: the pool goes on counting the hook.                 *)
ReleasedNever(state, a) == state

(* The hook that made the call is over with it.                            *)
Released(state, a) ==
  [x \in Attachments |-> IF x \in Of(a) /\ state[x] = "calling" THEN "notified" ELSE state[x]]

Return(a) ==
  /\ caller' = [caller EXCEPT ![a] = Nobody]
  /\ call' = [call EXCEPT ![a] = "none"]
  /\ producer' = IF caller[a] = "producer" THEN Nobody ELSE producer
  /\ extraction' = Released(extraction, a)

(* An exception reaches the producer's handler or, from a hook, the        *)
(* scheduler, which only logs it.                                          *)
CallRaises(a) ==
  /\ "registration" \in Faults
  /\ call[a] # "none"
  /\ Return(a)
  /\ document' = Released(document, a)
  /\ IF caller[a] = "producer"
     THEN errors' = errors \cup {a} /\ UNCHANGED lost
     ELSE lost' = lost \cup {a} /\ UNCHANGED errors
  /\ UNCHANGED <<store, control, main, plan, prepared, counts, reducer>>

Kept(a) == {x \in prepared[a] : DuplicateOf[x] = x \/ DuplicateOf[x] \notin prepared[a]}

(* Duplicates are deselected, and with them an older summary goes.         *)
Deduplicate(a) ==
  /\ call[a] = "deduplicate"
  /\ prepared' = [prepared EXCEPT ![a] = Kept(a)]
  /\ suppressed' = suppressed \cup (prepared[a] \ Kept(a))
  /\ summary' = IF Kept(a) = prepared[a] THEN summary ELSE [summary EXCEPT ![a] = NoSummary]
  /\ call' = [call EXCEPT ![a] = "register"]
  /\ UNCHANGED <<text, documentSummary, control, main, producer, plan, counts, caller, jobs,
                 verdict>>

(* Triage; then submit a job per document that has no valid summary, or go *)
(* on to the reducer.                                                      *)
Register(a) ==
  /\ call[a] = "register"
  /\ \E direct \in BOOLEAN :
       LET pending == prepared[a] \ documentSummary
       IN /\ direct => a \in Routine /\ extractionFailures[a] = 0
          /\ IF direct \/ pending = {}
             THEN /\ call' = [call EXCEPT ![a] = IF direct THEN "reduce directly" ELSE "reduce"]
                  /\ UNCHANGED <<pendingDocuments, document, caller, producer, extraction>>
             ELSE /\ pendingDocuments' = [pendingDocuments EXCEPT ![a] = Cardinality(pending)]
                  /\ document' = [x \in Attachments |->
                       IF x \in pending THEN "running" ELSE document[x]]
                  /\ Return(a)
  /\ UNCHANGED <<store, control, main, plan, prepared, pendingExtractions, extractionFailures,
                 documentUpdates, reducer, verdict>>

(* A valid cached summary is kept if no document was summarised anew.      *)
QueueReducer(a) ==
  /\ call[a] \in {"reduce", "reduce directly"}
  /\ IF summary[a] # NoSummary /\ (call[a] = "reduce directly" \/ documentUpdates[a] = 0)
     THEN UNCHANGED reducer
     ELSE reducer' = [reducer EXCEPT ![a] = call[a]]
  /\ Return(a)
  /\ document' = Released(document, a)
  /\ UNCHANGED <<store, control, main, plan, prepared, counts, verdict>>

-----------------------------------------------------------------------------
(* LLM jobs and their hooks.                                               *)

DocumentEnds(x) ==
  /\ document[x] = "running"
  /\ \/ documentSummary' = documentSummary \cup {x} /\ document' = [document EXCEPT ![x] = "ended"]
     \/ /\ "document" \in Faults
        /\ document' = [document EXCEPT ![x] = "raised"]
        /\ UNCHANGED documentSummary
  /\ UNCHANGED <<text, suppressed, summary, control, main, producer, plan, prepared, counts,
                 caller, call, extraction, reducer, verdict>>

(* Mutant of LastDocument: off by one.                                     *)
LastButOne(a) == pendingDocuments[a] <= 2

LastDocument(a) == pendingDocuments[a] = 1

(* The hook of a document; that of the last one goes on to the reducer.    *)
DocumentCounted(x) ==
  LET a == AnnouncementOf[x]
  IN /\ document[x] \in {"ended", "raised"}
     /\ pendingDocuments' = OneLess(pendingDocuments, a)
     /\ documentUpdates' = IF document[x] = "ended" THEN [documentUpdates EXCEPT ![a] = @ + 1]
                           ELSE documentUpdates
     /\ errors' = IF document[x] = "raised" THEN errors \cup {a} ELSE errors
     /\ document' = [document EXCEPT ![x] = IF LastDocument(a) THEN "calling" ELSE "notified"]
     /\ IF LastDocument(a)
        THEN /\ caller' = [caller EXCEPT ![a] = "document hook"]
             /\ call' = [call EXCEPT ![a] = "reduce"]
        ELSE UNCHANGED <<caller, call>>
  /\ UNCHANGED <<store, control, main, producer, plan, prepared, pendingExtractions,
                 extractionFailures, extraction, reducer, lost>>

(* The reducer sees the selected documents that have a summary; the direct *)
(* one reads the texts.  It fails before the summary is saved, or after.   *)
ReducerEnds(a) ==
  LET evidence == IF reducer[a] = "reduce" THEN (Of(a) \ suppressed) \cap documentSummary
                  ELSE prepared[a]
      saved == [summary EXCEPT ![a] = Summary(evidence)]
  IN /\ reducer[a] \in {"reduce", "reduce directly"}
     /\ \/ summary' = saved /\ UNCHANGED errors
        \/ "reducer" \in Faults /\ summary' \in {summary, saved} /\ errors' = errors \cup {a}
     /\ reducer' = [reducer EXCEPT ![a] = "notified"]
     /\ UNCHANGED <<text, suppressed, documentSummary, control, main, producer, plan, prepared,
                    counts, caller, call, extraction, document, lost>>

-----------------------------------------------------------------------------
(* The main thread after the loop.                                         *)

AwaitExtraction ==
  /\ main = "preparing" /\ producer = Nobody
  /\ \A a \in Announcements : plan[a] # "unseen"
  /\ main' = "extracting"
  /\ UNCHANGED <<store, control, producer, plan, prepared, counts, caller, call, jobs, verdict>>

(* Mutant of ExtractionIdle: the pool drains while hooks are running.      *)
ExtractionIdleBeforeHooks ==
  \A x \in Attachments : extraction[x] \in {"idle", "cached", "counted", "calling", "notified"}

ExtractionIdle ==
  \A x \in Attachments : extraction[x] \in {"idle", "cached", "notified"}

ExtractionDrained ==
  /\ main = "extracting"
  /\ ExtractionIdle
  /\ main' = "summarising"
  /\ UNCHANGED <<store, control, producer, plan, prepared, counts, caller, call, jobs, verdict>>

(* Mutant of Clean: the errors list is not looked at.                      *)
CleanAlways == TRUE

Clean == errors = {}

Report ==
  /\ main = "summarising"
  /\ \A x \in Attachments : document[x] \in {"idle", "notified"}
  /\ \A a \in Announcements : reducer[a] \in {"idle", "notified"}
  /\ covered' = Clean
  /\ main' = IF Clean THEN "completed" ELSE "partial"
  /\ UNCHANGED <<store, run, producer, plan, prepared, counts, caller, call, jobs, verdict>>

(* The next run, after a partial one or a crash, starts from the store.    *)
Restart ==
  /\ run < MaxRuns
  /\ main = "partial" \/ (Crashes /\ ~covered)
  /\ run' = run + 1
  /\ main' = "preparing"
  /\ producer' = Nobody
  /\ plan' = EachAnnouncement("unseen")
  /\ prepared' = EachAnnouncement({})
  /\ pendingExtractions' = EachAnnouncement(0)
  /\ extractionFailures' = EachAnnouncement(0)
  /\ pendingDocuments' = EachAnnouncement(0)
  /\ documentUpdates' = EachAnnouncement(0)
  /\ caller' = EachAnnouncement(Nobody)
  /\ call' = EachAnnouncement("none")
  /\ extraction' = EachAttachment("idle")
  /\ document' = EachAttachment("idle")
  /\ reducer' = EachAnnouncement("idle")
  /\ errors' = {}
  /\ lost' = {}
  /\ UNCHANGED <<store, covered>>

Over == main = "completed" \/ (main = "partial" /\ run = MaxRuns)
Terminated == Over /\ UNCHANGED vars

Producer ==
  \/ \E a \in Announcements : BeginAnnouncement(a) \/ ClosePreparation(a) \/ ProducerCompletes(a)
                              \/ PreparationFails(a)
  \/ \E x \in Attachments : Attach(x)
  \/ AwaitExtraction \/ ExtractionDrained \/ Report

Job(x) ==
  \/ ExtractionEnds(x) \/ ExtractionCounted(x) \/ HookCompletes(x)
  \/ DocumentEnds(x) \/ DocumentCounted(x)

Downstream(a) == CallRaises(a) \/ Deduplicate(a) \/ Register(a) \/ QueueReducer(a) \/ ReducerEnds(a)

Next ==
  \/ Producer
  \/ \E x \in Attachments : Job(x)
  \/ \E a \in Announcements : Downstream(a)
  \/ Restart
  \/ Terminated

Spec == Init /\ [][Next]_vars

(* Threads run, and downloads, extractions and requests time out.          *)
FairSpec == Spec /\ WF_vars(Next)

-----------------------------------------------------------------------------
AtWork(state, a) == {x \in Of(a) : state[x] \in {"running", "ended", "raised"}}

JobStates == {"idle", "cached", "running", "ended", "raised", "counted", "calling", "notified"}

TypeOK ==
  /\ text \cup suppressed \cup documentSummary \subseteq Attachments
  /\ summary \in [Announcements -> {NoSummary} \cup {Summary(d) : d \in SUBSET Attachments}]
  /\ covered \in BOOLEAN
  /\ run \in 1..MaxRuns
  /\ main \in {"preparing", "extracting", "summarising", "completed", "partial"}
  /\ producer \in Announcements \cup {Nobody}
  /\ plan \in [Announcements -> {"unseen", "skipped", "open", "closed", "queued", "failed"}]
  /\ prepared \in [Announcements -> SUBSET Attachments]
  /\ pendingExtractions \in [Announcements -> Nat]
  /\ pendingDocuments \in [Announcements -> Nat]
  /\ extractionFailures \in [Announcements -> Nat]
  /\ documentUpdates \in [Announcements -> Nat]
  /\ caller \in [Announcements -> {Nobody, "producer", "extraction hook", "document hook"}]
  /\ call \in [Announcements -> {"none", "deduplicate", "register", "reduce", "reduce directly"}]
  /\ extraction \in [Attachments -> JobStates]
  /\ document \in [Attachments -> JobStates]
  /\ reducer \in [Announcements -> {"idle", "reduce", "reduce directly", "notified"}]
  /\ errors \cup lost \subseteq Announcements

(* The counters that decide who goes on are the jobs still out, whatever   *)
(* the order in which jobs, hooks and the producer take plan.lock.         *)
OutstandingExact ==
  /\ TypeOK
  /\ \A a \in Announcements :
       /\ pendingExtractions[a] = Cardinality(AtWork(extraction, a))
       /\ pendingDocuments[a] = Cardinality(AtWork(document, a))

(* Downstream work starts from all the texts of the announcement: none is  *)
(* still being extracted, none arrives late, only duplicates are left out. *)
(* A reducer is queued only when no document job of its announcement is    *)
(* out, so it never summarises half of the evidence.                       *)
EvidenceComplete ==
  \A a \in Announcements :
    /\ plan[a] = "queued" =>
         /\ AtWork(extraction, a) = {}
         /\ prepared[a] \cup (suppressed \cap Of(a)) = text \cap Of(a)
    /\ reducer[a] # "idle" => AtWork(document, a) = {}

(* In one run no document and no announcement is submitted twice: one of   *)
(* the racing hooks and the producer registers an announcement.            *)
SubmittedOnce ==
  [][run' = run =>
       /\ \A x \in Attachments : document'[x] = "running" => document[x] \in {"idle", "running"}
       /\ \A a \in Announcements : reducer'[a] # reducer[a] =>
            reducer[a] = "idle" \/ reducer'[a] = "notified"]_vars

(* The verdict comes last: when the run is judged, and its interval may be *)
(* recorded, no job, hook or registration call is left that could fail.    *)
NothingAfterVerdict ==
  main \in {"completed", "partial"} =>
    \A a \in Announcements :
      /\ caller[a] = Nobody
      /\ reducer[a] \in {"idle", "notified"}
      /\ AtWork(extraction, a) \cup AtWork(document, a) = {}

(* A covered interval has a summary of every announcement, and it accounts *)
(* for every selected document that was itself summarised, unless a hook   *)
(* has raised: through every mix of failed downloads, extractions, model   *)
(* calls, crashes and repeated runs (pipeline.py:1474).                    *)
CoverageSound ==
  covered /\ lost = {} =>
    \A a \in Announcements :
      /\ summary[a] # NoSummary
      /\ (documentSummary \cap Of(a)) \ suppressed \subseteq summary[a].from

(* The summaries of a covered interval account for every document that was *)
(* extracted and is not a duplicate: a partial run "leave[s] the unproven  *)
(* interval missing. The next run therefore retries the gap rather than    *)
(* silently skipping it" (HOW_IT_WORKS.md, section 11).                    *)
CoverageComplete ==
  covered => \A a \in Announcements : (text \cap Of(a)) \ suppressed \subseteq summary[a].from

(* Every run is judged in the end.                                         *)
RunEnds == <>(main \in {"completed", "partial"})
=============================================================================
