--------------------- MODULE PreparationPipeline_proofs ---------------------
(***************************************************************************)
(* For any finite set of attachments, any assignment of them to            *)
(* announcements, any faults, crashes and number of runs: the counters of  *)
(* the preparation pipeline are exact, the evidence is whole, nothing is   *)
(* submitted twice, nothing is left at the verdict, and (in incremental    *)
(* runs) a covered interval is summarised.                                 *)
(*                                                                         *)
(* IInv is the inductive invariant.  The life of an announcement is spread *)
(* over its plan, its caller and call, the states of its extraction and    *)
(* document jobs and its reducer; the conjuncts say which of them can      *)
(* occur together.  All but MainOrdered speak of one announcement, and an  *)
(* action touches one: SameFor and OthersKeep deal with the rest.          *)
(***************************************************************************)
EXTENDS PreparationPipeline, FiniteSetTheorems, TLAPS

CountsExact(a) ==
  /\ pendingExtractions[a] = Cardinality(AtWork(extraction, a))
  /\ pendingDocuments[a] = Cardinality(AtWork(document, a))

NoDocumentYet(a) == \A x \in Of(a) : document[x] = "idle"

(* Who registers an announcement, and what is left to do afterwards.       *)
StagesOrdered(a) ==
  /\ call[a] = "none" <=> caller[a] = Nobody
  /\ plan[a] # "queued" => call[a] = "none" /\ reducer[a] = "idle" /\ NoDocumentYet(a)
  /\ call[a] \in {"deduplicate", "register"} => reducer[a] = "idle" /\ NoDocumentYet(a)
  /\ call[a] \in {"reduce", "reduce directly"} => reducer[a] = "idle" /\ AtWork(document, a) = {}
  /\ AtWork(document, a) # {} => call[a] = "none" /\ reducer[a] = "idle"

(* A caller is inside the hook, or the loop, that made it one.             *)
CallerPlaced(a) ==
  /\ caller[a] = "producer" => producer = a
  /\ caller[a] = "extraction hook" => \E x \in Of(a) : extraction[x] = "calling"
  /\ caller[a] = "document hook" => \E x \in Of(a) : document[x] = "calling"

Extracted(a) == {x \in Of(a) \cap text : extraction[x] \in {"cached", "counted", "calling", "notified"}}

(* What is prepared, at each state of the plan.                            *)
PlanExact(a) ==
  /\ \A x \in Of(a) : extraction[x] = "running" => x \notin text
  /\ prepared[a] \subseteq Of(a)
  /\ plan[a] = "open" => producer = a
  /\ producer = a => plan[a] \in {"open", "closed", "queued"}
  /\ plan[a] \in {"unseen", "skipped"} => \A x \in Of(a) : extraction[x] = "idle"
  /\ plan[a] = "unseen" => prepared[a] = {}
  /\ plan[a] \in {"open", "closed"} => suppressed \cap Of(a) = {} /\ prepared[a] = Extracted(a)
  /\ plan[a] \in {"closed", "queued"} => \A x \in Of(a) : extraction[x] # "idle"
  /\ plan[a] = "queued" =>
       AtWork(extraction, a) = {} /\ prepared[a] \cup (suppressed \cap Of(a)) = text \cap Of(a)

(* A closed plan that nobody has claimed yet will be looked at again.      *)
ClosedWatched(a) ==
  plan[a] = "closed" => \/ producer = a
                        \/ AtWork(extraction, a) # {}
                        \/ \E x \in Of(a) : extraction[x] = "counted"

(* An announcement without a summary has work left or has left a trace.    *)
Summarised(a) ==
  /\ documentSummary \cap Of(a) \subseteq text
  /\ \A x \in Of(a) : document[x] # "idle" => x \in text
  /\ plan[a] = "failed" => a \in errors
  /\ plan[a] = "skipped" => summary[a] # NoSummary
  /\ plan[a] = "queued" /\ a \notin errors \cup lost =>
       \/ call[a] # "none"
       \/ AtWork(document, a) # {}
       \/ reducer[a] \in {"reduce", "reduce directly"}
       \/ summary[a] # NoSummary

(* In incremental runs a plan is opened only without a summary, so the one *)
(* it gets accounts for every document summarised before.                  *)
SummarySound(a) ==
  Mode = "incremental" =>
    /\ summary[a] # NoSummary =>
         (documentSummary \cap Of(a)) \ suppressed \subseteq summary[a].from
    /\ plan[a] \in {"open", "closed", "failed"} \/ (plan[a] = "queued" /\ reducer[a] # "notified")
         => summary[a] = NoSummary

Consistent(a) ==
  /\ CountsExact(a) /\ StagesOrdered(a) /\ CallerPlaced(a) /\ PlanExact(a)
  /\ ClosedWatched(a) /\ Summarised(a) /\ SummarySound(a)

(* What the main thread has waited for stays so.                           *)
MainOrdered ==
  /\ main # "preparing" => producer = Nobody /\ \A a \in Announcements : plan[a] # "unseen"
  /\ main \in {"summarising", "completed", "partial"} => ExtractionIdle
  /\ main \in {"completed", "partial"} =>
       /\ \A x \in Attachments : document[x] \in {"idle", "notified"}
       /\ \A a \in Announcements : reducer[a] \in {"idle", "notified"}
  /\ covered <=> main = "completed"
  /\ covered => errors = {}

IInv == TypeOK /\ MainOrdered /\ \A a \in Announcements : Consistent(a)

USE DEF Nobody, store, control, counts, jobs, verdict

-----------------------------------------------------------------------------
(* Counting the jobs that are out.                                         *)

LEMMA Outstanding ==
  ASSUME NEW state, NEW a
  PROVE  /\ IsFiniteSet(AtWork(state, a))
         /\ Cardinality(AtWork(state, a)) \in Nat
         /\ Cardinality(AtWork(state, a)) = 0 <=> AtWork(state, a) = {}
<1>1. AtWork(state, a) \in SUBSET Attachments
  BY DEF AtWork, Of
<1> QED BY <1>1, PipelineAssumption, FS_Subset, FS_CardinalityType, FS_EmptySet

LEMMA JobStarts ==
  ASSUME NEW state, NEW a, NEW x, x \notin AtWork(state, a)
  PROVE  Cardinality(AtWork(state, a) \cup {x}) = Cardinality(AtWork(state, a)) + 1
BY Outstanding, FS_AddElement

LEMMA JobLeaves ==
  ASSUME NEW state, NEW a, NEW x, x \in AtWork(state, a)
  PROVE  /\ Cardinality(AtWork(state, a) \ {x}) = Cardinality(AtWork(state, a)) - 1
         /\ Cardinality(AtWork(state, a)) >= 1
<1>1. Cardinality(AtWork(state, a) \ {x}) = Cardinality(AtWork(state, a)) - 1
  BY Outstanding, FS_RemoveElement
<1>2. Cardinality(AtWork(state, a)) \in Nat /\ Cardinality(AtWork(state, a)) # 0
  BY Outstanding
<1> QED BY <1>1, <1>2

LEMMA CountersTyped ==
  ASSUME TypeOK
  PROVE  /\ pendingExtractions \in [Announcements -> Nat] /\ pendingDocuments \in [Announcements -> Nat]
         /\ extractionFailures \in [Announcements -> Nat] /\ documentUpdates \in [Announcements -> Nat]
BY DEF TypeOK

LEMMA CountUp ==
  ASSUME NEW counter \in [Announcements -> Nat], NEW a \in Announcements
  PROVE  /\ Counted(counter, a) \in [Announcements -> Nat]
         /\ Counted(counter, a)[a] = counter[a] + 1
         /\ \A b \in Announcements \ {a} : Counted(counter, a)[b] = counter[b]
BY DEF Counted

LEMMA CountDown ==
  ASSUME NEW counter \in [Announcements -> Nat], NEW a \in Announcements, counter[a] >= 1
  PROVE  /\ OneLess(counter, a) \in [Announcements -> Nat]
         /\ OneLess(counter, a)[a] = counter[a] - 1
         /\ \A b \in Announcements \ {a} : OneLess(counter, a)[b] = counter[b]
BY DEF OneLess

-----------------------------------------------------------------------------
(* An announcement no part of which changes stays consistent.              *)

SameJobs(a) ==
  \A x \in Of(a) : extraction'[x] = extraction[x] /\ document'[x] = document[x]

SameStore(a) ==
  /\ summary'[a] = summary[a]
  /\ \A x \in Of(a) : /\ x \in text' <=> x \in text
                      /\ x \in suppressed' <=> x \in suppressed
                      /\ x \in documentSummary' <=> x \in documentSummary

SameMemory(a) ==
  /\ plan'[a] = plan[a] /\ prepared'[a] = prepared[a]
  /\ caller'[a] = caller[a] /\ call'[a] = call[a] /\ reducer'[a] = reducer[a]
  /\ pendingExtractions'[a] = pendingExtractions[a] /\ pendingDocuments'[a] = pendingDocuments[a]
  /\ producer' = a <=> producer = a
  /\ a \in errors' <=> a \in errors
  /\ a \in lost' <=> a \in lost

LEMMA SameAtWork ==
  ASSUME NEW a, SameJobs(a)
  PROVE  AtWork(extraction, a)' = AtWork(extraction, a) /\ AtWork(document, a)' = AtWork(document, a)
BY DEF SameJobs, AtWork, Of

LEMMA OthersKeep ==
  ASSUME NEW a \in Announcements, Consistent(a), SameJobs(a), SameStore(a), SameMemory(a)
  PROVE  Consistent(a)'
<1> USE SameAtWork DEF Consistent, SameMemory
<1>1. CountsExact(a)'
  BY DEF CountsExact
<1>2. StagesOrdered(a)' /\ CallerPlaced(a)'
  BY DEF StagesOrdered, CallerPlaced, NoDocumentYet, SameJobs, Of
<1>3. PlanExact(a)'
  <2>1. Extracted(a)' = Extracted(a) /\ (suppressed \cap Of(a))' = suppressed \cap Of(a)
        /\ (text \cap Of(a))' = text \cap Of(a)
    BY DEF Extracted, SameJobs, SameStore, Of
  <2> QED BY <2>1 DEF PlanExact, SameJobs, SameStore, Of
<1>4. ClosedWatched(a)'
  BY DEF ClosedWatched, SameJobs, Of
<1>5. Summarised(a)'
  BY DEF Summarised, SameJobs, SameStore, Of
<1>6. SummarySound(a)'
  BY DEF SummarySound, SameStore, Of
<1> QED BY <1>1, <1>2, <1>3, <1>4, <1>5, <1>6

-----------------------------------------------------------------------------
(* Who may still be at work when the main thread has come that far.        *)

LEMMA AfterExtraction ==
  ASSUME IInv, main \in {"summarising", "completed", "partial"}
  PROVE  /\ ExtractionIdle /\ producer = Nobody
         /\ \A a \in Announcements :
              /\ caller[a] \in {Nobody, "document hook"}
              /\ plan[a] \in {"skipped", "failed", "queued"}
              /\ AtWork(extraction, a) = {}
<1> USE PipelineAssumption
<1>1. ExtractionIdle /\ producer = Nobody /\ \A a \in Announcements : plan[a] # "unseen"
  BY DEF IInv, MainOrdered
<1>2. ASSUME NEW a \in Announcements
      PROVE  /\ caller[a] \in {Nobody, "document hook"}
             /\ plan[a] \in {"skipped", "failed", "queued"}
             /\ AtWork(extraction, a) = {}
  <2>1. TypeOK /\ CallerPlaced(a) /\ PlanExact(a) /\ ClosedWatched(a)
    BY DEF IInv, Consistent
  <2>2. AtWork(extraction, a) = {}
    BY <1>1 DEF ExtractionIdle, AtWork, Of
  <2>3. caller[a] \in {Nobody, "document hook"}
    BY <1>1, <2>1 DEF TypeOK, CallerPlaced, ExtractionIdle, Of
  <2>4. plan[a] \in {"skipped", "failed", "queued"}
    BY <1>1, <2>1, <2>2 DEF TypeOK, PlanExact, ClosedWatched, ExtractionIdle, Of
  <2> QED BY <2>2, <2>3, <2>4
<1> QED BY <1>1, <1>2

LEMMA AfterVerdict ==
  ASSUME IInv, main \in {"completed", "partial"}
  PROVE  \A a \in Announcements :
           /\ caller[a] = Nobody /\ call[a] = "none"
           /\ reducer[a] \in {"idle", "notified"}
           /\ AtWork(document, a) = {}
<1> SUFFICES ASSUME NEW a \in Announcements
             PROVE  /\ caller[a] = Nobody /\ call[a] = "none"
                    /\ reducer[a] \in {"idle", "notified"}
                    /\ AtWork(document, a) = {}
  OBVIOUS
<1>1. CallerPlaced(a) /\ StagesOrdered(a) /\ MainOrdered
  BY DEF IInv, Consistent
<1>2. caller[a] \in {Nobody, "document hook"}
  BY AfterExtraction
<1>3. caller[a] = Nobody
  BY <1>1, <1>2 DEF CallerPlaced, MainOrdered, Of
<1> QED BY <1>1, <1>3 DEF StagesOrdered, MainOrdered, AtWork, Of

-----------------------------------------------------------------------------
(* One lemma per action, and in it one step per conjunct it may disturb.   *)

LEMMA InitIInv ==
  ASSUME Init
  PROVE  IInv
<1> USE PipelineAssumption DEF Init, EachAnnouncement, EachAttachment
<1>1. TypeOK
  <2>1. summary \in [Announcements -> {NoSummary} \cup {Summary(d) : d \in SUBSET Attachments}]
    OBVIOUS
  <2>2. run \in 1..MaxRuns
    OBVIOUS
  <2> QED BY <2>1, <2>2 DEF TypeOK, JobStates
<1>2. ASSUME NEW a \in Announcements
      PROVE  Consistent(a)
  <2>1. AtWork(extraction, a) = {} /\ AtWork(document, a) = {}
    BY DEF AtWork, Of
  <2>2. CountsExact(a)
    BY <2>1, FS_EmptySet DEF CountsExact
  <2>3. StagesOrdered(a) /\ CallerPlaced(a) /\ ClosedWatched(a)
    BY <2>1 DEF StagesOrdered, CallerPlaced, ClosedWatched, NoDocumentYet, Of
  <2>4. PlanExact(a) /\ Summarised(a) /\ SummarySound(a)
    BY <2>1 DEF PlanExact, Summarised, SummarySound, Of
  <2> QED BY <2>2, <2>3, <2>4 DEF Consistent
<1>3. MainOrdered
  BY DEF MainOrdered
<1> QED BY <1>1, <1>2, <1>3 DEF IInv

LEMMA RegisterKeeps ==
  ASSUME IInv, NEW a \in Announcements, Register(a)
  PROVE  IInv'
<1> DEFINE pending == prepared[a] \ documentSummary
<1> USE PipelineAssumption
<1>i. TypeOK /\ MainOrdered /\ Consistent(a)
  BY DEF IInv
<1>f. /\ call[a] = "register"
      /\ UNCHANGED <<store, control, main, plan, prepared, pendingExtractions, extractionFailures,
                     documentUpdates, reducer, verdict>>
  BY DEF Register
<1>q. plan[a] = "queued" /\ reducer[a] = "idle" /\ NoDocumentYet(a) /\ pending \subseteq Of(a) \cap text
  BY <1>i, <1>f DEF Consistent, StagesOrdered, PlanExact, TypeOK
<1>c. main \in {"preparing", "extracting"}
  BY <1>i, <1>f, <1>q, AfterExtraction DEF TypeOK, Consistent, StagesOrdered, CallerPlaced, NoDocumentYet
<1>a. ASSUME NEW label \in {"reduce", "reduce directly"}, call' = [call EXCEPT ![a] = label],
             UNCHANGED <<pendingDocuments, document, caller, producer, extraction>>
      PROVE  IInv'
  <2> USE <1>f, <1>a
  <2>1. call' \in [Announcements -> {"none", "deduplicate", "register", "reduce", "reduce directly"}]
    BY <1>i DEF TypeOK
  <2>2. TypeOK'
    BY <1>i, <2>1 DEF TypeOK
  <2>3. call'[a] = label /\ \A b \in Announcements \ {a} : call'[b] = call[b]
    BY <1>i DEF TypeOK
  <2>4. \A b \in Announcements \ {a} : Consistent(b)'
    BY <2>3, OthersKeep DEF IInv, SameJobs, SameStore, SameMemory
  <2>5. Consistent(a)'
    BY <1>i, <1>q, <2>3, SameAtWork DEF Consistent, CountsExact, StagesOrdered, CallerPlaced, PlanExact,
          ClosedWatched, Summarised, SummarySound, NoDocumentYet, AtWork, SameJobs, Extracted
  <2>6. MainOrdered'
    BY <1>i DEF MainOrdered, ExtractionIdle
  <2> QED BY <2>2, <2>4, <2>5, <2>6 DEF IInv
<1>b. ASSUME pending # {},
             pendingDocuments' = [pendingDocuments EXCEPT ![a] = Cardinality(pending)],
             document' = [x \in Attachments |->  IF x \in pending THEN "running" ELSE document[x]],
             Return(a)
      PROVE  IInv'
  <2> USE <1>f, <1>b DEF Return, Released
  <2>1. Cardinality(pending) \in Nat
    BY <1>q, FS_Subset, FS_CardinalityType DEF Of
  <2>2. TypeOK'
    BY <1>i, <2>1 DEF TypeOK, JobStates
  <2>3. /\ call'[a] = "none" /\ caller'[a] = Nobody /\ pendingDocuments'[a] = Cardinality(pending)
        /\ \A b \in Announcements \ {a} : /\ call'[b] = call[b] /\ caller'[b] = caller[b]
                                          /\ pendingDocuments'[b] = pendingDocuments[b]
    BY <1>i DEF TypeOK
  <2>4. ASSUME NEW b \in Announcements \ {a}
        PROVE  Consistent(b)'
    <3>1. SameJobs(b)
      BY <1>q DEF SameJobs, Of
    <3>2. SameStore(b) /\ SameMemory(b)
      BY <1>i, <2>3 DEF SameStore, SameMemory, Consistent, CallerPlaced
    <3> QED BY <3>1, <3>2, OthersKeep DEF IInv
  <2>5. AtWork(document, a)' = pending /\ AtWork(extraction, a)' = AtWork(extraction, a)
    BY <1>q DEF AtWork, Of, NoDocumentYet
  <2>6. CountsExact(a)' /\ StagesOrdered(a)' /\ CallerPlaced(a)' /\ ClosedWatched(a)'
    BY <1>i, <1>q, <2>3, <2>5 DEF Consistent, CountsExact, StagesOrdered, CallerPlaced, ClosedWatched
  <2>7. PlanExact(a)'
    BY <1>i, <1>q, <2>3, <2>5 DEF Consistent, PlanExact, Of, TypeOK
  <2>8. Summarised(a)' /\ SummarySound(a)'
    BY <1>i, <1>q, <2>3, <2>5 DEF Consistent, Summarised, SummarySound, Of, NoDocumentYet
  <2>9. MainOrdered'
    BY <1>i, <1>f, <1>c DEF MainOrdered
  <2> QED BY <2>2, <2>4, <2>6, <2>7, <2>8, <2>9 DEF IInv, Consistent
<1> QED BY <1>a, <1>b DEF Register

LEMMA BeginKeeps ==
  ASSUME IInv, NEW a \in Announcements, BeginAnnouncement(a)
  PROVE  IInv'
<1> USE PipelineAssumption
<1>i. TypeOK /\ MainOrdered /\ Consistent(a)
  BY DEF IInv
<1>f. /\ main = "preparing" /\ producer = Nobody /\ plan[a] = "unseen"
      /\ UNCHANGED <<text, documentSummary, control, main, prepared, counts, caller, call, jobs, verdict>>
  BY DEF BeginAnnouncement
<1>m. ASSUME plan'[a] # "unseen", \A b \in Announcements \ {a} : plan'[b] = plan[b]
      PROVE  MainOrdered'
  BY <1>i, <1>f, <1>m DEF MainOrdered
<1>j. SameJobs(a) /\ \A b \in Announcements : SameJobs(b)
  BY <1>f DEF SameJobs
<1>a. ASSUME Mode = "incremental", summary[a] # NoSummary,
             plan' = [plan EXCEPT ![a] = "skipped"], UNCHANGED <<producer, suppressed, summary>>
      PROVE  IInv'
  <2> USE <1>f, <1>a
  <2>1. TypeOK' /\ plan'[a] = "skipped" /\ \A b \in Announcements \ {a} : plan'[b] = plan[b]
    BY <1>i DEF TypeOK
  <2>2. \A b \in Announcements \ {a} : Consistent(b)'
    BY <2>1, <1>j, OthersKeep DEF IInv, SameStore, SameMemory
  <2>3. Consistent(a)'
    BY <1>i, <1>j, <2>1, SameAtWork DEF Consistent, CountsExact, StagesOrdered, CallerPlaced, PlanExact,
          ClosedWatched, Summarised, SummarySound, NoDocumentYet
  <2> QED BY <1>m, <2>1, <2>2, <2>3 DEF IInv
<1>b. ASSUME ~(Mode = "incremental" /\ summary[a] # NoSummary),
             plan' = [plan EXCEPT ![a] = "open"],
             producer' = a,
             suppressed' = suppressed \ Of(a),
             summary' = IF suppressed \cap Of(a) = {} THEN summary ELSE [summary EXCEPT ![a] = NoSummary]
      PROVE  IInv'
  <2> USE <1>f, <1>b
  <2>0. summary' \in [Announcements -> {NoSummary} \cup {Summary(d) : d \in SUBSET Attachments}]
    BY <1>i DEF TypeOK
  <2>1. TypeOK' /\ plan'[a] = "open" /\ \A b \in Announcements \ {a} : plan'[b] = plan[b]
    BY <1>i, <2>0 DEF TypeOK
  <2>s. /\ summary'[a] = summary[a] \/ summary'[a] = NoSummary
        /\ \A b \in Announcements \ {a} : summary'[b] = summary[b]
    BY <1>i DEF TypeOK
  <2>2. ASSUME NEW b \in Announcements \ {a}
        PROVE  Consistent(b)'
    <3>1. SameStore(b) /\ SameMemory(b)
      BY <2>1, <2>s DEF SameStore, SameMemory, Of
    <3> QED BY <3>1, <1>j, OthersKeep DEF IInv
  <2>3. CountsExact(a)' /\ StagesOrdered(a)' /\ CallerPlaced(a)' /\ ClosedWatched(a)'
    BY <1>i, <1>j, <2>1, SameAtWork DEF Consistent, CountsExact, StagesOrdered, CallerPlaced, PlanExact,
          ClosedWatched, NoDocumentYet
  <2>4. PlanExact(a)' 
    <3>1. Extracted(a)' = {} /\ prepared'[a] = {} /\ (suppressed \cap Of(a))' = {}
      BY <1>i DEF Extracted, Consistent, PlanExact, Of
    <3> QED BY <1>i, <2>1, <3>1 DEF Consistent, PlanExact, Of
  <2>5. Summarised(a)' /\ SummarySound(a)'
    BY <1>i, <1>j, <2>1, <2>s, SameAtWork DEF Consistent, Summarised, SummarySound, SameJobs, Of
  <2> QED BY <1>m, <2>1, <2>2, <2>3, <2>4, <2>5 DEF IInv, Consistent
<1> QED BY <1>a, <1>b DEF BeginAnnouncement

LEMMA AttachKeeps ==
  ASSUME IInv, NEW x \in Attachments, Attach(x)
  PROVE  IInv'
<1> DEFINE a == AnnouncementOf[x]
<1> USE PipelineAssumption
<1>i. a \in Announcements /\ x \in Of(a) /\ TypeOK /\ MainOrdered /\ Consistent(a)
  BY DEF IInv, Of
<1>f. /\ producer = a /\ plan[a] = "open" /\ extraction[x] = "idle"
      /\ UNCHANGED <<store, control, main, producer, plan, caller, call, document, reducer, verdict>>
  BY DEF Attach
<1>m. main = "preparing" /\ MainOrdered'
  BY <1>i, <1>f, AfterExtraction DEF MainOrdered, TypeOK
<1> HIDE DEF a
<1>a. ASSUME x \in text,
             prepared' = [prepared EXCEPT ![a] = @ \cup {x}],
             extraction' = [extraction EXCEPT ![x] = "cached"],
             UNCHANGED counts
      PROVE  IInv'
  <2> USE <1>f, <1>a
  <2>1. TypeOK'
    BY <1>i DEF TypeOK, JobStates
  <2>2. /\ prepared'[a] = prepared[a] \cup {x} /\ extraction'[x] = "cached"
        /\ \A b \in Announcements \ {a} : prepared'[b] = prepared[b]
        /\ \A y \in Attachments \ {x} : extraction'[y] = extraction[y]
    BY <1>i DEF TypeOK
  <2>3. ASSUME NEW b \in Announcements \ {a}
        PROVE  Consistent(b)'
    <3>1. SameJobs(b) /\ SameStore(b) /\ SameMemory(b)
      BY <1>i, <2>2 DEF SameJobs, SameStore, SameMemory, Of
    <3> QED BY <3>1, OthersKeep DEF IInv
  <2>4. AtWork(extraction, a)' = AtWork(extraction, a) /\ AtWork(document, a)' = AtWork(document, a)
    BY <2>2 DEF AtWork, Of
  <2>5. CountsExact(a)' /\ StagesOrdered(a)' /\ CallerPlaced(a)' /\ ClosedWatched(a)'
    BY <1>i, <2>2, <2>4 DEF Consistent, CountsExact, StagesOrdered, CallerPlaced, ClosedWatched, NoDocumentYet
  <2>6. PlanExact(a)'
    <3>1. Extracted(a)' = Extracted(a) \cup {x}
      BY <1>i, <2>2 DEF Extracted, Of
    <3> QED BY <1>i, <2>2, <3>1 DEF Consistent, PlanExact, Of
  <2>7. Summarised(a)' /\ SummarySound(a)'
    BY <1>i, <2>4 DEF Consistent, Summarised, SummarySound
  <2> QED BY <1>m, <2>1, <2>3, <2>5, <2>6, <2>7 DEF IInv, Consistent
<1>b. ASSUME x \notin text,
             pendingExtractions' = Counted(pendingExtractions, a),
             extraction' = [extraction EXCEPT ![x] = "running"],
             UNCHANGED <<prepared, extractionFailures, pendingDocuments, documentUpdates>>
      PROVE  IInv'
  <2> USE <1>f, <1>b
  <2>0. /\ pendingExtractions' \in [Announcements -> Nat]
        /\ pendingExtractions'[a] = pendingExtractions[a] + 1
        /\ \A b \in Announcements \ {a} : pendingExtractions'[b] = pendingExtractions[b]
    BY <1>i, CountersTyped, CountUp
  <2>1. TypeOK'
    BY <1>i, <2>0 DEF TypeOK, JobStates
  <2>2. /\ extraction'[x] = "running"
        /\ \A y \in Attachments \ {x} : extraction'[y] = extraction[y]
    BY <1>i DEF TypeOK
  <2>3. ASSUME NEW b \in Announcements \ {a}
        PROVE  Consistent(b)'
    <3>1. SameJobs(b) /\ SameStore(b) /\ SameMemory(b)
      BY <1>i, <2>0, <2>2 DEF SameJobs, SameStore, SameMemory, Of
    <3> QED BY <3>1, OthersKeep DEF IInv
  <2>4. /\ x \notin AtWork(extraction, a) /\ AtWork(extraction, a)' = AtWork(extraction, a) \cup {x}
        /\ AtWork(document, a)' = AtWork(document, a)
    BY <1>i, <2>0, <2>2 DEF AtWork, Of
  <2>5. CountsExact(a)'
    <3>1. Cardinality(AtWork(extraction, a) \cup {x}) = Cardinality(AtWork(extraction, a)) + 1
      BY <2>4, JobStarts
    <3> QED BY <1>i, <2>0, <2>2, <2>4, <3>1 DEF Consistent, CountsExact
  <2>6. StagesOrdered(a)' /\ CallerPlaced(a)' /\ ClosedWatched(a)'
    BY <1>i, <2>0, <2>2, <2>4 DEF Consistent, StagesOrdered, CallerPlaced, ClosedWatched, NoDocumentYet
  <2>7. PlanExact(a)'
    <3>1. Extracted(a)' = Extracted(a)
      BY <1>i, <2>0, <2>2 DEF Extracted, Of
    <3> QED BY <1>i, <2>0, <2>2, <3>1 DEF Consistent, PlanExact, Of
  <2>8. Summarised(a)' /\ SummarySound(a)'
    BY <1>i, <2>4 DEF Consistent, Summarised, SummarySound
  <2> QED BY <1>m, <2>1, <2>3, <2>5, <2>6, <2>7, <2>8 DEF IInv, Consistent
<1> QED BY <1>a, <1>b DEF Attach, a

LEMMA PreparationFailsKeeps ==
  ASSUME IInv, NEW a \in Announcements, PreparationFails(a)
  PROVE  IInv'
<1> USE PipelineAssumption DEF PreparationFails
<1>i. TypeOK /\ MainOrdered /\ Consistent(a)
  BY DEF IInv
<1>1. TypeOK' /\ plan'[a] = "failed" /\ \A b \in Announcements \ {a} : plan'[b] = plan[b]
  BY <1>i DEF TypeOK
<1>2. \A b \in Announcements \ {a} : Consistent(b)'
  BY <1>1, OthersKeep DEF IInv, SameJobs, SameStore, SameMemory
<1>3. AtWork(extraction, a)' = AtWork(extraction, a) /\ AtWork(document, a)' = AtWork(document, a)
  BY DEF AtWork
<1>4. Consistent(a)'
  BY <1>i, <1>1, <1>3 DEF Consistent, CountsExact, StagesOrdered, CallerPlaced, PlanExact,
        ClosedWatched, Summarised, SummarySound, NoDocumentYet
<1>5. MainOrdered'
  BY <1>i, <1>1, AfterExtraction DEF MainOrdered, TypeOK
<1> QED BY <1>1, <1>2, <1>4, <1>5 DEF IInv

LEMMA ClosePreparationKeeps ==
  ASSUME IInv, NEW a \in Announcements, ClosePreparation(a)
  PROVE  IInv'
<1> USE PipelineAssumption DEF ClosePreparation
<1>i. TypeOK /\ MainOrdered /\ Consistent(a)
  BY DEF IInv
<1>1. TypeOK' /\ plan'[a] = "closed" /\ \A b \in Announcements \ {a} : plan'[b] = plan[b]
  BY <1>i DEF TypeOK
<1>2. \A b \in Announcements \ {a} : Consistent(b)'
  BY <1>1, OthersKeep DEF IInv, SameJobs, SameStore, SameMemory
<1>3. AtWork(extraction, a)' = AtWork(extraction, a) /\ AtWork(document, a)' = AtWork(document, a)
  BY DEF AtWork
<1>4. Consistent(a)'
  BY <1>i, <1>1, <1>3 DEF Consistent, CountsExact, StagesOrdered, CallerPlaced, PlanExact, Extracted,
        ClosedWatched, Summarised, SummarySound, NoDocumentYet
<1>5. MainOrdered'
  BY <1>i, <1>1, AfterExtraction DEF MainOrdered, TypeOK
<1> QED BY <1>1, <1>2, <1>4, <1>5 DEF IInv

LEMMA ExtractionEndsKeeps ==
  ASSUME IInv, NEW x \in Attachments, ExtractionEnds(x)
  PROVE  IInv'
<1> DEFINE a == AnnouncementOf[x]
<1> USE PipelineAssumption
<1>i. a \in Announcements /\ x \in Of(a) /\ TypeOK /\ MainOrdered /\ Consistent(a)
  BY DEF IInv, Of
<1>f. /\ extraction[x] = "running"
      /\ text' \in {text, text \cup {x}}
      /\ UNCHANGED <<suppressed, documentSummary, summary, control, main, producer, plan, prepared,
                     counts, caller, call, document, reducer, verdict>>
  BY DEF ExtractionEnds
<1>e. PICK end \in {"ended", "raised"} : extraction' = [extraction EXCEPT ![x] = end]
  BY DEF ExtractionEnds
<1> USE <1>f, <1>e
<1> HIDE DEF a
<1>1. TypeOK'
  BY <1>i DEF TypeOK, JobStates
<1>2. /\ extraction'[x] = end
      /\ \A y \in Attachments \ {x} : extraction'[y] = extraction[y] /\ (y \in text' <=> y \in text)
  BY <1>i DEF TypeOK
<1>3. ASSUME NEW b \in Announcements \ {a}
      PROVE  Consistent(b)'
  <2>1. SameJobs(b) /\ SameStore(b) /\ SameMemory(b)
    BY <1>i, <1>2 DEF SameJobs, SameStore, SameMemory, Of
  <2> QED BY <2>1, OthersKeep DEF IInv
<1>4. /\ AtWork(extraction, a)' = AtWork(extraction, a) /\ AtWork(document, a)' = AtWork(document, a)
      /\ x \in AtWork(extraction, a)
  BY <1>i, <1>2 DEF AtWork, Of
<1>5. CountsExact(a)' /\ StagesOrdered(a)'
  BY <1>i, <1>4 DEF Consistent, CountsExact, StagesOrdered, NoDocumentYet
<1>c. CallerPlaced(a)' /\ ClosedWatched(a)'
  BY <1>i, <1>2, <1>4 DEF Consistent, CallerPlaced, ClosedWatched, Of
<1>6. PlanExact(a)'
  <2>1. Extracted(a)' = Extracted(a)
    BY <1>i, <1>2 DEF Extracted, Of
  <2> QED BY <1>i, <1>2, <1>4, <2>1 DEF Consistent, PlanExact, Of
<1>7. Summarised(a)' /\ SummarySound(a)'
  BY <1>i, <1>4 DEF Consistent, Summarised, SummarySound
<1>8. MainOrdered'
  BY <1>i, <1>4, AfterExtraction DEF MainOrdered, TypeOK
<1> QED BY <1>1, <1>3, <1>5, <1>c, <1>6, <1>7, <1>8 DEF IInv, Consistent

LEMMA ExtractionCountedKeeps ==
  ASSUME IInv, NEW x \in Attachments, ExtractionCounted(x)
  PROVE  IInv'
<1> DEFINE a == AnnouncementOf[x]
<1> USE PipelineAssumption
<1>i. a \in Announcements /\ x \in Of(a) /\ TypeOK /\ MainOrdered /\ Consistent(a)
  BY DEF IInv, Of
<1>f. /\ extraction[x] \in {"ended", "raised"}
      /\ errors' \in {errors, errors \cup {a}}
      /\ IF x \in text
         THEN prepared' = [prepared EXCEPT ![a] = @ \cup {x}] /\ UNCHANGED extractionFailures
         ELSE extractionFailures' = Counted(extractionFailures, a) /\ UNCHANGED prepared
      /\ pendingExtractions' = OneLess(pendingExtractions, a)
      /\ extraction' = [extraction EXCEPT ![x] = "counted"]
      /\ UNCHANGED <<store, control, main, producer, plan, pendingDocuments, documentUpdates, caller,
                     call, document, reducer, lost>>
  BY DEF ExtractionCounted, Counted
<1> USE <1>f
<1> HIDE DEF a
<1>p. /\ prepared' \in [Announcements -> SUBSET Attachments]
      /\ prepared'[a] = prepared[a] \cup ({x} \cap text)
      /\ \A b \in Announcements \ {a} : prepared'[b] = prepared[b]
  <2>1. prepared \in [Announcements -> SUBSET Attachments]
    BY <1>i DEF TypeOK
  <2>2. CASE x \in text
    BY <1>i, <2>1, <2>2
  <2>3. CASE x \notin text
    BY <1>i, <2>1, <2>3
  <2> QED BY <2>2, <2>3
<1>2. /\ extraction'[x] = "counted"
      /\ \A y \in Attachments \ {x} : extraction'[y] = extraction[y]
  BY <1>i DEF TypeOK
<1>4. /\ x \in AtWork(extraction, a) /\ AtWork(extraction, a)' = AtWork(extraction, a) \ {x}
      /\ AtWork(document, a)' = AtWork(document, a)
  BY <1>i, <1>2 DEF AtWork, Of
<1>c. /\ pendingExtractions' \in [Announcements -> Nat]
      /\ pendingExtractions'[a] = pendingExtractions[a] - 1
      /\ pendingExtractions'[a] = Cardinality(AtWork(extraction, a) \ {x})
      /\ \A b \in Announcements \ {a} : pendingExtractions'[b] = pendingExtractions[b]
      /\ extractionFailures' \in [Announcements -> Nat]
  <2>1. pendingExtractions[a] = Cardinality(AtWork(extraction, a))
    BY <1>i DEF Consistent, CountsExact
  <2>2. /\ pendingExtractions[a] >= 1
        /\ Cardinality(AtWork(extraction, a) \ {x}) = pendingExtractions[a] - 1
    BY <2>1, <1>4, JobLeaves
  <2>3. extractionFailures' \in [Announcements -> Nat]
    BY <1>i, CountersTyped, CountUp
  <2> QED BY <1>i, <2>2, <2>3, CountersTyped, CountDown
<1>1. TypeOK'
  BY <1>i, <1>c, <1>p DEF TypeOK, JobStates
<1>3. ASSUME NEW b \in Announcements \ {a}
      PROVE  Consistent(b)'
  <2>1. SameJobs(b) /\ SameStore(b) /\ SameMemory(b)
    BY <1>i, <1>c, <1>p, <1>2 DEF SameJobs, SameStore, SameMemory, Of
  <2> QED BY <2>1, OthersKeep DEF IInv
<1>5. CountsExact(a)'
  BY <1>i, <1>c, <1>4 DEF Consistent, CountsExact
<1>6. StagesOrdered(a)' /\ CallerPlaced(a)' /\ ClosedWatched(a)'
  BY <1>i, <1>2, <1>4 DEF Consistent, StagesOrdered, CallerPlaced, ClosedWatched, NoDocumentYet, Of
<1>7. PlanExact(a)'
  <2>1. Extracted(a)' = Extracted(a) \cup ({x} \cap text)
    BY <1>i, <1>2 DEF Extracted, Of
  <2> QED BY <1>i, <1>p, <1>2, <1>4, <2>1 DEF Consistent, PlanExact, Of
<1>8. Summarised(a)' /\ SummarySound(a)'
  BY <1>i, <1>4 DEF Consistent, Summarised, SummarySound
<1>9. MainOrdered'
  BY <1>i, <1>4, AfterExtraction DEF MainOrdered, TypeOK
<1> QED BY <1>1, <1>3, <1>5, <1>6, <1>7, <1>8, <1>9 DEF IInv, Consistent

(* Whoever claims a closed plan finds all its texts prepared.              *)
LEMMA ReadyIsWhole ==
  ASSUME IInv, NEW a \in Announcements, Ready(a)
  PROVE  /\ AtWork(extraction, a) = {}
         /\ prepared[a] = text \cap Of(a) /\ suppressed \cap Of(a) = {}
<1>i. TypeOK /\ CountsExact(a) /\ PlanExact(a)
  BY DEF IInv, Consistent
<1>1. AtWork(extraction, a) = {}
  BY <1>i, Outstanding DEF Ready, CountsExact
<1>2. \A x \in Of(a) : extraction[x] \in {"cached", "counted", "calling", "notified"}
  <2>1. \A x \in Of(a) : extraction[x] \in JobStates
    BY <1>i DEF TypeOK, Of
  <2> QED BY <1>i, <1>1, <2>1 DEF JobStates, PlanExact, Ready, AtWork
<1> QED BY <1>i, <1>1, <1>2 DEF PlanExact, Ready, Extracted

LEMMA HookCompletesKeeps ==
  ASSUME IInv, NEW x \in Attachments, HookCompletes(x)
  PROVE  IInv'
<1> DEFINE a == AnnouncementOf[x]
<1> USE PipelineAssumption
<1>i. a \in Announcements /\ x \in Of(a) /\ TypeOK /\ MainOrdered /\ Consistent(a)
  BY DEF IInv, Of
<1>f. /\ extraction[x] = "counted"
      /\ UNCHANGED <<store, control, main, producer, prepared, counts, document, reducer, verdict>>
  BY DEF HookCompletes
<1>m. main \in {"preparing", "extracting"}
  BY <1>i, <1>f, AfterExtraction DEF TypeOK, ExtractionIdle
<1> USE <1>f
<1> HIDE DEF a
<1>a. ASSUME Ready(a), Claim(a, "extraction hook"), extraction' = [extraction EXCEPT ![x] = "calling"]
      PROVE  IInv'
  <2> USE <1>a DEF Claim
  <2>0. plan[a] = "closed"
    BY DEF Ready
  <2>1. TypeOK'
    BY <1>i DEF TypeOK, JobStates
  <2>2. /\ plan'[a] = "queued" /\ caller'[a] = "extraction hook" /\ call'[a] = "deduplicate"
        /\ extraction'[x] = "calling"
        /\ \A b \in Announcements \ {a} :
             plan'[b] = plan[b] /\ caller'[b] = caller[b] /\ call'[b] = call[b]
        /\ \A y \in Attachments \ {x} : extraction'[y] = extraction[y]
    BY <1>i DEF TypeOK
  <2>3. ASSUME NEW b \in Announcements \ {a}
        PROVE  Consistent(b)'
    <3>1. SameJobs(b) /\ SameStore(b) /\ SameMemory(b)
      BY <1>i, <2>2 DEF SameJobs, SameStore, SameMemory, Of
    <3> QED BY <3>1, OthersKeep DEF IInv
  <2>4. AtWork(extraction, a)' = AtWork(extraction, a) /\ AtWork(document, a)' = AtWork(document, a)
    BY <1>i, <2>2 DEF AtWork, Of
  <2>c. CountsExact(a)'
    BY <1>i, <2>4 DEF Consistent, CountsExact
  <2>5. StagesOrdered(a)' /\ ClosedWatched(a)'
    <3>1. AtWork(document, a) = {}
      BY <1>i, <2>0 DEF Consistent, StagesOrdered, NoDocumentYet, AtWork
    <3> QED BY <1>i, <2>0, <2>2, <2>4, <3>1 DEF Consistent, StagesOrdered, ClosedWatched, NoDocumentYet
  <2>6. CallerPlaced(a)'
    BY <1>i, <2>2 DEF CallerPlaced, Of
  <2>7. PlanExact(a)'
    BY <1>i, <1>m, <2>0, <2>2, <2>4, ReadyIsWhole DEF Consistent, PlanExact, Of
  <2>8. Summarised(a)' /\ SummarySound(a)'
    BY <1>i, <2>0, <2>2 DEF Consistent, Summarised, SummarySound, StagesOrdered
  <2>9. MainOrdered'
    <3>1. \A b \in Announcements : plan'[b] = "unseen" => plan[b] = "unseen"
      BY <2>2
    <3> QED BY <1>i, <1>m, <3>1 DEF MainOrdered
  <2> QED BY <2>1, <2>3, <2>c, <2>5, <2>6, <2>7, <2>8, <2>9 DEF IInv, Consistent
<1>b. ASSUME ~Ready(a), extraction' = [extraction EXCEPT ![x] = "notified"], UNCHANGED <<plan, caller, call>>
      PROVE  IInv'
  <2> USE <1>b
  <2>1. TypeOK'
    BY <1>i DEF TypeOK, JobStates
  <2>2. /\ extraction'[x] = "notified"
        /\ \A y \in Attachments \ {x} : extraction'[y] = extraction[y]
    BY <1>i DEF TypeOK
  <2>3. ASSUME NEW b \in Announcements \ {a}
        PROVE  Consistent(b)'
    <3>1. SameJobs(b) /\ SameStore(b) /\ SameMemory(b)
      BY <1>i, <2>2 DEF SameJobs, SameStore, SameMemory, Of
    <3> QED BY <3>1, OthersKeep DEF IInv
  <2>4. AtWork(extraction, a)' = AtWork(extraction, a) /\ AtWork(document, a)' = AtWork(document, a)
    BY <1>i, <2>2 DEF AtWork, Of
  <2>5. CountsExact(a)' /\ StagesOrdered(a)'
    BY <1>i, <2>4 DEF Consistent, CountsExact, StagesOrdered, NoDocumentYet
  <2>6. CallerPlaced(a)'
    BY <1>i, <2>2 DEF Consistent, CallerPlaced, Of
  <2>7. ClosedWatched(a)'
    BY <1>i, <2>4, Outstanding DEF Consistent, CountsExact, ClosedWatched, Ready
  <2>8. PlanExact(a)'
    <3>1. Extracted(a)' = Extracted(a)
      BY <1>i, <2>2 DEF Extracted, Of
    <3> QED BY <1>i, <2>2, <2>4, <3>1 DEF Consistent, PlanExact, Of
  <2>9. Summarised(a)' /\ SummarySound(a)'
    BY <1>i, <2>4 DEF Consistent, Summarised, SummarySound
  <2>10. MainOrdered'
    BY <1>i, <1>m DEF MainOrdered
  <2> QED BY <2>1, <2>3, <2>5, <2>6, <2>7, <2>8, <2>9, <2>10 DEF IInv, Consistent
<1> QED BY <1>a, <1>b DEF HookCompletes, a

LEMMA ProducerCompletesKeeps ==
  ASSUME IInv, NEW a \in Announcements, ProducerCompletes(a)
  PROVE  IInv'
<1> USE PipelineAssumption
<1>i. TypeOK /\ MainOrdered /\ Consistent(a)
  BY DEF IInv
<1>f. /\ producer = a /\ plan[a] \in {"closed", "queued"} /\ caller[a] # "producer"
      /\ UNCHANGED <<store, control, main, prepared, counts, jobs, verdict>>
  BY DEF ProducerCompletes
<1>m. main = "preparing"
  BY <1>i, <1>f DEF MainOrdered
<1> USE <1>f
<1>j. \A b \in Announcements : SameJobs(b) /\ SameStore(b)
  BY DEF SameJobs, SameStore
<1>4. AtWork(extraction, a)' = AtWork(extraction, a) /\ AtWork(document, a)' = AtWork(document, a)
  BY <1>j, SameAtWork
<1>a. ASSUME Ready(a), Claim(a, "producer"), UNCHANGED producer
      PROVE  IInv'
  <2> USE <1>a DEF Claim
  <2>0. plan[a] = "closed"
    BY DEF Ready
  <2>1. TypeOK'
    BY <1>i DEF TypeOK
  <2>2. /\ plan'[a] = "queued" /\ caller'[a] = "producer" /\ call'[a] = "deduplicate"
        /\ \A b \in Announcements \ {a} :
             plan'[b] = plan[b] /\ caller'[b] = caller[b] /\ call'[b] = call[b]
    BY <1>i DEF TypeOK
  <2>3. \A b \in Announcements \ {a} : Consistent(b)'
    BY <1>j, <2>2, OthersKeep DEF IInv, SameMemory
  <2>c. CountsExact(a)'
    BY <1>i, <1>4 DEF Consistent, CountsExact
  <2>5. StagesOrdered(a)' /\ CallerPlaced(a)' /\ ClosedWatched(a)'
    <3>1. AtWork(document, a) = {}
      BY <1>i, <2>0 DEF Consistent, StagesOrdered, NoDocumentYet, AtWork
    <3> QED BY <1>i, <2>0, <2>2, <1>4, <3>1 DEF Consistent, StagesOrdered, CallerPlaced, ClosedWatched, NoDocumentYet
  <2>7. PlanExact(a)'
    BY <1>i, <2>0, <2>2, <1>4, ReadyIsWhole DEF Consistent, PlanExact, Of
  <2>8. Summarised(a)' /\ SummarySound(a)'
    BY <1>i, <2>0, <2>2 DEF Consistent, Summarised, SummarySound, StagesOrdered
  <2>9. MainOrdered'
    BY <1>i, <1>m, <2>2 DEF MainOrdered
  <2> QED BY <2>1, <2>3, <2>c, <2>5, <2>7, <2>8, <2>9 DEF IInv, Consistent
<1>b. ASSUME ~Ready(a), producer' = Nobody, UNCHANGED <<plan, caller, call>>
      PROVE  IInv'
  <2> USE <1>b
  <2>1. TypeOK'
    BY <1>i DEF TypeOK
  <2>3. \A b \in Announcements \ {a} : Consistent(b)'
    BY <1>j, OthersKeep DEF IInv, SameMemory
  <2>5. CountsExact(a)' /\ StagesOrdered(a)' /\ CallerPlaced(a)'
    BY <1>i, <1>4 DEF Consistent, CountsExact, StagesOrdered, CallerPlaced, NoDocumentYet
  <2>7. ClosedWatched(a)'
    BY <1>i, <1>4, Outstanding DEF Consistent, CountsExact, ClosedWatched, Ready
  <2>8. PlanExact(a)'
    BY <1>i, <1>4 DEF Consistent, PlanExact, Extracted
  <2>9. Summarised(a)' /\ SummarySound(a)'
    BY <1>i, <1>4 DEF Consistent, Summarised, SummarySound
  <2>10. MainOrdered'
    BY <1>i, <1>m DEF MainOrdered
  <2> QED BY <2>1, <2>3, <2>5, <2>7, <2>8, <2>9, <2>10 DEF IInv, Consistent
<1> QED BY <1>a, <1>b DEF ProducerCompletes

(* A call is over: its hook is too, and nothing else is different.         *)
LEMMA CallReturns ==
  ASSUME IInv, NEW a \in Announcements, call[a] # "none", Return(a)
  PROVE  /\ plan[a] = "queued" /\ reducer[a] = "idle" /\ AtWork(document, a) = {}
         /\ main \in {"preparing", "extracting", "summarising"}
         /\ call' \in [Announcements -> {"none", "deduplicate", "register", "reduce", "reduce directly"}]
         /\ caller' \in [Announcements -> {Nobody, "producer", "extraction hook", "document hook"}]
         /\ producer' \in Announcements \cup {Nobody}
         /\ extraction' \in [Attachments -> JobStates]
         /\ call'[a] = "none" /\ caller'[a] = Nobody
         /\ producer' = a => producer = a
         /\ \A b \in Announcements \ {a} : /\ call'[b] = call[b] /\ caller'[b] = caller[b]
                                           /\ producer' = b <=> producer = b
         /\ \A x \in Attachments : \/ extraction'[x] = extraction[x]
                                   \/ x \in Of(a) /\ extraction[x] = "calling" /\ extraction'[x] = "notified"
         /\ AtWork(extraction, a)' = AtWork(extraction, a)
<1> USE PipelineAssumption DEF Return, Released
<1>i. TypeOK /\ MainOrdered /\ Consistent(a)
  BY DEF IInv
<1>1. plan[a] = "queued" /\ reducer[a] = "idle" /\ AtWork(document, a) = {}
  <2>1. call[a] \in {"deduplicate", "register", "reduce", "reduce directly"}
    BY <1>i DEF TypeOK
  <2> QED BY <1>i, <2>1 DEF Consistent, StagesOrdered, NoDocumentYet, AtWork
<1>2. main \in {"preparing", "extracting", "summarising"}
  BY <1>i, AfterVerdict DEF TypeOK
<1>3. extraction' \in [Attachments -> JobStates] /\ producer' \in Announcements \cup {Nobody}
  BY <1>i DEF TypeOK, JobStates
<1>4. /\ call' \in [Announcements -> {"none", "deduplicate", "register", "reduce", "reduce directly"}]
      /\ caller' \in [Announcements -> {Nobody, "producer", "extraction hook", "document hook"}]
      /\ call'[a] = "none" /\ caller'[a] = Nobody
      /\ \A b \in Announcements \ {a} : call'[b] = call[b] /\ caller'[b] = caller[b]
  BY <1>i DEF TypeOK
<1>5. \A b \in Announcements \ {a} : producer' = b <=> producer = b
  BY <1>i DEF Consistent, CallerPlaced
<1>6. producer' = a => producer = a
  OBVIOUS
<1>7. AtWork(extraction, a)' = AtWork(extraction, a)
  BY DEF AtWork, Of
<1> QED BY <1>1, <1>2, <1>3, <1>4, <1>5, <1>6, <1>7

(* What holds of the announcement, and of the others, when its call is over. *)
LEMMA ReturnKeeps ==
  ASSUME IInv, NEW a \in Announcements, call[a] # "none", Return(a), TypeOK',
         UNCHANGED <<store, control, main, plan, prepared, pendingExtractions, pendingDocuments>>,
         document' = Released(document, a),
         reducer'[a] \in {"idle", "reduce", "reduce directly"},
         \A b \in Announcements \ {a} : /\ reducer'[b] = reducer[b]
                                        /\ b \in errors' <=> b \in errors
                                        /\ b \in lost' <=> b \in lost,
         \/ a \in errors' \cup lost'
         \/ summary[a] # NoSummary
         \/ reducer'[a] \in {"reduce", "reduce directly"}
  PROVE  IInv'
<1> USE PipelineAssumption
<1>i. TypeOK /\ MainOrdered /\ Consistent(a)
  BY DEF IInv
<1>1. \A x \in Attachments : \/ document'[x] = document[x]
                             \/ x \in Of(a) /\ document[x] = "calling" /\ document'[x] = "notified"
  BY DEF Released
<1>r. /\ plan[a] = "queued" /\ AtWork(document, a) = {} /\ AtWork(extraction, a)' = AtWork(extraction, a)
      /\ producer' = a => producer = a
      /\ \A x \in Attachments : \/ extraction'[x] = extraction[x]
                                \/ x \in Of(a) /\ extraction[x] = "calling" /\ extraction'[x] = "notified"
  BY CallReturns
<1>2. AtWork(document, a)' = {}
  BY <1>1, <1>r DEF AtWork, Of
<1>3. ASSUME NEW b \in Announcements \ {a}
      PROVE  Consistent(b)'
  <2>1. SameJobs(b)
    BY <1>1, <1>r DEF SameJobs, Of
  <2>2. SameStore(b) /\ SameMemory(b)
    BY CallReturns DEF SameStore, SameMemory
  <2> QED BY <2>1, <2>2, OthersKeep DEF IInv
<1>4. CountsExact(a)'
  <2>1. AtWork(document, a)' = AtWork(document, a) /\ AtWork(extraction, a)' = AtWork(extraction, a)
    BY <1>2, CallReturns
  <2> QED BY <1>i, <2>1 DEF Consistent, CountsExact
<1>5. StagesOrdered(a)' /\ CallerPlaced(a)' /\ ClosedWatched(a)'
  BY <1>2, CallReturns DEF StagesOrdered, CallerPlaced, ClosedWatched
<1>6. PlanExact(a)'
  <2>1. \A x \in Of(a) : /\ extraction'[x] = "running" => extraction[x] = "running"
                         /\ extraction'[x] = "idle" => extraction[x] = "idle"
    BY <1>r DEF Of
  <2> QED BY <1>i, <1>r, <2>1 DEF Consistent, PlanExact
<1>7. Summarised(a)'
  BY <1>i, <1>1, <1>r DEF Consistent, Summarised, Of
<1>8. SummarySound(a)'
  BY <1>i, CallReturns DEF Consistent, SummarySound
<1>9. MainOrdered'
  <2>1. main # "preparing" => producer' = Nobody
    BY <1>i DEF MainOrdered, Return
  <2>2. main = "summarising" => ExtractionIdle'
    BY <1>i, CallReturns DEF MainOrdered, ExtractionIdle
  <2>3. main \in {"preparing", "extracting", "summarising"}
    BY CallReturns
  <2> QED BY <1>i, <2>1, <2>2, <2>3 DEF MainOrdered
<1> QED BY <1>3, <1>4, <1>5, <1>6, <1>7, <1>8, <1>9 DEF IInv, Consistent

LEMMA CallRaisesKeeps ==
  ASSUME IInv, NEW a \in Announcements, CallRaises(a)
  PROVE  IInv'
<1> USE DEF CallRaises
<1>1. TypeOK /\ StagesOrdered(a)
  BY DEF IInv, Consistent
<1>2. document' \in [Attachments -> JobStates]
  BY <1>1 DEF Released, TypeOK, JobStates
<1>3. errors' \cup lost' \subseteq Announcements
  BY <1>1 DEF TypeOK
<1>4. TypeOK'
  BY <1>1, <1>2, <1>3, CallReturns DEF TypeOK
<1>5. reducer'[a] = "idle"
  BY CallReturns
<1> QED BY <1>4, <1>5, ReturnKeeps

LEMMA QueueReducerKeeps ==
  ASSUME IInv, NEW a \in Announcements, QueueReducer(a)
  PROVE  IInv'
<1> USE DEF QueueReducer
<1>1. TypeOK
  BY DEF IInv
<1>2. document' \in [Attachments -> JobStates]
  BY <1>1 DEF Released, TypeOK, JobStates
<1>3. /\ reducer' \in [Announcements -> {"idle", "reduce", "reduce directly", "notified"}]
      /\ \A b \in Announcements \ {a} : reducer'[b] = reducer[b]
  BY <1>1 DEF TypeOK
<1>4. TypeOK'
  BY <1>1, <1>2, <1>3, CallReturns DEF TypeOK
<1>5. (summary[a] # NoSummary /\ reducer'[a] = "idle") \/ reducer'[a] \in {"reduce", "reduce directly"}
  <2>1. reducer[a] = "idle"
    BY CallReturns
  <2> QED BY <1>1, <2>1 DEF TypeOK
<1> QED BY <1>3, <1>4, <1>5, ReturnKeeps

LEMMA DeduplicateKeeps ==
  ASSUME IInv, NEW a \in Announcements, Deduplicate(a)
  PROVE  IInv'
<1> USE PipelineAssumption
<1>i. TypeOK /\ MainOrdered /\ Consistent(a)
  BY DEF IInv
<1>f. /\ call[a] = "deduplicate"
      /\ prepared' = [prepared EXCEPT ![a] = Kept(a)]
      /\ suppressed' = suppressed \cup (prepared[a] \ Kept(a))
      /\ summary' = IF Kept(a) = prepared[a] THEN summary ELSE [summary EXCEPT ![a] = NoSummary]
      /\ call' = [call EXCEPT ![a] = "register"]
      /\ UNCHANGED <<text, documentSummary, control, main, producer, plan, counts, caller, jobs, verdict>>
  BY DEF Deduplicate
<1>q. /\ plan[a] = "queued" /\ reducer[a] = "idle" /\ NoDocumentYet(a)
      /\ Kept(a) \subseteq prepared[a] /\ prepared[a] \subseteq Of(a)
  BY <1>i, <1>f DEF Consistent, StagesOrdered, PlanExact, Kept
<1>m. main \in {"preparing", "extracting", "summarising"}
  BY <1>i, <1>f, AfterVerdict DEF TypeOK
<1> USE <1>f
<1>0. /\ summary' \in [Announcements -> {NoSummary} \cup {Summary(d) : d \in SUBSET Attachments}]
      /\ summary'[a] = summary[a] \/ summary'[a] = NoSummary
      /\ \A b \in Announcements \ {a} : summary'[b] = summary[b]
  BY <1>i DEF TypeOK
<1>1. /\ prepared' \in [Announcements -> SUBSET Attachments]
      /\ prepared'[a] = Kept(a) /\ \A b \in Announcements \ {a} : prepared'[b] = prepared[b]
  BY <1>i, <1>q DEF TypeOK
<1>2. /\ call' \in [Announcements -> {"none", "deduplicate", "register", "reduce", "reduce directly"}]
      /\ call'[a] = "register" /\ \A b \in Announcements \ {a} : call'[b] = call[b]
  BY <1>i DEF TypeOK
<1>3. TypeOK'
  <2>1. suppressed' \subseteq Attachments
    BY <1>i, <1>q DEF TypeOK, Of
  <2> QED BY <1>i, <1>0, <1>1, <1>2, <2>1 DEF TypeOK
<1>4. ASSUME NEW b \in Announcements \ {a}
      PROVE  Consistent(b)'
  <2>1. SameJobs(b) /\ SameMemory(b)
    BY <1>1, <1>2 DEF SameJobs, SameMemory
  <2>2. SameStore(b)
    BY <1>0, <1>q DEF SameStore, Of
  <2> QED BY <2>1, <2>2, OthersKeep DEF IInv
<1>5. AtWork(extraction, a)' = AtWork(extraction, a) /\ AtWork(document, a)' = AtWork(document, a)
  BY DEF AtWork
<1>6. CountsExact(a)' /\ CallerPlaced(a)' /\ ClosedWatched(a)'
  BY <1>i, <1>5 DEF Consistent, CountsExact, CallerPlaced, ClosedWatched
<1>7. StagesOrdered(a)'
  <2>1. AtWork(document, a) = {}
    BY <1>q DEF NoDocumentYet, AtWork
  <2> QED BY <1>i, <1>q, <1>2, <1>5, <2>1 DEF Consistent, StagesOrdered, NoDocumentYet
<1>8. PlanExact(a)'
  <2>1. (prepared[a] \cup (suppressed \cap Of(a)))' = prepared[a] \cup (suppressed \cap Of(a))
    BY <1>1, <1>q
  <2> QED BY <1>i, <1>q, <1>1, <1>5, <2>1 DEF Consistent, PlanExact
<1>9. Summarised(a)' /\ SummarySound(a)'
  BY <1>i, <1>q, <1>0, <1>2 DEF Consistent, Summarised, SummarySound
<1>10. MainOrdered'
  BY <1>i, <1>m DEF MainOrdered, ExtractionIdle
<1> QED BY <1>3, <1>4, <1>6, <1>7, <1>8, <1>9, <1>10 DEF IInv, Consistent

LEMMA DocumentEndsKeeps ==
  ASSUME IInv, NEW x \in Attachments, DocumentEnds(x)
  PROVE  IInv'
<1> DEFINE a == AnnouncementOf[x]
<1> USE PipelineAssumption
<1>i. a \in Announcements /\ x \in Of(a) /\ TypeOK /\ MainOrdered /\ Consistent(a)
  BY DEF IInv, Of
<1>f. /\ document[x] = "running"
      /\ documentSummary' \in {documentSummary, documentSummary \cup {x}}
      /\ UNCHANGED <<text, suppressed, summary, control, main, producer, plan, prepared, counts,
                     caller, call, extraction, reducer, verdict>>
  BY DEF DocumentEnds
<1>e. PICK end \in {"ended", "raised"} : document' = [document EXCEPT ![x] = end]
  BY DEF DocumentEnds
<1> USE <1>f, <1>e
<1> HIDE DEF a
<1>1. TypeOK'
  BY <1>i DEF TypeOK, JobStates
<1>2. /\ document'[x] = end
      /\ \A y \in Attachments \ {x} : /\ document'[y] = document[y]
                                      /\ y \in documentSummary' <=> y \in documentSummary
  BY <1>i DEF TypeOK
<1>3. ASSUME NEW b \in Announcements \ {a}
      PROVE  Consistent(b)'
  <2>1. SameJobs(b) /\ SameStore(b) /\ SameMemory(b)
    BY <1>i, <1>2 DEF SameJobs, SameStore, SameMemory, Of
  <2> QED BY <2>1, OthersKeep DEF IInv
<1>4. /\ AtWork(extraction, a)' = AtWork(extraction, a) /\ AtWork(document, a)' = AtWork(document, a)
      /\ x \in AtWork(document, a)
  BY <1>i, <1>2 DEF AtWork, Of
<1>5. call[a] = "none" /\ reducer[a] = "idle" /\ caller[a] = Nobody /\ plan[a] = "queued"
  BY <1>i, <1>4 DEF Consistent, StagesOrdered, NoDocumentYet, AtWork
<1>6. CountsExact(a)'
  BY <1>i, <1>4 DEF Consistent, CountsExact
<1>7. StagesOrdered(a)' /\ CallerPlaced(a)' /\ ClosedWatched(a)'
  BY <1>i, <1>4, <1>5 DEF Consistent, StagesOrdered, CallerPlaced, ClosedWatched
<1>8. PlanExact(a)'
  BY <1>i, <1>4, <1>5 DEF Consistent, PlanExact
<1>9. Summarised(a)' /\ SummarySound(a)'
  BY <1>i, <1>2, <1>4, <1>5 DEF Consistent, Summarised, SummarySound, Of
<1>10. MainOrdered'
  BY <1>i, <1>4, AfterVerdict DEF MainOrdered, ExtractionIdle
<1> QED BY <1>1, <1>3, <1>6, <1>7, <1>8, <1>9, <1>10 DEF IInv, Consistent

LEMMA DocumentCountedKeeps ==
  ASSUME IInv, NEW x \in Attachments, DocumentCounted(x)
  PROVE  IInv'
<1> DEFINE a == AnnouncementOf[x]
<1> USE PipelineAssumption
<1>i. a \in Announcements /\ x \in Of(a) /\ TypeOK /\ MainOrdered /\ Consistent(a)
  BY DEF IInv, Of
<1>f. /\ document[x] \in {"ended", "raised"}
      /\ pendingDocuments' = OneLess(pendingDocuments, a)
      /\ documentUpdates' \in {documentUpdates, Counted(documentUpdates, a)}
      /\ errors' \in {errors, errors \cup {a}}
      /\ UNCHANGED <<store, control, main, producer, plan, prepared, pendingExtractions,
                     extractionFailures, extraction, reducer, lost>>
  BY DEF DocumentCounted, Counted
<1> USE <1>f
<1>l. \/ /\ LastDocument(a)
         /\ document' = [document EXCEPT ![x] = "calling"]
         /\ caller' = [caller EXCEPT ![a] = "document hook"] /\ call' = [call EXCEPT ![a] = "reduce"]
      \/ /\ ~LastDocument(a)
         /\ document' = [document EXCEPT ![x] = "notified"]
         /\ UNCHANGED <<caller, call>>
  BY DEF DocumentCounted
<1> HIDE DEF a
<1>v. PICK value \in {"calling", "notified"} : document' = [document EXCEPT ![x] = value]
  BY <1>l
<1>2. /\ document' \in [Attachments -> JobStates] /\ document'[x] \in {"calling", "notified"}
      /\ \A y \in Attachments \ {x} : document'[y] = document[y]
  BY <1>i, <1>v DEF TypeOK, JobStates
<1>4. /\ x \in AtWork(document, a) /\ AtWork(document, a)' = AtWork(document, a) \ {x}
      /\ AtWork(extraction, a)' = AtWork(extraction, a)
  BY <1>i, <1>2 DEF AtWork, Of
<1>5. call[a] = "none" /\ reducer[a] = "idle" /\ caller[a] = Nobody /\ plan[a] = "queued"
  BY <1>i, <1>4 DEF Consistent, StagesOrdered, NoDocumentYet, AtWork
<1>c. /\ pendingDocuments' \in [Announcements -> Nat] /\ documentUpdates' \in [Announcements -> Nat]
      /\ pendingDocuments'[a] = pendingDocuments[a] - 1
      /\ pendingDocuments'[a] = Cardinality(AtWork(document, a) \ {x})
      /\ \A b \in Announcements \ {a} : pendingDocuments'[b] = pendingDocuments[b]
  <2>1. pendingDocuments[a] = Cardinality(AtWork(document, a))
    BY <1>i DEF Consistent, CountsExact
  <2>2. /\ pendingDocuments[a] >= 1
        /\ Cardinality(AtWork(document, a) \ {x}) = pendingDocuments[a] - 1
    BY <2>1, <1>4, JobLeaves
  <2>3. documentUpdates' \in [Announcements -> Nat]
    BY <1>i, CountersTyped, CountUp
  <2> QED BY <1>i, <2>2, <2>3, CountersTyped, CountDown
<1>d. /\ LastDocument(a) <=> pendingDocuments'[a] = 0
      /\ pendingDocuments'[a] = 0 <=> AtWork(document, a)' = {}
  <2>1. AtWork(document, a) \ {x} \in SUBSET Attachments
    BY DEF AtWork, Of
  <2>2. Cardinality(AtWork(document, a) \ {x}) = 0 <=> AtWork(document, a) \ {x} = {}
    BY <2>1, FS_Subset, FS_EmptySet
  <2>3. pendingDocuments[a] \in Nat
    BY <1>i, CountersTyped
  <2> QED BY <1>4, <1>c, <2>2, <2>3 DEF LastDocument
<1>e. /\ call' \in [Announcements -> {"none", "deduplicate", "register", "reduce", "reduce directly"}]
      /\ caller' \in [Announcements -> {Nobody, "producer", "extraction hook", "document hook"}]
      /\ \A b \in Announcements \ {a} : call'[b] = call[b] /\ caller'[b] = caller[b]
      /\ IF LastDocument(a) THEN document'[x] = "calling" /\ call'[a] = "reduce" /\ caller'[a] = "document hook"
                            ELSE call'[a] = "none" /\ caller'[a] = Nobody
  <2>1. CASE LastDocument(a)
    <3>1. /\ document' = [document EXCEPT ![x] = "calling"]
          /\ caller' = [caller EXCEPT ![a] = "document hook"] /\ call' = [call EXCEPT ![a] = "reduce"]
      BY <1>l, <2>1
    <3>2. document'[x] = "calling"
      BY <1>i, <3>1 DEF TypeOK
    <3>3. /\ call' \in [Announcements -> {"none", "deduplicate", "register", "reduce", "reduce directly"}]
          /\ call'[a] = "reduce" /\ \A b \in Announcements \ {a} : call'[b] = call[b]
      BY <1>i, <3>1 DEF TypeOK
    <3>4. /\ caller' \in [Announcements -> {Nobody, "producer", "extraction hook", "document hook"}]
          /\ caller'[a] = "document hook" /\ \A b \in Announcements \ {a} : caller'[b] = caller[b]
      BY <1>i, <3>1 DEF TypeOK
    <3> QED BY <2>1, <3>2, <3>3, <3>4
  <2>2. CASE ~LastDocument(a)
    BY <1>i, <1>l, <1>5, <2>2 DEF TypeOK
  <2> QED BY <2>1, <2>2
<1>1. TypeOK'
  BY <1>i, <1>2, <1>c, <1>e DEF TypeOK
<1>3. ASSUME NEW b \in Announcements \ {a}
      PROVE  Consistent(b)'
  <2>1. SameJobs(b) /\ SameStore(b) /\ SameMemory(b)
    BY <1>i, <1>2, <1>c, <1>e DEF SameJobs, SameStore, SameMemory, Of
  <2> QED BY <2>1, OthersKeep DEF IInv
<1>6. CountsExact(a)'
  BY <1>i, <1>4, <1>c DEF Consistent, CountsExact
<1>7. StagesOrdered(a)' /\ ClosedWatched(a)'
  BY <1>i, <1>4, <1>5, <1>d, <1>e DEF Consistent, StagesOrdered, ClosedWatched
<1>8. CallerPlaced(a)'
  BY <1>i, <1>5, <1>e DEF Consistent, CallerPlaced
<1>9. PlanExact(a)'
  BY <1>i, <1>4, <1>5 DEF Consistent, PlanExact
<1>10. Summarised(a)' /\ SummarySound(a)'
  BY <1>i, <1>2, <1>4, <1>5, <1>d, <1>e DEF Consistent, Summarised, SummarySound, Of
<1>11. MainOrdered'
  BY <1>i, <1>4, AfterVerdict DEF MainOrdered, ExtractionIdle
<1> QED BY <1>1, <1>3, <1>6, <1>7, <1>8, <1>9, <1>10, <1>11 DEF IInv, Consistent

LEMMA ReducerEndsKeeps ==
  ASSUME IInv, NEW a \in Announcements, ReducerEnds(a)
  PROVE  IInv'
<1> USE PipelineAssumption
<1> DEFINE evidence == IF reducer[a] = "reduce" THEN (Of(a) \ suppressed) \cap documentSummary
                       ELSE prepared[a]
<1>i. TypeOK /\ MainOrdered /\ Consistent(a)
  BY DEF IInv
<1>f. /\ reducer[a] \in {"reduce", "reduce directly"}
      /\ reducer' = [reducer EXCEPT ![a] = "notified"]
      /\ UNCHANGED <<text, suppressed, documentSummary, control, main, producer, plan, prepared,
                     counts, caller, call, extraction, document, lost>>
      /\ \/ summary' = [summary EXCEPT ![a] = Summary(evidence)] /\ UNCHANGED errors
         \/ errors' = errors \cup {a} /\ UNCHANGED summary
         \/ errors' = errors \cup {a} /\ summary' = [summary EXCEPT ![a] = Summary(evidence)]
  BY DEF ReducerEnds
<1>q. plan[a] = "queued" /\ call[a] = "none" /\ AtWork(document, a) = {}
  BY <1>i, <1>f DEF Consistent, StagesOrdered, TypeOK
<1>v. (documentSummary \cap Of(a)) \ suppressed \subseteq evidence /\ evidence \in SUBSET Attachments
  BY <1>i, <1>q DEF Consistent, Summarised, PlanExact, TypeOK, Of
<1>m. main \in {"preparing", "extracting", "summarising"}
  BY <1>i, <1>f, AfterVerdict DEF TypeOK
<1> USE <1>f
<1> HIDE DEF evidence
<1>0. \/ /\ summary'[a] = Summary(evidence) /\ UNCHANGED errors
      \/ summary'[a] \in {summary[a], Summary(evidence)} /\ errors' = errors \cup {a}
  BY <1>i DEF TypeOK
<1>1. /\ summary' \in [Announcements -> {NoSummary} \cup {Summary(d) : d \in SUBSET Attachments}]
      /\ \A b \in Announcements \ {a} : summary'[b] = summary[b]
  <2>1. summary \in [Announcements -> {NoSummary} \cup {Summary(d) : d \in SUBSET Attachments}]
    BY <1>i DEF TypeOK
  <2>2. CASE summary' = [summary EXCEPT ![a] = Summary(evidence)]
    BY <1>v, <2>1, <2>2
  <2>3. CASE UNCHANGED summary
    BY <2>1, <2>3
  <2> QED BY <2>2, <2>3
<1>2. /\ reducer' \in [Announcements -> {"idle", "reduce", "reduce directly", "notified"}]
      /\ reducer'[a] = "notified" /\ \A b \in Announcements \ {a} : reducer'[b] = reducer[b]
  BY <1>i DEF TypeOK
<1>3. TypeOK'
  <2>1. errors' \subseteq Announcements
    BY <1>i DEF TypeOK
  <2> QED BY <1>i, <1>1, <1>2, <2>1 DEF TypeOK
<1>4. ASSUME NEW b \in Announcements \ {a}
      PROVE  Consistent(b)'
  <2>1. SameJobs(b) /\ SameStore(b) /\ SameMemory(b)
    BY <1>1, <1>2 DEF SameJobs, SameStore, SameMemory
  <2> QED BY <2>1, OthersKeep DEF IInv
<1>5. AtWork(extraction, a)' = AtWork(extraction, a) /\ AtWork(document, a)' = AtWork(document, a)
  BY DEF AtWork
<1>6. CountsExact(a)' /\ CallerPlaced(a)' /\ ClosedWatched(a)'
  BY <1>i, <1>5 DEF Consistent, CountsExact, CallerPlaced, ClosedWatched
<1>7. StagesOrdered(a)'
  BY <1>i, <1>q, <1>5 DEF Consistent, StagesOrdered
<1>8. PlanExact(a)'
  BY <1>i, <1>q, <1>5 DEF Consistent, PlanExact
<1>n. Summary(evidence) # NoSummary /\ Summary(evidence).from = evidence
  BY DEF Summary, NoSummary
<1>9. Summarised(a)'
  BY <1>i, <1>q, <1>0, <1>n DEF Consistent, Summarised
<1>10. SummarySound(a)'
  BY <1>i, <1>q, <1>0, <1>2, <1>n, <1>v DEF Consistent, SummarySound
<1>11. MainOrdered'
  BY <1>i, <1>m DEF MainOrdered, ExtractionIdle
<1> QED BY <1>3, <1>4, <1>6, <1>7, <1>8, <1>9, <1>10, <1>11 DEF IInv, Consistent

LEMMA MainKeeps ==
  ASSUME IInv, AwaitExtraction \/ ExtractionDrained \/ Report
  PROVE  IInv'
<1> USE PipelineAssumption
<1>i. TypeOK /\ MainOrdered
  BY DEF IInv
<1>f. /\ UNCHANGED <<store, run, producer, plan, prepared, counts, caller, call, jobs, verdict>>
      /\ main' \in {"extracting", "summarising", "completed", "partial"} /\ covered' \in BOOLEAN
  BY <1>i DEF AwaitExtraction, ExtractionDrained, Report, Clean, TypeOK
<1>1. TypeOK'
  BY <1>i, <1>f DEF TypeOK
<1>2. \A a \in Announcements : Consistent(a)'
  BY <1>f, OthersKeep DEF IInv, SameJobs, SameStore, SameMemory
<1>3. MainOrdered'
  <2>1. CASE AwaitExtraction
    BY <1>i, <2>1 DEF AwaitExtraction, MainOrdered
  <2>2. CASE ExtractionDrained
    BY <1>i, <2>2 DEF ExtractionDrained, MainOrdered, ExtractionIdle
  <2>3. CASE Report
    BY <1>i, <2>3 DEF Report, MainOrdered, ExtractionIdle, Clean
  <2> QED BY <2>1, <2>2, <2>3
<1> QED BY <1>1, <1>2, <1>3 DEF IInv

LEMMA RestartKeeps ==
  ASSUME IInv, Restart
  PROVE  IInv'
<1> USE PipelineAssumption DEF Restart, EachAnnouncement, EachAttachment
<1>i. TypeOK /\ MainOrdered
  BY DEF IInv
<1>1. TypeOK'
  <2>1. run' \in 1..MaxRuns
    <3>1. run \in 1..MaxRuns /\ MaxRuns \in Nat /\ run < MaxRuns /\ run' = run + 1
      BY <1>i DEF TypeOK
    <3> QED BY ONLY <3>1
  <2>2. /\ text' \cup suppressed' \cup documentSummary' \subseteq Attachments /\ covered' \in BOOLEAN
        /\ summary' \in [Announcements -> {NoSummary} \cup {Summary(d) : d \in SUBSET Attachments}]
    BY <1>i DEF TypeOK
  <2> QED BY <2>1, <2>2 DEF TypeOK, JobStates
<1>2. ASSUME NEW a \in Announcements
      PROVE  Consistent(a)'
  <2>i. Consistent(a)
    BY DEF IInv
  <2>0. AtWork(extraction, a)' = {} /\ AtWork(document, a)' = {}
    BY DEF AtWork, Of
  <2>1. CountsExact(a)'
    BY <2>0, FS_EmptySet DEF CountsExact
  <2>2. StagesOrdered(a)' /\ CallerPlaced(a)' /\ ClosedWatched(a)'
    BY <2>0 DEF StagesOrdered, CallerPlaced, ClosedWatched, NoDocumentYet, Of
  <2>3. PlanExact(a)'
    BY <2>0 DEF PlanExact, Of
  <2>4. Summarised(a)' /\ SummarySound(a)'
    BY <2>i DEF Consistent, Summarised, SummarySound, Of
  <2> QED BY <2>1, <2>2, <2>3, <2>4 DEF Consistent
<1>3. MainOrdered'
  BY <1>i DEF MainOrdered
<1> QED BY <1>1, <1>2, <1>3 DEF IInv

LEMMA NextKeeps ==
  ASSUME IInv, [Next]_vars
  PROVE  IInv'
<1>1. CASE Producer
  BY <1>1, BeginKeeps, ClosePreparationKeeps, ProducerCompletesKeeps, PreparationFailsKeeps, AttachKeeps,
     MainKeeps DEF Producer
<1>2. ASSUME NEW x \in Attachments, Job(x) PROVE IInv'
  BY <1>2, ExtractionEndsKeeps, ExtractionCountedKeeps, HookCompletesKeeps, DocumentEndsKeeps,
     DocumentCountedKeeps DEF Job
<1>3. ASSUME NEW a \in Announcements, Downstream(a) PROVE IInv'
  BY <1>3, CallRaisesKeeps, DeduplicateKeeps, RegisterKeeps, QueueReducerKeeps, ReducerEndsKeeps
     DEF Downstream
<1>4. CASE Restart
  BY <1>4, RestartKeeps
<1>5. CASE UNCHANGED vars
  <2> USE <1>5 DEF vars
  <2>1. \A a \in Announcements : Consistent(a)'
    BY OthersKeep DEF IInv, SameJobs, SameStore, SameMemory
  <2>2. TypeOK' /\ MainOrdered'
    BY DEF IInv, TypeOK, MainOrdered, ExtractionIdle
  <2> QED BY <2>1, <2>2 DEF IInv
<1> QED BY <1>1, <1>2, <1>3, <1>4, <1>5 DEF Next, Terminated

-----------------------------------------------------------------------------
(* The theorems.                                                           *)

(* The inductive invariant holds in every reachable state, whatever the    *)
(* order of hooks, workers and producer, and through crashes.              *)
THEOREM Invariance == Spec => []IInv
<1>1. Init => IInv
  BY InitIInv
<1>2. IInv /\ [Next]_vars => IInv'
  BY NextKeeps
<1> QED BY <1>1, <1>2, PTL DEF Spec

(* The counters under plan.lock and the LLM scheduler's pending counter    *)
(* are the jobs still out.                                                 *)
THEOREM CountersAreExact == Spec => []OutstandingExact
<1>1. IInv => OutstandingExact
  BY DEF IInv, Consistent, CountsExact, OutstandingExact
<1> QED BY <1>1, Invariance, PTL

(* _queue_llm_plan sees every text of its announcement, and a reducer      *)
(* every document job ended.                                               *)
THEOREM EvidenceIsComplete == Spec => []EvidenceComplete
<1>1. IInv => EvidenceComplete
  BY DEF IInv, Consistent, StagesOrdered, PlanExact, EvidenceComplete
<1> QED BY <1>1, Invariance, PTL

(* When the run is judged no job, hook or registration is left.            *)
THEOREM VerdictComesLast == Spec => []NothingAfterVerdict
<1>1. IInv => NothingAfterVerdict
  BY AfterExtraction, AfterVerdict DEF NothingAfterVerdict
<1> QED BY <1>1, Invariance, PTL

(* Without a raised hook, a covered interval has a summary of every        *)
(* announcement: incremental runs and audits, with any faults.             *)
THEOREM CoveredIsSummarised ==
  Spec => [](covered /\ lost = {} => \A a \in Announcements : summary[a] # NoSummary)
<1>1. ASSUME IInv, covered, lost = {}, NEW a \in Announcements
      PROVE  summary[a] # NoSummary
  <2>1. main = "completed" /\ errors = {}
    BY <1>1 DEF IInv, MainOrdered
  <2>2. plan[a] \in {"skipped", "failed", "queued"} /\ call[a] = "none" /\ AtWork(document, a) = {}
        /\ reducer[a] \in {"idle", "notified"}
    BY <1>1, <2>1, AfterExtraction, AfterVerdict
  <2> QED BY <1>1, <2>1, <2>2 DEF IInv, Consistent, Summarised
<1>2. IInv => (covered /\ lost = {} => \A a \in Announcements : summary[a] # NoSummary)
  BY <1>1
<1> QED BY <1>2, Invariance, PTL

(* In incremental runs that summary also accounts for every summarised     *)
(* document that was kept.  For audits it does not hold: a later audit     *)
(* keeps a summary that misses documents of one that failed in between.    *)
THEOREM CoverageIsSound ==
  ASSUME Mode = "incremental"
  PROVE  Spec => []CoverageSound
<1>1. IInv /\ (covered /\ lost = {} => \A a \in Announcements : summary[a] # NoSummary) => CoverageSound
  BY DEF IInv, Consistent, SummarySound, CoverageSound
<1> QED BY <1>1, Invariance, CoveredIsSummarised, PTL

(* Of the hooks and the producer that race for an announcement, one        *)
(* registers it: nothing is submitted twice in a run.                      *)
THEOREM NothingSubmittedTwice == Spec => SubmittedOnce
<1> DEFINE Once == run' = run =>
             /\ \A x \in Attachments : document'[x] = "running" => document[x] \in {"idle", "running"}
             /\ \A a \in Announcements : reducer'[a] # reducer[a] =>
                  reducer[a] = "idle" \/ reducer'[a] = "notified"
<1>1. ASSUME IInv, [Next]_vars
      PROVE  Once
  <2>t. TypeOK
    BY <1>1 DEF IInv
  <2>u. ASSUME UNCHANGED <<document, reducer>> PROVE Once
    BY <2>u
  <2>1. CASE Producer
    BY <2>1, <2>u DEF Producer, BeginAnnouncement, ClosePreparation, ProducerCompletes, PreparationFails,
          Attach, AwaitExtraction, ExtractionDrained, Report
  <2>2. ASSUME NEW x \in Attachments, Job(x) PROVE Once
    <3>1. CASE ExtractionEnds(x) \/ ExtractionCounted(x) \/ HookCompletes(x)
      BY <3>1, <2>u DEF ExtractionEnds, ExtractionCounted, HookCompletes
    <3>2. ASSUME NEW value \in {"ended", "raised", "calling", "notified"},
                 document' = [document EXCEPT ![x] = value], UNCHANGED reducer
          PROVE  Once
      BY <2>t, <3>2 DEF TypeOK
    <3>3. CASE DocumentEnds(x)
      BY <3>2, <3>3 DEF DocumentEnds
    <3>4. CASE DocumentCounted(x)
      BY <3>2, <3>4 DEF DocumentCounted
    <3> QED BY <2>2, <3>1, <3>3, <3>4 DEF Job
  <2>3. ASSUME NEW a \in Announcements, Downstream(a) PROVE Once
    <3>i. StagesOrdered(a) /\ PlanExact(a)
      BY <1>1 DEF IInv, Consistent
    <3>1. CASE CallRaises(a)
      BY <3>1, <2>t DEF CallRaises, Released, TypeOK
    <3>2. CASE Deduplicate(a)
      BY <3>2, <2>u DEF Deduplicate
    <3>3. CASE Register(a)
      BY <3>3, <3>i, <2>t DEF Register, StagesOrdered, PlanExact, NoDocumentYet, TypeOK
    <3>4. CASE QueueReducer(a)
      BY <3>4, <3>i, <2>t DEF QueueReducer, Released, StagesOrdered, TypeOK
    <3>5. CASE ReducerEnds(a)
      BY <3>5, <2>t DEF ReducerEnds, TypeOK
    <3> QED BY <2>3, <3>1, <3>2, <3>3, <3>4, <3>5 DEF Downstream
  <2>4. CASE Restart
    <3>1. run \in 1..MaxRuns /\ MaxRuns \in Nat /\ run' = run + 1
      BY <2>t, <2>4, PipelineAssumption DEF TypeOK, Restart
    <3>2. run' # run
      BY ONLY <3>1
    <3> QED BY <3>2
  <2>5. CASE UNCHANGED vars
    BY <2>5, <2>u DEF vars
  <2> QED BY <1>1, <2>1, <2>2, <2>3, <2>4, <2>5 DEF Next, Terminated
<1> QED BY <1>1, Invariance, PTL DEF Spec, SubmittedOnce
=============================================================================
