------------------------ MODULE RecoveryRunner_proofs ------------------------
(***************************************************************************)
(* For any finite set of attachments, any manifests, and any writes of the *)
(* daily collector, lost calls, failures, interruptions and kills: the     *)
(* recovery runner takes nothing back from READY by itself, leaves nothing *)
(* in progress, analyses from every attachment, and reports truthfully.    *)
(*                                                                         *)
(* IInv is the inductive invariant.  Typed, CacheSound and PlanSound say   *)
(* what the process may hold of a record; Planned and Positioned, how far  *)
(* it is; Owned, what it knows of the record in hand as long as the        *)
(* collector has not written to it; Released, that it answers for every    *)
(* record in progress; Accounted and RowTracked, what the run row will say.*)
(***************************************************************************)
EXTENDS RecoveryRunner, FiniteSetTheorems, FunctionTheorems, TLAPS

Entries == [id : Records, status : Pending]
Exec == {"claiming", "downloading", "extracting", "analysing", "committing", "finishing", "verifying",
         "reporting", "failing", "resetting"}
InProgress == {"EXTRACTING", "ANALYZING"}

Typed ==
  /\ status \in [Records -> Statuses]
  /\ analysed \in [Records -> BOOLEAN] /\ moved \in [Records -> BOOLEAN]
  /\ rows \subseteq Attachments /\ raw \subseteq Attachments /\ text \subseteq raw
  /\ runRow \in {"none", "RUNNING", "COMPLETE", "PARTIAL", "FAILED"}
  /\ manifest \in Seq(Entries)
  /\ pc \in {"idle", "preflight", "opening", "record", "closing"} \cup Exec
  /\ at \in 1..(Len(manifest) + 1) /\ unnoted \in 0..Len(manifest)
  /\ drawn \in Nat /\ drawn <= Cardinality(Attachments)
  /\ DOMAIN cache = Records /\ DOMAIN plan = Records

(* Analyses are never taken away, so what was read of one stays true.      *)
CacheSound ==
  \A r \in Records : cache[r] # None =>
    cache[r].rows \subseteq FilesOf(r) /\ (cache[r].analysed => analysed[r])

(* A plan is made from the rows the preflight saw.                         *)
Plans(p, r) ==
  \E stored \in SUBSET FilesOf(r) :
    /\ p.valid \subseteq stored
    /\ p.needed = Cardinality(FilesOf(r) \ p.valid)
    /\ p.queue = SetToSeq(FilesOf(r) \ stored)

PlanSound == \A r \in Records : plan[r] # None => Plans(plan[r], r) /\ (plan[r].noop => analysed[r])

Planned ==
  /\ pc = "preflight" => \A i \in 1..(at - 1) : plan[manifest[i].id] # None
  /\ pc \in {"opening", "record"} \cup Exec => \A i \in 1..Len(manifest) : plan[manifest[i].id] # None

Positioned ==
  /\ pc \in {"idle", "preflight", "opening"} => drawn = 0 /\ ~errors
  /\ pc \in {"idle", "opening"} => at = 1
  /\ pc = "record" => drawn = 0
  /\ pc \in {"preflight"} \cup Exec => at <= Len(manifest)
  /\ pc \in Exec => drawn <= plan[InHand].needed /\ drawn <= Len(plan[InHand].queue)
  /\ pc = "extracting" => /\ drawn < plan[InHand].needed /\ drawn < Len(plan[InHand].queue)
                          /\ plan[InHand].queue[drawn + 1] \in raw
  /\ pc \in {"analysing", "committing"} => drawn >= plan[InHand].needed
  /\ pc = "resetting" => errors

Unfinished == {"claiming", "downloading", "extracting", "analysing", "committing", "resetting"}
Uncached == {"downloading", "extracting", "analysing", "committing", "finishing", "verifying"}

Owned ==
  /\ pc \in Uncached => cache[InHand] = None
  /\ pc = "reporting" => analysed[InHand] /\ cache[InHand] # None /\ cache[InHand].status = "READY"
  /\ pc \in Exec /\ InHand \notin overtaken =>
       /\ pc = "reporting" => status[InHand] = "READY"
       /\ pc \in Unfinished => status[InHand] # "READY"
       /\ pc = "failing" /\ cache[InHand] # None /\ cache[InHand].status \in InProgress =>
            status[InHand] # "READY"
       /\ pc = "failing" /\ cache[InHand] # None /\ InHand \notin excused /\ status[InHand] \in InProgress =>
            cache[InHand].status \in InProgress

Released ==
  \A r \in Records \ (excused \cup overtaken) :
    status[r] \in InProgress => pc \in Exec /\ r = InHand

Accounted ==
  /\ pc \in {"record", "closing"} \cup Exec /\ ~errors => \A i \in 1..(at - 1) : analysed[manifest[i].id]
  /\ pc = "closing" /\ ~errors => at > Len(manifest) \/ (unnoted = at /\ analysed[InHand])
  /\ CompleteMeansAnalysed

RowTracked ==
  /\ runRow = "RUNNING" => orphaned \/ pc \in {"record", "closing"} \cup Exec
  /\ pc \in {"preflight", "opening"} => runRow = "none"
  /\ pc \in {"record", "closing"} \cup Exec => runRow = "RUNNING"

IInv ==
  /\ Typed /\ CacheSound /\ PlanSound
  /\ Planned /\ Positioned
  /\ Owned /\ Released
  /\ Accounted /\ RowTracked

-----------------------------------------------------------------------------
(* The operators of the model.                                             *)

LEMMA AttachmentsCounted == Cardinality(Attachments) \in Nat
BY RecoveryAssumption, FS_CardinalityType

LEMMA FilesFinite ==
  ASSUME NEW r, NEW S \in SUBSET FilesOf(r)
  PROVE  IsFiniteSet(S) /\ Cardinality(S) \in Nat /\ Cardinality(S) <= Cardinality(Attachments)
<1>1. S \in SUBSET Attachments
  BY DEF FilesOf
<1>2. IsFiniteSet(S) /\ Cardinality(S) <= Cardinality(Attachments)
  BY <1>1, RecoveryAssumption, FS_Subset
<1> QED BY <1>2, FS_CardinalityType

(* The queue of a plan holds each file once.                               *)
LEMMA QueueWhole ==
  ASSUME NEW S, IsFiniteSet(S)
  PROVE  /\ SetToSeq(S) \in Seq(S) /\ Len(SetToSeq(S)) = Cardinality(S)
         /\ \A i, j \in 1..Cardinality(S) : SetToSeq(S)[i] = SetToSeq(S)[j] => i = j
         /\ \A a \in S : \E i \in 1..Cardinality(S) : SetToSeq(S)[i] = a
<1> DEFINE n == Cardinality(S)
           D == 1..n
<1>1. n \in Nat /\ ExistsBijection(D, S)
  BY FS_CardinalityType
<1>2. PICK f : f \in Bijection(D, S)
  BY <1>1, Fun_ExistsBij
<1>3. f \in [D -> S] /\ \A i, j \in D : f[i] = f[j] => i = j
  BY <1>2, Fun_BijectionProperties
<1>4. \E g \in [D -> S] : IsInjective(g)
  BY <1>3 DEF IsInjective
<1> DEFINE s == SetToSeq(S)
<1>5. s = CHOOSE g \in [D -> S] : IsInjective(g)
  BY DEF SetToSeq
<1> HIDE DEF s, D
<1>6. s \in [D -> S] /\ IsInjective(s)
  BY <1>4, <1>5
<1>7. \A i, j \in D : s[i] = s[j] => i = j
  BY <1>6 DEF IsInjective
<1>8. IsFiniteSet(D) /\ Cardinality(D) = n
  <2> HIDE DEF n
  <2> QED BY <1>1, FS_Interval DEF D
<1>9. s \in Injection(D, S)
  BY <1>6, <1>7, Fun_IsInj
<1>10. s \in Surjection(D, S)
  BY <1>8, <1>9, FS_Injection
<1>11. \A a \in S : \E i \in D : s[i] = a
  BY <1>10, Fun_SurjectionProperties
<1>12. s \in Seq(S) /\ Len(s) = n
  <2> HIDE DEF n
  <2> QED BY <1>1, <1>6 DEF D
<1> QED BY <1>7, <1>11, <1>12 DEF s, D

LEMMA PlanTyped ==
  ASSUME NEW r, NEW p, Plans(p, r)
  PROVE  /\ p.needed \in Nat /\ p.needed <= Cardinality(Attachments)
         /\ Len(p.queue) \in Nat
         /\ \A i \in 1..Len(p.queue) : p.queue[i] \in FilesOf(r)
<1>1. PICK stored \in SUBSET FilesOf(r) :
        /\ p.valid \subseteq stored
        /\ p.needed = Cardinality(FilesOf(r) \ p.valid)
        /\ p.queue = SetToSeq(FilesOf(r) \ stored)
  BY DEF Plans
<1>2. p.needed \in Nat /\ p.needed <= Cardinality(Attachments)
  BY <1>1, FilesFinite
<1>3. IsFiniteSet(FilesOf(r) \ stored) /\ Cardinality(FilesOf(r) \ stored) \in Nat
  BY FilesFinite
<1>4. p.queue \in Seq(FilesOf(r) \ stored)
  BY <1>1, <1>3, QueueWhole
<1> QED BY <1>2, <1>4

(* A queue drawn as often as files are needed has brought all of them:     *)
(* what has no row is also what is not on this machine.                    *)
LEMMA PlanWhole ==
  ASSUME NEW r, NEW p, Plans(p, r), NEW n \in Nat, p.needed <= n, n <= Len(p.queue)
  PROVE  p.valid \cup {p.queue[i] : i \in 1..n} = FilesOf(r)
<1>1. PICK stored \in SUBSET FilesOf(r) :
        /\ p.valid \subseteq stored
        /\ p.needed = Cardinality(FilesOf(r) \ p.valid)
        /\ p.queue = SetToSeq(FilesOf(r) \ stored)
  BY DEF Plans
<1> DEFINE missing == FilesOf(r) \ p.valid
           queued == FilesOf(r) \ stored
<1>2. IsFiniteSet(missing) /\ Cardinality(missing) \in Nat
  BY FilesFinite
<1>3. IsFiniteSet(queued) /\ Cardinality(queued) \in Nat
  BY FilesFinite
<1>4. /\ Len(p.queue) = Cardinality(queued) /\ p.queue \in Seq(queued)
      /\ \A a \in queued : \E i \in 1..Cardinality(queued) : p.queue[i] = a
  <2>1. p.queue = SetToSeq(queued)
    BY <1>1
  <2> HIDE DEF queued
  <2> QED BY <2>1, <1>3, QueueWhole
<1>5. queued \in SUBSET missing
  BY <1>1
<1>6. Cardinality(queued) <= Cardinality(missing)
  BY <1>2, <1>5, FS_Subset
<1>7. Cardinality(queued) = Cardinality(missing) /\ n = Len(p.queue)
  <2>1. p.needed = Cardinality(missing)
    BY <1>1
  <2> HIDE DEF missing, queued
  <2> QED BY <2>1, <1>2, <1>3, <1>4, <1>6
<1>8. missing = queued
  BY <1>2, <1>5, <1>7, FS_Subset
<1>9. {p.queue[i] : i \in 1..n} = queued
  <2>1. \A i \in 1..n : p.queue[i] \in queued
    BY <1>4, <1>7
  <2> HIDE DEF missing, queued
  <2> QED BY <2>1, <1>4, <1>7
<1> QED BY <1>1, <1>8, <1>9

LEMMA PlanMade ==
  ASSUME NEW r, NEW response, response.rows \subseteq FilesOf(r)
  PROVE  /\ PlanFor(r, response) # None /\ Plans(PlanFor(r, response), r)
         /\ PlanFor(r, response).noop => response.analysed
<1> DEFINE p == PlanFor(r, response)
<1>1. /\ p.valid = response.rows \cap (raw \cup text)
      /\ p.needed = Cardinality(FilesOf(r) \ p.valid)
      /\ p.queue = SetToSeq(FilesOf(r) \ response.rows)
      /\ p.noop = response.analysed
  BY DEF PlanFor, Valid
<1>2. p # None
  BY DEF PlanFor, None
<1>3. Plans(p, r)
  <2> HIDE DEF p
  <2> QED BY <1>1 DEF Plans
<1> QED BY <1>1, <1>2, <1>3

LEMMA ResponseSound ==
  ASSUME Typed, CacheSound, NEW r \in Records
  PROVE  /\ Response(r).rows \subseteq FilesOf(r) /\ Response(r) # None
         /\ Response(r).status = status[r] /\ Response(r).analysed = analysed[r]
         /\ Fetched(r).rows \subseteq FilesOf(r) /\ (Fetched(r).analysed => analysed[r]) /\ Fetched(r) # None
<1>1. /\ Response(r).rows = rows \cap FilesOf(r) /\ Response(r) # None
      /\ Response(r).status = status[r] /\ Response(r).analysed = analysed[r]
  BY DEF Response, None
<1>2. CASE cache[r] = None
  BY <1>1, <1>2 DEF Fetched
<1>3. CASE cache[r] # None
  <2>1. Fetched(r) = cache[r]
    BY <1>3 DEF Fetched
  <2> QED BY <1>1, <1>3, <2>1 DEF CacheSound
<1> QED BY <1>2, <1>3

-----------------------------------------------------------------------------
(* What several actions share.                                             *)

LEMMA ManifestTyped ==
  ASSUME Typed
  PROVE  /\ Len(manifest) \in Nat /\ DOMAIN manifest = 1..Len(manifest) /\ at \in Nat \ {0}
         /\ \A i \in 1..Len(manifest) : manifest[i].id \in Records /\ manifest[i].status \in Pending
<1>1. manifest \in Seq(Entries) /\ at \in 1..(Len(manifest) + 1)
  BY DEF Typed
<1>2. Len(manifest) \in Nat /\ DOMAIN manifest = 1..Len(manifest)
  BY <1>1
<1>3. at \in Nat \ {0}
  BY <1>1, <1>2
<1>4. \A i \in 1..Len(manifest) : manifest[i] \in Entries
  BY <1>1
<1> QED BY <1>2, <1>3, <1>4 DEF Entries

LEMMA HandTyped ==
  ASSUME IInv, pc \in {"preflight"} \cup Exec \/ at <= Len(manifest)
  PROVE  at \in 1..Len(manifest) /\ InHand \in Records
<1>1. Typed /\ at <= Len(manifest)
  BY DEF IInv, Positioned
<1> QED BY <1>1, ManifestTyped DEF InHand

(* The plan of the record in hand.                                         *)
LEMMA HandPlanned ==
  ASSUME IInv, pc \in {"record"} \cup Exec, at <= Len(manifest)
  PROVE  /\ plan[InHand] # None /\ Plans(plan[InHand], InHand) /\ (plan[InHand].noop => analysed[InHand])
         /\ plan[InHand].needed \in Nat /\ plan[InHand].needed <= Cardinality(Attachments)
         /\ Len(plan[InHand].queue) \in Nat
         /\ \A i \in 1..Len(plan[InHand].queue) : plan[InHand].queue[i] \in FilesOf(InHand)
<1>1. at \in 1..Len(manifest) /\ InHand \in Records
  BY HandTyped
<1>2. plan[InHand] # None
  BY <1>1 DEF IInv, Planned, InHand
<1>3. Plans(plan[InHand], InHand) /\ (plan[InHand].noop => analysed[InHand])
  BY <1>1, <1>2 DEF IInv, PlanSound
<1> QED BY <1>2, <1>3, PlanTyped

(* A process that ends leaves nothing in memory to go wrong.               *)
LEMMA LeaveClears ==
  ASSUME Leave
  PROVE  /\ CacheSound' /\ PlanSound' /\ Planned' /\ Positioned' /\ Owned'
         /\ pc' = "idle" /\ at' = 1 /\ drawn' = 0 /\ DOMAIN cache' = Records /\ DOMAIN plan' = Records
<1>1. /\ pc' = "idle" /\ cache' = NoEntries /\ plan' = NoEntries
      /\ at' = 1 /\ drawn' = 0 /\ errors' = FALSE
  BY DEF Leave
<1>2. CacheSound' /\ PlanSound'
  BY <1>1 DEF CacheSound, PlanSound, NoEntries
<1>3. Planned' /\ Positioned' /\ Owned'
  BY <1>1 DEF Planned, Positioned, Owned, Exec, Uncached
<1> QED BY <1>1, <1>2, <1>3 DEF NoEntries

LEMMA LeaveStep ==
  ASSUME IInv, Leave, UNCHANGED <<status, analysed, moved, rows, files, manifest, overtaken, unnoted>>,
         excused \subseteq excused',
         pc \in Exec => InHand \in excused' \cup overtaken \/ status[InHand] \notin InProgress,
         runRow' \in {"none", "RUNNING", "COMPLETE", "PARTIAL", "FAILED"},
         runRow' = "RUNNING" => orphaned',
         runRow' = "COMPLETE" =>
           \/ runRow = "COMPLETE"
           \/ \A i \in 1..Len(manifest) : analysed[manifest[i].id] \/ (unnoted # 0 /\ i > unnoted)
  PROVE  IInv'
<1>1. Typed /\ Released /\ Accounted
  BY DEF IInv
<1>2. /\ CacheSound' /\ PlanSound' /\ Planned' /\ Positioned' /\ Owned'
      /\ pc' = "idle" /\ at' = 1 /\ drawn' = 0 /\ DOMAIN cache' = Records /\ DOMAIN plan' = Records
  BY LeaveClears
<1>3. Typed'
  <2>1. at' \in 1..(Len(manifest') + 1)
    BY <1>1, <1>2, ManifestTyped
  <2> QED BY <1>1, <1>2, <2>1, AttachmentsCounted DEF Typed, files
<1>4. Released'
  BY <1>1 DEF Released
<1>5. Accounted'
  <2>1. CompleteMeansAnalysed'
    BY <1>1, ManifestTyped DEF Accounted, CompleteMeansAnalysed
  <2> QED BY <2>1, <1>2 DEF Accounted, Exec
<1>6. RowTracked'
  BY <1>2 DEF RowTracked, Exec
<1> QED BY <1>2, <1>3, <1>4, <1>5, <1>6 DEF IInv

(* What a step on the record in hand leaves alone.                         *)
HandOnly ==
  /\ UNCHANGED <<manifest, plan, at, runRow, orphaned, unnoted>>
  /\ status' \in [Records -> Statuses] /\ moved' \in [Records -> BOOLEAN] /\ analysed' \in [Records -> BOOLEAN]
  /\ \A r \in Records \ {InHand} : status'[r] = status[r]
  /\ \A r \in Records : analysed[r] => analysed'[r]
  /\ rows' \subseteq Attachments /\ raw \subseteq raw' /\ raw' \subseteq Attachments /\ text' \subseteq raw'
  /\ DOMAIN cache' = Records /\ \A r \in Records \ {InHand} : cache'[r] = cache[r]
  /\ cache'[InHand] \in {None, cache[InHand], Response(InHand)}
  /\ \A r \in Records \ {InHand} : (r \in excused' <=> r \in excused) /\ (r \in overtaken' <=> r \in overtaken)

LEMMA HandOnlyKeeps ==
  ASSUME IInv, HandOnly, pc \in {"record"} \cup Exec, at <= Len(manifest)
  PROVE  /\ CacheSound' /\ PlanSound'
         /\ \A i \in 1..Len(manifest) : plan'[manifest'[i].id] # None
         /\ \A r \in Records \ (excused' \cup overtaken') : status'[r] \in InProgress => r = InHand
         /\ ~errors => \A i \in 1..(at - 1) : analysed'[manifest'[i].id]
         /\ runRow' = "RUNNING"
<1>1. Typed /\ CacheSound /\ PlanSound /\ Planned /\ Released /\ Accounted /\ RowTracked
  BY DEF IInv
<1>2. at \in 1..Len(manifest) /\ InHand \in Records
  BY HandTyped
<1>3. CacheSound'
  <2> SUFFICES ASSUME NEW r \in Records, cache'[r] # None
               PROVE  cache'[r].rows \subseteq FilesOf(r) /\ (cache'[r].analysed => analysed'[r])
    BY DEF CacheSound
  <2>1. CASE cache'[r] = cache[r]
    BY <1>1, <2>1 DEF HandOnly, CacheSound
  <2>2. CASE r = InHand /\ cache'[r] = Response(r)
    <3>1. Response(r).rows \subseteq FilesOf(r) /\ Response(r).analysed = analysed[r]
      BY <1>1, ResponseSound
    <3> QED BY <2>2, <3>1 DEF HandOnly
  <2> QED BY <2>1, <2>2 DEF HandOnly
<1>4. PlanSound'
  BY <1>1 DEF HandOnly, PlanSound
<1>5. \A i \in 1..Len(manifest) : plan'[manifest'[i].id] # None
  BY <1>1 DEF HandOnly, Planned
<1>6. \A r \in Records \ (excused' \cup overtaken') : status'[r] \in InProgress => r = InHand
  BY <1>1 DEF HandOnly, Released
<1>7. \A i \in 1..Len(manifest) : manifest[i].id \in Records
  BY <1>1, ManifestTyped
<1>8. ~errors => \A i \in 1..(at - 1) : analysed'[manifest'[i].id]
  <2>1. \A i \in 1..(at - 1) : i \in 1..Len(manifest)
    BY <1>2
  <2> QED BY <2>1, <1>1, <1>7 DEF HandOnly, Accounted
<1>9. runRow' = "RUNNING"
  BY <1>1 DEF HandOnly, RowTracked
<1> QED BY <1>3, <1>4, <1>5, <1>6, <1>8, <1>9

(* The run stays with the record in hand.                                  *)
LEMMA HandledStep ==
  ASSUME IInv, HandOnly, pc \in {"record"} \cup Exec, pc' \in Exec, at <= Len(manifest), errors => errors',
         drawn' \in Nat, drawn' <= Cardinality(Attachments), Positioned', Owned'
  PROVE  IInv'
<1>1. Typed /\ RowTracked
  BY DEF IInv
<1>2. /\ CacheSound' /\ PlanSound'
      /\ \A i \in 1..Len(manifest) : plan'[manifest'[i].id] # None
      /\ \A r \in Records \ (excused' \cup overtaken') : status'[r] \in InProgress => r = InHand
      /\ ~errors => \A i \in 1..(at - 1) : analysed'[manifest'[i].id]
      /\ runRow' = "RUNNING"
  BY HandOnlyKeeps
<1>3. InHand' = InHand /\ manifest' = manifest /\ at' = at
  BY DEF HandOnly, InHand
<1>4. Typed'
  BY <1>1 DEF Typed, HandOnly
<1>5. Planned'
  BY <1>2, <1>3 DEF Planned, Exec
<1>6. Released'
  BY <1>2, <1>3 DEF Released
<1>7. Accounted'
  BY <1>1, <1>2, <1>3, ManifestTyped DEF Accounted, CompleteMeansAnalysed, Exec
<1>8. RowTracked'
  BY <1>1 DEF RowTracked, HandOnly, Exec
<1> QED BY <1>2, <1>4, <1>5, <1>6, <1>7, <1>8 DEF IInv

(* The run ends with the record in hand, and answers for it.               *)
LEMMA GivenUpStep ==
  ASSUME IInv, HandOnly, pc \in Exec, pc' = "closing", drawn' \in Nat, drawn' <= Cardinality(Attachments), errors',
         InHand \in excused' \cup overtaken' \/ status'[InHand] \notin InProgress
  PROVE  IInv'
<1>1. Typed /\ RowTracked /\ at <= Len(manifest)
  BY DEF IInv, Positioned
<1>2. /\ CacheSound' /\ PlanSound'
      /\ \A r \in Records \ (excused' \cup overtaken') : status'[r] \in InProgress => r = InHand
      /\ runRow' = "RUNNING"
  BY <1>1, HandOnlyKeeps
<1>3. manifest' = manifest /\ at' = at
  BY DEF HandOnly
<1>4. Typed'
  BY <1>1 DEF Typed, HandOnly
<1>5. Planned' /\ Positioned' /\ Owned'
  BY DEF Planned, Positioned, Owned, Exec, Uncached
<1>6. Released'
  BY <1>2 DEF Released
<1>7. Accounted'
  BY <1>1, <1>2, <1>3, ManifestTyped DEF Accounted, CompleteMeansAnalysed
<1>8. RowTracked'
  BY <1>1 DEF RowTracked, HandOnly
<1> QED BY <1>2, <1>4, <1>5, <1>6, <1>7, <1>8 DEF IInv

-----------------------------------------------------------------------------
(* The operator and the collector.                                         *)

LEMMA WriteManifestHolds ==
  ASSUME IInv, NEW batch \in Batches, WriteManifest(batch)
  PROVE  IInv'
<1>1. /\ pc = "idle" /\ pc' = pc /\ runRow' = "none" /\ unnoted' = 0
      /\ \A r \in Range(batch) : status[r] \in Pending
      /\ manifest' = [i \in DOMAIN batch |-> [id |-> batch[i], status |-> status[batch[i]]]]
      /\ moved' = [r \in Records |-> FALSE]
      /\ UNCHANGED <<status, analysed, rows, raw, text, cache, plan, at, drawn, worked, errors, overtaken, excused>>
  BY DEF WriteManifest, files, memory
<1>2. Typed /\ CacheSound /\ PlanSound /\ Positioned /\ Released
  BY DEF IInv
<1>3. manifest' \in Seq(Entries)
  <2>1. PICK n \in 1..Cardinality(Records) : batch \in [1..n -> Records]
    BY DEF Batches
  <2>2. n \in Nat /\ \A i \in 1..n : batch[i] \in Records /\ status[batch[i]] \in Pending
    BY <1>1, <2>1 DEF Range
  <2>3. manifest' = [i \in 1..n |-> [id |-> batch[i], status |-> status[batch[i]]]]
    BY <1>1, <2>1
  <2>4. manifest' \in [1..n -> Entries]
    BY <2>2, <2>3 DEF Entries
  <2> QED BY <2>2, <2>4
<1>4. at' = 1 /\ 1 \in 1..(Len(manifest') + 1)
  <2>1. Len(manifest') \in Nat
    BY <1>3
  <2> QED BY <1>1, <1>2, <2>1 DEF Positioned
<1>5. Typed'
  <2>1. unnoted' \in 0..Len(manifest')
    BY <1>1, <1>3
  <2> QED BY <1>1, <1>2, <1>3, <1>4, <2>1 DEF Typed
<1>6. CacheSound' /\ PlanSound'
  BY <1>1, <1>2 DEF CacheSound, PlanSound, Plans
<1>7. Planned' /\ Owned' /\ Accounted' /\ RowTracked'
  BY <1>1 DEF Planned, Owned, Accounted, CompleteMeansAnalysed, RowTracked, Exec, Uncached
<1>8. Positioned'
  BY <1>1, <1>2 DEF Positioned, Exec
<1>9. Released'
  BY <1>1, <1>2 DEF Released, Exec
<1> QED BY <1>5, <1>6, <1>7, <1>8, <1>9 DEF IInv

LEMMA InvokeHolds ==
  ASSUME IInv, Invoke
  PROVE  IInv'
<1>1. /\ pc = "idle" /\ pc' = "preflight" /\ runRow' = "none" /\ unnoted' = 0 /\ manifest # <<>>
      /\ UNCHANGED <<status, analysed, moved, rows, raw, text, manifest, cache, plan, at, drawn, worked, errors,
                     overtaken, excused>>
  BY DEF Invoke, files, memory
<1>2. Typed /\ CacheSound /\ PlanSound /\ Positioned /\ Released
  BY DEF IInv
<1>3. Typed'
  <2>1. unnoted' \in 0..Len(manifest')
    BY <1>1, <1>2, ManifestTyped
  <2> QED BY <1>1, <1>2, <2>1 DEF Typed
<1>4. CacheSound' /\ PlanSound'
  BY <1>1, <1>2 DEF CacheSound, PlanSound
<1>5. at = 1 /\ drawn = 0 /\ ~errors /\ at <= Len(manifest)
  <2>1. manifest \in Seq(Entries)
    BY <1>2 DEF Typed
  <2> QED BY <1>1, <1>2, <2>1 DEF Positioned
<1>6. Planned' /\ Owned' /\ Accounted' /\ RowTracked'
  BY <1>1, <1>5 DEF Planned, Owned, Accounted, CompleteMeansAnalysed, RowTracked, Exec, Uncached
<1>7. Positioned'
  BY <1>1, <1>5 DEF Positioned, Exec
<1>8. Released'
  BY <1>1, <1>2 DEF Released, Exec
<1> QED BY <1>3, <1>4, <1>6, <1>7, <1>8 DEF IInv

LEMMA LoseFilesHolds ==
  ASSUME IInv, LoseFiles
  PROVE  IInv'
<1>1. /\ pc = "idle" /\ pc' = pc /\ raw' = {} /\ text' = {}
      /\ UNCHANGED <<status, analysed, moved, rows, runRow, manifest, cache, plan, at, drawn, worked, errors,
                     overtaken, excused, orphaned, unnoted>>
  BY DEF LoseFiles, synapse, memory, history
<1>2. Typed /\ CacheSound /\ PlanSound /\ Positioned /\ Released /\ Accounted /\ RowTracked
  BY DEF IInv
<1>3. Typed'
  BY <1>1, <1>2 DEF Typed
<1>4. CacheSound' /\ PlanSound'
  BY <1>1, <1>2 DEF CacheSound, PlanSound
<1>5. Planned' /\ Owned' /\ Accounted' /\ RowTracked'
  BY <1>1, <1>2 DEF Planned, Owned, Accounted, CompleteMeansAnalysed, RowTracked, Exec, Uncached
<1>6. Positioned'
  BY <1>1, <1>2 DEF Positioned, Exec
<1>7. Released'
  BY <1>1, <1>2 DEF Released, Exec
<1> QED BY <1>3, <1>4, <1>5, <1>6, <1>7 DEF IInv

(* What the collector writes, the runner does not answer for.              *)
LEMMA CollectorHolds ==
  ASSUME IInv, NEW r \in Records, Collector(r)
  PROVE  IInv'
<1>1. Typed /\ CacheSound /\ PlanSound /\ Planned /\ Positioned /\ Owned /\ Released /\ Accounted /\ RowTracked
  BY DEF IInv
<1>2. /\ \E value \in Statuses : status' = [status EXCEPT ![r] = value]
      /\ analysed' \in {analysed, [analysed EXCEPT ![r] = TRUE]}
      /\ rows' \in {rows, rows \cup FilesOf(r)}
      /\ moved' = [moved EXCEPT ![r] = TRUE] /\ overtaken' = overtaken \cup {r}
      /\ UNCHANGED <<runRow, raw, text, manifest, pc, cache, plan, at, drawn, worked, errors, excused,
                     orphaned, unnoted>>
  BY DEF Collector, CollectorStarts, CollectorExtracted, CollectorCommits, CollectorFails, CollectorWrites,
         Statuses, Pending, files, memory
<1>3. \A k \in Records : analysed[k] => analysed'[k]
  BY <1>1, <1>2 DEF Typed
<1>4. Typed'
  <2>1. status' \in [Records -> Statuses] /\ moved' \in [Records -> BOOLEAN]
    BY <1>1, <1>2 DEF Typed
  <2>2. analysed' \in [Records -> BOOLEAN]
    BY <1>1, <1>2 DEF Typed
  <2>3. rows' \subseteq Attachments
    BY <1>1, <1>2 DEF Typed, FilesOf
  <2> QED BY <1>1, <1>2, <2>1, <2>2, <2>3 DEF Typed
<1>5. CacheSound'
  BY <1>1, <1>2, <1>3 DEF CacheSound
<1>6. PlanSound'
  BY <1>1, <1>2, <1>3 DEF PlanSound
<1>7. Planned' /\ RowTracked'
  BY <1>1, <1>2 DEF Planned, RowTracked
<1>8. InHand' = InHand
  BY <1>2 DEF InHand
<1>9. Positioned'
  BY <1>1, <1>2, <1>8 DEF Positioned
<1>10. Owned'
  <2>1. pc \in Exec /\ InHand \notin overtaken' => InHand \notin overtaken /\ status'[InHand] = status[InHand]
    <3> SUFFICES ASSUME pc \in Exec, InHand \notin overtaken'
                 PROVE  InHand \notin overtaken /\ status'[InHand] = status[InHand]
      OBVIOUS
    <3>1. InHand \in Records
      BY HandTyped
    <3> QED BY <3>1, <1>1, <1>2 DEF Typed
  <2>2. pc = "reporting" => analysed'[InHand] /\ cache[InHand] # None /\ cache[InHand].status = "READY"
    BY <1>1, <1>3, HandTyped DEF Owned, Exec
  <2> QED BY <1>1, <1>2, <1>8, <2>1, <2>2 DEF Owned
<1>11. Released'
  <2> SUFFICES ASSUME NEW k \in Records \ (excused' \cup overtaken'), status'[k] \in InProgress
               PROVE  pc' \in Exec /\ k = InHand'
    BY DEF Released
  <2>1. k \in Records \ (excused \cup overtaken) /\ k # r
    BY <1>2
  <2>2. status'[k] = status[k]
    BY <1>1, <1>2, <2>1 DEF Typed
  <2> QED BY <1>1, <1>2, <1>8, <2>1, <2>2 DEF Released
<1>12. Accounted'
  <2>1. \A i \in 1..Len(manifest) : manifest[i].id \in Records
    BY <1>1, ManifestTyped
  <2>2. \A i \in 1..(at - 1) : i \in 1..Len(manifest)
    BY <1>1, ManifestTyped DEF Typed
  <2>3. CompleteMeansAnalysed'
    BY <1>1, <1>2, <1>3, <2>1, ManifestTyped DEF Accounted, CompleteMeansAnalysed
  <2>4. pc = "closing" /\ ~errors => at > Len(manifest) \/ (unnoted = at /\ analysed'[InHand])
    <3> SUFFICES ASSUME pc = "closing", ~errors, ~(at > Len(manifest))
                 PROVE  unnoted = at /\ analysed'[InHand]
      OBVIOUS
    <3>1. at \in 1..Len(manifest)
      BY <1>1, ManifestTyped
    <3> QED BY <3>1, <2>1, <1>1, <1>3 DEF Accounted, InHand
  <2>5. pc \in {"record", "closing"} \cup Exec /\ ~errors => \A i \in 1..(at - 1) : analysed'[manifest[i].id]
    BY <1>1, <1>3, <2>1, <2>2 DEF Accounted
  <2> QED BY <1>2, <1>8, <2>3, <2>4, <2>5 DEF Accounted
<1> QED BY <1>4, <1>5, <1>6, <1>7, <1>9, <1>10, <1>11, <1>12 DEF IInv

-----------------------------------------------------------------------------
(* Preflight, opening and closing of a run.                                *)

LEMMA PreflightHolds ==
  ASSUME IInv, Preflight
  PROVE  IInv'
<1>1. /\ pc = "preflight"
      /\ cache' = [cache EXCEPT ![InHand] = Fetched(InHand)]
      /\ plan' = [plan EXCEPT ![InHand] = PlanFor(InHand, Fetched(InHand))]
      /\ IF at = Len(manifest) THEN pc' = "opening" /\ at' = 1 ELSE pc' = pc /\ at' = at + 1
      /\ UNCHANGED <<status, analysed, moved, rows, runRow, raw, text, manifest, drawn, worked, errors, overtaken,
                     excused, orphaned, unnoted>>
  BY DEF Preflight, synapse, files, history
<1>2. Typed /\ CacheSound /\ PlanSound /\ Planned /\ Positioned /\ Released /\ Accounted /\ RowTracked
  BY DEF IInv
<1>3. at \in 1..Len(manifest) /\ InHand \in Records
  BY <1>1, HandTyped
<1>4. /\ Fetched(InHand).rows \subseteq FilesOf(InHand) /\ (Fetched(InHand).analysed => analysed[InHand])
      /\ Fetched(InHand) # None
  BY <1>2, <1>3, ResponseSound
<1>5. /\ PlanFor(InHand, Fetched(InHand)) # None /\ Plans(PlanFor(InHand, Fetched(InHand)), InHand)
      /\ PlanFor(InHand, Fetched(InHand)).noop => Fetched(InHand).analysed
  BY <1>4, PlanMade
<1>6. DOMAIN cache = Records /\ DOMAIN plan = Records
  BY <1>2 DEF Typed
<1>7. Typed'
  <2>1. at' \in 1..(Len(manifest') + 1)
    <3>1. manifest' = manifest /\ (at' = 1 \/ at' = at + 1)
      BY <1>1
    <3>2. Len(manifest) \in Nat
      BY <1>2, ManifestTyped
    <3> QED BY <1>3, <3>1, <3>2
  <2>2. DOMAIN cache' = Records /\ DOMAIN plan' = Records
    BY <1>1, <1>6
  <2> QED BY <1>1, <1>2, <2>1, <2>2 DEF Typed
<1>8. CacheSound'
  <2> SUFFICES ASSUME NEW r \in Records, cache'[r] # None
               PROVE  cache'[r].rows \subseteq FilesOf(r) /\ (cache'[r].analysed => analysed[r])
    BY <1>1 DEF CacheSound
  <2>1. CASE r = InHand
    BY <1>1, <1>3, <1>4, <1>6, <2>1
  <2>2. CASE r # InHand
    <3>1. cache'[r] = cache[r]
      BY <1>1, <1>6, <2>2
    <3> QED BY <1>2, <3>1 DEF CacheSound
  <2> QED BY <2>1, <2>2
<1>9. \A r \in Records : plan'[r] = IF r = InHand THEN PlanFor(InHand, Fetched(InHand)) ELSE plan[r]
  BY <1>1, <1>6
<1>10. PlanSound'
  <2> SUFFICES ASSUME NEW r \in Records, plan'[r] # None
               PROVE  Plans(plan'[r], r) /\ (plan'[r].noop => analysed[r])
    BY <1>1 DEF PlanSound, Plans
  <2>1. CASE r = InHand
    BY <1>4, <1>5, <1>9, <2>1
  <2>2. CASE r # InHand
    BY <1>2, <1>9, <2>2 DEF PlanSound
  <2> QED BY <2>1, <2>2
<1>11. Planned'
  <2>1. \A i \in 1..at : plan'[manifest[i].id] # None
    <3> SUFFICES ASSUME NEW i \in 1..at
                 PROVE  plan'[manifest[i].id] # None
      OBVIOUS
    <3>1. manifest[i].id \in Records
      BY <1>2, <1>3, ManifestTyped
    <3>2. CASE manifest[i].id = InHand
      BY <1>5, <1>9, <3>1, <3>2
    <3>3. CASE manifest[i].id # InHand
      <4>1. i \in 1..(at - 1)
        BY <1>3, <3>3 DEF InHand
      <4> QED BY <1>1, <1>2, <1>9, <3>1, <3>3, <4>1 DEF Planned
    <3> QED BY <3>2, <3>3
  <2>2. CASE at = Len(manifest)
    BY <1>1, <2>1, <2>2 DEF Planned, Exec
  <2>3. CASE at # Len(manifest)
    <3>1. pc' = "preflight" /\ at' - 1 = at
      BY <1>1, <1>3, <2>3
    <3> QED BY <1>1, <2>1, <3>1 DEF Planned, Exec
  <2> QED BY <2>2, <2>3
<1>12. Positioned' /\ Owned'
  <2>1. drawn' = 0 /\ ~errors' /\ pc' \in {"preflight", "opening"}
    BY <1>1, <1>2 DEF Positioned
  <2>2. pc' = "preflight" => at' <= Len(manifest')
    <3>1. manifest' = manifest /\ (pc' = "preflight" => at # Len(manifest) /\ at' = at + 1)
      BY <1>1
    <3>2. Len(manifest) \in Nat
      BY <1>2, ManifestTyped
    <3> QED BY <1>3, <3>1, <3>2
  <2>3. pc' = "opening" => at' = 1
    BY <1>1
  <2> QED BY <2>1, <2>2, <2>3 DEF Positioned, Owned, Exec, Uncached
<1>13. Released'
  BY <1>1, <1>2 DEF Released, Exec
<1>14. Accounted' /\ RowTracked'
  BY <1>1, <1>2 DEF Accounted, CompleteMeansAnalysed, RowTracked, Exec
<1> QED BY <1>7, <1>8, <1>10, <1>11, <1>12, <1>13, <1>14 DEF IInv

(* A run that ends before it is open.                                      *)
LEMMA NothingOpenedHolds ==
  ASSUME IInv, PreflightRefused \/ PreflightFails \/ NothingToOpen
  PROVE  IInv'
<1>1. /\ pc \in {"preflight", "opening"} /\ Leave
      /\ UNCHANGED <<status, analysed, moved, rows, runRow, files, manifest, overtaken, excused, orphaned, unnoted>>
  BY DEF PreflightRefused, PreflightFails, NothingToOpen, synapse, history
<1>2. runRow' = "none" /\ pc \notin Exec
  BY <1>1 DEF IInv, RowTracked, Exec
<1> QED BY <1>1, <1>2, LeaveStep

LEMMA CreateRunHolds ==
  ASSUME IInv, NEW reply \in Replies, CreateRun(reply)
  PROVE  IInv'
<1>1. /\ pc = "opening" /\ runRow' = IF Applied(reply) THEN "RUNNING" ELSE runRow
      /\ IF reply = "ok" THEN Go("record") /\ UNCHANGED <<cache, orphaned>>
                         ELSE Leave /\ orphaned' = Applied(reply)
      /\ UNCHANGED <<status, analysed, moved, rows, files, manifest, overtaken, excused, unnoted>>
  BY DEF CreateRun
<1>2. Typed /\ CacheSound /\ PlanSound /\ Planned /\ Positioned /\ Released /\ RowTracked /\ runRow = "none"
  BY <1>1 DEF IInv, RowTracked
<1>3. CASE reply = "ok"
  <2>1. /\ pc' = "record" /\ runRow' = "RUNNING"
        /\ UNCHANGED <<status, analysed, moved, rows, raw, text, manifest, cache, plan, at, drawn, worked, errors,
                       overtaken, excused, unnoted>>
    BY <1>1, <1>3 DEF Go, Applied, files
  <2>2. at = 1 /\ drawn = 0
    BY <1>1, <1>2 DEF Positioned
  <2>3. Typed'
    BY <1>2, <2>1 DEF Typed
  <2>4. CacheSound' /\ PlanSound'
    BY <1>2, <2>1 DEF CacheSound, PlanSound
  <2>5. Planned'
    BY <1>1, <1>2, <2>1 DEF Planned
  <2>6. Positioned' /\ Owned'
    BY <2>1, <2>2 DEF Positioned, Owned, Exec, Uncached
  <2>7. Released'
    BY <1>1, <1>2, <2>1 DEF Released, Exec
  <2>8. Accounted' /\ RowTracked'
    BY <2>1, <2>2 DEF Accounted, CompleteMeansAnalysed, RowTracked
  <2> QED BY <2>3, <2>4, <2>5, <2>6, <2>7, <2>8 DEF IInv
<1>4. CASE reply # "ok"
  <2>1. Leave /\ pc \notin Exec
    BY <1>1, <1>4 DEF Exec
  <2>2. runRow' \in {"none", "RUNNING"} /\ (runRow' = "RUNNING" => orphaned')
    BY <1>1, <1>2, <1>4
  <2> QED BY <1>1, <2>1, <2>2, LeaveStep
<1> QED BY <1>3, <1>4

LEMMA CloseRunHolds ==
  ASSUME IInv, NEW reply \in Replies, CloseRun(reply)
  PROVE  IInv'
<1>1. /\ pc = "closing" /\ runRow' = IF Applied(reply) THEN Terminal ELSE runRow
      /\ orphaned' = ~Applied(reply) /\ Leave
      /\ UNCHANGED <<status, analysed, moved, rows, files, manifest, overtaken, excused, unnoted>>
  BY DEF CloseRun
<1>2. Typed /\ Accounted
  BY DEF IInv
<1>3. runRow' \in {"none", "RUNNING", "COMPLETE", "PARTIAL", "FAILED"} /\ (runRow' = "RUNNING" => orphaned')
  BY <1>1, <1>2 DEF Typed, Terminal
<1>4. runRow' = "COMPLETE" =>
        \/ runRow = "COMPLETE"
        \/ \A i \in 1..Len(manifest) : analysed[manifest[i].id] \/ (unnoted # 0 /\ i > unnoted)
  <2> SUFFICES ASSUME Terminal = "COMPLETE", NEW i \in 1..Len(manifest)
               PROVE  analysed[manifest[i].id] \/ (unnoted # 0 /\ i > unnoted)
    BY <1>1
  <2>1. ~errors
    BY DEF Terminal
  <2>2. \A j \in 1..(at - 1) : analysed[manifest[j].id]
    BY <1>1, <1>2, <2>1 DEF Accounted
  <2>3. at > Len(manifest) \/ (unnoted = at /\ analysed[manifest[at].id])
    BY <1>1, <1>2, <2>1 DEF Accounted, InHand
  <2>4. at \in Nat \ {0} /\ Len(manifest) \in Nat
    BY <1>2, ManifestTyped
  <2>5. CASE i < at
    BY <2>2, <2>4, <2>5
  <2>6. CASE i = at
    BY <2>3, <2>4, <2>6
  <2>7. CASE i > at
    BY <2>3, <2>4, <2>7
  <2> QED BY <2>4, <2>5, <2>6, <2>7
<1>5. pc \notin Exec
  BY <1>1 DEF Exec
<1> QED BY <1>1, <1>3, <1>4, <1>5, LeaveStep

(* What is cut short is excused; what is only reported is READY.           *)
LEMMA CutShortHolds ==
  ASSUME IInv, excused' = excused \cup CutShort, pc \in Exec
  PROVE  InHand \in excused' \cup overtaken \/ status[InHand] \notin InProgress
<1>1. CASE pc = "reporting"
  BY <1>1 DEF IInv, Owned, InProgress, Exec
<1>2. CASE pc # "reporting"
  BY <1>2 DEF CutShort, Executing, Exec
<1> QED BY <1>1, <1>2

LEMMA KillHolds ==
  ASSUME IInv, Kill
  PROVE  IInv'
<1>1. /\ Leave /\ excused' = excused \cup CutShort /\ orphaned' = (runRow = "RUNNING")
      /\ UNCHANGED <<status, analysed, moved, rows, runRow, files, manifest, overtaken, unnoted>>
  BY DEF Kill, synapse
<1>2. pc \in Exec => InHand \in excused' \cup overtaken \/ status[InHand] \notin InProgress
  BY <1>1, CutShortHolds
<1>3. runRow' \in {"none", "RUNNING", "COMPLETE", "PARTIAL", "FAILED"}
  BY <1>1 DEF IInv, Typed
<1> QED BY <1>1, <1>2, <1>3, LeaveStep

-----------------------------------------------------------------------------
(* From one record to the next.                                            *)

LEMMA NextRecordStep ==
  ASSUME IInv, pc \in {"record"} \cup Exec, at <= Len(manifest), NextRecord,
         UNCHANGED <<synapse, files, manifest, overtaken, excused, orphaned, unnoted>>,
         CacheSound', DOMAIN cache' = Records, analysed[InHand],
         pc = "record" \/ InHand \in overtaken \/ status[InHand] \notin InProgress
  PROVE  IInv'
<1>1. /\ pc' = "record" /\ at' = at + 1 /\ drawn' = 0
      /\ UNCHANGED <<status, analysed, moved, rows, runRow, raw, text, manifest, plan, worked, errors, overtaken,
                     excused, orphaned, unnoted>>
  BY DEF NextRecord, synapse, files
<1>2. Typed /\ PlanSound /\ Planned /\ Released /\ Accounted /\ RowTracked
  BY DEF IInv
<1>3. at \in 1..Len(manifest) /\ Len(manifest) \in Nat
  BY <1>2, HandTyped, ManifestTyped
<1>4. Typed'
  <2>1. at' \in 1..(Len(manifest') + 1)
    <3>1. manifest' = manifest /\ at' = at + 1
      BY <1>1
    <3> QED BY <1>3, <3>1
  <2> QED BY <1>1, <1>2, <2>1, AttachmentsCounted DEF Typed
<1>5. PlanSound' /\ Planned'
  BY <1>1, <1>2 DEF PlanSound, Planned
<1>6. Positioned' /\ Owned'
  BY <1>1 DEF Positioned, Owned, Exec, Uncached
<1>7. Released'
  BY <1>1, <1>2 DEF Released, Exec
<1>8. Accounted'
  <2>1. ~errors => \A i \in 1..(at' - 1) : analysed[manifest[i].id]
    <3> SUFFICES ASSUME ~errors, NEW i \in 1..(at' - 1)
                 PROVE  analysed[manifest[i].id]
      OBVIOUS
    <3>1. i \in 1..(at - 1) \/ i = at
      BY <1>1, <1>3
    <3> QED BY <1>2, <3>1 DEF Accounted, InHand
  <2>2. CompleteMeansAnalysed'
    BY <1>1, <1>2 DEF Accounted, CompleteMeansAnalysed
  <2> QED BY <1>1, <2>1, <2>2 DEF Accounted
<1>9. RowTracked'
  BY <1>1, <1>2 DEF RowTracked
<1> QED BY <1>4, <1>5, <1>6, <1>7, <1>8, <1>9 DEF IInv

LEMMA SkipAnalysedHolds ==
  ASSUME IInv, SkipAnalysed
  PROVE  IInv'
<1>1. /\ pc = "record" /\ at <= Len(manifest) /\ plan[InHand].noop /\ NextRecord
      /\ UNCHANGED <<synapse, files, manifest, overtaken, excused, orphaned, unnoted, cache>>
  BY DEF SkipAnalysed, history
<1>2. analysed[InHand]
  BY <1>1, HandPlanned
<1>3. CacheSound' /\ DOMAIN cache' = Records
  BY <1>1 DEF IInv, Typed, CacheSound, synapse
<1> QED BY <1>1, <1>2, <1>3, NextRecordStep

LEMMA AllRecordsHolds ==
  ASSUME IInv, AllRecords
  PROVE  IInv'
<1>1. /\ pc = "record" /\ at > Len(manifest) /\ pc' = "closing"
      /\ UNCHANGED <<status, analysed, moved, rows, runRow, raw, text, manifest, cache, plan, at, drawn, worked,
                     errors, overtaken, excused, orphaned, unnoted>>
  BY DEF AllRecords, Go, synapse, files, history
<1>2. Typed /\ CacheSound /\ PlanSound /\ Released /\ Accounted /\ RowTracked
  BY DEF IInv
<1>3. Typed'
  BY <1>1, <1>2 DEF Typed
<1>4. CacheSound' /\ PlanSound'
  BY <1>1, <1>2 DEF CacheSound, PlanSound
<1>5. Planned' /\ Positioned' /\ Owned'
  BY <1>1 DEF Planned, Positioned, Owned, Exec, Uncached
<1>6. Released'
  BY <1>1, <1>2 DEF Released, Exec
<1>7. Accounted' /\ RowTracked'
  BY <1>1, <1>2 DEF Accounted, CompleteMeansAnalysed, RowTracked, Exec
<1> QED BY <1>3, <1>4, <1>5, <1>6, <1>7 DEF IInv

(* An interruption, between records or in the middle of one.               *)
LEMMA InterruptHolds ==
  ASSUME IInv, Interrupt
  PROVE  IInv'
<1>1. /\ pc \in {"record"} \cup Exec /\ pc' = "closing" /\ errors' \in Noted /\ excused' = excused \cup CutShort
      /\ unnoted' = IF pc = "reporting" /\ ~errors' THEN at ELSE unnoted
      /\ UNCHANGED <<status, analysed, moved, rows, runRow, raw, text, manifest, cache, plan, at, drawn, overtaken,
                     orphaned>>
  BY DEF Interrupt, Interrupted, Executing, Exec, synapse, files
<1>2. Typed /\ CacheSound /\ PlanSound /\ Released /\ Accounted /\ RowTracked /\ Owned
  BY DEF IInv
<1>3. ~errors' => /\ pc = "reporting" /\ ~errors /\ unnoted' = at /\ InHand' = InHand /\ analysed[InHand]
                  /\ at \in 1..Len(manifest)
  <2> SUFFICES ASSUME ~errors'
               PROVE  /\ pc = "reporting" /\ ~errors /\ unnoted' = at /\ InHand' = InHand /\ analysed[InHand]
                      /\ at \in 1..Len(manifest)
    OBVIOUS
  <2>1. pc = "reporting" /\ ~errors
    BY <1>1 DEF Noted
  <2>2. at \in 1..Len(manifest)
    BY <2>1, HandTyped DEF Exec
  <2> QED BY <1>1, <1>2, <2>1, <2>2 DEF Owned, InHand
<1>4. Typed'
  <2>1. unnoted' \in 0..Len(manifest)
    BY <1>1, <1>2, <1>3, ManifestTyped DEF Typed
  <2> QED BY <1>1, <1>2, <2>1 DEF Typed
<1>5. CacheSound' /\ PlanSound'
  BY <1>1, <1>2 DEF CacheSound, PlanSound
<1>6. Planned' /\ Positioned' /\ Owned'
  BY <1>1 DEF Planned, Positioned, Owned, Exec, Uncached
<1>7. Released'
  <2>1. pc \in Exec => InHand \in excused' \cup overtaken \/ status[InHand] \notin InProgress
    BY <1>1, CutShortHolds
  <2> QED BY <1>1, <1>2, <2>1 DEF Released
<1>8. runRow' = "RUNNING"
  BY <1>1, <1>2 DEF RowTracked
<1>9. Accounted'
  <2>1. ~errors' => \A i \in 1..(at' - 1) : analysed'[manifest'[i].id]
    BY <1>1, <1>2, <1>3 DEF Accounted, Exec
  <2>2. ~errors' => unnoted' = at' /\ analysed'[InHand']
    BY <1>1, <1>3
  <2> QED BY <1>8, <2>1, <2>2 DEF Accounted, CompleteMeansAnalysed
<1>10. RowTracked'
  BY <1>1, <1>8 DEF RowTracked
<1> QED BY <1>4, <1>5, <1>6, <1>7, <1>9, <1>10 DEF IInv

-----------------------------------------------------------------------------
(* The steps on a record.                                                  *)

LEMMA RefreshHolds ==
  ASSUME IInv, Refresh
  PROVE  IInv'
<1>1. /\ pc = "record" /\ at <= Len(manifest)
      /\ cache' = [cache EXCEPT ![InHand] = Response(InHand)]
      /\ pc' = IF Matches(manifest[at], Response(InHand)) THEN "claiming" ELSE "failing"
      /\ overtaken' = overtaken \ {InHand} /\ excused' = excused \ {InHand}
      /\ UNCHANGED <<status, analysed, moved, rows, runRow, raw, text, manifest, plan, at, drawn, errors,
                     orphaned, unnoted>>
  BY DEF Refresh, Refreshed, synapse, files
<1>2. Typed /\ CacheSound /\ Positioned
  BY DEF IInv
<1>3. at \in 1..Len(manifest) /\ InHand \in Records /\ manifest[at].status \in Pending
  BY <1>1, <1>2, HandTyped, ManifestTyped
<1>4. plan[InHand].needed \in Nat /\ Len(plan[InHand].queue) \in Nat
  BY <1>1, HandPlanned
<1>5. drawn = 0
  BY <1>1, <1>2 DEF Positioned
<1>6. cache'[InHand] = Response(InHand) /\ Response(InHand).status = status[InHand]
  BY <1>1, <1>2, <1>3, ResponseSound DEF Typed
<1>7. HandOnly
  BY <1>1, <1>2, <1>6 DEF HandOnly, Typed
<1>8. InHand' = InHand
  BY <1>1 DEF InHand
<1>9. Positioned'
  BY <1>1, <1>4, <1>5, <1>8 DEF Positioned, Exec
<1>10. Owned'
  <2>1. pc' = "claiming" => status[InHand] # "READY"
    BY <1>1, <1>3, <1>6 DEF Matches, Pending
  <2> QED BY <1>1, <1>6, <1>8, <2>1 DEF Owned, Exec, Uncached, Unfinished, InProgress
<1>11. drawn' \in Nat /\ drawn' <= Cardinality(Attachments) /\ pc' \in Exec
  BY <1>1, <1>2 DEF Typed, Exec
<1> QED BY <1>1, <1>7, <1>9, <1>10, <1>11, HandledStep

LEMMA RefreshFailsHolds ==
  ASSUME IInv, RefreshFails
  PROVE  IInv'
<1>1. /\ pc = "record" /\ at <= Len(manifest)
      /\ cache' = [cache EXCEPT ![InHand] = None] /\ pc' = "failing"
      /\ UNCHANGED <<status, analysed, moved, rows, runRow, raw, text, manifest, plan, at, drawn, errors, overtaken,
                     excused, orphaned, unnoted>>
  BY DEF RefreshFails, synapse, files, history
<1>2. Typed /\ Positioned
  BY DEF IInv
<1>3. InHand \in Records
  BY <1>1, HandTyped
<1>4. plan[InHand].needed \in Nat /\ Len(plan[InHand].queue) \in Nat
  BY <1>1, HandPlanned
<1>5. drawn = 0
  BY <1>1, <1>2 DEF Positioned
<1>6. cache'[InHand] = None
  BY <1>1, <1>2, <1>3 DEF Typed
<1>7. HandOnly
  BY <1>1, <1>2, <1>6 DEF HandOnly, Typed
<1>8. InHand' = InHand
  BY <1>1 DEF InHand
<1>9. Positioned'
  BY <1>1, <1>4, <1>5, <1>8 DEF Positioned, Exec
<1>10. Owned'
  BY <1>1, <1>6, <1>8 DEF Owned, Exec, Uncached, Unfinished
<1> QED BY <1>1, <1>2, <1>7, <1>9, <1>10, HandledStep DEF Typed, Exec

(* A write to the record in hand, confirmed or not.                        *)
LEMMA WriteStatusHolds ==
  ASSUME IInv, NEW reply \in Replies, NEW value \in Statuses, NEW step, WriteStatus(reply, value, step),
         \/ pc = "claiming" /\ value = "EXTRACTING" /\ step = "downloading"
         \/ pc = "downloading" /\ value = "ANALYZING" /\ step = "analysing" /\ drawn >= plan[InHand].needed
         \/ pc = "finishing" /\ value = "READY" /\ step = "verifying"
  PROVE  IInv'
<1>1. /\ status' = IF Applied(reply) THEN [status EXCEPT ![InHand] = value] ELSE status
      /\ moved' = IF Applied(reply) THEN [moved EXCEPT ![InHand] = TRUE] ELSE moved
      /\ cache' = IF reply = "ok" THEN [cache EXCEPT ![InHand] = None] ELSE cache
      /\ excused' = IF reply = "ok" THEN excused ELSE excused \cup {InHand}
      /\ pc' = IF reply = "ok" THEN step ELSE "failing"
      /\ UNCHANGED <<analysed, rows, runRow, raw, text, manifest, plan, at, drawn, errors, overtaken, orphaned,
                     unnoted>>
  BY DEF WriteStatus, Invalidated, files
<1>2. Typed /\ Positioned /\ Owned /\ pc \in Exec /\ at <= Len(manifest)
  BY DEF IInv, Positioned, Exec
<1>3. InHand \in Records
  BY <1>2, HandTyped
<1>4. /\ status'[InHand] = IF Applied(reply) THEN value ELSE status[InHand]
      /\ cache'[InHand] = IF reply = "ok" THEN None ELSE cache[InHand]
      /\ reply = "ok" => Applied(reply)
  BY <1>1, <1>2, <1>3 DEF Typed, Applied
<1>5. HandOnly
  BY <1>1, <1>2, <1>3, <1>4 DEF HandOnly, Typed
<1>6. InHand' = InHand
  BY <1>1 DEF InHand
<1>7. Positioned'
  BY <1>1, <1>2, <1>6 DEF Positioned, Exec
<1>8. Owned'
  <2>1. CASE reply = "ok"
    BY <1>1, <1>4, <1>6, <2>1 DEF Owned, Exec, Uncached, Unfinished
  <2>2. CASE reply # "ok"
    <3>1. pc' = "failing" /\ InHand' \in excused' /\ cache'[InHand'] = cache[InHand]
      BY <1>1, <1>4, <1>6, <2>2
    <3>2. CASE pc = "claiming"
      BY <1>1, <1>2, <1>4, <1>6, <3>1, <3>2 DEF Owned, Uncached, Unfinished
    <3>3. CASE pc # "claiming"
      <4>1. cache[InHand] = None
        BY <1>2, <3>3 DEF Owned, Uncached
      <4> QED BY <3>1, <4>1 DEF Owned, Uncached, Unfinished
    <3> QED BY <3>2, <3>3
  <2> QED BY <2>1, <2>2
<1>9. drawn' \in Nat /\ drawn' <= Cardinality(Attachments) /\ pc' \in Exec
  BY <1>1, <1>2 DEF Typed, Exec
<1> QED BY <1>1, <1>2, <1>5, <1>7, <1>8, <1>9, HandledStep

LEMMA WritesHold ==
  ASSUME IInv, NEW reply \in Replies, Claim(reply) \/ StartAnalysis(reply) \/ Finish(reply)
  PROVE  IInv'
<1>1. CASE Claim(reply)
  BY <1>1, WriteStatusHolds DEF Claim, Statuses, Pending
<1>2. CASE StartAnalysis(reply)
  <2>1. pc = "downloading" /\ at <= Len(manifest)
    BY <1>2 DEF StartAnalysis, IInv, Positioned, Exec
  <2>2. drawn \in Nat /\ plan[InHand].needed \in Nat /\ Len(plan[InHand].queue) \in Nat
    BY <2>1, HandPlanned DEF IInv, Typed, Exec
  <2>3. drawn >= plan[InHand].needed /\ WriteStatus(reply, "ANALYZING", "analysing")
    BY <1>2, <2>2 DEF StartAnalysis, Exhausted
  <2> QED BY <2>1, <2>3, WriteStatusHolds DEF Statuses
<1>3. CASE Finish(reply)
  BY <1>3, WriteStatusHolds DEF Finish, Statuses
<1> QED BY <1>1, <1>2, <1>3

(* Steps that only decide how to go on.                                    *)
LEMMA GoStep ==
  ASSUME IInv, pc \in Uncached, NEW step, Go(step),
         step = "failing" \/ (pc = "analysing" /\ step = "committing"),
         UNCHANGED <<synapse, files, manifest, cache, daily, history>>
  PROVE  IInv'
<1>1. /\ pc' = step
      /\ UNCHANGED <<status, analysed, moved, rows, runRow, raw, text, manifest, cache, plan, at, drawn, errors,
                     overtaken, excused, orphaned, unnoted>>
  BY DEF Go, synapse, files, history
<1>2. Typed /\ Positioned /\ Owned /\ pc \in Exec /\ at <= Len(manifest)
  BY DEF IInv, Positioned, Exec, Uncached
<1>3. HandOnly
  BY <1>1, <1>2 DEF HandOnly, Typed
<1>4. InHand' = InHand
  BY <1>1 DEF InHand
<1>5. Positioned'
  BY <1>1, <1>2, <1>4 DEF Positioned, Exec
<1>6. Owned'
  <2>1. cache[InHand] = None
    BY <1>2 DEF Owned
  <2>2. CASE step = "failing"
    BY <1>1, <1>4, <2>1, <2>2 DEF Owned, Uncached, Unfinished
  <2>3. CASE pc = "analysing" /\ step = "committing"
    BY <1>1, <1>2, <1>4, <2>1, <2>3 DEF Owned, Uncached, Unfinished, Exec
  <2> QED BY <2>2, <2>3
<1>7. drawn' \in Nat /\ drawn' <= Cardinality(Attachments) /\ pc' \in Exec
  BY <1>1, <1>2 DEF Typed, Exec
<1> QED BY <1>1, <1>2, <1>3, <1>5, <1>6, <1>7, HandledStep

LEMMA TurnsHold ==
  ASSUME IInv, QueueExhausted \/ Analyse \/ TextUnavailable \/ StepFails \/ VerifyFails
  PROVE  IInv'
<1>1. /\ pc \in Uncached /\ UNCHANGED <<synapse, files, manifest, cache, daily, history>>
      /\ Go("failing") \/ (pc = "analysing" /\ Go("committing"))
  BY DEF QueueExhausted, Analyse, TextUnavailable, StepFails, VerifyFails, Uncached
<1> QED BY <1>1, GoStep

LEMMA DownloadHolds ==
  ASSUME IInv, Download
  PROVE  IInv'
<1>1. /\ pc = "downloading" /\ drawn < plan[InHand].needed /\ drawn < Len(plan[InHand].queue)
      /\ raw' = raw \cup {plan[InHand].queue[drawn + 1]} /\ pc' = "extracting"
      /\ UNCHANGED <<status, analysed, moved, rows, runRow, text, manifest, cache, plan, at, drawn, errors,
                     overtaken, excused, orphaned, unnoted>>
  BY DEF Download, synapse, history
<1>2. Typed /\ Positioned /\ Owned /\ pc \in Exec /\ at <= Len(manifest)
  BY <1>1 DEF IInv, Positioned, Exec
<1>3. plan[InHand].queue[drawn + 1] \in Attachments
  <2>1. /\ Len(plan[InHand].queue) \in Nat /\ drawn \in Nat
        /\ \A i \in 1..Len(plan[InHand].queue) : plan[InHand].queue[i] \in FilesOf(InHand)
    BY <1>2, HandPlanned DEF Typed
  <2>2. drawn + 1 \in 1..Len(plan[InHand].queue)
    BY <1>1, <2>1
  <2> QED BY <2>1, <2>2 DEF FilesOf
<1>4. HandOnly
  BY <1>1, <1>2, <1>3 DEF HandOnly, Typed
<1>5. InHand' = InHand
  BY <1>1 DEF InHand
<1>6. Positioned'
  BY <1>1, <1>2, <1>5 DEF Positioned, Exec
<1>7. Owned'
  BY <1>1, <1>2, <1>5 DEF Owned, Uncached, Unfinished
<1> QED BY <1>1, <1>2, <1>4, <1>6, <1>7, HandledStep DEF Typed, Exec

LEMMA PublishFileHolds ==
  ASSUME IInv, NEW reply \in Replies, PublishFile(reply)
  PROVE  IInv'
<1> DEFINE a == plan[InHand].queue[drawn + 1]
<1>1. /\ pc = "extracting" /\ text' = text \cup {a}
      /\ rows' \in {rows, rows \cup {a}}
      /\ cache' = IF reply = "ok" THEN [cache EXCEPT ![InHand] = None] ELSE cache
      /\ \/ pc' = "downloading" /\ drawn' = drawn + 1
         \/ pc' = "failing" /\ drawn' = drawn
      /\ UNCHANGED <<status, analysed, moved, runRow, raw, manifest, plan, at, errors, overtaken, excused,
                     orphaned, unnoted>>
  BY DEF PublishFile, Invalidated, history
<1>2. Typed /\ Positioned /\ Owned /\ pc \in Exec /\ at <= Len(manifest)
  BY <1>1 DEF IInv, Positioned, Exec
<1>3. drawn < plan[InHand].needed /\ drawn < Len(plan[InHand].queue) /\ a \in raw
  BY <1>1, <1>2 DEF Positioned
<1>4. /\ drawn \in Nat /\ Len(plan[InHand].queue) \in Nat /\ InHand \in Records
      /\ plan[InHand].needed \in Nat /\ plan[InHand].needed <= Cardinality(Attachments)
  BY <1>2, HandPlanned, HandTyped DEF Typed
<1>5. cache[InHand] = None /\ cache'[InHand] = None
  BY <1>1, <1>2, <1>4 DEF Owned, Uncached, Typed
<1>6. HandOnly
  <2> HIDE DEF a
  <2> QED BY <1>1, <1>2, <1>3, <1>5 DEF HandOnly, Typed
<1>7. InHand' = InHand
  BY <1>1 DEF InHand
<1>8. /\ drawn' \in Nat /\ drawn' <= Cardinality(Attachments)
      /\ drawn' <= plan[InHand].needed /\ drawn' <= Len(plan[InHand].queue)
  BY <1>1, <1>3, <1>4, AttachmentsCounted
<1>9. Positioned'
  BY <1>1, <1>2, <1>7, <1>8 DEF Positioned, Exec
<1>10. Owned'
  BY <1>1, <1>2, <1>5, <1>7 DEF Owned, Uncached, Unfinished
<1> QED BY <1>1, <1>2, <1>6, <1>8, <1>9, <1>10, HandledStep DEF Exec

LEMMA CommitHolds ==
  ASSUME IInv, NEW reply, Commit(reply)
  PROVE  IInv'
<1>1. /\ pc = "committing"
      /\ \/ /\ analysed' = [analysed EXCEPT ![InHand] = TRUE] /\ status' = [status EXCEPT ![InHand] = "READY"]
            /\ moved' = [moved EXCEPT ![InHand] = TRUE]
         \/ UNCHANGED <<analysed, status, moved>>
      /\ cache' = IF reply = "ok" THEN [cache EXCEPT ![InHand] = None] ELSE cache
      /\ pc' \in {"finishing", "failing"}
      /\ UNCHANGED <<rows, runRow, raw, text, manifest, plan, at, drawn, errors, overtaken, excused, orphaned,
                     unnoted>>
  BY DEF Commit, Invalidated, Go, files, history
<1>2. Typed /\ Positioned /\ Owned /\ pc \in Exec /\ at <= Len(manifest)
  BY <1>1 DEF IInv, Positioned, Exec
<1>3. InHand \in Records
  BY <1>2, HandTyped
<1>4. cache'[InHand] = None
  BY <1>1, <1>2, <1>3 DEF Owned, Uncached, Typed
<1>5. HandOnly
  <2>1. status' \in [Records -> Statuses] /\ moved' \in [Records -> BOOLEAN] /\ analysed' \in [Records -> BOOLEAN]
    BY <1>1, <1>2 DEF Typed, Statuses
  <2>2. \A r \in Records \ {InHand} : status'[r] = status[r]
    BY <1>1, <1>2 DEF Typed
  <2>3. \A r \in Records : analysed[r] => analysed'[r]
    BY <1>1, <1>2 DEF Typed
  <2> QED BY <1>1, <1>2, <1>4, <2>1, <2>2, <2>3 DEF HandOnly, Typed
<1>6. InHand' = InHand
  BY <1>1 DEF InHand
<1>7. Positioned'
  BY <1>1, <1>2, <1>6 DEF Positioned, Exec
<1>8. Owned'
  BY <1>1, <1>4, <1>6 DEF Owned, Uncached, Unfinished
<1> QED BY <1>1, <1>2, <1>5, <1>7, <1>8, HandledStep DEF Exec, Typed

LEMMA VerifyHolds ==
  ASSUME IInv, Verify
  PROVE  IInv'
<1>1. /\ pc = "verifying" /\ cache' = [cache EXCEPT ![InHand] = Fetched(InHand)]
      /\ IF Fetched(InHand).status = "READY" /\ Fetched(InHand).analysed THEN Go("reporting") ELSE Go("failing")
      /\ UNCHANGED <<synapse, files, manifest, overtaken, excused, orphaned, unnoted>>
  BY DEF Verify, history
<1>2. Typed /\ CacheSound /\ Positioned /\ Owned /\ pc \in Exec /\ at <= Len(manifest)
  BY <1>1 DEF IInv, Positioned, Exec
<1>3. InHand \in Records
  BY <1>2, HandTyped
<1>4. Fetched(InHand) = Response(InHand)
  BY <1>1, <1>2 DEF Owned, Uncached, Fetched
<1>5. /\ Response(InHand).status = status[InHand] /\ Response(InHand).analysed = analysed[InHand]
      /\ Response(InHand).rows \subseteq FilesOf(InHand)
  BY <1>2, <1>3, ResponseSound
<1>6. /\ DOMAIN cache' = Records /\ cache'[InHand] = Response(InHand)
      /\ \A r \in Records \ {InHand} : cache'[r] = cache[r]
  BY <1>1, <1>2, <1>3, <1>4 DEF Typed
<1>7. /\ pc' = IF status[InHand] = "READY" /\ analysed[InHand] THEN "reporting" ELSE "failing"
      /\ UNCHANGED <<status, analysed, moved, rows, runRow, raw, text, plan, at, drawn, errors>>
  BY <1>1, <1>4, <1>5 DEF Go, synapse, files
<1>8. HandOnly
  BY <1>1, <1>2, <1>6, <1>7 DEF HandOnly, Typed
<1>9. InHand' = InHand
  BY <1>1, <1>7 DEF InHand
<1>10. Positioned'
  BY <1>1, <1>2, <1>7, <1>9 DEF Positioned, Exec
<1>11. Owned'
  <2>1. cache'[InHand].status = status[InHand] /\ cache'[InHand] # None
    BY <1>2, <1>3, <1>5, <1>6, ResponseSound
  <2> QED BY <1>1, <1>7, <1>9, <2>1 DEF Owned, Uncached, Unfinished, InProgress
<1> QED BY <1>2, <1>7, <1>8, <1>10, <1>11, HandledStep DEF Exec, Typed

LEMMA ReportHolds ==
  ASSUME IInv, Report
  PROVE  IInv'
<1>1. /\ pc = "reporting" /\ NextRecord
      /\ UNCHANGED <<synapse, files, manifest, overtaken, excused, orphaned, unnoted, cache>>
  BY DEF Report, history
<1>2. pc \in Exec /\ at <= Len(manifest)
  BY <1>1 DEF IInv, Positioned, Exec
<1>3. analysed[InHand] /\ (InHand \in overtaken \/ status[InHand] \notin InProgress)
  BY <1>1, <1>2 DEF IInv, Owned, InProgress
<1>4. CacheSound' /\ DOMAIN cache' = Records
  BY <1>1 DEF IInv, Typed, CacheSound, synapse
<1> QED BY <1>1, <1>2, <1>3, <1>4, NextRecordStep

(* The response read last is still cached, and says READY.                 *)
LEMMA ReportFailsHolds ==
  ASSUME IInv, ReportFails
  PROVE  IInv'
<1>1. /\ pc = "reporting" /\ pc' = "failing"
      /\ UNCHANGED <<status, analysed, moved, rows, runRow, raw, text, manifest, cache, plan, at, drawn, errors,
                     overtaken, excused, orphaned, unnoted>>
  BY DEF ReportFails, Go, synapse, files, history
<1>2. Typed /\ Positioned /\ Owned /\ pc \in Exec /\ at <= Len(manifest)
  BY <1>1 DEF IInv, Positioned, Exec
<1>3. HandOnly
  BY <1>1, <1>2 DEF HandOnly, Typed
<1>4. InHand' = InHand
  BY <1>1 DEF InHand
<1>5. Positioned'
  BY <1>1, <1>2, <1>4 DEF Positioned, Exec
<1>6. Owned'
  BY <1>1, <1>2, <1>4 DEF Owned, Uncached, Unfinished, InProgress
<1> QED BY <1>1, <1>2, <1>3, <1>5, <1>6, HandledStep DEF Exec, Typed

-----------------------------------------------------------------------------
(* The failure of a record.                                                *)

LEMMA InspectHolds ==
  ASSUME IInv, Inspect
  PROVE  IInv'
<1>1. /\ pc = "failing" /\ cache' = [cache EXCEPT ![InHand] = Fetched(InHand)] /\ errors' = TRUE
      /\ pc' = IF Fetched(InHand).status \in InProgress THEN "resetting" ELSE "closing"
      /\ UNCHANGED <<status, analysed, moved, rows, runRow, raw, text, manifest, plan, at, drawn, overtaken,
                     excused, orphaned, unnoted>>
  BY DEF Inspect, InProgress, synapse, files, history
<1>2. Typed /\ CacheSound /\ Positioned /\ Owned /\ pc \in Exec /\ at <= Len(manifest)
  BY <1>1 DEF IInv, Positioned, Exec
<1>3. InHand \in Records
  BY <1>2, HandTyped
<1>4. /\ cache'[InHand] = Fetched(InHand) /\ Fetched(InHand) \in {cache[InHand], Response(InHand)}
      /\ cache[InHand] = None => Fetched(InHand).status = status[InHand]
      /\ cache[InHand] # None => Fetched(InHand) = cache[InHand]
  BY <1>1, <1>2, <1>3, ResponseSound DEF Typed, Fetched
<1>5. HandOnly
  BY <1>1, <1>2, <1>4 DEF HandOnly, Typed
<1>6. InHand' = InHand
  BY <1>1 DEF InHand
<1>7. CASE Fetched(InHand).status \in InProgress
  <2>1. pc' = "resetting"
    BY <1>1, <1>7
  <2>2. InHand \notin overtaken => status[InHand] # "READY"
    BY <1>1, <1>2, <1>4, <1>7 DEF Owned, InProgress
  <2>3. Positioned'
    BY <1>1, <1>2, <1>6, <2>1 DEF Positioned, Exec
  <2>4. Owned'
    BY <1>1, <1>6, <2>1, <2>2 DEF Owned, Uncached
  <2> QED BY <1>1, <1>2, <1>5, <2>1, <2>3, <2>4, HandledStep DEF Exec, Typed
<1>8. CASE Fetched(InHand).status \notin InProgress
  <2>1. pc' = "closing"
    BY <1>1, <1>8
  <2>2. InHand \in excused \cup overtaken \/ status[InHand] \notin InProgress
    BY <1>1, <1>2, <1>4, <1>8 DEF Owned
  <2> QED BY <1>1, <1>2, <1>5, <2>1, <2>2, GivenUpStep DEF Typed
<1> QED BY <1>7, <1>8

LEMMA InspectFailsHolds ==
  ASSUME IInv, InspectFails
  PROVE  IInv'
<1>1. /\ pc = "failing" /\ pc' = "closing" /\ errors' = TRUE /\ excused' = excused \cup {InHand}
      /\ UNCHANGED <<status, analysed, moved, rows, runRow, raw, text, manifest, cache, plan, at, drawn, overtaken,
                     orphaned, unnoted>>
  BY DEF InspectFails, synapse, files
<1>2. Typed
  BY DEF IInv
<1>3. HandOnly
  BY <1>1, <1>2 DEF HandOnly, Typed
<1> QED BY <1>1, <1>2, <1>3, GivenUpStep DEF Exec, Typed

LEMMA ResetHolds ==
  ASSUME IInv, NEW reply \in Replies, Reset(reply)
  PROVE  IInv'
<1>1. /\ pc = "resetting" /\ pc' = "closing"
      /\ status' = IF Applied(reply) THEN [status EXCEPT ![InHand] = "PARTIAL"] ELSE status
      /\ moved' = IF Applied(reply) THEN [moved EXCEPT ![InHand] = TRUE] ELSE moved
      /\ cache' = IF reply = "ok" THEN [cache EXCEPT ![InHand] = None] ELSE cache
      /\ excused' = IF reply = "ok" THEN excused ELSE excused \cup {InHand}
      /\ UNCHANGED <<analysed, rows, runRow, raw, text, manifest, plan, at, drawn, errors, overtaken, orphaned,
                     unnoted>>
  BY DEF Reset, Invalidated, files
<1>2. Typed /\ Positioned /\ pc \in Exec
  BY <1>1 DEF IInv, Exec
<1>3. InHand \in Records
  BY <1>2, HandTyped
<1>4. /\ reply = "ok" => status'[InHand] = "PARTIAL"
      /\ cache'[InHand] \in {None, cache[InHand]}
  BY <1>1, <1>2, <1>3 DEF Typed, Applied
<1>5. HandOnly
  <2>1. status' \in [Records -> Statuses] /\ moved' \in [Records -> BOOLEAN]
    BY <1>1, <1>2 DEF Typed, Statuses, Pending
  <2>2. \A r \in Records \ {InHand} : status'[r] = status[r] /\ cache'[r] = cache[r]
    BY <1>1, <1>2 DEF Typed
  <2> QED BY <1>1, <1>2, <1>4, <2>1, <2>2 DEF HandOnly, Typed
<1>6. errors'
  BY <1>1, <1>2 DEF Positioned
<1>7. InHand \in excused' \cup overtaken' \/ status'[InHand] \notin InProgress
  BY <1>1, <1>4 DEF InProgress
<1> QED BY <1>1, <1>2, <1>5, <1>6, <1>7, GivenUpStep DEF Typed

-----------------------------------------------------------------------------
(* The invariant, and what follows.                                        *)

LEMMA InitHolds == Init => IInv
<1> SUFFICES ASSUME Init PROVE IInv
  OBVIOUS
<1>1. /\ status \in [Records -> {"DISCOVERED", "PARTIAL"}]
      /\ analysed = [r \in Records |-> FALSE] /\ moved = [r \in Records |-> FALSE]
      /\ runRow = "none" /\ raw = {} /\ text = {} /\ manifest = <<>> /\ pc = "idle"
      /\ cache = NoEntries /\ plan = NoEntries /\ at = 1 /\ drawn = 0 /\ errors = FALSE /\ unnoted = 0
  BY DEF Init
<1>2. rows \subseteq Attachments
  BY DEF Init, FilesOf
<1>3. Typed
  BY <1>1, <1>2, AttachmentsCounted DEF Typed, Statuses, Pending, NoEntries
<1>4. CacheSound /\ PlanSound
  BY <1>1 DEF CacheSound, PlanSound, NoEntries
<1>5. Planned /\ Positioned /\ Owned
  BY <1>1 DEF Planned, Positioned, Owned, Exec, Uncached
<1>6. Released
  BY <1>1 DEF Released, InProgress
<1>7. Accounted /\ RowTracked
  BY <1>1 DEF Accounted, CompleteMeansAnalysed, RowTracked, Exec
<1> QED BY <1>3, <1>4, <1>5, <1>6, <1>7 DEF IInv

LEMMA StutteringHolds ==
  ASSUME IInv, UNCHANGED vars
  PROVE  IInv'
<1>1. /\ UNCHANGED <<status, analysed, moved, rows, runRow, raw, text, manifest, pc, cache, plan, at, drawn, errors,
                     overtaken, excused, orphaned, unnoted>>
  BY DEF vars, synapse, files, memory, history
<1>2. Typed' /\ CacheSound' /\ PlanSound' /\ Planned' /\ RowTracked'
  BY <1>1 DEF IInv, Typed, CacheSound, PlanSound, Planned, RowTracked
<1>3. Positioned' /\ Owned' /\ Released' /\ Accounted'
  BY <1>1 DEF IInv, Positioned, Owned, Released, Accounted, CompleteMeansAnalysed, InHand
<1> QED BY <1>2, <1>3 DEF IInv

LEMMA NextHolds ==
  ASSUME IInv, Next
  PROVE  IInv'
<1>1. CASE \E batch \in Batches : WriteManifest(batch)
  BY <1>1, WriteManifestHolds
<1>2. CASE Invoke \/ LoseFiles
  BY <1>2, InvokeHolds, LoseFilesHolds
<1>3. CASE \E r \in Records : Collector(r)
  BY <1>3, CollectorHolds
<1>4. CASE Preflight \/ PreflightRefused \/ PreflightFails \/ NothingToOpen
  BY <1>4, PreflightHolds, NothingOpenedHolds
<1>5. CASE \E reply \in Replies : CreateRun(reply) \/ Claim(reply) \/ PublishFile(reply) \/ StartAnalysis(reply)
                                  \/ Finish(reply) \/ Reset(reply) \/ CloseRun(reply)
  BY <1>5, CreateRunHolds, WritesHold, PublishFileHolds, ResetHolds, CloseRunHolds
<1>6. CASE \E reply \in Replies \cup {"not promoted"} : Commit(reply)
  BY <1>6, CommitHolds
<1>7. CASE SkipAnalysed \/ Refresh \/ RefreshFails
  BY <1>7, SkipAnalysedHolds, RefreshHolds, RefreshFailsHolds
<1>8. CASE QueueExhausted \/ Download \/ Analyse \/ TextUnavailable \/ StepFails
  BY <1>8, TurnsHold, DownloadHolds
<1>9. CASE Verify \/ VerifyFails \/ Report \/ ReportFails \/ Inspect \/ InspectFails \/ AllRecords
  BY <1>9, VerifyHolds, TurnsHold, ReportHolds, ReportFailsHolds, InspectHolds, InspectFailsHolds, AllRecordsHolds
<1>10. CASE Interrupt \/ Kill
  BY <1>10, InterruptHolds, KillHolds
<1> QED BY <1>1, <1>2, <1>3, <1>4, <1>5, <1>6, <1>7, <1>8, <1>9, <1>10 DEF Next

(* The inductive invariant of the recovery runner.                         *)
THEOREM Invariance == Spec => []IInv
<1>1. Init => IInv
  BY InitHolds
<1>2. IInv /\ [Next]_vars => IInv'
  BY NextHolds, StutteringHolds
<1> QED BY <1>1, <1>2, PTL DEF Spec

(* recovery_runner.py:1100: whatever fails, in whatever order, no record   *)
(* is left EXTRACTING or ANALYZING by a run that failed on it in an        *)
(* ordinary way.                                                           *)
THEOREM RecordsAreReleased == Spec => []FailureReleases
<1>1. IInv => FailureReleases
  BY DEF IInv, Released, FailureReleases, InProgress, Exec
<1> QED BY <1>1, Invariance, PTL

(* A run is reported COMPLETE only if every record of its manifest has its *)
(* analysis, but for the records after the one whose result was just kept  *)
(* when the run was interrupted without an error noted.                    *)
THEOREM CompleteIsTrue == Spec => []CompleteMeansAnalysed
<1>1. IInv => CompleteMeansAnalysed
  BY DEF IInv, Accounted
<1> QED BY <1>1, Invariance, PTL

(* The types of the variables, and that a run row stays RUNNING only if    *)
(* the process was killed, or Synapse did not get the call that closes it. *)
THEOREM RunsAreClosed == Spec => []RunClosed
<1>1. IInv => TypeOK
  <2> SUFFICES ASSUME IInv PROVE TypeOK
    OBVIOUS
  <2>1. Typed /\ Positioned
    BY DEF IInv
  <2>2. \A i \in DOMAIN manifest : manifest[i].id \in Records /\ manifest[i].status \in Pending
    BY <2>1, ManifestTyped
  <2>3. drawn \in 0..Cardinality(Attachments)
    BY <2>1, AttachmentsCounted DEF Typed
  <2>4. Executing => at <= Len(manifest) /\ plan[InHand] # None /\ drawn <= plan[InHand].needed
    BY <2>1, HandPlanned DEF Executing, Exec, Positioned
  <2> QED BY <2>1, <2>2, <2>3, <2>4 DEF TypeOK, Typed
<1>2. IInv => (pc = "idle" /\ runRow = "RUNNING" => orphaned)
  BY DEF IInv, RowTracked, Exec
<1>3. IInv => RunClosed
  BY <1>1, <1>2 DEF RunClosed
<1> QED BY <1>3, Invariance, PTL

(* Visits are what tells the collector's writes from the runner's.         *)
Counted == visits \in Nat

LEMMA VisitsCounted == Spec => []Counted
<1>1. Init => Counted
  BY DEF Init, Counted
<1>2. Counted /\ [Next]_vars => Counted'
  <2> SUFFICES ASSUME visits \in Nat, [Next]_vars PROVE visits' \in Nat
    BY DEF Counted
  <2>1. visits' = visits \/ visits' = visits + 1
    BY DEF Next, WriteManifest, Invoke, LoseFiles, Collector, CollectorStarts, CollectorExtracted, CollectorCommits,
           CollectorFails, CollectorWrites, Preflight, PreflightRefused, PreflightFails, NothingToOpen, CreateRun,
           Claim, PublishFile, StartAnalysis, Finish, Reset, CloseRun, Commit, SkipAnalysed, Refresh, RefreshFails,
           QueueExhausted, Download, Analyse, TextUnavailable, StepFails, Verify, VerifyFails, Report, ReportFails, Inspect,
           InspectFails, AllRecords, Interrupt, Kill, WriteStatus, Received, Fault, NoFault, NextRecord, Go, bounds, vars
  <2> QED BY <2>1
<1> QED BY <1>1, <1>2, PTL DEF Spec

(* The writes of the runner itself: to the record in hand, and back from   *)
(* READY at no point.                                                      *)
LEMMA OwnWrites ==
  ASSUME IInv, [Next]_vars, Counted, visits' = visits
  PROVE  \/ UNCHANGED <<status, analysed>>
         \/ /\ pc \in Unfinished /\ UNCHANGED analysed
            /\ \E value \in Statuses : status' = [status EXCEPT ![InHand] = value]
         \/ /\ pc = "finishing" /\ UNCHANGED analysed
            /\ status' = [status EXCEPT ![InHand] = "READY"]
         \/ /\ pc = "committing"
            /\ status' = [status EXCEPT ![InHand] = "READY"] /\ analysed' = [analysed EXCEPT ![InHand] = TRUE]
<1>1. CASE \E r \in Records : Collector(r)
  <2>1. visits' = visits + 1
    BY <1>1 DEF Collector, CollectorStarts, CollectorExtracted, CollectorCommits, CollectorFails, CollectorWrites
  <2> QED BY <2>1 DEF Counted
<1>2. CASE \E reply \in Replies : Claim(reply) \/ StartAnalysis(reply) \/ Finish(reply)
  BY <1>2 DEF Claim, StartAnalysis, Finish, WriteStatus, Unfinished, Statuses, Pending
<1>3. CASE \E reply \in Replies : Reset(reply)
  BY <1>3 DEF Reset, Unfinished, Statuses, Pending
<1>4. CASE \E reply \in Replies \cup {"not promoted"} : Commit(reply)
  BY <1>4 DEF Commit
<1>5. CASE \/ \E batch \in Batches : WriteManifest(batch)
           \/ Invoke \/ LoseFiles \/ Preflight \/ PreflightRefused \/ PreflightFails \/ NothingToOpen
           \/ \E reply \in Replies : CreateRun(reply) \/ PublishFile(reply) \/ CloseRun(reply)
           \/ SkipAnalysed \/ Refresh \/ RefreshFails
           \/ QueueExhausted \/ Download \/ Analyse \/ TextUnavailable \/ StepFails
           \/ Verify \/ VerifyFails \/ Report \/ ReportFails \/ Inspect \/ InspectFails \/ AllRecords
           \/ Interrupt \/ Kill \/ UNCHANGED vars
  BY <1>5 DEF WriteManifest, Invoke, LoseFiles, Preflight, PreflightRefused, PreflightFails, NothingToOpen, CreateRun,
              PublishFile, CloseRun, SkipAnalysed, Refresh, RefreshFails, QueueExhausted, Download, Analyse,
              TextUnavailable, StepFails, Verify, VerifyFails, Report, ReportFails, Inspect, InspectFails, AllRecords,
              Interrupt, Kill,
              vars, synapse
<1> QED BY <1>1, <1>2, <1>3, <1>4, <1>5 DEF Next

(* recovery_runner.py:1206: a run takes a record back from READY only if   *)
(* the collector wrote to it after the run's last look.                    *)
THEOREM ReadyIsKept == Spec => ReadyKept
<1> DEFINE Kept == \A r \in Records :
                     (status[r] = "READY" /\ status'[r] # "READY" /\ visits' = visits) => r \in overtaken
<1>1. IInv /\ Counted /\ [Next]_vars => Kept
  <2> SUFFICES ASSUME IInv, Counted, [Next]_vars, NEW r \in Records,
                      status[r] = "READY", status'[r] # "READY", visits' = visits
               PROVE  r \in overtaken
    OBVIOUS
  <2>1. Typed /\ Owned
    BY DEF IInv
  <2>2. pc \in Unfinished /\ r = InHand
    BY <2>1, OwnWrites DEF Typed
  <2>3. pc \in Exec /\ InHand \notin overtaken => status[InHand] # "READY"
    BY <2>1, <2>2 DEF Owned
  <2> QED BY <2>2, <2>3 DEF Exec, Unfinished
<1>2. IInv /\ Counted /\ [Next]_vars => [Kept]_vars
  BY <1>1
<1>3. Spec => [][Kept]_vars
  BY <1>2, Invariance, VisitsCounted, PTL DEF Spec
<1> QED BY <1>3 DEF ReadyKept

(* An analysis the runner commits is made from every attachment of its     *)
(* record, downloaded now or before.                                       *)
THEOREM AnalysesAreComplete == Spec => AnalysisComplete
<1> DEFINE Whole == \A r \in Records :
                      (analysed'[r] # analysed[r] /\ visits' = visits) => Documents = FilesOf(r)
<1>1. IInv /\ Counted /\ [Next]_vars => Whole
  <2> SUFFICES ASSUME IInv, Counted, [Next]_vars, NEW r \in Records,
                      analysed'[r] # analysed[r], visits' = visits
               PROVE  Documents = FilesOf(r)
    OBVIOUS
  <2>1. Typed /\ Positioned
    BY DEF IInv
  <2>2. pc = "committing" /\ r = InHand
    BY <2>1, OwnWrites DEF Typed
  <2>3. /\ drawn >= plan[InHand].needed /\ drawn <= Len(plan[InHand].queue) /\ at <= Len(manifest)
        /\ drawn \in Nat
    BY <2>1, <2>2 DEF Positioned, Exec, Typed
  <2>4. Plans(plan[InHand], InHand) /\ plan[InHand].needed \in Nat /\ Len(plan[InHand].queue) \in Nat
    BY <2>2, <2>3, HandPlanned DEF Exec
  <2>5. plan[InHand].valid \cup {plan[InHand].queue[i] : i \in 1..drawn} = FilesOf(InHand)
    BY <2>3, <2>4, PlanWhole
  <2> QED BY <2>2, <2>5 DEF Documents
<1>2. IInv /\ Counted /\ [Next]_vars => [Whole]_vars
  BY <1>1
<1>3. Spec => [][Whole]_vars
  BY <1>2, Invariance, VisitsCounted, PTL DEF Spec
<1> QED BY <1>3 DEF AnalysisComplete
=============================================================================
