---------------------------- MODULE LLMScheduler ----------------------------
(***************************************************************************)
(* GlobalLLMScheduler (llm_scheduler.py): the market-wide pool that runs   *)
(* document, announcement and company summaries.  Pending jobs are kept by *)
(* ticker and, inside a ticker, by group; a free worker goes to the next   *)
(* stage of a weighted cycle, then to the next ticker, then group, that    *)
(* has such a job at the head of its queue and is under its caps.          *)
(*                                                                         *)
(* Everything that touches the queues holds one re-entrant lock.  What the *)
(* lock's owner is in the middle of is kept as a stack of frames, because  *)
(* Future.add_done_callback runs _done at once, in the dispatching thread  *)
(* and under the lock, for a job that has ended by then; its completion    *)
(* hook may submit, and so dispatch, inside that dispatch.                 *)
(***************************************************************************)
EXTENDS Integers, SequencesExt

CONSTANTS Jobs,
          StageOf,       \* Jobs -> {"document", "announcement", "company"}
          GroupOf,       \* Jobs -> group_key (announcement id or company)
          TickerOf,      \* Jobs -> ticker; one ticker per group
          FollowUp,      \* Jobs -> SUBSET Jobs: what the completion hook submits
          ArrivalOrders, \* the orders in which the main thread may submit its jobs, each once
          MaxWorkers, MaxPerGroup, MaxPerTicker

Groups  == {GroupOf[j] : j \in Jobs}
Tickers == {TickerOf[j] : j \in Jobs}
TickerOfGroup == [g \in Groups |-> TickerOf[CHOOSE j \in Jobs : GroupOf[j] = g]]

ASSUME SchedulerAssumption ==
  /\ IsFiniteSet(Jobs)
  /\ FollowUp \in [Jobs -> SUBSET Jobs]
  /\ \A order \in ArrivalOrders : /\ order \in Seq(Jobs) /\ IsInjective(order)
                                  /\ \A j \in Jobs : FollowUp[j] \cap ToSet(order) = {}
  /\ MaxWorkers \in Nat \ {0}
  /\ MaxPerGroup \in 1..MaxWorkers
  /\ MaxPerTicker \in 1..MaxWorkers
  /\ \A j \in Jobs : TickerOf[j] = TickerOfGroup[GroupOf[j]]

VARIABLES phase,           \* of each job: new, queued, active, ended, callback, done
          tickerOrder,     \* _pending's keys, next one first
          groupOrder,      \* of each ticker, the keys of its groups
          queue,           \* of each group, its jobs
          cursor,          \* _stage_cursor
          activeTotal, activeByGroup, activeByTicker, callbacksInflight,
          stack,           \* what the lock's owner is doing; <<>>: the lock is free
          arrivals,        \* jobs the main thread has still to submit
          main,            \* main thread: submitting, waiting, drained, closed
          rejected         \* a submission found the scheduler closed

vars == <<phase, tickerOrder, groupOrder, queue, cursor, activeTotal, activeByGroup,
          activeByTicker, callbacksInflight, stack, arrivals, main, rejected>>

counters == <<activeTotal, activeByGroup, activeByTicker>>
queues == <<tickerOrder, groupOrder, queue>>
callers == <<arrivals, main, rejected>>

Init ==
  /\ phase = [j \in Jobs |-> "new"]
  /\ tickerOrder = <<>>
  /\ groupOrder = [t \in Tickers |-> <<>>]
  /\ queue = [g \in Groups |-> <<>>]
  /\ cursor = 0
  /\ activeTotal = 0
  /\ activeByGroup = [g \in Groups |-> 0]
  /\ activeByTicker = [t \in Tickers |-> 0]
  /\ callbacksInflight = 0
  /\ stack = <<>>
  /\ arrivals \in ArrivalOrders
  /\ main = "submitting"
  /\ rejected = FALSE

-----------------------------------------------------------------------------
(* The lock's owner: a dispatch loop, a job just handed to the executor    *)
(* whose done-callback is about to be registered, or a hook run inline.    *)

Loop == [kind |-> "loop"]
Register(j) == [kind |-> "register", job |-> j]
Inline(j) == [kind |-> "callback", job |-> j]

LockFree == stack = <<>>
OnTop(frame) == stack # <<>> /\ Last(stack) = frame
IsInline(j) == Contains(stack, Inline(j))
ReplaceTop(frame) == Append(Front(stack), frame)

(* The thread that completes j may go on: it owns the lock and is back in  *)
(* j's completion, or it is a worker and finds the lock free.              *)
MayProceed(j) == OnTop(Inline(j)) \/ (LockFree /\ ~IsInline(j))

-----------------------------------------------------------------------------
(* Selection: _next_job_locked and _find_job_for_stage_locked.             *)

STAGE_WEIGHTS == [document |-> 3, announcement |-> 2, company |-> 1]

(* Mutant of StageCycle: the weights go to the wrong stages.               *)
StageCycleInverted ==
  <<"company", "company", "company", "announcement", "announcement", "document">>

StageCycle == <<"document", "document", "document", "announcement", "announcement", "company">>

(* Mutant of Rotated: a key that was searched and not served is lost.      *)
RotatedLossy(seq, i) == SubSeq(seq, i + 1, Len(seq)) \o <<seq[i]>>

Rotated(seq, i) == SubSeq(seq, i + 1, Len(seq)) \o SubSeq(seq, 1, i)

GroupReady(g, stage) ==
  /\ activeByGroup[g] < MaxPerGroup
  /\ StageOf[Head(queue[g])] = stage

ReadyGroup(t, stage) == SelectInSeq(groupOrder[t], LAMBDA g : GroupReady(g, stage))

TickerReady(t, stage) == activeByTicker[t] < MaxPerTicker /\ ReadyGroup(t, stage) > 0

ReadyTicker(stage) == SelectInSeq(tickerOrder, LAMBDA t : TickerReady(t, stage))

StageAt(offset) == StageCycle[((cursor + offset) % Len(StageCycle)) + 1]

(* Offsets, from the cursor, of the stages that have a job to run.         *)
ReadyOffsets == {o \in 0..Len(StageCycle) - 1 : ReadyTicker(StageAt(o)) > 0}

FirstReady == CHOOSE o \in ReadyOffsets : \A p \in ReadyOffsets : o <= p

NothingReady == activeTotal >= MaxWorkers \/ ReadyOffsets = {}

-----------------------------------------------------------------------------
(* submit: append to the group's queue, then dispatch under the lock.      *)
Enqueue(j) ==
  LET t == TickerOf[j]
      g == GroupOf[j]
  IN /\ phase' = [phase EXCEPT ![j] = "queued"]
     /\ tickerOrder' = IF Contains(tickerOrder, t) THEN tickerOrder ELSE Append(tickerOrder, t)
     /\ groupOrder' = IF Contains(groupOrder[t], g) THEN groupOrder
                      ELSE [groupOrder EXCEPT ![t] = Append(@, g)]
     /\ queue' = [queue EXCEPT ![g] = Append(@, j)]
     /\ stack' = Append(stack, Loop)
     /\ UNCHANGED rejected

Reject == rejected' = TRUE /\ UNCHANGED <<phase, queues, stack>>

MainSubmits ==
  /\ main = "submitting" /\ arrivals # <<>> /\ LockFree
  /\ Enqueue(Head(arrivals))
  /\ arrivals' = Tail(arrivals)
  /\ UNCHANGED <<cursor, counters, callbacksInflight, main>>

HookSubmits(j) ==
  /\ phase[j] = "callback" /\ MayProceed(j)
  /\ \E k \in FollowUp[j] :
       /\ phase[k] = "new"
       /\ IF main = "closed" THEN Reject ELSE Enqueue(k)
  /\ UNCHANGED <<cursor, counters, callbacksInflight, arrivals, main>>

(* The head of group g, the k-th of the i-th ticker t, is handed to the    *)
(* executor; what was looked at goes behind the others, an emptied group   *)
(* or ticker is dropped.                                                   *)
Start(t, g, i, k) ==
  LET groupsLeft == IF Len(queue[g]) = 1 THEN Front(Rotated(groupOrder[t], k))
                    ELSE Rotated(groupOrder[t], k)
  IN /\ queue' = [queue EXCEPT ![g] = Tail(@)]
     /\ groupOrder' = [groupOrder EXCEPT ![t] = groupsLeft]
     /\ tickerOrder' = IF groupsLeft = <<>> THEN Front(Rotated(tickerOrder, i))
                       ELSE Rotated(tickerOrder, i)
     /\ activeTotal' = activeTotal + 1
     /\ activeByGroup' = [activeByGroup EXCEPT ![g] = @ + 1]
     /\ activeByTicker' = [activeByTicker EXCEPT ![t] = @ + 1]
     /\ phase' = [phase EXCEPT ![Head(queue[g])] = "active"]
     /\ stack' = Append(stack, Register(Head(queue[g])))

(* One turn of _dispatch_locked's loop.                                    *)
DispatchOne ==
  /\ OnTop(Loop) /\ ~NothingReady
  /\ \E o \in ReadyOffsets, i \in DOMAIN tickerOrder :
       /\ o = FirstReady
       /\ i = ReadyTicker(StageAt(o))
       /\ \E k \in DOMAIN groupOrder[tickerOrder[i]] :
            /\ k = ReadyGroup(tickerOrder[i], StageAt(o))
            /\ Start(tickerOrder[i], groupOrder[tickerOrder[i]][k], i, k)
       /\ cursor' = (cursor + o + 1) % Len(StageCycle)
  /\ UNCHANGED <<callbacksInflight, callers>>

DispatchEnds ==
  /\ OnTop(Loop) /\ NothingReady
  /\ stack' = Front(stack)
  /\ UNCHANGED <<phase, queues, cursor, counters, callbacksInflight, callers>>

(* The job's function returns or raises, in a worker, without the lock.    *)
JobEnds(j) ==
  /\ phase[j] = "active"
  /\ phase' = [phase EXCEPT ![j] = "ended"]
  /\ UNCHANGED <<queues, cursor, counters, callbacksInflight, stack, callers>>

(* First critical section of _done.                                        *)
Account(j) ==
  /\ phase' = [phase EXCEPT ![j] = "callback"]
  /\ activeTotal' = activeTotal - 1
  /\ activeByGroup' = [activeByGroup EXCEPT ![GroupOf[j]] = @ - 1]
  /\ activeByTicker' = [activeByTicker EXCEPT ![TickerOf[j]] = @ - 1]
  /\ callbacksInflight' = callbacksInflight + 1

(* add_done_callback: the job still runs and its worker will call _done,   *)
(* or it has ended and _done runs here.                                    *)
RegisterCallback(j) ==
  /\ OnTop(Register(j))
  /\ IF phase[j] = "ended"
     THEN Account(j) /\ stack' = ReplaceTop(Inline(j))
     ELSE stack' = Front(stack) /\ UNCHANGED <<phase, counters, callbacksInflight>>
  /\ UNCHANGED <<queues, cursor, callers>>

DoneOnWorker(j) ==
  /\ phase[j] = "ended" /\ LockFree
  /\ Account(j)
  /\ UNCHANGED <<queues, cursor, stack, callers>>

(* Mutant of DoneCallback: no dispatch after the hook.                     *)
DoneCallbackOnly(j) ==
  /\ phase[j] = "callback" /\ MayProceed(j)
  /\ phase' = [phase EXCEPT ![j] = "done"]
  /\ callbacksInflight' = callbacksInflight - 1
  /\ stack' = IF IsInline(j) THEN Front(stack) ELSE stack
  /\ UNCHANGED <<queues, cursor, counters, callers>>

(* Second critical section of _done: the hook has returned or raised, and  *)
(* whatever it submitted is queued; dispatch.                              *)
DoneCallback(j) ==
  /\ phase[j] = "callback" /\ MayProceed(j)
  /\ phase' = [phase EXCEPT ![j] = "done"]
  /\ callbacksInflight' = callbacksInflight - 1
  /\ stack' = IF IsInline(j) THEN ReplaceTop(Loop) ELSE Append(stack, Loop)
  /\ UNCHANGED <<queues, cursor, counters, callers>>

(* wait and close: the main thread leaves wait when it finds, under the    *)
(* lock, nothing active, no hook running and nothing pending.              *)
MainWaits ==
  /\ main = "submitting" /\ arrivals = <<>> /\ LockFree
  /\ main' = "waiting"
  /\ UNCHANGED <<phase, queues, cursor, counters, callbacksInflight, stack, arrivals, rejected>>

(* Mutant of Drained: hooks that still run are forgotten.                  *)
DrainedBeforeHooks == activeTotal = 0 /\ tickerOrder = <<>>

Drained == activeTotal = 0 /\ callbacksInflight = 0 /\ tickerOrder = <<>>

WaitReturns ==
  /\ main = "waiting" /\ LockFree /\ Drained
  /\ main' = "drained"
  /\ UNCHANGED <<phase, queues, cursor, counters, callbacksInflight, stack, arrivals, rejected>>

Close ==
  /\ main = "drained" /\ LockFree
  /\ main' = "closed"
  /\ UNCHANGED <<phase, queues, cursor, counters, callbacksInflight, stack, arrivals, rejected>>

Terminated == main = "closed" /\ LockFree /\ Drained /\ UNCHANGED vars

Main == MainSubmits \/ MainWaits \/ WaitReturns \/ Close
LockOwner == DispatchOne \/ DispatchEnds \/ \E j \in Jobs : RegisterCallback(j)
Worker(j) == JobEnds(j) \/ DoneOnWorker(j) \/ HookSubmits(j) \/ DoneCallback(j)

Next == Main \/ LockOwner \/ (\E j \in Jobs : Worker(j)) \/ Terminated

Spec == Init /\ [][Next]_vars

(* Threads run and jobs return (their requests time out).                  *)
FairSpec == Spec /\ WF_vars(Next)

-----------------------------------------------------------------------------
InPhase(p) == {j \in Jobs : phase[j] \in p}
Counted == InPhase({"active", "ended"})

TypeOK ==
  /\ phase \in [Jobs -> {"new", "queued", "active", "ended", "callback", "done"}]
  /\ tickerOrder \in Seq(Tickers)
  /\ groupOrder \in [Tickers -> Seq(Groups)]
  /\ queue \in [Groups -> Seq(Jobs)]
  /\ cursor \in 0..Len(StageCycle) - 1
  /\ activeTotal \in 0..MaxWorkers
  /\ activeByGroup \in [Groups -> 0..MaxPerGroup]
  /\ activeByTicker \in [Tickers -> 0..MaxPerTicker]
  /\ callbacksInflight \in Nat
  /\ main \in {"submitting", "waiting", "drained", "closed"}
  /\ rejected \in BOOLEAN

(* Counters and nested ordered dictionaries, kept by separate code paths   *)
(* and rotated by every search, are the jobs they stand for, also while    *)
(* completions run inside a dispatch: a queued job is in its group's queue *)
(* once, and no empty group or ticker is kept (the pruning branches of the *)
(* search never run).                                                      *)
BookkeepingExact ==
  /\ TypeOK
  /\ activeTotal = Cardinality(Counted)
  /\ \A g \in Groups : activeByGroup[g] = Cardinality({j \in Counted : GroupOf[j] = g})
  /\ \A t \in Tickers : activeByTicker[t] = Cardinality({j \in Counted : TickerOf[j] = t})
  /\ callbacksInflight = Cardinality(InPhase({"callback"}))
  /\ IsInjective(tickerOrder)
  /\ \A t \in Tickers :
       /\ IsInjective(groupOrder[t])
       /\ ToSet(groupOrder[t]) = {g \in Groups : TickerOfGroup[g] = t /\ queue[g] # <<>>}
       /\ Contains(tickerOrder, t) <=> groupOrder[t] # <<>>
  /\ \A g \in Groups : /\ IsInjective(queue[g])
                       /\ ToSet(queue[g]) = {j \in InPhase({"queued"}) : GroupOf[j] = g}

(* No worker idles beside a job it may run: with the lock free and no hook *)
(* running, every queued head is held back by a cap.                       *)
WorkConserving == LockFree /\ callbacksInflight = 0 => NothingReady

Pool == INSTANCE JobPool WITH
  Jobs   <- Jobs,
  Caps   <- {<<Jobs, MaxWorkers>>}
            \cup {<<{j \in Jobs : GroupOf[j] = g}, MaxPerGroup>> : g \in Groups}
            \cup {<<{j \in Jobs : TickerOf[j] = t}, MaxPerTicker>> : t \in Tickers},
  status <- [j \in Jobs |-> CASE phase[j] = "new"                 -> "new"
                              [] phase[j] = "queued"              -> "pending"
                              [] phase[j] \in {"active", "ended"} -> "running"
                              [] phase[j] = "callback"            -> "notifying"
                              [] OTHER                            -> "completed"],
  closed <- main = "closed"

(* The scheduler is a job pool: caps per worker, group and ticker, each    *)
(* job and hook once, nothing accepted after close, and no job or hook,    *)
(* not even one a hook submitted, left behind when wait lets it close.     *)
IsJobPool == Pool!Spec

(* Every accepted job is run, its hook finishes, and the main thread gets  *)
(* past wait and close: no completion is lost between the critical         *)
(* sections of _done, and close never cuts off a hook that still has a     *)
(* reducer to submit.                                                      *)
Drains == <>(main = "closed" /\ InPhase({"new", "done"}) = Jobs /\ ~rejected)
=============================================================================
