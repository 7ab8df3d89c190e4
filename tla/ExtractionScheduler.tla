------------------------- MODULE ExtractionScheduler -------------------------
(***************************************************************************)
(* BoundedExtractionScheduler (extraction_scheduler.py): the background    *)
(* pool that extracts downloaded attachments.  The producer waits while    *)
(* the backlog is full; a free worker goes to the next ticker under its    *)
(* cap.  As in LLMScheduler, the owner of the re-entrant lock is a stack   *)
(* of frames, because a job that has ended by the time its done-callback   *)
(* is registered is completed inside the dispatch.                         *)
(***************************************************************************)
EXTENDS Integers, SequencesExt

CONSTANTS Jobs,
          TickerOf,       \* Jobs -> ticker
          ArrivalOrders,  \* orders in which the producer may submit, each job once
          MaxWorkers, MaxInflight, MaxPerTicker

Tickers == {TickerOf[j] : j \in Jobs}

ASSUME ExtractionAssumption ==
  /\ IsFiniteSet(Jobs)
  /\ \A order \in ArrivalOrders : order \in Seq(Jobs) /\ IsInjective(order)
  /\ MaxWorkers \in Nat \ {0}
  /\ MaxInflight \in Nat /\ MaxInflight >= MaxWorkers
  /\ MaxPerTicker \in 1..MaxWorkers

VARIABLES phase,        \* of each job: new, queued, active, ended, callback, done
          tickerOrder,  \* _pending's keys, next one first
          queue,        \* of each ticker, its jobs
          activeTotal, activeByTicker, callbacksInflight,
          stack,        \* what the lock's owner is doing; <<>>: the lock is free
          arrivals,     \* jobs the producer has still to submit
          main,         \* producer: submitting, waiting, drained, closed
          passed        \* history, <<t, u>>: dispatches of u since t could run a job

vars == <<phase, tickerOrder, queue, activeTotal, activeByTicker, callbacksInflight, stack,
          arrivals, main, passed>>

queues == <<tickerOrder, queue>>
counters == <<activeTotal, activeByTicker>>
producer == <<arrivals, main>>

Init ==
  /\ phase = [j \in Jobs |-> "new"]
  /\ tickerOrder = <<>>
  /\ queue = [t \in Tickers |-> <<>>]
  /\ activeTotal = 0
  /\ activeByTicker = [t \in Tickers |-> 0]
  /\ callbacksInflight = 0
  /\ stack = <<>>
  /\ arrivals \in ArrivalOrders
  /\ main = "submitting"
  /\ passed = [pair \in Tickers \X Tickers |-> 0]

InPhase(p) == {j \in Jobs : phase[j] \in p}

-----------------------------------------------------------------------------
Loop == [kind |-> "loop"]
Register(j) == [kind |-> "register", job |-> j]
Inline(j) == [kind |-> "callback", job |-> j]

LockFree == stack = <<>>
OnTop(frame) == stack # <<>> /\ Last(stack) = frame
IsInline(j) == Contains(stack, Inline(j))
ReplaceTop(frame) == Append(Front(stack), frame)
MayProceed(j) == OnTop(Inline(j)) \/ (LockFree /\ ~IsInline(j))

Places == UNION {{t} \X DOMAIN queue[t] : t \in Tickers}
Inflight == activeTotal + Cardinality(Places)

(* submit: Condition.wait releases the lock while the backlog is full.     *)
Submit ==
  /\ main = "submitting" /\ arrivals # <<>> /\ LockFree
  /\ Inflight < MaxInflight
  /\ LET j == Head(arrivals)
         t == TickerOf[j]
     IN /\ phase' = [phase EXCEPT ![j] = "queued"]
        /\ tickerOrder' = IF Contains(tickerOrder, t) THEN tickerOrder ELSE Append(tickerOrder, t)
        /\ queue' = [queue EXCEPT ![t] = Append(@, j)]
  /\ arrivals' = Tail(arrivals)
  /\ stack' = <<Loop>>
  /\ UNCHANGED <<counters, callbacksInflight, main, passed>>

-----------------------------------------------------------------------------
(* _next_ticker_locked and one turn of _dispatch_locked: tickers looked at *)
(* go behind the others.                                                   *)
Rotated(seq, i) == SubSeq(seq, i + 1, Len(seq)) \o SubSeq(seq, 1, i)

Ready(t) == queue[t] # <<>> /\ activeByTicker[t] < MaxPerTicker

(* Mutants of ReadyTicker: no cap; the search starts at the wrong end.     *)
ReadyTickerUncapped == IF tickerOrder = <<>> THEN 0 ELSE 1
ReadyTickerFromEnd == SelectLastInSeq(tickerOrder, LAMBDA t : activeByTicker[t] < MaxPerTicker)

ReadyTicker == SelectInSeq(tickerOrder, LAMBDA t : activeByTicker[t] < MaxPerTicker)

NothingReady == activeTotal >= MaxWorkers \/ ReadyTicker = 0

DispatchOne ==
  /\ OnTop(Loop) /\ ~NothingReady
  /\ LET t == tickerOrder[ReadyTicker]
         j == Head(queue[t])
     IN /\ queue' = [queue EXCEPT ![t] = Tail(@)]
        /\ tickerOrder' = IF Len(queue[t]) = 1 THEN Front(Rotated(tickerOrder, ReadyTicker))
                          ELSE Rotated(tickerOrder, ReadyTicker)
        /\ activeTotal' = activeTotal + 1
        /\ activeByTicker' = [activeByTicker EXCEPT ![t] = @ + 1]
        /\ phase' = [phase EXCEPT ![j] = "active"]
        /\ stack' = Append(stack, Register(j))
        /\ passed' = [pair \in Tickers \X Tickers |->
                        IF pair[1] = t \/ ~Ready(pair[1]) THEN 0
                        ELSE IF pair[2] = t THEN passed[pair] + 1 ELSE passed[pair]]
  /\ UNCHANGED <<callbacksInflight, producer>>

DispatchEnds ==
  /\ OnTop(Loop) /\ NothingReady
  /\ stack' = Front(stack)
  /\ UNCHANGED <<phase, queues, counters, callbacksInflight, producer, passed>>

JobEnds(j) ==
  /\ phase[j] = "active"
  /\ phase' = [phase EXCEPT ![j] = "ended"]
  /\ UNCHANGED <<queues, counters, callbacksInflight, stack, producer, passed>>

(* Mutant of Account: the ticker's slot is not given back.                 *)
AccountWithoutTicker(j) ==
  /\ phase' = [phase EXCEPT ![j] = "callback"]
  /\ activeTotal' = activeTotal - 1
  /\ callbacksInflight' = callbacksInflight + 1
  /\ UNCHANGED activeByTicker

(* First critical section of _done, inline or in the worker.               *)
Account(j) ==
  /\ phase' = [phase EXCEPT ![j] = "callback"]
  /\ activeTotal' = activeTotal - 1
  /\ activeByTicker' = [activeByTicker EXCEPT ![TickerOf[j]] = @ - 1]
  /\ callbacksInflight' = callbacksInflight + 1

RegisterCallback(j) ==
  /\ OnTop(Register(j))
  /\ IF phase[j] = "ended"
     THEN Account(j) /\ stack' = ReplaceTop(Inline(j))
     ELSE stack' = Front(stack) /\ UNCHANGED <<phase, counters, callbacksInflight>>
  /\ UNCHANGED <<queues, producer, passed>>

DoneOnWorker(j) ==
  /\ phase[j] = "ended" /\ LockFree
  /\ Account(j)
  /\ UNCHANGED <<queues, stack, producer, passed>>

(* Mutant of DoneCallback: no dispatch after the hook.                     *)
DoneCallbackOnly(j) ==
  /\ phase[j] = "callback" /\ MayProceed(j)
  /\ phase' = [phase EXCEPT ![j] = "done"]
  /\ callbacksInflight' = callbacksInflight - 1
  /\ stack' = IF IsInline(j) THEN Front(stack) ELSE stack
  /\ UNCHANGED <<queues, counters, producer, passed>>

(* Second critical section of _done, after the hook.                       *)
DoneCallback(j) ==
  /\ phase[j] = "callback" /\ MayProceed(j)
  /\ phase' = [phase EXCEPT ![j] = "done"]
  /\ callbacksInflight' = callbacksInflight - 1
  /\ stack' = IF IsInline(j) THEN ReplaceTop(Loop) ELSE Append(stack, Loop)
  /\ UNCHANGED <<queues, counters, producer, passed>>

(* wait and close, which the pipeline calls one after the other.           *)
MainGoes(from, to) ==
  /\ main = from /\ LockFree
  /\ main' = to
  /\ UNCHANGED <<phase, queues, counters, callbacksInflight, stack, arrivals, passed>>

Drained == activeTotal = 0 /\ callbacksInflight = 0 /\ \A t \in Tickers : queue[t] = <<>>

Wait == arrivals = <<>> /\ MainGoes("submitting", "waiting")
WaitReturns == Drained /\ MainGoes("waiting", "drained")
Close == MainGoes("drained", "closed")

Terminated == main = "closed" /\ LockFree /\ UNCHANGED vars

Main == Submit \/ Wait \/ WaitReturns \/ Close
LockOwner == DispatchOne \/ DispatchEnds \/ \E j \in Jobs : RegisterCallback(j)
Worker(j) == JobEnds(j) \/ DoneOnWorker(j) \/ DoneCallback(j)

Next == Main \/ LockOwner \/ (\E j \in Jobs : Worker(j)) \/ Terminated

Spec == Init /\ [][Next]_vars

(* Threads run, extraction is local work that ends, and the producer       *)
(* re-tests the backlog at least every fifth of a second.                  *)
FairSpec == Spec /\ WF_vars(Next)

-----------------------------------------------------------------------------
Counted == InPhase({"active", "ended"})

TypeOK ==
  /\ phase \in [Jobs -> {"new", "queued", "active", "ended", "callback", "done"}]
  /\ tickerOrder \in Seq(Tickers)
  /\ queue \in [Tickers -> Seq(Jobs)]
  /\ activeTotal \in 0..MaxWorkers
  /\ activeByTicker \in [Tickers -> 0..MaxPerTicker]
  /\ callbacksInflight \in Nat
  /\ main \in {"submitting", "waiting", "drained", "closed"}
  /\ passed \in [Tickers \X Tickers -> Nat]

(* Counters and queues, kept by separate code paths and rotated by every   *)
(* search, are the jobs they stand for; no empty queue keeps its ticker,   *)
(* and the jobs queued and running never exceed the backlog.               *)
BookkeepingExact ==
  /\ TypeOK
  /\ Cardinality(InPhase({"queued"}) \cup Counted) <= MaxInflight
  /\ activeTotal = Cardinality(Counted)
  /\ \A t \in Tickers : activeByTicker[t] = Cardinality({j \in Counted : TickerOf[j] = t})
  /\ callbacksInflight = Cardinality(InPhase({"callback"}))
  /\ IsInjective(tickerOrder)
  /\ ToSet(tickerOrder) = {t \in Tickers : queue[t] # <<>>}
  /\ \A t \in Tickers : /\ IsInjective(queue[t])
                        /\ ToSet(queue[t]) = {j \in InPhase({"queued"}) : TickerOf[j] = t}

(* No worker idles beside a job it may run.                                *)
WorkConserving == LockFree /\ callbacksInflight = 0 => NothingReady

(* "ticker-fair" (the class's docstring): no other ticker is served twice  *)
(* while a ticker keeps a job that could run, although every search also   *)
(* moves the tickers at their cap behind the others.                       *)
TickerFair == \A pair \in Tickers \X Tickers : passed[pair] <= 1

Pool == INSTANCE JobPool WITH
  Caps   <- {<<Jobs, MaxWorkers>>}
            \cup {<<{j \in Jobs : TickerOf[j] = t}, MaxPerTicker>> : t \in Tickers},
  status <- [j \in Jobs |-> CASE phase[j] = "new"                 -> "new"
                              [] phase[j] = "queued"              -> "pending"
                              [] phase[j] \in {"active", "ended"} -> "running"
                              [] phase[j] = "callback"            -> "notifying"
                              [] OTHER                            -> "completed"],
  closed <- main = "closed"

(* The scheduler is a job pool: caps per worker and ticker, each job and   *)
(* hook once, and wait and close leave no job behind.                      *)
IsJobPool == Pool!Spec

(* Every attachment is extracted and the main thread gets past close: the  *)
(* producer never waits for room in the backlog that nobody will make, nor *)
(* wait for a completion that was lost between two critical sections.      *)
Drains == <>(main = "closed" /\ InPhase({"done"}) = Jobs)
=============================================================================
