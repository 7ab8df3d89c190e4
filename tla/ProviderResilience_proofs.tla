----------------------- MODULE ProviderResilience_proofs -----------------------
(***************************************************************************)
(* For any document, pool, number of attempts, deadline and cooldowns: an  *)
(* analysis carries the name of the provider that produced it, no thread   *)
(* posts before the cooldown it was told, and those that were told one     *)
(* post one at a time.                                                     *)
(*                                                                         *)
(* IInv is the inductive invariant.  Quiet and CombinesLast say that a     *)
(* call whose pool is joined has left no thread behind, which is what the  *)
(* provenance rests on; Shielded follows a cooldown from the reply that    *)
(* announced it over the shared one and the sleep to the next post, and    *)
(* Serialized the lock over the same way.                                  *)
(***************************************************************************)
EXTENDS ProviderResilience, TLAPS

Steps == {"idle", "queued", "begin", "probing", "request", "locking", "cooldown", "sleeping", "posting",
          "throttled", "down", "backoff", "ok", "failed"}
Whys == {"none", "deadline", "outage", "rate_limit", "quality"}
States == [at : Steps, attempt : Nat, retried : BOOLEAN, throttled : BOOLEAN, wake : Nat, own : Nat, why : Whys]

Typed ==
  /\ now \in Nat /\ until \in Nat /\ serialize \in BOOLEAN
  /\ thread \in [Threads -> States]
  /\ lock \subseteq Threads
  /\ offline \in [Providers -> BOOLEAN]
  /\ fallback \in BOOLEAN /\ label \in Providers /\ running \in Providers \cup {"none"}

Shielded ==
  \A t \in Of("gemini") :
    /\ thread[t].own <= until
    /\ Now(t, "sleeping") => thread[t].own <= thread[t].wake
    /\ Now(t, "posting") => thread[t].own <= now

(* Only the call under way has threads at work.                            *)
Quiet == \A t \in Threads : Busy(t) => t[1] = running

CombinesLast ==
  \A p \in Providers : thread[<<p, Combine>>].at \notin {"idle", "queued"} => \A c \in Chunks : Now(<<p, c>>, "ok")

(* The cooldown and its lock are Gemini's.                                 *)
Routed == \A t \in Threads : thread[t].at \in {"locking", "cooldown", "sleeping", "throttled"} => Gemini(t)

Sending == {"cooldown", "sleeping", "posting"}

(* The lock of the throttled posts: one holder, on its way through send(). *)
LockHeld ==
  /\ \A t \in lock : Gemini(t) /\ thread[t].at \in Sending
  /\ \A s, t \in lock : s = t

(* Who was told a cooldown finds the posts serialized, and sends locked.   *)
Serialized ==
  \A t \in Of("gemini") : thread[t].own # 0 => serialize /\ (thread[t].at \in Sending => t \in lock)

Labelled ==
  /\ fallback <=> label = "cloudflare"
  /\ running # "none" => label = running
  /\ \A a \in analyses : a.label = a.producer

IInv == Typed /\ Shielded /\ Quiet /\ CombinesLast /\ Routed /\ LockHeld /\ Serialized /\ Labelled

-----------------------------------------------------------------------------
(* Threads and the later of two times.                                     *)

LEMMA ThreadTyped ==
  ASSUME NEW t \in Threads
  PROVE  t[1] \in Providers /\ t[2] \in Chunks \cup {Combine} /\ t = <<t[1], t[2]>>
BY DEF Threads

LEMMA ThreadOf ==
  ASSUME NEW p \in Providers
  PROVE  <<p, Combine>> \in Threads /\ \A c \in Chunks : <<p, c>> \in Threads
BY DEF Threads

LEMMA Later ==
  ASSUME NEW m \in Nat, NEW n \in Nat
  PROVE  Max({m, n}) \in {m, n} /\ Max({m, n}) >= m /\ Max({m, n}) >= n
<1>1. \E x \in {m, n} : \A y \in {m, n} : x >= y
  <2>1. CASE m >= n
    BY <2>1
  <2>2. CASE n >= m
    BY <2>2
  <2> QED BY <2>1, <2>2
<1> QED BY <1>1 DEF Max

-----------------------------------------------------------------------------
(* What a step of a thread that stays in the call may do.                  *)

Moves(t, state) ==
  /\ thread' = [thread EXCEPT ![t] = state] /\ state \in States /\ state.at \notin {"idle", "queued"}
  /\ Busy(t) /\ (t[2] = Combine /\ Now(t, "queued") => \A c \in Chunks : Now(<<t[1], c>>, "ok"))
  /\ now' = now /\ until' \in Nat /\ until <= until' /\ serialize' \in BOOLEAN
  /\ Gemini(t) => /\ state.own <= until'
                  /\ state.at = "sleeping" => state.own <= state.wake
                  /\ state.at = "posting" => state.own <= now
                  /\ state.own # 0 => serialize' /\ (state.at \in Sending => t \in lock')
  /\ serialize => serialize'
  /\ state.at \in {"locking", "cooldown", "sleeping", "throttled"} => Gemini(t)
  /\ lock' \in {lock, lock \ {t}} \/ (lock = {} /\ lock' = {t})
  /\ t \in lock' => Gemini(t) /\ state.at \in Sending
  /\ offline' \in [Providers -> BOOLEAN]
  /\ UNCHANGED callVars

LEMMA MoveHolds ==
  ASSUME IInv, NEW t \in Threads, NEW state, Moves(t, state)
  PROVE  IInv'
<1> USE DEF Moves
<1>1. Typed /\ Shielded /\ Quiet /\ CombinesLast /\ Routed /\ LockHeld /\ Serialized /\ Labelled
  BY DEF IInv
<1>2. thread'[t] = state /\ \A s \in Threads \ {t} : thread'[s] = thread[s]
  BY <1>1 DEF Typed
<1>3. Typed'
  BY <1>1 DEF Typed, callVars
<1>4. Shielded'
  <2> SUFFICES ASSUME NEW s \in Of("gemini")
               PROVE  /\ thread'[s].own <= until'
                      /\ Now(s, "sleeping")' => thread'[s].own <= thread'[s].wake
                      /\ Now(s, "posting")' => thread'[s].own <= now'
    BY DEF Shielded, Of
  <2>1. CASE s = t
    BY <1>2, <2>1 DEF Of, Gemini, Now
  <2>2. CASE s # t
    <3>1. s \in Threads /\ thread'[s] = thread[s] /\ thread[s] \in States
      BY <1>1, <1>2, <2>2 DEF Of, Typed
    <3>2. thread[s].own \in Nat
      BY <3>1 DEF States
    <3> QED BY <1>1, <3>1, <3>2 DEF Shielded, Now, Typed
  <2> QED BY <2>1, <2>2
<1>5. Quiet'
  BY <1>1, <1>2 DEF Quiet, Busy, Now, callVars
<1>6. CombinesLast'
  <2> SUFFICES ASSUME NEW p \in Providers, thread'[<<p, Combine>>].at \notin {"idle", "queued"}, NEW c \in Chunks
               PROVE  Now(<<p, c>>, "ok")'
    BY DEF CombinesLast
  <2>1. <<p, Combine>> \in Threads /\ <<p, c>> \in Threads /\ c # Combine
    BY ThreadOf, ResilienceAssumption
  <2>2. Now(<<p, c>>, "ok")
    <3>1. CASE t = <<p, Combine>>
      <4>1. t[1] = p /\ t[2] = Combine
        BY <3>1
      <4>2. CASE Now(t, "queued")
        BY <4>1, <4>2
      <4>3. CASE ~Now(t, "queued")
        <5>1. thread[<<p, Combine>>].at \notin {"idle", "queued"}
          BY <3>1, <4>3 DEF Busy, Now
        <5> QED BY <1>1, <5>1 DEF CombinesLast
      <4> QED BY <4>2, <4>3
    <3>2. CASE t # <<p, Combine>>
      BY <1>1, <1>2, <2>1, <3>2 DEF CombinesLast
    <3> QED BY <3>1, <3>2
  <2>3. t # <<p, c>>
    BY <2>2 DEF Busy, Now
  <2> QED BY <1>2, <2>1, <2>2, <2>3 DEF Now
<1>7. LockHeld'
  <2>1. \A s \in lock' : Gemini(s) /\ thread'[s].at \in Sending
    BY <1>1, <1>2 DEF LockHeld, Typed, Gemini
  <2> QED BY <1>1, <2>1 DEF LockHeld
<1>8. Labelled'
  BY <1>1 DEF Labelled, callVars
<1>9. Routed'
  BY <1>1, <1>2 DEF Routed, Gemini
<1>10. Serialized'
  <2> SUFFICES ASSUME NEW s \in Of("gemini"), thread'[s].own # 0
               PROVE  serialize' /\ (thread'[s].at \in Sending => s \in lock')
    BY DEF Serialized, Of
  <2>1. CASE s = t
    BY <1>2, <2>1 DEF Of, Gemini
  <2>2. CASE s # t
    <3>1. thread'[s] = thread[s]
      BY <1>2, <2>2 DEF Of
    <3> QED BY <1>1, <2>2, <3>1 DEF Serialized
  <2> QED BY <2>1, <2>2
<1> QED BY <1>3, <1>4, <1>5, <1>6, <1>7, <1>8, <1>9, <1>10 DEF IInv

(* What is known of a thread at work.                                      *)
LEMMA StateTyped ==
  ASSUME IInv, NEW t \in Threads
  PROVE  /\ thread[t] \in States
         /\ now \in Nat /\ until \in Nat /\ serialize \in BOOLEAN /\ offline \in [Providers -> BOOLEAN]
         /\ Gemini(t) => /\ thread[t].own <= until
                         /\ Now(t, "sleeping") => thread[t].own <= thread[t].wake
                         /\ Now(t, "posting") => thread[t].own <= now
                         /\ thread[t].own # 0 => serialize /\ (thread[t].at \in Sending => t \in lock)
         /\ t \in lock => Gemini(t) /\ thread[t].at \in Sending
         /\ thread[t].at \in {"locking", "cooldown", "sleeping", "throttled"} => Gemini(t)
         /\ t[1] \in Providers
BY ThreadTyped DEF IInv, Typed, Shielded, Routed, LockHeld, Serialized, Gemini, Of

(* The states a thread may be put in.                                      *)
LEMMA FreshStates ==
  ASSUME NEW step \in Steps, NEW why \in Whys
  PROVE  /\ [Fresh EXCEPT !.at = step] \in States /\ [Fresh EXCEPT !.at = step].at = step
         /\ [Fresh EXCEPT !.at = step].own = 0
         /\ [Fresh EXCEPT !.at = step, !.why = why] \in States /\ [Fresh EXCEPT !.at = step, !.why = why].at = step
         /\ [Fresh EXCEPT !.at = step, !.why = why].own = 0
         /\ Fresh \in States /\ Fresh.at = "idle" /\ Fresh.own = 0
BY DEF Fresh, States, Steps, Whys

LEMMA FailsHolds ==
  ASSUME IInv, NEW t \in Threads, NEW why \in Whys, Fails(t, why), Busy(t), ~Now(t, "queued"),
         now' = now, until' \in Nat, until <= until', serialize' \in BOOLEAN, serialize => serialize',
         offline' \in [Providers -> BOOLEAN], UNCHANGED callVars
  PROVE  IInv'
<1> DEFINE state == [Fresh EXCEPT !.at = "failed", !.why = why]
<1>1. state \in States /\ state.at = "failed" /\ state.own = 0
  BY FreshStates DEF Steps
<1>2. thread' = [thread EXCEPT ![t] = state] /\ lock' = lock \ {t}
  BY DEF Fails, Set, Freed
<1> HIDE DEF state
<1>3. Moves(t, state)
  BY <1>1, <1>2 DEF Moves
<1> QED BY <1>3, MoveHolds

LEMMA RetryHolds ==
  ASSUME IInv, NEW t \in Threads, Retry(t), Busy(t), ~Now(t, "queued"), lock' = Freed(t),
         now' = now, UNCHANGED limitVars, offline' \in [Providers -> BOOLEAN], UNCHANGED callVars
  PROVE  IInv'
<1>1. /\ thread[t] \in States /\ until \in Nat /\ serialize \in BOOLEAN
      /\ Gemini(t) => thread[t].own <= until /\ (thread[t].own # 0 => serialize)
  BY StateTyped
<1> DEFINE again == [Fresh EXCEPT !.at = "begin", !.attempt = thread[t].attempt + 1, !.own = thread[t].own]
           over == [Fresh EXCEPT !.at = "failed", !.why = "quality"]
<1>2. again \in States /\ again.at = "begin" /\ again.own = thread[t].own
  <2>1. thread[t].own \in Nat /\ thread[t].attempt + 1 \in Nat
    BY <1>1 DEF States
  <2> QED BY <2>1 DEF Fresh, States, Steps, Whys
<1>3. over \in States /\ over.at = "failed" /\ over.own = 0
  BY FreshStates DEF Steps, Whys
<1>4. thread' = [thread EXCEPT ![t] = again] \/ thread' = [thread EXCEPT ![t] = over]
  BY DEF Retry, Set
<1> HIDE DEF again, over
<1>5. Moves(t, again) \/ Moves(t, over)
  BY <1>1, <1>2, <1>3, <1>4 DEF Moves, Freed, limitVars, Sending
<1> QED BY <1>5, MoveHolds

(* A thread goes on and keeps what it knows.                               *)
LEMMA GoesHolds ==
  ASSUME IInv, NEW t \in Threads, NEW step \in Steps \ {"idle", "queued", "sleeping", "posting"}, Goes(t, step),
         Busy(t),
         t[2] = Combine /\ Now(t, "queued") => \A c \in Chunks : Now(<<t[1], c>>, "ok"),
         lock' \in {lock, lock \ {t}} \/ (lock = {} /\ lock' = {t}),
         t \in lock' => Gemini(t) /\ step \in Sending,
         step \in Sending /\ thread[t].own # 0 => t \in lock',
         step \in {"locking", "cooldown", "throttled"} => Gemini(t),
         now' = now, UNCHANGED limitVars, offline' \in [Providers -> BOOLEAN], UNCHANGED callVars
  PROVE  IInv'
<1>1. /\ thread[t] \in States /\ until \in Nat /\ serialize \in BOOLEAN
      /\ Gemini(t) => thread[t].own <= until /\ (thread[t].own # 0 => serialize)
  BY StateTyped
<1> DEFINE state == [thread[t] EXCEPT !.at = step]
<1>2. state \in States /\ state.at = step /\ state.own = thread[t].own
  BY <1>1 DEF States
<1>3. thread' = [thread EXCEPT ![t] = state]
  BY DEF Goes, Set
<1> HIDE DEF state
<1>4. Moves(t, state)
  BY <1>1, <1>2, <1>3 DEF Moves, limitVars
<1> QED BY <1>4, MoveHolds

-----------------------------------------------------------------------------
(* The steps of a thread.                                                  *)

LEMMA BeginHolds ==
  ASSUME IInv, NEW t \in Threads, Begin(t)
  PROVE  IInv'
<1>1. Busy(t) /\ t \notin lock
  BY StateTyped DEF Begin, Busy, Now, Sending
<1>2. t[2] = Combine => \A c \in Chunks : Now(<<t[1], c>>, "ok")
  BY DEF Begin
<1> QED BY <1>1, <1>2, GoesHolds, StateTyped DEF Begin, Steps, Sending

LEMMA ProbingHolds ==
  ASSUME IInv, NEW t \in Threads, BeforeRequest(t) \/ ProbeSucceeds(t)
  PROVE  IInv'
<1>1. Busy(t) /\ ~Now(t, "queued") /\ t \notin lock
  BY StateTyped DEF BeforeRequest, ProbeSucceeds, Busy, Now, Sending
<1>2. offline' \in [Providers -> BOOLEAN] /\ lock' = lock /\ now' = now /\ UNCHANGED limitVars /\ UNCHANGED callVars
  BY StateTyped DEF BeforeRequest, ProbeSucceeds
<1>3. Goes(t, "probing") \/ Goes(t, "request")
  BY DEF BeforeRequest, ProbeSucceeds
<1> QED BY <1>1, <1>2, <1>3, GoesHolds DEF Steps, Sending

LEMMA ProbeFailsHolds ==
  ASSUME IInv, NEW t \in Threads, ProbeFails(t)
  PROVE  IInv'
<1>1. UNCHANGED <<now, thread, until, serialize, lock, fallback, label, running, analyses>>
  BY DEF ProbeFails, limitVars, callVars
<1>2. offline' \in [Providers -> BOOLEAN]
  BY StateTyped DEF ProbeFails
<1>3. Typed'
  BY <1>1, <1>2 DEF IInv, Typed
<1> QED BY <1>1, <1>3 DEF IInv, Shielded, Quiet, CombinesLast, Routed, LockHeld, Serialized, Labelled, Now, Busy

LEMMA RequestHolds ==
  ASSUME IInv, NEW t \in Threads, Request(t)
  PROVE  IInv'
<1>1. Busy(t) /\ ~Now(t, "queued") /\ t \notin lock /\ thread[t] \in States
  BY StateTyped DEF Request, Busy, Now, Sending
<1>2. now' = now /\ UNCHANGED limitVars /\ offline' = offline /\ UNCHANGED callVars
  BY DEF Request
<1>3. /\ until' \in Nat /\ until <= until' /\ serialize' \in BOOLEAN /\ (serialize => serialize')
      /\ offline' \in [Providers -> BOOLEAN]
  BY <1>2, StateTyped DEF limitVars
<1>4. CASE Fails(t, "deadline")
  BY <1>1, <1>2, <1>3, <1>4, FailsHolds DEF Whys
<1>5. CASE Gemini(t) /\ Goes(t, "locking") /\ lock' = lock
  BY <1>1, <1>2, <1>3, <1>5, GoesHolds DEF Steps, Sending
<1>6. CASE Gemini(t) /\ ~serialize /\ Goes(t, "cooldown") /\ lock' = lock
  <2>1. thread[t].own = 0
    BY <1>6, StateTyped
  <2> QED BY <1>1, <1>2, <1>3, <1>6, <2>1, GoesHolds DEF Steps, Sending
<1>7. CASE ~Gemini(t) /\ Goes(t, "posting") /\ lock' = lock
  <2> DEFINE state == [thread[t] EXCEPT !.at = "posting"]
  <2>1. state \in States /\ state.at = "posting"
    BY <1>1 DEF States, Steps
  <2>2. thread' = [thread EXCEPT ![t] = state]
    BY <1>7 DEF Goes, Set
  <2> HIDE DEF state
  <2>3. Moves(t, state)
    BY <1>1, <1>2, <1>3, <1>7, <2>1, <2>2 DEF Moves
  <2> QED BY <2>3, MoveHolds
<1> QED BY <1>4, <1>5, <1>6, <1>7 DEF Request

LEMMA TakeLockHolds ==
  ASSUME IInv, NEW t \in Threads, TakeLock(t)
  PROVE  IInv'
<1>1. Busy(t) /\ ~Now(t, "queued") /\ Gemini(t)
  BY StateTyped DEF TakeLock, Busy, Now
<1> QED BY <1>1, GoesHolds, StateTyped DEF TakeLock, Steps, Sending

LEMMA WaitCooldownHolds ==
  ASSUME IInv, NEW t \in Threads, WaitCooldown(t)
  PROVE  IInv'
<1>1. /\ Busy(t) /\ ~Now(t, "queued") /\ Gemini(t) /\ thread[t] \in States /\ thread[t].own <= until
      /\ now \in Nat /\ until \in Nat
  BY StateTyped DEF WaitCooldown, Busy, Now
<1>2. /\ now' = now /\ UNCHANGED limitVars /\ offline' = offline /\ UNCHANGED callVars
      /\ until' \in Nat /\ until <= until' /\ serialize' \in BOOLEAN /\ (serialize => serialize')
      /\ offline' \in [Providers -> BOOLEAN]
  BY StateTyped DEF WaitCooldown, limitVars
<1>3. thread[t].own # 0 => serialize' /\ t \in lock
  BY <1>2, StateTyped DEF WaitCooldown, Now, Sending, limitVars
<1>4. CASE Fails(t, "deadline")
  BY <1>1, <1>2, <1>4, FailsHolds DEF Whys
<1>5. CASE Set(t, [thread[t] EXCEPT !.at = "sleeping", !.wake = Max({now, until})]) /\ lock' = lock
  <2> DEFINE later == Max({now, until})
             state == [thread[t] EXCEPT !.at = "sleeping", !.wake = later]
  <2>1. later \in Nat /\ until <= later
    BY <1>1, Later
  <2>2. state \in States /\ state.at = "sleeping" /\ state.wake = later /\ state.own = thread[t].own
        /\ thread[t].own \in Nat
    <3> HIDE DEF later
    <3> QED BY <1>1, <2>1 DEF States, Steps
  <2>3. thread' = [thread EXCEPT ![t] = state]
    BY <1>5 DEF Set
  <2> HIDE DEF state, later
  <2>4. state.own <= until' /\ state.own <= state.wake
    BY <1>1, <1>2, <2>1, <2>2 DEF limitVars
  <2>5. Moves(t, state)
    BY <1>1, <1>2, <1>3, <1>5, <2>2, <2>3, <2>4 DEF Moves, Sending
  <2> QED BY <2>5, MoveHolds
<1> QED BY <1>4, <1>5 DEF WaitCooldown

LEMMA PostHolds ==
  ASSUME IInv, NEW t \in Threads, Post(t)
  PROVE  IInv'
<1>1. /\ Busy(t) /\ ~Now(t, "queued") /\ Gemini(t) /\ thread[t] \in States /\ thread[t].own <= until
      /\ thread[t].own <= thread[t].wake /\ thread[t].wake <= now /\ now \in Nat /\ until \in Nat
  BY StateTyped DEF Post, Busy, Now
<1>2. /\ now' = now /\ UNCHANGED limitVars /\ offline' = offline /\ UNCHANGED callVars
      /\ until' \in Nat /\ until <= until' /\ serialize' \in BOOLEAN /\ (serialize => serialize')
      /\ offline' \in [Providers -> BOOLEAN]
  BY StateTyped DEF Post, limitVars
<1>3. thread[t].own # 0 => serialize' /\ t \in lock
  BY <1>2, StateTyped DEF Post, Now, Sending, limitVars
<1>4. CASE Fails(t, "deadline")
  BY <1>1, <1>2, <1>4, FailsHolds DEF Whys
<1>5. CASE Set(t, [thread[t] EXCEPT !.at = "posting", !.wake = 0]) /\ lock' = lock
  <2> DEFINE state == [thread[t] EXCEPT !.at = "posting", !.wake = 0]
  <2>1. /\ state \in States /\ state.at = "posting" /\ state.own = thread[t].own
        /\ thread[t].own \in Nat /\ thread[t].wake \in Nat
    BY <1>1 DEF States, Steps
  <2>2. thread' = [thread EXCEPT ![t] = state]
    BY <1>5 DEF Set
  <2> HIDE DEF state
  <2>3. state.own <= until' /\ state.own <= now
    BY <1>1, <1>2, <2>1 DEF limitVars
  <2>4. Moves(t, state)
    BY <1>1, <1>2, <1>3, <1>5, <2>1, <2>2, <2>3 DEF Moves, Sending
  <2> QED BY <2>4, MoveHolds
<1> QED BY <1>4, <1>5 DEF Post

LEMMA RepliesHold ==
  ASSUME IInv, NEW t \in Threads, Accepted(t) \/ Refused(t) \/ Throttled(t) \/ Unavailable(t)
  PROVE  IInv'
<1>1. Busy(t) /\ ~Now(t, "queued") /\ t[1] \in Providers
  BY StateTyped DEF Accepted, Refused, Throttled, Unavailable, Busy, Now
<1>2. now' = now /\ UNCHANGED limitVars /\ UNCHANGED callVars
  BY DEF Accepted, Refused, Throttled, Unavailable
<1>3. until' \in Nat /\ until <= until' /\ serialize' \in BOOLEAN /\ (serialize => serialize') /\ until \in Nat
  BY <1>2, StateTyped DEF limitVars
<1>4. offline' \in [Providers -> BOOLEAN]
  BY <1>1, StateTyped DEF Accepted, Refused, Throttled, Unavailable
<1>5. CASE \E why \in Whys : Fails(t, why)
  BY <1>1, <1>2, <1>3, <1>4, <1>5, FailsHolds
<1>6. CASE Retry(t) /\ lock' = Freed(t)
  BY <1>1, <1>2, <1>4, <1>6, RetryHolds
<1>7. CASE Gemini(t) /\ (Goes(t, "throttled") \/ Goes(t, "down")) /\ lock' = Freed(t)
  <2>1. lock' = lock \ {t}
    BY <1>7 DEF Freed
  <2> QED BY <1>1, <1>2, <1>4, <1>7, <2>1, GoesHolds DEF Steps, Sending
<1>8. CASE Set(t, [Fresh EXCEPT !.at = "ok"]) /\ lock' = Freed(t)
  <2> DEFINE state == [Fresh EXCEPT !.at = "ok"]
  <2>1. state \in States /\ state.at = "ok" /\ state.own = 0
    BY FreshStates DEF Steps, Whys
  <2>2. thread' = [thread EXCEPT ![t] = state] /\ lock' = lock \ {t}
    BY <1>8 DEF Set, Freed
  <2> HIDE DEF state
  <2>3. Moves(t, state)
    BY <1>1, <1>2, <1>3, <1>4, <2>1, <2>2 DEF Moves
  <2> QED BY <2>3, MoveHolds
<1>9. CASE Accepted(t) \/ Refused(t)
  BY <1>6, <1>8, <1>9 DEF Accepted, Refused
<1>10. CASE Throttled(t)
  BY <1>5, <1>7, <1>10 DEF Throttled, Whys
<1>11. CASE Unavailable(t)
  <2>1. \/ Gemini(t) /\ Goes(t, "down") /\ lock' = Freed(t)
        \/ Fails(t, "outage") \/ Fails(t, "deadline")
    BY <1>11 DEF Unavailable, Goes, Fails, Set
  <2> QED BY <1>5, <1>7, <2>1 DEF Whys
<1> QED BY <1>9, <1>10, <1>11

(* A cooldown that is told is shared before it is kept.                    *)
LEMMA ActivateCooldownHolds ==
  ASSUME IInv, NEW t \in Threads, NEW delay \in Delays, ActivateCooldown(t, delay)
  PROVE  IInv'
<1>1. /\ Busy(t) /\ ~Now(t, "queued") /\ Gemini(t) /\ thread[t] \in States /\ t \notin lock
      /\ now \in Nat /\ until \in Nat /\ now + delay \in Nat
  BY StateTyped, ResilienceAssumption DEF ActivateCooldown, Busy, Now, Sending
<1>2. /\ now' = now /\ offline' = offline /\ UNCHANGED callVars /\ offline' \in [Providers -> BOOLEAN]
  BY StateTyped DEF ActivateCooldown
<1>3. CASE Fails(t, "deadline") /\ UNCHANGED limitVars
  <2>1. until' \in Nat /\ until <= until' /\ serialize' \in BOOLEAN /\ (serialize => serialize')
    BY <1>3, StateTyped DEF limitVars
  <2> QED BY <1>1, <1>2, <1>3, <2>1, FailsHolds DEF Whys
<1>4. CASE /\ serialize' = TRUE /\ until' = Extended(delay) /\ lock' = lock
           /\ Set(t, IF thread[t].throttled THEN [Fresh EXCEPT !.at = "failed", !.why = "rate_limit"]
                     ELSE [thread[t] EXCEPT !.at = "request", !.throttled = TRUE, !.own = now + delay])
  <2>1. until' \in Nat /\ until <= until' /\ now + delay <= until'
    BY <1>1, <1>4, Later DEF Extended
  <2> DEFINE over == [Fresh EXCEPT !.at = "failed", !.why = "rate_limit"]
             again == [thread[t] EXCEPT !.at = "request", !.throttled = TRUE, !.own = now + delay]
  <2>2. over \in States /\ over.at = "failed" /\ over.own = 0
    BY FreshStates DEF Steps, Whys
  <2>3. again \in States /\ again.at = "request" /\ again.own = now + delay
    BY <1>1 DEF States, Steps
  <2>4. thread' = [thread EXCEPT ![t] = over] \/ thread' = [thread EXCEPT ![t] = again]
    BY <1>4 DEF Set
  <2> HIDE DEF over, again
  <2>5. Moves(t, over) \/ Moves(t, again)
    BY <1>1, <1>2, <1>4, <2>1, <2>2, <2>3, <2>4 DEF Moves, Sending
  <2> QED BY <2>5, MoveHolds
<1> QED BY <1>3, <1>4 DEF ActivateCooldown

LEMMA OutageHolds ==
  ASSUME IInv, NEW t \in Threads, OutageRetry(t) \/ BackoffEnds(t)
  PROVE  IInv'
<1>1. /\ Busy(t) /\ ~Now(t, "queued") /\ thread[t] \in States /\ t \notin lock
      /\ now \in Nat /\ until \in Nat /\ (Gemini(t) => thread[t].own <= until /\ (thread[t].own # 0 => serialize))
  BY StateTyped DEF OutageRetry, BackoffEnds, Busy, Now, Sending
<1>2. /\ now' = now /\ UNCHANGED limitVars /\ offline' = offline /\ UNCHANGED callVars
      /\ until' \in Nat /\ until <= until' /\ serialize' \in BOOLEAN /\ (serialize => serialize')
      /\ offline' \in [Providers -> BOOLEAN]
  BY StateTyped DEF OutageRetry, BackoffEnds, limitVars
<1>3. CASE Fails(t, "outage") \/ Fails(t, "deadline")
  BY <1>1, <1>2, <1>3, FailsHolds DEF Whys
<1> DEFINE later == [thread[t] EXCEPT !.at = "backoff", !.retried = TRUE, !.throttled = FALSE, !.wake = now + 1]
           again == [thread[t] EXCEPT !.at = "request", !.wake = 0]
<1>4. later \in States /\ later.at = "backoff" /\ later.own = thread[t].own
  <2>1. now + 1 \in Nat
    BY <1>1
  <2> QED BY <1>1, <2>1 DEF States, Steps
<1>5. again \in States /\ again.at = "request" /\ again.own = thread[t].own
  BY <1>1 DEF States, Steps
<1>6. CASE (thread' = [thread EXCEPT ![t] = later] \/ thread' = [thread EXCEPT ![t] = again]) /\ lock' = lock
  <2> HIDE DEF later, again
  <2>1. Moves(t, later) \/ Moves(t, again)
    BY <1>1, <1>2, <1>4, <1>5, <1>6 DEF Moves, limitVars, Sending
  <2> QED BY <2>1, MoveHolds
<1> QED BY <1>3, <1>6 DEF OutageRetry, BackoffEnds, Set

-----------------------------------------------------------------------------
(* The calls.                                                              *)

LEMMA TickHolds ==
  ASSUME IInv, Tick
  PROVE  IInv'
<1>1. /\ now' = now + 1
      /\ UNCHANGED <<thread, until, serialize, lock, offline, fallback, label, running, analyses>>
  BY DEF Tick, limitVars, callVars
<1>2. Typed'
  BY <1>1 DEF IInv, Typed
<1>3. Shielded'
  <2> SUFFICES ASSUME NEW t \in Of("gemini")
               PROVE  /\ thread[t].own <= until
                      /\ Now(t, "sleeping") => thread[t].own <= thread[t].wake
                      /\ Now(t, "posting") => thread[t].own <= now'
    BY <1>1 DEF Shielded, Now, Of
  <2>1. thread[t].own \in Nat /\ now \in Nat
    BY StateTyped DEF Of, States
  <2> QED BY <1>1, <2>1 DEF IInv, Shielded
<1> QED BY <1>1, <1>2, <1>3 DEF IInv, Quiet, CombinesLast, Routed, LockHeld, Serialized, Labelled, Now, Busy

(* A call that starts, or ends with its pool joined: no thread is at work. *)
LEMMA RestartHolds ==
  ASSUME IInv, NEW to \in Providers \cup {"none"}, Restarted(to), running' = to,
         \A t \in Threads : Busy(t) => Now(t, "queued"),
         UNCHANGED <<now, until, serialize, lock, offline>>,
         fallback' \in BOOLEAN, label' \in Providers, Labelled'
  PROVE  IInv'
<1>1. Typed /\ LockHeld
  BY DEF IInv
<1> DEFINE queued == [Fresh EXCEPT !.at = "queued"]
<1>2. queued \in States /\ queued.at = "queued" /\ queued.own = 0 /\ Fresh \in States /\ Fresh.at = "idle"
        /\ Fresh.own = 0
  BY FreshStates DEF Steps, Whys
<1> HIDE DEF queued
<1>3. thread' = [t \in Threads |-> IF t[1] = to THEN queued ELSE Fresh]
  <2>1. \A t \in Threads : ~(Busy(t) /\ ~Now(t, "queued"))
    OBVIOUS
  <2> QED BY <2>1 DEF Restarted, queued
<1>4. \A t \in Threads : thread'[t] = IF t[1] = to THEN queued ELSE Fresh
  BY <1>3
<1>5. lock = {}
  BY <1>1 DEF LockHeld, Typed, Sending, Busy, Now
<1>6. Typed'
  BY <1>1, <1>2, <1>3 DEF Typed
<1>7. Shielded'
  <2> SUFFICES ASSUME NEW t \in Of("gemini")
               PROVE  /\ thread'[t].own <= until'
                      /\ thread'[t].at \notin {"sleeping", "posting"}
    BY DEF Shielded, Now, Of
  <2>1. thread'[t].own = 0 /\ thread'[t].at \in {"queued", "idle"}
    BY <1>2, <1>4 DEF Of
  <2> QED BY <1>1, <2>1 DEF Typed
<1>8. Quiet' /\ Routed'
  BY <1>2, <1>4 DEF Quiet, Routed, Busy, Now
<1>9. CombinesLast'
  BY <1>2, <1>4, ThreadOf DEF CombinesLast
<1>10. LockHeld'
  BY <1>5 DEF LockHeld
<1>11. Serialized'
  BY <1>2, <1>4 DEF Serialized, Of
<1> QED BY <1>6, <1>7, <1>8, <1>9, <1>10, <1>11 DEF IInv

LEMMA StartCallHolds ==
  ASSUME IInv, StartCall
  PROVE  IInv'
<1>1. /\ running = "none" /\ running' = IF fallback THEN "cloudflare" ELSE "gemini"
      /\ Restarted(running')
      /\ UNCHANGED <<now, until, serialize, lock, offline, fallback, label, analyses>>
  BY DEF StartCall, limitVars
<1>2. Typed /\ Quiet /\ Labelled
  BY DEF IInv
<1>3. \A t \in Threads : ~Busy(t)
  BY <1>1, <1>2, ThreadTyped DEF Quiet, Providers
<1>4. Labelled' /\ fallback' \in BOOLEAN /\ label' \in Providers
  BY <1>1, <1>2 DEF Labelled, Typed, Providers
<1>5. running' \in Providers \cup {"none"}
  BY <1>1 DEF Providers
<1> QED BY <1>1, <1>3, <1>4, <1>5, RestartHolds

(* The pool is joined, and with it the combination.                        *)
LEMMA JoinedIdle ==
  ASSUME IInv, running # "none", Joined(running)
  PROVE  \A t \in Threads : Busy(t) => Now(t, "queued")
<1>1. Typed /\ Quiet /\ CombinesLast /\ running \in Providers
  BY DEF IInv, Typed
<1> SUFFICES ASSUME NEW t \in Threads, Busy(t), ~Now(t, "queued")
             PROVE  FALSE
  OBVIOUS
<1>2. t[1] = running /\ t[2] \in Chunks \cup {Combine} /\ t = <<running, t[2]>>
  BY <1>1, ThreadTyped DEF Quiet
<1>3. t = <<running, Combine>>
  BY <1>2 DEF Joined
<1>4. \A c \in Chunks : Now(<<running, c>>, "ok")
  BY <1>1, <1>3 DEF CombinesLast, Busy, Now
<1>5. Failed(running) = {}
  <2> SUFFICES ASSUME NEW s \in Failed(running) PROVE FALSE
    OBVIOUS
  <2>1. s \in Threads /\ s[1] = running /\ Now(s, "failed")
    BY DEF Failed, Of
  <2>2. s[2] \in Chunks \cup {Combine} /\ s = <<running, s[2]>>
    BY <2>1, ThreadTyped
  <2>3. s = t
    BY <1>3, <1>4, <2>1, <2>2 DEF Now
  <2> QED BY <2>1, <2>3 DEF Busy, Now
<1> QED BY <1>3, <1>5 DEF Joined, Busy, Now

LEMMA AnalysedHolds ==
  ASSUME IInv, Analysed
  PROVE  IInv'
<1>1. /\ running # "none" /\ Joined(running) /\ running' = "none" /\ Restarted("none")
      /\ analyses' = analyses \cup {[label |-> label, producer |-> running]}
      /\ UNCHANGED <<now, until, serialize, lock, offline, fallback, label>>
  BY DEF Analysed, limitVars
<1>2. Typed /\ Labelled
  BY DEF IInv
<1>3. Labelled'
  BY <1>1, <1>2 DEF Labelled
<1> QED BY <1>1, <1>2, <1>3, JoinedIdle, RestartHolds DEF Typed

LEMMA CallFailsHolds ==
  ASSUME IInv, NEW t \in Threads, CallFails(t)
  PROVE  IInv'
<1>1. /\ running # "none" /\ Joined(running) /\ Restarted(running')
      /\ \/ fallback' = TRUE /\ label' = "cloudflare" /\ running' = "cloudflare"
         \/ running' = "none" /\ UNCHANGED <<fallback, label>>
      /\ UNCHANGED <<now, until, serialize, lock, offline, analyses>>
  BY DEF CallFails, limitVars
<1>2. Typed /\ Labelled
  BY DEF IInv
<1>3. Labelled' /\ fallback' \in BOOLEAN /\ label' \in Providers /\ running' \in Providers \cup {"none"}
  <2>1. \A a \in analyses' : a.label = a.producer
    BY <1>1, <1>2 DEF Labelled
  <2>2. CASE fallback' = TRUE /\ label' = "cloudflare" /\ running' = "cloudflare"
    BY <2>1, <2>2 DEF Labelled, Providers
  <2>3. CASE running' = "none" /\ UNCHANGED <<fallback, label>>
    BY <1>2, <2>1, <2>3 DEF Labelled, Typed
  <2> QED BY <1>1, <2>2, <2>3
<1> QED BY <1>1, <1>3, JoinedIdle, RestartHolds

-----------------------------------------------------------------------------
(* The invariant, and what follows.                                        *)

LEMMA InitHolds == Init => IInv
<1> SUFFICES ASSUME Init PROVE IInv
  OBVIOUS
<1>1. Fresh \in States /\ Fresh.at = "idle" /\ Fresh.own = 0
  BY FreshStates DEF Steps, Whys
<1>2. Typed
  BY <1>1 DEF Init, Typed, Providers
<1>3. Shielded /\ Quiet /\ Routed
  BY <1>1 DEF Init, Shielded, Quiet, Routed, Now, Busy, Of
<1>4. CombinesLast
  BY <1>1, ThreadOf DEF Init, CombinesLast
<1>5. LockHeld /\ Serialized /\ Labelled
  BY <1>1 DEF Init, LockHeld, Serialized, Labelled, Of
<1> QED BY <1>2, <1>3, <1>4, <1>5 DEF IInv

LEMMA NextHolds ==
  ASSUME IInv, Next
  PROVE  IInv'
<1>1. CASE Tick \/ StartCall \/ Analysed
  BY <1>1, TickHolds, StartCallHolds, AnalysedHolds
<1>2. CASE \E t \in Threads : ProbeFails(t)
  BY <1>2, ProbeFailsHolds
<1>3. CASE \E t \in Threads : Advance(t)
  BY <1>3, BeginHolds, ProbingHolds, RequestHolds, TakeLockHolds, WaitCooldownHolds, PostHolds, RepliesHold,
     ActivateCooldownHolds, OutageHolds, CallFailsHolds DEF Advance
<1> QED BY <1>1, <1>2, <1>3 DEF Next

LEMMA StutteringHolds ==
  ASSUME IInv, UNCHANGED vars
  PROVE  IInv'
BY DEF vars, IInv, Typed, Shielded, Quiet, CombinesLast, Routed, LockHeld, Serialized, Labelled, Now, Busy

(* The inductive invariant of the summarizer calls.                        *)
THEOREM Invariance == FairSpec => []IInv
<1>1. Init => IInv
  BY InitHolds
<1>2. IInv /\ [Next]_vars => IInv'
  BY NextHolds, StutteringHolds
<1> QED BY <1>1, <1>2, PTL DEF FairSpec

(* ai_fallback.py, _activate_fallback and _call: an analysis is committed  *)
(* under the provider that produced it, and the sticky fallback leaves no  *)
(* thread of the primary behind.                                           *)
THEOREM ProvenanceIsTrue == FairSpec => []ProvenanceTrue
<1>1. IInv => ProvenanceTrue
  BY DEF IInv, Labelled, Quiet, ProvenanceTrue, Of, Typed
<1> QED BY <1>1, Invariance, PTL

(* gemini_summarizer.py, _activate_rate_limit_cooldown: whatever cooldowns *)
(* other threads are told, none posts before its own is over.              *)
THEOREM CooldownsAreKept == FairSpec => []OwnCooldownKept
<1>1. IInv => OwnCooldownKept
  <2> SUFFICES ASSUME IInv, NEW t \in Of("gemini"), Now(t, "posting")
               PROVE  now >= thread[t].own
    BY DEF OwnCooldownKept
  <2>1. thread[t].own <= now /\ thread[t].own \in Nat /\ now \in Nat
    BY StateTyped DEF IInv, Shielded, Of, States
  <2> QED BY <2>1
<1> QED BY <1>1, Invariance, PTL

(* gemini_summarizer.py, _post_generate_content: a thread that was told to *)
(* stay away holds the one lock from its cooldown to the reply to its post,*)
(* whatever comes between, and no way out of send() keeps the lock.        *)
THEOREM ThrottledThreadsSendAlone == FairSpec => []ThrottledSendAlone
<1>1. IInv => ThrottledSendAlone
  BY DEF IInv, LockHeld, Serialized, ThrottledSendAlone, Sending, Now, Of
<1> QED BY <1>1, Invariance, PTL
=============================================================================
