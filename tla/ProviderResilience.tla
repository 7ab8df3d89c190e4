-------------------------- MODULE ProviderResilience --------------------------
(***************************************************************************)
(* What a summarizer call does when its provider misbehaves, in a daily    *)
(* run: GeminiCloudflareFallbackSummarizer._call over                      *)
(* FallbackAwareGeminiSummarizer and CloudflareWorkersAISummarizer.  A call*)
(* summarizes one document: a pool of workers sends one completion per     *)
(* chunk, then one completion combines them.  The threads of the pool share*)
(* the Gemini cooldown, the serial lock taken after the first 429, the     *)
(* connectivity watchdog of the summarizer and the deadline of the run.    *)
(* The provider gate and the disclosure permits are in CompletionRequests. *)
(***************************************************************************)
EXTENDS Naturals, FiniteSets, FiniteSetsExt

CONSTANTS Chunks,    \* chunks of a document
          Combine,   \* the completion that combines them
          Workers,   \* chunk_workers of the pool
          Attempts,  \* attempts of _json_completion (4 in the code)
          Calls,     \* calls of one run
          Deadline,  \* _run_deadline_at, in units of the deadline floor
          Delays     \* cooldowns Gemini may ask for

ASSUME ResilienceAssumption ==
  /\ IsFiniteSet(Chunks) /\ Combine \notin Chunks
  /\ Workers \in Nat \ {0, 1}   \* a single worker is a loop, not a pool
  /\ Attempts \in Nat \ {0}
  /\ Calls \in Nat /\ Deadline \in Nat /\ Delays \subseteq Nat

VARIABLES now,        \* time.monotonic()
          thread,     \* one record per provider and completion
          until,      \* _gemini_rate_limit_until
          serialize,  \* _gemini_serialize_after_429
          lock,       \* holders of _gemini_rate_limit_serial
          offline,    \* _offline of each provider's watchdog
          fallback,   \* _fallback_active
          label,      \* settings.openrouter_provider, committed with an analysis
          running,    \* provider of the call under way, "none" between calls
          calls,      \* calls made
          analyses    \* history: label and producer of every finished call

vars == <<now, thread, until, serialize, lock, offline, fallback, label, running, calls, analyses>>

Providers == {"gemini", "cloudflare"}
Threads == Providers \X (Chunks \cup {Combine})
Of(p) == {t \in Threads : t[1] = p}
Gemini(t) == t[1] = "gemini"

(* own: the cooldown the thread was last told by Gemini.                   *)
Fresh == [at |-> "idle", attempt |-> 1, retried |-> FALSE, throttled |-> FALSE,
          wake |-> 0, own |-> 0, why |-> "none"]

Expired == Deadline <= now + 1    \* _remaining_run_seconds raises
TooLate == Deadline <= now + 2    \* _request_timeout_seconds raises

(* _wait_for_rate_limit_cooldown and _activate_rate_limit_cooldown refuse  *)
(* to wait for a cooldown that would outlast the run.                      *)
Outlasts(delay) == Expired \/ Deadline <= now + delay + 1

-----------------------------------------------------------------------------
Init ==
  /\ now = 0 /\ until = 0 /\ serialize = FALSE /\ lock = {}
  /\ thread = [t \in Threads |-> Fresh]
  /\ offline = [p \in Providers |-> FALSE]
  /\ fallback = FALSE /\ label = "gemini"
  /\ running = "none" /\ calls = 0 /\ analyses = {}

Now(t, at) == thread[t].at = at
Set(t, record) == thread' = [thread EXCEPT ![t] = record]
Goes(t, step) == Set(t, [thread[t] EXCEPT !.at = step])
Busy(t) == thread[t].at \notin {"idle", "ok", "failed"}

callVars == <<fallback, label, running, calls, analyses>>
limitVars == <<until, serialize>>

Tick ==
  /\ now < Deadline
  /\ now' = now + 1
  /\ UNCHANGED <<thread, limitVars, lock, offline, callVars>>

(* Mutant of Freed: the lock is given back when a reply arrives, but not   *)
(* when the deadline ends the request before it is sent.                   *)
FreedByReply(t) == IF Now(t, "posting") THEN lock \ {t} ELSE lock

(* "with self._gemini_rate_limit_serial": however send() is left.          *)
Freed(t) == lock \ {t}

Fails(t, why) ==
  /\ Set(t, [Fresh EXCEPT !.at = "failed", !.why = why])
  /\ lock' = Freed(t)

(* _json_completion after a SummaryError or undecodable JSON: another      *)
(* attempt, or the failure leaves the thread.                              *)
Retry(t) ==
  Set(t, IF thread[t].attempt < Attempts
         THEN [Fresh EXCEPT !.at = "begin", !.attempt = thread[t].attempt + 1,
                       !.own = thread[t].own]
         ELSE [Fresh EXCEPT !.at = "failed", !.why = "quality"])

-----------------------------------------------------------------------------
(* The pool: a worker takes a queued chunk whatever became of the others   *)
(* (futures are not cancelled); the combination waits for every chunk.     *)
Begin(t) ==
  /\ Now(t, "queued")
  /\ IF t[2] = Combine
     THEN \A c \in Chunks : Now(<<t[1], c>>, "ok")
     ELSE Cardinality({s \in Of(t[1]) : Busy(s) /\ ~Now(s, "queued")}) < Workers
  /\ Goes(t, "begin")
  /\ UNCHANGED <<now, limitVars, lock, offline, callVars>>

(* NetworkWatchdog.before_request: probe when offline, or after a long     *)
(* inactivity, which any pause may have been.                              *)
BeforeRequest(t) ==
  /\ Now(t, "begin")
  /\ \/ Goes(t, "probing")
     \/ ~offline[t[1]] /\ Goes(t, "request")
  /\ UNCHANGED <<now, limitVars, lock, offline, callVars>>

ProbeSucceeds(t) ==
  /\ Now(t, "probing")
  /\ offline' = [offline EXCEPT ![t[1]] = FALSE]
  /\ Goes(t, "request")
  /\ UNCHANGED <<now, limitVars, lock, callVars>>

(* A failed probe pauses for probe_interval and probes again, for as long  *)
(* as it takes: the deadline is not read here.                             *)
ProbeFails(t) ==
  /\ Now(t, "probing")
  /\ offline' = [offline EXCEPT ![t[1]] = TRUE]
  /\ UNCHANGED <<now, thread, limitVars, lock, callVars>>

(* The first lines of _request_non_streaming and _post_generate_content.   *)
(* What was read of serialize holds for this post.                         *)
Request(t) ==
  /\ Now(t, "request")
  /\ IF Gemini(t)
     THEN IF Expired THEN Fails(t, "deadline")
          ELSE /\ Goes(t, IF serialize THEN "locking" ELSE "cooldown")
               /\ UNCHANGED lock
     ELSE IF TooLate THEN Fails(t, "deadline")
          ELSE Goes(t, "posting") /\ UNCHANGED lock
  /\ UNCHANGED <<now, limitVars, offline, callVars>>

TakeLock(t) ==
  /\ Now(t, "locking")
  /\ lock = {}
  /\ lock' = {t}
  /\ Goes(t, "cooldown")
  /\ UNCHANGED <<now, limitVars, offline, callVars>>

(* _wait_for_rate_limit_cooldown: the cooldown as it is now; one that      *)
(* another thread extends while this one sleeps is not seen.               *)
WaitCooldown(t) ==
  /\ Now(t, "cooldown")
  /\ IF (now < until /\ Outlasts(until - now)) \/ Expired THEN Fails(t, "deadline")
     ELSE Set(t, [thread[t] EXCEPT !.at = "sleeping", !.wake = Max({now, until})]) /\ UNCHANGED lock
  /\ UNCHANGED <<now, limitVars, offline, callVars>>

(* Mutant of Post: the lock covers the wait for the cooldown only.         *)
PostUnlocked(t) ==
  /\ Now(t, "sleeping") /\ now >= thread[t].wake
  /\ IF TooLate THEN Fails(t, "deadline")
     ELSE Set(t, [thread[t] EXCEPT !.at = "posting", !.wake = 0]) /\ lock' = Freed(t)
  /\ UNCHANGED <<now, limitVars, offline, callVars>>

Post(t) ==
  /\ Now(t, "sleeping")
  /\ now >= thread[t].wake
  /\ IF TooLate THEN Fails(t, "deadline")
     ELSE Set(t, [thread[t] EXCEPT !.at = "posting", !.wake = 0]) /\ UNCHANGED lock
  /\ UNCHANGED <<now, limitVars, offline, callVars>>

-----------------------------------------------------------------------------
(* What comes back.  The reply releases the serial lock; a 429 is turned   *)
(* into a cooldown only afterwards.  A failure the summarizer does not type*)
(* as an outage marks the watchdog offline when its text looks like one.   *)
Accepted(t) ==
  /\ Now(t, "posting")
  /\ \/ Set(t, [Fresh EXCEPT !.at = "ok"])
     \/ Retry(t)        \* local validation refused the answer
  /\ lock' = Freed(t)
  /\ offline' = [offline EXCEPT ![t[1]] = FALSE]
  /\ UNCHANGED <<now, limitVars, callVars>>

Refused(t) ==
  /\ Now(t, "posting")
  /\ Retry(t)
  /\ lock' = Freed(t)
  /\ offline' \in {offline, [offline EXCEPT ![t[1]] = TRUE]}
  /\ UNCHANGED <<now, limitVars, callVars>>

Throttled(t) ==
  /\ Now(t, "posting")
  /\ IF Gemini(t) THEN Goes(t, "throttled") /\ lock' = Freed(t)
     ELSE Fails(t, "outage")
  /\ UNCHANGED <<now, limitVars, offline, callVars>>

(* Transport error, 408 or 5xx; a timeout first looks at the deadline.     *)
Unavailable(t) ==
  /\ Now(t, "posting")
  /\ \/ /\ lock' = Freed(t)
        /\ Set(t, IF Gemini(t) THEN [thread[t] EXCEPT !.at = "down"]
                  ELSE [Fresh EXCEPT !.at = "failed", !.why = "outage"])
     \/ Expired /\ Fails(t, "deadline")
  /\ UNCHANGED <<now, limitVars, offline, callVars>>

(* Mutant of Extended: the latest 429 sets the cooldown.                   *)
ExtendedLatest(delay) == now + delay

(* The shared cooldown only ever moves away.                               *)
Extended(delay) == Max({until, now + delay})

(* _activate_rate_limit_cooldown, then the one retry of this 429.          *)
ActivateCooldown(t, delay) ==
  /\ Now(t, "throttled")
  /\ IF Outlasts(delay) THEN Fails(t, "deadline") /\ UNCHANGED limitVars
     ELSE /\ serialize' = TRUE
          /\ until' = Extended(delay)
          /\ Set(t, IF thread[t].throttled THEN [Fresh EXCEPT !.at = "failed", !.why = "rate_limit"]
                    ELSE [thread[t] EXCEPT !.at = "request", !.throttled = TRUE, !.own = now + delay])
          /\ UNCHANGED lock
  /\ UNCHANGED <<now, offline, callVars>>

(* The one retry of an outage, which forgets an earlier 429; then it is    *)
(* typed, whatever the time.                                               *)
OutageRetry(t) ==
  /\ Now(t, "down")
  /\ IF thread[t].retried THEN Fails(t, "outage")
     ELSE IF Expired THEN Fails(t, "deadline")
     ELSE /\ Set(t, [thread[t] EXCEPT !.at = "backoff", !.retried = TRUE, !.throttled = FALSE, !.wake = now + 1])
          /\ UNCHANGED lock
  /\ UNCHANGED <<now, limitVars, offline, callVars>>

BackoffEnds(t) ==
  /\ Now(t, "backoff")
  /\ now >= thread[t].wake
  /\ IF Expired THEN Fails(t, "deadline")
     ELSE Set(t, [thread[t] EXCEPT !.at = "request", !.wake = 0]) /\ UNCHANGED lock
  /\ UNCHANGED <<now, limitVars, offline, callVars>>

-----------------------------------------------------------------------------
(* The call.  The pool is a context manager: it joins its threads before   *)
(* the exception of a failed chunk leaves it.                              *)

Failed(p) == {t \in Of(p) : Now(t, "failed")}

(* Mutant of Joined: the first failure leaves the pool at once.            *)
JoinedFirstFailure(p) == Failed(p) # {} \/ Now(<<p, Combine>>, "ok")

Joined(p) ==
  /\ \A c \in Chunks : ~Busy(<<p, c>>)
  /\ Failed(p) # {} \/ Now(<<p, Combine>>, "ok")

(* The threads when a call goes to provider "to" ("none": it ends).        *)
Restarted(to) ==
  thread' = [t \in Threads |->
               IF t[1] = to THEN [Fresh EXCEPT !.at = "queued"]
               ELSE IF Busy(t) /\ ~Now(t, "queued") THEN thread[t] ELSE Fresh]

StartCall ==
  /\ running = "none" /\ calls < Calls
  /\ running' = IF fallback THEN "cloudflare" ELSE "gemini"
  /\ calls' = calls + 1
  /\ Restarted(running')
  /\ UNCHANGED <<now, limitVars, lock, offline, fallback, label, analyses>>

(* The caller commits the analysis under the provider the settings name.   *)
Analysed ==
  /\ running # "none" /\ Joined(running) /\ Failed(running) = {}
  /\ analyses' = analyses \cup {[label |-> label, producer |-> running]}
  /\ running' = "none"
  /\ Restarted("none")
  /\ UNCHANGED <<now, limitVars, lock, offline, fallback, label, calls>>

(* One of the failures leaves the pool.  A typed failure of the primary    *)
(* activates the fallback for good and runs the call again from its first  *)
(* chunk; any other ends the call.                                         *)
CallFails(t) ==
  /\ running # "none" /\ Joined(running) /\ t \in Failed(running)
  /\ IF Gemini(t) /\ thread[t].why \in {"rate_limit", "outage"}
     THEN /\ fallback' = TRUE /\ label' = "cloudflare"
          /\ running' = "cloudflare"
     ELSE /\ running' = "none"
          /\ UNCHANGED <<fallback, label>>
  /\ Restarted(running')
  /\ UNCHANGED <<now, limitVars, lock, offline, calls, analyses>>

Advance(t) ==
  \/ Begin(t) \/ BeforeRequest(t) \/ ProbeSucceeds(t) \/ Request(t) \/ TakeLock(t)
  \/ WaitCooldown(t) \/ Post(t)
  \/ Accepted(t) \/ Refused(t) \/ Throttled(t) \/ Unavailable(t)
  \/ \E delay \in Delays : ActivateCooldown(t, delay)
  \/ OutageRetry(t) \/ BackoffEnds(t)
  \/ CallFails(t)

Next ==
  \/ Tick \/ StartCall \/ Analysed
  \/ \E t \in Threads : Advance(t) \/ ProbeFails(t)

(* Threads are scheduled, the clock runs, a post ends by its timeout, and  *)
(* connectivity returns: a thread that keeps probing succeeds in the end.  *)
FairSpec ==
  /\ Init /\ [][Next]_vars
  /\ WF_vars(Tick) /\ WF_vars(Analysed)
  /\ \A t \in Threads : WF_vars(Advance(t))

-----------------------------------------------------------------------------
(* An analysis is committed under the provider that produced it, and once  *)
(* the fallback is active no thread of the primary is left anywhere: the   *)
(* settings, the sticky flag and the two pools change hands together       *)
(* (ai_fallback.py, _activate_fallback and _call).                         *)
ProvenanceTrue ==
  /\ \A a \in analyses : a.label = a.producer
  /\ fallback => \A t \in Of("gemini") : ~Busy(t)
  /\ running # "none" => label = running

(* A thread that Gemini told to stay away does not post before its own     *)
(* cooldown is over, whatever cooldowns other threads are told meanwhile   *)
(* (gemini_summarizer.py, _activate_rate_limit_cooldown).                  *)
OwnCooldownKept ==
  \A t \in Of("gemini") : Now(t, "posting") => now >= thread[t].own

(* A thread that Gemini told to stay away sends alone from then on, also   *)
(* when an outage, a refused answer or an extended cooldown comes between: *)
(* it holds the one serial lock from its cooldown to the reply to its post,*)
(* and no way out of send() keeps the lock                                 *)
(* (gemini_summarizer.py, _post_generate_content).                         *)
ThrottledSendAlone ==
  /\ \A t \in lock : thread[t].at \in {"cooldown", "sleeping", "posting"}
  /\ \A t \in Of("gemini") : Now(t, "posting") /\ thread[t].own # 0 => lock = {t}

(* Every call ends, in an analysis or a failure: no thread keeps the serial*)
(* lock, sleeps for ever or retries without end                            *)
(* (gemini_summarizer.py, _post_generate_content).                         *)
CallsEnd == running # "none" ~> running = "none"

=============================================================================
