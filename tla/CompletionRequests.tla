------------------------- MODULE CompletionRequests -------------------------
(***************************************************************************)
(* The threads that send completion requests through the provider gate:    *)
(* OpenRouterSummarizer._completion_once inside the retry loop of          *)
(* _json_completion, with the subclasses that override the transport       *)
(* (Gemini with fallback typing, Cloudflare Workers AI).  A thread takes a *)
(* permit of its disclosure's semaphore, then a slot of the gate, sends,   *)
(* and gives both back; who gives the slot back depends on the exception   *)
(* that ends the request.                                                  *)
(***************************************************************************)
EXTENDS ProviderGate, FiniteSets

CONSTANTS Requests,         \* logical completions, one thread each
          Bulk,             \* those that are chunks of a multi-chunk document
          Disclosures,      \* announcement ids
          DisclosureOf,     \* Requests -> Disclosures
          DisclosureLimit,  \* permits of one disclosure's semaphore
          Attempts,         \* attempts of the retry loop (4 in the code)
          Providers        \* providers the process may be configured with

ASSUME RequestAssumption ==
  /\ IsFiniteSet(Requests)
  /\ Bulk \subseteq Requests
  /\ DisclosureOf \in [Requests -> Disclosures]
  /\ DisclosureLimit \in Nat \ {0}
  /\ Attempts \in Nat \ {0}
  /\ Providers \subseteq {"openrouter", "gemini", "cloudflare"}

VARIABLES provider,  \* the AI provider of this process; it never changes
          pc,        \* where each thread is
          outcome,   \* how its last request ended
          attempt,   \* attempts started
          permits,   \* free permits of each disclosure's semaphore
          stranded   \* history: slots whose request ended without giving them back

reqVars == <<provider, pc, outcome, attempt, permits, stranded>>
vars == <<gateVars, reqVars>>

-----------------------------------------------------------------------------
(* What a request can end in, by who releases the slot.                    *)

Succeeded  == {"valid", "invalid_content"}       \* record_success, then validation
Httpx      == {"http_429", "http_5xx", "http_4xx", "transport"}
Typed      == {"typed_429", "typed_outage", "typed_deadline"}
Unreleased == {"malformed_body"}   \* response.json() raises JSONDecodeError
Outcomes   == Succeeded \cup Httpx \cup {"summary_error"} \cup Typed \cup Unreleased

(* The outcomes each transport can produce: Gemini types the network and   *)
(* 5xx failures, Cloudflare types every HTTP failure and turns a body that *)
(* is not JSON into a SummaryError.                                        *)
OutcomesOf(name) ==
  CASE name = "openrouter" -> Outcomes \ Typed
    [] name = "gemini"     -> Outcomes \ Httpx
    [] name = "cloudflare" -> Outcomes \ (Httpx \cup Unreleased)

FailureKind(o) ==
  CASE o \in {"http_429", "typed_429"} -> "throttle"
    [] o \in {"http_5xx", "transport", "summary_error", "typed_outage"} -> "transient"
    [] OTHER -> "plain"

(* Exceptions that _json_completion catches: SummaryError (every httpx     *)
(* error is wrapped into one) and JSONDecodeError.  Typed errors pass.     *)
Retried(o) == o \in Httpx \cup {"summary_error", "invalid_content", "malformed_body"}

-----------------------------------------------------------------------------
Init ==
  /\ GateInit
  /\ provider \in Providers
  /\ pc = [r \in Requests |-> "start"]
  /\ outcome = [r \in Requests |-> "none"]
  /\ attempt = [r \in Requests |-> 1]
  /\ permits = [d \in Disclosures |-> DisclosureLimit]
  /\ stranded = 0

Goto(r, label) == pc' = [pc EXCEPT ![r] = label]

TakePermit(r) ==
  /\ pc[r] = "start"
  /\ permits[DisclosureOf[r]] > 0
  /\ permits' = [permits EXCEPT ![DisclosureOf[r]] = @ - 1]
  /\ Goto(r, "permitted")
  /\ UNCHANGED <<gateVars, provider, outcome, attempt, stranded>>

AcquireAtOnce(r) ==
  /\ pc[r] = "permitted"
  /\ EnterAtOnce(r \in Bulk)
  /\ Goto(r, "sending")
  /\ UNCHANGED <<provider, outcome, attempt, permits, stranded>>

AcquireWaits(r) ==
  /\ pc[r] = "permitted"
  /\ StartWaiting(r \in Bulk)
  /\ Goto(r, "waiting")
  /\ UNCHANGED <<provider, outcome, attempt, permits, stranded>>

AcquireAfterWait(r) ==
  /\ pc[r] = "waiting"
  /\ EnterAfterWait(r \in Bulk)
  /\ Goto(r, "sending")
  /\ UNCHANGED <<provider, outcome, attempt, permits, stranded>>

(* The request ends: the try around _request_non_streaming.  Typed errors  *)
(* and a malformed body match none of its handlers.                        *)
Respond(r, o) ==
  /\ pc[r] = "sending"
  /\ \/ o \in Succeeded /\ RecordSuccess /\ UNCHANGED stranded
     \/ /\ o \in Httpx \cup {"summary_error"}
        /\ RecordFailure(FailureKind(o))
        /\ UNCHANGED stranded
     \/ o \in Typed /\ UNCHANGED <<gateVars, stranded>>
     \/ o \in Unreleased /\ stranded' = stranded + 1 /\ UNCHANGED gateVars
  /\ outcome' = [outcome EXCEPT ![r] = o]
  /\ Goto(r, "leaving")
  /\ UNCHANGED <<provider, attempt, permits>>

(* Mutant of ReturnPermit: released on success instead of in the finally.  *)
ReturnPermitOnSuccess(r) ==
  permits' = IF outcome[r] \in Succeeded THEN [permits EXCEPT ![DisclosureOf[r]] = @ + 1]
             ELSE permits

ReturnPermit(r) == permits' = [permits EXCEPT ![DisclosureOf[r]] = @ + 1]

CountAttempt(r) == attempt' = [attempt EXCEPT ![r] = @ + 1]

(* The finally clause gives the permit back; then the exception reaches    *)
(* the retry loop, or the subclass's handler if it is a typed one.         *)
Leave(r) ==
  /\ pc[r] = "leaving"
  /\ ReturnPermit(r)
  /\ IF outcome[r] \in Typed
     THEN Goto(r, "typed") /\ UNCHANGED <<outcome, attempt>>
     ELSE /\ outcome' = [outcome EXCEPT ![r] = "none"]
          /\ IF Retried(outcome[r]) /\ attempt[r] < Attempts
             THEN CountAttempt(r) /\ Goto(r, "start")
             ELSE /\ UNCHANGED attempt
                  /\ Goto(r, IF outcome[r] = "valid" THEN "done" ELSE "failed")
  /\ UNCHANGED <<gateVars, provider, stranded>>

(* The subclass's except clause for its typed errors: the slot goes back   *)
(* after the permit, and the error leaves the retry loop.                  *)
ReleaseTyped(r) ==
  /\ pc[r] = "typed"
  /\ RecordFailure(FailureKind(outcome[r]))
  /\ outcome' = [outcome EXCEPT ![r] = "none"]
  /\ Goto(r, "failed")
  /\ UNCHANGED <<provider, attempt, permits, stranded>>

Finished == \A r \in Requests : pc[r] \in {"done", "failed"}

Terminated == Finished /\ UNCHANGED vars

Step(r) ==
  \/ TakePermit(r) \/ AcquireAtOnce(r) \/ AcquireWaits(r) \/ AcquireAfterWait(r)
  \/ \E o \in OutcomesOf(provider) : Respond(r, o)
  \/ Leave(r) \/ ReleaseTyped(r)

Next == (\E r \in Requests : Step(r)) \/ Terminated

Spec == Init /\ [][Next]_vars

(* Threads keep running: requests carry an HTTP timeout, and a waiter      *)
(* re-tests its condition at least every half second.                      *)
FairSpec == Spec /\ WF_vars(Next)

-----------------------------------------------------------------------------
Waiting(class) == {r \in class : pc[r] = "waiting"}

(* Requests that own a slot: in flight, or ended in a typed error that the *)
(* subclass has not handled yet.                                           *)
Holding == {r \in Requests : \/ pc[r] \in {"sending", "typed"}
                             \/ pc[r] = "leaving" /\ outcome[r] \in Typed}

Permitted(d) == {r \in Requests : /\ DisclosureOf[r] = d
                                  /\ pc[r] \in {"permitted", "waiting", "sending", "leaving"}}

TypeOK ==
  /\ provider \in Providers
  /\ currentLimit \in 1..ConfiguredMax
  /\ active \in 0..ConfiguredMax
  /\ healthyStreak \in Nat
  /\ waitingPriority \in Nat
  /\ waitingBulk \in Nat
  /\ pc \in [Requests -> {"start", "permitted", "waiting", "sending", "leaving",
                          "typed", "done", "failed"}]
  /\ outcome \in [Requests -> Outcomes \cup {"none"}]
  /\ attempt \in [Requests -> 1..Attempts]
  /\ permits \in [Disclosures -> 0..DisclosureLimit]
  /\ stranded \in Nat

(* _active is exactly the slots owned by a request plus the stranded ones: *)
(* no request gives back twice (the clamp max(0, _active - 1) never hides  *)
(* a second release) and, but for a malformed body, none forgets to.       *)
SlotAccounting == active = Cardinality(Holding) + stranded

(* The two waiting counters of the gate are the threads blocked in acquire,*)
(* so a bulk chunk yields exactly while a foreground request waits.        *)
WaitersCounted ==
  /\ waitingBulk = Cardinality(Waiting(Bulk))
  /\ waitingPriority = Cardinality(Waiting(Requests \ Bulk))

(* The semaphore of a disclosure: every permit is free or held by one of   *)
(* its requests, through every error path of _completion_once.             *)
PermitAccounting ==
  \A d \in Disclosures : permits[d] + Cardinality(Permitted(d)) = DisclosureLimit

(* A slot regained is never overdue: below the configured maximum the      *)
(* streak of healthy responses has not reached the next step.              *)
RampNotOverdue ==
  Enabled /\ currentLimit < ConfiguredMax => healthyStreak < HealthyPerStep * currentLimit

(* With a provider that types or wraps every failure no slot is ever       *)
(* stranded: the slots counted are those of requests that own one.         *)
NoStrandedSlot == provider = "cloudflare" => active = Cardinality(Holding)

(* Nobody waits for a slot while no request owns one: what the comment in  *)
(* FallbackAwareGeminiSummarizer._completion_once promises ("cannot strand *)
(* every Gemini slot while the outer fallback waits").                     *)
NeverWedged == Waiting(Requests) # {} /\ active >= Limit => Holding # {}

(* A bulk chunk never takes a slot while a foreground request is blocked   *)
(* waiting for one (acquire's docstring).                                  *)
ForegroundFirst ==
  [][\A b \in Bulk : pc[b] # "sending" /\ pc'[b] = "sending" => Waiting(Requests \ Bulk) = {}]_vars

(* Every completion ends, whatever the mix of foreground, bulk, throttling *)
(* and retries, unless a malformed body has stranded a slot; Cloudflare's  *)
(* transport lets none through.                                            *)
EveryRequestEnds == <>(Finished \/ (stranded > 0 /\ provider # "cloudflare"))
=============================================================================
