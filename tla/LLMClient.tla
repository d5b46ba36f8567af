----------------------------- MODULE LLMClient ------------------------------
(***************************************************************************)
(* call_llm (llm/client.py): one request for text, served by the first     *)
(* provider that answers.  Providers are tried in the order of their role; *)
(* each gets a bounded number of attempts, with a wait between them; one   *)
(* deadline covers the whole call.                                         *)
(*                                                                         *)
(* Time is counted in ticks and passes only inside a request and a wait.   *)
(* A request may outlast the deadline: httpx applies its timeout to each   *)
(* phase of the exchange, not to their sum.                                *)
(***************************************************************************)
EXTENDS Naturals, Sequences, Lists

CONSTANTS MaxConfigured,    \* longest configuration considered here
          ModelCap,         \* how many entries call_llm looks at
          RetryLimits,      \* the values of max_retries
          Timeouts,         \* the values of timeout_seconds
          Latencies,        \* how long a request may take
          RetryAfters,      \* the delays a busy provider may ask for
          InitialBudget, BudgetCap   \* output tokens: first request, upper limit

ASSUME LLMClientAssumption ==
  /\ MaxConfigured \in Nat /\ ModelCap \in Nat
  /\ RetryLimits \subseteq Nat /\ Timeouts \subseteq Nat \ {0}
  /\ Latencies \subseteq Nat /\ RetryAfters \subseteq Nat
  /\ InitialBudget \in Nat \ {0} /\ BudgetCap \in Nat /\ InitialBudget <= BudgetCap

(* An entry serves the role that calls, any role, or another role; one     *)
(* kind cannot be used.                                                    *)
Entry == [serves : {"role", "all", "other"}, usable : {TRUE}]
           \cup [serves : {"role"}, usable : {FALSE}]

VARIABLES configured, maxRetries, timeout,  \* the arguments of the call
          now,          \* ticks since the call
          position,     \* the provider of the ordered list being tried
          attempt,      \* attempts that failed with this provider
          budget,       \* body["max_tokens"] of its next request
          phase,        \* "ready" to send, "sent", "done"
          requests,     \* history: the requests sent
          answer,       \* the returned text: "" or "text"
          usages        \* records passed to on_usage

arguments == <<configured, maxRetries, timeout>>
callVars == <<arguments, now, position, attempt, budget, phase, requests, answer, usages>>

-----------------------------------------------------------------------------
(* _normalize_model_configs looks at the first entries only, and drops     *)
(* those that fail validation; the loop passes over those whose base URL   *)
(* was made of slashes, which is the same as dropping them here.  The      *)
(* entries kept, by their position.                                        *)
Normalized == {k \in DOMAIN configured : k <= ModelCap /\ configured[k].usable}

(* The stable sort by role preference.                                     *)
Serving(kind) == AtPositions(configured, {k \in Normalized : configured[k].serves = kind})
Providers == Serving("role") \o Serving("all") \o Serving("other")

Doubled(tokens) == IF 2 * tokens < BudgetCap THEN 2 * tokens ELSE BudgetCap

CallInit ==
  /\ configured \in UNION {[1 .. n -> Entry] : n \in 0 .. MaxConfigured}
  /\ maxRetries \in RetryLimits /\ timeout \in Timeouts
  /\ now = 0 /\ position = 1 /\ attempt = 0
  /\ budget = InitialBudget
  /\ phase = "ready"
  /\ requests = <<>>
  /\ answer = "" /\ usages = 0

Return(text) ==
  /\ phase' = "done"
  /\ answer' = text
  /\ UNCHANGED <<arguments, position, attempt, budget>>

(* Every configured provider failed, or there was none.                    *)
Exhausted ==
  /\ phase = "ready" /\ position > Len(Providers)
  /\ Return("")
  /\ UNCHANGED <<now, requests, usages>>

DeadlineStartsOver ==
  /\ phase = "ready" /\ position <= Len(Providers) /\ now >= timeout
  /\ position' = 1 /\ attempt' = 0
  /\ UNCHANGED <<arguments, now, budget, phase, requests, answer, usages>>

DeadlinePassed ==
  /\ phase = "ready" /\ position <= Len(Providers) /\ now >= timeout
  /\ Return("")
  /\ UNCHANGED <<now, requests, usages>>

Send ==
  /\ phase = "ready" /\ position <= Len(Providers) /\ now < timeout
  /\ phase' = "sent"
  /\ requests' = Append(requests, [to |-> position, at |-> now, tokens |-> budget,
                                   outcome |-> "pending"])
  /\ UNCHANGED <<arguments, now, position, attempt, budget, answer, usages>>

(* The exchange in flight ends with this outcome, after some time.         *)
Ends(outcome) ==
  /\ phase = "sent"
  /\ requests' = [requests EXCEPT ![Len(requests)].outcome = outcome]

FallBack ==
  /\ position' = position + 1
  /\ attempt' = 0
  /\ budget' = InitialBudget
  /\ phase' = "ready"
  /\ UNCHANGED <<arguments, answer>>

(* _sleep_before_deadline: a wait that would reach the deadline ends the   *)
(* call at once; a wait may last longer than asked.                        *)
WaitToRetry(end, delay, tokens) ==
  IF end + delay >= timeout
    THEN now' = end /\ Return("")
    ELSE /\ \E late \in Latencies : now' = end + delay + late
         /\ attempt' = attempt + 1 /\ budget' = tokens
         /\ phase' = "ready"
         /\ UNCHANGED <<arguments, position, answer>>

(* The provider may be tried again unless its attempts are used up.        *)
RetryOrFallBack(end, delay, tokens) ==
  IF attempt < maxRetries
    THEN WaitToRetry(end, delay, tokens)
    ELSE now' = end /\ FallBack

Answered ==
  /\ Ends("text")
  /\ \E d \in Latencies : now' = now + d
  /\ usages' = usages + 1
  /\ Return("text")

(* A connection error or a timeout of one phase of the exchange.           *)
TransportError ==
  /\ Ends("transport")
  /\ \E d \in Latencies : RetryOrFallBack(now + d, 2 ^ attempt, budget)
  /\ UNCHANGED usages

EmptyKeepsBudget ==
  /\ Ends("empty")
  /\ \E d \in Latencies : RetryOrFallBack(now + d, 2 ^ attempt, budget)
  /\ UNCHANGED usages

(* A success without text: the output budget was too small.                *)
EmptyCompletion ==
  /\ Ends("empty")
  /\ \E d \in Latencies : RetryOrFallBack(now + d, 2 ^ attempt, Doubled(budget))
  /\ UNCHANGED usages

(* A status worth a retry, which may come with the delay to respect.       *)
Busy ==
  /\ Ends("busy")
  /\ \E d \in Latencies, delay \in RetryAfters \cup {2 ^ attempt} :
       RetryOrFallBack(now + d, delay, budget)
  /\ UNCHANGED usages

RefusedEndsCall ==
  /\ Ends("refused")
  /\ \E d \in Latencies : now' = now + d
  /\ Return("")
  /\ UNCHANGED usages

(* A client error, a malformed response or any other status.               *)
Refused ==
  /\ Ends("refused")
  /\ \E d \in Latencies : now' = now + d
  /\ FallBack
  /\ UNCHANGED usages

CallNext ==
  \/ Exhausted \/ DeadlinePassed \/ Send
  \/ Answered \/ TransportError \/ EmptyCompletion \/ Busy \/ Refused

CallSpec == CallInit /\ [][CallNext]_callVars

-----------------------------------------------------------------------------
Outcomes  == {"pending", "text", "transport", "empty", "busy", "refused"}
Retryable == {"transport", "empty", "busy"}
Request   == [to : Nat, at : Nat, tokens : Nat, outcome : Outcomes]

(* The variables of call_llm have their shapes: attempts and the token     *)
(* budget stay within their limits, and one usage at most is recorded.     *)
CallTypeOK ==
  /\ configured \in Seq(Entry) /\ maxRetries \in Nat /\ timeout \in Nat
  /\ now \in Nat
  /\ position \in 1 .. Len(Providers) + 1
  /\ attempt \in 0 .. maxRetries
  /\ budget \in InitialBudget .. BudgetCap
  /\ phase \in {"ready", "sent", "done"}
  /\ requests \in Seq(Request)
  /\ answer \in {"", "text"}
  /\ usages \in 0 .. 1

LastRequest == requests[Len(requests)]

(* No request leaves at or after the deadline (client.py:150-153), and the *)
(* call outlasts it by less than one exchange or one late wake-up, however *)
(* many providers and retries it went through.                             *)
DeadlineIsRespected ==
  /\ \A i \in DOMAIN requests : requests[i].at < timeout
  /\ now < timeout \/ \E l \in Latencies : now < timeout + l

RetriesFollowTheRules ==
  \A i \in 1 .. Len(requests) - 1 :
    LET r == requests[i]  s == requests[i + 1] IN
      \/ /\ s.to = r.to /\ r.outcome \in Retryable
         /\ s.tokens = IF r.outcome = "empty" THEN Doubled(r.tokens) ELSE r.tokens
      \/ s.to = r.to + 1 /\ s.tokens = InitialBudget

AttemptsAreBounded ==
  \A i \in DOMAIN requests :
    i + maxRetries + 1 \in DOMAIN requests =>
      requests[i + maxRetries + 1].to # requests[i].to

(* From one request to the next: the same provider again, at most          *)
(* max_retries times, only after a retryable failure, with twice the       *)
(* tokens after an empty completion and the same tokens otherwise; or the  *)
(* following provider, from scratch (client.py:125-202).                   *)
RetryDiscipline == RetriesFollowTheRules /\ AttemptsAreBounded

Preference(c) == IF c.serves = "role" THEN 0 ELSE IF c.serves = "all" THEN 1 ELSE 2

(* A provider that serves the calling role is asked before one that serves *)
(* any role, and both before the others; equals in the configured order;   *)
(* an entry that is invalid or beyond the cap never is (client.py:117-133).*)
PreferenceIsRespected ==
  LET asked == [i \in DOMAIN requests |-> Providers[requests[i].to]] IN
    /\ \A i, j \in DOMAIN requests : i < j => Preference(asked[i]) <= Preference(asked[j])
    /\ \A i \in DOMAIN requests :
         asked[i].usable /\ \E k \in DOMAIN configured : k <= ModelCap /\ configured[k] = asked[i]

GivesUpOnlyForCause ==
  phase = "done" /\ answer = "" =>
    \/ now >= timeout
    \/ Providers = <<>>
    \/ requests # <<>> /\ LastRequest.to = Len(Providers)
    \/ /\ requests # <<>> /\ LastRequest.outcome \in Retryable
       /\ \E delay \in RetryAfters \cup {2 ^ attempt} : now + delay >= timeout

UsageMatchesAnswer ==
  /\ usages = (IF answer = "text" THEN 1 ELSE 0)
  /\ answer = "text" => LastRequest.outcome = "text"

(* A call that ends without a text had every provider fail, its time over, *)
(* or no time left for the wait before a retry: a provider that refuses    *)
(* never costs the providers after it their turn (client.py:151-204).  One *)
(* that ends with a text recorded the usage of that text and no other      *)
(* (174-178).                                                              *)
OutcomeIsJustified == GivesUpOnlyForCause /\ UsageMatchesAnswer

(* call_llm() over all its providers and attempts: no request or sleep     *)
(* after the deadline, only the answers meant to be retried are, at most   *)
(* as often as configured, with a bounded token budget, and the wanted     *)
(* role is preferred.                                                      *)
RequestsFollowTheRules ==
  CallTypeOK /\ DeadlineIsRespected /\ RetryDiscipline /\ PreferenceIsRespected

=============================================================================
