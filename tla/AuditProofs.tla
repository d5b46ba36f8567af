---------------------------- MODULE AuditProofs -----------------------------
(***************************************************************************)
(* Proofs about call_llm, for configurations of any length, any limits on  *)
(* attempts, time and tokens, and whatever the providers do; about the     *)
(* audit that asks the models, for any answers of the debate and any       *)
(* outcome of its stages; about the scan of a project and the tools a      *)
(* trajectory runs on it, for any project and whatever the programs print; *)
(* and about what is selected of a repository and of its graph for a       *)
(* model to see, for any code, question, limit and budget.                 *)
(***************************************************************************)
EXTENDS LLMClient, AuditPipeline, Diagnostics, Retrieval, SequenceTheorems, FiniteSetTheorems

(* The deadline had not passed when the request in flight was sent.        *)
SentInTime == phase = "sent" => now < timeout

(* What the state remembers of the last request: it is in flight, or it    *)
(* may be retried as it is, or its provider was left.                      *)
LastIsRemembered ==
  /\ requests = <<>> => position = 1 /\ budget = InitialBudget /\ phase # "sent"
  /\ phase = "sent" =>
       /\ LastRequest.to = position /\ LastRequest.tokens = budget
       /\ position <= Len(Providers)
  /\ phase = "ready" /\ requests # <<>> =>
       \/ /\ position = LastRequest.to /\ LastRequest.outcome \in Retryable
          /\ budget = IF LastRequest.outcome = "empty" THEN Doubled(LastRequest.tokens)
                      ELSE LastRequest.tokens
       \/ position = LastRequest.to + 1 /\ budget = InitialBudget

(* The requests to the current provider are the last ones, and attempt     *)
(* counts those that have ended.                                           *)
ToCurrent == IF phase = "sent" THEN attempt + 1 ELSE attempt

AttemptCounts ==
  phase # "done" =>
    /\ ToCurrent <= Len(requests)
    /\ \A i \in 1 .. Len(requests) :
         requests[i].to = position <=> i > Len(requests) - ToCurrent

ProvidersInOrder ==
  /\ \A i \in 1 .. Len(requests) :
       requests[i].to \in 1 .. Len(Providers) /\ requests[i].to <= position
  /\ \A i, j \in 1 .. Len(requests) : i <= j => requests[i].to <= requests[j].to

NothingReturnedYet == phase # "done" => answer = "" /\ usages = 0

IInv ==
  /\ CallTypeOK /\ DeadlineIsRespected /\ RetryDiscipline /\ OutcomeIsJustified
  /\ SentInTime /\ LastIsRemembered /\ AttemptCounts /\ ProvidersInOrder /\ NothingReturnedYet

-----------------------------------------------------------------------------
(* The list of providers (client.py:117-133).                              *)
LEMMA ServingServes ==
  ASSUME configured \in Seq(Entry), NEW kind
  PROVE  /\ Serving(kind) \in Seq(Entry)
         /\ \A i \in 1 .. Len(Serving(kind)) :
              /\ Serving(kind)[i].serves = kind
              /\ \E n \in Normalized : Serving(kind)[i] = configured[n]
<1> DEFINE P == {k \in Normalized : configured[k].serves = kind}
<1>1. P \in SUBSET DOMAIN configured /\ \A k \in P : k \in Normalized /\ configured[k].serves = kind
  BY DEF Normalized
<1>2. Serving(kind) = AtPositions(configured, P)
  BY DEF Serving
<1> HIDE DEF P
<1>3. /\ AtPositions(configured, P) \in Seq(Entry)
      /\ Len(AtPositions(configured, P)) = Cardinality(P)
      /\ \A i \in 1 .. Cardinality(P) :
           Nth(P, i) \in P /\ AtPositions(configured, P)[i] = configured[Nth(P, i)]
  BY <1>1, AtPositionsIsSubsequence, Zenon
<1> QED BY <1>1, <1>2, <1>3

(* What is called is usable, near the head of the list, and ranked.        *)
LEMMA ProvidersAreRanked ==
  ASSUME configured \in Seq(Entry)
  PROVE  /\ Providers \in Seq(Entry)
         /\ \A i \in 1 .. Len(Providers) :
              /\ Providers[i].usable
              /\ \E k \in DOMAIN configured : k <= ModelCap /\ configured[k] = Providers[i]
         /\ \A i, j \in 1 .. Len(Providers) :
              i <= j => Preference(Providers[i]) <= Preference(Providers[j])
<1> DEFINE R == Serving("role")  A == Serving("all")  O == Serving("other")
<1>1. R \in Seq(Entry) /\ A \in Seq(Entry) /\ O \in Seq(Entry)
  BY ServingServes
<1>2. /\ \A i \in 1 .. Len(R) : R[i].serves = "role" /\ \E n \in Normalized : R[i] = configured[n]
      /\ \A i \in 1 .. Len(A) : A[i].serves = "all" /\ \E n \in Normalized : A[i] = configured[n]
      /\ \A i \in 1 .. Len(O) : O[i].serves = "other" /\ \E n \in Normalized : O[i] = configured[n]
  BY ServingServes
<1>0. /\ \A i \in 1 .. Len(R) : Preference(R[i]) = 0
      /\ \A i \in 1 .. Len(A) : Preference(A[i]) = 1
      /\ \A i \in 1 .. Len(O) : Preference(O[i]) = 2
  BY <1>2 DEF Preference
<1> HIDE DEF R, A, O
<1>3. Providers = R \o A \o O
  BY DEF Providers, R, A, O
<1>4. Providers \in Seq(Entry) /\ Len(Providers) = Len(R) + Len(A) + Len(O)
  BY <1>1, <1>3
<1>5. \A i \in 1 .. Len(Providers) :
        Providers[i] = IF i <= Len(R) THEN R[i]
                       ELSE IF i <= Len(R) + Len(A) THEN A[i - Len(R)]
                       ELSE O[i - Len(R) - Len(A)]
  BY <1>1, <1>3, <1>4
<1>6. \A i \in 1 .. Len(Providers) :
        /\ \E n \in Normalized : Providers[i] = configured[n]
        /\ Preference(Providers[i]) = IF i <= Len(R) THEN 0
                                      ELSE IF i <= Len(R) + Len(A) THEN 1 ELSE 2
  <2> SUFFICES ASSUME NEW i \in 1 .. Len(Providers)
               PROVE  /\ \E n \in Normalized : Providers[i] = configured[n]
                      /\ Preference(Providers[i]) = IF i <= Len(R) THEN 0
                                                    ELSE IF i <= Len(R) + Len(A) THEN 1 ELSE 2
    OBVIOUS
  <2>1. CASE i <= Len(R)
    BY <1>0, <1>1, <1>2, <1>5, <2>1
  <2>2. CASE ~ (i <= Len(R)) /\ i <= Len(R) + Len(A)
    <3>1. i - Len(R) \in 1 .. Len(A) /\ Providers[i] = A[i - Len(R)]
      BY <1>1, <1>5, <2>2
    <3> QED BY <1>0, <1>1, <1>2, <2>2, <3>1
  <2>3. CASE ~ (i <= Len(R) + Len(A))
    <3>2. i \in Nat /\ i <= Len(R) + Len(A) + Len(O) /\ Len(R) \in Nat /\ Len(A) \in Nat /\ Len(O) \in Nat
      BY <1>1, <1>4
    <3>3. i - Len(R) - Len(A) \in 1 .. Len(O) /\ ~ (i <= Len(R))
      BY <2>3, <3>2
    <3>1. i - Len(R) - Len(A) \in 1 .. Len(O) /\ Providers[i] = O[i - Len(R) - Len(A)] /\ ~ (i <= Len(R))
      BY <1>5, <2>3, <3>3
    <3> QED BY <1>0, <1>1, <1>2, <2>3, <3>1
  <2> QED BY <2>1, <2>2, <2>3
<1>7. \A i, j \in 1 .. Len(Providers) :
        i <= j => Preference(Providers[i]) <= Preference(Providers[j])
  BY <1>1, <1>4, <1>6
<1>8. \A n \in Normalized : configured[n].usable /\ n \in DOMAIN configured /\ n <= ModelCap
  BY DEF Normalized
<1> QED BY <1>4, <1>6, <1>7, <1>8

-----------------------------------------------------------------------------
(* What the steps do to the requests.                                      *)
LEMMA PowersAreNatural ==
  ASSUME NEW n \in Nat
  PROVE  2 ^ n \in Nat
<1>1. IsFiniteSet(1 .. n) /\ Cardinality(1 .. n) = n
  BY FS_Interval
<1>2. IsFiniteSet(SUBSET (1 .. n)) /\ Cardinality(SUBSET (1 .. n)) = 2 ^ n
  BY <1>1, FS_SUBSET
<1> QED BY <1>2, FS_CardinalityType

(* The doubled budget does not pass its cap.                               *)
LEMMA DoubledIsBounded ==
  ASSUME NEW tokens \in InitialBudget .. BudgetCap
  PROVE  Doubled(tokens) \in InitialBudget .. BudgetCap
BY LLMClientAssumption DEF Doubled

(* The order of providers depends on the configuration only.               *)
LEMMA ProvidersStay ==
  configured' = configured => Providers' = Providers
BY DEF Providers, Serving, Normalized

(* The types of what the call counts with.                                 *)
LEMMA NumbersOfCall ==
  ASSUME CallTypeOK
  PROVE  /\ Providers \in Seq(Entry) /\ Len(Providers) \in Nat
         /\ position \in Nat \ {0} /\ position <= Len(Providers) + 1
         /\ now \in Nat /\ timeout \in Nat /\ maxRetries \in Nat
         /\ attempt \in Nat /\ attempt <= maxRetries /\ budget \in Nat
         /\ requests \in Seq(Request) /\ Len(requests) \in Nat
         /\ Latencies \subseteq Nat
         /\ \A delay \in RetryAfters \cup {2 ^ attempt} : delay \in Nat
<1>1. /\ configured \in Seq(Entry) /\ maxRetries \in Nat /\ timeout \in Nat /\ now \in Nat
      /\ position \in 1 .. Len(Providers) + 1
      /\ attempt \in 0 .. maxRetries
      /\ budget \in InitialBudget .. BudgetCap
      /\ requests \in Seq(Request)
  BY Zenon DEF CallTypeOK
<1>2. Providers \in Seq(Entry)
  BY <1>1, ProvidersAreRanked, Zenon
<1>3. Len(Providers) \in Nat /\ Len(requests) \in Nat
  BY <1>1, <1>2
<1>4. position \in Nat \ {0} /\ position <= Len(Providers) + 1
  BY <1>1, <1>3
<1>5. attempt \in Nat /\ attempt <= maxRetries
  BY <1>1
<1>6. budget \in Nat /\ Latencies \subseteq Nat
  BY <1>1, LLMClientAssumption
<1>7. \A delay \in RetryAfters \cup {2 ^ attempt} : delay \in Nat
  BY <1>5, PowersAreNatural, LLMClientAssumption
<1> QED BY <1>1, <1>2, <1>3, <1>4, <1>5, <1>6, <1>7, Zenon

(* Sending adds one request and leaves the others.                         *)
LEMMA SendAppends ==
  ASSUME CallTypeOK, Send
  PROVE  /\ requests' \in Seq(Request) /\ Len(requests') = Len(requests) + 1
         /\ \A i \in 1 .. Len(requests) : requests'[i] = requests[i]
         /\ LastRequest' = [to |-> position, at |-> now, tokens |-> budget, outcome |-> "pending"]
         /\ requests'[Len(requests) + 1] = LastRequest'
<1> DEFINE r == [to |-> position, at |-> now, tokens |-> budget, outcome |-> "pending"]
<1>0. /\ requests \in Seq(Request) /\ requests' = Append(requests, r)
      /\ position \in Nat /\ now \in Nat /\ budget \in Nat
  BY NumbersOfCall DEF Send
<1>1. requests \in Seq(Request) /\ r \in Request /\ requests' = Append(requests, r)
  BY <1>0 DEF Request, Outcomes
<1> HIDE DEF r
<1>2. /\ requests' \in Seq(Request) /\ Len(requests') = Len(requests) + 1
      /\ \A i \in 1 .. Len(requests) : requests'[i] = requests[i]
      /\ requests'[Len(requests) + 1] = r
  BY <1>1
<1> QED BY <1>2 DEF LastRequest, r

(* An answer touches the last request, and there its outcome only.         *)
LEMMA EndsMarks ==
  ASSUME CallTypeOK, requests # <<>>, NEW outcome \in Outcomes, Ends(outcome)
  PROVE  /\ requests' \in Seq(Request) /\ Len(requests') = Len(requests)
         /\ \A i \in 1 .. Len(requests) :
              /\ requests'[i].to = requests[i].to
              /\ requests'[i].at = requests[i].at
              /\ requests'[i].tokens = requests[i].tokens
              /\ i < Len(requests) => requests'[i] = requests[i]
         /\ LastRequest' = [LastRequest EXCEPT !.outcome = outcome]
         /\ Len(requests) \in 1 .. Len(requests) /\ requests' # <<>>
<1>0. requests \in Seq(Request)
  BY DEF CallTypeOK
<1>1. requests \in Seq(Request) /\ Len(requests) \in 1 .. Len(requests)
  BY <1>0
<1>2. requests[Len(requests)] \in Request
  BY <1>1
<1>3. requests' = [requests EXCEPT ![Len(requests)] = [requests[Len(requests)] EXCEPT !.outcome = outcome]]
  BY DEF Ends
<1>4. [requests[Len(requests)] EXCEPT !.outcome = outcome] \in Request
  BY <1>2 DEF Request
<1>5. requests' \in Seq(Request) /\ Len(requests') = Len(requests)
  BY <1>1, <1>3, <1>4
<1>6. /\ requests'[Len(requests)] = [requests[Len(requests)] EXCEPT !.outcome = outcome]
      /\ \A i \in 1 .. Len(requests) : i < Len(requests) => requests'[i] = requests[i]
  BY <1>1, <1>3
<1>7. \A i \in 1 .. Len(requests) :
        /\ requests'[i].to = requests[i].to
        /\ requests'[i].at = requests[i].at
        /\ requests'[i].tokens = requests[i].tokens
  <2> TAKE i \in 1 .. Len(requests)
  <2>1. CASE i < Len(requests)
    BY <1>6, <2>1
  <2>2. CASE i = Len(requests)
    BY <1>2, <1>6, <2>2 DEF Request
  <2> QED BY <1>1, <2>1, <2>2
<1> QED BY <1>1, <1>5, <1>6, <1>7 DEF LastRequest

-----------------------------------------------------------------------------
(* A request that fails is followed by one of three things.                *)
Fails(outcome) ==
  /\ Ends(outcome) /\ outcome \in Retryable \cup {"refused"}
  /\ \E d \in Latencies : now' = now + d
  /\ UNCHANGED <<configured, maxRetries, timeout, usages>>

GivesUp(outcome) ==
  /\ Fails(outcome) /\ outcome \in Retryable
  /\ \E delay \in RetryAfters \cup {2 ^ attempt} : now' + delay >= timeout
  /\ phase' = "done" /\ answer' = ""
  /\ UNCHANGED <<position, attempt, budget>>

LeavesProvider(outcome) ==
  /\ Fails(outcome)
  /\ position' = position + 1 /\ attempt' = 0 /\ budget' = InitialBudget
  /\ phase' = "ready" /\ UNCHANGED answer

Retries(outcome) ==
  /\ Ends(outcome) /\ outcome \in Retryable
  /\ \E l \in Latencies, end \in Nat : end < timeout /\ now' = end + l
  /\ attempt < maxRetries /\ attempt' = attempt + 1
  /\ budget' = IF outcome = "empty" THEN Doubled(budget) ELSE budget
  /\ phase' = "ready"
  /\ UNCHANGED <<configured, maxRetries, timeout, usages, position, answer>>

(* What the loop does with an answer that is no text.                      *)
LEMMA FailureIsHandled ==
  ASSUME CallTypeOK, TransportError \/ EmptyCompletion \/ Busy \/ Refused
  PROVE  \E outcome \in Retryable \cup {"refused"} :
           GivesUp(outcome) \/ LeavesProvider(outcome) \/ Retries(outcome)
<1> DEFINE Handled(outcome) == GivesUp(outcome) \/ LeavesProvider(outcome) \/ Retries(outcome)
           Tokens(outcome) == IF outcome = "empty" THEN Doubled(budget) ELSE budget
<1>0. /\ now \in Nat /\ timeout \in Nat /\ attempt \in Nat /\ maxRetries \in Nat
      /\ Latencies \subseteq Nat
      /\ \A delay \in RetryAfters \cup {2 ^ attempt} : delay \in Nat
  BY NumbersOfCall, Zenon
<1>1. ASSUME NEW outcome \in Retryable, Ends(outcome), NEW d \in Latencies,
             NEW delay \in RetryAfters \cup {2 ^ attempt},
             RetryOrFallBack(now + d, delay, Tokens(outcome)), UNCHANGED usages
      PROVE  Handled(outcome)
  <2>0. delay \in Nat /\ d \in Nat /\ now + d \in Nat
    BY <1>0
  <2>1. CASE ~ (attempt < maxRetries)
    <3>1. now' = now + d /\ FallBack
      BY <1>1, <2>1 DEF RetryOrFallBack
    <3>2. LeavesProvider(outcome)
      BY <1>1, <3>1 DEF LeavesProvider, Fails, FallBack, arguments
    <3> QED BY <3>2
  <2>2. CASE attempt < maxRetries /\ now + d + delay >= timeout
    <3>1. now' = now + d /\ Return("")
      BY <1>1, <2>2 DEF RetryOrFallBack, WaitToRetry
    <3>2. GivesUp(outcome)
      BY <1>1, <2>2, <3>1 DEF GivesUp, Fails, Return, arguments
    <3> QED BY <3>2
  <2>3. CASE attempt < maxRetries /\ ~ (now + d + delay >= timeout)
    <3>1. PICK late \in Latencies : now' = now + d + delay + late
      BY <1>1, <2>3 DEF RetryOrFallBack, WaitToRetry
    <3>2. /\ attempt' = attempt + 1 /\ budget' = Tokens(outcome) /\ phase' = "ready"
          /\ UNCHANGED <<arguments, position, answer>>
      BY <1>1, <2>3 DEF RetryOrFallBack, WaitToRetry
    <3>3. now + d + delay \in Nat /\ now + d + delay < timeout
      BY <1>0, <2>0, <2>3
    <3>4. Retries(outcome)
      BY <1>1, <2>3, <3>1, <3>2, <3>3 DEF Retries, arguments
    <3> QED BY <3>4
  <2> QED BY <2>1, <2>2, <2>3
<1>2. CASE TransportError
  <2>1. "transport" \in Retryable /\ Tokens("transport") = budget
    BY DEF Retryable
  <2>2. PICK d \in Latencies : RetryOrFallBack(now + d, 2 ^ attempt, budget)
    BY <1>2 DEF TransportError
  <2>3. Handled("transport")
    BY <1>1, <1>2, <2>1, <2>2 DEF TransportError
  <2> QED BY <2>1, <2>3
<1>3. CASE EmptyCompletion
  <2>1. "empty" \in Retryable /\ Tokens("empty") = Doubled(budget)
    BY DEF Retryable
  <2>2. PICK d \in Latencies : RetryOrFallBack(now + d, 2 ^ attempt, Doubled(budget))
    BY <1>3 DEF EmptyCompletion
  <2>3. Handled("empty")
    BY <1>1, <1>3, <2>1, <2>2 DEF EmptyCompletion
  <2> QED BY <2>1, <2>3
<1>4. CASE Busy
  <2>1. "busy" \in Retryable /\ Tokens("busy") = budget
    BY DEF Retryable
  <2>2. PICK d \in Latencies, delay \in RetryAfters \cup {2 ^ attempt} :
               RetryOrFallBack(now + d, delay, budget)
    BY <1>4 DEF Busy
  <2>3. Handled("busy")
    BY <1>1, <1>4, <2>1, <2>2 DEF Busy
  <2> QED BY <2>1, <2>3
<1>5. CASE Refused
  <2>1. LeavesProvider("refused")
    BY <1>5 DEF Refused, LeavesProvider, Fails, FallBack, arguments
  <2> QED BY <2>1
<1> QED BY <1>2, <1>3, <1>4, <1>5

-----------------------------------------------------------------------------
(* The invariant is inductive.                                             *)
LEMMA InitEstablishes == CallInit => IInv
<1> SUFFICES ASSUME CallInit PROVE IInv
  OBVIOUS
<1>1. configured \in Seq(Entry)
  <2>1. PICK n \in 0 .. MaxConfigured : configured \in [1 .. n -> Entry]
    BY DEF CallInit
  <2>2. n \in Nat
    BY <2>1, LLMClientAssumption
  <2> QED BY <2>1, <2>2
<1>2. Providers \in Seq(Entry) /\ Len(Providers) \in Nat
  BY <1>1, ProvidersAreRanked
<1>3. /\ maxRetries \in Nat /\ timeout \in Nat \ {0} /\ now = 0 /\ position = 1 /\ attempt = 0
      /\ budget = InitialBudget /\ usages = 0
      /\ InitialBudget \in Nat /\ BudgetCap \in Nat /\ InitialBudget <= BudgetCap
  BY LLMClientAssumption DEF CallInit
<1>0. phase = "ready" /\ answer = "" /\ requests = <<>>
  BY DEF CallInit
<1>4. requests = <<>> /\ requests \in Seq(Request) /\ Len(requests) = 0
  <2>1. requests = <<>>
    BY DEF CallInit
  <2> QED BY <2>1
<1>5. DOMAIN requests = {} /\ 1 .. Len(requests) = {} /\ 1 .. Len(requests) - 1 = {}
  BY <1>4
<1>6. CallTypeOK
  <2>1. position \in 1 .. Len(Providers) + 1 /\ attempt \in 0 .. maxRetries
    BY <1>2, <1>3
  <2>2. budget \in InitialBudget .. BudgetCap /\ usages \in 0 .. 1
    BY <1>3
  <2>3. now \in Nat /\ timeout \in Nat /\ maxRetries \in Nat
    BY <1>3
  <2> QED BY <1>0, <1>1, <1>4, <2>1, <2>2, <2>3, Zenon DEF CallTypeOK
<1>7. DeadlineIsRespected
  <2>1. now < timeout
    BY <1>3
  <2> QED BY <1>5, <2>1, Zenon DEF DeadlineIsRespected
<1>8. SentInTime /\ NothingReturnedYet
  BY <1>0, <1>3, Zenon DEF SentInTime, NothingReturnedYet
<1>9. RetryDiscipline
  BY <1>5, Zenon DEF RetryDiscipline, RetriesFollowTheRules, AttemptsAreBounded
<1>10. OutcomeIsJustified
  BY <1>0, <1>3 DEF OutcomeIsJustified, GivesUpOnlyForCause, UsageMatchesAnswer
<1>11. LastIsRemembered /\ ProvidersInOrder
  BY <1>0, <1>3, <1>4, <1>5, Zenon DEF LastIsRemembered, ProvidersInOrder
<1>12. AttemptCounts
  <2>1. ToCurrent = 0 /\ 0 <= Len(requests)
    <3>1. ToCurrent = attempt
      BY <1>0 DEF ToCurrent
    <3>2. Len(requests) = 0
      BY <1>4
    <3> QED BY <1>3, <3>1, <3>2
  <2> QED BY <1>5, <2>1, Zenon DEF AttemptCounts
<1> QED BY <1>6, <1>7, <1>8, <1>9, <1>10, <1>11, <1>12 DEF IInv

(* A request goes out.                                                     *)
LEMMA SendKeeps ==
  ASSUME IInv, Send
  PROVE  IInv'
<1> DEFINE n == Len(requests)
<1>0. CallTypeOK
  BY DEF IInv
<1>1. /\ Providers \in Seq(Entry) /\ Len(Providers) \in Nat
      /\ position \in Nat \ {0} /\ position <= Len(Providers)
      /\ now \in Nat /\ timeout \in Nat /\ maxRetries \in Nat
      /\ attempt \in Nat /\ attempt <= maxRetries /\ budget \in Nat
      /\ n \in Nat /\ requests \in Seq(Request)
  BY <1>0, NumbersOfCall DEF Send
<1>2. /\ requests' \in Seq(Request) /\ Len(requests') = n + 1
      /\ DOMAIN requests = 1 .. n /\ DOMAIN requests' = 1 .. n + 1
      /\ \A i \in 1 .. n : requests'[i] = requests[i]
      /\ LastRequest' = [to |-> position, at |-> now, tokens |-> budget, outcome |-> "pending"]
      /\ requests'[n + 1] = LastRequest'
  BY <1>0, <1>1, SendAppends
<1>3. /\ phase = "ready" /\ phase' = "sent" /\ now < timeout
      /\ UNCHANGED <<configured, maxRetries, timeout, now, position, attempt, budget, answer, usages>>
  BY DEF Send, arguments
<1>4. Providers' = Providers
  BY <1>3, ProvidersStay
<1> HIDE DEF n
<1>5. CallTypeOK'
  BY <1>0, <1>2, <1>3, <1>4 DEF CallTypeOK
<1>6. DeadlineIsRespected'
  <2>1. \A i \in 1 .. n + 1 : requests'[i].at < timeout
    <3>1. \A i \in 1 .. n : requests[i].at < timeout
      BY <1>2 DEF IInv, DeadlineIsRespected
    <3> QED BY <1>1, <1>2, <1>3, <3>1
  <2> QED BY <1>2, <1>3, <2>1 DEF DeadlineIsRespected
<1>7. RetriesFollowTheRules'
  <2> SUFFICES ASSUME NEW i \in 1 .. n
               PROVE  LET r == requests'[i]  s == requests'[i + 1] IN
                        \/ /\ s.to = r.to /\ r.outcome \in Retryable
                           /\ s.tokens = IF r.outcome = "empty" THEN Doubled(r.tokens) ELSE r.tokens
                        \/ s.to = r.to + 1 /\ s.tokens = InitialBudget
    BY <1>1, <1>2 DEF RetriesFollowTheRules
  <2>1. CASE i < n
    <3>1. i \in 1 .. n - 1 /\ i + 1 \in 1 .. n
      BY <1>1, <2>1
    <3> QED BY <1>2, <3>1 DEF IInv, RetryDiscipline, RetriesFollowTheRules, n
  <2>2. CASE i = n
    <3>1. requests # <<>> /\ requests'[i] = LastRequest
      BY <1>1, <1>2, <2>2 DEF LastRequest, n
    <3> QED BY <1>2, <1>3, <2>2, <3>1 DEF IInv, LastIsRemembered
  <2> QED BY <1>1, <2>1, <2>2
<1>8. AttemptsAreBounded'
  <2> SUFFICES ASSUME NEW i \in 1 .. n + 1, i + maxRetries + 1 \in 1 .. n + 1
               PROVE  requests'[i + maxRetries + 1].to # requests'[i].to
    BY <1>2, <1>3 DEF AttemptsAreBounded
  <2>1. CASE i + maxRetries + 1 \in 1 .. n
    <3>1. i \in 1 .. n
      BY <1>1, <2>1
    <3>2. requests[i + maxRetries + 1].to # requests[i].to
      BY <1>2, <2>1, <3>1 DEF IInv, RetryDiscipline, AttemptsAreBounded
    <3> QED BY <1>2, <2>1, <3>1, <3>2
  <2>2. CASE i + maxRetries + 1 = n + 1
    <3>1. i \in 1 .. n /\ ~ (i > n - attempt)
      BY <1>1, <2>2
    <3>2. requests[i].to # position
      BY <1>1, <1>3, <3>1 DEF IInv, AttemptCounts, ToCurrent, n
    <3> QED BY <1>2, <2>2, <3>1, <3>2
  <2> QED BY <1>1, <2>1, <2>2
<1>9. OutcomeIsJustified'
  BY <1>3 DEF IInv, OutcomeIsJustified, GivesUpOnlyForCause, UsageMatchesAnswer, NothingReturnedYet
<1>10. SentInTime' /\ NothingReturnedYet'
  BY <1>3 DEF IInv, SentInTime, NothingReturnedYet
<1>11. LastIsRemembered'
  BY <1>1, <1>2, <1>3, <1>4 DEF LastIsRemembered
<1>12. AttemptCounts'
  <2>1. attempt <= n /\ \A i \in 1 .. n : requests[i].to = position <=> i > n - attempt
    BY <1>3 DEF IInv, AttemptCounts, ToCurrent, n
  <2>2. \A i \in 1 .. n + 1 : requests'[i].to = position <=> i > n + 1 - (attempt + 1)
    BY <1>1, <1>2, <2>1
  <2>3. ToCurrent' = attempt + 1
    BY <1>3 DEF ToCurrent
  <2> QED BY <1>1, <1>2, <1>3, <2>1, <2>2, <2>3 DEF AttemptCounts
<1>13. ProvidersInOrder'
  <2>1. /\ \A i \in 1 .. n : requests[i].to \in 1 .. Len(Providers) /\ requests[i].to <= position
        /\ \A i, j \in 1 .. n : i <= j => requests[i].to <= requests[j].to
    BY DEF IInv, ProvidersInOrder, n
  <2>2. \A i \in 1 .. n + 1 : requests'[i].to \in 1 .. Len(Providers) /\ requests'[i].to <= position
    <3>1. requests'[n + 1].to = position /\ position \in 1 .. Len(Providers) /\ position <= position
      BY <1>1, <1>2
    <3>2. \A i \in 1 .. n : requests'[i].to = requests[i].to
      BY <1>2
    <3>3. \A i \in 1 .. n + 1 : i \in 1 .. n \/ i = n + 1
      BY <1>1
    <3> QED BY <2>1, <3>1, <3>2, <3>3, Zenon
  <2>3. \A i, j \in 1 .. n + 1 : i <= j => requests'[i].to <= requests'[j].to
    BY <1>1, <1>2, <2>1
  <2> QED BY <1>2, <1>3, <1>4, <2>2, <2>3 DEF ProvidersInOrder
<1> QED BY <1>5, <1>6, <1>7, <1>8, <1>9, <1>10, <1>11, <1>12, <1>13 DEF IInv, RetryDiscipline

(* The steps that end without a request: the call ends, or nothing moves.  *)
LEMMA EndKeeps ==
  ASSUME IInv, Exhausted \/ DeadlinePassed
  PROVE  IInv'
<1> DEFINE n == Len(requests)
<1>0. CallTypeOK
  BY DEF IInv
<1>1. /\ Providers \in Seq(Entry) /\ Len(Providers) \in Nat
      /\ position \in Nat \ {0} /\ position <= Len(Providers) + 1
      /\ n \in Nat /\ requests \in Seq(Request)
      /\ \A i \in 1 .. n : requests[i] \in Request
  BY <1>0, NumbersOfCall
<1>2. /\ phase = "ready" /\ phase' = "done" /\ answer' = ""
      /\ UNCHANGED <<configured, maxRetries, timeout, now, position, attempt, budget, requests, usages>>
  BY DEF Exhausted, DeadlinePassed, Return, arguments
<1>3. Providers' = Providers /\ LastRequest' = LastRequest
  BY <1>2, ProvidersStay DEF LastRequest
<1>4. CallTypeOK'
  BY <1>0, <1>2, <1>3, Zenon DEF CallTypeOK
<1>5. DeadlineIsRespected' /\ RetryDiscipline'
  BY <1>2, Zenon DEF IInv, DeadlineIsRespected, RetryDiscipline, RetriesFollowTheRules, AttemptsAreBounded
<1>6. GivesUpOnlyForCause'
  <2>1. CASE DeadlinePassed
    BY <1>2, <2>1 DEF DeadlinePassed, GivesUpOnlyForCause
  <2>2. CASE Exhausted /\ requests = <<>>
    <3>1. position = 1 /\ position > Len(Providers)
      BY <2>2 DEF IInv, LastIsRemembered, Exhausted
    <3>2. Providers = <<>>
      BY <1>1, <3>1
    <3> QED BY <1>2, <1>3, <3>2 DEF GivesUpOnlyForCause
  <2>3. CASE Exhausted /\ requests # <<>>
    <3>1. position > Len(Providers)
      BY <2>3 DEF Exhausted
    <3>2. n \in 1 .. n
      BY <1>1, <2>3
    <3>3. LastRequest.to \in 1 .. Len(Providers)
      BY <3>2 DEF IInv, ProvidersInOrder, LastRequest
    <3>4. position = LastRequest.to \/ position = LastRequest.to + 1
      BY <1>2, <2>3 DEF IInv, LastIsRemembered
    <3>5. LastRequest.to = Len(Providers)
      BY <1>1, <3>1, <3>3, <3>4
    <3> QED BY <1>2, <1>3, <2>3, <3>5 DEF GivesUpOnlyForCause
  <2> QED BY <2>1, <2>2, <2>3
<1>7. UsageMatchesAnswer'
  BY <1>2 DEF IInv, NothingReturnedYet, UsageMatchesAnswer
<1>8. SentInTime' /\ NothingReturnedYet' /\ AttemptCounts'
  BY <1>2 DEF SentInTime, NothingReturnedYet, AttemptCounts
<1>9. LastIsRemembered' /\ ProvidersInOrder'
  BY <1>2, <1>3 DEF IInv, LastIsRemembered, ProvidersInOrder
<1> QED BY <1>4, <1>5, <1>6, <1>7, <1>8, <1>9 DEF IInv, OutcomeIsJustified

(* Nothing of the call changes.                                            *)
LEMMA StutterKeeps ==
  ASSUME IInv, UNCHANGED callVars
  PROVE  IInv'
<1>1. /\ UNCHANGED <<configured, maxRetries, timeout, now, position, attempt, budget>>
      /\ UNCHANGED <<phase, requests, answer, usages>>
  BY DEF callVars, arguments
<1>2. UNCHANGED <<Providers, LastRequest, ToCurrent>>
  BY <1>1, ProvidersStay DEF LastRequest, ToCurrent
<1>3. CallTypeOK' /\ DeadlineIsRespected' /\ RetryDiscipline' /\ OutcomeIsJustified'
  BY <1>1, <1>2, Zenon DEF IInv, CallTypeOK, DeadlineIsRespected, RetryDiscipline, RetriesFollowTheRules,
     AttemptsAreBounded, OutcomeIsJustified, GivesUpOnlyForCause, UsageMatchesAnswer
<1>4. SentInTime' /\ LastIsRemembered' /\ AttemptCounts' /\ ProvidersInOrder' /\ NothingReturnedYet'
  BY <1>1, <1>2, Zenon DEF IInv, SentInTime, LastIsRemembered, AttemptCounts, ProvidersInOrder,
     NothingReturnedYet
<1> QED BY <1>3, <1>4 DEF IInv

(* Whatever the outcome of a request, the requests still follow the rules. *)
LEMMA OutcomeKeepsHistory ==
  ASSUME IInv, NEW outcome \in Outcomes, Ends(outcome),
         UNCHANGED <<configured, maxRetries, timeout>>
  PROVE  /\ RetryDiscipline'
         /\ \A i \in DOMAIN requests' : requests'[i].at < timeout'
         /\ requests' \in Seq(Request) /\ Len(requests') = Len(requests) /\ requests' # <<>>
         /\ \A i \in 1 .. Len(requests) : requests'[i].to = requests[i].to
         /\ LastRequest' = [LastRequest EXCEPT !.outcome = outcome] /\ LastRequest \in Request
         /\ LastRequest.to = position /\ LastRequest.tokens = budget
         /\ position \in 1 .. Len(Providers) /\ Providers' = Providers
         /\ Providers \in Seq(Entry) /\ Len(Providers) \in Nat
         /\ attempt < Len(requests)
         /\ \A i \in 1 .. Len(requests) : requests[i].to = position <=> i >= Len(requests) - attempt
         /\ now < timeout
<1> DEFINE n == Len(requests)
<1>0. CallTypeOK
  BY DEF IInv
<1>1. phase = "sent"
  BY DEF Ends
<1>2. /\ requests # <<>> /\ LastRequest.to = position /\ LastRequest.tokens = budget
      /\ position <= Len(Providers) /\ now < timeout
  BY <1>1 DEF IInv, LastIsRemembered, SentInTime
<1>3. /\ Providers \in Seq(Entry) /\ Len(Providers) \in Nat
      /\ position \in Nat \ {0} /\ maxRetries \in Nat /\ attempt \in Nat
      /\ n \in Nat /\ requests \in Seq(Request)
  BY <1>0, NumbersOfCall
<1>4. /\ requests' \in Seq(Request) /\ Len(requests') = n /\ requests' # <<>>
      /\ n \in 1 .. n /\ DOMAIN requests = 1 .. n /\ DOMAIN requests' = 1 .. n
      /\ \A i \in 1 .. n :
           /\ requests'[i].to = requests[i].to
           /\ requests'[i].at = requests[i].at
           /\ requests'[i].tokens = requests[i].tokens
           /\ i < n => requests'[i] = requests[i]
      /\ LastRequest' = [LastRequest EXCEPT !.outcome = outcome]
  BY <1>0, <1>2, <1>3, EndsMarks
<1>5. Providers' = Providers
  BY ProvidersStay
<1>6. attempt < n /\ \A i \in 1 .. n : requests[i].to = position <=> i >= n - attempt
  <2>1. attempt + 1 <= n /\ \A i \in 1 .. n : requests[i].to = position <=> i > n - (attempt + 1)
    BY <1>1 DEF IInv, AttemptCounts, ToCurrent
  <2> HIDE DEF n
  <2> QED BY <1>3, <2>1
<1>7. \A i \in DOMAIN requests' : requests'[i].at < timeout'
  BY <1>4 DEF IInv, DeadlineIsRespected
<1>8. RetriesFollowTheRules'
  <2> SUFFICES ASSUME NEW i \in 1 .. n - 1
               PROVE  LET r == requests'[i]  s == requests'[i + 1] IN
                        \/ /\ s.to = r.to /\ r.outcome \in Retryable
                           /\ s.tokens = IF r.outcome = "empty" THEN Doubled(r.tokens) ELSE r.tokens
                        \/ s.to = r.to + 1 /\ s.tokens = InitialBudget
    BY <1>4 DEF RetriesFollowTheRules
  <2>1. LET r == requests[i]  s == requests[i + 1] IN
          \/ /\ s.to = r.to /\ r.outcome \in Retryable
             /\ s.tokens = IF r.outcome = "empty" THEN Doubled(r.tokens) ELSE r.tokens
          \/ s.to = r.to + 1 /\ s.tokens = InitialBudget
    BY DEF IInv, RetryDiscipline, RetriesFollowTheRules
  <2> HIDE DEF n
  <2>2. i \in 1 .. n /\ i < n /\ i + 1 \in 1 .. n
    BY <1>3
  <2>3. requests'[i] = requests[i] /\ requests'[i + 1].to = requests[i + 1].to
        /\ requests'[i + 1].tokens = requests[i + 1].tokens
    BY <1>4, <2>2
  <2> QED BY <2>1, <2>3
<1>9. AttemptsAreBounded'
  <2> SUFFICES ASSUME NEW i \in 1 .. n, i + maxRetries + 1 \in 1 .. n
               PROVE  requests'[i + maxRetries + 1].to # requests'[i].to
    BY <1>4 DEF AttemptsAreBounded
  <2>1. requests[i + maxRetries + 1].to # requests[i].to
    BY <1>4 DEF IInv, RetryDiscipline, AttemptsAreBounded
  <2> QED BY <1>4, <2>1
<1>10. LastRequest \in Request
  BY <1>3, <1>4 DEF LastRequest
<1> HIDE DEF n
<1>11. position \in 1 .. Len(Providers)
  BY <1>2, <1>3
<1> QED BY <1>2, <1>3, <1>4, <1>5, <1>6, <1>7, <1>8, <1>9, <1>10, <1>11 DEF RetryDiscipline, n

(* A text arrives.                                                         *)
LEMMA AnsweredKeeps ==
  ASSUME IInv, Answered
  PROVE  IInv'
<1>0. /\ Ends("text") /\ "text" \in Outcomes /\ phase' = "done" /\ answer' = "text"
      /\ usages' = usages + 1
      /\ UNCHANGED <<configured, maxRetries, timeout, position, attempt, budget>>
      /\ IInv
  BY DEF Answered, Return, arguments, Outcomes
<1>1. /\ RetryDiscipline'
      /\ \A i \in DOMAIN requests' : requests'[i].at < timeout'
      /\ requests' \in Seq(Request) /\ Len(requests') = Len(requests) /\ requests' # <<>>
      /\ \A i \in 1 .. Len(requests) : requests'[i].to = requests[i].to
      /\ LastRequest' = [LastRequest EXCEPT !.outcome = "text"] /\ LastRequest \in Request
      /\ LastRequest.to = position /\ LastRequest.tokens = budget
      /\ position \in 1 .. Len(Providers) /\ Providers' = Providers
      /\ Providers \in Seq(Entry) /\ Len(Providers) \in Nat
      /\ attempt < Len(requests)
      /\ \A i \in 1 .. Len(requests) : requests[i].to = position <=> i >= Len(requests) - attempt
      /\ now < timeout
  BY OutcomeKeepsHistory, <1>0, Zenon
<1>2. /\ CallTypeOK /\ Len(requests) \in Nat
      /\ now \in Nat /\ timeout \in Nat /\ attempt \in Nat /\ maxRetries \in Nat
      /\ Latencies \subseteq Nat
  BY NumbersOfCall DEF IInv
<1>3. LastRequest'.outcome = "text" /\ LastRequest'.to = position /\ LastRequest'.tokens = budget
  BY <1>1 DEF Request
<1>4. PICK d \in Latencies : now' = now + d
  BY DEF Answered
<1>5. now' \in Nat /\ now' < timeout + d
  BY <1>1, <1>2, <1>4
<1>6. usages = 0 /\ usages' = 1
  <2>1. usages = 0
    BY <1>0, Zenon DEF IInv, NothingReturnedYet, Ends
  <2>2. usages' = usages + 1
    BY <1>0
  <2> QED BY <2>1, <2>2
<1>7. usages' \in 0 .. 1
  BY <1>6
<1>8. CallTypeOK'
  BY <1>0, <1>1, <1>2, <1>5, <1>7, Zenon DEF CallTypeOK
<1>9. DeadlineIsRespected'
  BY <1>0, <1>1, <1>5 DEF DeadlineIsRespected
<1>10. OutcomeIsJustified'
  BY <1>0, <1>3, <1>6 DEF OutcomeIsJustified, GivesUpOnlyForCause, UsageMatchesAnswer
<1>11. SentInTime' /\ LastIsRemembered' /\ AttemptCounts' /\ NothingReturnedYet'
  BY <1>0, <1>1 DEF SentInTime, LastIsRemembered, AttemptCounts, NothingReturnedYet
<1>12. ProvidersInOrder'
  <2>1. /\ \A i \in 1 .. Len(requests) : requests[i].to \in 1 .. Len(Providers) /\ requests[i].to <= position
        /\ \A i, j \in 1 .. Len(requests) : i <= j => requests[i].to <= requests[j].to
    BY DEF IInv, ProvidersInOrder
  <2> QED BY <1>0, <1>1, <2>1 DEF ProvidersInOrder
<1> QED BY <1>1, <1>8, <1>9, <1>10, <1>11, <1>12 DEF IInv

(* The deadline leaves no room for another request.                        *)
LEMMA GivesUpKeeps ==
  ASSUME IInv, NEW outcome \in Retryable \cup {"refused"}, GivesUp(outcome)
  PROVE  IInv'
<1>0. /\ Ends(outcome) /\ outcome \in Retryable /\ outcome \in Outcomes
      /\ phase' = "done" /\ answer' = ""
      /\ UNCHANGED <<configured, maxRetries, timeout, usages, position, attempt, budget>>
      /\ IInv
  BY DEF GivesUp, Fails, Outcomes, Retryable
<1>1. /\ RetryDiscipline'
      /\ \A i \in DOMAIN requests' : requests'[i].at < timeout'
      /\ requests' \in Seq(Request) /\ Len(requests') = Len(requests) /\ requests' # <<>>
      /\ \A i \in 1 .. Len(requests) : requests'[i].to = requests[i].to
      /\ LastRequest' = [LastRequest EXCEPT !.outcome = outcome] /\ LastRequest \in Request
      /\ LastRequest.to = position /\ LastRequest.tokens = budget
      /\ position \in 1 .. Len(Providers) /\ Providers' = Providers
      /\ Providers \in Seq(Entry) /\ Len(Providers) \in Nat
      /\ attempt < Len(requests)
      /\ \A i \in 1 .. Len(requests) : requests[i].to = position <=> i >= Len(requests) - attempt
      /\ now < timeout
  BY OutcomeKeepsHistory, <1>0, Zenon
<1>2. /\ CallTypeOK /\ Len(requests) \in Nat
      /\ now \in Nat /\ timeout \in Nat /\ attempt \in Nat /\ maxRetries \in Nat
      /\ Latencies \subseteq Nat
  BY NumbersOfCall DEF IInv
<1>3. LastRequest'.outcome = outcome /\ LastRequest'.to = position /\ LastRequest'.tokens = budget
  BY <1>1 DEF Request
<1>4. PICK d \in Latencies : now' = now + d
  BY DEF GivesUp, Fails
<1>5. now' \in Nat /\ now' < timeout + d
  BY <1>1, <1>2, <1>4
<1>6. CallTypeOK'
  BY <1>0, <1>1, <1>2, <1>5, Zenon DEF CallTypeOK
<1>7. DeadlineIsRespected'
  BY <1>0, <1>1, <1>5 DEF DeadlineIsRespected
<1>8. UsageMatchesAnswer'
  BY <1>0 DEF IInv, NothingReturnedYet, Ends, UsageMatchesAnswer
<1>9. GivesUpOnlyForCause'
  <2>1. PICK delay \in RetryAfters \cup {2 ^ attempt} : now' + delay >= timeout
    BY DEF GivesUp
  <2> QED BY <1>0, <1>1, <1>3, <2>1 DEF GivesUpOnlyForCause
<1>10. SentInTime' /\ LastIsRemembered' /\ AttemptCounts' /\ NothingReturnedYet'
  BY <1>0, <1>1 DEF SentInTime, LastIsRemembered, AttemptCounts, NothingReturnedYet
<1>11. ProvidersInOrder'
  <2>1. /\ \A i \in 1 .. Len(requests) : requests[i].to \in 1 .. Len(Providers) /\ requests[i].to <= position
        /\ \A i, j \in 1 .. Len(requests) : i <= j => requests[i].to <= requests[j].to
    BY DEF IInv, ProvidersInOrder
  <2> QED BY <1>0, <1>1, <2>1 DEF ProvidersInOrder
<1> QED BY <1>1, <1>6, <1>7, <1>8, <1>9, <1>10, <1>11 DEF IInv, OutcomeIsJustified

(* The next provider is tried.                                             *)
LEMMA LeavingKeeps ==
  ASSUME IInv, NEW outcome \in Retryable \cup {"refused"}, LeavesProvider(outcome)
  PROVE  IInv'
<1>0. /\ Ends(outcome) /\ outcome \in Outcomes
      /\ phase' = "ready" /\ position' = position + 1 /\ attempt' = 0 /\ budget' = InitialBudget
      /\ UNCHANGED <<configured, maxRetries, timeout, usages, answer>>
      /\ IInv
  BY DEF LeavesProvider, Fails, Outcomes, Retryable
<1>1. /\ RetryDiscipline'
      /\ \A i \in DOMAIN requests' : requests'[i].at < timeout'
      /\ requests' \in Seq(Request) /\ Len(requests') = Len(requests) /\ requests' # <<>>
      /\ \A i \in 1 .. Len(requests) : requests'[i].to = requests[i].to
      /\ LastRequest' = [LastRequest EXCEPT !.outcome = outcome] /\ LastRequest \in Request
      /\ LastRequest.to = position /\ LastRequest.tokens = budget
      /\ position \in 1 .. Len(Providers) /\ Providers' = Providers
      /\ Providers \in Seq(Entry) /\ Len(Providers) \in Nat
      /\ attempt < Len(requests)
      /\ \A i \in 1 .. Len(requests) : requests[i].to = position <=> i >= Len(requests) - attempt
      /\ now < timeout
  BY OutcomeKeepsHistory, <1>0, Zenon
<1>2. /\ CallTypeOK /\ Len(requests) \in Nat
      /\ now \in Nat /\ timeout \in Nat /\ attempt \in Nat /\ maxRetries \in Nat
      /\ Latencies \subseteq Nat
  BY NumbersOfCall DEF IInv
<1>3. LastRequest'.outcome = outcome /\ LastRequest'.to = position /\ LastRequest'.tokens = budget
  BY <1>1 DEF Request
<1>4. PICK d \in Latencies : now' = now + d
  BY DEF LeavesProvider, Fails
<1>5. now' \in Nat /\ now' < timeout + d
  BY <1>1, <1>2, <1>4
<1>6. position' \in 1 .. Len(Providers') + 1 /\ attempt' \in 0 .. maxRetries'
      /\ budget' \in InitialBudget .. BudgetCap
  BY <1>0, <1>1, <1>2, LLMClientAssumption
<1>7. phase' \in {"ready", "sent", "done"}
  BY <1>0
<1>8. CallTypeOK'
  BY <1>0, <1>1, <1>2, <1>5, <1>6, <1>7, Zenon DEF CallTypeOK
<1>9. DeadlineIsRespected'
  BY <1>0, <1>1, <1>5 DEF DeadlineIsRespected
<1>10. OutcomeIsJustified' /\ NothingReturnedYet'
  BY <1>0 DEF IInv, NothingReturnedYet, Ends, OutcomeIsJustified, GivesUpOnlyForCause, UsageMatchesAnswer
<1>11. SentInTime' /\ LastIsRemembered'
  BY <1>0, <1>1, <1>3 DEF SentInTime, LastIsRemembered
<1>12. AttemptCounts'
  <2>1. ToCurrent' = 0
    BY <1>0 DEF ToCurrent
  <2>2. \A i \in 1 .. Len(requests) : requests'[i].to # position + 1
    <3>1. \A i \in 1 .. Len(requests) : requests[i].to \in 1 .. Len(Providers) /\ requests[i].to <= position
      BY DEF IInv, ProvidersInOrder
    <3> QED BY <1>1, <3>1
  <2>3. \A i \in 1 .. Len(requests) : ~ (i > Len(requests) - 0)
    BY <1>2
  <2>4. 0 <= Len(requests)
    BY <1>2
  <2> QED BY <1>0, <1>1, <2>1, <2>2, <2>3, <2>4, Zenon DEF AttemptCounts
<1>13. ProvidersInOrder'
  <2>1. /\ \A i \in 1 .. Len(requests) : requests[i].to \in 1 .. Len(Providers) /\ requests[i].to <= position
        /\ \A i, j \in 1 .. Len(requests) : i <= j => requests[i].to <= requests[j].to
    BY DEF IInv, ProvidersInOrder
  <2>2. \A i \in 1 .. Len(requests) : requests[i].to <= position + 1
    BY <1>1, <2>1
  <2> QED BY <1>0, <1>1, <2>1, <2>2, Zenon DEF ProvidersInOrder
<1> QED BY <1>1, <1>8, <1>9, <1>10, <1>11, <1>12, <1>13 DEF IInv

(* The same provider is tried again after a wait.                          *)
LEMMA RetryKeeps ==
  ASSUME IInv, NEW outcome \in Retryable \cup {"refused"}, Retries(outcome)
  PROVE  IInv'
<1>0. /\ Ends(outcome) /\ outcome \in Retryable /\ outcome \in Outcomes
      /\ phase' = "ready" /\ attempt < maxRetries /\ attempt' = attempt + 1
      /\ budget' = IF outcome = "empty" THEN Doubled(budget) ELSE budget
      /\ UNCHANGED <<configured, maxRetries, timeout, usages, position, answer>>
      /\ IInv
  BY DEF Retries, Outcomes, Retryable
<1>1. /\ RetryDiscipline'
      /\ \A i \in DOMAIN requests' : requests'[i].at < timeout'
      /\ requests' \in Seq(Request) /\ Len(requests') = Len(requests) /\ requests' # <<>>
      /\ \A i \in 1 .. Len(requests) : requests'[i].to = requests[i].to
      /\ LastRequest' = [LastRequest EXCEPT !.outcome = outcome] /\ LastRequest \in Request
      /\ LastRequest.to = position /\ LastRequest.tokens = budget
      /\ position \in 1 .. Len(Providers) /\ Providers' = Providers
      /\ Providers \in Seq(Entry) /\ Len(Providers) \in Nat
      /\ attempt < Len(requests)
      /\ \A i \in 1 .. Len(requests) : requests[i].to = position <=> i >= Len(requests) - attempt
      /\ now < timeout
  BY OutcomeKeepsHistory, <1>0, Zenon
<1>2. /\ CallTypeOK /\ Len(requests) \in Nat
      /\ now \in Nat /\ timeout \in Nat /\ attempt \in Nat /\ maxRetries \in Nat
      /\ Latencies \subseteq Nat
  BY NumbersOfCall DEF IInv
<1>3. LastRequest'.outcome = outcome /\ LastRequest'.to = position /\ LastRequest'.tokens = budget
  BY <1>1 DEF Request
<1>4. PICK l \in Latencies, end \in Nat : end < timeout /\ now' = end + l
  BY DEF Retries
<1>5. now' \in Nat /\ now' < timeout + l
  BY <1>2, <1>4
<1>6. position' \in 1 .. Len(Providers') + 1 /\ attempt' \in 0 .. maxRetries'
  BY <1>0, <1>1, <1>2
<1>7. budget' \in InitialBudget .. BudgetCap
  <2>1. budget \in InitialBudget .. BudgetCap
    BY <1>2 DEF CallTypeOK
  <2> QED BY <1>0, <2>1, DoubledIsBounded
<1>8. phase' \in {"ready", "sent", "done"}
  BY <1>0
<1>9. CallTypeOK'
  BY <1>0, <1>1, <1>2, <1>5, <1>6, <1>7, <1>8, Zenon DEF CallTypeOK
<1>10. DeadlineIsRespected'
  BY <1>0, <1>1, <1>5 DEF DeadlineIsRespected
<1>11. OutcomeIsJustified' /\ NothingReturnedYet'
  BY <1>0 DEF IInv, NothingReturnedYet, Ends, OutcomeIsJustified, GivesUpOnlyForCause, UsageMatchesAnswer
<1>12. SentInTime' /\ LastIsRemembered'
  BY <1>0, <1>1, <1>3 DEF SentInTime, LastIsRemembered
<1>13. AttemptCounts'
  <2>1. ToCurrent' = attempt + 1
    BY <1>0 DEF ToCurrent
  <2>2. \A i \in 1 .. Len(requests) : i >= Len(requests) - attempt <=> i > Len(requests) - (attempt + 1)
    BY <1>2
  <2>3. attempt + 1 <= Len(requests)
    BY <1>1, <1>2
  <2> QED BY <1>0, <1>1, <2>1, <2>2, <2>3, Zenon DEF AttemptCounts
<1>14. ProvidersInOrder'
  <2>1. /\ \A i \in 1 .. Len(requests) : requests[i].to \in 1 .. Len(Providers) /\ requests[i].to <= position
        /\ \A i, j \in 1 .. Len(requests) : i <= j => requests[i].to <= requests[j].to
    BY DEF IInv, ProvidersInOrder
  <2> QED BY <1>0, <1>1, <2>1 DEF ProvidersInOrder
<1> QED BY <1>1, <1>9, <1>10, <1>11, <1>12, <1>13, <1>14 DEF IInv

-----------------------------------------------------------------------------
(* Every step keeps the invariant.                                         *)
LEMMA CallNextKeeps ==
  ASSUME IInv, [CallNext]_callVars
  PROVE  IInv'
<1>1. CASE Exhausted \/ DeadlinePassed
  BY <1>1, EndKeeps
<1>2. CASE Send
  BY <1>2, SendKeeps
<1>3. CASE Answered
  BY <1>3, AnsweredKeeps
<1>4. CASE TransportError \/ EmptyCompletion \/ Busy \/ Refused
  <2>1. PICK outcome \in Retryable \cup {"refused"} :
               GivesUp(outcome) \/ LeavesProvider(outcome) \/ Retries(outcome)
    BY <1>4, FailureIsHandled DEF IInv
  <2> QED BY <2>1, GivesUpKeeps, LeavingKeeps, RetryKeeps
<1>5. CASE UNCHANGED callVars
  BY <1>5, StutterKeeps
<1> QED BY <1>1, <1>2, <1>3, <1>4, <1>5 DEF CallNext

(* The preference is a fact about the list: providers are asked in its     *)
(* order.                                                                  *)
LEMMA InvariantImpliesRules == IInv => RequestsFollowTheRules
<1> SUFFICES ASSUME IInv PROVE PreferenceIsRespected
  BY DEF IInv, RequestsFollowTheRules
<1>1. /\ configured \in Seq(Entry) /\ requests \in Seq(Request)
  BY DEF IInv, CallTypeOK
<1>2. DOMAIN requests = 1 .. Len(requests)
  BY <1>1
<1>3. /\ \A i \in 1 .. Len(Providers) :
           /\ Providers[i].usable
           /\ \E k \in DOMAIN configured : k <= ModelCap /\ configured[k] = Providers[i]
      /\ \A i, j \in 1 .. Len(Providers) :
           i <= j => Preference(Providers[i]) <= Preference(Providers[j])
  BY <1>1, ProvidersAreRanked
<1>4. /\ \A i \in 1 .. Len(requests) : requests[i].to \in 1 .. Len(Providers)
      /\ \A i, j \in 1 .. Len(requests) : i <= j => requests[i].to <= requests[j].to
  BY DEF IInv, ProvidersInOrder
<1>5. \A i, j \in 1 .. Len(requests) : i < j => i <= j
  BY <1>1
<1>6. \A i, j \in 1 .. Len(requests) :
        i < j => Preference(Providers[requests[i].to]) <= Preference(Providers[requests[j].to])
  BY <1>3, <1>4, <1>5, Zenon
<1> DEFINE asked == [i \in DOMAIN requests |-> Providers[requests[i].to]]
<1>7. \A i \in 1 .. Len(requests) : asked[i] = Providers[requests[i].to]
  BY <1>2
<1> HIDE DEF asked
<1>8. /\ \A i, j \in 1 .. Len(requests) : i < j => Preference(asked[i]) <= Preference(asked[j])
      /\ \A i \in 1 .. Len(requests) :
           asked[i].usable /\ \E k \in DOMAIN configured : k <= ModelCap /\ configured[k] = asked[i]
  BY <1>3, <1>4, <1>6, <1>7
<1> QED BY <1>2, <1>8, Zenon DEF PreferenceIsRespected, asked

(* IInv is an invariant of the call.                                       *)
LEMMA CallInvariant == CallSpec => []IInv
<1>1. CallInit => IInv
  BY InitEstablishes
<1>2. IInv /\ [CallNext]_callVars => IInv'
  BY CallNextKeeps
<1> QED BY <1>1, <1>2, PTL DEF CallSpec

(* call_llm sends no request at or after its deadline, retries only what   *)
(* is worth a retry, at most max_retries times for each provider and with  *)
(* a bounded token budget, and asks the providers of the wanted role first.*)
THEOREM RequestsAlwaysFollowTheRules == CallSpec => []RequestsFollowTheRules
<1>1. IInv => RequestsFollowTheRules
  BY InvariantImpliesRules
<1> QED BY <1>1, CallInvariant, PTL

(* call_llm ends without a text only when every provider failed, the time  *)
(* is over or the next wait would reach the deadline, and it records the   *)
(* usage of the text it returns and no other.                              *)
THEOREM OutcomeIsAlwaysJustified == CallSpec => []OutcomeIsJustified
<1>1. IInv => OutcomeIsJustified
  BY DEF IInv
<1> QED BY <1>1, CallInvariant, PTL

-----------------------------------------------------------------------------
Reviewing == {"adjudicate", "merge", "stats", "sandbox", "signature", "feedback"}
Recording == {"trajectory", "output"}
BeforeReview == {"start", "checkout", "session", "route", "fallback", "reader", "strategy", "retrieve",
                 "tools", "verifier", "debate"}

AuditStages == BeforeReview \cup Reviewing \cup Recording \cup Ended
Fields == {"strategy", "pack", "verifier", "context", "given", "suggestions", "labelled", "patched",
           "result", "report"}

Shapes ==
  /\ DOMAIN review = Fields /\ DOMAIN kept = {"trajectory", "staged", "output"} /\ stage \in AuditStages

CheckoutIsRemoved ==
  /\ stage \in {"start", "checkout"} => clone = "none"
  /\ stage \in Ended => clone # "made"

(* Before the review there is no answer, and what it gave is kept in its   *)
(* order until the feedback priors are applied.                            *)
AnswerOK(r, at) ==
  /\ r.strategy = "none" \/ (at # "start" /\ r.strategy \in Strategies)
  /\ at \in BeforeReview => r.result # "debate"
  /\ r.result # "debate" => r.suggestions = <<>>
  /\ at \in Reviewing => r.result = "debate" /\ r.suggestions = r.given
  /\ at \in Recording /\ audit.key => r.result = "debate"
  /\ r.result = "debate" =>
       /\ r.given \in Seq(Suggestion)
       /\ r.suggestions \in Reordered(r.given)
       /\ audit.feedback = "usable" \/ r.suggestions = r.given
       /\ \A i \in DOMAIN r.given : r.given[i].fact \in r.pack

AnswerIsKept == AnswerOK(review, stage)

EndIsExplained ==
  /\ stage = "raised" => HasOdd(review.given, "line") \/ audit.feedback = "undecodable"
  /\ stage = "raised while recording" => HasOdd(review.given, "evidence")
  /\ stage = "done" /\ audit.key /\ audit.ir # "no fingerprint" =>
       review.result = "debate" /\ (audit.output = "file" => kept.output = "debate")

(* What is recorded is the audit's own document, which nothing changes     *)
(* afterwards.                                                             *)
DocumentIsKept ==
  /\ kept.trajectory \in {<<>>, <<Document>>}
  /\ kept.trajectory # <<>> => stage \in {"output"} \cup Ended
  /\ kept.staged => kept.trajectory # <<>>

AInv == Shapes /\ CheckoutIsRemoved /\ AnswerIsKept /\ EndIsExplained /\ DocumentIsKept

-----------------------------------------------------------------------------
(* A list in another order has the same elements, each as often.           *)
LEMMA ReorderedFacts ==
  ASSUME NEW s \in Seq(Suggestion), NEW t \in Reordered(s)
  PROVE  /\ t \in Seq(Suggestion) /\ Len(t) = Len(s) /\ DOMAIN t = DOMAIN s
         /\ Signature(t) = Signature(s)
         /\ \A what : HasOdd(t, what) <=> HasOdd(s, what)
         /\ t = <<>> <=> s = <<>>
<1>1. PICK p \in [DOMAIN s -> DOMAIN s] :
        /\ t = [i \in DOMAIN s |-> s[p[i]]]
        /\ \A i, j \in DOMAIN s : p[i] = p[j] => i = j
  BY DEF Reordered
<1> DEFINE n == Len(s)
<1>2. n \in Nat /\ DOMAIN s = 1 .. n /\ \A i \in 1 .. n : s[i] \in Suggestion
  OBVIOUS
<1>3. IsFiniteSet(1 .. n) /\ Cardinality(1 .. n) = n
  <2> HIDE DEF n
  <2> QED BY <1>2, FS_Interval
<1>4. p \in Injection(1 .. n, 1 .. n)
  BY <1>1, <1>2 DEF Injection, IsInjective
<1>5. p \in Surjection(1 .. n, 1 .. n)
  BY <1>3, <1>4, FS_Injection
<1>6. \A j \in 1 .. n : \E i \in 1 .. n : p[i] = j
  BY <1>5 DEF Surjection
<1>7. /\ t \in [1 .. n -> Suggestion] /\ \A i \in 1 .. n : t[i] = s[p[i]] /\ p[i] \in 1 .. n
  BY <1>1, <1>2
<1> HIDE DEF n
<1>8. t \in Seq(Suggestion) /\ Len(t) = n /\ DOMAIN t = 1 .. n
  BY <1>2, <1>7
<1>9. ToSet(t) = ToSet(s)
  BY <1>2, <1>6, <1>7, <1>8 DEF ToSet
<1>10. ASSUME NEW f
       PROVE  Cardinality({i \in DOMAIN t : t[i] = f}) = Cardinality({i \in DOMAIN s : s[i] = f})
  <2> DEFINE T == {i \in DOMAIN t : t[i] = f}
             S == {i \in DOMAIN s : s[i] = f}
             q == [i \in T |-> p[i]]
  <2>1. S \in SUBSET (1 .. n)
    BY <1>2
  <2>2. IsFiniteSet(S)
    BY <1>3, <2>1, FS_Subset
  <2>3. \A i \in T : q[i] \in S
    BY <1>2, <1>7, <1>8
  <2>4. \A i, j \in T : q[i] = q[j] => i = j
    BY <1>1, <1>2, <1>8
  <2>5. \A j \in S : \E i \in T : q[i] = j
    BY <1>2, <1>6, <1>7, <1>8
  <2>6. q \in Injection(T, S) /\ q \in Surjection(T, S)
    BY <2>3, <2>4, <2>5 DEF Injection, IsInjective, Surjection
  <2> HIDE DEF T, S, q
  <2>7. Cardinality(T) = Cardinality(S)
    BY <2>2, <2>6, FS_Injection
  <2> QED BY <2>7 DEF T, S
<1>11. Signature(t) = Signature(s)
  BY <1>9, <1>10 DEF Signature
<1>12. \A what : HasOdd(t, what) <=> HasOdd(s, what)
  <2>1. ASSUME NEW what, NEW i \in DOMAIN t, t[i].odd = what
        PROVE  p[i] \in DOMAIN s /\ s[p[i]].odd = what
    BY <1>2, <1>7, <1>8, <2>1
  <2>2. ASSUME NEW what, NEW j \in DOMAIN s, s[j].odd = what
        PROVE  \E i \in DOMAIN t : t[i].odd = what
    <3>1. PICK i \in 1 .. n : p[i] = j
      BY <1>2, <1>6
    <3>2. i \in DOMAIN t /\ t[i] = s[j]
      BY <1>7, <1>8, <3>1
    <3> QED BY <2>2, <3>2
  <2> QED BY <2>1, <2>2 DEF HasOdd
<1>13. t = <<>> <=> s = <<>>
  BY <1>2, <1>8 DEF n
<1> QED BY <1>2, <1>8, <1>11, <1>12, <1>13 DEF n

(* A list is in its own order.                                             *)
LEMMA ReorderedItself ==
  ASSUME NEW s \in Seq(Suggestion)
  PROVE  s \in Reordered(s)
<1> DEFINE p == [i \in DOMAIN s |-> i]
<1>1. /\ p \in [DOMAIN s -> DOMAIN s] /\ \A i, j \in DOMAIN s : p[i] = p[j] => i = j
      /\ s = [i \in DOMAIN s |-> s[p[i]]]
  OBVIOUS
<1> HIDE DEF p
<1> QED BY <1>1 DEF Reordered

-----------------------------------------------------------------------------
(* The stage goes on with another review, and nothing is recorded yet.     *)
LEMMA ReviewsKeep ==
  ASSUME AInv, NEW new, NEW next \in AuditStages \ {"start", "checkout"}, Reviews(new, next),
         stage \notin {"output"} \cup Ended, DOMAIN new = Fields, AnswerOK(new, next),
         next = "raised" => HasOdd(new.given, "line") \/ audit.feedback = "undecodable",
         next = "raised while recording" => HasOdd(new.given, "evidence"),
         next = "done" => audit.ir = "no fingerprint"
  PROVE  AInv'
<1>1. /\ stage' = next /\ review' = new /\ UNCHANGED <<audit, proven, kept>>
      /\ clone' = IF next \in Ended /\ clone = "made" THEN "gone" ELSE clone
  BY DEF Reviews, GoesTo
<1>2. Shapes'
  BY <1>1 DEF AInv, Shapes
<1>3. CheckoutIsRemoved'
  BY <1>1 DEF AInv, CheckoutIsRemoved
<1>4. AnswerIsKept'
  BY <1>1 DEF AnswerIsKept, AnswerOK, Strategies
<1>5. EndIsExplained'
  BY <1>1 DEF EndIsExplained, HasOdd
<1>6. kept.trajectory = <<>>
  BY DEF AInv, DocumentIsKept
<1>7. DocumentIsKept'
  BY <1>1, <1>6 DEF AInv, DocumentIsKept
<1> QED BY <1>2, <1>3, <1>4, <1>5, <1>7 DEF AInv

(* A stage that is skipped leaves the review as it is.                     *)
LEMMA SkipKeeps ==
  ASSUME AInv, NEW next \in AuditStages \ {"start", "checkout"}, Skips(next),
         stage \notin {"start", "output"} \cup Ended,
         next \in BeforeReview => stage \in BeforeReview,
         next \in Reviewing => stage \in Reviewing,
         next \in Recording /\ audit.key => review.result = "debate",
         next = "raised" => HasOdd(review.given, "line") \/ audit.feedback = "undecodable",
         next = "raised while recording" => HasOdd(review.given, "evidence"),
         next = "done" => audit.ir = "no fingerprint"
  PROVE  AInv'
<1>1. Reviews(review, next)
  BY DEF Skips, Reviews
<1>2. DOMAIN review = Fields /\ AnswerOK(review, stage)
  BY DEF AInv, Shapes, AnswerIsKept
<1>3. AnswerOK(review, next)
  BY <1>2 DEF AnswerOK
<1> QED BY <1>1, <1>2, <1>3, ReviewsKeep

(* Nothing was asked for yet.                                              *)
LEMMA PipelineStarts == PipelineInit => AInv
<1> SUFFICES ASSUME PipelineInit PROVE AInv
  OBVIOUS
<1>1. /\ stage = "start" /\ clone = "none" /\ review.result = "none" /\ review.strategy = "none"
      /\ review.suggestions = <<>> /\ DOMAIN review = Fields
      /\ kept.trajectory = <<>> /\ kept.staged = FALSE /\ DOMAIN kept = {"trajectory", "staged", "output"}
  BY DEF PipelineInit, NoReview, NothingKept, Fields
<1>2. Shapes /\ CheckoutIsRemoved
  BY <1>1 DEF Shapes, CheckoutIsRemoved, AuditStages, BeforeReview, Ended
<1>3. AnswerIsKept
  BY <1>1 DEF AnswerIsKept, AnswerOK, Reviewing, Recording
<1>4. EndIsExplained /\ DocumentIsKept
  BY <1>1 DEF EndIsExplained, DocumentIsKept
<1> QED BY <1>2, <1>3, <1>4 DEF AInv

(* A command line is chosen, and its project is looked for.                *)
LEMMA CheckoutKeeps ==
  ASSUME AInv, ResolveProject \/ \E setup \in Setups : Chosen(setup)
  PROVE  AInv'
<1>1. /\ stage \in {"start", "checkout"} /\ UNCHANGED <<proven, review, kept>>
      /\ stage = "checkout" => UNCHANGED audit
      /\ stage' \in {"checkout", "session", "exit 1"}
      /\ stage = "start" => stage' = "checkout" /\ clone' = clone
      /\ stage = "checkout" => stage' # "checkout"
      /\ stage' = "exit 1" => clone' \in {"gone", clone}
  BY DEF ResolveProject, Chosen
<1>2. clone = "none" /\ DOMAIN review = Fields
  BY <1>1 DEF AInv, CheckoutIsRemoved, Shapes
<1>3. Shapes' /\ CheckoutIsRemoved'
  BY <1>1, <1>2 DEF AInv, Shapes, CheckoutIsRemoved, AuditStages, BeforeReview, Ended
<1>4. review.result # "debate" /\ review.suggestions = <<>>
  BY <1>1 DEF AInv, AnswerIsKept, AnswerOK, BeforeReview
<1>5. review.strategy = "none" \/ (stage = "checkout" /\ review.strategy \in Strategies)
  BY <1>1 DEF AInv, AnswerIsKept, AnswerOK
<1>6. AnswerIsKept'
  BY <1>1, <1>4, <1>5 DEF AnswerIsKept, AnswerOK, Reviewing, Recording, Strategies
<1>7. kept.trajectory = <<>> /\ ~kept.staged
  BY <1>1 DEF AInv, DocumentIsKept, Ended
<1>8. EndIsExplained' /\ DocumentIsKept'
  BY <1>1, <1>7 DEF EndIsExplained, DocumentIsKept
<1> QED BY <1>3, <1>6, <1>8 DEF AInv

(* The session proves findings, the first ones or those of the reader.     *)
LEMMA FindingsKeep ==
  ASSUME AInv, stage \in {"session", "reader"}, NEW next \in {"route", "strategy"}, GoesTo(next),
         UNCHANGED <<audit, review, kept>>
  PROVE  AInv'
<1>1. stage' = next /\ clone' = clone
  BY DEF GoesTo, Ended
<1>2. Shapes' /\ CheckoutIsRemoved'
  BY <1>1 DEF AInv, Shapes, CheckoutIsRemoved, AuditStages, BeforeReview, Ended
<1>3. AnswerIsKept'
  BY <1>1 DEF AInv, AnswerIsKept, AnswerOK, Reviewing, Recording, BeforeReview, Strategies
<1>4. kept.trajectory = <<>> /\ ~kept.staged
  BY DEF AInv, DocumentIsKept, Ended
<1>5. EndIsExplained' /\ DocumentIsKept'
  BY <1>1, <1>4 DEF EndIsExplained, DocumentIsKept
<1> QED BY <1>2, <1>3, <1>5 DEF AInv

(* The checkout is analysed, or the command ends there.                    *)
LEMMA SessionKeeps == AInv /\ (RunSession \/ Route \/ ReadProject) => AInv'
<1> SUFFICES ASSUME AInv, RunSession \/ Route \/ ReadProject PROVE AInv'
  OBVIOUS
<1> USE DEF AuditStages, BeforeReview, Reviewing, Recording, Ended
<1>1. CASE RunSession
  <2>1. CASE audit.mode = "wizard" /\ ~audit.key /\ Skips("exit 1")
    BY <1>1, <2>1, SkipKeeps DEF RunSession
  <2>2. CASE audit.ir = "no fingerprint" /\ Skips(IF audit.mode = "wizard" THEN "exit 1" ELSE "done")
    BY <1>1, <2>2, SkipKeeps DEF RunSession
  <2>3. CASE GoesTo("route") /\ UNCHANGED <<audit, review, kept>>
    BY <1>1, <2>3, FindingsKeep DEF RunSession
  <2> QED BY <1>1, <2>1, <2>2, <2>3 DEF RunSession
<1>2. CASE Route
  <2>1. stage = "route"
    BY <1>2 DEF Route
  <2>2. CASE ~audit.key /\ Skips("trajectory")
    BY <2>1, <2>2, SkipKeeps
  <2>3. CASE audit.key /\ (Skips("fallback") \/ Skips("reader"))
    BY <2>1, <2>3, SkipKeeps
  <2>4. CASE ~audit.key /\ Reviews([review EXCEPT !.result = "session"], "trajectory")
    <3> DEFINE new == [review EXCEPT !.result = "session"]
    <3>1. DOMAIN review = Fields /\ AnswerOK(review, stage)
      BY DEF AInv, Shapes, AnswerIsKept
    <3>2. /\ DOMAIN new = Fields /\ new.result = "session" /\ new.suggestions = review.suggestions
          /\ new.strategy = review.strategy
      BY <3>1 DEF Fields
    <3> HIDE DEF new
    <3>3. AnswerOK(new, "trajectory")
      BY <2>1, <2>4, <3>1, <3>2 DEF AnswerOK
    <3>4. Reviews(new, "trajectory")
      BY <2>4 DEF new
    <3> QED BY <2>1, <3>2, <3>3, <3>4, ReviewsKeep
  <2> QED BY <1>2, <2>2, <2>3, <2>4 DEF Route
<1>3. CASE ReadProject
  BY <1>3, FindingsKeep DEF ReadProject
<1> QED BY <1>1, <1>2, <1>3

(* A debate's answer, over the pack it was given.                          *)
LEMMA AnswerArrives ==
  ASSUME NEW pack, NEW a \in Grounded(pack), NEW new, NEW next,
         new.strategy = "none" \/ new.strategy \in Strategies,
         next \in AuditStages \ BeforeReview, new.result = "debate",
         new.given = a, new.suggestions = a, new.pack = pack
  PROVE  AnswerOK(new, next)
<1>1. a \in Seq(Suggestion) /\ \A i \in DOMAIN a : a[i].fact \in pack
  BY PipelineAssumption DEF Grounded
<1>2. a \in Reordered(a)
  BY <1>1, ReorderedItself
<1> QED BY <1>1, <1>2 DEF AnswerOK, AuditStages, BeforeReview

(* The stages that prepare the review, and the review.                     *)
LEMMA ReviewKeeps ==
  ASSUME AInv, Fallback \/ ChooseStrategy \/ Retrieve \/ RunTools \/ MakeVerifier \/ RunReview
  PROVE  AInv'
<1> USE DEF AuditStages, BeforeReview, Reviewing, Recording, Ended
<1>1. /\ DOMAIN review = Fields /\ stage \in BeforeReview \ {"start"} /\ stage # "output"
      /\ review.result # "debate" /\ review.suggestions = <<>>
      /\ review.strategy = "none" \/ review.strategy \in Strategies
  BY DEF AInv, Shapes, AnswerIsKept, AnswerOK, Fallback, ChooseStrategy, Retrieve, RunTools, MakeVerifier,
         RunReview
<1>2. ASSUME NEW new, NEW next \in {"retrieve", "tools", "verifier", "debate"}, Reviews(new, next),
             DOMAIN new = Fields, new.result = review.result, new.suggestions = review.suggestions,
             new.strategy = review.strategy \/ new.strategy \in Strategies
      PROVE  AInv'
  <2>1. AnswerOK(new, next)
    BY <1>1, <1>2 DEF AnswerOK
  <2> QED BY <1>1, <1>2, <2>1, ReviewsKeep
<1>3. CASE ChooseStrategy
  <2>1. PICK candidate :
          Reviews([review EXCEPT !.strategy = IF candidate \in Strategies THEN candidate
                                              ELSE FallbackStrategy], "retrieve")
    BY <1>3 DEF ChooseStrategy
  <2> DEFINE chosen == IF candidate \in Strategies THEN candidate ELSE FallbackStrategy
             new == [review EXCEPT !.strategy = chosen]
  <2>2. chosen \in Strategies
    BY DEF Strategies, FallbackStrategy
  <2> HIDE DEF chosen
  <2>3. /\ DOMAIN new = Fields /\ new.result = review.result /\ new.suggestions = review.suggestions
        /\ new.strategy = chosen
    BY <1>1 DEF Fields
  <2>4. Reviews(new, "retrieve")
    BY <2>1 DEF chosen
  <2> HIDE DEF new
  <2> QED BY <1>2, <2>2, <2>3, <2>4
<1>4. CASE Retrieve
  <2> DEFINE new == [review EXCEPT !.pack = GraphFacts \cup ToSet(proven), !.context = {"graph", "pack"}]
  <2>1. /\ DOMAIN new = Fields /\ new.result = review.result /\ new.suggestions = review.suggestions
        /\ new.strategy = review.strategy
    BY <1>1 DEF Fields
  <2>2. Reviews(new, "tools")
    BY <1>4 DEF Retrieve
  <2> HIDE DEF new
  <2> QED BY <1>2, <2>1, <2>2
<1>5. CASE RunTools
  <2> DEFINE New(done) == IF done THEN [review EXCEPT !.context = @ \cup {"tools"}] ELSE review
  <2>1. PICK done \in BOOLEAN : Reviews(New(done), "verifier")
    BY <1>5 DEF RunTools, Succeeds
  <2>2. /\ DOMAIN New(done) = Fields /\ New(done).result = review.result
        /\ New(done).suggestions = review.suggestions /\ New(done).strategy = review.strategy
    BY <1>1 DEF Fields
  <2> HIDE DEF New
  <2> QED BY <1>2, <2>1, <2>2
<1>6. CASE MakeVerifier
  <2>1. PICK made : Reviews([review EXCEPT !.verifier = made], "debate")
    BY <1>6 DEF MakeVerifier
  <2> DEFINE new == [review EXCEPT !.verifier = made]
  <2>2. /\ DOMAIN new = Fields /\ new.result = review.result /\ new.suggestions = review.suggestions
        /\ new.strategy = review.strategy
    BY <1>1 DEF Fields
  <2>3. Reviews(new, "debate")
    BY <2>1
  <2> HIDE DEF new
  <2> QED BY <1>2, <2>2, <2>3
<1>7. CASE Fallback
  <2>1. PICK a \in Grounded(FallbackPack) :
          Reviews([review EXCEPT !.pack = FallbackPack, !.context = {"source"}, !.given = a,
                                 !.suggestions = a, !.result = "debate"], AfterReview)
    BY <1>7 DEF Fallback
  <2> DEFINE new == [review EXCEPT !.pack = FallbackPack, !.context = {"source"}, !.given = a,
                                   !.suggestions = a, !.result = "debate"]
  <2>2. /\ DOMAIN new = Fields /\ new.strategy = review.strategy /\ new.result = "debate"
        /\ new.given = a /\ new.suggestions = a /\ new.pack = FallbackPack
    BY <1>1 DEF Fields
  <2>3. Reviews(new, AfterReview)
    BY <2>1
  <2> HIDE DEF new
  <2>4. AfterReview \in {"output", "signature", "trajectory"}
    BY DEF AfterReview
  <2>5. AnswerOK(new, AfterReview)
    BY <1>1, <2>2, <2>4, AnswerArrives
  <2> QED BY <1>1, <2>2, <2>3, <2>4, <2>5, ReviewsKeep
<1>8. CASE RunReview
  <2>1. PICK a \in Grounded(review.pack) :
          \/ HasOdd(a, "line") /\ Reviews([review EXCEPT !.given = a], "raised")
          \/ Reviews([review EXCEPT !.given = a, !.suggestions = a, !.result = "debate",
                                    !.report = IF Sharded THEN {"shards"} ELSE {}], "adjudicate")
    BY <1>8 DEF RunReview
  <2>2. CASE HasOdd(a, "line") /\ Reviews([review EXCEPT !.given = a], "raised")
    <3> DEFINE new == [review EXCEPT !.given = a]
    <3>1. /\ DOMAIN new = Fields /\ new.result = review.result /\ new.suggestions = review.suggestions
          /\ new.strategy = review.strategy /\ new.given = a
      BY <1>1 DEF Fields
    <3>2. Reviews(new, "raised")
      BY <2>2
    <3> HIDE DEF new
    <3>3. AnswerOK(new, "raised")
      BY <1>1, <3>1 DEF AnswerOK
    <3> QED BY <1>1, <2>2, <3>1, <3>2, <3>3, ReviewsKeep
  <2>3. CASE Reviews([review EXCEPT !.given = a, !.suggestions = a, !.result = "debate",
                                    !.report = IF Sharded THEN {"shards"} ELSE {}], "adjudicate")
    <3> DEFINE new == [review EXCEPT !.given = a, !.suggestions = a, !.result = "debate",
                                     !.report = IF Sharded THEN {"shards"} ELSE {}]
    <3>1. /\ DOMAIN new = Fields /\ new.strategy = review.strategy /\ new.result = "debate"
          /\ new.given = a /\ new.suggestions = a /\ new.pack = review.pack
      BY <1>1 DEF Fields
    <3>2. Reviews(new, "adjudicate")
      BY <2>3
    <3> HIDE DEF new
    <3>3. AnswerOK(new, "adjudicate")
      <4> DEFINE pack == review.pack
                 next == "adjudicate"
      <4>1. a \in Grounded(pack) /\ new.pack = pack
        BY <3>1
      <4>2. new.strategy = "none" \/ new.strategy \in Strategies
        BY <1>1, <3>1
      <4>3. next \in AuditStages \ BeforeReview
        OBVIOUS
      <4>4. new.result = "debate" /\ new.given = a /\ new.suggestions = a
        BY <3>1
      <4> HIDE DEF pack, next
      <4>5. AnswerOK(new, next)
        BY <4>1, <4>2, <4>3, <4>4, AnswerArrives
      <4> QED BY <4>5 DEF next
    <3> QED BY <1>1, <3>1, <3>2, <3>3, ReviewsKeep
  <2> QED BY <2>1, <2>2, <2>3
<1> QED BY <1>3, <1>4, <1>5, <1>6, <1>7, <1>8

(* The stages after the review, as long as its answer is as it was.        *)
LEMMA AfterwardsKeeps ==
  ASSUME AInv, Adjudicate \/ MergeReport \/ Stats \/ Sandbox \/ Summarize \/ RankByFeedback
  PROVE  AInv'
<1> USE DEF AuditStages, BeforeReview, Reviewing, Recording, Ended
<1>1. /\ DOMAIN review = Fields /\ stage \in Reviewing /\ AnswerOK(review, stage)
      /\ review.result = "debate" /\ review.suggestions = review.given
      /\ review.given \in Seq(Suggestion)
  <2>1. stage \in Reviewing
    BY DEF Adjudicate, MergeReport, Stats, Sandbox, Summarize, RankByFeedback
  <2> QED BY <2>1 DEF AInv, Shapes, AnswerIsKept, AnswerOK
<1>2. ASSUME NEW new, NEW next \in Reviewing \cup Recording, Reviews(new, next),
             DOMAIN new = Fields, new.result = review.result, new.suggestions = review.suggestions,
             new.given = review.given, new.pack = review.pack, new.strategy = review.strategy
      PROVE  AInv'
  <2>1. AnswerOK(new, next)
    BY <1>1, <1>2 DEF AnswerOK
  <2> QED BY <1>1, <1>2, <2>1, ReviewsKeep
<1>3. AfterReview \in Reviewing \cup Recording
  BY DEF AfterReview
<1>4. CASE Adjudicate
  <2>1. PICK done : Reviews([review EXCEPT !.labelled = done /\ review.suggestions # <<>>], "merge")
    BY <1>4 DEF Adjudicate
  <2> DEFINE label == done /\ review.suggestions # <<>>
             new == [review EXCEPT !.labelled = label]
  <2>2. Reviews(new, "merge")
    BY <2>1
  <2> HIDE DEF label
  <2>3. /\ DOMAIN new = Fields /\ new.result = review.result /\ new.suggestions = review.suggestions
        /\ new.given = review.given /\ new.pack = review.pack /\ new.strategy = review.strategy
    BY <1>1 DEF Fields
  <2> HIDE DEF new
  <2> QED BY <1>2, <2>2, <2>3
<1>5. CASE MergeReport
  <2> DEFINE new == [review EXCEPT !.report = {"session"} \cup @]
  <2>1. Reviews(new, "stats")
    BY <1>5 DEF MergeReport
  <2>2. /\ DOMAIN new = Fields /\ new.result = review.result /\ new.suggestions = review.suggestions
        /\ new.given = review.given /\ new.pack = review.pack /\ new.strategy = review.strategy
    BY <1>1 DEF Fields
  <2> HIDE DEF new
  <2> QED BY <1>2, <2>1, <2>2
<1>6. CASE Stats
  BY <1>6, <1>1, SkipKeeps DEF Stats
<1>7. CASE Sandbox
  <2>1. PICK done : Reviews([review EXCEPT !.patched = done], AfterReview)
    BY <1>7 DEF Sandbox
  <2> DEFINE new == [review EXCEPT !.patched = done]
  <2>2. Reviews(new, AfterReview)
    BY <2>1
  <2>3. /\ DOMAIN new = Fields /\ new.result = review.result /\ new.suggestions = review.suggestions
        /\ new.given = review.given /\ new.pack = review.pack /\ new.strategy = review.strategy
    BY <1>1 DEF Fields
  <2> HIDE DEF new
  <2> QED BY <1>2, <1>3, <2>2, <2>3
<1>8. CASE Summarize
  <2>1. CASE HasOdd(review.suggestions, "line") /\ Skips("raised")
    BY <1>1, <2>1, SkipKeeps
  <2>2. CASE Reviews([review EXCEPT !.report = @ \cup {"trials"}], "feedback")
    <3> DEFINE new == [review EXCEPT !.report = @ \cup {"trials"}]
    <3>1. Reviews(new, "feedback")
      BY <2>2
    <3>2. /\ DOMAIN new = Fields /\ new.result = review.result /\ new.suggestions = review.suggestions
          /\ new.given = review.given /\ new.pack = review.pack /\ new.strategy = review.strategy
      BY <1>1 DEF Fields
    <3> HIDE DEF new
    <3> QED BY <1>2, <3>1, <3>2
  <2> QED BY <1>8, <2>1, <2>2 DEF Summarize
<1>9. CASE RankByFeedback
  <2>1. CASE Skips("trajectory")
    BY <1>1, <2>1, SkipKeeps
  <2>2. CASE audit.feedback = "usable" /\ \E order \in Reordered(review.suggestions) :
               Reviews([review EXCEPT !.suggestions = order, !.report = @ \cup {"feedback"}], "trajectory")
    <3>1. PICK order \in Reordered(review.suggestions) :
            Reviews([review EXCEPT !.suggestions = order, !.report = @ \cup {"feedback"}], "trajectory")
      BY <2>2
    <3> DEFINE new == [review EXCEPT !.suggestions = order, !.report = @ \cup {"feedback"}]
    <3>2. Reviews(new, "trajectory")
      BY <3>1
    <3>3. /\ DOMAIN new = Fields /\ new.result = review.result /\ new.suggestions = order
          /\ new.given = review.given /\ new.pack = review.pack /\ new.strategy = review.strategy
      BY <1>1 DEF Fields
    <3> HIDE DEF new
    <3>4. AnswerOK(new, "trajectory")
      BY <1>1, <2>2, <3>1, <3>3 DEF AnswerOK
    <3> QED BY <1>1, <3>2, <3>3, <3>4, ReviewsKeep
  <2>3. CASE audit.feedback = "undecodable" /\ Skips("raised")
    BY <1>1, <2>3, SkipKeeps
  <2> QED BY <1>9, <2>1, <2>2, <2>3 DEF RankByFeedback
<1> QED BY <1>4, <1>5, <1>6, <1>7, <1>8, <1>9

-----------------------------------------------------------------------------
(* The document is made of the audit, what was proven and the review.      *)
LEMMA DocumentStays ==
  UNCHANGED <<audit, proven, review>> => Document' = Document
BY DEF Document, Findings, Rows, Deterministic, AnalysisSummary, Named

(* The document is written, and the report.                                *)
LEMMA RecordKeeps == AInv /\ (RecordTrajectory \/ SaveOutput) => AInv'
<1> SUFFICES ASSUME AInv, RecordTrajectory \/ SaveOutput PROVE AInv'
  OBVIOUS
<1> USE DEF AuditStages, BeforeReview, Reviewing, Recording, Ended
<1>1. /\ DOMAIN review = Fields /\ AnswerOK(review, stage) /\ stage \in {"trajectory", "output"}
      /\ DOMAIN kept = {"trajectory", "staged", "output"}
      /\ audit.key => review.result = "debate"
  BY DEF AInv, Shapes, AnswerIsKept, AnswerOK, RecordTrajectory, SaveOutput
<1>2. ASSUME ~Builds PROVE review.result = "debate" /\ HasOdd(review.given, "evidence")
  <2>1. review.result = "debate" /\ HasOdd(review.suggestions, "evidence")
    BY <1>2 DEF Builds
  <2>2. review.given \in Seq(Suggestion) /\ review.suggestions \in Reordered(review.given)
    BY <1>1, <2>1 DEF AnswerOK
  <2> DEFINE s == review.given  t == review.suggestions
  <2>3. s \in Seq(Suggestion) /\ t \in Reordered(s) /\ HasOdd(t, "evidence")
    BY <2>1, <2>2
  <2> HIDE DEF s, t
  <2>4. HasOdd(s, "evidence")
    BY <2>3, ReorderedFacts
  <2> QED BY <2>1, <2>4 DEF s
<1>3. ASSUME UNCHANGED <<audit, proven, review>>, NEW next \in {"output", "done", "exit 1"}, GoesTo(next),
             DOMAIN kept' = DOMAIN kept, kept'.trajectory \in {<<>>, <<Document>>},
             kept'.trajectory # <<>> \/ ~kept'.staged,
             next = "done" /\ audit.key /\ audit.output = "file" => kept'.output = "debate"
      PROVE  AInv'
  <2>1. /\ stage' = next /\ clone' = IF next \in Ended /\ clone = "made" THEN "gone" ELSE clone
        /\ Document' = Document
    BY <1>3, DocumentStays DEF GoesTo
  <2>2. Shapes' /\ CheckoutIsRemoved'
    BY <1>1, <1>3, <2>1 DEF Shapes, CheckoutIsRemoved
  <2>3. AnswerIsKept'
    BY <1>1, <1>3, <2>1 DEF AnswerIsKept, AnswerOK, Strategies
  <2>4. EndIsExplained'
    BY <1>1, <1>3, <2>1 DEF EndIsExplained
  <2>5. DocumentIsKept'
    BY <1>3, <2>1 DEF DocumentIsKept
  <2> QED BY <2>2, <2>3, <2>4, <2>5 DEF AInv
<1>4. CASE RecordTrajectory
  <2>1. stage = "trajectory" /\ kept.trajectory = <<>> /\ ~kept.staged
    BY <1>4 DEF RecordTrajectory, AInv, DocumentIsKept
  <2>2. CASE Skips("output")
    BY <1>1, <2>1, <2>2, SkipKeeps
  <2>3. CASE ~Builds /\ Skips("raised while recording")
    BY <1>1, <1>2, <2>1, <2>3, SkipKeeps
  <2>4. CASE /\ GoesTo("output") /\ UNCHANGED <<audit, proven, review>>
             /\ \E written \in IF Valid(Document) THEN Succeeds ELSE {FALSE} :
                \E staged \in IF written /\ Document.findings # <<>> THEN Succeeds ELSE {FALSE} :
                  kept' = IF written THEN [kept EXCEPT !.trajectory = <<Document>>, !.staged = staged] ELSE kept
    <3>1. PICK written, staged :
            kept' = IF written THEN [kept EXCEPT !.trajectory = <<Document>>, !.staged = staged] ELSE kept
      BY <2>4
    <3> DEFINE d == <<Document>>
    <3> SUFFICES AInv'
      OBVIOUS
    <3>2. d # <<>>
      OBVIOUS
    <3>3. kept' = IF written THEN [kept EXCEPT !.trajectory = d, !.staged = staged] ELSE kept
      BY <3>1
    <3> HIDE DEF d
    <3>4. /\ DOMAIN kept' = DOMAIN kept /\ kept'.trajectory \in {<<>>, d}
          /\ kept'.trajectory # <<>> \/ ~kept'.staged
      BY <1>1, <2>1, <3>2, <3>3
    <3>5. DOMAIN kept' = DOMAIN kept /\ kept'.trajectory \in {<<>>, <<Document>>}
      BY <3>4 DEF d
    <3> QED BY <1>3, <2>4, <3>4, <3>5
  <2> QED BY <1>4, <2>2, <2>3, <2>4 DEF RecordTrajectory
<1>5. CASE SaveOutput
  <2>1. UNCHANGED <<audit, proven, review>> /\ kept.trajectory \in {<<>>, <<Document>>}
        /\ (kept.trajectory # <<>> \/ ~kept.staged)
    BY <1>5 DEF SaveOutput, AInv, DocumentIsKept
  <2>2. CASE (audit.output = "none" \/ review.result = "none") /\ GoesTo("done") /\ UNCHANGED kept
    BY <1>1, <1>3, <2>1, <2>2
  <2>3. CASE audit.output = "file" /\ GoesTo("done") /\ kept' = [kept EXCEPT !.output = review.result]
    <3>1. /\ DOMAIN kept' = DOMAIN kept /\ kept'.output = review.result
          /\ kept'.trajectory = kept.trajectory /\ kept'.staged = kept.staged
      BY <1>1, <2>3
    <3> QED BY <1>1, <1>3, <2>1, <2>3, <3>1
  <2>4. CASE GoesTo("exit 1") /\ UNCHANGED kept
    BY <1>3, <2>1, <2>4
  <2> QED BY <1>5, <2>2, <2>3, <2>4 DEF SaveOutput
<1> QED BY <1>4, <1>5

(* Every step keeps the invariant.                                         *)
LEMMA PipelineStep == AInv /\ [PipelineNext]_auditVars => AInv'
<1> SUFFICES ASSUME AInv, [PipelineNext]_auditVars PROVE AInv'
  OBVIOUS
<1>1. CASE UNCHANGED auditVars
  <2>1. UNCHANGED <<audit, stage, clone, proven, review, kept>> /\ Document' = Document
    BY <1>1, DocumentStays DEF auditVars
  <2>2. Shapes' /\ CheckoutIsRemoved'
    BY <2>1 DEF AInv, Shapes, CheckoutIsRemoved
  <2>3. AnswerIsKept'
    BY <2>1 DEF AInv, AnswerIsKept, AnswerOK, Strategies
  <2>4. EndIsExplained' /\ DocumentIsKept'
    BY <2>1 DEF AInv, EndIsExplained, DocumentIsKept
  <2> QED BY <2>2, <2>3, <2>4 DEF AInv
<1> QED
  BY <1>1, CheckoutKeeps, SessionKeeps, ReviewKeeps, AfterwardsKeeps, RecordKeeps DEF PipelineNext

-----------------------------------------------------------------------------
(* What the store is given is what the review gave, in its order, without  *)
(* its secrets.                                                            *)
LEMMA DocumentIsTheAudit ==
  ASSUME AInv
  PROVE  /\ IF review.result = "debate" /\ review.given # <<>>
            THEN /\ Len(Document.findings) = Len(review.suggestions)
                 /\ \A n \in DOMAIN Document.findings :
                      Document.findings[n].fact = review.suggestions[n].fact
            ELSE Document.findings = Deterministic
         /\ \A n \in DOMAIN Document.findings : Document.findings[n].title # "secret"
         /\ Named => Valid(Document)
<1>1. Document.findings = Redacted(Findings)
  BY DEF Document
<1>2. \A n \in DOMAIN Document.findings : Document.findings[n].title # "secret"
  <2>1. /\ DOMAIN Findings = DOMAIN Redacted(Findings)
        /\ \A n \in DOMAIN Findings : /\ DOMAIN Findings[n] = {"fact", "title"}
                                     /\ Redacted(Findings)[n] =
             [Findings[n] EXCEPT !.title = IF Findings[n].title = "secret" THEN "masked"
                                           ELSE Findings[n].title]
    BY DEF Findings, Rows, Deterministic, Redacted
  <2>2. \A n \in DOMAIN Findings : Redacted(Findings)[n].title # "secret"
    BY <2>1
  <2> QED BY <1>1, <2>1, <2>2
<1>3. Named => Valid(Document)
  BY DEF Document, Valid
<1>4. CASE review.result = "debate" /\ review.given # <<>>
  <2> DEFINE s == review.suggestions
  <2>1. s \in Seq(Suggestion) /\ s # <<>>
    <3>1. review.given \in Seq(Suggestion) /\ s \in Reordered(review.given)
      BY <1>4 DEF AInv, AnswerIsKept, AnswerOK
    <3> DEFINE g == review.given
    <3>2. g \in Seq(Suggestion) /\ s \in Reordered(g) /\ g # <<>>
      BY <1>4, <3>1
    <3> HIDE DEF g, s
    <3> QED BY <3>2, ReorderedFacts
  <2>2. Findings = Rows(s)
    BY <1>4, <2>1 DEF Findings
  <2> DEFINE d == Document.findings
  <2>3. d = Redacted(Rows(s))
    BY <1>1, <2>2
  <2> HIDE DEF s, d
  <2>4. /\ d = [n \in 1 .. Len(s) |-> d[n]] /\ Len(s) \in Nat
        /\ \A n \in 1 .. Len(s) : d[n].fact = s[n].fact
    BY <2>1, <2>3 DEF Redacted, Rows
  <2>5. Len(d) = Len(s) /\ DOMAIN d = 1 .. Len(s)
    BY <2>4
  <2> QED BY <1>2, <1>3, <1>4, <2>4, <2>5 DEF s, d
<1>5. CASE ~(review.result = "debate" /\ review.given # <<>>)
  <2>1. review.result = "debate" => review.suggestions = <<>>
    <3>1. CASE review.result = "debate"
      <4> DEFINE g == review.given  s == review.suggestions
      <4>1. g \in Seq(Suggestion) /\ s \in Reordered(g) /\ g = <<>>
        BY <1>5, <3>1 DEF AInv, AnswerIsKept, AnswerOK
      <4> HIDE DEF g, s
      <4>2. s = <<>>
        BY <4>1, ReorderedFacts
      <4> QED BY <4>2 DEF s
    <3> QED BY <3>1
  <2>2. Findings = Deterministic
    BY <2>1 DEF Findings
  <2>3. Redacted(Deterministic) = Deterministic
    <3>1. \A i \in DOMAIN proven :
            [[fact |-> proven[i], title |-> "plain"] EXCEPT
               !.title = IF [fact |-> proven[i], title |-> "plain"].title = "secret" THEN "masked"
                         ELSE [fact |-> proven[i], title |-> "plain"].title]
            = [fact |-> proven[i], title |-> "plain"]
      OBVIOUS
    <3> QED BY <3>1 DEF Redacted, Deterministic
  <2>4. Document.findings = Deterministic
    BY <1>1, <2>2, <2>3
  <2> QED BY <1>2, <1>3, <1>5, <2>4
<1> QED BY <1>4, <1>5

(* The invariant is what the property says.                                *)
LEMMA AInvAccounts == AInv => AuditIsAccounted
<1> SUFFICES ASSUME AInv PROVE AuditIsAccounted
  OBVIOUS
<1>1. AuditIsKept
  <2>1. review.result = "debate" => Signature(review.suggestions) = Signature(review.given)
    <3>1. CASE review.result = "debate"
      <4> DEFINE g == review.given  s == review.suggestions
      <4>1. g \in Seq(Suggestion) /\ s \in Reordered(g)
        BY <3>1 DEF AInv, AnswerIsKept, AnswerOK
      <4> HIDE DEF g, s
      <4>2. Signature(s) = Signature(g)
        BY <4>1, ReorderedFacts
      <4> QED BY <4>2 DEF g, s
    <3> QED BY <3>1
  <2> QED BY <2>1 DEF AInv, CheckoutIsRemoved, AnswerIsKept, AnswerOK, EndIsExplained, AuditIsKept,
                      PipelineEnd
<1>2. RecordIsTheAudit
  <2>1. kept.trajectory \in {<<>>, <<Document>>} /\ (kept.staged => kept.trajectory # <<>>)
    BY DEF AInv, DocumentIsKept
  <2> DEFINE d == Document
  <2>2. \A i \in DOMAIN kept.trajectory : kept.trajectory[i] = d
    <3> HIDE DEF d
    <3>1. kept.trajectory \in {<<>>, <<d>>}
      BY <2>1 DEF d
    <3> QED BY <3>1
  <2>3. /\ IF review.result = "debate" /\ review.given # <<>>
            THEN /\ Len(d.findings) = Len(review.suggestions)
                 /\ \A n \in DOMAIN d.findings : d.findings[n].fact = review.suggestions[n].fact
            ELSE d.findings = Deterministic
        /\ \A n \in DOMAIN d.findings : d.findings[n].title # "secret"
        /\ Named => Valid(d)
    BY DocumentIsTheAudit
  <2> HIDE DEF d
  <2> QED BY <2>1, <2>2, <2>3 DEF RecordIsTheAudit, d
<1> QED BY <1>1, <1>2 DEF AuditIsAccounted

(* Whichever optional stage of an audit fails, its report holds what the   *)
(* review gave, the recorded trajectory is that report without its secrets *)
(* (cli/phases.py, trajectory/build.py), and a checkout is removed.        *)
THEOREM AuditIsAlwaysAccounted == PipelineSpec => []AuditIsAccounted
BY PipelineStarts, PipelineStep, AInvAccounts, PTL DEF PipelineSpec

-----------------------------------------------------------------------------
(* The scan of a project, and the tools run on it: lemmas about lists.     *)
FileType == [lang : STRING \ {"mixed", "unknown"}, lines : Nat, safe : BOOLEAN,
             dir : Nat]

(* The beginning of a list.                                                *)
LEMMA BeginningIsPrefix ==
  ASSUME NEW S, NEW s \in Seq(S), NEW n \in Nat
  PROVE  /\ Beginning(s, n) \in Seq(S)
         /\ Len(Beginning(s, n)) = IF Len(s) > n THEN n ELSE Len(s)
         /\ \A i \in 1 .. Len(Beginning(s, n)) : i \in 1 .. Len(s) /\ Beginning(s, n)[i] = s[i]
<1> DEFINE m == IF Len(s) > n THEN n ELSE Len(s)
<1>1. m \in Nat /\ m <= Len(s) /\ Len(s) \in Nat
  BY LenProperties
<1>2. \A i \in 1 .. m : s[i] \in S
  BY <1>1, ElementOfSeq
<1>3. Beginning(s, n) = SubSeq(s, 1, m)
  BY DEF Beginning
<1> HIDE DEF m
<1>4. /\ SubSeq(s, 1, m) \in Seq(S) /\ Len(SubSeq(s, 1, m)) = m
      /\ \A i \in 1 .. m : SubSeq(s, 1, m)[i] = s[i]
  BY <1>1, <1>2, SubSeqProperties
<1> QED BY <1>1, <1>3, <1>4 DEF m

(* A part of a list has the elements of the positions that are kept.       *)
LEMMA KeptElements ==
  ASSUME NEW S, NEW s \in Seq(S), NEW P \in SUBSET DOMAIN s
  PROVE  /\ Range(AtPositions(s, P)) = {s[n] : n \in P}
         /\ \A i \in 1 .. Len(AtPositions(s, P)) : \E n \in P : AtPositions(s, P)[i] = s[n]
         /\ AtPositions(s, P) = <<>> <=> P = {}
         /\ (\A a, b \in P : s[a] = s[b] => a = b) => IsInjective(AtPositions(s, P))
<1> DEFINE t == AtPositions(s, P)
           c == Cardinality(P)
<1>1. /\ IsFiniteSet(P) /\ c \in Nat /\ t \in Seq(S) /\ Len(t) = c
      /\ \A i \in 1 .. c : Nth(P, i) \in P /\ t[i] = s[Nth(P, i)]
      /\ \A i, j \in 1 .. c : i < j => Nth(P, i) < Nth(P, j)
      /\ \A n \in P : \E i \in 1 .. c : Nth(P, i) = n
  BY AtPositionsIsSubsequence
<1>2. DOMAIN t = 1 .. c
  BY <1>1, LenProperties
<1>3. P \subseteq Nat
  BY LenProperties
<1> HIDE DEF t
<1>4. Range(t) = {s[n] : n \in P}
  <2>1. ASSUME NEW x \in Range(t) PROVE x \in {s[n] : n \in P}
    BY <1>1, <1>2, <2>1 DEF Range
  <2>2. ASSUME NEW n \in P PROVE s[n] \in Range(t)
    BY <1>1, <1>2, <2>2 DEF Range
  <2> QED BY <2>1, <2>2
<1>5. \A i \in 1 .. Len(t) : \E n \in P : t[i] = s[n]
  BY <1>1
<1>6. t = <<>> <=> P = {}
  BY <1>1, EmptySeq, FS_EmptySet
<1>7. ASSUME \A a, b \in P : s[a] = s[b] => a = b PROVE IsInjective(t)
  <2>1. ASSUME NEW i \in 1 .. c, NEW j \in 1 .. c, t[i] = t[j] PROVE i = j
    <3>1. Nth(P, i) = Nth(P, j)
      BY <1>1, <1>7, <2>1
    <3>2. Nth(P, i) \in Nat
      BY <1>1, <1>3
    <3> QED BY <1>1, <3>1, <3>2
  <2> QED BY <1>2, <2>1 DEF IsInjective
<1> QED BY <1>4, <1>5, <1>6, <1>7 DEF t

(* Each element once.                                                      *)
LEMMA EachOnceIsOnce ==
  ASSUME NEW S, NEW s \in Seq(S)
  PROVE  EachOnce(s) \in Seq(S) /\ Range(EachOnce(s)) = Range(s) /\ IsInjective(EachOnce(s))
<1> DEFINE P == {i \in DOMAIN s : \A j \in 1 .. i - 1 : s[j] # s[i]}
<1>1. DOMAIN s = 1 .. Len(s) /\ Len(s) \in Nat /\ P \in SUBSET DOMAIN s
  BY LenProperties
<1>2. EachOnce(s) = AtPositions(s, P)
  BY DEF EachOnce
<1>3. \A a, b \in P : s[a] = s[b] => a = b
  <2>1. ASSUME NEW a \in P, NEW b \in P, s[a] = s[b], a < b PROVE FALSE
    BY <1>1, <2>1
  <2> QED BY <1>1, <2>1
<1>4. ASSUME NEW i \in DOMAIN s PROVE \E n \in P : s[n] = s[i]
  <2> DEFINE T == {j \in DOMAIN s : s[j] = s[i]}
  <2>1. T \in SUBSET Nat /\ T # {}
    BY <1>1
  <2>2. PICK m \in T : \A k \in T : m <= k
    <3> HIDE DEF T
    <3> QED BY <2>1, LeastNatural
  <2> QED BY <1>1, <2>2
<1>5. {s[n] : n \in P} = Range(s)
  BY <1>1, <1>4 DEF Range
<1> HIDE DEF P
<1>6. AtPositions(s, P) \in Seq(S)
  BY <1>1, AtPositionsIsSubsequence
<1>7. Range(AtPositions(s, P)) = Range(s) /\ IsInjective(AtPositions(s, P))
  BY <1>1, <1>3, <1>5, KeptElements
<1> QED BY <1>2, <1>6, <1>7

-----------------------------------------------------------------------------
(* The languages of the files (_detect_languages).                         *)
LEMMA FilesAreCounted ==
  ASSUME NEW files \in Seq(FileType)
  PROVE  /\ DOMAIN files = 1 .. Len(files) /\ Len(files) \in Nat
         /\ Sources(files) \in SUBSET DOMAIN files
         /\ IsFiniteSet(Sources(files)) /\ Cardinality(Sources(files)) \in Nat
         /\ \A l : FilesOf(files, l) \in SUBSET DOMAIN files /\ IsFiniteSet(FilesOf(files, l))
         /\ \A l : CountOf(files, l) \in Nat
         /\ \A l \in LanguagesOf(files) :
              FilesOf(files, l) \in SUBSET Sources(files) /\ FilesOf(files, l) # {} /\ CountOf(files, l) > 0
         /\ IsFiniteSet(LanguagesOf(files)) /\ "mixed" \notin LanguagesOf(files)
              /\ "unknown" \notin LanguagesOf(files)
         /\ LanguagesOf(files) = {} <=> Sources(files) = {}
<1>1. DOMAIN files = 1 .. Len(files) /\ Len(files) \in Nat /\ IsFiniteSet(DOMAIN files)
  BY LenProperties, FS_Interval
<1>2. Sources(files) \in SUBSET DOMAIN files
  BY DEF Sources
<1>3. IsFiniteSet(Sources(files)) /\ Cardinality(Sources(files)) \in Nat
  BY <1>1, <1>2, FS_Subset, FS_CardinalityType
<1>4. ASSUME NEW l
      PROVE  FilesOf(files, l) \in SUBSET DOMAIN files /\ IsFiniteSet(FilesOf(files, l))
             /\ CountOf(files, l) \in Nat
  <2>1. FilesOf(files, l) \in SUBSET DOMAIN files
    BY DEF FilesOf
  <2> QED BY <1>1, <2>1, FS_Subset, FS_CardinalityType DEF CountOf
<1>5. ASSUME NEW l \in LanguagesOf(files)
      PROVE  FilesOf(files, l) \in SUBSET Sources(files) /\ FilesOf(files, l) # {} /\ CountOf(files, l) > 0
  <2>1. FilesOf(files, l) \in SUBSET Sources(files) /\ FilesOf(files, l) # {}
    BY DEF LanguagesOf, FilesOf, Sources
  <2>2. CountOf(files, l) # 0
    BY <1>4, <2>1, FS_EmptySet DEF CountOf
  <2> QED BY <1>4, <2>1, <2>2
<1>6. IsFiniteSet(LanguagesOf(files))
  <2> DEFINE f == [i \in Sources(files) |-> files[i].lang]
  <2>1. f \in Surjection(Sources(files), LanguagesOf(files))
    BY DEF Surjection, LanguagesOf
  <2> HIDE DEF f
  <2> QED BY <1>3, <2>1, FS_Surjection
<1>7. \A i \in DOMAIN files : files[i].lang \notin {"mixed", "unknown"}
  <2>1. \A i \in 1 .. Len(files) : files[i] \in FileType
    BY ElementOfSeq
  <2> QED BY <1>1, <2>1 DEF FileType
<1>8. /\ "mixed" \notin LanguagesOf(files) /\ "unknown" \notin LanguagesOf(files)
      /\ LanguagesOf(files) = {} <=> Sources(files) = {}
  BY <1>2, <1>7 DEF LanguagesOf
<1> QED BY <1>1, <1>2, <1>3, <1>4, <1>5, <1>6, <1>8

(* Two languages have no file together.                                    *)
LEMMA LanguagesAreApart ==
  ASSUME NEW files \in Seq(FileType), NEW a \in LanguagesOf(files), NEW b \in LanguagesOf(files), a # b
  PROVE  CountOf(files, a) + CountOf(files, b) <= Cardinality(Sources(files))
<1> DEFINE A == FilesOf(files, a)
           B == FilesOf(files, b)
<1>1. IsFiniteSet(A) /\ IsFiniteSet(B) /\ IsFiniteSet(Sources(files)) /\ A \cup B \in SUBSET Sources(files)
  BY FilesAreCounted
<1>2. A \cap B = {}
  BY DEF FilesOf
<1>3. Cardinality(A \cup B) = Cardinality(A) + Cardinality(B)
  <2> HIDE DEF A, B
  <2>1. Cardinality(A \cup B) = Cardinality(A) + Cardinality(B) - Cardinality({})
    BY <1>1, <1>2, FS_Union
  <2> QED BY <1>1, <2>1, FS_EmptySet, FS_CardinalityType
<1>4. Cardinality(A \cup B) <= Cardinality(Sources(files))
  BY <1>1, FS_Subset
<1> QED BY <1>3, <1>4 DEF CountOf

(* Languages with more files come first, and of two with as many that      *)
(* which was found first.                                                  *)
LEMMA OutnumbersIsAnOrder ==
  ASSUME NEW files \in Seq(FileType), NEW L, L = LanguagesOf(files),
         NEW R, R = {x \in L \X L : Outnumbers(files, x[1], x[2])}
  PROVE  /\ \A a, b : <<a, b>> \in R <=> a \in L /\ b \in L /\ Outnumbers(files, a, b)
         /\ IsStrictOrder(L, R)
<1>1. \A a, b : <<a, b>> \in R <=> a \in L /\ b \in L /\ Outnumbers(files, a, b)
  OBVIOUS
<1> DEFINE Files(l) == FilesOf(files, l)
           N(l) == CountOf(files, l)
<1>2. \A l \in L : Files(l) \in SUBSET Nat /\ Files(l) # {} /\ N(l) \in Nat
  BY FilesAreCounted
<1>3. \A a, b : Outnumbers(files, a, b) <=>
                  N(a) > N(b) \/ (N(a) = N(b) /\ \E i \in Files(a) : \A j \in Files(b) : i < j)
  BY DEF Outnumbers
<1>4. ASSUME NEW a \in L, NEW b \in L, a # b PROVE Files(a) \cap Files(b) = {}
  BY <1>4 DEF FilesOf
<1> HIDE DEF Files, N
<1>5. \A a \in L : ~Outnumbers(files, a, a)
  BY <1>2, <1>3
<1>6. ASSUME NEW a \in L, NEW b \in L, a # b
      PROVE  Outnumbers(files, a, b) \/ Outnumbers(files, b, a)
  <2>1. PICK i \in Files(a) : \A k \in Files(a) : i <= k
    BY <1>2, LeastNatural
  <2>2. PICK j \in Files(b) : \A k \in Files(b) : j <= k
    BY <1>2, LeastNatural
  <2>3. i \in Nat /\ j \in Nat /\ i # j
    BY <1>2, <1>4, <1>6, <2>1, <2>2
  <2>4. Files(a) \subseteq Nat /\ Files(b) \subseteq Nat
    BY <1>2
  <2>5. (\A k \in Files(b) : i < k) \/ (\A k \in Files(a) : j < k)
    BY <2>1, <2>2, <2>3, <2>4
  <2> QED BY <1>2, <1>3, <2>5
<1>7. ASSUME NEW a \in L, NEW b \in L, NEW c \in L, Outnumbers(files, a, b), Outnumbers(files, b, c)
      PROVE  Outnumbers(files, a, c)
  <2>1. CASE N(a) = N(b) /\ N(b) = N(c)
    <3>1. PICK i \in Files(a) : \A j \in Files(b) : i < j
      BY <1>2, <1>3, <1>7, <2>1
    <3>2. PICK j \in Files(b) : \A k \in Files(c) : j < k
      BY <1>2, <1>3, <1>7, <2>1
    <3>3. i \in Nat /\ j \in Nat /\ Files(c) \subseteq Nat
      BY <1>2
    <3> QED BY <1>3, <2>1, <3>1, <3>2, <3>3
  <2>2. CASE ~(N(a) = N(b) /\ N(b) = N(c))
    BY <1>2, <1>3, <1>7, <2>2
  <2> QED BY <2>1, <2>2
<1> QED BY <1>1, <1>5, <1>6, <1>7 DEF IsStrictOrder

(* What the languages of some files are taken to be.                       *)
NamedLanguages(facts) == (Range(facts.secondary) \cup {facts.primary}) \ {"mixed"}
SpeaksFor(files, first, facts) ==
  LET L == LanguagesOf(files) IN
  /\ first \in L /\ \A l \in L : CountOf(files, l) <= CountOf(files, first)
  /\ facts.primary \in L \cup {"mixed"}
  /\ facts.secondary \in Seq(L) /\ IsInjective(facts.secondary)
  /\ NamedLanguages(facts) = {first} \cup {l \in L : Significant(files, l)}
  /\ \A l \in L : facts.primary = l <=> Dominant(files, l)

(* The first language by count leads, the significant ones follow, and     *)
(* only a dominant one is the primary one (LanguagesBy).                   *)
LEMMA LanguagesAreNamed ==
  ASSUME NEW files \in Seq(FileType), LanguagesOf(files) # {}
  PROVE  \E first : SpeaksFor(files, first, LanguagesBy(files))
<1> DEFINE L == LanguagesOf(files)
           R == {x \in L \X L : Outnumbers(files, x[1], x[2])}
           ordered == ByCount(files)
           n == Cardinality(L)
           rest == Tail(ordered)
           P == {i \in DOMAIN rest : Significant(files, rest[i])}
           others == AtPositions(rest, P)
           first == ordered[1]
           facts == LanguagesBy(files)
           N(l) == CountOf(files, l)
           total == Cardinality(Sources(files))
<1>1. IsFiniteSet(L) /\ "mixed" \notin L /\ \A l \in L : N(l) \in Nat /\ N(l) > 0
  BY FilesAreCounted
<1>2. ordered = Sorted(L, R)
  BY DEF ByCount
<1>3. /\ \A a, b : <<a, b>> \in R <=> a \in L /\ b \in L /\ Outnumbers(files, a, b)
      /\ IsStrictOrder(L, R)
  <2> HIDE DEF R, L
  <2>1. L = LanguagesOf(files) /\ R = {x \in L \X L : Outnumbers(files, x[1], x[2])}
    BY DEF R, L
  <2> QED BY <2>1, OutnumbersIsAnOrder
<1>4. /\ n \in Nat /\ ordered \in Seq(L) /\ Len(ordered) = n
      /\ \A x \in L : \E k \in 1 .. n : ordered[k] = x
      /\ \A j, k \in 1 .. n : j < k => <<ordered[j], ordered[k]>> \in R
  <2> HIDE DEF R, L
  <2> QED BY <1>1, <1>2, <1>3, SortedListsTheSet
<1>5. L # {} /\ n > 0
  BY <1>1, <1>4, FS_EmptySet
<1>6. /\ \A k \in 1 .. n : ordered[k] \in L
      /\ \A j, k \in 1 .. n : j # k => ordered[j] # ordered[k]
  <2> HIDE DEF R, L, ordered, n
  <2>1. \A k \in 1 .. n : ordered[k] \in L
    BY <1>4, ElementOfSeq
  <2>2. \A j, k \in 1 .. n : j < k => ordered[j] # ordered[k]
    BY <1>3, <1>4, <2>1 DEF IsStrictOrder
  <2> QED BY <1>4, <2>1, <2>2
<1>7. first \in L /\ \A l \in L : N(l) <= N(first)
  <2>1. first \in L
    BY <1>4, <1>5, <1>6
  <2>2. ASSUME NEW l \in L PROVE N(l) <= N(first)
    <3>1. PICK k \in 1 .. n : ordered[k] = l
      BY <1>4
    <3>2. CASE k = 1
      BY <1>1, <3>1, <3>2
    <3>3. CASE k # 1
      <4>1. <<ordered[1], l>> \in R
        BY <1>4, <1>5, <3>1, <3>3
      <4>2. Outnumbers(files, first, l)
        BY <1>3, <4>1
      <4> QED BY <1>1, <2>1, <4>2 DEF Outnumbers
    <3> QED BY <3>2, <3>3
  <2> QED BY <2>1, <2>2
<1>8. /\ rest \in Seq(L) /\ Len(rest) = n - 1 /\ DOMAIN rest = 1 .. n - 1
      /\ \A i \in 1 .. n - 1 : rest[i] = ordered[i + 1]
  <2> HIDE DEF L, ordered, n
  <2>1. ordered # <<>>
    BY <1>4, <1>5, EmptySeq
  <2> QED BY <1>4, <2>1, HeadTailProperties, LenProperties
<1>9. /\ others \in Seq(L) /\ IsInjective(others) /\ Range(others) = {l \in L \ {first} : Significant(files, l)}
  <2>1. P \in SUBSET DOMAIN rest
    OBVIOUS
  <2>2. \A a, b \in P : rest[a] = rest[b] => a = b
    <3>1. ASSUME NEW a \in 1 .. n - 1, NEW b \in 1 .. n - 1, rest[a] = rest[b] PROVE a = b
      <4>1. a + 1 \in 1 .. n /\ b + 1 \in 1 .. n /\ ordered[a + 1] = ordered[b + 1]
        BY <1>4, <1>8, <3>1
      <4>2. a + 1 = b + 1
        BY <1>6, <4>1
      <4> QED BY <4>2
    <3> QED BY <1>8, <2>1, <3>1
  <2>3. {rest[i] : i \in P} = {l \in L \ {first} : Significant(files, l)}
    <3>1. ASSUME NEW i \in P PROVE rest[i] \in L \ {first} /\ Significant(files, rest[i])
      <4>1. i \in 1 .. n - 1 /\ rest[i] = ordered[i + 1] /\ i + 1 \in 1 .. n /\ 1 \in 1 .. n
        BY <1>4, <1>8
      <4>2. ordered[i + 1] \in L /\ ordered[i + 1] # ordered[1]
        BY <1>6, <4>1
      <4> QED BY <4>1, <4>2
    <3>2. ASSUME NEW l \in L, l # first, Significant(files, l) PROVE \E i \in P : l = rest[i]
      <4>1. PICK k \in 1 .. n : ordered[k] = l
        BY <1>4
      <4>2. k - 1 \in 1 .. n - 1 /\ rest[k - 1] = l
        BY <1>4, <1>8, <3>2, <4>1
      <4> QED BY <1>8, <3>2, <4>2
    <3> QED BY <3>1, <3>2
  <2> HIDE DEF rest, P, L
  <2>4. others \in Seq(L)
    BY <1>8, <2>1, AtPositionsIsSubsequence
  <2>5. IsInjective(others) /\ Range(others) = {rest[i] : i \in P}
    BY <1>8, <2>1, <2>2, KeptElements
  <2> QED BY <2>3, <2>4, <2>5
<1>10. total \in Nat /\ total > 0
  <2>1. IsFiniteSet(Sources(files)) /\ total \in Nat /\ Sources(files) # {}
    BY <1>5, FilesAreCounted
  <2> QED BY <2>1, FS_EmptySet
<1>11. \A l \in L : N(l) <= total
  <2>1. ASSUME NEW l \in L PROVE N(l) <= total
    BY FilesAreCounted, FS_Subset DEF CountOf
  <2> QED BY <2>1
<1>12. \A l \in L \ {first} : N(l) + N(first) <= total
  BY <1>7, LanguagesAreApart
<1>13. \A l \in L \ {first} : ~Dominant(files, l)
  <2> HIDE DEF N, L, first, total
  <2>1. ASSUME NEW l \in L \ {first} PROVE ~(10 * N(l) >= 6 * total)
    <3>1. N(l) \in Nat /\ N(first) \in Nat /\ N(l) <= N(first) /\ N(l) + N(first) <= total
      BY <1>1, <1>7, <1>12
    <3> QED BY <1>10, <3>1
  <2> QED BY <2>1 DEF Dominant, N, total
<1>14. CASE Dominant(files, first) \/ Len(ordered) < 2
  <2>1. facts = [primary |-> first, secondary |-> others]
    BY <1>14 DEF LanguagesBy
  <2>2. Dominant(files, first)
    <3>1. CASE Len(ordered) < 2
      <4>1. n = 1
        BY <1>4, <1>5, <3>1
      <4>2. L = {first}
        BY <1>4, <1>7, <4>1
      <4>3. Sources(files) = FilesOf(files, first)
        <5>1. \A i \in Sources(files) : files[i].lang \in L
          BY DEF LanguagesOf
        <5>2. FilesOf(files, first) \in SUBSET Sources(files)
          BY <1>7, FilesAreCounted
        <5> QED BY <4>2, <5>1, <5>2 DEF Sources, FilesOf
      <4>4. N(first) = total
        BY <4>3 DEF CountOf
      <4> QED BY <1>10, <4>4 DEF Dominant
    <3> QED BY <1>14, <3>1
  <2>3. NamedLanguages(facts) = {first} \cup {l \in L : Significant(files, l)}
    <3> HIDE DEF others, first, L
    <3> QED BY <1>1, <1>7, <1>9, <2>1 DEF NamedLanguages
  <2>4. \A l \in L : facts.primary = l <=> Dominant(files, l)
    BY <1>13, <2>1, <2>2
  <2> HIDE DEF others, first
  <2> QED BY <1>7, <1>9, <2>1, <2>3, <2>4 DEF SpeaksFor
<1>15. CASE ~(Dominant(files, first) \/ Len(ordered) < 2)
  <2>1. facts = [primary |-> "mixed", secondary |-> Append(others, first)]
    BY <1>15 DEF LanguagesBy
  <2> HIDE DEF others, first, L
  <2> DEFINE longer == Append(others, first)
  <2>2. /\ longer \in Seq(L) /\ Len(longer) = Len(others) + 1 /\ Len(others) \in Nat
        /\ \A i \in 1 .. Len(others) : longer[i] = others[i]
        /\ longer[Len(others) + 1] = first
        /\ DOMAIN longer = 1 .. Len(others) + 1 /\ DOMAIN others = 1 .. Len(others)
    BY <1>7, <1>9, AppendProperties, LenProperties
  <2> HIDE DEF longer
  <2>3. \A i \in 1 .. Len(others) : others[i] # first
    BY <1>9, <2>2 DEF Range
  <2>4. IsInjective(longer)
    <3>1. ASSUME NEW i \in 1 .. Len(others) + 1, NEW j \in 1 .. Len(others) + 1, longer[i] = longer[j]
          PROVE  i = j
      <4>1. CASE i \in 1 .. Len(others) /\ j \in 1 .. Len(others)
        BY <1>9, <2>2, <3>1, <4>1 DEF IsInjective
      <4>2. CASE i \notin 1 .. Len(others) \/ j \notin 1 .. Len(others)
        BY <2>2, <2>3, <3>1, <4>2
      <4> QED BY <4>1, <4>2
    <3> QED BY <2>2, <3>1 DEF IsInjective
  <2>5. Range(longer) = Range(others) \cup {first}
    <3>1. ASSUME NEW x \in Range(longer) PROVE x \in Range(others) \cup {first}
      <4>1. PICK i \in 1 .. Len(others) + 1 : x = longer[i]
        BY <2>2, <3>1 DEF Range
      <4>2. CASE i \in 1 .. Len(others)
        BY <2>2, <4>1, <4>2 DEF Range
      <4>3. CASE i = Len(others) + 1
        BY <2>2, <4>1, <4>3
      <4> QED BY <2>2, <4>1, <4>2, <4>3
    <3>2. ASSUME NEW i \in 1 .. Len(others) PROVE others[i] \in Range(longer)
      <4>1. i \in DOMAIN longer /\ longer[i] = others[i]
        BY <2>2
      <4> QED BY <4>1 DEF Range
    <3>3. first \in Range(longer)
      <4>1. Len(others) + 1 \in DOMAIN longer
        BY <2>2
      <4> QED BY <2>2, <4>1 DEF Range
    <3> QED BY <2>2, <3>1, <3>2, <3>3 DEF Range
  <2>6. NamedLanguages(facts) = {first} \cup {l \in L : Significant(files, l)}
    <3>1. facts.primary = "mixed" /\ facts.secondary = longer
      BY <2>1 DEF longer
    <3> QED BY <1>1, <1>7, <1>9, <2>5, <3>1 DEF NamedLanguages
  <2>7. \A l \in L : facts.primary = l <=> Dominant(files, l)
    <3>1. \A l \in L : ~Dominant(files, l)
      BY <1>13, <1>15
    <3> QED BY <1>1, <2>1, <3>1
  <2>8. facts.primary = "mixed" /\ facts.secondary = longer
    BY <2>1 DEF longer
  <2> QED BY <1>7, <2>2, <2>4, <2>6, <2>7, <2>8 DEF SpeaksFor, L
<1> QED BY <1>14, <1>15

(* The tools are chosen for the languages that are named                   *)
(* (resolve_languages).                                                    *)
LEMMA SpokenAreNamed ==
  ASSUME NEW files \in Seq(FileType), NEW first, NEW facts, SpeaksFor(files, first, facts)
  PROVE  Range(Concrete(facts.primary, facts.secondary)) = NamedLanguages(facts)
<1> DEFINE L == LanguagesOf(files)
           S == L \cup {"mixed"}
           named == <<facts.primary>> \o facts.secondary
           P == {i \in DOMAIN named : named[i] \notin {"mixed", "unknown"}}
           chosen == AtPositions(named, P)
           said == EachOnce(chosen)
<1>1. /\ facts.primary \in S /\ facts.secondary \in Seq(L) /\ first \in L /\ first \in NamedLanguages(facts)
      /\ NamedLanguages(facts) \subseteq L
  BY DEF SpeaksFor
<1>2. "mixed" \notin L /\ "unknown" \notin L
  BY FilesAreCounted
<1> HIDE DEF L
<1>3. <<facts.primary>> \in Seq(S) /\ facts.secondary \in Seq(S)
  <2>1. facts.secondary \in Seq(S)
    BY <1>1, SeqMonotonic
  <2> QED BY <1>1, <2>1
<1>4. named \in Seq(S) /\ Range(named) = {facts.primary} \cup Range(facts.secondary)
  <2>1. Range(<<facts.primary>>) = {facts.primary}
    BY DEF Range
  <2>2. named \in Seq(S)
    BY <1>3, ConcatProperties
  <2>3. Range(named) = Range(<<facts.primary>>) \cup Range(facts.secondary)
    BY <1>3, RangeConcatenation
  <2> QED BY <2>1, <2>2, <2>3
<1>5. {named[i] : i \in P} = NamedLanguages(facts)
  <2>1. Range(named) = {named[i] : i \in DOMAIN named}
    BY DEF Range
  <2>2. "unknown" \notin Range(named)
    <3>1. Range(facts.secondary) \subseteq L
      BY <1>1, RangeOfSeq
    <3> QED BY <1>1, <1>2, <1>4, <3>1
  <2> HIDE DEF named
  <2> QED BY <1>4, <2>1, <2>2 DEF NamedLanguages
<1>6. P \in SUBSET DOMAIN named
  OBVIOUS
<1> HIDE DEF named, P
<1>7. chosen \in Seq(S) /\ Range(chosen) = NamedLanguages(facts)
  <2>1. chosen \in Seq(S)
    BY <1>4, <1>6, AtPositionsIsSubsequence
  <2>2. Range(chosen) = {named[i] : i \in P}
    BY <1>4, <1>6, KeptElements
  <2> QED BY <1>5, <2>1, <2>2
<1> HIDE DEF chosen
<1>8. said \in Seq(S) /\ Range(said) = NamedLanguages(facts)
  BY <1>7, EachOnceIsOnce
<1> HIDE DEF said
<1>9. said # <<>>
  <2>1. Range(<<>>) = {}
    BY DEF Range
  <2> QED BY <1>1, <1>8, <2>1
<1>10. Concrete(facts.primary, facts.secondary) = said
  BY <1>9 DEF Concrete, said, chosen, named, P
<1> QED BY <1>8, <1>10

-----------------------------------------------------------------------------
(* The manifests (_detect_languages, _detect_framework).                   *)
ManifestType == [name : ManifestNames, place : Nat, readable : BOOLEAN, words : SUBSET STRING]

(* Each manifest is in the map, and what it says is known from its name.   *)
LEMMA ManifestsAreKnown ==
  /\ DOMAIN ManifestMap = 1 .. 5
  /\ \A i \in 1 .. 5 : ManifestMap[i].name # "Makefile" => ManifestMap[i].lang # "unknown"
  /\ \A name \in ManifestNames : \E i \in 1 .. 5 : ManifestMap[i].name = name
  /\ \A name \in ManifestNames : OfName(name).signals \in Seq({"gin", "grpc", "express", "react", "fastapi",
       "flask"})
<1>1. DOMAIN ManifestMap = 1 .. 5
  BY DEF ManifestMap
<1>2. \A i \in 1 .. 5 : ManifestMap[i].name # "Makefile" => ManifestMap[i].lang # "unknown"
  <2>1. /\ ManifestMap[1].lang = "go" /\ ManifestMap[2].name = "Makefile" /\ ManifestMap[3].lang = "javascript"
        /\ ManifestMap[4].lang = "python" /\ ManifestMap[5].lang = "python"
    BY DEF ManifestMap
  <2>2. ASSUME NEW i \in 1 .. 5 PROVE i = 1 \/ i = 2 \/ i = 3 \/ i = 4 \/ i = 5
    OBVIOUS
  <2> QED BY <2>1, <2>2
<1>3. \A name \in ManifestNames : \E i \in 1 .. 5 : ManifestMap[i].name = name
  <2>1. /\ ManifestMap[1].name = "go.mod" /\ ManifestMap[2].name = "Makefile"
        /\ ManifestMap[3].name = "package.json" /\ ManifestMap[4].name = "requirements.txt"
        /\ ManifestMap[5].name = "Pipfile"
    BY DEF ManifestMap
  <2> QED BY <2>1 DEF ManifestNames
<1>4. \A i \in 1 .. 5 : ManifestMap[i].signals \in Seq({"gin", "grpc", "express", "react", "fastapi", "flask"})
  <2>1. ManifestMap[1].signals = <<"gin", "grpc">> /\ ManifestMap[2].signals = <<>>
    BY DEF ManifestMap
  <2>2. /\ ManifestMap[3].signals = <<"express", "react">> /\ ManifestMap[4].signals = <<"fastapi", "flask">>
        /\ ManifestMap[5].signals = <<>>
    BY DEF ManifestMap
  <2> DEFINE T == {"gin", "grpc", "express", "react", "fastapi", "flask"}
  <2>3. "gin" \in T /\ "grpc" \in T /\ "express" \in T /\ "react" \in T /\ "fastapi" \in T /\ "flask" \in T
    OBVIOUS
  <2>4. ASSUME NEW i \in 1 .. 5 PROVE ManifestMap[i].signals \in Seq(T)
    <3>1. i = 1 \/ i = 2 \/ i = 3 \/ i = 4 \/ i = 5
      OBVIOUS
    <3>2. ASSUME NEW a \in T, NEW b \in T PROVE <<a, b>> \in Seq(T)
      <4> HIDE DEF T
      <4> QED OBVIOUS
    <3>3. <<>> \in Seq(T)
      OBVIOUS
    <3> HIDE DEF T
    <3>4. /\ <<"gin", "grpc">> \in Seq(T) /\ <<"express", "react">> \in Seq(T)
          /\ <<"fastapi", "flask">> \in Seq(T)
      BY <2>3, <3>2
    <3> QED BY <2>1, <2>2, <3>1, <3>3, <3>4
  <2> QED BY <2>4
<1>5. ASSUME NEW name \in ManifestNames PROVE OfName(name).signals \in Seq({"gin", "grpc", "express",
        "react", "fastapi", "flask"})
  <2>1. \E m \in Range(ManifestMap) : m.name = name
    BY <1>1, <1>3 DEF Range
  <2>2. OfName(name) \in Range(ManifestMap)
    BY <2>1 DEF OfName
  <2>3. PICK i \in 1 .. 5 : OfName(name) = ManifestMap[i]
    BY <1>1, <2>2 DEF Range
  <2> QED BY <1>4, <2>3
<1> QED BY <1>1, <1>2, <1>3, <1>5

(* One of the manifests that speak for a language is the first.            *)
LEMMA OneManifestIsFirst ==
  ASSUME NEW dirs \in Seq(SUBSET ManifestType)
  PROVE  /\ (\E m \in UNION Range(dirs) : m.name # "Makefile") => FirstManifest(dirs) # {}
         /\ \A s \in FirstManifest(dirs) : ManifestMap[s.row].lang # "unknown"
<1> DEFINE rows == {i \in DOMAIN ManifestMap : ManifestMap[i].name # "Makefile"}
           found == {s \in Speaking(dirs) : \E m \in dirs[s.dir] : m.name = ManifestMap[s.row].name}
<1>1. DOMAIN dirs = 1 .. Len(dirs) /\ Len(dirs) \in Nat /\ rows \in SUBSET (1 .. 5)
  BY LenProperties, ManifestsAreKnown
<1>2. /\ Speaking(dirs) = [dir : DOMAIN dirs, row : rows]
      /\ FirstManifest(dirs) = {s \in found :
           \A t \in found : s.dir < t.dir \/ (s.dir = t.dir /\ s.row <= t.row)}
  BY DEF Speaking, FirstManifest
<1>3. ASSUME NEW s \in FirstManifest(dirs) PROVE ManifestMap[s.row].lang # "unknown"
  <2>1. s.row \in rows
    BY <1>2
  <2> QED BY <2>1, ManifestsAreKnown
<1>4. ASSUME NEW m \in UNION Range(dirs), m.name # "Makefile" PROVE FirstManifest(dirs) # {}
  <2>1. PICK d \in 1 .. Len(dirs) : m \in dirs[d]
    BY <1>1 DEF Range
  <2>2. m.name \in ManifestNames
    <3>1. dirs[d] \in SUBSET ManifestType
      BY <2>1, ElementOfSeq
    <3> QED BY <2>1, <3>1 DEF ManifestType
  <2>3. PICK i \in 1 .. 5 : ManifestMap[i].name = m.name
    BY <2>2, ManifestsAreKnown
  <2>4. [dir |-> d, row |-> i] \in found
    <3>1. i \in rows
      BY <1>4, <2>3, ManifestsAreKnown
    <3> HIDE DEF rows
    <3>2. [dir |-> d, row |-> i] \in Speaking(dirs)
      BY <1>1, <1>2, <3>1
    <3> QED BY <2>1, <2>3, <3>2
  <2> HIDE DEF found, rows
  <2> DEFINE D == {s.dir : s \in found}
  <2>5. \A s \in found : s.dir \in Nat /\ s.row \in Nat
    <3>1. ASSUME NEW s \in found PROVE s.dir \in Nat /\ s.row \in Nat
      <4>1. s \in [dir : DOMAIN dirs, row : rows]
        BY <1>2, <3>1 DEF found
      <4>2. s.dir \in 1 .. Len(dirs) /\ s.row \in 1 .. 5
        BY <1>1, <4>1
      <4> QED BY <1>1, <4>2
    <3> QED BY <3>1
  <2>6. PICK least \in D : \A k \in D : least <= k
    <3>1. D \in SUBSET Nat /\ D # {}
      BY <2>4, <2>5
    <3> HIDE DEF D
    <3> QED BY <3>1, LeastNatural
  <2> DEFINE W == {s.row : s \in {t \in found : t.dir = least}}
  <2>7. PICK low \in W : \A k \in W : low <= k
    <3>1. W \in SUBSET Nat /\ W # {}
      BY <2>5, <2>6
    <3> HIDE DEF W
    <3> QED BY <3>1, LeastNatural
  <2>8. PICK s \in found : s.dir = least /\ s.row = low
    BY <2>7
  <2>9. \A t \in found : s.dir < t.dir \/ (s.dir = t.dir /\ s.row <= t.row)
    <3>1. ASSUME NEW t \in found PROVE s.dir < t.dir \/ (s.dir = t.dir /\ s.row <= t.row)
      <4>1. least <= t.dir /\ (t.dir = least => low <= t.row)
        BY <2>6, <2>7
      <4>2. t.dir \in Nat /\ s.dir \in Nat
        BY <2>5
      <4> QED BY <2>8, <4>1, <4>2
    <3> QED BY <3>1
  <2> QED BY <1>2, <2>8, <2>9
<1> QED BY <1>3, <1>4

(* There is a framework exactly if a manifest that can be read has one of  *)
(* its signals.                                                            *)
LEMMA FrameworkIsSignalled ==
  ASSUME NEW manifests \in SUBSET ManifestType
  PROVE  Framework(manifests) = "none" <=>
           \A m \in manifests : ~m.readable \/ m.words \cap Range(OfName(m.name).signals) = {}
<1> DEFINE telling == {m \in manifests : SignalsIn(m) # {}}
           first   == CHOOSE m \in telling : \A n \in telling : m.place <= n.place
<1>1. \A m \in manifests : SignalsIn(m) = {} <=> ~m.readable \/ m.words \cap Range(OfName(m.name).signals) = {}
  BY DEF SignalsIn, SignalsOf, Range
<1>2. CASE telling = {}
  BY <1>1, <1>2 DEF Framework
<1>3. CASE telling # {}
  <2> DEFINE T == {m.place : m \in telling}
  <2>1. PICK p \in T : \A k \in T : p <= k
    <3>1. T \in SUBSET Nat /\ T # {}
      BY <1>3 DEF ManifestType
    <3> HIDE DEF T
    <3> QED BY <3>1, LeastNatural
  <2>2. \E m \in telling : \A n \in telling : m.place <= n.place
    BY <2>1
  <2>3. first \in telling
    BY <2>2
  <2>4. first.name \in ManifestNames /\ SignalsIn(first) # {}
    BY <2>3 DEF ManifestType
  <2> DEFINE k == CHOOSE k \in SignalsIn(first) : \A j \in SignalsIn(first) : k <= j
  <2>5. Framework(manifests) = SignalsOf(first)[k]
    BY <1>3 DEF Framework
  <2> HIDE DEF first
  <2>6. SignalsOf(first) \in Seq({"gin", "grpc", "express", "react", "fastapi", "flask"})
    BY <2>4, ManifestsAreKnown DEF SignalsOf
  <2>7. SignalsIn(first) \in SUBSET (1 .. Len(SignalsOf(first)))
    BY <2>6, LenProperties DEF SignalsIn
  <2>8. \E i \in SignalsIn(first) : \A j \in SignalsIn(first) : i <= j
    <3>1. SignalsIn(first) \in SUBSET Nat
      BY <2>6, <2>7, LenProperties
    <3> QED BY <2>4, <3>1, LeastNatural
  <2>9. k \in SignalsIn(first)
    BY <2>8
  <2> HIDE DEF k
  <2>10. SignalsOf(first)[k] # "none"
    BY <2>6, <2>7, <2>9, ElementOfSeq
  <2>11. first \in manifests
    BY <2>3
  <2> QED BY <1>1, <2>4, <2>5, <2>10, <2>11
<1> QED BY <1>2, <1>3

-----------------------------------------------------------------------------
(* The estimate of the lines (_count_files).                               *)
LEMMA GreatestNatural ==
  ASSUME NEW T \in SUBSET Nat, T # {}, IsFiniteSet(T)
  PROVE  Max(T) \in T /\ \A k \in T : k <= Max(T)
<1>1. PICK n \in Nat : ExistsSurjection(1 .. n, T)
  BY FS_NatSurjection
<1>2. PICK f \in [1 .. n -> T] : \A k \in T : \E i \in 1 .. n : f[i] = k
  BY <1>1 DEF ExistsSurjection, Surjection
<1> DEFINE U == {i \in 0 .. n : \E b \in Nat : \A j \in 1 .. i : f[j] <= b}
<1>3. 0 \in U
  <2>1. 0 \in 0 .. n /\ 0 \in Nat /\ \A j \in 1 .. 0 : f[j] <= 0
    OBVIOUS
  <2> QED BY <2>1
<1>4. ASSUME NEW i \in 1 .. n, i - 1 \in U PROVE i \in U
  <2>1. PICK b \in Nat : \A j \in 1 .. i - 1 : f[j] <= b
    BY <1>4
  <2>2. f[i] \in Nat
    OBVIOUS
  <2>3. b + f[i] \in Nat /\ \A j \in 1 .. i : f[j] <= b + f[i]
    <3>1. ASSUME NEW j \in 1 .. i PROVE f[j] <= b + f[i]
      <4>1. j \in 1 .. n /\ (j = i \/ j \in 1 .. i - 1)
        OBVIOUS
      <4>2. f[j] \in Nat
        BY <4>1
      <4> QED BY <2>1, <2>2, <4>1, <4>2
    <3> QED BY <2>2, <3>1
  <2> QED BY <2>3
<1>5. PICK b \in Nat : \A j \in 1 .. n : f[j] <= b
  <2>1. 0 .. n \subseteq U
    <3> HIDE DEF U
    <3> QED BY <1>3, <1>4, UpToNumber
  <2>2. n \in 0 .. n
    OBVIOUS
  <2> QED BY <2>1, <2>2
<1> DEFINE B == {c \in Nat : \A k \in T : k <= c}
<1>6. PICK c \in B : \A d \in B : c <= d
  <2>1. b \in B
    BY <1>2, <1>5
  <2>2. B \in SUBSET Nat /\ B # {}
    BY <2>1
  <2> HIDE DEF B
  <2> QED BY <2>2, LeastNatural
<1>7. c \in T
  <2>1. SUFFICES ASSUME c \notin T PROVE FALSE
    OBVIOUS
  <2>2. PICK k \in T : TRUE
    OBVIOUS
  <2>3. c \in Nat /\ k \in Nat /\ k <= c /\ k # c
    BY <1>6, <2>1
  <2>4. c - 1 \in Nat /\ \A m \in T : m <= c - 1
    <3>1. ASSUME NEW m \in T PROVE m <= c - 1
      <4>1. m \in Nat /\ m <= c /\ m # c
        BY <1>6, <2>1
      <4> QED BY <2>3, <4>1
    <3> QED BY <2>3, <3>1
  <2>5. c - 1 \in B
    BY <2>4
  <2> QED BY <1>6, <2>3, <2>5
<1>8. \E x \in T : \A y \in T : x >= y
  BY <1>6, <1>7
<1>9. Max(T) \in T /\ \A y \in T : Max(T) >= y
  BY <1>8 DEF Max
<1> QED BY <1>9

(* The lines of a sample add up.                                           *)
LEMMA LinesAddUp ==
  ASSUME NEW sample \in Seq(FileType), NEW M \in Nat, \A i \in 1 .. Len(sample) : sample[i].lines <= M
  PROVE  /\ TotalLines(sample) \in Nat /\ TotalLines(sample) <= M * Len(sample)
         /\ (\A i \in 1 .. Len(sample) : sample[i].lines = M) => TotalLines(sample) = M * Len(sample)
<1> DEFINE n == Len(sample)
           term == [i \in 1 .. n |-> sample[i].lines]
           step == [i \in 1 .. n |-> [x \in Nat |-> x + term[i]]]
           Value(f) == f = [i \in 0 .. n |-> IF i = 0 THEN 0 ELSE f[i - 1] + sample[i].lines]
           sum == CHOOSE f : Value(f)
<1>1. n \in Nat /\ \A i \in 1 .. n : sample[i].lines \in Nat
  <2>1. \A i \in 1 .. n : sample[i] \in FileType
    BY ElementOfSeq
  <2> QED BY <2>1, LenProperties DEF FileType
<1>2. TotalLines(sample) = sum[n]
  BY DEF TotalLines
<1> HIDE DEF n
<1>3. \A i \in 1 .. n : term[i] \in Nat /\ term[i] = sample[i].lines
  BY <1>1
<1> HIDE DEF term
<1>4. step \in [1 .. n -> [Nat -> Nat]]
  BY <1>3
<1>5. PICK g \in [0 .. n -> Nat] : g[0] = 0 /\ \A i \in 1 .. n : g[i] = g[i - 1] + term[i]
  <2>1. PICK g \in [0 .. n -> Nat] : IsLoop(g, n, 0, step)
    <3> HIDE DEF step
    <3> QED BY <1>1, <1>4, LoopIsDefined
  <2>2. \A i \in 1 .. n : i - 1 \in 0 .. n
    BY <1>1
  <2>3. g[0] = 0 /\ \A i \in 1 .. n : g[i] = step[i][g[i - 1]]
    BY <2>1 DEF IsLoop
  <2>4. \A i \in 1 .. n : step[i][g[i - 1]] = g[i - 1] + term[i]
    BY <2>2
  <2> QED BY <2>3, <2>4
<1>6. Value(g)
  <2>1. \A k \in 0 .. n : k # 0 => k \in 1 .. n
    BY <1>1
  <2>2. \A k \in 0 .. n : g[k] = IF k = 0 THEN 0 ELSE g[k - 1] + sample[k].lines
    BY <1>3, <1>5, <2>1
  <2>3. g = [k \in 0 .. n |-> g[k]]
    BY <1>5
  <2> QED BY <2>2, <2>3
<1>7. Value(sum)
  BY <1>6
<1> HIDE DEF sum
<1>8. sum[0] = 0 /\ \A k \in 1 .. n : sum[k] = sum[k - 1] + term[k]
  <2>1. 0 \in 0 .. n /\ \A k \in 1 .. n : k \in 0 .. n /\ k # 0
    BY <1>1
  <2> QED BY <1>3, <1>7, <2>1
<1> DEFINE U == {i \in 0 .. n : sum[i] \in Nat /\ sum[i] <= M * i /\
              ((\A j \in 1 .. n : term[j] = M) => sum[i] = M * i)}
<1>9. 0 \in U
  <2>1. M * 0 = 0 /\ 0 \in 0 .. n
    BY <1>1
  <2> QED BY <1>8, <2>1
<1>10. ASSUME NEW i \in 1 .. n, i - 1 \in U PROVE i \in U
  <2>1. M * i = M * (i - 1) + M /\ M * i \in Nat /\ M * (i - 1) \in Nat
    BY <1>1
  <2>2. sum[i] = sum[i - 1] + term[i] /\ term[i] \in Nat /\ term[i] <= M
    BY <1>3, <1>8 DEF n
  <2>3. i \in 0 .. n
    BY <1>1
  <2>4. /\ sum[i - 1] \in Nat /\ sum[i - 1] <= M * (i - 1)
        /\ (\A j \in 1 .. n : term[j] = M) => sum[i - 1] = M * (i - 1)
    BY <1>10
  <2>5. sum[i] \in Nat /\ sum[i] <= M * i
    BY <2>1, <2>2, <2>4
  <2>6. ASSUME \A j \in 1 .. n : term[j] = M PROVE sum[i] = M * i
    BY <2>1, <2>2, <2>4, <2>6
  <2> QED BY <2>3, <2>5, <2>6
<1>11. n \in U
  <2>1. 0 .. n \subseteq U
    <3> HIDE DEF U
    <3> QED BY <1>1, <1>9, <1>10, UpToNumber
  <2>2. n \in 0 .. n
    BY <1>1
  <2> HIDE DEF U
  <2> QED BY <2>1, <2>2
<1> QED BY <1>2, <1>3, <1>11 DEF n

(* Dividing what is at most so many times a number by the number.          *)
LEMMA QuotientIsBounded ==
  ASSUME NEW a \in Nat, NEW b \in Nat, NEW k \in Nat, k > 0, a <= b * k
  PROVE  /\ a \div k \in 0 .. b
         /\ a = b * k => a \div k = b
<1>1. a \div k \in Int /\ k * (a \div k) <= a /\ a < k * (a \div k) + k
  OBVIOUS
<1> DEFINE q == a \div k
<1> HIDE DEF q
<1>2. q \in Int /\ k * q <= a /\ a < k * q + k
  BY <1>1 DEF q
<1>3. q >= 0
  <2>1. CASE q <= -1
    <3>1. k * q <= -k
      BY <1>2, <2>1
    <3> QED BY <1>2, <3>1
  <2> QED BY <1>2, <2>1
<1>4. q <= b
  <2>1. CASE q >= b + 1
    <3>1. k * q >= k * (b + 1) /\ k * (b + 1) = b * k + k
      BY <1>2, <2>1
    <3> QED BY <1>2, <3>1
  <2> QED BY <1>2, <2>1
<1>5. ASSUME a = b * k PROVE q >= b
  <2>1. CASE q <= b - 1
    <3>1. k * q <= k * (b - 1) /\ k * (b - 1) = b * k - k
      BY <1>2, <2>1
    <3> QED BY <1>2, <1>5, <3>1
  <2> QED BY <1>2, <2>1
<1> QED BY <1>2, <1>3, <1>4, <1>5 DEF q

(* The files whose lines are counted are source files that can be read.    *)
LEMMA SampleIsRead ==
  ASSUME NEW files \in Seq(FileType)
  PROVE  /\ SampledLines(files) \in Seq(FileType)
         /\ \A i \in 1 .. Len(SampledLines(files)) :
              SampledLines(files)[i].lines \in {files[n].lines : n \in Sources(files)} \ {0}
<1> DEFINE own == AtPositions(files, Sources(files))
           tried == Beginning(own, MaxAttempts)
           P == {i \in DOMAIN tried : tried[i].lines > 0}
           read == AtPositions(tried, P)
           sample == Beginning(read, MaxSamples)
<1>1. Sources(files) \in SUBSET DOMAIN files /\ MaxAttempts \in Nat /\ MaxSamples \in Nat
  BY FilesAreCounted, ScannerAssumption
<1>2. own \in Seq(FileType) /\ \A i \in 1 .. Len(own) : \E n \in Sources(files) : own[i] = files[n]
  BY <1>1, AtPositionsIsSubsequence, KeptElements
<1> HIDE DEF own
<1>3. tried \in Seq(FileType) /\ \A i \in 1 .. Len(tried) : i \in 1 .. Len(own) /\ tried[i] = own[i]
  BY <1>1, <1>2, BeginningIsPrefix
<1>4. P \in SUBSET DOMAIN tried /\ DOMAIN tried = 1 .. Len(tried)
  BY <1>3, LenProperties
<1>5. \A i \in P : tried[i].lines \in {files[n].lines : n \in Sources(files)} \ {0}
  <2>1. ASSUME NEW i \in P PROVE tried[i].lines \in {files[n].lines : n \in Sources(files)} \ {0}
    <3>1. i \in 1 .. Len(tried) /\ tried[i].lines > 0
      BY <1>4
    <3>2. PICK n \in Sources(files) : tried[i] = files[n]
      BY <1>2, <1>3, <3>1
    <3>3. tried[i] \in FileType
      BY <1>3, <3>1, ElementOfSeq
    <3>4. tried[i].lines # 0
      BY <3>1, <3>3 DEF FileType
    <3> QED BY <3>2, <3>4
  <2> QED BY <2>1
<1> HIDE DEF tried, P
<1>6. read \in Seq(FileType) /\ \A i \in 1 .. Len(read) : \E n \in P : read[i] = tried[n]
  BY <1>3, <1>4, AtPositionsIsSubsequence, KeptElements
<1> HIDE DEF read
<1>7. sample \in Seq(FileType) /\ \A i \in 1 .. Len(sample) : i \in 1 .. Len(read) /\ sample[i] = read[i]
  BY <1>1, <1>6, BeginningIsPrefix
<1>8. SampledLines(files) = sample
  BY DEF SampledLines, sample, read, P, tried, own
<1> HIDE DEF sample
<1>9. ASSUME NEW i \in 1 .. Len(sample)
      PROVE  sample[i].lines \in {files[n].lines : n \in Sources(files)} \ {0}
  <2>1. PICK n \in P : sample[i] = tried[n]
    BY <1>6, <1>7
  <2> QED BY <1>5, <2>1
<1> QED BY <1>7, <1>8, <1>9

(* The estimate is not above what the longest of the files would give, and *)
(* is that if they are all as long.                                        *)
LEMMA EstimateIsBetween ==
  ASSUME NEW files \in Seq(FileType), NEW lengths,
         lengths = {files[n].lines : n \in Sources(files)} \ {0}, lengths # {}
  PROVE  /\ Estimate(files) \in 0 .. Max(lengths) * Cardinality(Sources(files))
         /\ (Cardinality(lengths) = 1 /\ SampledLines(files) # <<>>) =>
              Estimate(files) = Max(lengths) * Cardinality(Sources(files))
<1> DEFINE sample == SampledLines(files)
           N == Cardinality(Sources(files))
           M == Max(lengths)
           k == Len(sample)
           total == TotalLines(sample)
<1>1. N \in Nat /\ IsFiniteSet(Sources(files)) /\ Sources(files) \in SUBSET (1 .. Len(files))
  BY FilesAreCounted
<1>2. lengths \in SUBSET Nat /\ IsFiniteSet(lengths)
  <2> DEFINE f == [n \in Sources(files) |-> files[n].lines]
             T == {files[n].lines : n \in Sources(files)}
  <2>1. f \in Surjection(Sources(files), T)
    BY DEF Surjection
  <2> HIDE DEF f
  <2>2. IsFiniteSet(T)
    BY <1>1, <2>1, FS_Surjection
  <2>3. T \in SUBSET Nat
    <3>1. \A n \in 1 .. Len(files) : files[n] \in FileType
      BY ElementOfSeq
    <3> QED BY <1>1, <3>1 DEF FileType
  <2>4. lengths \in SUBSET T
    OBVIOUS
  <2> HIDE DEF T
  <2> QED BY <2>2, <2>3, <2>4, FS_Subset
<1>3. M \in lengths /\ M \in Nat /\ \A l \in lengths : l <= M
  BY <1>2, GreatestNatural
<1>4. sample \in Seq(FileType) /\ \A i \in 1 .. Len(sample) : sample[i].lines \in lengths
  BY SampleIsRead
<1>5. Estimate(files) = IF sample = <<>> THEN 0 ELSE (total * N) \div k
  BY DEF Estimate
<1> HIDE DEF sample, M, N
<1>6. k \in Nat /\ (sample # <<>> => k > 0)
  BY <1>4, LenProperties, EmptySeq
<1>7. total \in Nat /\ total <= M * k /\ ((\A i \in 1 .. k : sample[i].lines = M) => total = M * k)
  <2>1. \A i \in 1 .. Len(sample) : sample[i].lines <= M
    BY <1>3, <1>4
  <2> QED BY <1>3, <1>4, <2>1, LinesAddUp
<1> HIDE DEF k, total
<1>8. M * N \in Nat
  BY <1>1, <1>3 DEF N
<1>9. total * N \in Nat /\ total * N <= (M * N) * k /\ (total = M * k => total * N = (M * N) * k)
  <2>1. N \in Nat
    BY <1>1 DEF N
  <2>2. (M * k) * N = (M * N) * k /\ M * k \in Nat
    BY <1>3, <1>6, <2>1
  <2>3. total * N <= (M * k) * N
    BY <1>7, <2>1, <2>2
  <2> QED BY <1>7, <2>1, <2>2, <2>3
<1>10. CASE sample = <<>>
  BY <1>5, <1>8, <1>10 DEF sample, M, N
<1>11. CASE sample # <<>>
  <2> DEFINE a == total * N
             b == M * N
  <2>1. a \in Nat /\ b \in Nat /\ a <= b * k /\ k \in Nat /\ k > 0 /\ (total = M * k => a = b * k)
    BY <1>6, <1>8, <1>9, <1>11
  <2>2. Estimate(files) = a \div k
    BY <1>5, <1>11
  <2> HIDE DEF a, b
  <2>3. a \div k \in 0 .. b /\ (a = b * k => a \div k = b)
    BY <2>1, QuotientIsBounded
  <2>4. ASSUME Cardinality(lengths) = 1 PROVE total = M * k
    <3>1. PICK x : lengths = {x}
      BY <1>2, <2>4, FS_Singleton
    <3>2. \A i \in 1 .. k : sample[i].lines = M
      BY <1>3, <1>4, <3>1 DEF k
    <3> QED BY <1>7, <3>2
  <2> QED BY <2>1, <2>2, <2>3, <2>4 DEF b, M, N
<1> QED BY <1>10, <1>11

(* A finite set is listed as a sequence of its elements.                   *)
LEMMA ListedSet ==
  ASSUME NEW S, IsFiniteSet(S)
  PROVE  SetToSeq(S) \in Seq(S)
<1>1. Cardinality(S) \in Nat /\ ExistsBijection(1 .. Cardinality(S), S)
  BY FS_CardinalityType
<1>2. PICK f \in [1 .. Cardinality(S) -> S] : \A a, b \in 1 .. Cardinality(S) : f[a] = f[b] => a = b
  BY <1>1 DEF ExistsBijection, Bijection, Injection, IsInjective
<1>3. IsInjective(f)
  BY <1>2 DEF IsInjective
<1>4. SetToSeq(S) \in [1 .. Cardinality(S) -> S]
  BY <1>3 DEF SetToSeq
<1> QED BY <1>1, <1>4, SeqDef

(* A dependency is named once (_detect_dependencies).                      *)
LEMMA DependenciesAreOnce ==
  ASSUME project \in Checkouts
  PROVE  IsInjective(Dependencies)
<1> DEFINE root == Head(project.manifests)
<1>1. /\ project.manifests \in Seq(SUBSET ManifestType) /\ project.manifests # <<>> /\ MaxDependencies \in Nat
      /\ \A d \in DOMAIN project.manifests :
           IsFiniteSet(project.manifests[d]) /\ \A m \in project.manifests[d] : IsFiniteSet(m.words)
  BY ScannerAssumption DEF ManifestType
<1>2. root \in SUBSET ManifestType /\ IsFiniteSet(root) /\ \A m \in root : IsFiniteSet(m.words)
  <2>1. 1 \in DOMAIN project.manifests /\ root = project.manifests[1]
    BY <1>1, EmptySeq, LenProperties
  <2>2. root \in SUBSET ManifestType
    BY <1>1, HeadTailProperties
  <2> QED BY <1>1, <2>1, <2>2
<1>3. ASSUME NEW name PROVE NamesIn(name) \in Seq(STRING)
  <2> DEFINE R == {r \in root : r.name = name /\ r.readable}
             W == {m.words : m \in R}
             f == [m \in R |-> m.words]
  <2>1. IsFiniteSet(R)
    BY <1>2, FS_Subset
  <2>2. f \in Surjection(R, W)
    BY DEF Surjection
  <2>3. \A w \in W : IsFiniteSet(w) /\ w \in SUBSET STRING
    BY <1>2 DEF ManifestType
  <2>4. DependenciesIn(name) = UNION W
    BY DEF DependenciesIn
  <2> HIDE DEF f, W, R
  <2>5. IsFiniteSet(W)
    BY <2>1, <2>2, FS_Surjection
  <2>6. IsFiniteSet(UNION W)
    BY <2>3, <2>5, FS_UNION
  <2>7. UNION W \in SUBSET STRING
    BY <2>3
  <2>8. NamesIn(name) \in Seq(UNION W)
    BY <2>4, <2>6, ListedSet DEF NamesIn
  <2> QED BY <2>7, <2>8, SeqMonotonic
<1>4. AllNames \in Seq(STRING)
  BY <1>3, ConcatProperties DEF AllNames
<1> DEFINE once == EachOnce(AllNames)
<1>5. once \in Seq(STRING) /\ IsInjective(once) /\ DOMAIN once = 1 .. Len(once)
  BY <1>4, EachOnceIsOnce, LenProperties
<1>6. Dependencies = Beginning(once, MaxDependencies)
  BY DEF Dependencies
<1> HIDE DEF once
<1>7. /\ Dependencies \in Seq(STRING)
      /\ \A i \in 1 .. Len(Dependencies) : i \in 1 .. Len(once) /\ Dependencies[i] = once[i]
  BY <1>1, <1>5, <1>6, BeginningIsPrefix
<1>8. DOMAIN Dependencies = 1 .. Len(Dependencies)
  BY <1>7, LenProperties
<1> QED BY <1>5, <1>7, <1>8 DEF IsInjective

-----------------------------------------------------------------------------
(* The passes from each on that follow another: what a pass found, the     *)
(* later ones leave as it is.                                              *)
AfterDependencies == {"entries", "done"}
AfterCount     == AfterDependencies \cup {"git", "dependencies"}
AfterFramework == AfterCount \cup {"build", "type", "count"}
AfterManifests == AfterFramework \cup {"framework"}
AfterLanguages == AfterManifests \cup {"manifests"}
AfterWalk      == AfterLanguages \cup {"languages"}

FactNames ==
  {"primary", "secondary", "truncated", "walked", "manifests", "framework", "build", "type", "sources",
   "loc", "git", "dependencies", "entries"}
ManifestsSpeak(facts) ==
  (LanguagesOf(facts.walked) = {} /\ \E m \in facts.manifests : m.name # "Makefile")
    => facts.primary # "unknown"

ScanInv ==
  /\ pass \in AfterWalk \cup {"idle", "walk"}
  /\ DOMAIN fp = FactNames
  /\ pass # "idle" => project \in Checkouts
  /\ pass \in AfterWalk =>
       fp.walked = Beginning(SafeFiles, MaxWalked) /\ fp.truncated = Truncated
  /\ pass \in AfterLanguages => (LanguagesOf(fp.walked) # {} =>
       fp.primary = LanguagesBy(fp.walked).primary /\ fp.secondary = LanguagesBy(fp.walked).secondary)
  /\ pass \in AfterManifests => fp.manifests = UNION Range(project.manifests) /\ ManifestsSpeak(fp)
  /\ pass \in AfterFramework => fp.framework = Framework(fp.manifests)
  /\ pass \in AfterCount => fp.sources = Cardinality(Sources(fp.walked)) /\ fp.loc = Estimate(fp.walked)
  /\ pass \in AfterDependencies => fp.dependencies = Dependencies

(* What is walked are files of the checkout.                               *)
LEMMA WalkedAreFiles ==
  ASSUME project \in Checkouts
  PROVE  /\ project.walk \in Seq(FileType) /\ SafeFiles \in Seq(FileType)
         /\ Len(SafeFiles) = Cardinality(Reached)
         /\ Beginning(SafeFiles, MaxWalked) \in Seq(FileType)
         /\ Len(Beginning(SafeFiles, MaxWalked)) = IF Len(SafeFiles) > MaxWalked THEN MaxWalked
              ELSE Len(SafeFiles)
         /\ MaxWalked \in Nat /\ Len(SafeFiles) \in Nat
<1>1. project.walk \in Seq(FileType) /\ MaxWalked \in Nat
  BY ScannerAssumption DEF FileType
<1>2. Reached \in SUBSET DOMAIN project.walk
  BY DEF Reached
<1>3. SafeFiles = AtPositions(project.walk, Reached)
  BY DEF SafeFiles
<1>4. SafeFiles \in Seq(FileType) /\ Len(SafeFiles) = Cardinality(Reached) /\ Len(SafeFiles) \in Nat
  BY <1>1, <1>2, <1>3, AtPositionsIsSubsequence
<1> QED BY <1>1, <1>4, BeginningIsPrefix

(* The checkout decides which files are safe and what it depends on.       *)
LEMMA SameCheckout ==
  ASSUME checkout' = checkout
  PROVE  /\ project' = project /\ Truncated' = Truncated /\ SafeFiles' = SafeFiles /\ Dependencies' = Dependencies
BY DEF project, SafeFiles, Reached, Truncated, Dependencies, AllNames, NamesIn, DependenciesIn, project

(* A pass leaves most of the facts as they are.                            *)
LEMMA WalkStep == ScanInv /\ (BeginScan \/ Collect) => ScanInv'
<1>1. CASE BeginScan
  <2>1. pass' = "walk" /\ fp' = NoFingerprint /\ project' \in Checkouts
    BY <1>1 DEF BeginScan, project
  <2>2. DOMAIN fp' = FactNames
    BY <2>1 DEF NoFingerprint, FactNames
  <2> QED BY <2>1, <2>2 DEF ScanInv, AfterWalk, AfterLanguages, AfterManifests, AfterFramework, AfterCount,
                            AfterDependencies
<1>2. CASE ScanInv /\ Collect
  <2>1. /\ pass = "walk" /\ pass' = "languages" /\ checkout' = checkout
        /\ fp' = [fp EXCEPT !.walked = Beginning(SafeFiles, MaxWalked), !.truncated = Truncated]
        /\ DOMAIN fp = FactNames /\ project \in Checkouts
    BY <1>2 DEF Collect, Add, ScanInv
  <2>2. /\ DOMAIN fp' = FactNames
        /\ fp'.walked = Beginning(SafeFiles, MaxWalked) /\ fp'.truncated = Truncated
    BY <2>1 DEF FactNames
  <2>3. project' = project /\ Truncated' = Truncated /\ SafeFiles' = SafeFiles
    BY <2>1, SameCheckout
  <2> QED BY <2>1, <2>2, <2>3 DEF ScanInv, AfterWalk, AfterLanguages, AfterManifests, AfterFramework,
        AfterCount,
                                  AfterDependencies
<1> QED BY <1>1, <1>2

(* The languages are those of the files, if there are any.                 *)
LEMMA LanguagesStep == ScanInv /\ DetectLanguages => ScanInv'
<1> SUFFICES ASSUME ScanInv, DetectLanguages PROVE ScanInv'
  OBVIOUS
<1> DEFINE found == LanguagesBy(fp.walked)
<1>1. /\ pass = "languages" /\ pass' = "manifests" /\ checkout' = checkout
      /\ fp' = IF LanguagesOf(fp.walked) = {} THEN fp
                 ELSE [fp EXCEPT !.primary = found.primary, !.secondary = found.secondary]
      /\ DOMAIN fp = FactNames /\ project \in Checkouts
      /\ fp.walked = Beginning(SafeFiles, MaxWalked) /\ fp.truncated = Truncated
  BY DEF DetectLanguages, Add, ScanInv, AfterWalk
<1>2. /\ DOMAIN fp' = FactNames /\ fp'.walked = fp.walked /\ fp'.truncated = fp.truncated
      /\ LanguagesOf(fp.walked) # {} => fp'.primary = found.primary /\ fp'.secondary = found.secondary
  BY <1>1 DEF FactNames
<1>3. project' = project /\ Truncated' = Truncated /\ SafeFiles' = SafeFiles
  BY <1>1, SameCheckout
<1> QED BY <1>1, <1>2, <1>3 DEF ScanInv, AfterWalk, AfterLanguages, AfterManifests, AfterFramework, AfterCount,
                                AfterDependencies

(* A manifest speaks for the language only where no file does.             *)
LEMMA ManifestsStep == ScanInv /\ DetectManifests => ScanInv'
<1> SUFFICES ASSUME ScanInv, DetectManifests PROVE ScanInv'
  OBVIOUS
<1> DEFINE first == FirstManifest(project.manifests)
           named == [fp EXCEPT !.manifests = UNION Range(project.manifests)]
           lang == ManifestMap[(CHOOSE s \in first : TRUE).row].lang
<1>1. /\ pass = "manifests" /\ pass' = "framework" /\ checkout' = checkout
      /\ fp' = IF fp.primary = "unknown" /\ first # {} THEN [named EXCEPT !.primary = lang] ELSE named
      /\ DOMAIN fp = FactNames /\ project \in Checkouts
  BY DEF DetectManifests, Add, ScanInv
<1>2. /\ fp.walked = Beginning(SafeFiles, MaxWalked) /\ fp.truncated = Truncated
      /\ LanguagesOf(fp.walked) # {} =>
           fp.primary = LanguagesBy(fp.walked).primary /\ fp.secondary = LanguagesBy(fp.walked).secondary
  BY <1>1 DEF ScanInv, AfterWalk, AfterLanguages
<1>3. project.manifests \in Seq(SUBSET ManifestType) /\ fp.walked \in Seq(FileType)
  BY <1>1, <1>2, WalkedAreFiles, ScannerAssumption DEF ManifestType
<1>4. first # {} => lang # "unknown"
  BY <1>3, OneManifestIsFirst
<1>5. (\E m \in UNION Range(project.manifests) : m.name # "Makefile") => first # {}
  BY <1>3, OneManifestIsFirst
<1>6. LanguagesOf(fp.walked) # {} => fp.primary # "unknown"
  <2>1. SUFFICES ASSUME LanguagesOf(fp.walked) # {} PROVE fp.primary # "unknown"
    OBVIOUS
  <2>2. PICK lead : SpeaksFor(fp.walked, lead, LanguagesBy(fp.walked))
    BY <1>3, <2>1, LanguagesAreNamed
  <2>3. LanguagesBy(fp.walked).primary \in LanguagesOf(fp.walked) \cup {"mixed"}
    BY <2>2 DEF SpeaksFor
  <2>4. "unknown" \notin LanguagesOf(fp.walked)
    BY <1>3, FilesAreCounted
  <2> QED BY <1>2, <2>1, <2>3, <2>4
<1> HIDE DEF first, lang
<1>7. /\ DOMAIN fp' = FactNames /\ fp'.walked = fp.walked /\ fp'.truncated = fp.truncated
      /\ fp'.secondary = fp.secondary /\ fp'.manifests = UNION Range(project.manifests)
      /\ fp'.primary = IF fp.primary = "unknown" /\ first # {} THEN lang ELSE fp.primary
  BY <1>1 DEF FactNames
<1>8. ManifestsSpeak(fp)'
  BY <1>4, <1>5, <1>7 DEF ManifestsSpeak
<1>9. project' = project /\ Truncated' = Truncated /\ SafeFiles' = SafeFiles
  BY <1>1, SameCheckout
<1> QED BY <1>1, <1>2, <1>6, <1>7, <1>8, <1>9 DEF ScanInv, AfterWalk, AfterLanguages, AfterManifests,
      AfterFramework,
                                                  AfterCount, AfterDependencies

(* The later passes each add a fact of their own.                          *)
LEMMA LaterStep ==
  ScanInv /\ (DetectFramework \/ DetectBuildSystem \/ DetectProjectType \/ CountFiles \/ DetectGit
              \/ DetectDependencies \/ DetectEntryPoints) => ScanInv'
<1> SUFFICES ASSUME ScanInv, DetectFramework \/ DetectBuildSystem \/ DetectProjectType \/ CountFiles
      \/ DetectGit
                             \/ DetectDependencies \/ DetectEntryPoints
             PROVE  ScanInv'
  OBVIOUS
<1> USE DEF AfterWalk, AfterLanguages, AfterManifests, AfterFramework, AfterCount, AfterDependencies
<1> DEFINE Kept == /\ DOMAIN fp' = FactNames /\ fp'.walked = fp.walked /\ fp'.truncated = fp.truncated
                   /\ fp'.primary = fp.primary /\ fp'.secondary = fp.secondary /\ fp'.manifests = fp.manifests
           Counted == fp'.sources = fp.sources /\ fp'.loc = fp.loc
<1>1. checkout' = checkout /\ DOMAIN fp = FactNames
  BY DEF DetectFramework, DetectBuildSystem, DetectProjectType, CountFiles, DetectGit, DetectDependencies,
         DetectEntryPoints, Add, ScanInv
<1>2. project' = project /\ Truncated' = Truncated /\ SafeFiles' = SafeFiles /\ Dependencies' = Dependencies
  BY <1>1, SameCheckout
<1>3. CASE DetectFramework
  <2>1. pass = "framework" /\ pass' = "build" /\ fp' = [fp EXCEPT !.framework = Framework(fp.manifests)]
    BY <1>3 DEF DetectFramework, Add
  <2>2. Kept /\ fp'.framework = Framework(fp.manifests)
    BY <1>1, <2>1 DEF FactNames
  <2> QED BY <1>2, <2>1, <2>2 DEF ScanInv, ManifestsSpeak
<1>4. CASE DetectBuildSystem
  <2>1. pass = "build" /\ pass' = "type" /\ (fp' = fp \/ \E b : fp' = [fp EXCEPT !.build = b])
    BY <1>4 DEF DetectBuildSystem, Add
  <2>2. Kept /\ fp'.framework = fp.framework
    BY <1>1, <2>1 DEF FactNames
  <2> QED BY <1>2, <2>1, <2>2 DEF ScanInv, ManifestsSpeak
<1>5. CASE DetectProjectType
  <2>1. pass = "type" /\ pass' = "count" /\ fp' = [fp EXCEPT !.type = ProjectType(fp)]
    BY <1>5 DEF DetectProjectType, Add
  <2>2. Kept /\ fp'.framework = fp.framework
    BY <1>1, <2>1 DEF FactNames
  <2> QED BY <1>2, <2>1, <2>2 DEF ScanInv, ManifestsSpeak
<1>6. CASE CountFiles
  <2>1. /\ pass = "count" /\ pass' = "git"
        /\ fp' = [fp EXCEPT !.sources = Cardinality(Sources(fp.walked)), !.loc = Estimate(fp.walked)]
    BY <1>6 DEF CountFiles, Add
  <2>2. Kept /\ fp'.framework = fp.framework /\ fp'.sources = Cardinality(Sources(fp.walked))
          /\ fp'.loc = Estimate(fp.walked)
    BY <1>1, <2>1 DEF FactNames
  <2> QED BY <1>2, <2>1, <2>2 DEF ScanInv, ManifestsSpeak
<1>7. CASE DetectGit
  <2>1. pass = "git" /\ pass' = "dependencies" /\ \E g : fp' = [fp EXCEPT !.git = g]
    BY <1>7 DEF DetectGit, Add
  <2>2. Kept /\ Counted /\ fp'.framework = fp.framework
    BY <1>1, <2>1 DEF FactNames
  <2> QED BY <1>2, <2>1, <2>2 DEF ScanInv, ManifestsSpeak
<1>8. CASE DetectDependencies
  <2>1. pass = "dependencies" /\ pass' = "entries" /\ fp' = [fp EXCEPT !.dependencies = Dependencies]
    BY <1>8 DEF DetectDependencies, Add
  <2>2. Kept /\ Counted /\ fp'.framework = fp.framework /\ fp'.dependencies = Dependencies
    BY <1>1, <2>1 DEF FactNames
  <2> QED BY <1>2, <2>1, <2>2 DEF ScanInv, ManifestsSpeak
<1>9. CASE DetectEntryPoints
  <2>1. pass = "entries" /\ pass' = "done" /\ \E e : fp' = [fp EXCEPT !.entries = e]
    BY <1>9 DEF DetectEntryPoints, Add
  <2>2. Kept /\ Counted /\ fp'.framework = fp.framework /\ fp'.dependencies = fp.dependencies
    BY <1>1, <2>1 DEF FactNames
  <2> QED BY <1>2, <2>1, <2>2 DEF ScanInv, ManifestsSpeak
<1> QED BY <1>3, <1>4, <1>5, <1>6, <1>7, <1>8, <1>9

(* Before the scan no pass has found anything.                             *)
LEMMA ScanStarts == ScanInit => ScanInv
BY DEF ScanInit, ScanInv, NoFingerprint, FactNames, AfterWalk, AfterLanguages, AfterManifests, AfterFramework,
       AfterCount, AfterDependencies

(* Every step of the scan keeps what the passes before it found, and its    *)
(* own pass finds what the files and manifests say (scanner.py:165-224).   *)
LEMMA ScanStepKeeps == ScanInv /\ ScanNext => ScanInv'
BY WalkStep, LanguagesStep, ManifestsStep, LaterStep DEF ScanNext

(* A scan that is over stays as it is.                                     *)
LEMMA ScanIsOver == Scanned => ~ScanNext
BY DEF Scanned, ScanNext, BeginScan, Collect, DetectLanguages, DetectManifests, DetectFramework,
  DetectBuildSystem,
       DetectProjectType, CountFiles, DetectGit, DetectDependencies, DetectEntryPoints

(* The facts of a scan that is over.                                       *)
LEMMA ScannedFacts ==
  ASSUME ScanInv, Scanned
  PROVE  /\ project \in Checkouts /\ fp.walked \in Seq(FileType)
         /\ fp.truncated = Truncated
         /\ Len(fp.walked) = IF Len(SafeFiles) > MaxWalked THEN MaxWalked ELSE Len(SafeFiles)
         /\ LanguagesOf(fp.walked) # {} => \E first : SpeaksFor(fp.walked, first, fp)
         /\ fp.manifests = UNION Range(project.manifests) /\ ManifestsSpeak(fp)
         /\ fp.framework = Framework(fp.manifests)
         /\ fp.sources = Cardinality(Sources(fp.walked)) /\ fp.loc = Estimate(fp.walked)
         /\ fp.dependencies = Dependencies
<1>1. /\ project \in Checkouts /\ fp.walked = Beginning(SafeFiles, MaxWalked)
      /\ fp.truncated = Truncated
      /\ LanguagesOf(fp.walked) # {} =>
           fp.primary = LanguagesBy(fp.walked).primary /\ fp.secondary = LanguagesBy(fp.walked).secondary
      /\ fp.manifests = UNION Range(project.manifests) /\ ManifestsSpeak(fp)
      /\ fp.framework = Framework(fp.manifests)
      /\ fp.sources = Cardinality(Sources(fp.walked)) /\ fp.loc = Estimate(fp.walked)
      /\ fp.dependencies = Dependencies
  BY DEF ScanInv, Scanned, AfterWalk, AfterLanguages, AfterManifests, AfterFramework, AfterCount,
    AfterDependencies
<1>2. /\ fp.walked \in Seq(FileType)
      /\ Len(fp.walked) = IF Len(SafeFiles) > MaxWalked THEN MaxWalked ELSE Len(SafeFiles)
  BY <1>1, WalkedAreFiles
<1>3. ASSUME LanguagesOf(fp.walked) # {} PROVE \E first : SpeaksFor(fp.walked, first, fp)
  <2>1. PICK first : SpeaksFor(fp.walked, first, LanguagesBy(fp.walked))
    BY <1>2, <1>3, LanguagesAreNamed
  <2>2. SpeaksFor(fp.walked, first, fp)
    BY <1>1, <1>3, <2>1 DEF SpeaksFor, NamedLanguages
  <2> QED BY <2>2
<1> QED BY <1>1, <1>2, <1>3

(* A finished scan is a faithful fingerprint of the project.               *)
LEMMA FingerprintIsRead == ScanInv => FingerprintIsFaithful
<1> SUFFICES ASSUME ScanInv, Scanned PROVE FingerprintIsFaithful
  BY DEF FingerprintIsFaithful
<1> DEFINE safe == {i \in DOMAIN project.walk : project.walk[i].safe}
           named == (Range(fp.secondary) \cup {fp.primary}) \ {"mixed"}
           all == Sources(fp.walked)
           lengths == {fp.walked[i].lines : i \in all} \ {0}
           L == LanguagesOf(fp.walked)
<1>1. fp.truncated <=> Len(fp.walked) < Cardinality(safe) \/ project.directories > MaxDirectories
  <2>1. /\ fp.truncated = Truncated /\ project \in Checkouts
        /\ Len(fp.walked) = IF Len(SafeFiles) > MaxWalked THEN MaxWalked ELSE Len(SafeFiles)
    BY ScannedFacts
  <2>2. /\ Len(SafeFiles) = Cardinality(Reached) /\ MaxWalked \in Nat /\ Len(SafeFiles) \in Nat
        /\ project.walk \in Seq(FileType)
    BY <2>1, WalkedAreFiles
  <2>3. CASE project.directories > MaxDirectories
    <3>1. Truncated
      BY <2>3 DEF Truncated
    <3> HIDE DEF safe
    <3> QED BY <2>1, <2>3, <3>1, Zenon
  <2>4. CASE ~(project.directories > MaxDirectories)
    <3>1. ASSUME NEW i \in DOMAIN project.walk PROVE project.walk[i].dir <= MaxDirectories
      <4>1. project.walk[i] \in FileType
        BY <2>2
      <4>2. project.walk[i].dir \in Nat
        BY <4>1 DEF FileType
      <4>3. MaxDirectories \in Nat
        BY ScannerAssumption, Zenon
      <4>4. project.directories \in Nat /\ \A k \in DOMAIN project.walk : project.walk[k].dir <= project.directories
        BY <2>1, ScannerAssumption, Zenon
      <4> QED BY <2>4, <4>2, <4>3, <4>4
    <3>2. Reached = safe
      BY <3>1 DEF Reached
    <3> HIDE DEF safe
    <3>3. Len(SafeFiles) > MaxWalked <=> Len(fp.walked) < Cardinality(safe)
      BY <2>1, <2>2, <3>2
    <3> QED BY <2>1, <2>4, <3>3 DEF Truncated
  <2> QED BY <2>3, <2>4
<1>2. /\ fp.walked \in Seq(FileType)
      /\ all # {} <=> L # {}
      /\ L = {fp.walked[i].lang : i \in all}
  <2>1. fp.walked \in Seq(FileType)
    BY ScannedFacts
  <2> QED BY <2>1, FilesAreCounted DEF LanguagesOf
<1>3. ASSUME all # {}
      PROVE  /\ \A i \in all : LET share == ShareOf(fp.walked[i].lang) IN
                  /\ 100 * share[1] > 15 * share[2] => fp.walked[i].lang \in named
                  /\ fp.primary = fp.walked[i].lang <=> 10 * share[1] >= 6 * share[2]
             /\ \E l \in named : \A i \in all : ShareOf(fp.walked[i].lang)[1] <= ShareOf(l)[1]
             /\ IsInjective(fp.secondary) /\ named \subseteq {fp.walked[i].lang : i \in all}
  <2>1. PICK first : SpeaksFor(fp.walked, first, fp)
    BY <1>2, <1>3, ScannedFacts
  <2>2. /\ first \in L /\ \A l \in L : CountOf(fp.walked, l) <= CountOf(fp.walked, first)
        /\ IsInjective(fp.secondary)
        /\ named = {first} \cup {l \in L : Significant(fp.walked, l)}
        /\ \A l \in L : fp.primary = l <=> Dominant(fp.walked, l)
    BY <2>1 DEF SpeaksFor, NamedLanguages
  <2>3. \A l : ShareOf(l)[1] = CountOf(fp.walked, l) /\ ShareOf(l)[2] = Cardinality(all)
    BY DEF ShareOf
  <2>4. \A l : /\ 100 * ShareOf(l)[1] > 15 * ShareOf(l)[2] <=> Significant(fp.walked, l)
               /\ 10 * ShareOf(l)[1] >= 6 * ShareOf(l)[2] <=> Dominant(fp.walked, l)
    BY <2>3 DEF Significant, Dominant
  <2> HIDE DEF named, all, L
  <2>5. first \in named /\ named \subseteq L
    BY <2>2
  <2>6. \A i \in all : fp.walked[i].lang \in L
    BY <1>2
  <2>7. \A i \in all : ShareOf(fp.walked[i].lang)[1] <= ShareOf(first)[1]
    BY <2>2, <2>3, <2>6
  <2> QED BY <1>2, <2>2, <2>4, <2>5, <2>6, <2>7
<1>4. (all = {} /\ \E m \in fp.manifests : m.name # "Makefile") => fp.primary # "unknown"
  <2>1. all = {} => L = {}
    BY <1>2
  <2> QED BY <2>1, ScannedFacts DEF ManifestsSpeak
<1>5. fp.framework = "none" <=>
        \A m \in fp.manifests : ~m.readable \/ m.words \cap Range(OfName(m.name).signals) = {}
  <2>1. fp.manifests = UNION Range(project.manifests) /\ fp.framework = Framework(fp.manifests)
    BY ScannedFacts
  <2>2. fp.manifests \in SUBSET ManifestType
    <3>1. project.manifests \in Seq(SUBSET ManifestType)
      BY ScannedFacts, ScannerAssumption DEF ManifestType
    <3>2. Range(project.manifests) \in SUBSET (SUBSET ManifestType)
      BY <3>1, RangeOfSeq
    <3> QED BY <2>1, <3>2
  <2> QED BY <2>1, <2>2, FrameworkIsSignalled
<1>6. ASSUME lengths # {}
      PROVE  /\ fp.loc \in 0 .. Max(lengths) * fp.sources
             /\ (Cardinality(lengths) = 1 /\ SampledLines(fp.walked) # <<>>)
                  => fp.loc = Max(lengths) * fp.sources
  <2>1. fp.loc = Estimate(fp.walked) /\ fp.sources = Cardinality(Sources(fp.walked))
    BY ScannedFacts
  <2>2. lengths = {fp.walked[i].lines : i \in Sources(fp.walked)} \ {0}
    OBVIOUS
  <2> HIDE DEF lengths
  <2> QED BY <1>2, <1>6, <2>1, <2>2, EstimateIsBetween
<1>7. (Cardinality(lengths) = 1 /\ SampledLines(fp.walked) # <<>>) => lengths # {}
  <2> HIDE DEF lengths
  <2> QED BY FS_EmptySet
<1>8. IsInjective(fp.dependencies)
  BY ScannedFacts, DependenciesAreOnce
<1> HIDE DEF safe, named, all, lengths
<1> QED BY <1>1, <1>3, <1>4, <1>5, <1>6, <1>7, <1>8 DEF FingerprintIsFaithful, safe, named, all, lengths

-----------------------------------------------------------------------------
(* The languages that weigh are those the tools are chosen for.            *)
LEMMA WeightyAreSpoken ==
  ASSUME ScanInv, Scanned, Weighty # {}
  PROVE  Range(SpokenIn) = Weighty
<1> DEFINE L == LanguagesOf(fp.walked)
           N(l) == CountOf(fp.walked, l)
           total == Cardinality(Sources(fp.walked))
<1>1. L # {} /\ fp.walked \in Seq(FileType)
  BY ScannedFacts DEF Weighty
<1>2. PICK first : SpeaksFor(fp.walked, first, fp)
  BY <1>1, ScannedFacts
<1>3. Range(SpokenIn) = {first} \cup {l \in L : Significant(fp.walked, l)}
  <2>1. Range(SpokenIn) = NamedLanguages(fp)
    BY <1>1, <1>2, SpokenAreNamed DEF SpokenIn
  <2> QED BY <1>2, <2>1 DEF SpeaksFor
<1>4. first \in L /\ \A l \in L : N(l) <= N(first)
  BY <1>2 DEF SpeaksFor
<1>5. Weighty = {l \in L : Significant(fp.walked, l) \/ \A k \in L \ {l} : N(l) > N(k)}
  BY DEF Weighty, ShareOf, Significant
<1>6. total \in Nat /\ \A l \in L : N(l) \in Nat
  BY <1>1, FilesAreCounted
<1>7. \A l \in L : Significant(fp.walked, l) <=> 100 * N(l) > 15 * total
  BY DEF Significant
<1> HIDE DEF L, N, total
<1>8. \A l \in L : Significant(fp.walked, l) => Significant(fp.walked, first)
  BY <1>4, <1>6, <1>7
<1>9. \A l \in L \ {first} : ~(\A k \in L \ {l} : N(l) > N(k))
  BY <1>4, <1>6
<1>10. first \in Weighty
  BY <1>4, <1>5, <1>8, <1>9
<1> QED BY <1>3, <1>4, <1>5, <1>9, <1>10

(* The tools that were found for the request, and what each can give.      *)
ToolList == FindTools(Category(request[1]), request[1].mode = "symptoms" /\ request[1].system, binaries)
Possible(name, category) == Diagnoses(name, category) \cup {Found(name, FALSE, FALSE, {}, <<>>)}
AllPossible == UNION {Possible(t.name, Category(request[1])) : t \in Range(Tools)}

(* Each tool of the list has given a diagnosis, in the order of the list,  *)
(* or is still to run.                                                     *)
ToolsInOrder ==
  /\ diagnoses \in Seq(AllPossible) /\ toRun \in Seq(Range(Tools))
  /\ Len(diagnoses) + Len(toRun) = Len(ToolList)
  /\ \A i \in 1 .. Len(diagnoses) : diagnoses[i] \in Possible(ToolList[i].name, Category(request[1]))
  /\ \A i \in 1 .. Len(toRun) : toRun[i] = ToolList[Len(diagnoses) + i]
Reported ==
  /\ toRun = <<>>
  /\ report = <<[shown |-> [i \in DOMAIN diagnoses |-> Shown(diagnoses[i])],
                health |-> IF request[1].mode = "symptoms" THEN HealthCheck ELSE {}]>>
ToolInv ==
  /\ request = <<>> => diagnoses = <<>> /\ report = <<>>
  /\ request # <<>> => Scanned /\ ToolsInOrder
  /\ report # <<>> => Reported

DiagnosisInv == ScanInv /\ ToolInv

(* What a tool gives is about that tool, and no more than its commands     *)
(* said.                                                                   *)
RightDiagnosis(r, name) ==
  /\ r.tool = name
  /\ r.symptom => \E o \in Range(r.said) : o.telling
  /\ (r.success /\ ~r.symptom) => \A o \in Range(r.said) : o.ok
  /\ (r.success /\ name = "static_analysis") => \A l \in Range(SpokenIn) \cap DOMAIN Linters :
       Linters[l] \subseteq r.tips

ToolNames == {"dmesg", "ps", "vmstat", "go", "python", "cpp", "java", "static_analysis"}

(* Each category of error has its tools, each tool only once               *)
(* (registry.py:200-219).                                                  *)
LEMMA ToolsAreKnown ==
  /\ DOMAIN Tools = 1 .. 8 /\ Tools \in Seq(Range(Tools))
  /\ \A t \in Range(Tools) : t.name \in ToolNames
<1>1. DOMAIN Tools = 1 .. 8
  BY DEF Tools
<1>2. Tools \in Seq(Range(Tools))
  <2>1. Len(Tools) = 8 /\ Tools = [i \in 1 .. 8 |-> Tools[i]]
    BY DEF Tools
  <2>2. \A i \in 1 .. 8 : Tools[i] \in Range(Tools)
    BY <1>1 DEF Range
  <2>3. Tools \in [1 .. 8 -> Range(Tools)]
    BY <2>1, <2>2
  <2> QED BY <2>3, SeqDef
<1>3. ASSUME NEW i \in 1 .. 8 PROVE Tools[i].name \in ToolNames
  <2>1. i = 1 \/ i = 2 \/ i = 3 \/ i = 4 \/ i = 5 \/ i = 6 \/ i = 7 \/ i = 8
    OBVIOUS
  <2>2. /\ Tools[1].name = "dmesg" /\ Tools[2].name = "ps" /\ Tools[3].name = "vmstat" /\ Tools[4].name = "go"
        /\ Tools[5].name = "python" /\ Tools[6].name = "cpp" /\ Tools[7].name = "java"
        /\ Tools[8].name = "static_analysis"
    BY DEF Tools, Tool
  <2> QED BY <2>1, <2>2 DEF ToolNames
<1> QED BY <1>1, <1>2, <1>3 DEF Range

(* The list of a request is a part of the registry.                        *)
LEMMA ListedTools ==
  ASSUME NEW category, NEW system, NEW installed
  PROVE  FindTools(category, system, installed) \in Seq(Range(Tools))
<1> DEFINE P == {i \in DOMAIN Tools : Fits(Tools[i], category, system, installed)}
<1>1. P \in SUBSET DOMAIN Tools
  OBVIOUS
<1>2. FindTools(category, system, installed) = AtPositions(Tools, P)
  BY DEF FindTools
<1> HIDE DEF P
<1> QED BY <1>1, <1>2, ToolsAreKnown, AtPositionsIsSubsequence

(* What has been said is shown as it was found.                            *)
LEMMA SaidOnce ==
  ASSUME NEW o
  PROVE  Range(<<o>>) = {o} /\ Range(<<>>) = {}
BY DEF Range

(* Whatever its programs print, a tool's result says what they printed.    *)
LEMMA DiagnosesAreRight ==
  ASSUME NEW name \in ToolNames, NEW category, NEW r \in Possible(name, category)
  PROVE  RightDiagnosis(r, name)
<1>1. CASE r = Found(name, FALSE, FALSE, {}, <<>>)
  BY <1>1 DEF Found, RightDiagnosis, Range
<1>2. CASE r \in Diagnoses(name, category)
  <2>1. CASE name \in {"dmesg", "ps", "vmstat"}
    <3>1. Diagnoses(name, category) = SystemTool(name, category)
      BY <2>1 DEF Diagnoses, Watched
    <3>2. PICK o \in Output : r = Found(name, o.ok, o.ok /\ o.telling /\ category \in Watched[name], {}, <<o>>)
      BY <1>2, <3>1 DEF SystemTool
    <3>3. /\ r.tool = name /\ r.success = o.ok /\ r.symptom = (o.ok /\ o.telling /\ category \in Watched[name])
          /\ Range(r.said) = {o}
      BY <3>2, SaidOnce DEF Found
    <3>4. name # "static_analysis" /\ o.ok \in BOOLEAN /\ o.telling \in BOOLEAN
      BY <2>1 DEF Output
    <3> QED BY <3>3, <3>4 DEF RightDiagnosis
  <2>2. CASE name = "go"
    <3>1. r \in GoTool(category)
      BY <1>2, <2>2 DEF Diagnoses, Watched
    <3>2. CASE \E v \in Output : ~v.ok /\ r = Found("go", FALSE, FALSE, {}, <<v>>)
      BY <2>2, <3>2 DEF Found, RightDiagnosis
    <3>3. CASE \E o \in Output : r = CASE category = "concurrency" -> Found("go", o.telling \/ o.ok,
            o.telling, {}, <<o>>)
                 [] category = "performance" -> Found("go", o.ok, FALSE, {"cpu profile", "goroutines"}, <<o>>)
                 [] category = "memory_leak" -> Found("go", TRUE, FALSE, {"heap profile"}, <<>>)
                 [] OTHER -> Found("go", TRUE, FALSE, {}, <<>>)
      <4>1. PICK o \in Output : r = CASE category = "concurrency" -> Found("go", o.telling \/ o.ok,
              o.telling, {}, <<o>>)
                 [] category = "performance" -> Found("go", o.ok, FALSE, {"cpu profile", "goroutines"}, <<o>>)
                 [] category = "memory_leak" -> Found("go", TRUE, FALSE, {"heap profile"}, <<>>)
                 [] OTHER -> Found("go", TRUE, FALSE, {}, <<>>)
        BY <3>3
      <4>2. \/ r = Found("go", o.telling \/ o.ok, o.telling, {}, <<o>>)
            \/ r = Found("go", o.ok, FALSE, {"cpu profile", "goroutines"}, <<o>>)
            \/ \E tips : r = Found("go", TRUE, FALSE, tips, <<>>)
        BY <4>1
      <4>3. r.tool = name /\ \/ r.success = (o.telling \/ o.ok) /\ r.symptom = o.telling /\ Range(r.said) = {o}
                             \/ r.success = o.ok /\ r.symptom = FALSE /\ Range(r.said) = {o}
                             \/ r.symptom = FALSE /\ Range(r.said) = {}
        <5>1. CASE r = Found("go", o.telling \/ o.ok, o.telling, {}, <<o>>)
          BY <2>2, <5>1, SaidOnce DEF Found
        <5>2. CASE r = Found("go", o.ok, FALSE, {"cpu profile", "goroutines"}, <<o>>)
          BY <2>2, <5>2, SaidOnce DEF Found
        <5>3. CASE \E tips : r = Found("go", TRUE, FALSE, tips, <<>>)
          BY <2>2, <5>3 DEF Found, Range
        <5> QED BY <4>2, <5>1, <5>2, <5>3
      <4>4. o.ok \in BOOLEAN /\ o.telling \in BOOLEAN
        BY DEF Output
      <4> QED BY <2>2, <4>3, <4>4 DEF RightDiagnosis
    <3> QED BY <3>1, <3>2, <3>3 DEF GoTool
  <2>3. CASE name = "python"
    <3>1. r \in PythonTool(category)
      BY <1>2, <2>3 DEF Diagnoses, Watched
    <3>2. \/ \E p \in Parses : r = Found("python", TRUE, "syntax error" \in p, {},
                                         <<[ok |-> TRUE, telling |-> "syntax error" \in p]>>)
          \/ \E tips : r = Found("python", TRUE, FALSE, tips, <<>>)
      BY <3>1 DEF PythonTool
    <3>3. CASE \E tips : r = Found("python", TRUE, FALSE, tips, <<>>)
      BY <2>3, <3>3 DEF Found, RightDiagnosis, Range
    <3>4. CASE \E p \in Parses : r = Found("python", TRUE, "syntax error" \in p, {},
                                         <<[ok |-> TRUE, telling |-> "syntax error" \in p]>>)
      <4>1. PICK p \in Parses : r = Found("python", TRUE, "syntax error" \in p, {},
                                          <<[ok |-> TRUE, telling |-> "syntax error" \in p]>>)
        BY <3>4
      <4> DEFINE seen == "syntax error" \in p
                 o == [ok |-> TRUE, telling |-> seen]
      <4>2. r = Found("python", TRUE, seen, {}, <<o>>)
        BY <4>1
      <4>3. o.ok = TRUE /\ o.telling = seen
        OBVIOUS
      <4> HIDE DEF o, seen
      <4>4. r.symptom = seen /\ r.tool = "python" /\ Range(r.said) = {o}
        BY <4>2, SaidOnce DEF Found
      <4> QED BY <2>3, <4>3, <4>4 DEF RightDiagnosis
    <3> QED BY <3>2, <3>3, <3>4
  <2>4. CASE name = "cpp"
    <3>1. r \in CppTool(category)
      BY <1>2, <2>4 DEF Diagnoses, Watched
    <3>2. PICK tips : r = Found("cpp", TRUE, FALSE, tips, <<>>)
      BY <3>1 DEF CppTool
    <3> QED BY <2>4, <3>2 DEF Found, RightDiagnosis, Range
  <2>5. CASE name = "java"
    <3>1. r \in JavaTool(category)
      BY <1>2, <2>5 DEF Diagnoses, Watched
    <3>2. PICK tips : r = Found("java", TRUE, FALSE, tips, <<>>)
      BY <3>1 DEF JavaTool
    <3> QED BY <2>5, <3>2 DEF Found, RightDiagnosis, Range
  <2>6. CASE name = "static_analysis"
    <3>1. r \in StaticTool
      BY <1>2, <2>6 DEF Diagnoses, Watched
    <3>2. r = Found("static_analysis", TRUE, FALSE,
            UNION {Linters[l] : l \in Range(SpokenIn) \cap DOMAIN Linters}, <<>>)
      BY <3>1 DEF StaticTool
    <3>3. /\ r.tool = name /\ r.symptom = FALSE /\ Range(r.said) = {}
          /\ r.tips = UNION {Linters[l] : l \in Range(SpokenIn) \cap DOMAIN Linters}
      BY <2>6, <3>2, SaidOnce DEF Found
    <3>4. \A l \in Range(SpokenIn) \cap DOMAIN Linters : Linters[l] \subseteq r.tips
      BY <3>3
    <3> QED BY <3>3, <3>4 DEF RightDiagnosis
  <2> QED BY <2>1, <2>2, <2>3, <2>4, <2>5, <2>6 DEF ToolNames
<1> QED BY <1>1, <1>2 DEF Possible

(* A scan that is over and a request that is made decide the list and what *)
(* its tools can give.                                                     *)
LEMMA SameTools ==
  ASSUME UNCHANGED scanVars
  PROVE  /\ \A c, s, b : FindTools(c, s, b)' = FindTools(c, s, b)
         /\ \A n, c : Possible(n, c)' = Possible(n, c)
         /\ binaries' = binaries => HealthCheck' = HealthCheck
         /\ (request' = request /\ binaries' = binaries) => ToolList' = ToolList /\ AllPossible' = AllPossible
<1>1. checkout' = checkout /\ fp' = fp /\ pass' = pass
  BY DEF scanVars
<1>2. project' = project /\ SpokenIn' = SpokenIn
  BY <1>1 DEF project, SpokenIn
<1>3. \A c, s, b : FindTools(c, s, b)' = FindTools(c, s, b)
  BY <1>2 DEF FindTools, Fits
<1>4. \A n, c : Possible(n, c)' = Possible(n, c)
  BY <1>2 DEF Possible, Diagnoses, SystemTool, GoTool, PythonTool, ProfileTarget, CppTool, JavaTool, StaticTool
<1>5. binaries' = binaries => HealthCheck' = HealthCheck
  BY <1>2 DEF HealthCheck
<1>6. ASSUME request' = request, binaries' = binaries
      PROVE  ToolList' = ToolList /\ AllPossible' = AllPossible
  <2>1. ToolList' = ToolList
    BY <1>2, <1>6 DEF ToolList, FindTools, Fits
  <2>2. AllPossible' = AllPossible
    BY <1>2, <1>6 DEF AllPossible, Possible, Diagnoses, SystemTool, GoTool, PythonTool, ProfileTarget, CppTool,
                      JavaTool, StaticTool
  <2> QED BY <2>1, <2>2
<1> QED BY <1>3, <1>4, <1>5, <1>6

(* A request finds its tools.                                              *)
LEMMA BeginDiagnosisKeeps == DiagnosisInv /\ BeginDiagnosis => ToolInv'
<1> SUFFICES ASSUME DiagnosisInv, BeginDiagnosis PROVE ToolInv'
  OBVIOUS
<1>1. PICK r \in project.asks, m \in Installed :
        /\ request' = <<r>> /\ binaries' = m
        /\ toRun' = FindTools(Category(r), r.mode = "symptoms" /\ r.system, m)
  BY DEF BeginDiagnosis
<1>2. /\ Scanned /\ request = <<>> /\ UNCHANGED scanVars /\ diagnoses' = diagnoses /\ report' = report
      /\ diagnoses = <<>> /\ report = <<>>
  BY DEF BeginDiagnosis, DiagnosisInv, ToolInv
<1>3. request'[1] = r /\ request' # <<>>
  BY <1>1
<1>4. ToolList' = toRun'
  <2>1. ToolList' = FindTools(Category(r), r.mode = "symptoms" /\ r.system, m)'
    BY <1>1, <1>3 DEF ToolList, FindTools, Fits, SpokenIn
  <2> QED BY <1>1, <1>2, <2>1, SameTools
<1>5. toRun' \in Seq(Range(Tools)) /\ Len(toRun') \in Nat
  BY <1>1, ListedTools, LenProperties
<1>6. diagnoses' = <<>> /\ <<>> \in Seq(AllPossible') /\ Len(<<>>) = 0
  BY <1>2
<1>7. ToolsInOrder'
  BY <1>4, <1>5, <1>6 DEF ToolsInOrder
<1>8. Scanned'
  BY <1>2 DEF Scanned, scanVars
<1> QED BY <1>2, <1>3, <1>7, <1>8 DEF ToolInv

(* A tool gives one of its diagnoses, whatever happened to those before.   *)
LEMMA RunToolKeeps == DiagnosisInv /\ RunTool => ToolInv'
<1> SUFFICES ASSUME DiagnosisInv, RunTool PROVE ToolInv'
  OBVIOUS
<1> DEFINE category == Category(request[1])
           d == Len(diagnoses)
<1>1. /\ request # <<>> /\ toRun # <<>> /\ UNCHANGED <<scanVars, request, binaries, report>>
           /\ toRun' = Tail(toRun)
      /\ \E r \in Possible(Head(toRun).name, category) : diagnoses' = Append(diagnoses, r)
  BY DEF RunTool, Possible
<1>2. PICK r \in Possible(Head(toRun).name, category) : diagnoses' = Append(diagnoses, r)
  BY <1>1
<1>3. /\ Scanned /\ ToolsInOrder /\ report = <<>>
  BY <1>1 DEF DiagnosisInv, ToolInv, Reported
<1>4. ToolList' = ToolList /\ AllPossible' = AllPossible /\ request' = request
      /\ \A n, c : Possible(n, c)' = Possible(n, c)
  BY <1>1, SameTools
<1>5. /\ diagnoses \in Seq(AllPossible) /\ toRun \in Seq(Range(Tools)) /\ d + Len(toRun) = Len(ToolList)
      /\ \A i \in 1 .. d : diagnoses[i] \in Possible(ToolList[i].name, category)
      /\ \A i \in 1 .. Len(toRun) : toRun[i] = ToolList[d + i]
  BY <1>3 DEF ToolsInOrder
<1>6. /\ Head(toRun) = toRun[1] /\ Head(toRun) \in Range(Tools) /\ Len(toRun) \in Nat /\ Len(toRun) > 0
      /\ Tail(toRun) \in Seq(Range(Tools)) /\ Len(Tail(toRun)) = Len(toRun) - 1
      /\ \A i \in 1 .. Len(Tail(toRun)) : Tail(toRun)[i] = toRun[i + 1]
      /\ d \in Nat
  BY <1>1, <1>5, HeadTailProperties, EmptySeq, LenProperties
<1>7. Head(toRun) = ToolList[d + 1]
  BY <1>5, <1>6
<1>8. r \in AllPossible
  BY <1>2, <1>6 DEF AllPossible
<1> HIDE DEF d
<1>9. /\ diagnoses' \in Seq(AllPossible) /\ Len(diagnoses') = d + 1 /\ diagnoses'[d + 1] = r
      /\ \A i \in 1 .. d : diagnoses'[i] = diagnoses[i]
  BY <1>2, <1>5, <1>8, AppendProperties DEF d
<1>10. \A i \in 1 .. d + 1 : diagnoses'[i] \in Possible(ToolList[i].name, category)
  <2>1. ASSUME NEW i \in 1 .. d + 1 PROVE diagnoses'[i] \in Possible(ToolList[i].name, category)
    <3>1. CASE i \in 1 .. d
      BY <1>5, <1>9, <3>1
    <3>2. CASE i = d + 1
      BY <1>2, <1>7, <1>9, <3>2
    <3> QED BY <1>6, <3>1, <3>2
  <2> QED BY <2>1
<1>11. \A i \in 1 .. Len(toRun') : toRun'[i] = ToolList[d + 1 + i]
  <2>1. ASSUME NEW i \in 1 .. Len(Tail(toRun)) PROVE Tail(toRun)[i] = ToolList[d + 1 + i]
    <3>1. i + 1 \in 1 .. Len(toRun) /\ d + (i + 1) = d + 1 + i
      BY <1>6
    <3> QED BY <1>5, <1>6, <3>1
  <2> QED BY <1>1, <2>1
<1>12. toRun' \in Seq(Range(Tools)) /\ Len(diagnoses') + Len(toRun') = Len(ToolList)
  BY <1>1, <1>5, <1>6, <1>9
<1>13. ToolsInOrder'
  <2>1. \A i \in 1 .. Len(diagnoses') : diagnoses'[i] \in Possible(ToolList[i].name, category)'
    BY <1>4, <1>9, <1>10
  <2> QED BY <1>4, <1>9, <1>10, <1>11, <1>12 DEF ToolsInOrder
<1>14. Scanned' /\ request' # <<>> /\ report' = <<>>
  BY <1>1, <1>3 DEF Scanned, scanVars
<1> QED BY <1>13, <1>14 DEF ToolInv

(* The report is of all the tools there were to run.                       *)
LEMMA FormatKeeps == DiagnosisInv /\ Format => ToolInv'
<1> SUFFICES ASSUME DiagnosisInv, Format PROVE ToolInv'
  OBVIOUS
<1>1. /\ request # <<>> /\ toRun = <<>> /\ UNCHANGED <<scanVars, request, binaries, toRun, diagnoses>>
      /\ report' = <<[shown |-> [i \in DOMAIN diagnoses |-> Shown(diagnoses[i])],
                      health |-> IF request[1].mode = "symptoms" THEN HealthCheck ELSE {}]>>
  BY DEF Format
<1>2. Scanned /\ ToolsInOrder
  BY <1>1 DEF DiagnosisInv, ToolInv
<1>3. /\ ToolList' = ToolList /\ AllPossible' = AllPossible /\ HealthCheck' = HealthCheck
      /\ \A n, c : Possible(n, c)' = Possible(n, c)
  BY <1>1, SameTools
<1>4. ToolsInOrder'
  BY <1>1, <1>2, <1>3 DEF ToolsInOrder
<1>5. Reported'
  BY <1>1, <1>3 DEF Reported
<1>6. Scanned' /\ request' # <<>>
  BY <1>1, <1>2 DEF Scanned, scanVars
<1> QED BY <1>4, <1>5, <1>6 DEF ToolInv

(* While the scan runs, and when nothing moves.                            *)
LEMMA DiagnosisRests ==
  ASSUME DiagnosisInv, UNCHANGED diagnosticVars, ScanNext \/ UNCHANGED scanVars
  PROVE  ToolInv'
<1>1. /\ request' = request /\ binaries' = binaries /\ toRun' = toRun /\ diagnoses' = diagnoses
           /\ report' = report
  BY DEF diagnosticVars
<1>2. CASE request = <<>>
  BY <1>1, <1>2 DEF DiagnosisInv, ToolInv
<1>3. CASE request # <<>>
  <2>1. Scanned /\ ToolsInOrder /\ (report # <<>> => Reported)
    BY <1>3 DEF DiagnosisInv, ToolInv
  <2>2. UNCHANGED scanVars
    BY <2>1, ScanIsOver
  <2>3. /\ ToolList' = ToolList /\ AllPossible' = AllPossible /\ HealthCheck' = HealthCheck
        /\ \A n, c : Possible(n, c)' = Possible(n, c)
    BY <1>1, <2>2, SameTools
  <2>4. ToolsInOrder'
    BY <1>1, <2>1, <2>3 DEF ToolsInOrder
  <2>5. report' # <<>> => Reported'
    BY <1>1, <2>1, <2>3 DEF Reported
  <2>6. Scanned'
    BY <2>1, <2>2 DEF Scanned, scanVars
  <2> QED BY <1>1, <1>3, <2>4, <2>5, <2>6 DEF ToolInv
<1> QED BY <1>2, <1>3

(* The tools in the report are those that are due.                         *)
LEMMA ReportCovers == DiagnosisInv => ToolsCoverProject
<1> SUFFICES ASSUME DiagnosisInv, report # <<>>, Weighty # {} PROVE ToolsCoverProject
  BY DEF ToolsCoverProject
<1> DEFINE due == AtPositions(Tools, {i \in DOMAIN Tools : Due(Tools[i])})
           shown == [i \in DOMAIN diagnoses |-> Shown(diagnoses[i])]
           category == Category(request[1])
           system == request[1].mode = "symptoms" /\ request[1].system
<1>1. /\ request # <<>> /\ Scanned /\ ToolsInOrder /\ toRun = <<>> /\ ScanInv
      /\ report[1].shown = shown
      /\ report[1].health = IF request[1].mode = "symptoms" THEN HealthCheck ELSE {}
  BY DEF DiagnosisInv, ToolInv, Reported
<1>2. Range(SpokenIn) = Weighty
  BY <1>1, WeightyAreSpoken
<1>3. \A t : Due(t) <=> Fits(t, category, system, binaries)
  BY <1>2 DEF Due, Fits, Available
<1>4. ToolList = due
  BY <1>3 DEF ToolList, FindTools
<1>5. /\ diagnoses \in Seq(AllPossible) /\ Len(diagnoses) = Len(ToolList)
      /\ \A i \in 1 .. Len(diagnoses) : diagnoses[i] \in Possible(ToolList[i].name, category)
  BY <1>1, EmptySeq, LenProperties DEF ToolsInOrder
<1>6. ToolList \in Seq(Range(Tools))
  BY ListedTools DEF ToolList
<1>7. DOMAIN diagnoses = 1 .. Len(ToolList) /\ DOMAIN due = 1 .. Len(ToolList)
        /\ DOMAIN shown = DOMAIN diagnoses
  BY <1>4, <1>5, <1>6, LenProperties
<1> HIDE DEF due, shown
<1>8. \A i \in 1 .. Len(ToolList) : shown[i].tool = due[i].name
  <2>1. ASSUME NEW i \in 1 .. Len(ToolList) PROVE shown[i].tool = due[i].name
    <3>1. ToolList[i].name \in ToolNames
      BY <1>6, ElementOfSeq, ToolsAreKnown
    <3>2. RightDiagnosis(diagnoses[i], ToolList[i].name)
      BY <1>5, <3>1, DiagnosesAreRight
    <3>3. shown[i].tool = diagnoses[i].tool
      BY <1>7 DEF shown, Shown
    <3> QED BY <1>4, <3>2, <3>3 DEF RightDiagnosis
  <2> QED BY <2>1
<1>9. [i \in DOMAIN shown |-> shown[i].tool] = [i \in DOMAIN due |-> due[i].name]
  BY <1>7, <1>8
<1>10. ASSUME request[1].mode = "symptoms", NEW t \in Range(Tools), t.languages \cap Weighty # {}
       PROVE  <<t.name, Available(t, binaries)>> \in report[1].health
  BY <1>1, <1>2, <1>10 DEF HealthCheck
<1> QED BY <1>1, <1>9, <1>10 DEF ToolsCoverProject, due

(* What the report shows was seen.                                         *)
LEMMA ReportWasSeen == DiagnosisInv => ToolsReportWhatTheySaw
<1> SUFFICES ASSUME DiagnosisInv, report # <<>>, NEW i \in DOMAIN report[1].shown
             PROVE  LET shown == report[1].shown[i]
                        said == Range(diagnoses[i].said) IN
                    /\ shown.symptom => \E o \in said : o.telling
                    /\ (shown.success /\ ~shown.symptom) => \A o \in said : o.ok
                    /\ (shown.success /\ shown.tool = "static_analysis") =>
                         \A l \in Weighty \cap DOMAIN Linters : Linters[l] \subseteq shown.tips
  BY DEF ToolsReportWhatTheySaw
<1> DEFINE d == diagnoses[i]
           category == Category(request[1])
<1>1. /\ request # <<>> /\ Scanned /\ ToolsInOrder /\ toRun = <<>> /\ ScanInv
      /\ report[1].shown = [j \in DOMAIN diagnoses |-> Shown(diagnoses[j])]
  BY DEF DiagnosisInv, ToolInv, Reported
<1>2. i \in DOMAIN diagnoses /\ report[1].shown[i] = Shown(d)
  BY <1>1
<1>3. /\ diagnoses \in Seq(AllPossible) /\ Len(diagnoses) = Len(ToolList)
      /\ \A j \in 1 .. Len(diagnoses) : diagnoses[j] \in Possible(ToolList[j].name, category)
  BY <1>1, EmptySeq, LenProperties DEF ToolsInOrder
<1>4. i \in 1 .. Len(ToolList)
  BY <1>2, <1>3, LenProperties
<1>5. ToolList \in Seq(Range(Tools))
  BY ListedTools DEF ToolList
<1>6. ToolList[i].name \in ToolNames
  BY <1>4, <1>5, ElementOfSeq, ToolsAreKnown
<1>7. RightDiagnosis(d, ToolList[i].name)
  BY <1>3, <1>4, <1>6, DiagnosesAreRight
<1> HIDE DEF d
<1>8. /\ Shown(d).tool = d.tool /\ Shown(d).success = d.success /\ Shown(d).symptom = (d.success /\ d.symptom)
      /\ d.success => Shown(d).tips = d.tips
  BY DEF Shown
<1>9. ASSUME Weighty # {} PROVE Weighty = Range(SpokenIn)
  BY <1>1, <1>9, WeightyAreSpoken
<1>10. Shown(d).symptom => \E o \in Range(d.said) : o.telling
  BY <1>7, <1>8 DEF RightDiagnosis
<1>11. (Shown(d).success /\ ~Shown(d).symptom) => \A o \in Range(d.said) : o.ok
  BY <1>7, <1>8 DEF RightDiagnosis
<1>12. (Shown(d).success /\ Shown(d).tool = "static_analysis") =>
          \A l \in Weighty \cap DOMAIN Linters : Linters[l] \subseteq Shown(d).tips
  BY <1>7, <1>8, <1>9 DEF RightDiagnosis
<1> QED BY <1>2, <1>10, <1>11, <1>12 DEF d

(* From the scan to the report nothing is made up: the fingerprint is read *)
(* off the files of the checkout, the tools that fit its languages have    *)
(* all been run, whatever failed before them, and the report has only what *)
(* they saw.                                                               *)
THEOREM DiagnosisIsAlwaysFaithful == DiagnosticsSpec => []DiagnosisIsFaithful
<1>1. ScanInit /\ DiagnosticsInit => DiagnosisInv
  <2>1. DiagnosticsInit => ToolInv
    BY DEF DiagnosticsInit, ToolInv
  <2> QED BY <2>1, ScanStarts DEF DiagnosisInv
<1>2. DiagnosisInv /\ [DiagnosticsNext]_<<scanVars, diagnosticVars>> => DiagnosisInv'
  <2> SUFFICES ASSUME DiagnosisInv, [DiagnosticsNext]_<<scanVars, diagnosticVars>> PROVE DiagnosisInv'
    OBVIOUS
  <2>1. CASE ScanNext /\ UNCHANGED diagnosticVars
    BY <2>1, ScanStepKeeps, DiagnosisRests DEF DiagnosisInv
  <2>2. ASSUME UNCHANGED scanVars PROVE ScanInv'
    <3>1. checkout' = checkout /\ fp' = fp /\ pass' = pass
      BY <2>2 DEF scanVars
    <3>2. project' = project /\ Truncated' = Truncated /\ SafeFiles' = SafeFiles /\ Dependencies' = Dependencies
      BY <3>1, SameCheckout
    <3> QED BY <3>1, <3>2 DEF DiagnosisInv, ScanInv, ManifestsSpeak
  <2>3. CASE BeginDiagnosis
    BY <2>2, <2>3, BeginDiagnosisKeeps DEF DiagnosisInv, BeginDiagnosis
  <2>4. CASE RunTool
    BY <2>2, <2>4, RunToolKeeps DEF DiagnosisInv, RunTool
  <2>5. CASE Format
    BY <2>2, <2>5, FormatKeeps DEF DiagnosisInv, Format
  <2>6. CASE UNCHANGED <<scanVars, diagnosticVars>>
    BY <2>2, <2>6, DiagnosisRests DEF DiagnosisInv
  <2> QED BY <2>1, <2>3, <2>4, <2>5, <2>6 DEF DiagnosticsNext
<1>3. DiagnosisInv => DiagnosisIsFaithful
  BY FingerprintIsRead, ReportCovers, ReportWasSeen DEF DiagnosisInv, DiagnosisIsFaithful
<1> QED BY <1>1, <1>2, <1>3, PTL DEF DiagnosticsSpec

-----------------------------------------------------------------------------
(* Retrieval: what each question about the code is answered.               *)
(* The least of a set of numbers.                                          *)
LEMMA LeastIsLeast ==
  ASSUME NEW T \in SUBSET Nat, T # {}
  PROVE  Least(T) \in T /\ \A k \in T : Least(T) <= k
<1>1. \E x \in T : \A y \in T : x <= y
  BY LeastNatural
<1> QED BY <1>1 DEF Least

(* The lines searched for the calls of a function are those where no later *)
(* function has begun, up to a limit (_parse_functions).                   *)
LEMMA ScopeIsOpen ==
  ASSUME NEW files, NEW functions, \A f \in functions : f.start \in Nat \ {0},
         NEW f \in functions, files[f.file] \in Nat, NEW line \in 1 .. files[f.file]
  PROVE  line \in Scope(files, functions, f) <=>
           /\ f.start <= line /\ line < f.start + MaxScope
           /\ \A g \in functions : g.file = f.file => g.start \notin f.start + 1 .. line
<1> DEFINE A == After(functions, f)
           last == LastLine(files, functions, f)
           Open == \A g \in functions : g.file = f.file => g.start \notin f.start + 1 .. line
<1>1. f.start \in Nat /\ line \in Nat /\ MaxScope \in Nat /\ line <= files[f.file]
  BY RetrievalAssumption
<1>2. A \in SUBSET Nat /\ \A k \in A : k > f.start
  BY DEF After
<1>3. Open <=> \A k \in A : k > line
  <2>1. ASSUME Open, NEW k \in A PROVE k > line
    BY <1>1, <1>2, <2>1 DEF After
  <2>2. ASSUME \A k \in A : k > line, NEW g \in functions, g.file = f.file, g.start \in f.start + 1 .. line
        PROVE  FALSE
    <3>1. g.start \in Nat /\ g.start > f.start /\ g.start <= line
      BY <1>1, <2>2
    <3>2. g.start \in A
      BY <2>2, <3>1 DEF After
    <3> HIDE DEF A
    <3> QED BY <1>1, <2>2, <3>1, <3>2
  <2> QED BY <2>1, <2>2
<1>4. last \in Nat /\ (f.start <= line => (line <= last <=> Open))
  <2>1. CASE A = {}
    <3>1. last = Larger(f.start, files[f.file] + 1 - 1)
      BY <2>1 DEF LastLine
    <3> QED BY <1>1, <1>3, <2>1, <3>1 DEF Larger
  <2>2. CASE A # {}
    <3>1. Least(A) \in A /\ \A k \in A : Least(A) <= k
      BY <1>2, <2>2, LeastIsLeast
    <3>2. Least(A) \in Nat /\ Least(A) > f.start
      BY <1>2, <3>1
    <3>3. last = Larger(f.start, Least(A) - 1)
      BY <2>2 DEF LastLine
    <3>4. last = Least(A) - 1
      <4> HIDE DEF A, last
      <4> QED BY <1>1, <3>2, <3>3 DEF Larger
    <3>5. Open <=> Least(A) > line
      <4> HIDE DEF A, Open
      <4>1. \A k \in A : k \in Nat /\ k >= Least(A)
        BY <1>2, <3>1
      <4> QED BY <1>1, <1>3, <3>1, <3>2, <4>1
    <3> HIDE DEF A, last, Open
    <3> QED BY <1>1, <3>2, <3>4, <3>5
  <2> QED BY <2>1, <2>2
<1>5. line \in Scope(files, functions, f) <=> f.start <= line /\ line <= last /\ line <= f.start + MaxScope - 1
  <2>1. Scope(files, functions, f) = f.start .. Smaller(last, f.start + MaxScope - 1)
    BY DEF Scope
  <2> HIDE DEF last
  <2> QED BY <1>1, <1>4, <2>1 DEF Smaller
<1> HIDE DEF Open, last
<1>6. line \in Scope(files, functions, f) <=> f.start <= line /\ line < f.start + MaxScope /\ Open
  BY <1>1, <1>4, <1>5
<1> QED BY <1>6 DEF Open

(* A call is linked to the function it must mean (_resolve_calls).         *)
LEMMA CalleesAreMeant ==
  ASSUME NEW q, NEW f, NEW m, m.file = f.file
  PROVE  Callees(q.functions, f, m.name) = Meant(q, m)
<1> DEFINE named == {g \in q.functions : g.name = m.name}
           near == {g \in named : g.file = f.file}
<1>1. Callees(q.functions, f, m.name) = IF Cardinality(near) = 1 THEN near
                                        ELSE IF Cardinality(named) = 1 THEN named ELSE {}
  BY DEF Callees
<1>2. Meant(q, m) = CASE Cardinality(near) = 1 -> near
                      [] Cardinality(near) # 1 /\ Cardinality(named) = 1 -> named
                      [] OTHER -> {}
  BY DEF Meant
<1> HIDE DEF named, near
<1> QED BY <1>1, <1>2

(* The calls resolved are those that the text means.                       *)
LEMMA CallsAreResolved ==
  ASSUME NEW q \in Questions, q.about = "calls", result = Answer(q)
  PROVE  CallsAreExact(q)
<1>1. /\ \A f \in q.functions : f.start \in Nat \ {0}
      /\ \A m \in q.mentions : q.files[m.file] \in Nat /\ m.line \in 1 .. q.files[m.file]
  BY RetrievalAssumption DEF IsQuestion
<1>2. result = ResolvedCalls(q)
  BY DEF Answer
<1> DEFINE In(m, f) == m.file = f.file /\ m.name # f.name /\ m.line \in Scope(q.files, q.functions, f)
<1>3. ASSUME NEW m \in q.mentions, NEW f \in q.functions
      PROVE  In(m, f) <=> f \in Enclosing(q, m) /\ f.name # m.name
  <2>1. CASE m.file = f.file
    <3>1. m.line \in Scope(q.files, q.functions, f) <=>
           /\ f.start <= m.line /\ m.line < f.start + MaxScope
           /\ \A g \in q.functions : g.file = f.file => g.start \notin f.start + 1 .. m.line
      BY <1>1, <2>1, ScopeIsOpen
    <3> QED BY <2>1, <3>1 DEF Enclosing
  <2>2. CASE m.file # f.file
    BY <2>2 DEF Enclosing
  <2> QED BY <2>1, <2>2
<1>4. ASSUME NEW x \in result
      PROVE  \E m \in q.mentions : \E f \in {e \in Enclosing(q, m) : e.name # m.name}, g \in Meant(q, m) :
               x = <<f, g>>
  <2>1. PICK f \in q.functions :
          x \in {<<f, g>> : g \in UNION {Callees(q.functions, f, m.name) : m \in {n \in q.mentions : In(n, f)}}}
    BY <1>2, <1>4 DEF ResolvedCalls
  <2>2. PICK m \in q.mentions : In(m, f) /\ \E g \in Callees(q.functions, f, m.name) : x = <<f, g>>
    BY <2>1
  <2>3. Callees(q.functions, f, m.name) = Meant(q, m)
    BY <2>2, CalleesAreMeant
  <2>4. f \in Enclosing(q, m) /\ f.name # m.name
    BY <1>3, <2>2
  <2> QED BY <2>2, <2>3, <2>4
<1>5. ASSUME NEW m \in q.mentions, NEW f \in {e \in Enclosing(q, m) : e.name # m.name}, NEW g \in Meant(q, m)
      PROVE  <<f, g>> \in result
  <2>1. f \in q.functions /\ In(m, f)
    BY <1>3 DEF Enclosing
  <2>2. g \in Callees(q.functions, f, m.name)
    BY <2>1, CalleesAreMeant
  <2>3. g \in UNION {Callees(q.functions, f, n.name) : n \in {n \in q.mentions : In(n, f)}}
    BY <2>1, <2>2
  <2> QED BY <1>2, <2>1, <2>3 DEF ResolvedCalls
<1>6. result = UNION {{<<f, g>> : f \in {e \in Enclosing(q, m) : e.name # m.name}, g \in Meant(q, m)} :
                        m \in q.mentions}
  <2> DEFINE Right == UNION {{<<f, g>> : f \in {e \in Enclosing(q, m) : e.name # m.name}, g \in Meant(q, m)} :
                               m \in q.mentions}
  <2>1. \A x \in result : x \in Right
    BY <1>4
  <2>2. \A x \in Right : x \in result
    <3>1. ASSUME NEW x \in Right PROVE x \in result
      <4>1. PICK m \in q.mentions :
              x \in {<<f, g>> : f \in {e \in Enclosing(q, m) : e.name # m.name}, g \in Meant(q, m)}
        OBVIOUS
      <4>2. PICK f \in {e \in Enclosing(q, m) : e.name # m.name}, g \in Meant(q, m) : x = <<f, g>>
        BY <4>1
      <4> QED BY <1>5, <4>2
    <3> QED BY <3>1
  <2> HIDE DEF Right
  <2>3. result = Right
    BY <2>1, <2>2
  <2> QED BY <2>3 DEF Right
<1> QED BY <1>6 DEF CallsAreExact

(* A range of lines asked for is shown (retrieve_by_file).                 *)
LEMMA FocusIsRight ==
  ASSUME NEW q \in Questions, q.about = "focus", result = Answer(q)
  PROVE  FocusIsShown(q, result)
<1>1. q.lines \in Nat /\ q.from \in Int /\ q.to \in Int /\ q.room \in Nat /\ Padding \in Nat /\ Padding > 0
  BY RetrievalAssumption DEF IsQuestion
<1> DEFINE first == IF q.from - Padding > 0 THEN q.from - Padding + 1 ELSE 1
           last  == IF q.to + Padding < q.lines THEN q.to + Padding ELSE q.lines
<1>2. result = IF q.from < 1 \/ q.to < q.from THEN {} ELSE {l \in first .. last : l < first + q.room}
  BY DEF Answer, Focus
<1>3. first \in Nat \ {0} /\ last \in Int /\ last <= q.lines
  BY <1>1
<1>4. result \subseteq 1 .. q.lines
  BY <1>1, <1>2, <1>3
<1>5. (q.from \in 1 .. q.lines /\ q.to >= q.from /\ q.room >= Padding) => q.from \in result
  <2> SUFFICES ASSUME q.from \in 1 .. q.lines, q.to >= q.from, q.room >= Padding PROVE q.from \in result
    OBVIOUS
  <2>1. q.from \in first .. last
    BY <1>1
  <2>2. q.from < first + q.room
    BY <1>1
  <2>3. ~(q.from < 1 \/ q.to < q.from)
    BY <1>1
  <2> HIDE DEF first, last
  <2> QED BY <1>2, <2>1, <2>2, <2>3
<1>6. \A l \in result : q.from - l < Padding /\ l - q.to <= Padding
  BY <1>1, <1>2
<1>7. Cardinality(result) <= q.room
  <2>1. result \subseteq first .. first + q.room - 1
    BY <1>1, <1>2, <1>3
  <2>2. IsFiniteSet(first .. first + q.room - 1) /\ Cardinality(first .. first + q.room - 1) = q.room
    <3> HIDE DEF first
    <3>1. first \in Int /\ first + q.room - 1 \in Int /\ (first + q.room - 1) - first + 1 = q.room
      BY <1>1, <1>3
    <3>2. /\ IsFiniteSet(first .. first + q.room - 1)
          /\ Cardinality(first .. first + q.room - 1) =
               IF first > first + q.room - 1 THEN 0 ELSE first + q.room - 1 - first + 1
      BY <3>1, FS_Interval
    <3> QED BY <1>1, <1>3, <3>2
  <2> QED BY <2>1, <2>2, FS_Subset
<1> QED BY <1>1, <1>4, <1>5, <1>6, <1>7 DEF FocusIsShown

(* The sums of the beginnings of a list of numbers.                        *)
LEMMA SumIsDefined ==
  ASSUME NEW n \in Nat, NEW s, \A i \in 1 .. n : s[i] \in Nat
  PROVE  \E f \in [0 .. n -> Nat] :
           SumTo(s, n) = f[n] /\ f[0] = 0 /\ \A i \in 1 .. n : f[i] = f[i - 1] + s[i]
<1> DEFINE Value(f) == f = [i \in 0 .. n |-> IF i = 0 THEN 0 ELSE f[i - 1] + s[i]]
           sum == CHOOSE f : Value(f)
           step == [i \in 1 .. n |-> [x \in Nat |-> x + s[i]]]
<1>1. SumTo(s, n) = sum[n]
  BY DEF SumTo
<1>2. step \in [1 .. n -> [Nat -> Nat]]
  OBVIOUS
<1>3. PICK g \in [0 .. n -> Nat] : g[0] = 0 /\ \A i \in 1 .. n : g[i] = g[i - 1] + s[i]
  <2>1. PICK g \in [0 .. n -> Nat] : IsLoop(g, n, 0, step)
    <3> HIDE DEF step
    <3> QED BY <1>2, LoopIsDefined
  <2>2. \A i \in 1 .. n : i - 1 \in 0 .. n
    OBVIOUS
  <2>3. g[0] = 0 /\ \A i \in 1 .. n : g[i] = step[i][g[i - 1]]
    BY <2>1 DEF IsLoop
  <2>4. \A i \in 1 .. n : step[i][g[i - 1]] = g[i - 1] + s[i]
    BY <2>2
  <2> QED BY <2>3, <2>4
<1>4. Value(g)
  <2>1. \A k \in 0 .. n : k # 0 => k \in 1 .. n
    OBVIOUS
  <2>2. \A k \in 0 .. n : g[k] = IF k = 0 THEN 0 ELSE g[k - 1] + s[k]
    BY <1>3, <2>1
  <2>3. g = [k \in 0 .. n |-> g[k]]
    BY <1>3
  <2> QED BY <2>2, <2>3
<1>5. Value(sum)
  BY <1>4
<1> HIDE DEF sum
<1>6. /\ DOMAIN sum = 0 .. n /\ sum[0] = 0
      /\ \A i \in 1 .. n : sum[i] = sum[i - 1] + s[i]
  <2>1. sum = [i \in 0 .. n |-> IF i = 0 THEN 0 ELSE sum[i - 1] + s[i]]
    BY <1>5
  <2>2. 0 \in 0 .. n /\ \A k \in 1 .. n : k \in 0 .. n /\ k # 0
    OBVIOUS
  <2> HIDE DEF Value
  <2> QED BY <2>1, <2>2
<1> DEFINE U == {i \in 0 .. n : sum[i] \in Nat}
<1>7. 0 .. n \subseteq U
  <2>1. 0 \in U
    BY <1>6
  <2>2. ASSUME NEW i \in 1 .. n, i - 1 \in U PROVE i \in U
    <3>1. sum[i] = sum[i - 1] + s[i] /\ sum[i - 1] \in Nat /\ s[i] \in Nat /\ i \in 0 .. n
      BY <1>6, <2>2
    <3> QED BY <3>1
  <2> HIDE DEF U
  <2> QED BY <2>1, <2>2, UpToNumber
<1>8. sum \in [0 .. n -> Nat]
  <2>1. sum = [i \in 0 .. n |-> sum[i]]
    BY <1>5
  <2> QED BY <1>7, <2>1
<1> QED BY <1>1, <1>6, <1>8

(* A sum grows by each number of the list.                                 *)
LEMMA SumsAdd ==
  ASSUME NEW n \in Nat, NEW s, \A i \in 1 .. n : s[i] \in Nat
  PROVE  /\ SumTo(s, 0) = 0
         /\ \A m \in 0 .. n : SumTo(s, m) \in Nat
         /\ \A m \in 1 .. n : SumTo(s, m) = SumTo(s, m - 1) + s[m]
<1>1. PICK f \in [0 .. n -> Nat] : f[0] = 0 /\ \A i \in 1 .. n : f[i] = f[i - 1] + s[i]
  BY SumIsDefined
<1>2. ASSUME NEW m \in 0 .. n PROVE SumTo(s, m) = f[m]
  <2>1. m \in Nat /\ \A i \in 1 .. m : i \in 1 .. n /\ s[i] \in Nat
    OBVIOUS
  <2>2. PICK g \in [0 .. m -> Nat] :
          SumTo(s, m) = g[m] /\ g[0] = 0 /\ \A i \in 1 .. m : g[i] = g[i - 1] + s[i]
    <3>1. m \in Nat
      BY <2>1
    <3>2. \A i \in 1 .. m : s[i] \in Nat
      BY <2>1
    <3> QED BY <3>1, <3>2, SumIsDefined
  <2> DEFINE U == {i \in 0 .. m : g[i] = f[i]}
  <2>3. 0 \in U
    BY <1>1, <2>1, <2>2
  <2>4. ASSUME NEW i \in 1 .. m, i - 1 \in U PROVE i \in U
    BY <1>1, <2>1, <2>2, <2>4
  <2>5. 0 .. m \subseteq U
    <3> HIDE DEF U
    <3> QED BY <2>1, <2>3, <2>4, UpToNumber
  <2> QED BY <2>1, <2>2, <2>5
<1>3. 0 \in 0 .. n /\ \A m \in 1 .. n : m \in 0 .. n /\ m - 1 \in 0 .. n
  OBVIOUS
<1>4. \A m \in 0 .. n : f[m] \in Nat
  BY <1>1
<1> QED BY <1>1, <1>2, <1>3, <1>4

-----------------------------------------------------------------------------
(* What lies within so many hops of the seeds.                             *)
NodesOf(q) == q.seeds \cup UNION {{e[1], e[2]} : e \in q.edges}
Nearby(q, hops) == {n \in NodesOf(q) : Reaches(q, n, hops)}
IsExpansion(q) == q.hops \in Nat /\ q.direction \in {"in", "out", "both"} /\ q.edges \subseteq STRING \X STRING

(* A step is along an edge, between nodes of the graph.                    *)
LEMMA StepsStay ==
  ASSUME NEW q, IsExpansion(q), NEW a, NEW b, Step(q, a, b)
  PROVE  a \in NodesOf(q) /\ b \in NodesOf(q)
<1>1. CASE <<a, b>> \in q.edges
  <2>1. <<a, b>>[1] = a /\ <<a, b>>[2] = b
    OBVIOUS
  <2> QED BY <1>1, <2>1 DEF NodesOf
<1>2. CASE <<b, a>> \in q.edges
  <2>1. <<b, a>>[1] = b /\ <<b, a>>[2] = a
    OBVIOUS
  <2> QED BY <1>2, <2>1 DEF NodesOf
<1> QED BY <1>1, <1>2 DEF Step

(* Without a hop only the seeds are reached.                               *)
LEMMA SeedsAreNear ==
  ASSUME NEW q
  PROVE  Nearby(q, 0) = q.seeds
<1>1. ASSUME NEW n \in q.seeds PROVE n \in Nearby(q, 0)
  <2> DEFINE path == [i \in 0 .. 0 |-> n]
  <2>1. 0 \in 0 .. 0 /\ n \in NodesOf(q)
    BY DEF NodesOf
  <2>2. path \in [0 .. 0 -> NodesOf(q)] /\ path[0] = n
    BY <2>1
  <2>3. \A i \in 1 .. 0 : Step(q, path[i - 1], path[i])
    OBVIOUS
  <2> HIDE DEF path
  <2>4. Reaches(q, n, 0)
    BY <1>1, <2>1, <2>2, <2>3 DEF Reaches, NodesOf
  <2> QED BY <2>1, <2>4 DEF Nearby
<1>2. ASSUME NEW n \in Nearby(q, 0) PROVE n \in q.seeds
  <2>1. PICK length \in 0 .. 0 : \E path \in [0 .. length -> NodesOf(q)] :
          path[0] \in q.seeds /\ path[length] = n
    BY <1>2 DEF Nearby, Reaches, NodesOf
  <2>2. length = 0
    OBVIOUS
  <2> QED BY <2>1, <2>2
<1> QED BY <1>1, <1>2

(* One more hop reaches what a step leads to.                              *)
LEMMA HopsAddSteps ==
  ASSUME NEW q, IsExpansion(q), NEW h \in Nat
  PROVE  Nearby(q, h + 1) = Nearby(q, h) \cup {n \in NodesOf(q) : \E m \in Nearby(q, h) : Step(q, m, n)}
<1> DEFINE Road(length, path, n) ==
             /\ path \in [0 .. length -> NodesOf(q)] /\ path[0] \in q.seeds /\ path[length] = n
             /\ \A i \in 1 .. length : Step(q, path[i - 1], path[i])
<1>1. \A k \in Nat : \A n :
        n \in Nearby(q, k) <=> (n \in NodesOf(q) /\ \E length \in 0 .. k : \E path : Road(length, path, n))
  BY DEF Nearby, Reaches, NodesOf
<1>2. ASSUME NEW n \in Nearby(q, h) PROVE n \in Nearby(q, h + 1)
  <2>1. PICK length \in 0 .. h : \E path : Road(length, path, n)
    BY <1>1, <1>2
  <2>2. length \in 0 .. h + 1 /\ h + 1 \in Nat /\ n \in NodesOf(q)
    BY <1>2 DEF Nearby
  <2> HIDE DEF Road
  <2> QED BY <1>1, <2>1, <2>2
<1>3. ASSUME NEW n \in NodesOf(q), NEW m \in Nearby(q, h), Step(q, m, n) PROVE n \in Nearby(q, h + 1)
  <2>1. PICK length \in 0 .. h : \E path : Road(length, path, m)
    BY <1>1
  <2>2. PICK path : Road(length, path, m)
    BY <2>1
  <2> DEFINE on == [i \in 0 .. length + 1 |-> IF i = length + 1 THEN n ELSE path[i]]
  <2>3. length + 1 \in 0 .. h + 1 /\ length \in Nat /\ h + 1 \in Nat
    OBVIOUS
  <2>4. \A i \in 0 .. length : i \in 0 .. length + 1 /\ i # length + 1 /\ on[i] = path[i]
    BY <2>3
  <2>5. on \in [0 .. length + 1 -> NodesOf(q)]
    <3>1. \A i \in 0 .. length + 1 : i # length + 1 => i \in 0 .. length
      BY <2>3
    <3> QED BY <2>2, <2>3, <3>1
  <2>6. on[0] \in q.seeds /\ on[length + 1] = n
    <3>1. 0 \in 0 .. length /\ length + 1 \in 0 .. length + 1
      BY <2>3
    <3> QED BY <2>2, <2>4, <3>1
  <2>7. ASSUME NEW i \in 1 .. length + 1 PROVE Step(q, on[i - 1], on[i])
    <3>1. CASE i = length + 1
      <4>1. i - 1 = length /\ length \in 0 .. length
        BY <2>3, <3>1
      <4> QED BY <1>3, <2>2, <2>4, <2>6, <3>1, <4>1
    <3>2. CASE i # length + 1
      <4>1. i \in 1 .. length /\ i \in 0 .. length /\ i - 1 \in 0 .. length
        BY <2>3, <3>2
      <4> QED BY <2>2, <2>4, <4>1
    <3> QED BY <3>1, <3>2
  <2>8. Road(length + 1, on, n)
    <3> HIDE DEF on
    <3> QED BY <2>5, <2>6, <2>7
  <2> HIDE DEF Road
  <2> QED BY <1>1, <2>3, <2>8
<1>4. ASSUME NEW n \in Nearby(q, h + 1), n \notin Nearby(q, h)
      PROVE  \E m \in Nearby(q, h) : Step(q, m, n)
  <2>0. h + 1 \in Nat /\ n \in NodesOf(q)
    BY <1>4 DEF Nearby
  <2>1. PICK length \in 0 .. h + 1 : \E path : Road(length, path, n)
    BY <1>1, <1>4, <2>0
  <2>2. PICK path : Road(length, path, n)
    BY <2>1
  <2>3. length = h + 1
    <3> HIDE DEF Road
    <3>1. length \notin 0 .. h
      BY <1>1, <1>4, <2>0, <2>2
    <3> QED BY <3>1
  <2> DEFINE m == path[h]
             back == [i \in 0 .. h |-> path[i]]
  <2>4. \A i \in 0 .. h : i \in 0 .. h + 1
    OBVIOUS
  <2>5. Road(h, back, m)
    <3>1. back \in [0 .. h -> NodesOf(q)]
      BY <2>2, <2>3, <2>4
    <3>2. 0 \in 0 .. h /\ h \in 0 .. h /\ \A i \in 1 .. h : i \in 0 .. h /\ i - 1 \in 0 .. h /\ i \in 1 .. h + 1
      OBVIOUS
    <3>3. back[0] \in q.seeds /\ back[h] = m /\ \A i \in 1 .. h : Step(q, back[i - 1], back[i])
      BY <2>2, <2>3, <3>2
    <3> QED BY <3>1, <3>3
  <2>6. m \in NodesOf(q) /\ Step(q, m, n)
    <3>1. h + 1 \in 1 .. h + 1 /\ h + 1 - 1 = h /\ h \in 0 .. h + 1
      OBVIOUS
    <3> QED BY <2>2, <2>3, <3>1
  <2>7. h \in 0 .. h
    OBVIOUS
  <2>8. m \in Nearby(q, h)
    <3> HIDE DEF Road, m, back
    <3> QED BY <1>1, <2>5, <2>6, <2>7
  <2> QED BY <2>6, <2>8
<1>5. \A n \in Nearby(q, h + 1) : n \in NodesOf(q)
  BY DEF Nearby
<1> HIDE DEF Road
<1> QED BY <1>2, <1>3, <1>4, <1>5

(* A round of the expansion goes one hop further (CodeGraph.expand).       *)
Along(q, S) == {e \in q.edges : \/ q.direction # "in"  /\ e[1] \in S
                                \/ q.direction # "out" /\ e[2] \in S}
Onward(q, S) == {n \in NodesOf(q) : \E m \in S : Step(q, m, n)}
Rounds(q) == [visited : SUBSET NodesOf(q), edges : SUBSET q.edges, frontier : SUBSET NodesOf(q)]

(* What a round visits, the edges it adds and where it goes on.            *)
LEMMA RoundGoesOn ==
  ASSUME NEW q, IsExpansion(q), NEW st \in Rounds(q), st.frontier \cap st.visited = {}
  PROVE  /\ ExpandRound(q, st) \in Rounds(q)
         /\ ExpandRound(q, st).visited = st.visited \cup st.frontier
         /\ ExpandRound(q, st).edges = st.edges \cup Along(q, st.frontier)
         /\ ExpandRound(q, st).frontier = Onward(q, st.frontier) \ (st.visited \cup st.frontier)
<1> DEFINE fresh == st.frontier \ st.visited
           edges == UNION {Touching(q, n) : n \in fresh}
           next  == {e[2] : e \in {d \in edges : q.direction # "in" /\ d[1] \in fresh}} \cup
                    {e[1] : e \in {d \in edges : q.direction # "out" /\ d[2] \in fresh}}
           visited == st.visited \cup fresh
<1>1. st.visited \subseteq NodesOf(q) /\ st.edges \subseteq q.edges /\ st.frontier \subseteq NodesOf(q)
  BY DEF Rounds
<1>2. fresh = st.frontier
  OBVIOUS
<1>3. edges = Along(q, fresh)
  <2>1. \A n, e : e \in Touching(q, n) <=> /\ e \in q.edges
                                              /\ ((q.direction # "in" /\ e[1] = n) \/ (q.direction # "out" /\ e[2] = n))
    <3>1. /\ q.direction \in {"out", "both"} <=> q.direction # "in"
          /\ q.direction \in {"in", "both"} <=> q.direction # "out"
      BY DEF IsExpansion
    <3>2. ASSUME NEW n, NEW e
          PROVE  e \in Touching(q, n) <=>
                   /\ e \in q.edges
                   /\ \/ (q.direction \in {"out", "both"} /\ e[1] = n)
                      \/ (q.direction \in {"in", "both"} /\ e[2] = n)
      BY Zenon DEF Touching
    <3> QED BY <3>1, <3>2, Zenon
  <2>2. ASSUME NEW e \in edges PROVE e \in Along(q, fresh)
    BY <2>1, <2>2 DEF Along
  <2>3. ASSUME NEW e \in Along(q, fresh) PROVE e \in edges
    <3>1. CASE q.direction # "in" /\ e[1] \in fresh
      <4>1. e \in q.edges
        BY <2>3 DEF Along
      <4>2. e \in Touching(q, e[1])
        BY <2>1, <3>1, <4>1, Zenon
      <4> QED BY <3>1, <4>2
    <3>2. CASE q.direction # "out" /\ e[2] \in fresh
      <4>1. e \in q.edges
        BY <2>3 DEF Along
      <4>2. e \in Touching(q, e[2])
        BY <2>1, <3>2, <4>1, Zenon
      <4> QED BY <3>2, <4>2
    <3> QED BY <2>3, <3>1, <3>2 DEF Along
  <2> HIDE DEF edges
  <2> QED BY <2>2, <2>3
<1>4. \A e \in q.edges : e = <<e[1], e[2]>>
  BY DEF IsExpansion
<1>5. next = Onward(q, fresh)
  <2> HIDE DEF edges, fresh
  <2>1. ASSUME NEW n \in next PROVE n \in Onward(q, fresh)
    <3>1. CASE n \in {e[2] : e \in {d \in edges : q.direction # "in" /\ d[1] \in fresh}}
      <4>1. PICK e \in edges : n = e[2] /\ q.direction # "in" /\ e[1] \in fresh
        BY <3>1
      <4>2. Step(q, e[1], n)
        BY <1>3, <1>4, <4>1 DEF Step, Along
      <4> QED BY <4>1, <4>2, StepsStay DEF Onward
    <3>2. CASE n \in {e[1] : e \in {d \in edges : q.direction # "out" /\ d[2] \in fresh}}
      <4>1. PICK e \in edges : n = e[1] /\ q.direction # "out" /\ e[2] \in fresh
        BY <3>2
      <4>2. Step(q, e[2], n)
        BY <1>3, <1>4, <4>1 DEF Step, Along
      <4> QED BY <4>1, <4>2, StepsStay DEF Onward
    <3> QED BY <2>1, <3>1, <3>2
  <2>2. ASSUME NEW n \in Onward(q, fresh) PROVE n \in next
    <3>1. PICK m \in fresh : Step(q, m, n)
      BY <2>2 DEF Onward
    <3>2. CASE q.direction # "in" /\ <<m, n>> \in q.edges
      <4>1. <<m, n>> \in edges /\ <<m, n>>[1] = m /\ <<m, n>>[2] = n
        BY <1>3, <3>1, <3>2 DEF Along
      <4> QED BY <3>1, <3>2, <4>1
    <3>3. CASE q.direction # "out" /\ <<n, m>> \in q.edges
      <4>1. <<n, m>> \in edges /\ <<n, m>>[1] = n /\ <<n, m>>[2] = m
        BY <1>3, <3>1, <3>3 DEF Along
      <4> QED BY <3>1, <3>3, <4>1
    <3> QED BY <3>1, <3>2, <3>3 DEF Step
  <2> HIDE DEF next
  <2> QED BY <2>1, <2>2
<1>6. ExpandRound(q, st) = [visited |-> visited, edges |-> st.edges \cup edges, frontier |-> next \ visited]
  BY DEF ExpandRound
<1>7. next \subseteq NodesOf(q)
  <2> HIDE DEF next
  <2> QED BY <1>5 DEF Onward
<1>8. edges \subseteq q.edges
  <2> HIDE DEF edges
  <2> QED BY <1>3 DEF Along
<1>9. visited = st.visited \cup st.frontier /\ visited \subseteq NodesOf(q)
  BY <1>1
<1>10. ExpandRound(q, st) \in Rounds(q)
  <2> HIDE DEF visited, edges, next
  <2> QED BY <1>1, <1>6, <1>7, <1>8, <1>9 DEF Rounds
<1> HIDE DEF visited, edges, next, fresh
<1>11. /\ ExpandRound(q, st).visited = visited /\ ExpandRound(q, st).edges = st.edges \cup edges
       /\ ExpandRound(q, st).frontier = next \ visited
  BY <1>6
<1> QED BY <1>2, <1>3, <1>5, <1>9, <1>10, <1>11

(* After so many rounds everything nearer has been visited.                *)
NearerThan(q, h) == IF h = 0 THEN {} ELSE Nearby(q, h - 1)
RoundIsRight(q, st, h) ==
  /\ st \in Rounds(q) /\ st.visited = NearerThan(q, h)
  /\ st.frontier = Nearby(q, h) \ st.visited /\ st.visited \subseteq Nearby(q, h)
  /\ st.edges = Along(q, st.visited)

(* After so many rounds, the nodes within so many hops are visited.        *)
LEMMA RoundsAreRight ==
  ASSUME NEW q, IsExpansion(q), NEW h \in Nat, NEW st, RoundIsRight(q, st, h)
  PROVE  RoundIsRight(q, ExpandRound(q, st), h + 1)
<1> DEFINE grown == ExpandRound(q, st)
           near == Nearby(q, h)
           next == Nearby(q, h + 1)
<1>1. /\ st \in Rounds(q) /\ st.visited = NearerThan(q, h) /\ st.edges = Along(q, st.visited)
      /\ st.frontier = near \ st.visited /\ st.visited \subseteq near
  BY DEF RoundIsRight
<1>2. /\ grown \in Rounds(q) /\ grown.visited = st.visited \cup st.frontier
      /\ grown.edges = st.edges \cup Along(q, st.frontier)
      /\ grown.frontier = Onward(q, st.frontier) \ (st.visited \cup st.frontier)
  <2>1. st \in Rounds(q) /\ st.frontier \cap st.visited = {}
    BY <1>1
  <2> QED BY <2>1, RoundGoesOn
<1> HIDE DEF grown
<1>3. grown.visited = near
  BY <1>1, <1>2
<1>4. NearerThan(q, h + 1) = near
  <2>1. h + 1 # 0 /\ h + 1 - 1 = h
    OBVIOUS
  <2> QED BY <2>1 DEF NearerThan
<1>5. next = near \cup Onward(q, near)
  BY HopsAddSteps DEF Onward
<1>6. Onward(q, st.visited) \subseteq near
  <2>1. CASE h = 0
    BY <1>1, <2>1 DEF NearerThan, Onward
  <2>2. CASE h # 0
    <3>1. h - 1 \in Nat /\ h - 1 + 1 = h
      BY <2>2
    <3>2. near = Nearby(q, h - 1) \cup Onward(q, Nearby(q, h - 1))
      BY <3>1, HopsAddSteps DEF Onward
    <3> HIDE DEF near
    <3> QED BY <1>1, <2>2, <3>2 DEF NearerThan
  <2> QED BY <2>1, <2>2
<1> HIDE DEF near, next
<1>7. Onward(q, near) = Onward(q, st.visited) \cup Onward(q, st.frontier)
  BY <1>1 DEF Onward
<1>8. grown.frontier = next \ near
  BY <1>1, <1>2, <1>3, <1>5, <1>6, <1>7
<1>9. grown.edges = Along(q, near)
  BY <1>1, <1>2 DEF Along
<1> QED BY <1>2, <1>3, <1>4, <1>5, <1>8, <1>9 DEF RoundIsRight, grown, near, next

(* The expansion reaches what lies within so many hops.                    *)
LEMMA ExpansionReaches ==
  ASSUME NEW q \in Questions, q.about = "expand", result = Answer(q)
  PROVE  ExpansionIsExact(q)
<1> DEFINE first == [visited |-> {}, edges |-> {}, frontier |-> q.seeds]
           Value(f) == f = [h \in 0 .. q.hops |-> IF h = 0 THEN first ELSE ExpandRound(q, f[h - 1])]
           rounds == CHOOSE f : Value(f)
           last == rounds[q.hops]
           Right(h) == {st \in Rounds(q) : RoundIsRight(q, st, h)}
<1>1. IsExpansion(q) /\ q.hops \in Nat
  BY RetrievalAssumption DEF IsQuestion, IsExpansion
<1>2. result = [edges |-> last.edges, nodes |-> last.visited \cup UNION {{e[1], e[2]} : e \in last.edges}]
  BY DEF Answer, Expand
<1>3. RoundIsRight(q, first, 0)
  <2>1. Nearby(q, 0) = q.seeds /\ NearerThan(q, 0) = {}
    BY SeedsAreNear DEF NearerThan
  <2>2. first \in Rounds(q) /\ first.visited = {} /\ first.frontier = q.seeds /\ first.edges = {}
    BY DEF Rounds, NodesOf
  <2>3. Along(q, {}) = {}
    BY DEF Along
  <2> HIDE DEF first
  <2> QED BY <2>1, <2>2, <2>3 DEF RoundIsRight
<1> HIDE DEF first
<1>4. PICK g : Value(g)
  <2> DEFINE turn == [h \in 1 .. q.hops |-> [st \in Rounds(q) |->
                        IF st.frontier \cap st.visited = {} THEN ExpandRound(q, st) ELSE st]]
  <2>1. turn \in [1 .. q.hops -> [Rounds(q) -> Rounds(q)]]
    BY <1>1, RoundGoesOn
  <2>2. first \in Rounds(q)
    BY <1>3 DEF RoundIsRight
  <2>3. PICK f \in [0 .. q.hops -> Rounds(q)] : IsLoop(f, q.hops, first, turn)
    <3> HIDE DEF turn
    <3> QED BY <1>1, <2>1, <2>2, LoopIsDefined
  <2>4. f[0] = first /\ \A i \in 1 .. q.hops : f[i] = turn[i][f[i - 1]]
    BY <2>3 DEF IsLoop
  <2> DEFINE U == {h \in 0 .. q.hops : RoundIsRight(q, f[h], h) /\ (h # 0 => f[h] = ExpandRound(q, f[h - 1]))}
  <2>5. 0 \in U
    BY <1>1, <1>3, <2>4
  <2>6. ASSUME NEW h \in 1 .. q.hops, h - 1 \in U PROVE h \in U
    <3>1. RoundIsRight(q, f[h - 1], h - 1) /\ h - 1 \in Nat /\ h - 1 + 1 = h /\ h - 1 \in 0 .. q.hops
      BY <1>1, <2>6
    <3>2. f[h - 1] \in Rounds(q) /\ f[h - 1].frontier \cap f[h - 1].visited = {}
      BY <3>1 DEF RoundIsRight
    <3>3. f[h] = ExpandRound(q, f[h - 1])
      BY <2>4, <3>2
    <3>4. RoundIsRight(q, f[h], h)
      BY <1>1, <3>1, <3>3, RoundsAreRight
    <3>5. h \in 0 .. q.hops
      BY <1>1
    <3> QED BY <3>3, <3>4, <3>5
  <2>7. 0 .. q.hops \subseteq U
    <3> HIDE DEF U
    <3> QED BY <1>1, <2>5, <2>6, UpToNumber
  <2>8. \A h \in 0 .. q.hops : f[h] = IF h = 0 THEN first ELSE ExpandRound(q, f[h - 1])
    BY <2>4, <2>7
  <2>9. f = [h \in 0 .. q.hops |-> f[h]]
    BY <2>3
  <2>10. Value(f)
    BY <2>8, <2>9
  <2> HIDE DEF Value
  <2> QED BY <2>10
<1>5. Value(rounds)
  BY <1>4
<1> HIDE DEF rounds
<1>6. rounds[0] = first /\ \A h \in 1 .. q.hops : rounds[h] = ExpandRound(q, rounds[h - 1])
  <2>1. rounds = [h \in 0 .. q.hops |-> IF h = 0 THEN first ELSE ExpandRound(q, rounds[h - 1])]
    BY <1>5
  <2>2. 0 \in 0 .. q.hops /\ \A h \in 1 .. q.hops : h \in 0 .. q.hops /\ h # 0
    BY <1>1
  <2> HIDE DEF Value
  <2> QED BY <2>1, <2>2
<1> DEFINE V == {h \in 0 .. q.hops : RoundIsRight(q, rounds[h], h)}
<1>7. 0 .. q.hops \subseteq V
  <2>1. 0 \in V
    BY <1>1, <1>3, <1>6
  <2>2. ASSUME NEW h \in 1 .. q.hops, h - 1 \in V PROVE h \in V
    <3>1. RoundIsRight(q, rounds[h - 1], h - 1) /\ h - 1 \in Nat /\ h - 1 + 1 = h /\ h \in 0 .. q.hops
      BY <1>1, <2>2
    <3>2. RoundIsRight(q, ExpandRound(q, rounds[h - 1]), h)
      BY <1>1, <3>1, RoundsAreRight
    <3> QED BY <1>6, <3>1, <3>2
  <2> HIDE DEF V
  <2> QED BY <1>1, <2>1, <2>2, UpToNumber
<1>8. RoundIsRight(q, last, q.hops)
  BY <1>1, <1>7
<1> HIDE DEF last
<1> SUFFICES ASSUME q.hops > 0
             PROVE  /\ result.nodes = Nearby(q, q.hops)
                    /\ result.edges = Along(q, Nearby(q, q.hops - 1))
  <2>1. \A n : n \in Nearby(q, q.hops - 1) <=> n \in NodesOf(q) /\ Reaches(q, n, q.hops - 1)
    BY DEF Nearby
  <2>2. \A e \in q.edges : e[1] \in NodesOf(q) /\ e[2] \in NodesOf(q)
    BY DEF NodesOf
  <2>3. Along(q, Nearby(q, q.hops - 1)) =
          {e \in q.edges : \/ q.direction # "in"  /\ Reaches(q, e[1], q.hops - 1)
                           \/ q.direction # "out" /\ Reaches(q, e[2], q.hops - 1)}
    BY <2>1, <2>2 DEF Along
  <2> QED BY <2>3 DEF ExpansionIsExact, Nearby, NodesOf
<1>9. q.hops - 1 \in Nat /\ q.hops - 1 + 1 = q.hops /\ q.hops # 0
  BY <1>1
<1> DEFINE near == Nearby(q, q.hops - 1)
<1>10. last.visited = near /\ last.edges = Along(q, near)
  BY <1>8, <1>9 DEF RoundIsRight, NearerThan
<1>11. Nearby(q, q.hops) = near \cup Onward(q, near)
  BY <1>1, <1>9, HopsAddSteps DEF Onward
<1>12. result.edges = Along(q, near) /\ result.nodes = near \cup UNION {{e[1], e[2]} : e \in Along(q, near)}
  BY <1>2, <1>10
<1> HIDE DEF near
<1>13. ASSUME NEW n \in Onward(q, near) PROVE n \in UNION {{e[1], e[2]} : e \in Along(q, near)}
  <2>1. PICK m \in near : Step(q, m, n)
    BY <1>13 DEF Onward
  <2>2. CASE q.direction # "in" /\ <<m, n>> \in q.edges
    <3>1. <<m, n>> \in Along(q, near) /\ <<m, n>>[1] = m /\ <<m, n>>[2] = n
      BY <2>1, <2>2 DEF Along
    <3> QED BY <3>1
  <2>3. CASE q.direction # "out" /\ <<n, m>> \in q.edges
    <3>1. <<n, m>> \in Along(q, near) /\ <<n, m>>[1] = n /\ <<n, m>>[2] = m
      BY <2>1, <2>3 DEF Along
    <3> QED BY <3>1
  <2> QED BY <2>1, <2>2, <2>3 DEF Step
<1>14. ASSUME NEW n \in UNION {{e[1], e[2]} : e \in Along(q, near)} PROVE n \in near \cup Onward(q, near)
  <2>1. PICK e \in Along(q, near) : n = e[1] \/ n = e[2]
    BY <1>14
  <2>2. e \in q.edges /\ e = <<e[1], e[2]>>
    BY <1>1, <2>1 DEF Along, IsExpansion
  <2>3. CASE q.direction # "in" /\ e[1] \in near
    <3>1. Step(q, e[1], e[2])
      BY <2>2, <2>3 DEF Step
    <3>2. e[2] \in Onward(q, near)
      BY <1>1, <2>3, <3>1, StepsStay DEF Onward
    <3> QED BY <2>1, <2>3, <3>2
  <2>4. CASE q.direction # "out" /\ e[2] \in near
    <3>1. Step(q, e[2], e[1])
      BY <2>2, <2>4 DEF Step
    <3>2. e[1] \in Onward(q, near)
      BY <1>1, <2>4, <3>1, StepsStay DEF Onward
    <3> QED BY <2>1, <2>4, <3>2
  <2> QED BY <2>1, <2>3, <2>4 DEF Along
<1>15. near \cup Onward(q, near) = near \cup UNION {{e[1], e[2]} : e \in Along(q, near)}
  BY <1>13, <1>14
<1> QED BY <1>11, <1>12, <1>15 DEF near

(* A number less its remainder is a multiple.                              *)
LEMMA MultipleBelow ==
  ASSUME NEW n \in Nat, NEW d \in Nat \ {0}
  PROVE  \E k \in 0 .. n : k % d = 0 /\ n < k + d
<1> DEFINE m == n \div d
           r == n % d
<1>1. n = d * m + r /\ r \in 0 .. d - 1 /\ m \in Nat
  OBVIOUS
<1> HIDE DEF m, r
<1>2. d * m \in 0 .. n /\ n < d * m + d
  <2>1. d * m \in Nat
    BY <1>1
  <2> QED BY <1>1, <2>1
<1>3. (d * m) % d = 0
  BY <1>1, Z3
<1> QED BY <1>2, <1>3

-----------------------------------------------------------------------------
(* Ranking by tuples of numbers.                                           *)
(* rank gives every element of P a tuple of m numbers of its own.          *)
RanksApart(P, rank, m) ==
  /\ \A x \in P : DOMAIN rank[x] = 1 .. m /\ \A i \in 1 .. m : rank[x][i] \in Int
  /\ \A x, y \in P : x # y => \E i \in 1 .. m : rank[x][i] # rank[y][i]

(* Tuples of numbers are in a strict order.                                *)
LEMMA RanksAreOrdered ==
  ASSUME NEW P, NEW rank, NEW m \in Nat, RanksApart(P, rank, m)
  PROVE  IsStrictOrder(P, {x \in P \X P : LowerRank(rank[x[1]], rank[x[2]])})
<1> DEFINE R == {x \in P \X P : LowerRank(rank[x[1]], rank[x[2]])}
           Lower(x, y) == \E i \in 1 .. m : rank[x][i] < rank[y][i] /\ \A j \in 1 .. i - 1 : rank[x][j] = rank[y][j]
<1>1. /\ \A x \in P : DOMAIN rank[x] = 1 .. m
      /\ \A x \in P : \A i \in 1 .. m : rank[x][i] \in Int
      /\ \A x, y \in P : x # y => \E i \in 1 .. m : rank[x][i] # rank[y][i]
  BY DEF RanksApart
<1>2. ASSUME NEW x \in P, NEW y \in P PROVE <<x, y>> \in R <=> Lower(x, y)
  <2>1. <<x, y>> \in R <=> LowerRank(rank[x], rank[y])
    <3>1. <<x, y>>[1] = x /\ <<x, y>>[2] = y /\ <<x, y>> \in P \X P
      OBVIOUS
    <3> QED BY <3>1
  <2>2. DOMAIN rank[x] = 1 .. m
    BY <1>1
  <2> QED BY <2>1, <2>2 DEF LowerRank
<1>3. \A x \in P : ~Lower(x, x)
  BY <1>1
<1>4. ASSUME NEW x \in P, NEW y \in P, x # y PROVE Lower(x, y) \/ Lower(y, x)
  <2> DEFINE T == {i \in 1 .. m : rank[x][i] # rank[y][i]}
  <2>1. T \in SUBSET Nat /\ T # {}
    BY <1>1, <1>4
  <2>2. PICK i \in T : \A k \in T : i <= k
    <3> HIDE DEF T
    <3> QED BY <2>1, LeastNatural
  <2>3. \A j \in 1 .. i - 1 : rank[x][j] = rank[y][j]
    <3>1. ASSUME NEW j \in 1 .. i - 1 PROVE rank[x][j] = rank[y][j]
      <4>1. j \in 1 .. m /\ j < i
        BY <2>2
      <4>2. j \notin T
        BY <2>2, <4>1
      <4> QED BY <4>1, <4>2
    <3> QED BY <3>1
  <2>4. i \in 1 .. m /\ rank[x][i] # rank[y][i] /\ rank[x][i] \in Int /\ rank[y][i] \in Int
    BY <1>1, <2>2
  <2>5. rank[x][i] < rank[y][i] \/ rank[y][i] < rank[x][i]
    BY <2>4
  <2> HIDE DEF T
  <2> QED BY <2>3, <2>4, <2>5
<1>5. ASSUME NEW x \in P, NEW y \in P, NEW z \in P, Lower(x, y), Lower(y, z) PROVE Lower(x, z)
  <2>1. PICK i \in 1 .. m : rank[x][i] < rank[y][i] /\ \A k \in 1 .. i - 1 : rank[x][k] = rank[y][k]
    BY <1>5
  <2>2. PICK j \in 1 .. m : rank[y][j] < rank[z][j] /\ \A k \in 1 .. j - 1 : rank[y][k] = rank[z][k]
    BY <1>5
  <2>3. /\ rank[x][i] \in Int /\ rank[y][i] \in Int /\ rank[z][i] \in Int
        /\ rank[x][j] \in Int /\ rank[y][j] \in Int /\ rank[z][j] \in Int
    BY <1>1
  <2>4. CASE i < j
    <3>1. rank[x][i] < rank[z][i]
      BY <2>1, <2>2, <2>3, <2>4
    <3>2. \A k \in 1 .. i - 1 : k \in 1 .. j - 1 /\ rank[x][k] = rank[z][k]
      BY <2>1, <2>2, <2>4
    <3> QED BY <3>1, <3>2
  <2>5. CASE j < i
    <3>1. rank[x][j] < rank[z][j]
      BY <2>1, <2>2, <2>3, <2>5
    <3>2. \A k \in 1 .. j - 1 : k \in 1 .. i - 1 /\ rank[x][k] = rank[z][k]
      BY <2>1, <2>2, <2>5
    <3> QED BY <3>1, <3>2
  <2>6. CASE i = j
    <3>1. rank[x][j] < rank[z][j]
      BY <2>1, <2>2, <2>3, <2>6
    <3>2. \A k \in 1 .. j - 1 : rank[x][k] = rank[z][k]
      BY <2>1, <2>2, <2>6
    <3> QED BY <3>1, <3>2
  <2> QED BY <2>4, <2>5, <2>6
<1> HIDE DEF R, Lower
<1> QED BY <1>2, <1>3, <1>4, <1>5, Zenon DEF IsStrictOrder, R

(* A list without repetitions is as long as the set of its elements.       *)
LEMMA ListsCount ==
  ASSUME NEW S, NEW s \in Seq(S), IsInjective(s)
  PROVE  IsFiniteSet(Range(s)) /\ Cardinality(Range(s)) = Len(s)
<1>1. Len(s) \in Nat /\ DOMAIN s = 1 .. Len(s)
  BY LenProperties
<1>2. IsFiniteSet(1 .. Len(s)) /\ Cardinality(1 .. Len(s)) = Len(s)
  <2>1. 1 \in Int /\ Len(s) \in Int /\ Len(s) - 1 + 1 = Len(s) /\ (1 > Len(s) => Len(s) = 0)
    BY <1>1
  <2> QED BY <2>1, FS_Interval
<1>3. s \in Bijection(1 .. Len(s), Range(s))
  <2>1. s \in [1 .. Len(s) -> Range(s)]
    BY <1>1 DEF Range
  <2>2. s \in Injection(1 .. Len(s), Range(s))
    BY <2>1 DEF Injection
  <2>3. s \in Surjection(1 .. Len(s), Range(s))
    BY <1>1, <2>1 DEF Surjection, Range
  <2> QED BY <2>2, <2>3 DEF Bijection
<1>4. ExistsBijection(1 .. Len(s), Range(s))
  BY <1>3 DEF ExistsBijection
<1> QED BY <1>2, <1>4, FS_Bijection

(* The beginning of a list.                                                *)
LEMMA UpToIsPrefix ==
  ASSUME NEW S, NEW s \in Seq(S), NEW n \in Nat
  PROVE  /\ UpTo(s, n) \in Seq(S) /\ Len(s) \in Nat
         /\ Len(UpTo(s, n)) = Smaller(n, Len(s)) /\ DOMAIN UpTo(s, n) = 1 .. Len(UpTo(s, n))
         /\ \A i \in 1 .. Len(UpTo(s, n)) : i \in 1 .. Len(s) /\ UpTo(s, n)[i] = s[i]
<1>1. UpTo(s, n) = Beginning(s, n)
  BY DEF UpTo, Beginning
<1>2. /\ Beginning(s, n) \in Seq(S)
      /\ Len(Beginning(s, n)) = IF Len(s) > n THEN n ELSE Len(s)
      /\ \A i \in 1 .. Len(Beginning(s, n)) : i \in 1 .. Len(s) /\ Beginning(s, n)[i] = s[i]
  BY BeginningIsPrefix
<1>3. Len(s) \in Nat
  BY LenProperties
<1>4. Smaller(n, Len(s)) = IF Len(s) > n THEN n ELSE Len(s)
  BY <1>3 DEF Smaller
<1>5. DOMAIN Beginning(s, n) = 1 .. Len(Beginning(s, n))
  BY <1>2, LenProperties
<1> QED BY <1>1, <1>2, <1>3, <1>4, <1>5

(* The best by rank: as many as wanted, in their order, and none better    *)
(* left out.                                                               *)
BestFirst(P, rank, n, best) ==
  /\ best \in Seq(P) /\ IsInjective(best) /\ Cardinality(P) \in Nat
  /\ Len(best) = Smaller(n, Cardinality(P)) /\ DOMAIN best = 1 .. Len(best)
  /\ IsFiniteSet(Range(best)) /\ Cardinality(Range(best)) = Len(best)
  /\ \A j, k \in DOMAIN best : j < k => LowerRank(rank[best[j]], rank[best[k]])
  /\ \A x \in P \ Range(best) : /\ Len(best) = n
                                /\ \A k \in DOMAIN best : LowerRank(rank[best[k]], rank[x])

(* The first of a ranking are the best.                                    *)
LEMMA BestComeFirst ==
  ASSUME NEW P, IsFiniteSet(P), NEW rank, NEW m \in Nat, RanksApart(P, rank, m), NEW n \in Nat,
         NEW best, best = UpTo(Ranking(P, rank), n)
  PROVE  BestFirst(P, rank, n, best)
<1> DEFINE R == {x \in P \X P : LowerRank(rank[x[1]], rank[x[2]])}
           s == Ranking(P, rank)
           c == Cardinality(P)
<1>1. IsStrictOrder(P, R)
  BY RanksAreOrdered
<1>2. s = Sorted(P, R)
  BY DEF Ranking
<1>3. \A x, y : <<x, y>> \in R => LowerRank(rank[x], rank[y])
  <2>1. \A x, y : <<x, y>>[1] = x /\ <<x, y>>[2] = y
    OBVIOUS
  <2> QED BY <2>1
<1>4. \A x, y : <<x, y>> \in R => x \in P /\ y \in P
  OBVIOUS
<1> HIDE DEF R, s
<1>5. /\ c \in Nat /\ s \in Seq(P) /\ Len(s) = c
      /\ \A x \in P : \E k \in 1 .. c : s[k] = x
      /\ \A j, k \in 1 .. c : j < k => <<s[j], s[k]>> \in R
  BY <1>1, <1>2, SortedListsTheSet
<1>0. best = UpTo(s, n)
  BY DEF s
<1>6. /\ best \in Seq(P) /\ Len(best) = Smaller(n, c) /\ DOMAIN best = 1 .. Len(best)
      /\ \A i \in 1 .. Len(best) : i \in 1 .. c /\ best[i] = s[i]
  BY <1>0, <1>5, UpToIsPrefix
<1>7. Len(best) \in Nat
  BY <1>5, <1>6 DEF Smaller
<1> HIDE DEF c
<1>8. \A x \in P : <<x, x>> \notin R
  BY <1>1 DEF IsStrictOrder
<1>9. \A j, k \in DOMAIN best : j < k => <<best[j], best[k]>> \in R
  BY <1>5, <1>6
<1>10. IsInjective(best)
  <2>1. ASSUME NEW a \in DOMAIN best, NEW b \in DOMAIN best, best[a] = best[b], a < b PROVE FALSE
    <3>1. <<best[a], best[b]>> \in R
      BY <1>9, <2>1
    <3>2. best[a] \in P
      BY <1>4, <3>1
    <3> QED BY <1>8, <2>1, <3>1, <3>2
  <2>2. \A a, b \in DOMAIN best : a < b \/ b < a \/ a = b
    BY <1>6, <1>7
  <2> QED BY <2>1, <2>2 DEF IsInjective
<1>11. ASSUME NEW x \in P \ Range(best)
       PROVE  Len(best) = n /\ \A k \in DOMAIN best : LowerRank(rank[best[k]], rank[x])
  <2>1. PICK i \in 1 .. c : s[i] = x
    BY <1>5
  <2>2. i \notin 1 .. Len(best)
    BY <1>6, <2>1 DEF Range
  <2>3. i > Len(best)
    BY <1>5, <1>7, <2>2
  <2>4. Len(best) = n
    BY <1>5, <1>6, <2>3 DEF Smaller
  <2>5. \A k \in DOMAIN best : k \in 1 .. c /\ k < i /\ best[k] = s[k]
    BY <1>5, <1>6, <1>7, <2>3
  <2>6. \A k \in DOMAIN best : <<best[k], x>> \in R
    BY <1>5, <2>1, <2>5
  <2> QED BY <1>3, <2>4, <2>6
<1>12. IsFiniteSet(Range(best)) /\ Cardinality(Range(best)) = Len(best)
  BY <1>6, <1>10, ListsCount
<1> QED BY <1>3, <1>5, <1>6, <1>9, <1>10, <1>11, <1>12 DEF s, c, BestFirst

(* All of a set, by rank.                                                  *)
LEMMA AllAreRanked ==
  ASSUME NEW P, IsFiniteSet(P), NEW rank, NEW m \in Nat, RanksApart(P, rank, m)
  PROVE  Ranking(P, rank) \in Seq(P) /\ Range(Ranking(P, rank)) = P
<1> DEFINE R == {x \in P \X P : LowerRank(rank[x[1]], rank[x[2]])}
           s == Ranking(P, rank)
<1>1. IsStrictOrder(P, R)
  BY RanksAreOrdered
<1>2. s = Sorted(P, R)
  BY DEF Ranking
<1> HIDE DEF R, s
<1>3. /\ Cardinality(P) \in Nat /\ s \in Seq(P) /\ Len(s) = Cardinality(P)
      /\ \A x \in P : \E k \in 1 .. Cardinality(P) : s[k] = x
  BY <1>1, <1>2, SortedListsTheSet
<1>4. DOMAIN s = 1 .. Cardinality(P)
  BY <1>3, LenProperties
<1>5. \A k \in DOMAIN s : s[k] \in P
  BY <1>3, <1>4, ElementOfSeq
<1>6. Range(s) = P
  BY <1>3, <1>4, <1>5 DEF Range
<1> QED BY <1>3, <1>6 DEF s

(* Different pairs of numbers have different ranks.                        *)
LEMMA PairsApart ==
  ASSUME NEW P \in SUBSET (Int \X Int)
  PROVE  RanksApart(P, [x \in P |-> x], 2)
<1>1. \A x \in P : x = <<x[1], x[2]>> /\ x[1] \in Int /\ x[2] \in Int
  OBVIOUS
<1>2. 1 .. 2 = {1, 2}
  OBVIOUS
<1>3. ASSUME NEW x \in P PROVE DOMAIN x = 1 .. 2
  BY <1>1
<1>4. \A x, y \in P : x # y => \E i \in {1, 2} : x[i] # y[i]
  BY <1>1
<1> QED BY <1>1, <1>2, <1>3, <1>4 DEF RanksApart

(* The functions of the names asked for, and only they                     *)
(* (retrieve_by_hotspot).                                                  *)
LEMMA HotspotsAreFound ==
  ASSUME NEW q \in Questions, q.about = "hotspots", result = Answer(q)
  PROVE  \A n \in Range(q.nodes) :
           n \in Range(result) <=> (n.kind = "function" /\ \E name \in Range(q.names) : <<name, n.name>> \in NamedIn)
<1> DEFINE found == {x \in (DOMAIN q.names) \X (DOMAIN q.nodes) :
                       q.nodes[x[2]].kind = "function" /\ <<q.names[x[1]], q.nodes[x[2]].name>> \in NamedIn}
           listed == Ranking(found, [x \in found |-> x])
<1>1. q.nodes \in Seq(Range(q.nodes)) /\ q.names \in Seq(STRING)
  BY RetrievalAssumption DEF IsQuestion, IsList
<1>2. result = [k \in DOMAIN listed |-> q.nodes[listed[k][2]]]
  BY DEF Answer, Hotspots
<1>3. /\ DOMAIN q.names = 1 .. Len(q.names) /\ Len(q.names) \in Nat
      /\ DOMAIN q.nodes = 1 .. Len(q.nodes) /\ Len(q.nodes) \in Nat
  BY <1>1, LenProperties
<1>4. IsFiniteSet(found)
  <2>1. IsFiniteSet(DOMAIN q.names) /\ IsFiniteSet(DOMAIN q.nodes)
    <3>1. 1 \in Int /\ Len(q.names) \in Int /\ Len(q.nodes) \in Int
      BY <1>3
    <3> QED BY <1>3, <3>1, FS_Interval
  <2>2. IsFiniteSet((DOMAIN q.names) \X (DOMAIN q.nodes))
    BY <2>1, FS_Product
  <2> QED BY <2>2, FS_Subset
<1>5. found \in SUBSET (Int \X Int)
  BY <1>3
<1> HIDE DEF found
<1>6. listed \in Seq(found) /\ Range(listed) = found
  BY <1>4, <1>5, PairsApart, AllAreRanked
<1> HIDE DEF listed
<1>7. Range(result) = {q.nodes[x[2]] : x \in found}
  BY <1>2, <1>6 DEF Range
<1>8. ASSUME NEW n \in Range(q.nodes), n \in Range(result)
      PROVE  n.kind = "function" /\ \E name \in Range(q.names) : <<name, n.name>> \in NamedIn
  <2>1. PICK x \in found : n = q.nodes[x[2]]
    BY <1>7, <1>8
  <2> QED BY <2>1 DEF found, Range
<1>9. ASSUME NEW n \in Range(q.nodes), n.kind = "function",
             NEW name \in Range(q.names), <<name, n.name>> \in NamedIn
      PROVE  n \in Range(result)
  <2>1. PICK b \in DOMAIN q.nodes : n = q.nodes[b]
    BY DEF Range
  <2>2. PICK a \in DOMAIN q.names : name = q.names[a]
    BY <1>9 DEF Range
  <2>3. <<a, b>> \in found /\ <<a, b>>[2] = b
    BY <1>9, <2>1, <2>2 DEF found
  <2> QED BY <1>7, <2>1, <2>3
<1> QED BY <1>8, <1>9

-----------------------------------------------------------------------------
(* Pairs of numbers in their order.                                        *)
LEMMA PairsAreListed ==
  ASSUME NEW P \in SUBSET (Int \X Int), IsFiniteSet(P)
  PROVE  Ranking(P, [x \in P |-> x]) \in Seq(P) /\ Range(Ranking(P, [x \in P |-> x])) = P
BY PairsApart, AllAreRanked

(* What is below a limit is not cut.                                       *)
LEMMA CutKeeps ==
  ASSUME NEW S, NEW s \in Seq(S), NEW n \in Nat, NEW t, t = UpTo(s, n)
  PROVE  /\ Len(t) <= n /\ Range(t) \subseteq Range(s)
         /\ Len(t) < n => Range(t) = Range(s)
<1>1. /\ t \in Seq(S) /\ Len(s) \in Nat /\ Len(t) = Smaller(n, Len(s)) /\ DOMAIN t = 1 .. Len(t)
      /\ \A i \in 1 .. Len(t) : i \in 1 .. Len(s) /\ t[i] = s[i]
  BY UpToIsPrefix
<1>2. DOMAIN s = 1 .. Len(s)
  BY LenProperties
<1>3. Range(t) \subseteq Range(s)
  BY <1>1, <1>2 DEF Range
<1>4. ASSUME Len(t) < n PROVE Range(s) \subseteq Range(t)
  <2>1. Len(t) = Len(s)
    BY <1>1, <1>4 DEF Smaller
  <2> QED BY <1>1, <1>2, <2>1 DEF Range
<1> QED BY <1>1, <1>3, <1>4 DEF Smaller

(* The characters from one line to the end of another are a number.        *)
LEMMA CharactersAreCounted ==
  ASSUME NEW q, q.lines \in Nat, q.widths \in [1 .. q.lines -> Nat],
         NEW l \in 1 .. q.lines, NEW first \in 1 .. l
  PROVE  Characters(q, first, l) \in Int
<1>1. q.widths \in Seq(Nat) /\ Len(q.widths) = q.lines
  <2>1. DOMAIN q.widths = 1 .. q.lines
    OBVIOUS
  <2> QED BY <2>1
<1>2. \A m \in 0 .. q.lines : SumTo(q.widths, m) \in Nat
  BY <1>1, SumsAdd
<1>3. l \in 0 .. q.lines /\ first - 1 \in 0 .. q.lines /\ l \in Int /\ first \in Int
  OBVIOUS
<1> QED BY <1>2, <1>3 DEF Characters

(* A node is chunked from its first line on (_chunk_structured).           *)
LEMMA NodesEndInTheFile ==
  ASSUME NEW lines \in Nat, NEW node \in [start : Nat \ {0}, end : Nat]
  PROVE  /\ NodeEnd(lines, node) \in Int /\ NodeEnd(lines, node) <= lines
         /\ node.start <= lines => node.start <= NodeEnd(lines, node)
<1> DEFINE end == IF node.end > 0 THEN Smaller(lines, node.end) ELSE node.start - 1 + GuessedLines
           last == IF end <= node.start - 1 THEN Smaller(lines, node.start - 1 + GuessedLines) ELSE end
<1>1. node.start \in Nat \ {0} /\ node.end \in Nat /\ GuessedLines \in Nat \ {0}
  BY RetrievalAssumption
<1>2. end \in Int
  BY <1>1 DEF Smaller
<1>3. last \in Int /\ (node.start <= lines => node.start <= last)
  <2> HIDE DEF end
  <2> QED BY <1>1, <1>2 DEF Smaller
<1>4. NodeEnd(lines, node) = Smaller(lines, last)
  BY DEF NodeEnd
<1> HIDE DEF last
<1> QED BY <1>1, <1>3, <1>4 DEF Smaller

(* What a question about a file says.                                      *)
FileIsGiven(q) ==
  /\ q.lines \in Nat /\ q.size \in Nat /\ q.overlap \in 0 .. q.size - 1
  /\ q.nodes \in Seq([start : Nat \ {0}, end : Nat])
  /\ q.widths \in [1 .. q.lines -> Nat] /\ q.written \subseteq 1 .. q.lines
  /\ q.heading \in Nat /\ q.room \in Nat /\ q.left \in Nat

(* A chunk that is cut shows what is not too far.                          *)
LEMMA CutAtRoom ==
  ASSUME NEW q, FileIsGiven(q), NEW heading \in Nat, NEW first \in Nat \ {0}, NEW last \in Int, last <= q.lines
  PROVE  /\ ShownLines(q, heading, first, last) \in SUBSET (1 .. q.lines)
         /\ \A l \in first .. last :
              l \in ShownLines(q, heading, first, last) \/ heading + Characters(q, first, l) > q.room
<1>1. first .. last \subseteq 1 .. q.lines
  BY DEF FileIsGiven
<1>2. ASSUME NEW l \in first .. last PROVE Characters(q, first, l) \in Int
  <2>1. l \in 1 .. q.lines /\ first \in 1 .. l
    BY <1>1
  <2> QED BY <2>1, CharactersAreCounted DEF FileIsGiven
<1> QED BY <1>1, <1>2 DEF ShownLines, FileIsGiven

(* A file with symbols: its head, and where they begin.                    *)
LEMMA StructuredCovers ==
  ASSUME NEW q, FileIsGiven(q), q.nodes # <<>>
  PROVE  /\ Structured(q) \in Seq(SUBSET (1 .. q.lines))
         /\ \A l \in (1 .. Smaller(HeaderLines, q.lines) \cup {n.start : n \in Range(q.nodes)}) \cap q.written :
              l \in UNION Range(Structured(q)) \/ TooFar(q, l)
<1> DEFINE EndOf(x) == NodeEnd(q.lines, q.nodes[x[2]])
           all     == {<<q.nodes[i].start, i>> : i \in DOMAIN q.nodes}
           found   == {x \in all : Written(q, x[1], EndOf(x))}
           order   == Ranking(found, [x \in found |-> x])
           chunk(x) == ShownLines(q, q.heading, x[1], EndOf(x))
           ofNodes == [k \in DOMAIN order |-> chunk(order[k])]
           header  == 1 .. Smaller(HeaderLines, q.lines)
           covered == UNION {x[1] .. EndOf(x) : x \in found}
<1>1. /\ q.lines \in Nat /\ q.heading \in Nat /\ HeaderLines \in Nat /\ q.written \subseteq 1 .. q.lines
      /\ Len(q.nodes) \in Nat /\ DOMAIN q.nodes = 1 .. Len(q.nodes)
      /\ \A i \in DOMAIN q.nodes : q.nodes[i] \in [start : Nat \ {0}, end : Nat]
  <2>1. q.nodes \in Seq([start : Nat \ {0}, end : Nat])
    BY DEF FileIsGiven
  <2>2. DOMAIN q.nodes = 1 .. Len(q.nodes) /\ Len(q.nodes) \in Nat
    BY <2>1, LenProperties
  <2>3. \A i \in DOMAIN q.nodes : q.nodes[i] \in [start : Nat \ {0}, end : Nat]
    BY <2>1, <2>2, ElementOfSeq
  <2> QED BY <2>2, <2>3, RetrievalAssumption DEF FileIsGiven
<1>2. header \subseteq 1 .. q.lines
  BY <1>1 DEF Smaller
<1>3. Structured(q) = IF header \subseteq covered \/ header \cap q.written = {} THEN ofNodes ELSE Append(ofNodes, header)
  BY DEF Structured
<1>4. found \in SUBSET (Int \X Int) /\ IsFiniteSet(found)
  <2>1. \A i \in DOMAIN q.nodes : q.nodes[i].start \in Int /\ i \in Int
    BY <1>1
  <2>2. all \in SUBSET (Int \X Int)
    BY <2>1
  <2>3. IsFiniteSet(DOMAIN q.nodes)
    <3>1. 1 \in Int /\ Len(q.nodes) \in Int
      BY <1>1
    <3> QED BY <1>1, <3>1, FS_Interval
  <2>4. IsFiniteSet(all)
    <3> DEFINE f == [i \in DOMAIN q.nodes |-> <<q.nodes[i].start, i>>]
    <3>1. f \in Surjection(DOMAIN q.nodes, all)
      BY DEF Surjection
    <3> HIDE DEF f, all
    <3> QED BY <2>3, <3>1, FS_Surjection
  <2> HIDE DEF all
  <2> QED BY <2>2, <2>4, FS_Subset
<1>5. \A x \in found : /\ x[1] \in Nat \ {0} /\ x[2] \in DOMAIN q.nodes /\ x[1] = q.nodes[x[2]].start
                       /\ EndOf(x) \in Int /\ EndOf(x) <= q.lines
  BY <1>1, NodesEndInTheFile
<1>6. \A x \in found : /\ chunk(x) \in SUBSET (1 .. q.lines)
                       /\ \A l \in x[1] .. EndOf(x) : l \in chunk(x) \/ TooFar(q, l)
  <2> TAKE x \in found
  <2>1. /\ chunk(x) \in SUBSET (1 .. q.lines)
        /\ \A l \in x[1] .. EndOf(x) : l \in chunk(x) \/ q.heading + Characters(q, x[1], l) > q.room
    BY <1>1, <1>5, CutAtRoom
  <2>2. q.nodes[x[2]] \in Range(q.nodes)
    BY <1>5 DEF Range
  <2>3. ASSUME NEW l \in x[1] .. EndOf(x), q.heading + Characters(q, x[1], l) > q.room PROVE TooFar(q, l)
    <3>1. x[1] <= l
      BY <1>5
    <3> QED BY <1>5, <2>2, <2>3, <3>1 DEF TooFar
  <2> HIDE DEF chunk, found
  <2> QED BY <2>1, <2>3
<1>7. \A n \in Range(q.nodes) : n.start \in q.written => <<n.start, n.start>> \in {<<x[1], x[1]>> : x \in found}
  <2> SUFFICES ASSUME NEW n \in Range(q.nodes), n.start \in q.written PROVE \E x \in found : x[1] = n.start
    OBVIOUS
  <2>1. PICK i \in DOMAIN q.nodes : q.nodes[i] = n
    BY DEF Range
  <2>2. n \in [start : Nat \ {0}, end : Nat] /\ n.start <= q.lines
    BY <1>1, <2>1
  <2>3. n.start \in n.start .. NodeEnd(q.lines, n)
    BY <1>1, <2>2, NodesEndInTheFile
  <2>4. Written(q, n.start, NodeEnd(q.lines, n))
    BY <2>3 DEF Written
  <2>5. <<n.start, i>> \in found
    BY <2>1, <2>4
  <2> QED BY <2>5
<1>8. \A x \in found : x[1] \in q.written => x[1] \in x[1] .. EndOf(x)
  <2> SUFFICES ASSUME NEW x \in found, x[1] \in q.written PROVE x[1] \in x[1] .. EndOf(x)
    OBVIOUS
  <2>1. x[1] <= q.lines /\ q.nodes[x[2]] \in [start : Nat \ {0}, end : Nat]
    BY <1>1, <1>5
  <2> QED BY <1>1, <1>5, <2>1, NodesEndInTheFile
<1> HIDE DEF found, chunk, EndOf
<1>9. order \in Seq(found) /\ Range(order) = found
  BY <1>4, PairsAreListed
<1> HIDE DEF order
<1>10. DOMAIN order = 1 .. Len(order) /\ Len(order) \in Nat /\ \A k \in DOMAIN order : order[k] \in found
  BY <1>9, LenProperties, ElementOfSeq
<1>11. ofNodes \in Seq(SUBSET (1 .. q.lines)) /\ Range(ofNodes) = {chunk(x) : x \in found}
  <2>1. \A k \in 1 .. Len(order) : chunk(order[k]) \in SUBSET (1 .. q.lines)
    BY <1>6, <1>10
  <2>2. ofNodes \in Seq(SUBSET (1 .. q.lines))
    BY <1>10, <2>1
  <2>3. Range(ofNodes) = {chunk(x) : x \in found}
    BY <1>9 DEF Range
  <2> QED BY <2>2, <2>3
<1> HIDE DEF ofNodes, header
<1>12. ASSUME NEW s \in Seq(SUBSET (1 .. q.lines))
       PROVE  /\ Append(s, header) \in Seq(SUBSET (1 .. q.lines))
              /\ Range(s) \subseteq Range(Append(s, header)) /\ header \in Range(Append(s, header))
  <2>1. header \in SUBSET (1 .. q.lines)
    BY <1>2
  <2>2. /\ Append(s, header) \in Seq(SUBSET (1 .. q.lines)) /\ Len(Append(s, header)) = Len(s) + 1
        /\ Len(s) \in Nat /\ DOMAIN s = 1 .. Len(s)
        /\ \A i \in 1 .. Len(s) : Append(s, header)[i] = s[i]
        /\ Append(s, header)[Len(s) + 1] = header
    BY <2>1, AppendProperties, LenProperties
  <2>3. DOMAIN Append(s, header) = 1 .. Len(s) + 1
    BY <2>2, LenProperties
  <2> QED BY <2>2, <2>3 DEF Range
<1>13. Structured(q) \in Seq(SUBSET (1 .. q.lines)) /\ Range(ofNodes) \subseteq Range(Structured(q))
  BY <1>3, <1>11, <1>12
<1>14. ASSUME NEW x \in found, NEW l \in x[1] .. EndOf(x) PROVE l \in UNION Range(Structured(q)) \/ TooFar(q, l)
  BY <1>6, <1>11, <1>13
<1>15. ASSUME NEW l \in header \cap q.written PROVE l \in UNION Range(Structured(q)) \/ TooFar(q, l)
  <2>1. CASE header \subseteq covered
    BY <1>14, <2>1
  <2>2. CASE ~(header \subseteq covered)
    <3>1. Structured(q) = Append(ofNodes, header)
      BY <1>3, <2>2
    <3> QED BY <1>11, <1>12, <3>1
  <2> QED BY <2>1, <2>2
<1>16. ASSUME NEW n \in Range(q.nodes), n.start \in q.written
       PROVE  n.start \in UNION Range(Structured(q)) \/ TooFar(q, n.start)
  <2>1. PICK x \in found : x[1] = n.start
    BY <1>7, <1>16
  <2> QED BY <1>8, <1>14, <1>16, <2>1
<1> QED BY <1>13, <1>15, <1>16 DEF header

(* A file without symbols: every line.                                     *)
LEMMA BlocksCover ==
  ASSUME NEW q, FileIsGiven(q), q.nodes = <<>>
  PROVE  /\ Blocks(q) \in Seq(SUBSET (1 .. q.lines))
         /\ \A l \in q.written : l \in UNION Range(Blocks(q)) \/ TooFar(q, l)
<1> DEFINE d      == q.size - q.overlap
           starts == {k \in 0 .. q.lines - 1 : k % d = 0}
           pieces == IF q.lines <= 2 * q.size THEN {<<1, q.lines>>}
                     ELSE {<<i + 1, Smaller(i + q.size, q.lines)>> : i \in starts}
           found  == {x \in pieces : Written(q, x[1], x[2])}
           order  == Ranking(found, [x \in found |-> x])
           chunk(x) == ShownLines(q, 0, x[1], x[2])
           most   == IF q.lines <= 2 * q.size THEN q.lines ELSE q.size
<1>1. /\ q.lines \in Nat /\ q.size \in Nat /\ q.overlap \in 0 .. q.size - 1 /\ q.written \subseteq 1 .. q.lines
      /\ q.room \in Nat /\ d \in Nat \ {0} /\ d <= q.size
  BY DEF FileIsGiven
<1>2. Blocks(q) = [k \in DOMAIN order |-> chunk(order[k])]
  BY DEF Blocks
<1>3. \A x \in pieces : /\ x[1] \in Nat \ {0} /\ x[2] \in Int /\ x[2] <= q.lines /\ x[2] - x[1] < most
                        /\ x \in Int \X Int
  <2>1. CASE q.lines <= 2 * q.size
    BY <1>1, <2>1
  <2>2. CASE ~(q.lines <= 2 * q.size)
    <3>1. \A i \in 0 .. q.lines - 1 :
            LET x == <<i + 1, Smaller(i + q.size, q.lines)>>
            IN  /\ x[1] \in Nat \ {0} /\ x[2] \in Int /\ x[2] <= q.lines /\ x[2] - x[1] < q.size
                /\ x \in Int \X Int
      BY <1>1 DEF Smaller
    <3>2. pieces = {<<i + 1, Smaller(i + q.size, q.lines)>> : i \in starts} /\ most = q.size
      BY <2>2
    <3>3. starts \subseteq 0 .. q.lines - 1
      OBVIOUS
    <3> HIDE DEF pieces, starts, most
    <3> QED BY <3>1, <3>2, <3>3
  <2> QED BY <2>1, <2>2
<1>4. IsFiniteSet(pieces)
  <2>1. IsFiniteSet({<<1, q.lines>>})
    BY FS_Singleton
  <2>2. IsFiniteSet(0 .. q.lines - 1)
    <3>1. 0 \in Int /\ q.lines - 1 \in Int
      BY <1>1
    <3> QED BY <3>1, FS_Interval
  <2>3. IsFiniteSet(starts)
    BY <2>2, FS_Subset
  <2> HIDE DEF starts
  <2> DEFINE f == [i \in starts |-> <<i + 1, Smaller(i + q.size, q.lines)>>]
             T == {<<i + 1, Smaller(i + q.size, q.lines)>> : i \in starts}
  <2>4. IsFiniteSet(T)
    <3>1. f \in Surjection(starts, T)
      BY DEF Surjection
    <3> HIDE DEF f, T
    <3> QED BY <2>3, <3>1, FS_Surjection
  <2> QED BY <2>1, <2>4
<1>5. \A l \in 1 .. q.lines : \E x \in pieces : l \in x[1] .. x[2]
  <2> TAKE l \in 1 .. q.lines
  <2>1. CASE q.lines <= 2 * q.size
    BY <2>1
  <2>2. CASE ~(q.lines <= 2 * q.size)
    <3>1. l - 1 \in Nat /\ l - 1 <= q.lines - 1
      BY <1>1
    <3> HIDE DEF d
    <3>2. PICK k \in 0 .. l - 1 : k % d = 0 /\ l - 1 < k + d
      BY <1>1, <3>1, MultipleBelow
    <3>3. k \in starts /\ l \in k + 1 .. Smaller(k + q.size, q.lines)
      BY <1>1, <3>1, <3>2 DEF Smaller
    <3>4. <<k + 1, Smaller(k + q.size, q.lines)>> \in pieces
      BY <2>2, <3>3
    <3> QED BY <3>3, <3>4
  <2> QED BY <2>1, <2>2
<1> HIDE DEF pieces
<1>6. found \in SUBSET (Int \X Int) /\ IsFiniteSet(found)
  BY <1>3, <1>4, FS_Subset
<1>7. \A l \in q.written : \E x \in found : l \in x[1] .. x[2]
  <2> TAKE l \in q.written
  <2>1. PICK x \in pieces : l \in x[1] .. x[2]
    BY <1>1, <1>5
  <2>2. Written(q, x[1], x[2])
    BY <2>1 DEF Written
  <2> QED BY <2>1, <2>2
<1>8. \A x \in found : /\ chunk(x) \in SUBSET (1 .. q.lines)
                       /\ \A l \in x[1] .. x[2] : l \in chunk(x) \/ TooFar(q, l)
  <2> TAKE x \in found
  <2>1. /\ chunk(x) \in SUBSET (1 .. q.lines)
        /\ \A l \in x[1] .. x[2] : l \in chunk(x) \/ 0 + Characters(q, x[1], l) > q.room
    <3>1. x[1] \in Nat \ {0} /\ x[2] \in Int /\ x[2] <= q.lines /\ 0 \in Nat
      BY <1>3
    <3> QED BY <3>1, CutAtRoom
  <2>2. ASSUME NEW l \in x[1] .. x[2], 0 + Characters(q, x[1], l) > q.room PROVE TooFar(q, l)
    <3>1. /\ x[1] \in Nat \ {0} /\ x[2] \in Int /\ x[2] - x[1] < most /\ x[2] <= q.lines
      BY <1>3
    <3>2. most \in Nat
      BY <1>1
    <3>3. l \in 1 .. q.lines /\ x[1] \in 1 .. l /\ l - x[1] < most
      <4> HIDE DEF most
      <4> QED BY <1>1, <3>1, <3>2
    <3>4. Characters(q, x[1], l) \in Int
      BY <3>3, CharactersAreCounted DEF FileIsGiven
    <3>5. Characters(q, x[1], l) > q.room
      BY <1>1, <2>2, <3>4
    <3> QED BY <3>3, <3>5 DEF TooFar
  <2> HIDE DEF chunk, found
  <2> QED BY <2>1, <2>2
<1> HIDE DEF found, chunk
<1>9. order \in Seq(found) /\ Range(order) = found
  BY <1>6, PairsAreListed
<1> HIDE DEF order
<1>10. DOMAIN order = 1 .. Len(order) /\ Len(order) \in Nat /\ \A k \in DOMAIN order : order[k] \in found
  BY <1>9, LenProperties, ElementOfSeq
<1>11. Blocks(q) \in Seq(SUBSET (1 .. q.lines))
  <2>1. \A k \in 1 .. Len(order) : chunk(order[k]) \in SUBSET (1 .. q.lines)
    BY <1>8, <1>10
  <2> QED BY <1>2, <1>10, <2>1
<1>12. Range(Blocks(q)) = {chunk(x) : x \in found}
  BY <1>2, <1>9 DEF Range
<1>13. ASSUME NEW l \in q.written PROVE l \in UNION Range(Blocks(q)) \/ TooFar(q, l)
  <2>1. PICK x \in found : l \in x[1] .. x[2]
    BY <1>7
  <2> QED BY <1>8, <1>12, <2>1
<1> QED BY <1>11, <1>13

(* The chunks of a file cover what they must (rag/chunker).                *)
LEMMA ChunksAreComplete ==
  ASSUME NEW q \in Questions, q.about = "chunks", result = Answer(q)
  PROVE  ChunksCover(q)
<1> DEFINE chunks == IF q.nodes # <<>> THEN Structured(q) ELSE Blocks(q)
           due == IF q.nodes = <<>> THEN 1 .. q.lines
                  ELSE 1 .. Smaller(HeaderLines, q.lines) \cup {n.start : n \in Range(q.nodes)}
<1>1. FileIsGiven(q)
  BY RetrievalAssumption DEF IsQuestion, FileIsGiven
<1>2. result = UpTo(chunks, q.left)
  BY DEF Answer, Chunks
<1>3. chunks \in Seq(SUBSET (1 .. q.lines)) /\ \A l \in due \cap q.written : l \in UNION Range(chunks) \/ TooFar(q, l)
  <2>1. CASE q.nodes = <<>>
    BY <1>1, <2>1, BlocksCover
  <2>2. CASE q.nodes # <<>>
    BY <1>1, <2>2, StructuredCovers
  <2> QED BY <2>1, <2>2
<1> HIDE DEF chunks, due
<1>4. q.left \in Nat
  BY <1>1 DEF FileIsGiven
<1>5. /\ Len(result) <= q.left /\ Range(result) \subseteq Range(chunks)
      /\ Len(result) < q.left => Range(result) = Range(chunks)
  BY <1>2, <1>3, <1>4, CutKeeps
<1>6. Range(chunks) \subseteq SUBSET (1 .. q.lines)
  <2>1. \A i \in DOMAIN chunks : chunks[i] \in SUBSET (1 .. q.lines)
    BY <1>3, LenProperties, ElementOfSeq
  <2> QED BY <2>1 DEF Range
<1>7. UNION Range(result) \subseteq 1 .. q.lines
  BY <1>5, <1>6
<1> QED BY <1>3, <1>5, <1>7 DEF ChunksCover, due

-----------------------------------------------------------------------------
(* How like a word of the question is to the words of a node, as a set of  *)
(* tenths.                                                                 *)
LEMMA LikenessIsFinite ==
  ASSUME NEW tokens, IsFiniteSet(tokens), NEW words
  PROVE  /\ IsFiniteSet(UNION {{t} \X Likeness(t, words) : t \in tokens})
         /\ Points(tokens, words) \in Nat
<1>1. UNION {{t} \X Likeness(t, words) : t \in tokens} \subseteq tokens \X (1 .. 10)
  BY DEF Likeness
<1>2. IsFiniteSet(tokens \X (1 .. 10))
  <2>1. IsFiniteSet(1 .. 10)
    <3>1. 1 \in Int /\ 10 \in Int
      OBVIOUS
    <3> QED BY <3>1, FS_Interval
  <2> QED BY <2>1, FS_Product
<1>3. IsFiniteSet(UNION {{t} \X Likeness(t, words) : t \in tokens})
  BY <1>1, <1>2, FS_Subset
<1> QED BY <1>3, FS_CardinalityType DEF Points

(* The points of one word of the question are finitely many.               *)
LEMMA PointsOfAWord ==
  ASSUME NEW t, NEW words
  PROVE  /\ IsFiniteSet(Likeness(t, words)) /\ Cardinality(Likeness(t, words)) \in Nat
         /\ Points({t}, words) = Cardinality(Likeness(t, words))
<1>1. IsFiniteSet(1 .. 10)
  <2>1. 1 \in Int /\ 10 \in Int
    OBVIOUS
  <2> QED BY <2>1, FS_Interval
<1>2. Likeness(t, words) \subseteq 1 .. 10
  BY DEF Likeness
<1>3. IsFiniteSet(Likeness(t, words))
  BY <1>1, <1>2, FS_Subset
<1>4. Cardinality(Likeness(t, words)) \in Nat
  BY <1>3, FS_CardinalityType
<1>5. IsFiniteSet({t}) /\ Cardinality({t}) = 1
  BY FS_Singleton
<1>6. Cardinality({t} \X Likeness(t, words)) = Cardinality({t}) * Cardinality(Likeness(t, words))
  BY <1>3, <1>5, FS_Product
<1>7. UNION {{x} \X Likeness(x, words) : x \in {t}} = {t} \X Likeness(t, words)
  OBVIOUS
<1>8. Points({t}, words) = Cardinality({t} \X Likeness(t, words))
  BY <1>7 DEF Points
<1> QED BY <1>3, <1>4, <1>5, <1>6, <1>8

(* The tenths of the likelier words are more, one by one.                  *)
LEMMA LikenessIsNested ==
  ASSUME NEW t, NEW v, NEW w, \A x \in v : Match[<<t, x>>] \in Nat, \A x \in w : Match[<<t, x>>] \in Nat,
         Points({t}, v) >= Points({t}, w)
  PROVE  Likeness(t, w) \subseteq Likeness(t, v)
<1> DEFINE Lv == Likeness(t, v)
           Lw == Likeness(t, w)
<1> SUFFICES ASSUME NEW k \in Lw, k \notin Lv PROVE FALSE
  OBVIOUS
<1>1. k \in 1 .. 10 /\ \E x \in w : k <= Match[<<t, x>>]
  BY DEF Likeness
<1>2. \A i \in 1 .. k : i \in Lw
  BY <1>1 DEF Likeness
<1>3. \A i \in Lv : i \in 1 .. k - 1
  <2>1. ASSUME NEW i \in Lv, i >= k PROVE FALSE
    <3>1. PICK x \in v : i \in 1 .. 10 /\ i <= Match[<<t, x>>]
      BY DEF Likeness
    <3>2. Match[<<t, x>>] \in Nat /\ k <= Match[<<t, x>>]
      BY <1>1, <2>1, <3>1
    <3> QED BY <1>1, <3>2 DEF Likeness
  <2>2. \A i \in Lv : i \in 1 .. 10
    BY DEF Likeness
  <2> HIDE DEF Lv
  <2> QED BY <1>1, <2>1, <2>2
<1> HIDE DEF Lv, Lw
<1>4. IsFiniteSet(Lv) /\ IsFiniteSet(Lw) /\ Cardinality(Lv) \in Nat /\ Cardinality(Lw) \in Nat
  BY PointsOfAWord DEF Lv, Lw
<1>5. IsFiniteSet(1 .. k) /\ Cardinality(1 .. k) = k
  <2>1. 1 \in Int /\ k \in Int /\ k - 1 + 1 = k /\ ~(1 > k)
    BY <1>1
  <2> QED BY <2>1, FS_Interval
<1>6. IsFiniteSet(1 .. k - 1) /\ Cardinality(1 .. k - 1) = k - 1
  <2>1. 1 \in Int /\ k - 1 \in Int /\ (k - 1) - 1 + 1 = k - 1 /\ (1 > k - 1 => k - 1 = 0)
    BY <1>1
  <2> QED BY <2>1, FS_Interval
<1>7. Cardinality(Lw) >= k
  <2>1. 1 .. k \subseteq Lw
    BY <1>2
  <2>2. Cardinality(1 .. k) <= Cardinality(Lw)
    BY <1>4, <2>1, FS_Subset
  <2> QED BY <1>1, <1>4, <1>5, <2>2
<1>8. Cardinality(Lv) <= k - 1
  <2>1. Lv \subseteq 1 .. k - 1
    BY <1>3
  <2>2. Cardinality(Lv) <= Cardinality(1 .. k - 1)
    BY <1>6, <2>1, FS_Subset
  <2> QED BY <1>1, <1>6, <2>2
<1>9. Cardinality(Lv) >= Cardinality(Lw)
  BY PointsOfAWord DEF Lv, Lw
<1> QED BY <1>1, <1>4, <1>7, <1>8, <1>9

(* Words that are each at least as like the question have as many points,  *)
(* and more when one is more like it.                                      *)
LEMMA LikerWordsHaveMore ==
  ASSUME NEW tokens, IsFiniteSet(tokens), NEW v, NEW w,
         \A t \in tokens : \A x \in v \cup w : Match[<<t, x>>] \in Nat,
         \A t \in tokens : Points({t}, v) >= Points({t}, w)
  PROVE  /\ Points(tokens, v) >= Points(tokens, w)
         /\ (\E t \in tokens : ~(Points({t}, w) >= Points({t}, v))) => Points(tokens, v) > Points(tokens, w)
<1> DEFINE All(u) == UNION {{t} \X Likeness(t, u) : t \in tokens}
<1>1. \A u : IsFiniteSet(All(u)) /\ Points(tokens, u) \in Nat
  BY LikenessIsFinite
<1>2. \A u : Points(tokens, u) = Cardinality(All(u))
  BY DEF Points
<1>3. \A t \in tokens : Likeness(t, w) \subseteq Likeness(t, v)
  <2>1. ASSUME NEW t \in tokens PROVE Likeness(t, w) \subseteq Likeness(t, v)
    <3>1. (\A x \in v : Match[<<t, x>>] \in Nat) /\ (\A x \in w : Match[<<t, x>>] \in Nat)
      OBVIOUS
    <3>2. \A x \in v : Match[<<t, x>>] \in Nat
      BY <3>1
    <3>3. \A x \in w : Match[<<t, x>>] \in Nat
      BY <3>1
    <3> QED BY <3>2, <3>3, LikenessIsNested
  <2> QED BY <2>1
<1>4. All(w) \subseteq All(v)
  BY <1>3
<1>5. ASSUME NEW t \in tokens, ~(Points({t}, w) >= Points({t}, v)) PROVE All(w) # All(v)
  <2>1. Likeness(t, w) # Likeness(t, v)
    <3>1. /\ Points({t}, w) = Cardinality(Likeness(t, w)) /\ Points({t}, v) = Cardinality(Likeness(t, v))
          /\ Cardinality(Likeness(t, w)) \in Nat
      BY PointsOfAWord
    <3>2. CASE Likeness(t, w) = Likeness(t, v)
      <4>1. Points({t}, w) = Points({t}, v) /\ Points({t}, w) \in Nat
        BY <3>1, <3>2
      <4> QED BY <1>5, <4>1
    <3> QED BY <3>2
  <2>2. PICK k \in Likeness(t, v) : k \notin Likeness(t, w)
    BY <1>3, <2>1
  <2>3. <<t, k>> \in All(v)
    BY <2>2
  <2>4. <<t, k>> \notin All(w)
    <3>1. \A s : <<t, k>> \in {s} \X Likeness(s, w) => s = t
      OBVIOUS
    <3> QED BY <2>2, <3>1
  <2> QED BY <2>3, <2>4
<1> HIDE DEF All
<1>6. Cardinality(All(w)) <= Cardinality(All(v))
  BY <1>1, <1>4, FS_Subset
<1>7. All(w) # All(v) => Cardinality(All(w)) # Cardinality(All(v))
  BY <1>1, <1>4, FS_Subset
<1>8. Points(tokens, v) \in Nat /\ Points(tokens, w) \in Nat
  BY <1>1
<1>9. Cardinality(All(v)) = Points(tokens, v) /\ Cardinality(All(w)) = Points(tokens, w)
  BY <1>2
<1>10. ASSUME NEW t \in tokens, ~(Points({t}, w) >= Points({t}, v)) PROVE Points(tokens, v) > Points(tokens, w)
  BY <1>5, <1>6, <1>7, <1>8, <1>9, <1>10
<1> QED BY <1>6, <1>8, <1>9, <1>10

(* A node more like the question has more points.                          *)
LEMMA LikerNodesHaveMore ==
  ASSUME NEW q \in Questions, q.about = "search", NEW a \in Range(q.nodes), NEW b \in Range(q.nodes)
  PROVE  /\ PointsOf(a, q.tokens) \in Nat
         /\ AsLike(a, b, q.tokens) /\ ~AsLike(b, a, q.tokens) => PointsOf(a, q.tokens) > PointsOf(b, q.tokens)
<1> DEFINE T == q.tokens
           Word(n) == IF n.kind = "file" /\ n.stem \in T THEN 60 ELSE 0
<1>1. /\ IsFiniteSet(T)
      /\ \A n \in Range(q.nodes), t \in T : \A w \in n.words \cup n.path \cup n.sig : Match[<<t, w>>] \in Nat
  BY RetrievalAssumption DEF IsQuestion
<1>2. \A u : Points(T, u) \in Nat
  BY <1>1, LikenessIsFinite
<1>3. \A n : Word(n) \in {0, 60}
  OBVIOUS
<1>4. \A n : PointsOf(n, T) = 8 * Points(T, n.words) + 5 * Points(T, n.path) + 2 * Points(T, n.sig) + Word(n)
  BY DEF PointsOf
<1>5. \A n : PointsOf(n, T) \in Nat
  BY <1>2, <1>3, <1>4
<1>6. ASSUME AsLike(a, b, T), ~AsLike(b, a, T) PROVE PointsOf(a, T) > PointsOf(b, T)
  <2>1. /\ \A t \in T : Points({t}, a.words) >= Points({t}, b.words)
        /\ \A t \in T : Points({t}, a.path) >= Points({t}, b.path)
        /\ \A t \in T : Points({t}, a.sig) >= Points({t}, b.sig)
        /\ (b.kind = "file" /\ b.stem \in T) => (a.kind = "file" /\ a.stem \in T)
    BY <1>6, Zenon DEF AsLike
  <2>2. \/ \E t \in T : ~(Points({t}, b.words) >= Points({t}, a.words))
        \/ \E t \in T : ~(Points({t}, b.path) >= Points({t}, a.path))
        \/ \E t \in T : ~(Points({t}, b.sig) >= Points({t}, a.sig))
        \/ ~((a.kind = "file" /\ a.stem \in T) => (b.kind = "file" /\ b.stem \in T))
    BY <1>6, Zenon DEF AsLike
  <2>3. /\ \A t \in T : \A x \in a.words \cup b.words : Match[<<t, x>>] \in Nat
        /\ \A t \in T : \A x \in a.path \cup b.path : Match[<<t, x>>] \in Nat
        /\ \A t \in T : \A x \in a.sig \cup b.sig : Match[<<t, x>>] \in Nat
    BY <1>1
  <2>4. /\ Points(T, a.words) >= Points(T, b.words)
        /\ (\E t \in T : ~(Points({t}, b.words) >= Points({t}, a.words))) => Points(T, a.words) > Points(T, b.words)
    <3>1. \A t \in T : \A x \in a.words \cup b.words : Match[<<t, x>>] \in Nat
      BY <2>3
    <3>2. \A t \in T : Points({t}, a.words) >= Points({t}, b.words)
      BY <2>1
    <3> HIDE DEF T
    <3> QED BY <1>1, <3>1, <3>2, LikerWordsHaveMore
  <2>5. /\ Points(T, a.path) >= Points(T, b.path)
        /\ (\E t \in T : ~(Points({t}, b.path) >= Points({t}, a.path))) => Points(T, a.path) > Points(T, b.path)
    <3>1. \A t \in T : \A x \in a.path \cup b.path : Match[<<t, x>>] \in Nat
      BY <2>3
    <3>2. \A t \in T : Points({t}, a.path) >= Points({t}, b.path)
      BY <2>1
    <3> HIDE DEF T
    <3> QED BY <1>1, <3>1, <3>2, LikerWordsHaveMore
  <2>6. /\ Points(T, a.sig) >= Points(T, b.sig)
        /\ (\E t \in T : ~(Points({t}, b.sig) >= Points({t}, a.sig))) => Points(T, a.sig) > Points(T, b.sig)
    <3>1. \A t \in T : \A x \in a.sig \cup b.sig : Match[<<t, x>>] \in Nat
      BY <2>3
    <3>2. \A t \in T : Points({t}, a.sig) >= Points({t}, b.sig)
      BY <2>1
    <3> HIDE DEF T
    <3> QED BY <1>1, <3>1, <3>2, LikerWordsHaveMore
  <2>7. Word(a) >= Word(b)
    BY <2>1
  <2>8. ~((a.kind = "file" /\ a.stem \in T) => (b.kind = "file" /\ b.stem \in T)) => Word(a) > Word(b)
    OBVIOUS
  <2>9. /\ Points(T, a.words) \in Nat /\ Points(T, b.words) \in Nat /\ Points(T, a.path) \in Nat
        /\ Points(T, b.path) \in Nat /\ Points(T, a.sig) \in Nat /\ Points(T, b.sig) \in Nat
        /\ Word(a) \in Nat /\ Word(b) \in Nat
    BY <1>2, <1>3
  <2>10. \/ Points(T, a.words) > Points(T, b.words) \/ Points(T, a.path) > Points(T, b.path)
         \/ Points(T, a.sig) > Points(T, b.sig) \/ Word(a) > Word(b)
    BY <2>2, <2>4, <2>5, <2>6, <2>8, Zenon
  <2> HIDE DEF Word, T
  <2>11. 8 * Points(T, a.words) + 5 * Points(T, a.path) + 2 * Points(T, a.sig) + Word(a)
           > 8 * Points(T, b.words) + 5 * Points(T, b.path) + 2 * Points(T, b.sig) + Word(b)
    BY <2>4, <2>5, <2>6, <2>7, <2>9, <2>10
  <2> QED BY <1>4, <2>11
<1> QED BY <1>5, <1>6

(* The search finds the nodes of the very name, or the likest (_find_seeds). *)
LEMMA SearchIsExact ==
  ASSUME NEW q \in Questions, q.about = "search", result = Answer(q)
  PROVE  SearchIsRight(q, result)
<1> DEFINE exactAt == {i \in DOMAIN q.nodes : q.nodes[i].kind # "file" /\ q.nodes[i].name = q.word}
           exact == {n \in Range(q.nodes) : n.kind # "file" /\ n.name = q.word}
           likely == {i \in DOMAIN q.nodes : PointsOf(q.nodes[i], q.tokens) > 0}
           rank == [i \in likely |-> <<-PointsOf(q.nodes[i], q.tokens), q.nodes[i].place, i>>]
           best == UpTo(Ranking(likely, rank), MaxFound)
           Index(n) == IF n \in Range(result) THEN CHOOSE i \in DOMAIN result : result[i] = n ELSE Len(result) + 1
<1>1. q.nodes \in Seq(CodeNodes) /\ IsInjective(q.nodes) /\ MaxFound \in Nat
  BY RetrievalAssumption DEF IsQuestion, IsList
<1>2. DOMAIN q.nodes = 1 .. Len(q.nodes) /\ Len(q.nodes) \in Nat
  BY <1>1, LenProperties
<1>3. exact = {q.nodes[i] : i \in exactAt}
  BY DEF Range
<1>4. result = IF exactAt # {} THEN AtPositions(q.nodes, exactAt) ELSE NodesAt(q, best)
  BY DEF Answer, Search
<1>5. CASE exact # {}
  <2>1. exactAt # {} /\ exactAt \in SUBSET DOMAIN q.nodes
    BY <1>3, <1>5
  <2>2. Range(AtPositions(q.nodes, exactAt)) = exact
    <3> HIDE DEF exactAt, exact
    <3> QED BY <1>1, <1>3, <2>1, KeptElements
  <2>3. Range(result) = exact
    BY <1>4, <2>1, <2>2
  <2> QED BY <1>5, <2>3 DEF SearchIsRight
<1>6. CASE exact = {}
  <2>1. result = NodesAt(q, best)
    BY <1>3, <1>4, <1>6
  <2>2. \A i \in DOMAIN q.nodes : q.nodes[i] \in Range(q.nodes) /\ q.nodes[i] \in CodeNodes
    BY <1>1, <1>2, ElementOfSeq DEF Range
  <2>3. \A i \in DOMAIN q.nodes : PointsOf(q.nodes[i], q.tokens) \in Nat
    BY <2>2, LikerNodesHaveMore
  <2>4. \A i \in likely : i \in Int /\ q.nodes[i].place \in Int /\ -PointsOf(q.nodes[i], q.tokens) \in Int
    BY <1>2, <2>2, <2>3 DEF CodeNodes
  <2>5. IsFiniteSet(likely)
    <3>1. IsFiniteSet(DOMAIN q.nodes)
      <4>1. 1 \in Int /\ Len(q.nodes) \in Int
        BY <1>2
      <4> QED BY <1>2, <4>1, FS_Interval
    <3> QED BY <3>1, FS_Subset
  <2>6. RanksApart(likely, rank, 3)
    <3>1. 1 .. 3 = {1, 2, 3}
      OBVIOUS
    <3>2. \A i \in likely : DOMAIN rank[i] = 1 .. 3 /\ \A k \in {1, 2, 3} : rank[i][k] \in Int
      BY <2>4
    <3>3. \A i \in likely : rank[i][3] = i
      OBVIOUS
    <3> HIDE DEF rank, likely
    <3> QED BY <3>1, <3>2, <3>3 DEF RanksApart
  <2> HIDE DEF best
  <2>7. /\ best \in Seq(likely) /\ IsInjective(best) /\ DOMAIN best = 1 .. Len(best)
        /\ Len(best) = Smaller(MaxFound, Cardinality(likely)) /\ Cardinality(likely) \in Nat
        /\ \A j, k \in DOMAIN best : j < k => LowerRank(rank[best[j]], rank[best[k]])
        /\ \A x \in likely \ Range(best) : \A k \in DOMAIN best : LowerRank(rank[best[k]], rank[x])
    <3> HIDE DEF likely, rank
    <3>1. 3 \in Nat
      OBVIOUS
    <3>2. best = UpTo(Ranking(likely, rank), MaxFound)
      BY DEF best
    <3>3. MaxFound \in Nat
      BY <1>1
    <3>4. BestFirst(likely, rank, MaxFound, best)
      BY <2>5, <2>6, <3>1, <3>2, <3>3, BestComeFirst
    <3> QED BY <3>4 DEF BestFirst
  <2>8. Len(best) \in Nat /\ Len(best) <= MaxFound
    BY <1>1, <2>7 DEF Smaller
  <2>9. \A k \in DOMAIN best : best[k] \in likely /\ best[k] \in DOMAIN q.nodes
    BY <2>7, ElementOfSeq
  <2>10. DOMAIN result = DOMAIN best /\ \A k \in DOMAIN best : result[k] = q.nodes[best[k]]
    BY <2>1 DEF NodesAt
  <2>11. Len(result) = Len(best)
    <3>1. result = [k \in 1 .. Len(best) |-> q.nodes[best[k]]]
      BY <2>1, <2>7 DEF NodesAt
    <3> QED BY <2>8, <3>1
  <2>12. \A i, j \in likely : LowerRank(rank[i], rank[j]) =>
           PointsOf(q.nodes[i], q.tokens) >= PointsOf(q.nodes[j], q.tokens)
    <3>1. ASSUME NEW i \in likely, NEW j \in likely, LowerRank(rank[i], rank[j])
          PROVE  PointsOf(q.nodes[i], q.tokens) >= PointsOf(q.nodes[j], q.tokens)
      <4>1. rank[i][1] = -PointsOf(q.nodes[i], q.tokens) /\ rank[j][1] = -PointsOf(q.nodes[j], q.tokens)
        OBVIOUS
      <4>2. DOMAIN rank[i] = 1 .. 3
        OBVIOUS
      <4>3. PICK c \in 1 .. 3 : rank[i][c] < rank[j][c] /\ \A d \in 1 .. c - 1 : rank[i][d] = rank[j][d]
        <5> HIDE DEF rank
        <5> QED BY <3>1, <4>2 DEF LowerRank
      <4>4. c # 1 => 1 \in 1 .. c - 1
        OBVIOUS
      <4>5. rank[i][1] < rank[j][1] \/ rank[i][1] = rank[j][1]
        <5> HIDE DEF rank
        <5> QED BY <4>3, <4>4
      <4>6. PointsOf(q.nodes[i], q.tokens) \in Nat /\ PointsOf(q.nodes[j], q.tokens) \in Nat
        BY <2>3
      <4> HIDE DEF rank
      <4> QED BY <4>1, <4>5, <4>6
    <3> QED BY <3>1
  <2>13. ASSUME NEW b \in Range(result), NEW a \in Range(q.nodes), AsLike(a, b, q.tokens), ~AsLike(b, a, q.tokens)
         PROVE  Index(a) < Index(b)
    <3>1. PICK k \in DOMAIN best : b = q.nodes[best[k]]
      BY <2>10 DEF Range
    <3>2. PICK i \in DOMAIN q.nodes : a = q.nodes[i]
      BY DEF Range
    <3>3. best[k] \in likely /\ b \in Range(q.nodes)
      BY <2>2, <2>9, <3>1
    <3>4. PointsOf(a, q.tokens) > PointsOf(b, q.tokens)
      BY <2>13, <3>3, LikerNodesHaveMore
    <3>5. PointsOf(b, q.tokens) > 0
      BY <3>1, <3>3
    <3>6. PointsOf(a, q.tokens) \in Nat /\ PointsOf(b, q.tokens) \in Nat
      BY <2>3, <2>9, <3>1, <3>2
    <3>7. i \in likely
      <4> HIDE DEF rank
      <4> QED BY <3>2, <3>4, <3>5, <3>6
    <3>8. ~LowerRank(rank[best[k]], rank[i])
      <4>1. ~(PointsOf(q.nodes[best[k]], q.tokens) >= PointsOf(q.nodes[i], q.tokens))
        BY <3>1, <3>2, <3>4, <3>6
      <4> HIDE DEF likely, rank
      <4> QED BY <2>12, <3>3, <3>7, <4>1
    <3> HIDE DEF likely, rank
    <3>9. PICK m \in DOMAIN best : best[m] = i
      BY <2>7, <3>7, <3>8 DEF Range
    <3>10. m < k
      <4>1. ~(k < m)
        BY <2>7, <3>8, <3>9
      <4>2. k # m
        BY <3>1, <3>2, <3>4, <3>6, <3>9
      <4> QED BY <2>7, <2>8, <4>1, <4>2
    <3>11. ASSUME NEW x \in DOMAIN best PROVE Index(result[x]) = x
      <4>1. result[x] \in Range(result)
        BY <2>10 DEF Range
      <4>2. \A y \in DOMAIN result : result[y] = result[x] => y = x
        BY <1>1, <2>7, <2>9, <2>10 DEF IsInjective
      <4>3. x \in DOMAIN result
        BY <2>10
      <4> QED BY <4>1, <4>2, <4>3
    <3>12. Index(a) = m /\ Index(b) = k
      BY <2>10, <3>1, <3>2, <3>9, <3>11
    <3> QED BY <3>10, <3>12
  <2> HIDE DEF exact
  <2> QED BY <1>6, <2>8, <2>11, <2>13 DEF SearchIsRight, exact
<1> QED BY <1>5, <1>6

(* Lower ranks have no greater first number.                               *)
LEMMA FirstComesFirst ==
  ASSUME NEW a, NEW b, NEW m \in Nat \ {0}, DOMAIN a = 1 .. m, a[1] \in Int, b[1] \in Int, LowerRank(a, b)
  PROVE  a[1] <= b[1]
<1>1. PICK c \in 1 .. m : a[c] < b[c] /\ \A d \in 1 .. c - 1 : a[d] = b[d]
  BY DEF LowerRank
<1>2. c # 1 => 1 \in 1 .. c - 1
  OBVIOUS
<1>3. a[1] < b[1] \/ a[1] = b[1]
  BY <1>1, <1>2
<1> QED BY <1>3

(* A node's tier is how far it is from where the question starts.          *)
Distance(q, n) == IF n.id \in SeedIds(q) THEN 0
                  ELSE IF \E s \in SeedIds(q) : <<s, n.id>> \in q.edges \/ <<n.id, s>> \in q.edges THEN 1 ELSE 2

(* The tier that a node is given is its distance (rank_nodes).             *)
LEMMA TierIsDistance ==
  ASSUME NEW q, q.edges \subseteq STRING \X STRING, NEW n
  PROVE  Tier(q, n) = Distance(q, n) /\ Tier(q, n) \in 0 .. 2
<1>1. CASE n.id \in SeedIds(q)
  <2>1. Tier(q, n) = 0
    BY <1>1 DEF Tier
  <2> QED BY <1>1, <2>1 DEF Distance
<1>2. CASE n.id \notin SeedIds(q)
  <2> DEFINE Next == \E e \in Adjacent(q, n) : {e[1], e[2]} \cap SeedIds(q) # {}
             Beside == \E s \in SeedIds(q) : <<s, n.id>> \in q.edges \/ <<n.id, s>> \in q.edges
  <2>1. Tier(q, n) = IF Next THEN 1 ELSE 2
    BY <1>2 DEF Tier
  <2>2. Distance(q, n) = IF Beside THEN 1 ELSE 2
    BY <1>2 DEF Distance
  <2>3. ASSUME Next PROVE Beside
    <3>1. PICK e \in Adjacent(q, n) : {e[1], e[2]} \cap SeedIds(q) # {}
      BY <2>3
    <3>2. e \in q.edges /\ e = <<e[1], e[2]>> /\ (n.id = e[1] \/ n.id = e[2])
      BY DEF Adjacent
    <3>3. e[1] \in SeedIds(q) \/ e[2] \in SeedIds(q)
      BY <3>1
    <3>4. CASE e[1] \in SeedIds(q)
      <4>1. n.id = e[2]
        BY <1>2, <3>2, <3>4
      <4> QED BY <3>2, <3>4, <4>1
    <3>5. CASE e[2] \in SeedIds(q)
      <4>1. n.id = e[1]
        BY <1>2, <3>2, <3>5
      <4> QED BY <3>2, <3>5, <4>1
    <3> QED BY <3>3, <3>4, <3>5
  <2>4. ASSUME Beside PROVE Next
    <3>1. PICK s \in SeedIds(q) : <<s, n.id>> \in q.edges \/ <<n.id, s>> \in q.edges
      BY <2>4
    <3>2. CASE <<s, n.id>> \in q.edges
      <4>1. <<s, n.id>>[1] = s /\ <<s, n.id>>[2] = n.id
        OBVIOUS
      <4>2. <<s, n.id>> \in Adjacent(q, n)
        BY <3>2, <4>1 DEF Adjacent
      <4> QED BY <4>1, <4>2
    <3>3. CASE <<n.id, s>> \in q.edges
      <4>1. <<n.id, s>>[1] = n.id /\ <<n.id, s>>[2] = s
        OBVIOUS
      <4>2. <<n.id, s>> \in Adjacent(q, n)
        BY <3>3, <4>1 DEF Adjacent
      <4> QED BY <4>1, <4>2
    <3> QED BY <3>1, <3>2, <3>3
  <2> HIDE DEF Next, Beside
  <2> QED BY <2>1, <2>2, <2>3, <2>4
<1> QED BY <1>1, <1>2

(* What ranks a node is a tuple of numbers (_rank_nodes).                  *)
LEMMA RankIsATuple ==
  ASSUME NEW q \in Questions, q.about = "rank", NEW i \in DOMAIN q.nodes
  PROVE  /\ DOMAIN RankOf(q, i) = 1 .. 8 /\ \A k \in 1 .. 8 : RankOf(q, i)[k] \in Int
         /\ RankOf(q, i)[1] = Tier(q, q.nodes[i]) /\ RankOf(q, i)[8] = i
<1> DEFINE n == q.nodes[i]
<1>1. /\ q.nodes \in Seq(CodeNodes) /\ q.seeds \in Seq(STRING) /\ q.edges \subseteq STRING \X STRING
      /\ IsFiniteSet(q.tokens) /\ IsFiniteSet(q.edges) /\ Bands \in Seq(STRING)
  BY RetrievalAssumption DEF IsQuestion
<1>2. i \in Int
  BY <1>1, LenProperties
<1>3. n.place \in Int
  <2>1. n \in CodeNodes
    BY <1>1, ElementOfSeq, LenProperties
  <2> HIDE DEF n
  <2> QED BY <2>1 DEF CodeNodes
<1>4. Tier(q, n) \in Int
  BY <1>1, TierIsDistance
<1>5. Position(q, n) \in Int
  <2> DEFINE T == {k \in DOMAIN q.seeds : q.seeds[k] = n.id}
  <2>1. DOMAIN q.seeds = 1 .. Len(q.seeds) /\ Len(q.seeds) \in Nat
    BY <1>1, LenProperties
  <2>2. CASE n.id \in SeedIds(q)
    <3>1. T \in SUBSET Nat /\ T # {}
      BY <2>1, <2>2 DEF SeedIds
    <3>2. IsFiniteSet(T)
      <4>1. 1 \in Int /\ Len(q.seeds) \in Int
        BY <2>1
      <4>2. IsFiniteSet(DOMAIN q.seeds)
        BY <2>1, <4>1, FS_Interval
      <4> QED BY <4>2, FS_Subset
    <3>3. Position(q, n) = Max(T)
      BY <2>2 DEF Position
    <3> HIDE DEF T
    <3>4. Max(T) \in T
      BY <3>1, <3>2, GreatestNatural
    <3>5. \A x \in T : x \in Int
      BY <3>1
    <3>6. Max(T) \in Int
      BY <3>4, <3>5, Zenon
    <3> QED BY <3>3, <3>6, Zenon
  <2>3. CASE n.id \notin SeedIds(q)
    BY <2>1, <2>3 DEF Position
  <2> QED BY <2>2, <2>3
<1>6. -Cardinality(n.words \cap q.tokens) \in Int
  <2>1. Cardinality(n.words \cap q.tokens) \in Nat
    <3>1. n.words \cap q.tokens \in SUBSET q.tokens
      OBVIOUS
    <3>2. IsFiniteSet(n.words \cap q.tokens)
      BY <1>1, <3>1, FS_Subset
    <3> QED BY <3>2, FS_CardinalityType
  <2> QED BY <2>1
<1>7. -Cardinality(Adjacent(q, n)) \in Int
  <2>1. Cardinality(Adjacent(q, n)) \in Nat
    <3>1. Adjacent(q, n) \in SUBSET q.edges
      BY DEF Adjacent
    <3>2. IsFiniteSet(Adjacent(q, n))
      BY <1>1, <3>1, FS_Subset
    <3> QED BY <3>2, FS_CardinalityType
  <2> QED BY <2>1
<1>8. Band(n) \in Int
  <2>1. DOMAIN Bands = 1 .. Len(Bands) /\ Len(Bands) \in Nat
    BY <1>1, LenProperties
  <2>2. \A k \in DOMAIN Bands : k \in Int
    BY <2>1
  <2>3. CASE \E k \in DOMAIN Bands : Bands[k] = n.kind
    <3>1. Band(n) = CHOOSE k \in DOMAIN Bands : Bands[k] = n.kind
      BY <2>3 DEF Band
    <3> QED BY <2>2, <2>3, <3>1
  <2>4. CASE ~ \E k \in DOMAIN Bands : Bands[k] = n.kind
    BY <2>1, <2>4 DEF Band
  <2> QED BY <2>3, <2>4
<1>9. RankOf(q, i) = <<Tier(q, n), IF n.old THEN 1 ELSE 0, Position(q, n), -Cardinality(n.words \cap q.tokens),
                       -Cardinality(Adjacent(q, n)), Band(n), n.place, i>>
  BY DEF RankOf
<1> HIDE DEF n
<1>10. 1 .. 8 = {1, 2, 3, 4, 5, 6, 7, 8}
  OBVIOUS
<1>11. DOMAIN RankOf(q, i) = 1 .. 8
  BY <1>9
<1>12. \A k \in {1, 2, 3, 4, 5, 6, 7, 8} : RankOf(q, i)[k] \in Int
  BY <1>2, <1>3, <1>4, <1>5, <1>6, <1>7, <1>8, <1>9
<1>13. RankOf(q, i)[1] = Tier(q, n) /\ RankOf(q, i)[8] = i
  BY <1>9
<1> QED BY <1>10, <1>11, <1>12, <1>13 DEF n

(* What a question starts from is never ranked behind its surroundings.    *)
LEMMA RankIsByDistance ==
  ASSUME NEW q \in Questions, q.about = "rank", result = Answer(q)
  PROVE  RankKeepsDistance(q, result)
<1> DEFINE P == DOMAIN q.nodes
           rank == [i \in P |-> RankOf(q, i)]
           best == UpTo(Ranking(P, rank), q.limit)
<1>1. /\ q.nodes \in Seq(CodeNodes) /\ q.edges \subseteq STRING \X STRING /\ q.limit \in Nat
  BY RetrievalAssumption DEF IsQuestion
<1>2. IsFiniteSet(P)
  <2>1. P = 1 .. Len(q.nodes) /\ 1 \in Int /\ Len(q.nodes) \in Int
    BY <1>1, LenProperties
  <2> QED BY <2>1, FS_Interval
<1>3. RanksApart(P, rank, 8)
  <2>1. \A i \in P : /\ DOMAIN rank[i] = 1 .. 8 /\ \A k \in 1 .. 8 : rank[i][k] \in Int
                     /\ rank[i][8] = i
    BY RankIsATuple
  <2>2. 8 \in 1 .. 8
    OBVIOUS
  <2> HIDE DEF rank, P
  <2> QED BY <2>1, <2>2 DEF RanksApart
<1>4. result = NodesAt(q, best)
  BY DEF Answer, Rank
<1>5. BestFirst(P, rank, q.limit, best)
  <2> HIDE DEF P, rank
  <2>1. 8 \in Nat
    OBVIOUS
  <2> QED BY <1>1, <1>2, <1>3, <2>1, BestComeFirst
<1> HIDE DEF best
<1>6. /\ best \in Seq(P) /\ DOMAIN best = 1 .. Len(best)
      /\ \A j, k \in DOMAIN best : j < k => LowerRank(rank[best[j]], rank[best[k]])
      /\ \A x \in P \ Range(best) : \A k \in DOMAIN best : LowerRank(rank[best[k]], rank[x])
  BY <1>5 DEF BestFirst
<1>7. \A k \in DOMAIN best : best[k] \in P
  BY <1>6, ElementOfSeq
<1>8. DOMAIN result = DOMAIN best /\ \A k \in DOMAIN best : result[k] = q.nodes[best[k]]
  BY <1>4 DEF NodesAt
<1>9. ASSUME NEW i \in P, NEW j \in P, LowerRank(rank[i], rank[j])
      PROVE  Distance(q, q.nodes[i]) <= Distance(q, q.nodes[j])
  <2>1. /\ DOMAIN rank[i] = 1 .. 8 /\ rank[i][1] = Tier(q, q.nodes[i]) /\ rank[j][1] = Tier(q, q.nodes[j])
    BY RankIsATuple
  <2>2. /\ Tier(q, q.nodes[i]) = Distance(q, q.nodes[i]) /\ Tier(q, q.nodes[i]) \in 0 .. 2
        /\ Tier(q, q.nodes[j]) = Distance(q, q.nodes[j]) /\ Tier(q, q.nodes[j]) \in 0 .. 2
    BY <1>1, TierIsDistance
  <2>3. rank[i][1] \in Int /\ rank[j][1] \in Int
    BY <2>1, <2>2
  <2>4. 8 \in Nat \ {0}
    OBVIOUS
  <2> HIDE DEF rank
  <2>5. rank[i][1] <= rank[j][1]
    BY <1>9, <2>1, <2>3, <2>4, FirstComesFirst
  <2> QED BY <2>1, <2>2, <2>5
<1> HIDE DEF rank
<1>10. \A i, j \in DOMAIN result : i < j => Distance(q, result[i]) <= Distance(q, result[j])
  BY <1>6, <1>7, <1>8, <1>9
<1>11. ASSUME NEW m \in Range(q.nodes) \ Range(result), NEW n \in Range(result)
       PROVE  Distance(q, n) <= Distance(q, m)
  <2>1. PICK x \in P : m = q.nodes[x]
    BY DEF Range
  <2>2. x \notin Range(best)
    BY <1>8, <2>1 DEF Range
  <2>3. PICK k \in DOMAIN best : n = q.nodes[best[k]]
    BY <1>8 DEF Range
  <2> QED BY <1>6, <1>7, <1>9, <2>1, <2>2, <2>3
<1> QED BY <1>10, <1>11 DEF RankKeepsDistance, Distance

(* There are n numbers from 1 to n.                                        *)
LEMMA CountTo ==
  ASSUME NEW n \in Nat
  PROVE  IsFiniteSet(1 .. n) /\ Cardinality(1 .. n) = n
<1>1. 1 \in Int /\ n \in Int /\ n - 1 + 1 = n /\ (1 > n => n = 0)
  OBVIOUS
<1> QED BY <1>1, FS_Interval

(* A set of numbers from 1 on without a gap is known by its size.          *)
LEMMA WithoutAGap ==
  ASSUME NEW n \in Nat, NEW T \in SUBSET (1 .. n), \A i \in T : \A j \in 1 .. i : j \in T
  PROVE  IsFiniteSet(T) /\ Cardinality(T) \in Nat /\ T = 1 .. Cardinality(T)
<1> DEFINE M == {k \in Nat : k + 1 \notin T}
<1>1. M \in SUBSET Nat /\ M # {}
  <2>1. n \in M
    OBVIOUS
  <2> QED BY <2>1
<1>2. PICK m \in M : \A k \in M : m <= k
  <2> HIDE DEF M
  <2> QED BY <1>1, LeastNatural
<1>3. m \in Nat /\ m + 1 \notin T
  BY <1>2
<1>4. ASSUME NEW j \in 1 .. m PROVE j \in T
  <2>1. j - 1 \in Nat /\ j - 1 < m /\ j - 1 + 1 = j
    BY <1>3
  <2>2. j - 1 \notin M
    BY <1>2, <1>3, <2>1
  <2> QED BY <2>1, <2>2
<1>5. ASSUME NEW i \in T PROVE i \in 1 .. m
  <2>1. i \in 1 .. n
    OBVIOUS
  <2>2. ~(m + 1 \in 1 .. i)
    BY <1>3
  <2> QED BY <1>3, <2>1, <2>2
<1>6. T = 1 .. m
  BY <1>4, <1>5
<1> QED BY <1>3, <1>6, CountTo

-----------------------------------------------------------------------------
(* The seeds of the files named (_file_seeds).                             *)
LEMMA SeedsOfAFile ==
  ASSUME NEW p, NEW T, IsFiniteSet(T)
  PROVE  /\ IsFiniteSet({<<i, p>> : i \in T}) /\ Cardinality({<<i, p>> : i \in T}) = Cardinality(T)
         /\ Cardinality(T) \in Nat
<1>1. {<<i, p>> : i \in T} = T \X {p}
  OBVIOUS
<1>2. IsFiniteSet({p}) /\ Cardinality({p}) = 1
  BY FS_Singleton
<1>3. IsFiniteSet(T \X {p}) /\ Cardinality(T \X {p}) = Cardinality(T) * Cardinality({p})
  BY <1>2, FS_Product
<1>4. Cardinality(T) \in Nat
  BY FS_CardinalityType
<1> QED BY <1>1, <1>2, <1>3, <1>4

(* The candidates are as many as the files have nodes, all told.           *)
LEMMA SeedsAreCounted ==
  ASSUME NEW q, q.counts \in Seq(Nat)
  PROVE  /\ IsFiniteSet(SeedsOf(q)) /\ Cardinality(SeedsOf(q)) = SumTo(q.counts, Len(q.counts))
         /\ SeedsOf(q) \in SUBSET (Int \X Int)
         /\ \A i, p : <<i, p>> \in SeedsOf(q) <=> p \in DOMAIN q.counts /\ i \in 1 .. q.counts[p]
<1> DEFINE n == Len(q.counts)
           Of(p) == {<<i, p>> : i \in 1 .. q.counts[p]}
           C(k) == UNION {Of(p) : p \in 1 .. k}
           U == {k \in 0 .. n : IsFiniteSet(C(k)) /\ Cardinality(C(k)) = SumTo(q.counts, k)}
<1>1. n \in Nat /\ DOMAIN q.counts = 1 .. n
  BY LenProperties
<1>2. \A p \in 1 .. n : q.counts[p] \in Nat
  BY <1>1, ElementOfSeq
<1>3. /\ SumTo(q.counts, 0) = 0
      /\ \A k \in 0 .. n : SumTo(q.counts, k) \in Nat
      /\ \A k \in 1 .. n : SumTo(q.counts, k) = SumTo(q.counts, k - 1) + q.counts[k]
  BY <1>1, <1>2, SumsAdd
<1>4. 0 \in U
  <2>1. C(0) = {}
    OBVIOUS
  <2>2. 0 \in 0 .. n
    BY <1>1
  <2> HIDE DEF C
  <2> QED BY <1>3, <2>1, <2>2, FS_EmptySet
<1>5. ASSUME NEW k \in 1 .. n, k - 1 \in U PROVE k \in U
  <2>1. IsFiniteSet(C(k - 1)) /\ Cardinality(C(k - 1)) = SumTo(q.counts, k - 1)
    BY <1>5
  <2>2. k \in 0 .. n /\ k - 1 \in 0 .. n /\ q.counts[k] \in Nat
    BY <1>1, <1>2
  <2>3. IsFiniteSet(Of(k)) /\ Cardinality(Of(k)) = q.counts[k]
    <3>1. IsFiniteSet(1 .. q.counts[k]) /\ Cardinality(1 .. q.counts[k]) = q.counts[k]
      BY <2>2, CountTo
    <3> QED BY <3>1, SeedsOfAFile
  <2>4. C(k) = C(k - 1) \cup Of(k)
    <3>1. 1 .. k = 1 .. k - 1 \cup {k}
      OBVIOUS
    <3> HIDE DEF Of
    <3> QED BY <3>1
  <2>5. C(k - 1) \cap Of(k) = {}
    <3>1. ASSUME NEW x \in C(k - 1), x \in Of(k) PROVE FALSE
      <4>1. PICK p \in 1 .. k - 1 : x \in Of(p)
        BY <3>1
      <4>2. x[2] = p
        BY <4>1
      <4>3. x[2] = k
        BY <3>1
      <4> QED BY <4>1, <4>2, <4>3
    <3> QED BY <3>1
  <2> HIDE DEF C, Of
  <2>6. IsFiniteSet(C(k)) /\ Cardinality(C(k)) = Cardinality(C(k - 1)) + Cardinality(Of(k)) - 0
    <3>1. /\ IsFiniteSet(C(k - 1) \cup Of(k))
          /\ Cardinality(C(k - 1) \cup Of(k)) =
               Cardinality(C(k - 1)) + Cardinality(Of(k)) - Cardinality(C(k - 1) \cap Of(k))
      BY <2>1, <2>3, FS_Union
    <3> QED BY <2>4, <2>5, <3>1, FS_EmptySet
  <2>7. SumTo(q.counts, k) = SumTo(q.counts, k - 1) + q.counts[k] /\ SumTo(q.counts, k - 1) \in Nat
    BY <1>3, <2>2
  <2> QED BY <2>1, <2>2, <2>3, <2>6, <2>7
<1>6. n \in U
  <2>1. 0 .. n \subseteq U
    <3> HIDE DEF U, n
    <3> QED BY <1>1, <1>4, <1>5, UpToNumber
  <2>2. n \in 0 .. n
    BY <1>1
  <2> HIDE DEF U
  <2> QED BY <2>1, <2>2
<1>7. SeedsOf(q) = C(n)
  BY <1>1 DEF SeedsOf
<1>8. \A i, p : <<i, p>> \in SeedsOf(q) <=> p \in DOMAIN q.counts /\ i \in 1 .. q.counts[p]
  <2>1. ASSUME NEW i, NEW p, <<i, p>> \in SeedsOf(q) PROVE p \in DOMAIN q.counts /\ i \in 1 .. q.counts[p]
    <3>1. PICK r \in 1 .. n : <<i, p>> \in Of(r)
      BY <1>7, <2>1
    <3>2. PICK j \in 1 .. q.counts[r] : <<i, p>> = <<j, r>>
      BY <3>1
    <3>3. i = j /\ p = r
      BY <3>2
    <3> QED BY <1>1, <3>3
  <2>2. ASSUME NEW i, NEW p, p \in DOMAIN q.counts, i \in 1 .. q.counts[p] PROVE <<i, p>> \in SeedsOf(q)
    BY <1>1, <1>7, <2>2
  <2> QED BY <2>1, <2>2
<1>9. SeedsOf(q) \in SUBSET (Int \X Int)
  <2>1. ASSUME NEW x \in SeedsOf(q) PROVE x \in Int \X Int
    <3>1. PICK r \in 1 .. n : x \in Of(r)
      BY <1>7
    <3>2. PICK j \in 1 .. q.counts[r] : x = <<j, r>>
      BY <3>1
    <3> QED BY <1>1, <3>2
  <2> QED BY <2>1
<1> QED BY <1>6, <1>7, <1>8, <1>9

(* Each of the files named is heard (_file_seeds).                         *)
LEMMA SeedsAreFair ==
  ASSUME NEW q \in Questions, q.about = "seeds", result = Answer(q)
  PROVE  SeedsAreShared(q)
<1> DEFINE P == SeedsOf(q)
           rank == [s \in P |-> s]
           best == UpTo(Ranking(P, rank), MaxSeeds)
           Of(p) == {s \in result : s[2] = p}
           Places(p) == {i \in 1 .. q.counts[p] : <<i, p>> \in result}
<1>1. q.counts \in Seq(Nat) /\ MaxSeeds \in Nat
  BY RetrievalAssumption DEF IsQuestion
<1>2. DOMAIN q.counts = 1 .. Len(q.counts) /\ \A p \in DOMAIN q.counts : p \in Int /\ q.counts[p] \in Nat
  BY <1>1, LenProperties, ElementOfSeq
<1>3. /\ IsFiniteSet(P) /\ Cardinality(P) = SumTo(q.counts, Len(q.counts)) /\ P \in SUBSET (Int \X Int)
      /\ \A i, p : <<i, p>> \in P <=> p \in DOMAIN q.counts /\ i \in 1 .. q.counts[p]
  BY <1>1, SeedsAreCounted
<1>4. result = Range(best)
  BY DEF Answer, Seeds
<1>5. BestFirst(P, rank, MaxSeeds, best)
  <2>1. RanksApart(P, rank, 2) /\ 2 \in Nat
    <3> HIDE DEF P
    <3> QED BY <1>3, PairsApart
  <2> HIDE DEF P, rank
  <2> QED BY <1>1, <1>3, <2>1, BestComeFirst
<1> HIDE DEF P, best
<1>6. /\ best \in Seq(P) /\ DOMAIN best = 1 .. Len(best) /\ Len(best) = Smaller(MaxSeeds, Cardinality(P))
      /\ Cardinality(Range(best)) = Len(best)
      /\ \A x \in P \ Range(best) : \A k \in DOMAIN best : LowerRank(rank[best[k]], rank[x])
  BY <1>5 DEF BestFirst
<1>7. result \subseteq P
  BY <1>4, <1>6, ElementOfSeq DEF Range
<1>8. \A s \in P : s = <<s[1], s[2]>> /\ s[1] \in Int /\ s[2] \in Int
  BY <1>3
<1>9. ASSUME NEW x \in P, x \notin result, NEW s \in result
      PROVE  s[1] <= x[1] /\ (s[2] = x[2] => s[1] < x[1])
  <2>1. PICK k \in DOMAIN best : best[k] = s
    BY <1>4 DEF Range
  <2>2. LowerRank(s, x)
    <3>1. LowerRank(rank[s], rank[x])
      <4> HIDE DEF rank
      <4> QED BY <1>4, <1>6, <1>9, <2>1
    <3> QED BY <1>7, <3>1
  <2>3. DOMAIN s = 1 .. 2 /\ s[1] \in Int /\ s[2] \in Int /\ x[1] \in Int /\ x[2] \in Int
    <3>1. s \in P
      BY <1>7
    <3>2. s = <<s[1], s[2]>>
      BY <1>8, <3>1
    <3> QED BY <1>8, <3>1, <3>2
  <2>4. PICK c \in 1 .. 2 : s[c] < x[c] /\ \A d \in 1 .. c - 1 : s[d] = x[d]
    BY <2>2, <2>3 DEF LowerRank
  <2>5. c = 1 \/ (c = 2 /\ 1 \in 1 .. c - 1)
    OBVIOUS
  <2>6. CASE c = 1
    BY <2>3, <2>4, <2>6
  <2>7. CASE c = 2 /\ 1 \in 1 .. c - 1
    BY <2>3, <2>4, <2>7
  <2> QED BY <2>5, <2>6, <2>7
<1>10. ASSUME NEW p \in DOMAIN q.counts
       PROVE  /\ Of(p) = {<<i, p>> : i \in Places(p)}
              /\ Places(p) = 1 .. Cardinality(Of(p)) /\ Cardinality(Of(p)) \in Nat
  <2>1. Of(p) = {<<i, p>> : i \in Places(p)}
    <3>1. ASSUME NEW s \in Of(p) PROVE s \in {<<i, p>> : i \in Places(p)}
      <4>1. s \in P /\ s[2] = p /\ s \in result
        BY <1>7
      <4>2. s = <<s[1], p>>
        BY <1>8, <4>1
      <4>3. s[1] \in 1 .. q.counts[p]
        BY <1>3, <4>1, <4>2
      <4> QED BY <4>1, <4>2, <4>3
    <3>2. \A i \in Places(p) : <<i, p>> \in Of(p)
      OBVIOUS
    <3> HIDE DEF Of, Places
    <3> QED BY <3>1, <3>2
  <2>2. ASSUME NEW i \in Places(p), NEW j \in 1 .. i PROVE j \in Places(p)
    <3>1. j \in 1 .. q.counts[p] /\ <<i, p>> \in result /\ <<i, p>>[1] = i /\ <<i, p>>[2] = p
      BY <1>2
    <3>2. <<j, p>> \in P /\ <<j, p>>[1] = j /\ <<j, p>>[2] = p
      BY <1>3, <3>1
    <3>3. CASE <<j, p>> \notin result
      <4>1. i < j
        BY <1>9, <3>1, <3>2, <3>3
      <4> QED BY <1>2, <4>1
    <3> QED BY <3>1, <3>3
  <2>3. Places(p) \in SUBSET (1 .. q.counts[p]) /\ q.counts[p] \in Nat
    BY <1>2
  <2> HIDE DEF Places
  <2>4. IsFiniteSet(Places(p)) /\ Cardinality(Places(p)) \in Nat /\ Places(p) = 1 .. Cardinality(Places(p))
    BY <2>2, <2>3, WithoutAGap
  <2>5. Cardinality({<<i, p>> : i \in Places(p)}) = Cardinality(Places(p))
    BY <2>4, SeedsOfAFile
  <2>6. Cardinality(Of(p)) = Cardinality(Places(p))
    BY <2>1, <2>5
  <2> QED BY <2>1, <2>4, <2>6
<1>11. Cardinality(result) = Smaller(MaxSeeds, SumTo(q.counts, Len(q.counts)))
  BY <1>3, <1>4, <1>6
<1>12. \A p \in DOMAIN q.counts : Of(p) = {<<i, p>> : i \in 1 .. Cardinality(Of(p))}
  <2> HIDE DEF Of, Places
  <2> QED BY <1>10
<1>13. ASSUME NEW p \in DOMAIN q.counts, NEW r \in DOMAIN q.counts
       PROVE  Cardinality(Of(p)) + 1 >= Cardinality(Of(r)) \/ Cardinality(Of(p)) = q.counts[p]
  <2> DEFINE c == Cardinality(Of(p))
             d == Cardinality(Of(r))
  <2>1. c \in Nat /\ d \in Nat /\ Places(p) = 1 .. c /\ Places(r) = 1 .. d
    BY <1>10
  <2> SUFFICES ASSUME c # q.counts[p], d > c + 1 PROVE FALSE
    BY <2>1
  <2>2. c <= q.counts[p] /\ q.counts[p] \in Nat
    <3>1. c = 0 \/ c \in 1 .. c
      BY <2>1
    <3>2. c \in 1 .. c => c \in 1 .. q.counts[p]
      BY <2>1
    <3> HIDE DEF c
    <3> QED BY <1>2, <2>1, <3>1, <3>2
  <2>3. c + 1 \in 1 .. q.counts[p] /\ c + 1 \notin Places(p)
    <3> HIDE DEF c, Places
    <3> QED BY <2>1, <2>2
  <2>4. <<c + 1, p>> \in P /\ <<c + 1, p>> \notin result /\ <<c + 1, p>>[1] = c + 1
    BY <1>3, <2>3
  <2>5. <<d, r>> \in result /\ <<d, r>>[1] = d
    <3>1. d \in Places(r)
      <4> HIDE DEF Places, d, c
      <4> QED BY <2>1
    <3> QED BY <3>1
  <2>6. d <= c + 1
    <3> HIDE DEF c, d
    <3> QED BY <1>9, <2>4, <2>5
  <2> HIDE DEF c, d
  <2> QED BY <2>1, <2>6
<1> QED BY <1>11, <1>12, <1>13 DEF SeedsAreShared

(* The places reserved for the files named are no more than there are      *)
(* (_select_nodes).                                                        *)
LEMMA ReservedFit ==
  ASSUME NEW q, IsList(q.ranked), IsFiniteSet(q.named), q.limit \in Nat, Cardinality(q.named) \in 2 .. q.limit
  PROVE  /\ Reserved(q) \in SUBSET DOMAIN q.ranked /\ IsFiniteSet(Reserved(q))
         /\ Cardinality(Reserved(q)) \in Nat /\ Cardinality(Reserved(q)) <= q.limit
         /\ \A x \in DOMAIN q.ranked :
              q.ranked[x].file \in q.named /\ (\A j \in 1 .. x - 1 : q.ranked[j].file # q.ranked[x].file)
                => x \in Reserved(q)
<1> DEFINE R == Reserved(q)
           k == Cardinality(q.named)
           quota == q.limit \div k
           file(i) == q.ranked[i].file
           Same(i) == {j \in 1 .. i - 1 : file(j) = file(i)}
           count(i) == Cardinality(Same(i))
<1>1. DOMAIN q.ranked = 1 .. Len(q.ranked) /\ Len(q.ranked) \in Nat
  BY LenProperties DEF IsList
<1>2. k \in Nat /\ k >= 2 /\ k <= q.limit
  OBVIOUS
<1>3. quota \in Nat \ {0} /\ k * quota <= q.limit
  <2> HIDE DEF k
  <2>1. q.limit = k * quota + (q.limit % k) /\ q.limit % k \in 0 .. k - 1 /\ quota \in Nat
    BY <1>2
  <2> HIDE DEF quota
  <2>2. k * quota \in Nat
    BY <1>2, <2>1
  <2>3. quota # 0
    <3>1. quota = 0 => k * quota = 0
      BY <1>2
    <3> QED BY <1>2, <2>1, <3>1
  <2> QED BY <2>1, <2>2, <2>3
<1>4. Larger(1, q.limit \div Cardinality(q.named)) = quota
  BY <1>3 DEF Larger
<1>5. R = {i \in DOMAIN q.ranked : file(i) \in q.named /\ count(i) < quota}
  BY <1>4 DEF Reserved
<1> HIDE DEF R, k, quota
<1>6. R \in SUBSET DOMAIN q.ranked /\ IsFiniteSet(R) /\ Cardinality(R) \in Nat
  <2>1. R \in SUBSET DOMAIN q.ranked
    BY <1>5
  <2>2. IsFiniteSet(DOMAIN q.ranked)
    BY <1>1, CountTo
  <2>3. IsFiniteSet(R)
    BY <2>1, <2>2, FS_Subset
  <2> QED BY <2>1, <2>3, FS_CardinalityType
<1>7. \A i \in DOMAIN q.ranked : IsFiniteSet(Same(i)) /\ count(i) \in Nat
  <2>1. ASSUME NEW i \in DOMAIN q.ranked PROVE IsFiniteSet(Same(i)) /\ count(i) \in Nat
    <3>1. i - 1 \in Nat
      BY <1>1
    <3>2. Same(i) \in SUBSET (1 .. i - 1) /\ IsFiniteSet(1 .. i - 1)
      BY <3>1, CountTo
    <3>3. IsFiniteSet(Same(i))
      BY <3>2, FS_Subset
    <3> QED BY <3>3, FS_CardinalityType
  <2> QED BY <2>1
<1>8. ASSUME NEW i \in R, NEW j \in R, i < j, file(i) = file(j) PROVE count(i) # count(j)
  <2>1. i \in Nat /\ j \in Nat /\ i \in DOMAIN q.ranked /\ j \in DOMAIN q.ranked /\ i \in 1 .. j - 1
    BY <1>1, <1>6, <1>8
  <2>2. \A h \in 1 .. i - 1 : h \in 1 .. j - 1
    BY <1>8, <2>1
  <2>3. Same(i) \subseteq Same(j)
    BY <1>8, <2>2
  <2>4. i \in Same(j)
    BY <1>8, <2>1
  <2>5. i \notin Same(i)
    BY <2>1
  <2> HIDE DEF Same
  <2> QED BY <1>7, <2>1, <2>3, <2>4, <2>5, FS_Subset
<1>9. Cardinality(R) <= q.limit
  <2> DEFINE T == q.named \X (0 .. quota - 1)
             f == [i \in R |-> <<file(i), count(i)>>]
  <2>1. IsFiniteSet(T) /\ Cardinality(T) = k * quota
    <3>1. 0 \in Int /\ quota - 1 \in Int /\ quota - 1 - 0 + 1 = quota /\ ~(0 > quota - 1)
      BY <1>3
    <3>2. IsFiniteSet(0 .. quota - 1) /\ Cardinality(0 .. quota - 1) = quota
      BY <3>1, FS_Interval
    <3> QED BY <3>2, FS_Product DEF k
  <2>2. f \in [R -> T]
    <3>1. ASSUME NEW i \in R PROVE file(i) \in q.named /\ count(i) \in 0 .. quota - 1
      <4>1. file(i) \in q.named /\ count(i) < quota /\ i \in DOMAIN q.ranked
        BY <1>5
      <4>2. count(i) \in Nat
        BY <1>7, <4>1
      <4> HIDE DEF count
      <4> QED BY <1>3, <4>1, <4>2
    <3> HIDE DEF file, count
    <3> QED BY <3>1
  <2>3. \A a, b \in DOMAIN f : f[a] = f[b] => a = b
    <3>1. ASSUME NEW a \in R, NEW b \in R, f[a] = f[b] PROVE a = b
      <4>1. file(a) = file(b) /\ count(a) = count(b)
        <5> HIDE DEF file, count
        <5> QED BY <3>1
      <4>2. a \in Nat /\ b \in Nat
        BY <1>1, <1>6
      <4>3. ~(a < b) /\ ~(b < a)
        <5> HIDE DEF file, count
        <5> QED BY <1>8, <4>1
      <4> QED BY <4>2, <4>3
    <3> QED BY <3>1
  <2> HIDE DEF f, T
  <2>4. f \in Injection(R, T)
    BY <2>2, <2>3 DEF Injection, IsInjective
  <2>5. Cardinality(R) <= Cardinality(T)
    BY <2>1, <2>4, FS_Injection
  <2>6. k * quota \in Nat
    BY <1>2, <1>3
  <2> QED BY <1>3, <1>6, <2>1, <2>5, <2>6
<1>10. ASSUME NEW x \in DOMAIN q.ranked, file(x) \in q.named, \A j \in 1 .. x - 1 : file(j) # file(x)
       PROVE  x \in R
  <2>1. Same(x) = {}
    BY <1>10
  <2>2. count(x) = 0
    <3> HIDE DEF Same
    <3> QED BY <2>1, FS_EmptySet
  <2> HIDE DEF count, file
  <2> QED BY <1>3, <1>5, <1>10, <2>2
<1> QED BY <1>6, <1>9, <1>10 DEF R

(* Each file named is in the selection (_select_nodes).                    *)
LEMMA SelectionIsForAll ==
  ASSUME NEW q \in Questions, q.about = "select", result = Answer(q)
  PROVE  SelectionIsShared(q)
<1> DEFINE P == DOMAIN q.ranked
           rank == [i \in P |-> IF Cardinality(q.named) <= 1 THEN <<0, 0, i>>
                                ELSE IF i \in Reserved(q) THEN <<0, q.ranked[i].file, i>> ELSE <<1, 0, i>>]
           best == UpTo(Ranking(P, rank), q.limit)
<1>1. /\ IsList(q.ranked) /\ IsFiniteSet(q.named) /\ q.limit \in Nat
      /\ \A n \in Range(q.ranked) : n.file \in Int
  BY RetrievalAssumption DEF IsQuestion
<1>2. P = 1 .. Len(q.ranked) /\ Len(q.ranked) \in Nat /\ IsInjective(q.ranked)
  BY <1>1, LenProperties DEF IsList
<1>3. IsFiniteSet(P) /\ Cardinality(P) = Len(q.ranked)
  BY <1>2, CountTo
<1>4. \A i \in P : i \in Int /\ q.ranked[i].file \in Int
  BY <1>1, <1>2 DEF Range
<1>5. \A i \in P : DOMAIN rank[i] = 1 .. 3 /\ rank[i][1] \in Int /\ rank[i][2] \in Int /\ rank[i][3] = i
  BY <1>4
<1>6. RanksApart(P, rank, 3)
  <2>1. 1 .. 3 = {1, 2, 3}
    OBVIOUS
  <2> HIDE DEF rank, P
  <2> QED BY <1>4, <1>5, <2>1 DEF RanksApart
<1>7. result = {q.ranked[best[k]] : k \in DOMAIN best}
  BY DEF Answer, SelectNodes
<1>8. BestFirst(P, rank, q.limit, best)
  <2>1. 3 \in Nat
    OBVIOUS
  <2> HIDE DEF P, rank
  <2> QED BY <1>1, <1>3, <1>6, <2>1, BestComeFirst
<1> HIDE DEF best
<1>9. /\ best \in Seq(P) /\ IsInjective(best) /\ DOMAIN best = 1 .. Len(best)
      /\ Len(best) = Smaller(q.limit, Cardinality(P))
      /\ IsFiniteSet(Range(best)) /\ Cardinality(Range(best)) = Len(best)
      /\ \A x \in P \ Range(best) : Len(best) = q.limit /\ \A k \in DOMAIN best : LowerRank(rank[best[k]], rank[x])
  BY <1>8 DEF BestFirst
<1>10. Range(best) \subseteq P
  BY <1>9, ElementOfSeq DEF Range
<1>11. result = {q.ranked[i] : i \in Range(best)}
  BY <1>7 DEF Range
<1>12. Cardinality(result) = Smaller(q.limit, Len(q.ranked))
  <2> DEFINE f == [i \in Range(best) |-> q.ranked[i]]
  <2>1. f \in Bijection(Range(best), result)
    <3>1. f \in [Range(best) -> result]
      BY <1>11
    <3>2. f \in Injection(Range(best), result)
      <4>1. \A a, b \in Range(best) : f[a] = f[b] => a = b
        BY <1>2, <1>10 DEF IsInjective
      <4> QED BY <3>1, <4>1 DEF Injection, IsInjective
    <3>3. f \in Surjection(Range(best), result)
      BY <1>11, <3>1 DEF Surjection
    <3> QED BY <3>2, <3>3 DEF Bijection
  <2>2. ExistsBijection(Range(best), result)
    BY <2>1 DEF ExistsBijection
  <2>3. Cardinality(result) = Cardinality(Range(best))
    BY <1>9, <2>2, FS_Bijection
  <2> QED BY <1>3, <1>9, <2>3
<1>13. ASSUME Cardinality(q.named) \in 2 .. q.limit, NEW p \in q.named, NEW n \in Range(q.ranked), n.file = p
       PROVE  \E m \in result : m.file = p
  <2> DEFINE T == {i \in P : q.ranked[i].file = p}
             R == Reserved(q)
  <2>1. T \in SUBSET Nat /\ T # {}
    BY <1>2, <1>13 DEF Range
  <2>2. PICK x \in T : \A k \in T : x <= k
    <3> HIDE DEF T
    <3> QED BY <2>1, LeastNatural
  <2>3. x \in P /\ q.ranked[x].file = p
    BY <2>2
  <2>4. \A j \in 1 .. x - 1 : q.ranked[j].file # p
    <3>1. ASSUME NEW j \in 1 .. x - 1 PROVE q.ranked[j].file # p
      <4>1. j \in P /\ ~(x <= j)
        BY <1>2, <2>3
      <4> QED BY <2>2, <4>1
    <3> QED BY <3>1
  <2>5. /\ R \in SUBSET P /\ IsFiniteSet(R) /\ Cardinality(R) \in Nat /\ Cardinality(R) <= q.limit
        /\ x \in R
    BY <1>1, <1>13, <2>3, <2>4, ReservedFit
  <2>6. CASE x \in Range(best)
    BY <1>11, <2>3, <2>6
  <2>7. CASE x \notin Range(best)
    <3>1. Len(best) = q.limit /\ \A k \in DOMAIN best : LowerRank(rank[best[k]], rank[x])
      BY <1>9, <2>3, <2>7
    <3>2. ~(Cardinality(q.named) <= 1)
      BY <1>13
    <3>3. \A i \in P : (i \in R => rank[i][1] = 0) /\ (i \notin R => rank[i][1] = 1)
      BY <3>2
    <3>4. ASSUME NEW i \in Range(best) PROVE i \in R
      <4>1. i \in P /\ LowerRank(rank[i], rank[x])
        BY <1>10, <3>1 DEF Range
      <4>2. /\ DOMAIN rank[i] = 1 .. 3 /\ rank[i][1] \in Int /\ rank[x][1] \in Int /\ rank[x][1] = 0
            /\ 3 \in Nat \ {0}
        BY <1>5, <2>3, <2>5, <3>3, <4>1
      <4> HIDE DEF rank
      <4>3. rank[i][1] <= rank[x][1]
        BY <4>1, <4>2, FirstComesFirst
      <4>4. rank[i][1] # 1
        BY <4>2, <4>3
      <4> QED BY <3>3, <4>1, <4>4
    <3>5. Range(best) \in SUBSET R /\ Range(best) # R
      BY <2>5, <2>7, <3>4
    <3> HIDE DEF R
    <3>6. Cardinality(Range(best)) <= Cardinality(R) /\ Cardinality(Range(best)) # Cardinality(R)
      BY <2>5, <3>5, FS_Subset
    <3>7. Cardinality(Range(best)) = q.limit
      BY <1>9, <3>1
    <3> QED BY <1>1, <2>5, <3>6, <3>7
  <2> QED BY <2>6, <2>7
<1>14. Cardinality(q.named) \in 2 .. q.limit =>
         \A p \in q.named : (\E n \in Range(q.ranked) : n.file = p) => \E n \in result : n.file = p
  BY <1>13
<1> QED BY <1>12, <1>14 DEF SelectionIsShared

(* Sums of numbers grow.                                                   *)
LEMMA SumsGrow ==
  ASSUME NEW n \in Nat, NEW s, \A i \in 1 .. n : s[i] \in Nat, NEW i \in 0 .. n, NEW j \in i .. n
  PROVE  SumTo(s, i) \in Nat /\ SumTo(s, j) \in Nat /\ SumTo(s, i) <= SumTo(s, j)
<1>1. /\ \A m \in 0 .. n : SumTo(s, m) \in Nat
      /\ \A m \in 1 .. n : SumTo(s, m) = SumTo(s, m - 1) + s[m]
  BY SumsAdd
<1> DEFINE U == {d \in 0 .. n - i : SumTo(s, i) <= SumTo(s, i + d)}
<1>2. 0 \in U
  <2>1. 0 \in 0 .. n - i /\ i + 0 = i
    OBVIOUS
  <2>2. SumTo(s, i) \in Nat
    BY <1>1
  <2>3. SumTo(s, i) <= SumTo(s, i + 0)
    BY <2>1, <2>2
  <2> QED BY <2>1, <2>3
<1>3. ASSUME NEW d \in 1 .. n - i, d - 1 \in U PROVE d \in U
  <2>1. i + d \in 1 .. n /\ i + d - 1 \in 0 .. n /\ i + d - 1 = i + (d - 1) /\ d \in 0 .. n - i /\ i + d \in 0 .. n
    OBVIOUS
  <2>2. SumTo(s, i + d) = SumTo(s, i + (d - 1)) + s[i + d] /\ s[i + d] \in Nat
    BY <1>1, <2>1
  <2>3. SumTo(s, i) <= SumTo(s, i + (d - 1))
    BY <1>3
  <2>4. SumTo(s, i) \in Nat /\ SumTo(s, i + (d - 1)) \in Nat
    BY <1>1, <2>1
  <2>5. SumTo(s, i) <= SumTo(s, i + d)
    BY <2>2, <2>3, <2>4
  <2> QED BY <2>1, <2>5
<1>4. j - i \in 0 .. n - i /\ i + (j - i) = j /\ n - i \in Nat /\ j \in 0 .. n
  OBVIOUS
<1>5. 0 .. n - i \subseteq U
  <2> HIDE DEF U
  <2> QED BY <1>2, <1>3, <1>4, UpToNumber
<1>6. SumTo(s, i) <= SumTo(s, i + (j - i))
  BY <1>4, <1>5
<1> QED BY <1>1, <1>4, <1>6

-----------------------------------------------------------------------------
(* The sections of a context lie one behind the other.                     *)
LEMMA SectionsAreInTurn ==
  ASSUME NEW c \in Seq(Sections)
  PROVE  /\ DOMAIN c = 1 .. Len(c) /\ Len(c) \in Nat /\ Length(c) \in Nat
         /\ \A i \in DOMAIN c : /\ SumTo(Sizes(c), i - 1) \in Nat /\ c[i].header \in Nat
                                /\ EndOfHeader(c, i) = SumTo(Sizes(c), i - 1) + c[i].header
                                /\ EndOfHeader(c, i) <= Length(c)
         /\ \A i, j \in DOMAIN c : i < j => EndOfHeader(c, i) <= SumTo(Sizes(c), j - 1)
<1> DEFINE n == Len(c)
           z == Sizes(c)
<1>1. DOMAIN c = 1 .. n /\ n \in Nat
  BY LenProperties
<1>2. \A i \in 1 .. n : c[i].header \in Nat /\ c[i].body \in Nat
  <2>1. \A i \in 1 .. n : c[i] \in Sections
    BY <1>1, ElementOfSeq
  <2> QED BY <2>1 DEF Sections
<1>3. \A i \in 1 .. n : z[i] = c[i].header + c[i].body /\ z[i] \in Nat
  BY <1>1, <1>2 DEF Sizes
<1> HIDE DEF z
<1>4. /\ \A m \in 0 .. n : SumTo(z, m) \in Nat
      /\ \A m \in 1 .. n : SumTo(z, m) = SumTo(z, m - 1) + z[m]
  BY <1>1, <1>3, SumsAdd
<1>5. \A i \in 1 .. n : EndOfHeader(c, i) = SumTo(z, i - 1) + c[i].header /\ EndOfHeader(c, i) <= SumTo(z, i)
  <2>1. ASSUME NEW i \in 1 .. n
        PROVE  EndOfHeader(c, i) = SumTo(z, i - 1) + c[i].header /\ EndOfHeader(c, i) <= SumTo(z, i)
    <3>1. EndOfHeader(c, i) = SumTo(z, i - 1) + c[i].header
      BY DEF EndOfHeader, z
    <3>2. i - 1 \in 0 .. n
      BY <1>1
    <3>3. SumTo(z, i - 1) \in Nat
      BY <1>4, <3>2
    <3>4. SumTo(z, i) = SumTo(z, i - 1) + z[i]
      BY <1>4
    <3>5. z[i] = c[i].header + c[i].body /\ c[i].header \in Nat /\ c[i].body \in Nat
      BY <1>2, <1>3
    <3> QED BY <3>1, <3>3, <3>4, <3>5
  <2> QED BY <2>1
<1>6. \A i \in 0 .. n : \A j \in i .. n : SumTo(z, i) \in Nat /\ SumTo(z, j) \in Nat /\ SumTo(z, i) <= SumTo(z, j)
  <2>1. \A i \in 1 .. n : z[i] \in Nat
    BY <1>3
  <2> QED BY <1>1, <2>1, SumsGrow
<1>7. Length(c) = SumTo(z, n)
  BY DEF Length, z
<1>8. \A i \in 1 .. n : i - 1 \in 0 .. n /\ i \in 0 .. n /\ n \in i .. n /\ n \in 0 .. n
  BY <1>1
<1>9. Length(c) \in Nat
  <2>1. n \in 0 .. n
    BY <1>1
  <2> QED BY <1>4, <1>7, <2>1
<1>10. ASSUME NEW i \in 1 .. n
       PROVE  /\ SumTo(z, i - 1) \in Nat /\ c[i].header \in Nat
              /\ EndOfHeader(c, i) = SumTo(z, i - 1) + c[i].header /\ EndOfHeader(c, i) <= Length(c)
  <2>1. SumTo(z, i - 1) \in Nat /\ SumTo(z, i) \in Nat
    BY <1>4, <1>8
  <2>2. SumTo(z, i) <= Length(c)
    BY <1>6, <1>7, <1>8
  <2>3. EndOfHeader(c, i) = SumTo(z, i - 1) + c[i].header /\ EndOfHeader(c, i) <= SumTo(z, i)
    BY <1>5
  <2> QED BY <1>2, <1>9, <2>1, <2>2, <2>3
<1>11. ASSUME NEW i \in 1 .. n, NEW j \in 1 .. n, i < j PROVE EndOfHeader(c, i) <= SumTo(z, j - 1)
  <2>1. i \in 0 .. n /\ j - 1 \in i .. n
    BY <1>1, <1>11
  <2>2. SumTo(z, i) \in Nat /\ SumTo(z, j - 1) \in Nat /\ SumTo(z, i) <= SumTo(z, j - 1)
    BY <1>6, <2>1
  <2>3. EndOfHeader(c, i) <= SumTo(z, i) /\ EndOfHeader(c, i) \in Nat
    BY <1>5, <1>10
  <2> QED BY <2>2, <2>3
<1> QED BY <1>1, <1>9, <1>10, <1>11 DEF z

(* The headers of the files seen are in what is shown, one after another.  *)
Slots(H, files) == UNION {{f} \X (1 .. H[f]) : f \in files}

(* The characters of the headers seen are among those shown.               *)
LEMMA HeadersFit ==
  ASSUME NEW c \in Seq(Sections), NEW shown \in Nat, NEW H,
         \A i \in DOMAIN c : H[c[i].file] \in Nat /\ H[c[i].file] <= c[i].header
  PROVE  /\ Visible(c, shown) \subseteq {s.file : s \in Range(c)}
         /\ IsFiniteSet(Slots(H, Visible(c, shown)))
         /\ Cardinality(Slots(H, Visible(c, shown))) \in 0 .. shown
<1> DEFINE V == Visible(c, shown)
           S == UNION {{f} \X (1 .. H[f]) : f \in V}
           start(i) == SumTo(Sizes(c), i - 1)
           In(f) == {i \in DOMAIN c : c[i].file = f /\ EndOfHeader(c, i) <= shown}
           at == [f \in V |-> CHOOSE i \in DOMAIN c : c[i].file = f /\ EndOfHeader(c, i) <= shown]
           place == [x \in S |-> start(at[x[1]]) + x[2]]
<1>1. /\ \A i \in DOMAIN c : /\ start(i) \in Nat /\ c[i].header \in Nat
                             /\ EndOfHeader(c, i) = start(i) + c[i].header
      /\ \A i, j \in DOMAIN c : i < j => EndOfHeader(c, i) <= start(j)
      /\ DOMAIN c = 1 .. Len(c) /\ Len(c) \in Nat
  BY SectionsAreInTurn
<1>2. V = {c[i].file : i \in {k \in DOMAIN c : EndOfHeader(c, k) <= shown}}
  BY DEF Visible
<1> HIDE DEF V, start
<1>3. V \subseteq {s.file : s \in Range(c)}
  BY <1>2 DEF Range
<1>4. \A f \in V : at[f] \in DOMAIN c /\ c[at[f]].file = f /\ EndOfHeader(c, at[f]) <= shown
  BY <1>2
<1> HIDE DEF at
<1>5. ASSUME NEW x \in S
      PROVE  /\ x = <<x[1], x[2]>> /\ x[1] \in V /\ x[2] \in 1 .. H[x[1]]
             /\ x[2] \in Nat /\ x[2] >= 1 /\ x[2] <= c[at[x[1]]].header
  <2>1. PICK f \in V : x \in {f} \X (1 .. H[f])
    OBVIOUS
  <2>2. x = <<x[1], x[2]>> /\ x[1] = f /\ x[2] \in 1 .. H[f]
    BY <2>1
  <2>3. at[f] \in DOMAIN c /\ c[at[f]].file = f
    BY <1>4
  <2>4. H[f] \in Nat /\ H[f] <= c[at[f]].header /\ c[at[f]].header \in Nat
    <3>1. H[c[at[f]].file] \in Nat /\ H[c[at[f]].file] <= c[at[f]].header
      BY <2>3
    <3> QED BY <1>1, <2>3, <3>1
  <2> QED BY <2>2, <2>4
<1> HIDE DEF S
<1>6. ASSUME NEW x \in S PROVE place[x] \in 1 .. shown
  <2>1. x[1] \in V /\ x[2] \in Nat /\ x[2] >= 1 /\ x[2] <= c[at[x[1]]].header
    BY <1>5
  <2>2. at[x[1]] \in DOMAIN c /\ EndOfHeader(c, at[x[1]]) <= shown
    BY <1>4, <2>1
  <2>3. /\ start(at[x[1]]) \in Nat /\ c[at[x[1]]].header \in Nat
        /\ EndOfHeader(c, at[x[1]]) = start(at[x[1]]) + c[at[x[1]]].header
    BY <1>1, <2>2
  <2> QED BY <2>1, <2>2, <2>3
<1>7. ASSUME NEW x \in S, NEW y \in S, at[x[1]] < at[y[1]] PROVE place[x] < place[y]
  <2>1. /\ x[1] \in V /\ x[2] \in Nat /\ x[2] >= 1 /\ x[2] <= c[at[x[1]]].header
        /\ y[1] \in V /\ y[2] \in Nat /\ y[2] >= 1
    BY <1>5
  <2>2. at[x[1]] \in DOMAIN c /\ at[y[1]] \in DOMAIN c
    BY <1>4, <2>1
  <2>3. /\ start(at[x[1]]) \in Nat /\ start(at[y[1]]) \in Nat /\ c[at[x[1]]].header \in Nat
        /\ start(at[x[1]]) + c[at[x[1]]].header <= start(at[y[1]])
    BY <1>1, <1>7, <2>2
  <2> QED BY <2>1, <2>3
<1>8. ASSUME NEW x \in S, NEW y \in S, place[x] = place[y] PROVE x = y
  <2>1. /\ x = <<x[1], x[2]>> /\ x[1] \in V /\ x[2] \in Nat
        /\ y = <<y[1], y[2]>> /\ y[1] \in V /\ y[2] \in Nat
    BY <1>5
  <2>2. at[x[1]] \in DOMAIN c /\ at[y[1]] \in DOMAIN c /\ c[at[x[1]]].file = x[1] /\ c[at[y[1]]].file = y[1]
    BY <1>4, <2>1
  <2>3. place[x] \in Nat /\ place[y] \in Nat
    <3> HIDE DEF place
    <3>1. place[x] \in 1 .. shown /\ place[y] \in 1 .. shown
      BY <1>6
    <3> QED BY <3>1
  <2>4. ~(at[x[1]] < at[y[1]]) /\ ~(at[y[1]] < at[x[1]])
    <3> HIDE DEF place
    <3>1. ~(place[x] < place[y]) /\ ~(place[y] < place[x])
      BY <1>8, <2>3
    <3> QED BY <1>7, <3>1
  <2>5. at[x[1]] = at[y[1]]
    BY <1>1, <2>2, <2>4
  <2>6. x[1] = y[1]
    BY <2>2, <2>5
  <2>7. start(at[x[1]]) \in Nat
    BY <1>1, <2>2
  <2>8. start(at[x[1]]) + x[2] = start(at[x[1]]) + y[2]
    BY <1>8, <2>6
  <2>9. x[2] = y[2]
    BY <2>1, <2>7, <2>8
  <2> QED BY <2>1, <2>6, <2>9
<1>9. place \in Injection(S, 1 .. shown)
  <2>1. DOMAIN place = S /\ place = [x \in S |-> place[x]]
    OBVIOUS
  <2> HIDE DEF place
  <2>2. place \in [S -> 1 .. shown]
    BY <1>6, <2>1
  <2> QED BY <1>8, <2>1, <2>2 DEF Injection, IsInjective
<1>10. IsFiniteSet(1 .. shown) /\ Cardinality(1 .. shown) = shown
  BY CountTo
<1> HIDE DEF place
<1>11. IsFiniteSet(S) /\ Cardinality(S) <= shown
  BY <1>9, <1>10, FS_Injection
<1>12. Cardinality(S) \in Nat
  BY <1>11, FS_CardinalityType
<1>13. Cardinality(S) \in 0 .. shown
  BY <1>11, <1>12
<1> QED BY <1>3, <1>11, <1>13 DEF S, V, Slots

(* A text cut to a budget is no longer than that (_truncate_context).      *)
CutFits(cut, length, allowed) ==
  /\ cut.shown \in Nat /\ cut.length \in Nat /\ cut.shown <= cut.length /\ cut.length <= allowed
  /\ length <= allowed => cut.shown = length

(* A text is cut to its budget, and only if it is longer.                   *)
LEMMA TruncateFits ==
  ASSUME NEW length \in Nat, NEW allowed \in Nat, NEW marker \in Nat, NEW cut, cut = Truncate(length, allowed, marker)
  PROVE  CutFits(cut, length, allowed)
<1>1. CASE allowed <= 0
  <2>1. cut = [shown |-> 0, length |-> 0]
    BY <1>1 DEF Truncate
  <2> QED BY <1>1, <2>1 DEF CutFits
<1>2. CASE ~(allowed <= 0) /\ length <= allowed
  <2>1. cut = [shown |-> length, length |-> length]
    BY <1>2 DEF Truncate
  <2> QED BY <1>2, <2>1 DEF CutFits
<1>3. CASE ~(allowed <= 0) /\ ~(length <= allowed) /\ allowed <= marker
  <2>1. cut = [shown |-> allowed, length |-> allowed]
    BY <1>3 DEF Truncate
  <2> QED BY <1>3, <2>1 DEF CutFits
<1>4. CASE ~(allowed <= 0) /\ ~(length <= allowed) /\ ~(allowed <= marker)
  <2>1. cut = [shown |-> allowed - marker, length |-> allowed]
    BY <1>4 DEF Truncate
  <2> QED BY <1>4, <2>1 DEF CutFits
<1> QED BY <1>1, <1>2, <1>3, <1>4

(* What is there to be read in a context question.                         *)
HeaderOf(q, f) == Least({s.header : s \in {r \in Range(q.graph) \cup Range(q.vector) : r.file = f}})
Heads(q) == [f \in {s.file : s \in Range(q.graph) \cup Range(q.vector)} |-> HeaderOf(q, f)]
HeadersOf(q, files) == Slots(Heads(q), files)

(* The headers seen of a source are in what is shown of it.                *)
LEMMA HeadersOfAPart ==
  ASSUME NEW q, q.graph \in Seq(Sections), q.vector \in Seq(Sections),
         NEW c \in Seq(Sections), Range(c) \subseteq Range(q.graph) \cup Range(q.vector), NEW shown \in Nat
  PROVE  /\ Visible(c, shown) \subseteq {s.file : s \in Range(c)}
         /\ IsFiniteSet(HeadersOf(q, Visible(c, shown)))
         /\ Cardinality(HeadersOf(q, Visible(c, shown))) \in 0 .. shown
<1> DEFINE All == Range(q.graph) \cup Range(q.vector)
           H == Heads(q)
<1>1. \A s \in All : s.header \in Nat
  <2>1. \A s \in Range(q.graph) : s \in Sections
    BY LenProperties, ElementOfSeq DEF Range
  <2>2. \A s \in Range(q.vector) : s \in Sections
    BY LenProperties, ElementOfSeq DEF Range
  <2> QED BY <2>1, <2>2 DEF Sections
<1>2. ASSUME NEW s \in All PROVE H[s.file] = HeaderOf(q, s.file) /\ H[s.file] \in Nat /\ H[s.file] <= s.header
  <2> DEFINE T == {r.header : r \in {x \in All : x.file = s.file}}
  <2>1. T \in SUBSET Nat /\ s.header \in T
    BY <1>1
  <2>2. Least(T) \in T /\ \A k \in T : Least(T) <= k
    <3>1. T # {}
      BY <2>1
    <3> HIDE DEF T
    <3> QED BY <2>1, <3>1, LeastIsLeast
  <2>3. HeaderOf(q, s.file) = Least(T)
    BY DEF HeaderOf
  <2>4. H[s.file] = HeaderOf(q, s.file)
    BY DEF Heads
  <2> HIDE DEF T, H
  <2>5. Least(T) \in Nat /\ Least(T) <= s.header
    BY <2>1, <2>2
  <2> QED BY <2>3, <2>4, <2>5
<1> HIDE DEF H
<1>3. \A i \in DOMAIN c : H[c[i].file] \in Nat /\ H[c[i].file] <= c[i].header
  <2>1. \A i \in DOMAIN c : c[i] \in All
    BY DEF Range
  <2> HIDE DEF All
  <2> QED BY <1>2, <2>1
<1>4. /\ Visible(c, shown) \subseteq {s.file : s \in Range(c)} /\ IsFiniteSet(Slots(H, Visible(c, shown)))
      /\ Cardinality(Slots(H, Visible(c, shown))) \in 0 .. shown
  BY <1>3, HeadersFit
<1> QED BY <1>4 DEF HeadersOf, H

(* A context of one source (HybridRetriever.retrieve).                     *)
FitsAsked(q, r) ==
  /\ r.length \in Nat /\ r.length <= q.max
  /\ r.files \subseteq {s.file : s \in Range(q.graph) \cup Range(q.vector)}
  /\ Cardinality(HeadersOf(q, r.files)) <= r.length

(* A source that is alone is shown as far as there is room.                *)
LEMMA AloneFits ==
  ASSUME NEW q, q.graph \in Seq(Sections), q.vector \in Seq(Sections), q.max \in Nat, q.marker \in Nat,
         NEW c \in Seq(Sections), Range(c) \subseteq Range(q.graph) \cup Range(q.vector)
  PROVE  /\ FitsAsked(q, Alone(q, c))
         /\ Length(c) <= q.max => Alone(q, c).files = {s.file : s \in Range(c)}
<1> DEFINE cut == Truncate(Length(c), q.max, q.marker)
<1>1. Alone(q, c) = [length |-> cut.length, files |-> Visible(c, cut.shown)]
  BY DEF Alone
<1>2. /\ Length(c) \in Nat /\ DOMAIN c = 1 .. Len(c)
      /\ \A i \in DOMAIN c : EndOfHeader(c, i) <= Length(c)
  BY SectionsAreInTurn
<1>3. /\ cut.shown \in Nat /\ cut.length \in Nat /\ cut.shown <= cut.length /\ cut.length <= q.max
      /\ Length(c) <= q.max => cut.shown = Length(c)
  <2>1. cut = Truncate(Length(c), q.max, q.marker) /\ Length(c) \in Nat
    BY <1>2
  <2> HIDE DEF cut
  <2>2. CutFits(cut, Length(c), q.max)
    BY <2>1, TruncateFits
  <2> QED BY <2>2 DEF CutFits
<1> HIDE DEF cut
<1>4. /\ Visible(c, cut.shown) \subseteq {s.file : s \in Range(c)}
      /\ Cardinality(HeadersOf(q, Visible(c, cut.shown))) \in 0 .. cut.shown
  BY <1>3, HeadersOfAPart
<1>5. FitsAsked(q, Alone(q, c))
  <2>1. Alone(q, c).length = cut.length /\ Alone(q, c).files = Visible(c, cut.shown)
    BY <1>1
  <2>2. Cardinality(HeadersOf(q, Visible(c, cut.shown))) <= cut.length
    BY <1>3, <1>4
  <2> QED BY <1>3, <1>4, <2>1, <2>2 DEF FitsAsked
<1>6. ASSUME Length(c) <= q.max PROVE Alone(q, c).files = {s.file : s \in Range(c)}
  <2>1. Visible(c, Length(c)) = {c[i].file : i \in DOMAIN c}
    BY <1>2 DEF Visible
  <2> QED BY <1>1, <1>3, <1>6, <2>1 DEF Range
<1> QED BY <1>5, <1>6

(* The context is never longer than asked, and headers are whole           *)
(* (_truncate_context, HybridRetriever.retrieve).                          *)
LEMMA ContextIsInItsBounds ==
  ASSUME NEW q \in Questions, q.about = "context", result = Answer(q)
  PROVE  ContextFits(q)
<1> DEFINE g == q.graph
           v == q.vector
           w == NewBlocks(q)
           All == Range(g) \cup Range(v)
           available   == Larger(1, q.max - 1)
           graphBudget == (available * q.weight) \div 100
           graphCut    == Truncate(Length(g), graphBudget, q.marker)
           vectorCut   == Truncate(Length(w), available - graphBudget, q.marker)
           both == [length |-> graphCut.length + 1 + vectorCut.length,
                    files  |-> Visible(g, graphCut.shown) \cup Visible(w, vectorCut.shown)]
<1>1. g \in Seq(Sections) /\ v \in Seq(Sections) /\ q.max \in Nat /\ q.weight \in 0 .. 100 /\ q.marker \in Nat
  BY RetrievalAssumption DEF IsQuestion
<1>2. w \in Seq(Sections) /\ Range(w) \subseteq Range(v)
  <2> DEFINE P == {i \in DOMAIN v : v[i].file \notin {s.file : s \in Range(g)}}
  <2>1. P \in SUBSET DOMAIN v /\ w = AtPositions(v, P)
    BY DEF NewBlocks
  <2> HIDE DEF P
  <2>2. AtPositions(v, P) \in Seq(Sections)
    BY <1>1, <2>1, AtPositionsIsSubsequence
  <2>3. Range(AtPositions(v, P)) = {v[n] : n \in P}
    BY <1>1, <2>1, KeptElements
  <2> QED BY <2>1, <2>2, <2>3 DEF Range
<1>3. result = Context(q)
  BY DEF Answer
<1>4. available \in Nat \ {0} /\ graphBudget \in 0 .. available /\ available - graphBudget \in Nat
  <2>1. available \in Nat \ {0}
    BY <1>1 DEF Larger
  <2> HIDE DEF available
  <2>2. available * q.weight \in 0 .. available * 100
    <3>1. \A a \in Nat, b \in 0 .. 100 : a * b \in 0 .. a * 100
      <4>1. \A a \in Nat, b \in 0 .. 100 : a * b \in Nat /\ a * (100 - b) \in Nat /\ a * b + a * (100 - b) = a * 100
        OBVIOUS
      <4> QED BY <4>1
    <3> QED BY <1>1, <2>1, <3>1
  <2>3. \A x \in 0 .. available * 100 : x \div 100 \in 0 .. available
    BY <2>1
  <2>4. graphBudget \in 0 .. available
    BY <2>2, <2>3
  <2> HIDE DEF graphBudget
  <2> QED BY <2>1, <2>4
<1>5. available > 1 => available = q.max - 1
  BY <1>1 DEF Larger
<1> HIDE DEF available, graphBudget, w
<1>6. /\ graphCut.shown \in Nat /\ graphCut.length \in Nat
      /\ graphCut.shown <= graphCut.length /\ graphCut.length <= graphBudget
  <2>1. Length(g) \in Nat /\ graphBudget \in Nat /\ graphCut = Truncate(Length(g), graphBudget, q.marker)
    BY <1>1, <1>4, SectionsAreInTurn
  <2> HIDE DEF graphCut
  <2>2. CutFits(graphCut, Length(g), graphBudget)
    BY <1>1, <2>1, TruncateFits
  <2> QED BY <2>2 DEF CutFits
<1>7. /\ vectorCut.shown \in Nat /\ vectorCut.length \in Nat
      /\ vectorCut.shown <= vectorCut.length /\ vectorCut.length <= available - graphBudget
  <2>1. /\ Length(w) \in Nat /\ available - graphBudget \in Nat
        /\ vectorCut = Truncate(Length(w), available - graphBudget, q.marker)
    BY <1>2, <1>4, SectionsAreInTurn
  <2> HIDE DEF vectorCut
  <2>2. CutFits(vectorCut, Length(w), available - graphBudget)
    BY <1>1, <2>1, TruncateFits
  <2> QED BY <2>2 DEF CutFits
<1>8. Context(q) = IF v = <<>> THEN Alone(q, g)
                   ELSE IF g = <<>> THEN Alone(q, v)
                   ELSE IF w = <<>> THEN Alone(q, g)
                   ELSE IF graphCut.length = 0 THEN Alone(q, w)
                   ELSE IF vectorCut.length = 0 THEN Alone(q, g)
                   ELSE both
  BY DEF Context, w, available, graphBudget
<1> HIDE DEF graphCut, vectorCut, both
<1>9. /\ FitsAsked(q, Alone(q, g)) /\ FitsAsked(q, Alone(q, v)) /\ FitsAsked(q, Alone(q, w))
      /\ Length(v) <= q.max => Alone(q, v).files = {s.file : s \in Range(v)}
      /\ Length(g) <= q.max => Alone(q, g).files = {s.file : s \in Range(g)}
  <2>1. Range(g) \subseteq All /\ Range(v) \subseteq All /\ Range(w) \subseteq All
    BY <1>2
  <2> QED BY <1>1, <1>2, <2>1, AloneFits
<1>10. ASSUME graphCut.length # 0, vectorCut.length # 0 PROVE FitsAsked(q, both)
  <2>1. both.length = graphCut.length + 1 + vectorCut.length
    BY DEF both
  <2>2. both.files = Visible(g, graphCut.shown) \cup Visible(w, vectorCut.shown)
    BY DEF both
  <2>3. available > 1
    BY <1>4, <1>6, <1>7, <1>10
  <2>4. both.length \in Nat /\ both.length <= q.max
    BY <1>1, <1>4, <1>5, <1>6, <1>7, <2>1, <2>3
  <2> DEFINE A == HeadersOf(q, Visible(g, graphCut.shown))
             B == HeadersOf(q, Visible(w, vectorCut.shown))
  <2>5. /\ Visible(g, graphCut.shown) \subseteq {s.file : s \in Range(g)}
        /\ IsFiniteSet(A) /\ Cardinality(A) \in 0 .. graphCut.shown
    <3>1. Range(g) \subseteq Range(q.graph) \cup Range(q.vector)
      OBVIOUS
    <3> QED BY <1>1, <1>6, <3>1, HeadersOfAPart
  <2>6. /\ Visible(w, vectorCut.shown) \subseteq {s.file : s \in Range(w)}
        /\ IsFiniteSet(B) /\ Cardinality(B) \in 0 .. vectorCut.shown
    <3>1. Range(w) \subseteq Range(q.graph) \cup Range(q.vector)
      BY <1>2
    <3> QED BY <1>1, <1>2, <1>7, <3>1, HeadersOfAPart
  <2>7. HeadersOf(q, both.files) = A \cup B
    BY <2>2 DEF HeadersOf, Slots
  <2>8. both.files \subseteq {s.file : s \in Range(q.graph) \cup Range(q.vector)}
    BY <1>2, <2>2, <2>5, <2>6
  <2> HIDE DEF A, B
  <2>9. Cardinality(A \cup B) <= Cardinality(A) + Cardinality(B)
    <3>1. Cardinality(A \cup B) = Cardinality(A) + Cardinality(B) - Cardinality(A \cap B)
      BY <2>5, <2>6, FS_Union
    <3>2. IsFiniteSet(A \cap B)
      BY <2>5, FS_Intersection
    <3>3. Cardinality(A \cap B) \in Nat
      BY <3>2, FS_CardinalityType
    <3> QED BY <2>5, <2>6, <3>1, <3>3
  <2>10. Cardinality(A \cup B) \in Nat
    <3>1. IsFiniteSet(A \cup B)
      BY <2>5, <2>6, FS_Union
    <3> QED BY <3>1, FS_CardinalityType
  <2>11. Cardinality(A \cup B) <= both.length
    BY <1>6, <1>7, <2>1, <2>5, <2>6, <2>9, <2>10
  <2> QED BY <2>4, <2>7, <2>8, <2>11 DEF FitsAsked
<1>11. FitsAsked(q, result)
  BY <1>3, <1>8, <1>9, <1>10, Zenon
<1>12. ASSUME g = <<>>, Length(v) <= q.max PROVE result.files = {s.file : s \in Range(v)}
  <2>1. CASE v = <<>>
    <3>1. Length(g) <= q.max /\ Range(g) = Range(v)
      BY <1>12, <2>1
    <3> QED BY <1>3, <1>8, <1>9, <2>1, <3>1
  <2>2. CASE v # <<>>
    <3>1. result = Alone(q, v)
      BY <1>3, <1>8, <1>12, <2>2
    <3> QED BY <1>9, <1>12, <3>1
  <2> QED BY <2>1, <2>2
<1>13. HeadersOf(q, result.files) =
         UNION {{f} \X (1 .. Least({s.header : s \in {r \in Range(q.graph) \cup Range(q.vector) : r.file = f}})) :
                  f \in result.files}
  <2>1. \A f \in result.files : Heads(q)[f] = HeaderOf(q, f)
    BY <1>11 DEF FitsAsked, Heads
  <2>2. HeadersOf(q, result.files) = UNION {{f} \X (1 .. HeaderOf(q, f)) : f \in result.files}
    BY <2>1 DEF HeadersOf, Slots
  <2> QED BY <2>2 DEF HeaderOf
<1> QED BY <1>11, <1>12, <1>13 DEF ContextFits, FitsAsked

(* Lists that begin alike have the same sums.                              *)
LEMMA SumsAgree ==
  ASSUME NEW n \in Nat, NEW s, NEW t, \A i \in 1 .. n : s[i] \in Nat, \A i \in 1 .. n : t[i] = s[i]
  PROVE  SumTo(s, n) = SumTo(t, n)
<1>1. /\ SumTo(s, 0) = 0
      /\ \A m \in 0 .. n : SumTo(s, m) \in Nat
      /\ \A m \in 1 .. n : SumTo(s, m) = SumTo(s, m - 1) + s[m]
  BY SumsAdd
<1>2. /\ SumTo(t, 0) = 0
      /\ \A m \in 1 .. n : SumTo(t, m) = SumTo(t, m - 1) + t[m]
  <2>1. \A i \in 1 .. n : t[i] \in Nat
    OBVIOUS
  <2> QED BY <2>1, SumsAdd
<1> DEFINE U == {m \in 0 .. n : SumTo(s, m) = SumTo(t, m)}
<1>3. 0 \in U
  BY <1>1, <1>2
<1>4. ASSUME NEW m \in 1 .. n, m - 1 \in U PROVE m \in U
  <2>1. SumTo(s, m) = SumTo(s, m - 1) + s[m] /\ SumTo(t, m) = SumTo(t, m - 1) + t[m]
    BY <1>1, <1>2
  <2>2. SumTo(s, m - 1) = SumTo(t, m - 1) /\ t[m] = s[m] /\ m \in 0 .. n
    BY <1>4
  <2> QED BY <2>1, <2>2
<1>5. 0 .. n \subseteq U
  <2> HIDE DEF U
  <2> QED BY <1>3, <1>4, UpToNumber
<1> QED BY <1>5

-----------------------------------------------------------------------------
(* The section of a file (_format_context): a beginning of its blocks, and *)
(* the first one left out would have been too long.                        *)
Shares == [chars : Nat, text : Nat, blocks : Nat]
LengthsOf(blocks) == [i \in DOMAIN blocks |-> blocks[i].length]
IsBeginning(s, blocks, header, total, m) ==
  /\ s \in Shares /\ s.blocks \in 0 .. m /\ s.text = header + SumTo(LengthsOf(blocks), s.blocks)
  /\ s.blocks > 0 => total + s.text <= MaxContext
  /\ \/ s.blocks = m /\ s.chars = s.text
     \/ /\ total + s.chars > MaxContext /\ s.blocks < m
        /\ total + s.text + blocks[s.blocks + 1].length > MaxContext

(* A block that fits follows, and the first that does not fit ends it.     *)
LEMMA BlocksGoOn ==
  ASSUME NEW blocks \in Seq([file : STRING, length : Nat]), NEW header \in Nat, NEW total \in Nat,
         NEW m \in 1 .. Len(blocks), NEW s, IsBeginning(s, blocks, header, total, m - 1)
  PROVE  IsBeginning(WithBlock(s, blocks[m].length, total), blocks, header, total, m)
<1> DEFINE L == LengthsOf(blocks)
           len == blocks[m].length
           grown == WithBlock(s, len, total)
<1>1. DOMAIN blocks = 1 .. Len(blocks) /\ Len(blocks) \in Nat /\ \A i \in 1 .. Len(blocks) : blocks[i].length \in Nat
  <2>1. DOMAIN blocks = 1 .. Len(blocks) /\ Len(blocks) \in Nat
    BY LenProperties
  <2>2. \A i \in 1 .. Len(blocks) : blocks[i] \in [file : STRING, length : Nat]
    BY ElementOfSeq
  <2> QED BY <2>1, <2>2
<1>2. len \in Nat /\ L[m] = len
  BY <1>1 DEF LengthsOf
<1>3. SumTo(L, m) = SumTo(L, m - 1) + len /\ SumTo(L, m - 1) \in Nat
  <2>1. \A i \in 1 .. Len(blocks) : L[i] \in Nat
    BY <1>1 DEF LengthsOf
  <2>2. /\ \A k \in 0 .. Len(blocks) : SumTo(L, k) \in Nat
        /\ \A k \in 1 .. Len(blocks) : SumTo(L, k) = SumTo(L, k - 1) + L[k]
    <3> HIDE DEF L
    <3> QED BY <1>1, <2>1, SumsAdd
  <2>3. m - 1 \in 0 .. Len(blocks)
    BY <1>1
  <2> HIDE DEF L, len
  <2> QED BY <1>2, <2>2, <2>3
<1>4. /\ s \in Shares /\ s.blocks \in 0 .. m - 1 /\ s.text = header + SumTo(L, s.blocks)
      /\ s.blocks > 0 => total + s.text <= MaxContext
      /\ \/ s.blocks = m - 1 /\ s.chars = s.text
         \/ /\ total + s.chars > MaxContext /\ s.blocks < m - 1
            /\ total + s.text + blocks[s.blocks + 1].length > MaxContext
  BY DEF IsBeginning
<1>5. s.chars \in Nat /\ s.text \in Nat /\ s.blocks \in Nat /\ MaxContext \in Nat /\ m \in Nat
  BY <1>1, <1>4, RetrievalAssumption DEF Shares
<1> HIDE DEF L, len, grown
<1>6. CASE s.blocks = m - 1 /\ s.chars = s.text
  <2>1. s.blocks + 1 = m
    BY <1>5, <1>6
  <2>2. CASE total + s.chars > MaxContext
    <3>1. grown = s
      BY <1>5, <2>2 DEF grown, WithBlock
    <3>2. total + s.text + len > MaxContext /\ s.blocks < m /\ s.blocks \in 0 .. m
      BY <1>2, <1>5, <1>6, <2>2
    <3>3. total + s.text + blocks[s.blocks + 1].length > MaxContext
      BY <2>1, <3>2 DEF len
    <3> QED BY <1>4, <2>2, <3>1, <3>2, <3>3 DEF IsBeginning, grown, len, L
  <2>3. CASE ~(total + s.chars > MaxContext) /\ total + s.chars + len > MaxContext
    <3>1. grown = [s EXCEPT !.chars = s.chars + len]
      BY <1>5, <2>3 DEF grown, WithBlock
    <3>2. s = [chars |-> s.chars, text |-> s.text, blocks |-> s.blocks]
      BY <1>4 DEF Shares
    <3>3. grown.chars = s.chars + len /\ grown.text = s.text /\ grown.blocks = s.blocks /\ grown \in Shares
      <4>1. s.chars + len \in Nat
        BY <1>2, <1>5
      <4>2. grown = [chars |-> s.chars + len, text |-> s.text, blocks |-> s.blocks]
        BY <3>1, <3>2
      <4> QED BY <1>5, <4>1, <4>2 DEF Shares
    <3>4. total + s.text + len > MaxContext /\ s.blocks < m /\ s.blocks \in 0 .. m /\ total + grown.chars > MaxContext
      BY <1>2, <1>5, <1>6, <2>3, <3>3
    <3>5. total + s.text + blocks[s.blocks + 1].length > MaxContext
      BY <2>1, <3>4 DEF len
    <3> QED BY <1>4, <3>3, <3>4, <3>5 DEF IsBeginning, grown, len, L
  <2>4. CASE ~(total + s.chars > MaxContext) /\ ~(total + s.chars + len > MaxContext)
    <3>1. grown = [chars |-> s.chars + len, text |-> s.text + len, blocks |-> s.blocks + 1]
      BY <1>5, <2>4 DEF grown, WithBlock
    <3>2. /\ grown.chars = s.chars + len /\ grown.text = s.text + len /\ grown.blocks = m /\ grown \in Shares
      <4>1. s.chars + len \in Nat /\ s.text + len \in Nat
        BY <1>2, <1>5
      <4> QED BY <1>5, <2>1, <3>1, <4>1 DEF Shares
    <3>3. grown.text = header + SumTo(L, m)
      BY <1>2, <1>3, <1>4, <1>6, <3>2
    <3>4. total + grown.text <= MaxContext /\ grown.chars = grown.text /\ grown.blocks \in 0 .. m
      BY <1>2, <1>5, <1>6, <2>4, <3>2
    <3> QED BY <3>2, <3>3, <3>4 DEF IsBeginning, grown, len, L
  <2> QED BY <2>2, <2>3, <2>4
<1>7. CASE /\ total + s.chars > MaxContext /\ s.blocks < m - 1
           /\ total + s.text + blocks[s.blocks + 1].length > MaxContext
  <2>1. grown = s
    BY <1>5, <1>7 DEF grown, WithBlock
  <2>2. s.blocks < m /\ s.blocks \in 0 .. m
    BY <1>5, <1>7
  <2> QED BY <1>4, <1>7, <2>1, <2>2 DEF IsBeginning, grown, len, L
<1> QED BY <1>4, <1>6, <1>7

(* A file is shown from its first block on (format_context).               *)
LEMMA SectionIsABeginning ==
  ASSUME NEW blocks \in Seq([file : STRING, length : Nat]), NEW header \in Nat, NEW total \in Nat
  PROVE  IsBeginning(FileSection(blocks, header, total), blocks, header, total, Len(blocks))
<1> DEFINE n == Len(blocks)
           Value(f) == f = [k \in 0 .. n |-> IF k = 0 THEN Heading(header)
                                             ELSE WithBlock(f[k - 1], blocks[k].length, total)]
           after == CHOOSE f : Value(f)
           step == [k \in 1 .. n |-> [s \in Shares |-> WithBlock(s, blocks[k].length, total)]]
<1>1. n \in Nat /\ \A k \in 1 .. n : blocks[k].length \in Nat
  <2>1. \A i \in 1 .. Len(blocks) : blocks[i] \in [file : STRING, length : Nat]
    BY ElementOfSeq
  <2> QED BY <2>1, LenProperties
<1>2. FileSection(blocks, header, total) = after[n]
  BY DEF FileSection
<1>3. \A s \in Shares : \A l \in Nat : WithBlock(s, l, total) \in Shares
  <2>1. ASSUME NEW s \in Shares, NEW l \in Nat PROVE WithBlock(s, l, total) \in Shares
    <3>1. s.chars \in Nat /\ s.text \in Nat /\ s.blocks \in Nat /\ MaxContext \in Nat
          /\ s = [chars |-> s.chars, text |-> s.text, blocks |-> s.blocks]
      BY RetrievalAssumption DEF Shares
    <3>2. CASE total + s.chars > MaxContext
      <4>1. WithBlock(s, l, total) = s
        BY <3>1, <3>2 DEF WithBlock
      <4> QED BY <4>1
    <3>3. CASE ~(total + s.chars > MaxContext) /\ total + s.chars + l > MaxContext
      <4>1. WithBlock(s, l, total) = [s EXCEPT !.chars = s.chars + l]
        BY <3>1, <3>3 DEF WithBlock
      <4> QED BY <3>1, <4>1 DEF Shares
    <3>4. CASE ~(total + s.chars > MaxContext) /\ ~(total + s.chars + l > MaxContext)
      <4>1. WithBlock(s, l, total) = [chars |-> s.chars + l, text |-> s.text + l, blocks |-> s.blocks + 1]
        BY <3>1, <3>4 DEF WithBlock
      <4> QED BY <3>1, <4>1 DEF Shares
    <3> QED BY <3>2, <3>3, <3>4
  <2> QED BY <2>1
<1>4. Heading(header) \in Shares
  BY DEF Heading, Shares
<1>5. PICK g : Value(g)
  <2>1. step \in [1 .. n -> [Shares -> Shares]]
    BY <1>1, <1>3
  <2>2. PICK f \in [0 .. n -> Shares] : IsLoop(f, n, Heading(header), step)
    <3> HIDE DEF step
    <3> QED BY <1>1, <1>4, <2>1, LoopIsDefined
  <2>3. f[0] = Heading(header) /\ \A k \in 1 .. n : f[k] = step[k][f[k - 1]]
    BY <2>2 DEF IsLoop
  <2>4. \A k \in 1 .. n : k - 1 \in 0 .. n /\ f[k - 1] \in Shares
    BY <1>1, <2>2
  <2>5. \A k \in 1 .. n : f[k] = WithBlock(f[k - 1], blocks[k].length, total)
    BY <2>3, <2>4
  <2>6. \A k \in 0 .. n : k # 0 => k \in 1 .. n
    BY <1>1
  <2>7. \A k \in 0 .. n : f[k] = IF k = 0 THEN Heading(header) ELSE WithBlock(f[k - 1], blocks[k].length, total)
    BY <2>3, <2>5, <2>6
  <2>8. f = [k \in 0 .. n |-> f[k]]
    BY <2>2
  <2>9. Value(f)
    BY <2>7, <2>8
  <2> HIDE DEF Value
  <2> QED BY <2>9
<1>6. Value(after)
  BY <1>5
<1> HIDE DEF after
<1>7. after[0] = Heading(header) /\ \A k \in 1 .. n : after[k] = WithBlock(after[k - 1], blocks[k].length, total)
  <2>1. after = [k \in 0 .. n |-> IF k = 0 THEN Heading(header)
                                 ELSE WithBlock(after[k - 1], blocks[k].length, total)]
    BY <1>6
  <2>2. 0 \in 0 .. n /\ \A k \in 1 .. n : k \in 0 .. n /\ k # 0
    BY <1>1
  <2> HIDE DEF Value
  <2> QED BY <2>1, <2>2
<1> DEFINE U == {k \in 0 .. n : IsBeginning(after[k], blocks, header, total, k)}
<1>8. 0 \in U
  <2>1. SumTo(LengthsOf(blocks), 0) = 0
    <3>1. 0 \in Nat /\ \A i \in 1 .. 0 : LengthsOf(blocks)[i] \in Nat
      OBVIOUS
    <3>2. \A i \in 1 .. 0 : LengthsOf(blocks)[i] \in Nat
      BY <3>1
    <3> QED BY <3>1, <3>2, SumsAdd
  <2>2. /\ after[0] \in Shares /\ after[0].blocks = 0 /\ after[0].text = header /\ after[0].chars = header
    BY <1>4, <1>7 DEF Heading
  <2>3. 0 \in 0 .. n /\ 0 \in 0 .. 0
    BY <1>1
  <2> QED BY <2>1, <2>2, <2>3 DEF IsBeginning
<1>9. ASSUME NEW k \in 1 .. n, k - 1 \in U PROVE k \in U
  <2>1. IsBeginning(after[k - 1], blocks, header, total, k - 1) /\ k \in 0 .. n
    BY <1>1, <1>9
  <2>2. IsBeginning(WithBlock(after[k - 1], blocks[k].length, total), blocks, header, total, k)
    BY <2>1, BlocksGoOn
  <2> QED BY <1>7, <2>1, <2>2
<1>10. n \in U
  <2>1. 0 .. n \subseteq U
    <3> HIDE DEF U, n
    <3> QED BY <1>1, <1>8, <1>9, UpToNumber
  <2>2. n \in 0 .. n
    BY <1>1
  <2> HIDE DEF U
  <2> QED BY <2>1, <2>2
<1> QED BY <1>2, <1>10

(* The context made of some files (_format_context).                       *)
Excerpts == [total : Nat, shown : Seq(STRING \X Nat)]
TextOf(q, shown) ==
  [i \in DOMAIN shown |-> q.header + SumTo(LengthsOf(BlocksIn(q.blocks, shown[i][1])), shown[i][2])]
IsExcerpt(q, d) ==
  /\ d \in Excerpts /\ d.total <= MaxContext
  /\ d.total = SumTo(TextOf(q, d.shown), Len(d.shown))
  /\ \A i \in 1 .. Len(d.shown) :
       LET blocks == BlocksIn(q.blocks, d.shown[i][1])
           count == d.shown[i][2] IN
       /\ TextOf(q, d.shown)[i] \in Nat /\ d.shown[i][1] \notin q.unreadable /\ count \in 1 .. Len(blocks)
       /\ count < Len(blocks) => SumTo(TextOf(q, d.shown), i) + blocks[count + 1].length > MaxContext

IsFormat(q) == q.blocks \in Seq([file : STRING, length : Nat]) /\ q.header \in Nat

(* The blocks of a file are a list of blocks.                              *)
LEMMA BlocksOfAFile ==
  ASSUME NEW q, IsFormat(q), NEW file
  PROVE  BlocksIn(q.blocks, file) \in Seq([file : STRING, length : Nat])
<1> DEFINE P == {i \in DOMAIN q.blocks : q.blocks[i].file = file}
<1>1. P \in SUBSET DOMAIN q.blocks /\ BlocksIn(q.blocks, file) = AtPositions(q.blocks, P)
  BY DEF BlocksIn
<1>2. q.blocks \in Seq([file : STRING, length : Nat])
  BY DEF IsFormat
<1> HIDE DEF P
<1> QED BY <1>1, <1>2, AtPositionsIsSubsequence

(* A file that has room is shown after those before it.                    *)
LEMMA FilesGoOn ==
  ASSUME NEW q, IsFormat(q), NEW d, IsExcerpt(q, d), NEW file \in STRING
  PROVE  IsExcerpt(q, WithFile(q, d, file))
<1> DEFINE blocks == BlocksIn(q.blocks, file)
           section == FileSection(blocks, q.header, d.total)
           grown == WithFile(q, d, file)
           n == Len(d.shown)
           shown == Append(d.shown, <<file, section.blocks>>)
           old == TextOf(q, d.shown)
           text == TextOf(q, shown)
<1>1. grown = IF file \in q.unreadable \/ section.blocks = 0 THEN d
            ELSE [total |-> d.total + section.text, shown |-> shown]
  BY DEF WithFile
<1>2. CASE file \in q.unreadable \/ section.blocks = 0
  <2>1. grown = d
    BY <1>1, <1>2
  <2> HIDE DEF grown
  <2> QED BY <2>1 DEF grown
<1>3. CASE ~(file \in q.unreadable \/ section.blocks = 0)
  <2>1. blocks \in Seq([file : STRING, length : Nat])
    BY BlocksOfAFile
  <2>2. /\ d \in Excerpts /\ d.total <= MaxContext /\ d.total = SumTo(old, n)
        /\ \A i \in 1 .. n : /\ old[i] \in Nat /\ d.shown[i][1] \notin q.unreadable
                             /\ d.shown[i][2] \in 1 .. Len(BlocksIn(q.blocks, d.shown[i][1]))
                             /\ d.shown[i][2] < Len(BlocksIn(q.blocks, d.shown[i][1])) =>
                                  SumTo(old, i) + BlocksIn(q.blocks, d.shown[i][1])[d.shown[i][2] + 1].length
                                     > MaxContext
    BY DEF IsExcerpt
  <2>3. d.total \in Nat /\ d.shown \in Seq(STRING \X Nat) /\ MaxContext \in Nat /\ q.header \in Nat
    BY <2>2, RetrievalAssumption DEF Excerpts, IsFormat
  <2>4. n \in Nat /\ DOMAIN d.shown = 1 .. n
    BY <2>3, LenProperties
  <2> HIDE DEF blocks
  <2>5. IsBeginning(section, blocks, q.header, d.total, Len(blocks))
    BY <2>1, <2>3, SectionIsABeginning
  <2> HIDE DEF section
  <2>6. /\ section.blocks \in 0 .. Len(blocks) /\ section.text = q.header + SumTo(LengthsOf(blocks), section.blocks)
        /\ section.blocks > 0 => d.total + section.text <= MaxContext
        /\ section.blocks < Len(blocks) => d.total + section.text + blocks[section.blocks + 1].length > MaxContext
        /\ section.text \in Nat
    <3>1. section \in Shares
      BY <2>5 DEF IsBeginning
    <3>2. section.blocks \in 0 .. Len(blocks) /\ Len(blocks) \in Nat
      BY <2>1, <2>5, LenProperties DEF IsBeginning
    <3>3. section.blocks < Len(blocks) => section.blocks # Len(blocks)
      BY <3>2
    <3> QED BY <2>5, <3>1, <3>3 DEF IsBeginning, Shares
  <2>7. Len(blocks) \in Nat /\ section.blocks \in 1 .. Len(blocks) /\ section.blocks \in Nat
    <3>1. Len(blocks) \in Nat
      BY <2>1, LenProperties
    <3> QED BY <1>3, <2>6, <3>1
  <2>8. /\ shown \in Seq(STRING \X Nat) /\ Len(shown) = n + 1 /\ DOMAIN shown = 1 .. n + 1
        /\ shown[n + 1] = <<file, section.blocks>> /\ \A i \in 1 .. n : shown[i] = d.shown[i]
    <3>1. <<file, section.blocks>> \in STRING \X Nat
      BY <2>7
    <3>2. shown \in Seq(STRING \X Nat) /\ Len(shown) = n + 1
      BY <2>3, <3>1, AppendProperties
    <3>3. shown[n + 1] = <<file, section.blocks>> /\ \A i \in 1 .. n : shown[i] = d.shown[i]
      BY <2>3, <3>1, AppendProperties
    <3>4. DOMAIN shown = 1 .. n + 1
      BY <3>2, LenProperties
    <3> QED BY <3>2, <3>3, <3>4
  <2> HIDE DEF shown
  <2>9. text[n + 1] = section.text
    <3>1. n + 1 \in DOMAIN shown
      BY <2>4, <2>8
    <3>2. text[n + 1] = q.header + SumTo(LengthsOf(BlocksIn(q.blocks, shown[n + 1][1])), shown[n + 1][2])
      BY <3>1 DEF TextOf
    <3>3. shown[n + 1][1] = file /\ shown[n + 1][2] = section.blocks
      BY <2>8
    <3> QED BY <2>6, <3>2, <3>3 DEF blocks
  <2>10. \A i \in 1 .. n : text[i] = old[i] /\ i \in 1 .. n + 1
    <3>1. \A i \in 1 .. n : i \in DOMAIN shown /\ i \in DOMAIN d.shown /\ i \in 1 .. n + 1
      BY <2>4, <2>8
    <3> QED BY <2>8, <3>1 DEF TextOf
  <2> HIDE DEF text, old
  <2>11. \A i \in 0 .. n : SumTo(text, i) = SumTo(old, i)
    <3>1. ASSUME NEW i \in 0 .. n PROVE SumTo(text, i) = SumTo(old, i)
      <4>1. i \in Nat /\ \A k \in 1 .. i : k \in 1 .. n
        BY <2>4
      <4>2. \A k \in 1 .. i : old[k] \in Nat
        BY <2>2, <4>1
      <4>3. \A k \in 1 .. i : text[k] = old[k]
        BY <2>10, <4>1
      <4> QED BY <4>1, <4>2, <4>3, SumsAgree
    <3> QED BY <3>1
  <2>12. \A i \in 1 .. n + 1 : text[i] \in Nat
    <3>1. \A i \in 1 .. n + 1 : i \in 1 .. n \/ i = n + 1
      BY <2>4
    <3> QED BY <2>2, <2>6, <2>9, <2>10, <3>1
  <2>13. SumTo(text, n + 1) = d.total + section.text
    <3>1. n + 1 \in Nat /\ n + 1 \in 1 .. n + 1 /\ n + 1 - 1 = n /\ n \in 0 .. n
      BY <2>4
    <3>2. \A m \in 1 .. n + 1 : SumTo(text, m) = SumTo(text, m - 1) + text[m]
      BY <2>12, <3>1, SumsAdd
    <3>3. SumTo(text, n + 1) = SumTo(text, n) + text[n + 1]
      BY <3>1, <3>2
    <3> QED BY <2>2, <2>9, <2>11, <3>1, <3>3
  <2>14. grown.total = d.total + section.text /\ grown.shown = shown /\ grown \in Excerpts
    <3>1. grown = [total |-> d.total + section.text, shown |-> shown]
      BY <1>1, <1>3 DEF shown, section, blocks
    <3>2. d.total + section.text \in Nat
      BY <2>3, <2>6
    <3> HIDE DEF grown
    <3> QED BY <2>8, <3>1, <3>2 DEF Excerpts
  <2>15. grown.total <= MaxContext
    <3>1. section.blocks > 0
      BY <2>7
    <3> HIDE DEF grown
    <3> QED BY <2>6, <2>14, <3>1
  <2>16. grown.total = SumTo(text, Len(grown.shown))
    <3> HIDE DEF grown
    <3> QED BY <2>8, <2>13, <2>14
  <2>17. ASSUME NEW i \in 1 .. n + 1
         PROVE  /\ text[i] \in Nat /\ shown[i][1] \notin q.unreadable
                /\ shown[i][2] \in 1 .. Len(BlocksIn(q.blocks, shown[i][1]))
                /\ shown[i][2] < Len(BlocksIn(q.blocks, shown[i][1])) =>
                     SumTo(text, i) + BlocksIn(q.blocks, shown[i][1])[shown[i][2] + 1].length > MaxContext
    <3>1. CASE i = n + 1
      <4>1. shown[i][1] = file /\ shown[i][2] = section.blocks
        BY <2>8, <3>1
      <4>2. SumTo(text, i) = d.total + section.text
        BY <2>13, <3>1
      <4>3. BlocksIn(q.blocks, shown[i][1]) = blocks
        BY <4>1 DEF blocks
      <4> QED BY <1>3, <2>6, <2>7, <2>12, <4>1, <4>2, <4>3
    <3>2. CASE i # n + 1
      <4>1. i \in 1 .. n /\ i \in 0 .. n
        BY <2>4, <3>2
      <4>2. shown[i] = d.shown[i] /\ SumTo(text, i) = SumTo(old, i)
        BY <2>8, <2>11, <4>1
      <4> QED BY <2>2, <2>12, <4>1, <4>2
    <3> QED BY <3>1, <3>2
  <2>18. TextOf(q, grown.shown) = text /\ Len(grown.shown) = n + 1
    <3> HIDE DEF grown
    <3> QED BY <2>8, <2>14 DEF text
  <2> HIDE DEF grown, n
  <2> QED BY <2>14, <2>15, <2>16, <2>17, <2>18 DEF IsExcerpt, grown
<1> QED BY <1>2, <1>3

(* What is shown of each file is a beginning (_format_context).            *)
LEMMA FormatIsABeginning ==
  ASSUME NEW q \in Questions, q.about = "format", result = Answer(q)
  PROVE  ContextIsABeginning(q, result)
<1> DEFINE files == FileOrder(q.blocks)
           n == Len(files)
           Value(f) == f = [k \in 0 .. n |-> IF k = 0 THEN NothingShown ELSE WithFile(q, f[k - 1], files[k])]
           after == CHOOSE f : Value(f)
           Good == {d \in Excerpts : IsExcerpt(q, d)}
           step == [k \in 1 .. n |-> [d \in Good |-> WithFile(q, d, files[k])]]
<1>1. IsFormat(q)
  BY RetrievalAssumption DEF IsQuestion, IsFormat
<1>2. files \in Seq(STRING)
  <2> DEFINE names == [i \in DOMAIN q.blocks |-> q.blocks[i].file]
             P == {i \in DOMAIN names : \A j \in 1 .. i - 1 : names[j] # names[i]}
  <2>1. q.blocks \in Seq([file : STRING, length : Nat])
    BY <1>1 DEF IsFormat
  <2>2. DOMAIN q.blocks = 1 .. Len(q.blocks) /\ Len(q.blocks) \in Nat
    BY <2>1, LenProperties
  <2>3. \A i \in 1 .. Len(q.blocks) : q.blocks[i] \in [file : STRING, length : Nat]
    BY <2>1, ElementOfSeq
  <2>4. \A i \in 1 .. Len(q.blocks) : q.blocks[i].file \in STRING
    BY <2>3
  <2>5. names \in Seq(STRING)
    <3>1. names \in [1 .. Len(q.blocks) -> STRING]
      BY <2>2, <2>4
    <3> HIDE DEF names
    <3> QED BY <2>2, <3>1
  <2>6. P \in SUBSET DOMAIN names /\ files = AtPositions(names, P)
    BY DEF FileOrder
  <2> HIDE DEF P, names, files
  <2> QED BY <2>5, <2>6, AtPositionsIsSubsequence
<1>3. n \in Nat /\ \A k \in 1 .. n : files[k] \in STRING
  <2> HIDE DEF files
  <2> QED BY <1>2, LenProperties, ElementOfSeq
<1>4. result = after[n]
  BY DEF Answer, FormatContext
<1> HIDE DEF files
<1>5. \A d \in Good : \A file \in STRING : WithFile(q, d, file) \in Good
  <2>1. ASSUME NEW d \in Good, NEW file \in STRING PROVE WithFile(q, d, file) \in Good
    <3>1. IsExcerpt(q, WithFile(q, d, file))
      BY <1>1, FilesGoOn
    <3> QED BY <3>1 DEF IsExcerpt
  <2> QED BY <2>1
<1>6. NothingShown \in Good
  <2>1. SumTo(TextOf(q, <<>>), 0) = 0
    <3>1. \A i \in 1 .. 0 : TextOf(q, <<>>)[i] \in Nat
      OBVIOUS
    <3>2. 0 \in Nat
      OBVIOUS
    <3> QED BY <3>1, <3>2, SumsAdd
  <2>2. NothingShown \in Excerpts /\ NothingShown.total = 0 /\ NothingShown.shown = <<>> /\ Len(<<>>) = 0
    BY DEF NothingShown, Excerpts
  <2>3. MaxContext \in Nat
    BY RetrievalAssumption
  <2>4. \A i : i \notin 1 .. 0
    OBVIOUS
  <2>5. IsExcerpt(q, NothingShown)
    BY <2>1, <2>2, <2>3, <2>4 DEF IsExcerpt
  <2> QED BY <2>2, <2>5
<1>7. PICK g : Value(g)
  <2>1. step \in [1 .. n -> [Good -> Good]]
    <3> HIDE DEF Good
    <3> QED BY <1>3, <1>5
  <2>2. PICK f \in [0 .. n -> Good] : IsLoop(f, n, NothingShown, step)
    <3> HIDE DEF step, Good
    <3> QED BY <1>3, <1>6, <2>1, LoopIsDefined
  <2> HIDE DEF Good
  <2>3. f[0] = NothingShown /\ \A k \in 1 .. n : f[k] = step[k][f[k - 1]]
    BY <2>2 DEF IsLoop
  <2>4. \A k \in 1 .. n : k - 1 \in 0 .. n /\ f[k - 1] \in Good
    BY <1>3, <2>2
  <2>5. \A k \in 1 .. n : f[k] = WithFile(q, f[k - 1], files[k])
    BY <2>3, <2>4
  <2>6. \A k \in 0 .. n : k # 0 => k \in 1 .. n
    BY <1>3
  <2>7. \A k \in 0 .. n : f[k] = IF k = 0 THEN NothingShown ELSE WithFile(q, f[k - 1], files[k])
    BY <2>3, <2>5, <2>6
  <2>8. f = [k \in 0 .. n |-> f[k]]
    BY <2>2
  <2>9. Value(f)
    BY <2>7, <2>8
  <2> HIDE DEF Value
  <2> QED BY <2>9
<1>8. Value(after)
  BY <1>7
<1> HIDE DEF after, Good
<1>9. after[0] = NothingShown /\ \A k \in 1 .. n : after[k] = WithFile(q, after[k - 1], files[k])
  <2>1. after = [k \in 0 .. n |-> IF k = 0 THEN NothingShown ELSE WithFile(q, after[k - 1], files[k])]
    BY <1>8
  <2>2. 0 \in 0 .. n /\ \A k \in 1 .. n : k \in 0 .. n /\ k # 0
    BY <1>3
  <2> HIDE DEF Value
  <2> QED BY <2>1, <2>2
<1> DEFINE U == {k \in 0 .. n : after[k] \in Good}
<1>10. 0 \in U
  BY <1>3, <1>6, <1>9
<1>11. ASSUME NEW k \in 1 .. n, k - 1 \in U PROVE k \in U
  <2>1. after[k - 1] \in Good /\ k \in 0 .. n /\ files[k] \in STRING
    BY <1>3, <1>11
  <2> QED BY <1>5, <1>9, <2>1
<1>12. n \in U
  <2>1. 0 .. n \subseteq U
    <3> HIDE DEF U, n
    <3> QED BY <1>3, <1>10, <1>11, UpToNumber
  <2>2. n \in 0 .. n
    BY <1>3
  <2> HIDE DEF U
  <2> QED BY <2>1, <2>2
<1>13. IsExcerpt(q, result)
  BY <1>4, <1>12 DEF Good
<1> HIDE DEF n, U
<1>14. DOMAIN result.shown = 1 .. Len(result.shown)
  <2>1. result.shown \in Seq(STRING \X Nat)
    BY <1>13 DEF IsExcerpt, Excerpts
  <2> QED BY <2>1, LenProperties
<1>15. ASSUME NEW i \in DOMAIN result.shown
       PROVE  LET lengths == LengthsOf(BlocksIn(q.blocks, result.shown[i][1]))
                  count == result.shown[i][2] IN
              /\ result.shown[i][1] \notin q.unreadable /\ count \in 1 .. Len(lengths)
              /\ count < Len(lengths) => SumTo(TextOf(q, result.shown), i) + lengths[count + 1] > MaxContext
  <2> DEFINE blocks == BlocksIn(q.blocks, result.shown[i][1])
             lengths == LengthsOf(blocks)
             count == result.shown[i][2]
  <2>1. blocks \in Seq([file : STRING, length : Nat])
    BY <1>1, BlocksOfAFile
  <2>2. /\ result.shown[i][1] \notin q.unreadable /\ count \in 1 .. Len(blocks)
        /\ count < Len(blocks) => SumTo(TextOf(q, result.shown), i) + blocks[count + 1].length > MaxContext
    BY <1>13, <1>14 DEF IsExcerpt
  <2> HIDE DEF blocks
  <2>3. DOMAIN blocks = 1 .. Len(blocks) /\ Len(blocks) \in Nat
    BY <2>1, LenProperties
  <2>4. lengths = [k \in 1 .. Len(blocks) |-> blocks[k].length]
    BY <2>3 DEF LengthsOf
  <2>5. Len(lengths) = Len(blocks)
    BY <2>3, <2>4
  <2>6. count < Len(blocks) => lengths[count + 1] = blocks[count + 1].length
    <3>1. count \in 1 .. Len(blocks)
      BY <2>2
    <3>2. count < Len(blocks) => count + 1 \in 1 .. Len(blocks)
      <4> HIDE DEF count
      <4> QED BY <2>3, <3>1
    <3> QED BY <2>4, <3>2
  <2> HIDE DEF lengths, count
  <2>7. /\ result.shown[i][1] \notin q.unreadable /\ count \in 1 .. Len(lengths)
        /\ count < Len(lengths) => SumTo(TextOf(q, result.shown), i) + lengths[count + 1] > MaxContext
    BY <2>2, <2>5, <2>6
  <2> QED BY <2>7 DEF blocks, lengths, count
<1>16. result.total <= MaxContext /\ result.total = SumTo(TextOf(q, result.shown), Len(result.shown))
  BY <1>13 DEF IsExcerpt
<1> QED BY <1>15, <1>16, Zenon DEF ContextIsABeginning, TextOf, LengthsOf

(* A product grows with its factor.                                        *)
LEMMA ProductsGrow ==
  ASSUME NEW n \in Nat, NEW a \in Int, NEW b \in Int, a <= b
  PROVE  n * a \in Int /\ n * b \in Int /\ n * a <= n * b
<1>1. \A m \in Nat : n * m \in Nat
  OBVIOUS
<1>2. n * (b - a) \in Nat
  BY <1>1
<1>3. n * a \in Int /\ n * b \in Int /\ n * (b - a) = n * b - n * a
  OBVIOUS
<1> QED BY <1>2, <1>3

(* A rounded quotient is within one half of it, and exact if it can be.    *)
LEMMA RoundedIsNear ==
  ASSUME NEW a \in Nat, NEW n \in Nat \ {0}
  PROVE  /\ Rounded(a, n) \in Nat
         /\ 2 * a - n <= 2 * (n * Rounded(a, n)) /\ 2 * (n * Rounded(a, n)) <= 2 * a + n
         /\ \A k \in Nat : a = n * k => Rounded(a, n) = k
<1> DEFINE d == a \div n
           r == a % n
           x == Rounded(a, n)
<1>1. a = n * d + r /\ r \in 0 .. n - 1 /\ d \in Nat
  OBVIOUS
<1>2. x = IF 2 * r < n \/ (2 * r = n /\ d % 2 = 0) THEN d ELSE d + 1
  BY DEF Rounded
<1> HIDE DEF d, r, x
<1>3. n * (d + 1) = n * d + n /\ n * d \in Nat
  BY <1>1
<1>4. x \in Nat
  BY <1>1, <1>2
<1>5. ASSUME x = d PROVE 2 * a - n <= 2 * (n * x) /\ 2 * (n * x) <= 2 * a + n
  <2>1. 2 * r <= n \/ x = d + 1
    BY <1>1, <1>2
  <2>2. d # d + 1
    BY <1>1
  <2>3. 2 * r <= n
    BY <1>5, <2>1, <2>2
  <2> DEFINE m == n * d
  <2>4. m \in Nat /\ n * x = m /\ a = m + r
    BY <1>1, <1>3, <1>5
  <2> HIDE DEF m
  <2> QED BY <1>1, <2>3, <2>4
<1>6. ASSUME x = d + 1 PROVE 2 * a - n <= 2 * (n * x) /\ 2 * (n * x) <= 2 * a + n
  <2>1. d # d + 1
    BY <1>1
  <2>2. 2 * r >= n
    BY <1>1, <1>2, <1>6, <2>1
  <2> DEFINE m == n * d
  <2>3. m \in Nat /\ n * x = m + n /\ a = m + r
    BY <1>1, <1>3, <1>6
  <2> HIDE DEF m
  <2> QED BY <1>1, <2>2, <2>3
<1>7. 2 * a - n <= 2 * (n * x) /\ 2 * (n * x) <= 2 * a + n
  BY <1>2, <1>5, <1>6
<1>8. ASSUME NEW k \in Nat, a = n * k PROVE x = k
  <2>1. n * x \in Nat
    BY <1>4
  <2>2. CASE x < k
    <3>1. n * (x + 1) <= n * k
      BY <1>4, <2>2, ProductsGrow
    <3>2. n * (x + 1) = n * x + n
      BY <1>4
    <3>3. 2 * a - n <= 2 * (n * x)
      BY <1>7
    <3>4. n * x + n <= a
      BY <1>8, <3>1, <3>2
    <3> QED BY <2>1, <3>3, <3>4
  <2>3. CASE x > k
    <3>1. n * (k + 1) <= n * x
      BY <1>4, <2>3, ProductsGrow
    <3>2. n * (k + 1) = n * k + n
      OBVIOUS
    <3>3. 2 * (n * x) <= 2 * a + n
      BY <1>7
    <3>4. a + n <= n * x
      BY <1>8, <3>1, <3>2
    <3> QED BY <2>1, <3>3, <3>4
  <2> QED BY <1>4, <2>2, <2>3
<1> QED BY <1>4, <1>7, <1>8 DEF x

(* An even sample of a class has both ends, and its gaps are even          *)
(* (_even_sample).                                                         *)
Spread(c, r) == [i \in 1 .. r |-> 1 + Rounded((i - 1) * (c - 1), r - 1)]

(* The positions of an even sample are in order, from end to end.          *)
LEMMA SpreadIsEven ==
  ASSUME NEW c \in Nat, NEW r \in 2 .. c - 1
  PROVE  /\ Spread(c, r) \in [1 .. r -> 1 .. c]
         /\ Spread(c, r)[1] = 1 /\ Spread(c, r)[r] = c
         /\ \A i, j \in 1 .. r : i < j => Spread(c, r)[i] < Spread(c, r)[j]
         /\ \A i \in 1 .. r - 1 : (Spread(c, r)[i + 1] - Spread(c, r)[i] - 1) * (r - 1) < c - 1
<1> DEFINE n == r - 1
           D == c - 1
           A(i) == (i - 1) * D
           x(i) == Rounded(A(i), n)
           s == Spread(c, r)
<1>1. n \in Nat \ {0} /\ D \in Nat /\ D > n /\ r = n + 1 /\ c = D + 1 /\ r \in Nat
  OBVIOUS
<1>2. \A i \in 1 .. r : s[i] = 1 + x(i)
  BY DEF Spread
<1> HIDE DEF n, D
<1>3. \A i \in 1 .. r : A(i) \in Nat
  <2>1. \A m \in Nat : m * D \in Nat
    BY <1>1
  <2> QED BY <1>1, <2>1
<1>4. ASSUME NEW i \in 1 .. r
      PROVE  /\ x(i) \in Nat /\ n * x(i) \in Nat
             /\ 2 * A(i) - n <= 2 * (n * x(i)) /\ 2 * (n * x(i)) <= 2 * A(i) + n
             /\ \A k \in Nat : A(i) = n * k => x(i) = k
  <2>1. A(i) \in Nat
    BY <1>3
  <2> HIDE DEF A
  <2>2. /\ x(i) \in Nat
        /\ 2 * A(i) - n <= 2 * (n * x(i)) /\ 2 * (n * x(i)) <= 2 * A(i) + n
        /\ \A k \in Nat : A(i) = n * k => x(i) = k
    BY <1>1, <2>1, RoundedIsNear
  <2> HIDE DEF x
  <2>3. n * x(i) \in Nat
    BY <1>1, <2>2
  <2> QED BY <2>2, <2>3
<1>5. 1 \in 1 .. r /\ r \in 1 .. r /\ A(1) = n * 0 /\ A(r) = n * D
  <2>1. 0 * D = 0 /\ n * 0 = 0
    BY <1>1
  <2> QED BY <1>1, <2>1
<1>6. x(1) = 0 /\ x(r) = D
  <2> HIDE DEF x, A
  <2> QED BY <1>1, <1>4, <1>5
<1>7. ASSUME NEW i \in 1 .. r, NEW j \in 1 .. r, i < j PROVE A(j) >= A(i) + D
  <2>1. (j - 1) * D = (i - 1) * D + (j - i) * D /\ (j - i) * D = D + (j - i - 1) * D
    BY <1>1
  <2>2. \A m \in Nat : m * D \in Nat
    BY <1>1
  <2>3. (j - i - 1) * D \in Nat /\ (i - 1) * D \in Nat
    BY <1>1, <1>7, <2>2
  <2> QED BY <1>1, <2>1, <2>3
<1>8. ASSUME NEW i \in 1 .. r, NEW j \in 1 .. r, i < j PROVE x(i) < x(j)
  <2>1. A(j) >= A(i) + D /\ A(i) \in Nat /\ A(j) \in Nat
    BY <1>3, <1>7, <1>8
  <2>2. /\ x(i) \in Nat /\ n * x(i) \in Nat /\ 2 * (n * x(i)) <= 2 * A(i) + n
        /\ x(j) \in Nat /\ n * x(j) \in Nat /\ 2 * A(j) - n <= 2 * (n * x(j))
    BY <1>4
  <2> HIDE DEF A, x
  <2>3. n * x(i) < n * x(j)
    BY <1>1, <2>1, <2>2
  <2>4. CASE x(j) <= x(i)
    <3>1. n * x(j) <= n * x(i)
      BY <1>1, <2>2, <2>4, ProductsGrow
    <3> QED BY <2>2, <2>3, <3>1
  <2> QED BY <2>2, <2>4
<1>9. ASSUME NEW i \in 1 .. r - 1 PROVE n * (x(i + 1) - x(i) - 1) < D
  <2>1. i \in 1 .. r /\ i + 1 \in 1 .. r
    BY <1>1
  <2>2. A(i + 1) = A(i) + D /\ A(i) \in Nat
    <3>1. i * D = (i - 1) * D + D
      BY <1>1
    <3> QED BY <1>1, <1>3, <2>1, <3>1
  <2>3. /\ x(i) \in Nat /\ n * x(i) \in Nat /\ 2 * A(i) - n <= 2 * (n * x(i))
        /\ x(i + 1) \in Nat /\ n * x(i + 1) \in Nat /\ 2 * (n * x(i + 1)) <= 2 * A(i + 1) + n
    BY <1>4, <2>1
  <2> DEFINE g == x(i + 1) - x(i) - 1
  <2>4. n * g = n * x(i + 1) - n * x(i) - n
    <3> HIDE DEF x
    <3> QED BY <1>1, <2>3
  <2>5. n * g <= D
    <3> HIDE DEF x, A, g
    <3> QED BY <1>1, <2>2, <2>3, <2>4
  <2>6. CASE n * g = D
    <3>1. g \in Nat
      <4>1. x(i) < x(i + 1)
        BY <1>1, <1>8, <2>1
      <4> HIDE DEF x
      <4> QED BY <2>3, <4>1
    <3> HIDE DEF g
    <3>2. A(i) = n * ((i - 1) * g) /\ A(i + 1) = n * (i * g) /\ (i - 1) * g \in Nat /\ i * g \in Nat
      <4>1. i - 1 \in Nat /\ i \in Nat /\ i + 1 - 1 = i
        BY <1>1
      <4>2. (i - 1) * (n * g) = n * ((i - 1) * g) /\ i * (n * g) = n * (i * g)
        BY <1>1, <3>1, <4>1
      <4>3. (i - 1) * g \in Nat /\ i * g \in Nat
        BY <3>1, <4>1
      <4> QED BY <2>6, <4>1, <4>2, <4>3
    <3>3. x(i) = (i - 1) * g /\ x(i + 1) = i * g
      <4> HIDE DEF x, A
      <4> QED BY <1>4, <2>1, <3>2
    <3>4. i * g = (i - 1) * g + g
      BY <1>1, <3>1
    <3>5. g = x(i + 1) - x(i) - 1
      BY DEF g
    <3> HIDE DEF x
    <3> QED BY <2>3, <3>1, <3>3, <3>4, <3>5
  <2>7. n * g \in Int
    <3> HIDE DEF x, g
    <3> QED BY <1>1, <2>3, <2>4
  <2> HIDE DEF x
  <2> QED BY <1>1, <2>5, <2>6, <2>7
<1>10. s \in [1 .. r -> 1 .. c]
  <2>1. ASSUME NEW i \in 1 .. r PROVE 1 + x(i) \in 1 .. c
    <3>1. x(i) \in Nat
      BY <1>4
    <3>2. x(i) <= D
      <4>1. CASE i = r
        <5> HIDE DEF x
        <5> QED BY <1>1, <1>6, <4>1
      <4>2. CASE i # r
        <5>1. i < r
          BY <1>1, <4>2
        <5>2. x(i) < x(r)
          BY <1>5, <1>8, <5>1
        <5> HIDE DEF x
        <5> QED BY <1>1, <1>6, <3>1, <5>2
      <4> QED BY <4>1, <4>2
    <3> HIDE DEF x
    <3> QED BY <1>1, <3>1, <3>2
  <2>2. s = [i \in 1 .. r |-> s[i]]
    BY DEF Spread
  <2> HIDE DEF s, x
  <2> QED BY <1>2, <2>1, <2>2
<1> HIDE DEF x, s
<1>11. s[1] = 1 /\ s[r] = c
  BY <1>1, <1>2, <1>5, <1>6
<1>12. \A i, j \in 1 .. r : i < j => s[i] < s[j]
  <2>1. \A i \in 1 .. r : x(i) \in Nat
    BY <1>4
  <2> QED BY <1>2, <1>8, <2>1
<1>13. ASSUME NEW i \in 1 .. r - 1 PROVE (s[i + 1] - s[i] - 1) * (r - 1) < c - 1
  <2>1. i \in 1 .. r /\ i + 1 \in 1 .. r
    BY <1>1
  <2>2. s[i + 1] - s[i] - 1 = x(i + 1) - x(i) - 1 /\ x(i + 1) - x(i) - 1 \in Int
    BY <1>2, <1>4, <2>1
  <2>3. (x(i + 1) - x(i) - 1) * (r - 1) = n * (x(i + 1) - x(i) - 1)
    <3>1. \A g \in Int : g * (r - 1) = n * g
      BY <1>1
    <3> QED BY <2>2, <3>1
  <2> QED BY <1>1, <1>9, <2>2, <2>3
<1> QED BY <1>10, <1>11, <1>12, <1>13 DEF s

(* The positions of a class of c files that are taken when r fit.          *)
Picked(c, r) ==
  IF r <= 0 THEN {} ELSE IF c <= r THEN 1 .. c ELSE IF r = 1 THEN {1} ELSE Range(Spread(c, r))

IsSpread(c, r, K) ==
  /\ K \in SUBSET (1 .. c) /\ IsFiniteSet(K)
  /\ Cardinality(K) = (IF r <= 0 THEN 0 ELSE Smaller(r, c))
  /\ (K # 1 .. c /\ Cardinality(K) > 1) =>
       /\ {1, c} \subseteq K
       /\ \A i, j \in K : (i < j /\ \A k \in i + 1 .. j - 1 : k \notin K) =>
            (j - i - 1) * (Cardinality(K) - 1) < c - 1

(* What is taken of a class has both ends of it, and its gaps are even.    *)
LEMMA PickedIsSpread ==
  ASSUME NEW c \in Nat, NEW r \in Int
  PROVE  IsSpread(c, r, Picked(c, r))
<1> DEFINE K == Picked(c, r)
<1>1. ASSUME r <= 0 PROVE IsSpread(c, r, K)
  <2>1. K = {} /\ IsFiniteSet({}) /\ Cardinality({}) = 0
    BY <1>1, FS_EmptySet DEF Picked
  <2> HIDE DEF K
  <2> QED BY <1>1, <2>1 DEF IsSpread
<1>2. ASSUME r > 0 /\ c <= r PROVE IsSpread(c, r, K)
  <2>1. K = 1 .. c /\ IsFiniteSet(1 .. c) /\ Cardinality(1 .. c) = c
    BY <1>2, CountTo DEF Picked
  <2> HIDE DEF K
  <2>2. Smaller(r, c) = c /\ ~(r <= 0)
    BY <1>2 DEF Smaller
  <2> QED BY <2>1, <2>2 DEF IsSpread
<1>3. ASSUME r = 1 /\ c > r PROVE IsSpread(c, r, K)
  <2>1. K = {1} /\ 1 \in 1 .. c
    BY <1>3 DEF Picked
  <2>3. IsFiniteSet({1}) /\ Cardinality({1}) = 1
    BY FS_Singleton
  <2> HIDE DEF K
  <2>2. Smaller(r, c) = 1 /\ ~(r <= 0) /\ ~(1 > 1)
    BY <1>3 DEF Smaller
  <2> QED BY <2>1, <2>2, <2>3 DEF IsSpread
<1>4. ASSUME r > 1 /\ c > r PROVE IsSpread(c, r, K)
  <2> DEFINE s == Spread(c, r)
  <2>1. r \in 2 .. c - 1 /\ r \in Nat
    BY <1>4
  <2>2. K = Range(s)
    BY <1>4 DEF Picked
  <2>3. /\ s \in [1 .. r -> 1 .. c] /\ s[1] = 1 /\ s[r] = c
        /\ \A i, j \in 1 .. r : i < j => s[i] < s[j]
        /\ \A i \in 1 .. r - 1 : (s[i + 1] - s[i] - 1) * (r - 1) < c - 1
    BY <2>1, SpreadIsEven
  <2> HIDE DEF s, K
  <2>4. K \in SUBSET (1 .. c) /\ \A k \in K : \E i \in 1 .. r : s[i] = k
    BY <2>2, <2>3 DEF Range
  <2>5. \A i \in 1 .. r : s[i] \in K /\ s[i] \in Int
    BY <2>2, <2>3 DEF Range
  <2>6. IsFiniteSet(K) /\ Cardinality(K) = r
    <3>1. s \in Bijection(1 .. r, K)
      <4>1. \A i, j \in 1 .. r : s[i] = s[j] => i = j
        <5>1. ASSUME NEW i \in 1 .. r, NEW j \in 1 .. r, i # j PROVE s[i] # s[j]
          <6>1. i < j \/ j < i
            BY <5>1
          <6>2. s[i] < s[j] \/ s[j] < s[i]
            BY <2>3, <6>1
          <6> QED BY <2>5, <6>2
        <5> QED BY <5>1
      <4>2. s \in [1 .. r -> K]
        BY <2>3, <2>5
      <4> QED BY <2>4, <4>1, <4>2 DEF Bijection, Injection, Surjection, IsInjective
    <3>2. ExistsBijection(1 .. r, K)
      BY <3>1 DEF ExistsBijection
    <3>3. IsFiniteSet(1 .. r) /\ Cardinality(1 .. r) = r
      BY <2>1, CountTo
    <3> QED BY <3>2, <3>3, FS_Bijection
  <2>7. 1 \in K /\ c \in K
    <3>1. 1 \in 1 .. r /\ r \in 1 .. r
      BY <2>1
    <3> QED BY <2>3, <2>5, <3>1
  <2>8. ASSUME NEW i \in K, NEW j \in K, i < j, \A k \in i + 1 .. j - 1 : k \notin K
        PROVE  (j - i - 1) * (r - 1) < c - 1
    <3>1. PICK a \in 1 .. r : s[a] = i
      BY <2>4
    <3>2. PICK b \in 1 .. r : s[b] = j
      BY <2>4
    <3>3. a < b
      <4>1. b < a => s[b] < s[a]
        BY <2>3
      <4>2. i \in Int /\ j \in Int
        BY <2>5, <3>1, <3>2
      <4> QED BY <2>8, <3>1, <3>2, <4>1, <4>2
    <3>4. b = a + 1
      <4> SUFFICES ASSUME b # a + 1 PROVE FALSE
        OBVIOUS
      <4>1. a + 1 \in 1 .. r /\ a < a + 1 /\ a + 1 < b
        BY <2>1, <3>3
      <4>2. s[a] < s[a + 1] /\ s[a + 1] < s[b] /\ s[a + 1] \in Int /\ s[a] \in Int /\ s[b] \in Int
        BY <2>3, <2>5, <4>1
      <4>3. s[a + 1] \in i + 1 .. j - 1
        BY <3>1, <3>2, <4>2
      <4> QED BY <2>5, <2>8, <4>1, <4>3
    <3>5. a \in 1 .. r - 1
      BY <2>1, <3>4
    <3> QED BY <2>3, <3>1, <3>2, <3>4, <3>5
  <2>9. Smaller(r, c) = r /\ ~(r <= 0)
    BY <1>4 DEF Smaller
  <2> QED BY <2>4, <2>6, <2>7, <2>8, <2>9 DEF IsSpread
<1> QED BY <1>1, <1>2, <1>3, <1>4

(* The files of one priority are a class, in their order.                  *)
LEMMA ClassIsAList ==
  ASSUME NEW files, IsList(files), NEW p
  PROVE  /\ OfPriority(files, p) \in Seq(Range(files)) /\ IsInjective(OfPriority(files, p))
         /\ Len(OfPriority(files, p)) \in Nat
         /\ DOMAIN OfPriority(files, p) = 1 .. Len(OfPriority(files, p))
         /\ Len(OfPriority(files, p)) = Cardinality({i \in DOMAIN files : files[i].priority = p})
         /\ \A k \in DOMAIN OfPriority(files, p) : /\ OfPriority(files, p)[k] \in Range(files)
                                                   /\ OfPriority(files, p)[k].priority = p
         /\ \A f \in Range(files) : f.priority = p => f \in Range(OfPriority(files, p))
<1> DEFINE P == {i \in DOMAIN files : files[i].priority = p}
           C == AtPositions(files, P)
<1>1. files \in Seq(Range(files)) /\ IsInjective(files)
  BY DEF IsList
<1>2. P \in SUBSET DOMAIN files
  OBVIOUS
<1> HIDE DEF P
<1>3. C \in Seq(Range(files)) /\ Len(C) = Cardinality(P)
  BY <1>1, <1>2, AtPositionsIsSubsequence
<1>4. Range(C) = {files[i] : i \in P} /\ ((\A a, b \in P : files[a] = files[b] => a = b) => IsInjective(C))
  BY <1>1, <1>2, KeptElements
<1>5. \A a, b \in P : files[a] = files[b] => a = b
  BY <1>1, <1>2 DEF IsInjective
<1>6. OfPriority(files, p) = C
  BY DEF OfPriority, P
<1> HIDE DEF C
<1>7. Len(C) \in Nat /\ DOMAIN C = 1 .. Len(C)
  BY <1>3, LenProperties
<1>8. \A k \in DOMAIN C : C[k] \in Range(files) /\ C[k].priority = p
  <2>1. ASSUME NEW k \in DOMAIN C PROVE C[k] \in Range(files) /\ C[k].priority = p
    <3>1. C[k] \in Range(C)
      BY DEF Range
    <3>2. PICK i \in P : C[k] = files[i]
      BY <1>4, <3>1
    <3> QED BY <3>2 DEF P, Range
  <2> QED BY <2>1
<1>9. \A f \in Range(files) : f.priority = p => f \in Range(C)
  BY <1>4 DEF P, Range
<1>10. Len(C) = Cardinality({i \in DOMAIN files : files[i].priority = p})
  BY <1>3 DEF P
<1> QED BY <1>3, <1>4, <1>5, <1>6, <1>7, <1>8, <1>9, <1>10

(* The share of a class is what is picked of it (_bounded_file_sample).    *)
LEMMA ShareIsPicked ==
  ASSUME NEW files, IsList(files), NEW p, Taken(files, p) \in Nat,
         NEW C, C = OfPriority(files, p), NEW r, r = MaxFiles - Taken(files, p)
  PROVE  Range(Share(files, p)) = {C[k] : k \in Picked(Len(C), r)}
<1>1. C \in Seq(Range(files)) /\ Len(C) \in Nat /\ DOMAIN C = 1 .. Len(C)
  BY ClassIsAList
<1>2. MaxFiles \in Nat /\ r \in Int
  BY RetrievalAssumption
<1>3. Share(files, p) = IF r <= 0 THEN <<>> ELSE IF Len(C) <= r THEN C ELSE EvenSample(C, r)
  BY DEF Share
<1>4. CASE r <= 0
  BY <1>3, <1>4 DEF Picked, Range
<1>5. CASE r > 0 /\ Len(C) <= r
  <2>1. Share(files, p) = C /\ Picked(Len(C), r) = 1 .. Len(C)
    BY <1>2, <1>3, <1>5 DEF Picked
  <2> QED BY <1>1, <2>1 DEF Range
<1>6. CASE r = 1 /\ Len(C) > r
  <2>1. Share(files, p) = <<C[1]>> /\ Picked(Len(C), r) = {1}
    BY <1>1, <1>3, <1>6 DEF Picked, EvenSample
  <2> QED BY <2>1 DEF Range
<1>7. CASE r > 1 /\ Len(C) > r
  <2> DEFINE s == Spread(Len(C), r)
  <2>1. Share(files, p) = EvenSample(C, r) /\ Picked(Len(C), r) = Range(s)
    BY <1>1, <1>2, <1>3, <1>7 DEF Picked
  <2>2. EvenSample(C, r) = [i \in 1 .. r |-> C[s[i]]]
    <3>1. EvenSample(C, r) = [i \in 1 .. r |-> C[1 + Rounded((i - 1) * (Len(C) - 1), r - 1)]]
      BY <1>2, <1>7 DEF EvenSample
    <3>2. \A i \in 1 .. r : s[i] = 1 + Rounded((i - 1) * (Len(C) - 1), r - 1)
      BY DEF Spread
    <3> HIDE DEF s
    <3> QED BY <3>1, <3>2
  <2>3. DOMAIN s = 1 .. r
    BY DEF Spread
  <2> HIDE DEF s
  <2> QED BY <2>1, <2>2, <2>3 DEF Range
<1> QED BY <1>1, <1>2, <1>4, <1>5, <1>6, <1>7

(* The classes before a later one take more, by the size of this one.      *)
LEMMA ClassesAddUp ==
  ASSUME NEW files, IsList(files), \A f \in Range(files) : f.priority \in Nat, NEW p \in Nat
  PROVE  /\ Taken(files, p) \in Nat
         /\ Taken(files, p + 1) = Taken(files, p) + Len(OfPriority(files, p))
         /\ \A w \in Nat : w > p => Taken(files, w) >= Taken(files, p + 1)
<1> DEFINE B(k) == {i \in DOMAIN files : files[i].priority < k}
           A == {i \in DOMAIN files : files[i].priority = p}
<1>1. \A i \in DOMAIN files : files[i].priority \in Nat
  BY DEF Range
<1>2. IsFiniteSet(DOMAIN files)
  <2>1. files \in Seq(Range(files))
    BY DEF IsList
  <2>2. DOMAIN files = 1 .. Len(files) /\ Len(files) \in Nat
    BY <2>1, LenProperties
  <2> QED BY <2>2, CountTo
<1>3. \A k : B(k) \in SUBSET DOMAIN files /\ IsFiniteSet(B(k)) /\ Cardinality(B(k)) \in Nat
  <2>1. \A k : B(k) \in SUBSET DOMAIN files
    OBVIOUS
  <2> HIDE DEF B
  <2> QED BY <1>2, <2>1, FS_Subset, FS_CardinalityType
<1>4. IsFiniteSet(A) /\ Cardinality(A) \in Nat
  <2>1. A \in SUBSET DOMAIN files
    OBVIOUS
  <2> HIDE DEF A
  <2> QED BY <1>2, <2>1, FS_Subset, FS_CardinalityType
<1>5. \A k : Taken(files, k) = Cardinality(B(k))
  BY DEF Taken
<1>6. Len(OfPriority(files, p)) = Cardinality(A)
  BY ClassIsAList
<1>7. B(p + 1) = B(p) \cup A /\ B(p) \cap A = {}
  BY <1>1
<1>8. \A w \in Nat : w > p => B(p + 1) \in SUBSET B(w)
  BY <1>1
<1> HIDE DEF A, B
<1>9. Cardinality(B(p + 1)) = Cardinality(B(p)) + Cardinality(A)
  <2>1. Cardinality(B(p) \cup A) = Cardinality(B(p)) + Cardinality(A) - Cardinality(B(p) \cap A)
    BY <1>3, <1>4, FS_Union
  <2>2. Cardinality(B(p) \cap A) = 0
    BY <1>7, FS_EmptySet
  <2>3. Cardinality(B(p)) \in Nat /\ Cardinality(A) \in Nat
    BY <1>3, <1>4
  <2>4. Cardinality(B(p + 1)) = Cardinality(B(p) \cup A)
    BY <1>7
  <2> QED BY <2>1, <2>2, <2>3, <2>4
<1>10. \A w \in Nat : w > p => Cardinality(B(p + 1)) <= Cardinality(B(w))
  BY <1>3, <1>8, FS_Subset
<1>11. \A k : Cardinality(B(k)) \in Nat
  BY <1>3
<1> QED BY <1>5, <1>6, <1>9, <1>10, <1>11

(* What a selection of each class adds up to, when the classes share a     *)
(* number of places in turn.                                               *)
LEMMA SharesFill ==
  ASSUME NEW m \in Nat, NEW t \in Nat, NEW c \in Nat
  PROVE  Smaller(m, t) + (IF m - t <= 0 THEN 0 ELSE Smaller(m - t, c)) = Smaller(m, t + c)
BY DEF Smaller

(* No class begins after some number.                                      *)
LEMMA PrioritiesEnd ==
  ASSUME NEW files, IsList(files), \A f \in Range(files) : f.priority \in Nat
  PROVE  \E b \in Nat : \A f \in Range(files) : f.priority < b
<1> DEFINE n == Len(files)
           T == {i \in 0 .. n : \E b \in Nat : \A j \in 1 .. i : files[j].priority < b}
<1>1. files \in Seq(Range(files))
  BY DEF IsList
<1>2. n \in Nat /\ DOMAIN files = 1 .. n
  BY <1>1, LenProperties
<1>3. \A i \in 1 .. n : files[i].priority \in Nat
  BY <1>2 DEF Range
<1> HIDE DEF n
<1>4. 0 \in T
  <2>1. 0 \in Nat /\ \A j \in 1 .. 0 : files[j].priority < 0
    OBVIOUS
  <2> QED BY <1>2, <2>1
<1>5. ASSUME NEW i \in 1 .. n, i - 1 \in T PROVE i \in T
  <2>1. PICK b \in Nat : \A j \in 1 .. i - 1 : files[j].priority < b
    BY <1>5
  <2> DEFINE d == IF b > files[i].priority THEN b ELSE files[i].priority + 1
  <2>2. d \in Nat /\ d >= b /\ d > files[i].priority
    BY <1>3
  <2> HIDE DEF d
  <2>3. ASSUME NEW j \in 1 .. i PROVE files[j].priority < d
    <3>1. j = i \/ j \in 1 .. i - 1
      OBVIOUS
    <3>2. j \in 1 .. n
      BY <1>2
    <3> QED BY <1>3, <2>1, <2>2, <3>1, <3>2
  <2> QED BY <1>2, <2>2, <2>3
<1>6. n \in T
  <2>1. 0 .. n \subseteq T
    <3> HIDE DEF T
    <3> QED BY <1>2, <1>4, <1>5, UpToNumber
  <2>2. n \in 0 .. n
    BY <1>2
  <2> HIDE DEF T
  <2> QED BY <2>1, <2>2
<1>7. PICK b \in Nat : \A j \in 1 .. n : files[j].priority < b
  BY <1>6
<1> QED BY <1>2, <1>7 DEF Range

(* Each file that is taken is one picked of its own class.                 *)
LEMMA TakenOfItsClass ==
  ASSUME NEW files, IsList(files), \A f \in Range(files) : f.priority \in Nat, Len(files) > MaxFiles
  PROVE  /\ Sample(files) \in SUBSET Range(files)
         /\ \A p \in Nat : \A k \in DOMAIN OfPriority(files, p) :
              OfPriority(files, p)[k] \in Sample(files) <=>
                k \in Picked(Len(OfPriority(files, p)), MaxFiles - Taken(files, p))
         /\ \A f \in Sample(files) : \E k \in DOMAIN OfPriority(files, f.priority) :
              f = OfPriority(files, f.priority)[k]
<1> DEFINE C(p) == OfPriority(files, p)
           K(p) == Picked(Len(C(p)), MaxFiles - Taken(files, p))
           P == {f.priority : f \in Range(files)}
<1>1. \A p : /\ IsInjective(C(p)) /\ Len(C(p)) \in Nat /\ DOMAIN C(p) = 1 .. Len(C(p))
             /\ \A k \in DOMAIN C(p) : C(p)[k] \in Range(files) /\ C(p)[k].priority = p
  BY ClassIsAList
<1>2. MaxFiles \in Nat /\ Len(files) \in Nat
  <2>1. files \in Seq(Range(files))
    BY DEF IsList
  <2> QED BY <2>1, RetrievalAssumption, LenProperties
<1>3. Sample(files) = UNION {Range(Share(files, p)) : p \in P}
  <2>1. ~(Len(files) <= MaxFiles)
    BY <1>2
  <2> QED BY <2>1 DEF Sample
<1>4. ASSUME NEW p \in Nat PROVE Range(Share(files, p)) = {C(p)[k] : k \in K(p)} /\ K(p) \in SUBSET DOMAIN C(p)
  <2>1. Taken(files, p) \in Nat
    BY ClassesAddUp
  <2>2. MaxFiles - Taken(files, p) \in Int
    BY <1>2, <2>1
  <2>3. Range(Share(files, p)) = {C(p)[k] : k \in K(p)}
    BY <2>1, ShareIsPicked
  <2>4. Len(C(p)) \in Nat /\ DOMAIN C(p) = 1 .. Len(C(p))
    BY <1>1
  <2>5. IsSpread(Len(C(p)), MaxFiles - Taken(files, p), K(p))
    <3> HIDE DEF C
    <3> QED BY <2>2, <2>4, PickedIsSpread
  <2> QED BY <2>3, <2>4, <2>5 DEF IsSpread
<1>5. P \in SUBSET Nat
  OBVIOUS
<1> HIDE DEF C, K
<1>6. ASSUME NEW f \in Sample(files)
      PROVE  /\ f \in Range(files) /\ f.priority \in Nat
             /\ \E k \in K(f.priority) : k \in DOMAIN C(f.priority) /\ f = C(f.priority)[k]
  <2>1. PICK p \in P : f \in Range(Share(files, p))
    BY <1>3
  <2>2. p \in Nat
    BY <1>5, <2>1
  <2>3. PICK k \in K(p) : f = C(p)[k] /\ k \in DOMAIN C(p)
    BY <1>4, <2>1, <2>2
  <2>4. f \in Range(files) /\ f.priority = p
    BY <1>1, <2>3
  <2> QED BY <2>2, <2>3, <2>4
<1>7. ASSUME NEW p \in Nat, NEW k \in DOMAIN C(p) PROVE C(p)[k] \in Sample(files) <=> k \in K(p)
  <2>1. C(p)[k].priority = p /\ C(p)[k] \in Range(files)
    BY <1>1
  <2>2. ASSUME C(p)[k] \in Sample(files) PROVE k \in K(p)
    <3>1. PICK j \in K(p) : j \in DOMAIN C(p) /\ C(p)[k] = C(p)[j]
      BY <1>6, <2>1, <2>2
    <3>2. j = k
      BY <1>1, <3>1 DEF IsInjective
    <3> QED BY <3>1, <3>2
  <2>3. ASSUME k \in K(p) PROVE C(p)[k] \in Sample(files)
    <3>1. C(p)[k] \in Range(Share(files, p))
      BY <1>4, <2>3
    <3>2. p \in P
      BY <2>1
    <3> QED BY <1>3, <3>1, <3>2
  <2> QED BY <2>2, <2>3
<1>8. \A p \in Nat : \A k \in DOMAIN OfPriority(files, p) :
        OfPriority(files, p)[k] \in Sample(files) <=>
          k \in Picked(Len(OfPriority(files, p)), MaxFiles - Taken(files, p))
  BY <1>7 DEF C, K
<1>9. \A f \in Sample(files) : f \in Range(files) /\ \E k \in DOMAIN C(f.priority) : f = C(f.priority)[k]
  BY <1>6
<1> QED BY <1>8, <1>9 DEF C

(* The classes fill the number of files in turn.                           *)
LEMMA SampleIsFull ==
  ASSUME NEW files, IsList(files), \A f \in Range(files) : f.priority \in Nat, Len(files) > MaxFiles
  PROVE  Cardinality(Sample(files)) = MaxFiles
<1> DEFINE C(p) == OfPriority(files, p)
           r(p) == MaxFiles - Taken(files, p)
           K(p) == Picked(Len(C(p)), r(p))
           S(p) == {f \in Sample(files) : f.priority < p}
           E(p) == {f \in Sample(files) : f.priority = p}
<1>1. MaxFiles \in Nat /\ Len(files) \in Nat /\ DOMAIN files = 1 .. Len(files)
  <2>1. files \in Seq(Range(files))
    BY DEF IsList
  <2> QED BY <2>1, RetrievalAssumption, LenProperties
<1>2. /\ \A f \in Sample(files) : f \in Range(files) /\ f.priority \in Nat
      /\ \A p \in Nat : \A k \in DOMAIN C(p) : C(p)[k] \in Sample(files) <=> k \in K(p)
      /\ \A f \in Sample(files) : \E k \in DOMAIN C(f.priority) : f = C(f.priority)[k]
  BY TakenOfItsClass
<1>3. \A p \in Nat : Taken(files, p) \in Nat /\ Taken(files, p + 1) = Taken(files, p) + Len(C(p))
  BY ClassesAddUp
<1>4. ASSUME NEW p \in Nat
      PROVE  /\ IsFiniteSet(E(p)) /\ Cardinality(E(p)) = (IF r(p) <= 0 THEN 0 ELSE Smaller(r(p), Len(C(p))))
             /\ Len(C(p)) \in Nat /\ r(p) \in Int
  <2>1. /\ Len(C(p)) \in Nat /\ DOMAIN C(p) = 1 .. Len(C(p)) /\ IsInjective(C(p))
        /\ \A k \in DOMAIN C(p) : C(p)[k].priority = p
    BY ClassIsAList
  <2>2. r(p) \in Int
    <3>1. Taken(files, p) \in Nat
      BY <1>3
    <3> QED BY <1>1, <3>1
  <2>3. IsSpread(Len(C(p)), r(p), K(p))
    <3> HIDE DEF C, r
    <3> QED BY <2>1, <2>2, PickedIsSpread
  <2>4. /\ K(p) \in SUBSET DOMAIN C(p) /\ IsFiniteSet(K(p))
        /\ Cardinality(K(p)) = (IF r(p) <= 0 THEN 0 ELSE Smaller(r(p), Len(C(p))))
    BY <2>1, <2>3 DEF IsSpread
  <2> HIDE DEF C, K, r
  <2> DEFINE g == [k \in K(p) |-> C(p)[k]]
  <2>5. \A k \in K(p) : C(p)[k] \in E(p)
    BY <1>2, <2>1, <2>4
  <2>6. \A f \in E(p) : \E k \in K(p) : f = C(p)[k]
    <3>1. ASSUME NEW f \in E(p) PROVE \E k \in K(p) : f = C(p)[k]
      <4>1. f \in Sample(files) /\ f.priority = p
        OBVIOUS
      <4>2. PICK k \in DOMAIN C(p) : f = C(p)[k]
        BY <1>2, <4>1
      <4> QED BY <1>2, <4>1, <4>2
    <3> QED BY <3>1
  <2> HIDE DEF E
  <2>7. g \in Bijection(K(p), E(p))
    <3>1. g \in [K(p) -> E(p)]
      BY <2>5
    <3>2. \A a, b \in K(p) : g[a] = g[b] => a = b
      BY <2>1, <2>4 DEF IsInjective
    <3>3. \A f \in E(p) : \E k \in K(p) : g[k] = f
      BY <2>6
    <3> HIDE DEF g
    <3> QED BY <3>1, <3>2, <3>3 DEF Bijection, Injection, Surjection, IsInjective
  <2>8. ExistsBijection(K(p), E(p))
    BY <2>7 DEF ExistsBijection
  <2>9. IsFiniteSet(E(p)) /\ Cardinality(E(p)) = Cardinality(K(p))
    BY <2>4, <2>8, FS_Bijection
  <2> QED BY <2>1, <2>2, <2>4, <2>9
<1>5. PICK b \in Nat : \A f \in Range(files) : f.priority < b
  BY PrioritiesEnd
<1> DEFINE T == {p \in 0 .. b : IsFiniteSet(S(p)) /\ Cardinality(S(p)) = Smaller(MaxFiles, Taken(files, p))}
<1>6. 0 \in T
  <2>1. S(0) = {}
    BY <1>2
  <2>2. Taken(files, 0) = 0
    <3>1. {i \in DOMAIN files : files[i].priority < 0} = {}
      BY DEF Range
    <3> QED BY <3>1, FS_EmptySet DEF Taken
  <2>3. Smaller(MaxFiles, 0) = 0 /\ 0 \in 0 .. b
    BY <1>1 DEF Smaller
  <2> HIDE DEF S
  <2> QED BY <2>1, <2>2, <2>3, FS_EmptySet
<1>7. ASSUME NEW p \in 1 .. b, p - 1 \in T PROVE p \in T
  <2> DEFINE o == p - 1
             t == Taken(files, o)
             c == Len(C(o))
  <2>1. o \in Nat /\ p = o + 1 /\ p \in 0 .. b
    OBVIOUS
  <2>2. IsFiniteSet(S(o)) /\ Cardinality(S(o)) = Smaller(MaxFiles, t)
    BY <1>7
  <2> HIDE DEF o
  <2>3. IsFiniteSet(E(o)) /\ Cardinality(E(o)) = (IF r(o) <= 0 THEN 0 ELSE Smaller(r(o), c)) /\ c \in Nat
    BY <1>4, <2>1
  <2>4. S(p) = S(o) \cup E(o) /\ S(o) \cap E(o) = {}
    <3>1. \A f \in Sample(files) : f.priority < p <=> f.priority < o \/ f.priority = o
      BY <1>2, <2>1
    <3>2. \A f \in Sample(files) : ~(f.priority < o /\ f.priority = o)
      BY <1>2, <2>1
    <3> QED BY <3>1, <3>2
  <2>5. t \in Nat /\ Taken(files, p) = t + c
    BY <1>3, <2>1
  <2>6. Smaller(MaxFiles, t) + (IF MaxFiles - t <= 0 THEN 0 ELSE Smaller(MaxFiles - t, c)) = Smaller(MaxFiles, t + c)
    <3> HIDE DEF t, c
    <3> QED BY <1>1, <2>3, <2>5, SharesFill
  <2> HIDE DEF S, E, t, c
  <2>7. IsFiniteSet(S(o) \cup E(o)) /\ Cardinality(S(o) \cup E(o)) =
          Cardinality(S(o)) + Cardinality(E(o)) - Cardinality(S(o) \cap E(o))
    BY <2>2, <2>3, FS_Union
  <2>8. Cardinality(S(o) \cap E(o)) = 0 /\ Cardinality(S(o)) \in Nat /\ Cardinality(E(o)) \in Nat
    BY <2>2, <2>3, <2>4, FS_EmptySet, FS_CardinalityType
  <2>9. r(o) = MaxFiles - t
    BY DEF t
  <2>10. IsFiniteSet(S(p)) /\ Cardinality(S(p)) = Cardinality(S(o)) + Cardinality(E(o))
    BY <2>4, <2>7, <2>8
  <2> HIDE DEF r
  <2>11. Cardinality(S(p)) = Smaller(MaxFiles, Taken(files, p))
    BY <2>2, <2>3, <2>5, <2>6, <2>9, <2>10
  <2> QED BY <2>1, <2>10, <2>11
<1>8. b \in T
  <2>1. 0 .. b \subseteq T
    <3> HIDE DEF T
    <3> QED BY <1>6, <1>7, UpToNumber
  <2>2. b \in 0 .. b
    OBVIOUS
  <2> HIDE DEF T
  <2> QED BY <2>1, <2>2
<1>9. S(b) = Sample(files)
  BY <1>2, <1>5
<1>10. Taken(files, b) = Len(files)
  <2>1. {i \in DOMAIN files : files[i].priority < b} = 1 .. Len(files)
    BY <1>1, <1>5 DEF Range
  <2> QED BY <1>1, <2>1, CountTo DEF Taken
<1>11. Cardinality(S(b)) = Smaller(MaxFiles, Taken(files, b))
  <2> HIDE DEF S
  <2> QED BY <1>8
<1> HIDE DEF S, T
<1>12. Smaller(MaxFiles, Len(files)) = MaxFiles
  <2> DEFINE n == Len(files)
  <2>1. n \in Nat /\ n > MaxFiles
    BY <1>1
  <2> HIDE DEF n
  <2>2. Smaller(MaxFiles, n) = MaxFiles
    BY <1>1, <2>1 DEF Smaller
  <2> QED BY <2>2 DEF n
<1> QED BY <1>9, <1>10, <1>11, <1>12

(* A sample of a large repository is fair to its classes                   *)
(* (_bounded_file_sample).                                                 *)
LEMMA SampleIsFair ==
  ASSUME NEW q \in Questions, q.about = "sample", result = Answer(q)
  PROVE  SampleIsSpread(q)
<1> DEFINE files == q.files
           C(p) == OfPriority(files, p)
           Out(p) == {i \in DOMAIN C(p) : C(p)[i] \notin result}
           In(p) == DOMAIN C(p) \ Out(p)
           P == {f.priority : f \in Range(files)}
           Fair(p) == /\ \A worse \in P : worse > p => In(worse) = {}
                      /\ Cardinality(In(p)) > 1 =>
                           /\ {1, Len(C(p))} \subseteq In(p)
                           /\ \A i, j \in In(p) : (i < j /\ \A k \in i + 1 .. j - 1 : k \in Out(p)) =>
                                (j - i - 1) * (Cardinality(In(p)) - 1) < Len(C(p)) - 1
<1>1. IsList(files) /\ \A f \in Range(files) : f.priority \in Nat
  BY RetrievalAssumption DEF IsQuestion
<1>2. MaxFiles \in Nat /\ Len(files) \in Nat /\ files \in Seq(Range(files)) /\ IsInjective(files)
  <2>1. files \in Seq(Range(files)) /\ IsInjective(files)
    BY <1>1 DEF IsList
  <2> QED BY <2>1, RetrievalAssumption, LenProperties
<1>3. result = Sample(files)
  BY DEF Answer
<1> HIDE DEF files
<1>4. \A p : /\ Len(C(p)) \in Nat /\ DOMAIN C(p) = 1 .. Len(C(p))
             /\ \A k \in DOMAIN C(p) : C(p)[k] \in Range(files)
  BY <1>1, ClassIsAList
<1> HIDE DEF C
<1>5. result \subseteq Range(files) /\ Cardinality(result) = Smaller(MaxFiles, Len(files))
  <2>1. CASE Len(files) <= MaxFiles
    <3>1. result = Range(files)
      BY <1>3, <2>1 DEF Sample
    <3>2. Cardinality(Range(files)) = Len(files)
      BY <1>2, ListsCount
    <3>3. Smaller(MaxFiles, Len(files)) = Len(files)
      <4> DEFINE n == Len(files)
      <4> HIDE DEF n
      <4>1. (n \in Nat /\ n <= MaxFiles) => Smaller(MaxFiles, n) = n
        BY <1>2 DEF Smaller
      <4> QED BY <1>2, <2>1, <4>1 DEF n
    <3> QED BY <3>1, <3>2, <3>3
  <2>2. CASE Len(files) > MaxFiles
    <3>1. Sample(files) \in SUBSET Range(files) /\ Cardinality(Sample(files)) = MaxFiles
      BY <1>1, <2>2, TakenOfItsClass, SampleIsFull
    <3>2. Smaller(MaxFiles, Len(files)) = MaxFiles
      <4> DEFINE n == Len(files)
      <4> HIDE DEF n
      <4>1. (n \in Nat /\ n > MaxFiles) => Smaller(MaxFiles, n) = MaxFiles
        BY <1>2 DEF Smaller
      <4> QED BY <1>2, <2>2, <4>1 DEF n
    <3> QED BY <1>3, <3>1, <3>2
  <2> QED BY <1>2, <2>1, <2>2
<1>6. ASSUME NEW p \in P, Out(p) # {} PROVE Fair(p)
  <2> DEFINE r(w) == MaxFiles - Taken(files, w)
             K(w) == Picked(Len(C(w)), r(w))
  <2>1. p \in Nat
    BY <1>1
  <2>2. Len(files) > MaxFiles
    <3> SUFFICES ASSUME Len(files) <= MaxFiles PROVE FALSE
      BY <1>2
    <3>1. result = Range(files)
      BY <1>3 DEF Sample
    <3> QED BY <1>4, <1>6, <3>1
  <2>3. \A w \in Nat : \A k \in DOMAIN C(w) : C(w)[k] \in result <=> k \in K(w)
    BY <1>1, <1>3, <2>2, TakenOfItsClass DEF C
  <2>4. /\ \A w \in Nat : Taken(files, w) \in Nat
        /\ Taken(files, p + 1) = Taken(files, p) + Len(C(p))
        /\ \A w \in Nat : w > p => Taken(files, w) >= Taken(files, p + 1)
    BY <1>1, <2>1, ClassesAddUp DEF C
  <2>5. ASSUME NEW w \in Nat PROVE IsSpread(Len(C(w)), r(w), K(w)) /\ r(w) \in Int
    <3>1. Taken(files, w) \in Nat
      BY <2>4
    <3>2. r(w) \in Int
      BY <1>2, <3>1
    <3> HIDE DEF r
    <3>3. Len(C(w)) \in Nat
      BY <1>4
    <3> QED BY <3>2, <3>3, PickedIsSpread
  <2> HIDE DEF K
  <2>6. ASSUME NEW w \in Nat PROVE In(w) = K(w)
    <3>1. K(w) \in SUBSET DOMAIN C(w)
      BY <1>4, <2>5 DEF IsSpread
    <3> QED BY <2>3, <3>1
  <2>7. \A i : i \in Out(p) <=> i \in 1 .. Len(C(p)) /\ i \notin K(p)
    BY <1>4, <2>1, <2>3
  <2>8. Len(C(p)) > r(p)
    <3> SUFFICES ASSUME Len(C(p)) <= r(p) PROVE FALSE
      <4>1. Len(C(p)) \in Nat /\ r(p) \in Int
        BY <1>4, <2>1, <2>5
      <4> HIDE DEF r
      <4> QED BY <4>1
    <3>1. K(p) = 1 .. Len(C(p))
      <4>1. Len(C(p)) \in Nat /\ r(p) \in Int
        BY <1>4, <2>1, <2>5
      <4> HIDE DEF r
      <4>2. r(p) > 0 \/ Len(C(p)) = 0
        BY <4>1
      <4>3. 1 .. 0 = {}
        OBVIOUS
      <4>4. K(p) = IF r(p) <= 0 THEN {} ELSE 1 .. Len(C(p))
        BY <4>1 DEF K, Picked
      <4>5. r(p) > 0 => ~(r(p) <= 0)
        BY <4>1
      <4> QED BY <4>2, <4>3, <4>4, <4>5
    <3> QED BY <1>6, <2>7, <3>1
  <2>9. ASSUME NEW worse \in P, worse > p PROVE In(worse) = {}
    <3>1. worse \in Nat
      BY <1>1
    <3>2. Taken(files, worse) >= Taken(files, p + 1) /\ Taken(files, worse) \in Nat /\ Taken(files, p) \in Nat
      BY <2>1, <2>4, <2>9, <3>1
    <3>3. r(worse) <= 0
      <4>1. Len(C(p)) \in Nat
        BY <1>4
      <4> QED BY <1>2, <2>4, <2>8, <3>2, <4>1
    <3>4. K(worse) = {}
      <4> HIDE DEF r
      <4> QED BY <3>3 DEF K, Picked
    <3> QED BY <2>6, <3>1, <3>4
  <2>10. K(p) # 1 .. Len(C(p))
    BY <1>6, <2>7
  <2> DEFINE c == Len(C(p))
             S == K(p)
  <2>11. IsSpread(c, r(p), S) /\ In(p) = S /\ S # 1 .. c
    BY <2>1, <2>5, <2>6, <2>10
  <2>12. \A i : i \in Out(p) <=> i \in 1 .. c /\ i \notin S
    BY <2>7
  <2>13. c \in Nat
    BY <1>4
  <2> HIDE DEF c, S, In, r
  <2>14. Cardinality(In(p)) > 1 =>
           /\ {1, c} \subseteq In(p)
           /\ \A i, j \in In(p) : (i < j /\ \A k \in i + 1 .. j - 1 : k \in Out(p)) =>
                (j - i - 1) * (Cardinality(In(p)) - 1) < c - 1
    <3> HIDE DEF Out
    <3> SUFFICES ASSUME Cardinality(S) > 1
                 PROVE  /\ {1, c} \subseteq S
                        /\ \A i, j \in S : (i < j /\ \A k \in i + 1 .. j - 1 : k \in Out(p)) =>
                             (j - i - 1) * (Cardinality(S) - 1) < c - 1
      BY <2>11
    <3>1. /\ {1, c} \subseteq S
          /\ \A i, j \in S : (i < j /\ \A k \in i + 1 .. j - 1 : k \notin S) =>
               (j - i - 1) * (Cardinality(S) - 1) < c - 1
      BY <2>11 DEF IsSpread
    <3>2. \A k : k \in Out(p) => k \notin S
      BY <2>12
    <3> QED BY <3>1, <3>2
  <2> QED BY <2>9, <2>14 DEF c
<1>7. \A p \in P : Out(p) # {} => Fair(p)
  BY <1>6
<1> QED BY <1>5, <1>7 DEF SampleIsSpread, C, files

(* The state of the retrieval: each reply answers the question asked.      *)
ReplyIsAnswer ==
  /\ question = NoQuestion \/ question \in Questions
  /\ reply # <<>> => question \in Questions /\ reply = <<Answer(question)>>

(* A reply to any question is right (_bounded_file_sample, _resolve_calls, *)
(* CodeGraph.expand, GraphRetriever, Chunker, HybridRetriever).            *)
LEMMA AnswersAreExact ==
  ASSUME ReplyIsAnswer
  PROVE  RetrievalIsExact
<1>1. CASE reply = <<>>
  BY <1>1 DEF RetrievalIsExact, SelectionIsFair, NeighbourhoodIsExact, SearchIsOrdered, Returned
<1>2. CASE reply # <<>>
  <2> DEFINE q == question
  <2>1. q \in Questions /\ result = Answer(q)
    BY <1>2 DEF ReplyIsAnswer, result
  <2> HIDE DEF q
  <2>2. q.about = "sample" => SampleIsSpread(q)
    BY <2>1, SampleIsFair
  <2>3. q.about = "seeds" => SeedsAreShared(q)
    BY <2>1, SeedsAreFair
  <2>4. q.about = "select" => SelectionIsShared(q)
    BY <2>1, SelectionIsForAll
  <2>5. q.about = "chunks" => ChunksCover(q)
    BY <2>1, ChunksAreComplete
  <2>6. q.about = "context" => ContextFits(q)
    BY <2>1, ContextIsInItsBounds
  <2>7. q.about = "calls" => CallsAreExact(q)
    BY <2>1, CallsAreResolved
  <2>8. q.about = "expand" => ExpansionIsExact(q)
    BY <2>1, ExpansionReaches
  <2>9. q.about = "search" => SearchIsRight(q, result)
    BY <2>1, SearchIsExact
  <2>10. q.about = "hotspots" => \A n \in Range(q.nodes) : n \in Range(result) <=>
                                   (n.kind = "function" /\ \E name \in Range(q.names) : <<name, n.name>> \in NamedIn)
    BY <2>1, HotspotsAreFound
  <2>11. q.about = "rank" => RankKeepsDistance(q, result)
    BY <2>1, RankIsByDistance
  <2>12. q.about = "format" => ContextIsABeginning(q, result)
    BY <2>1, FormatIsABeginning
  <2>13. q.about = "focus" => FocusIsShown(q, result)
    BY <2>1, FocusIsRight
  <2>14. SelectionIsFair
    BY <2>2, <2>3, <2>4, <2>5, <2>6 DEF SelectionIsFair, Returned, q
  <2>15. NeighbourhoodIsExact
    BY <2>7, <2>8 DEF NeighbourhoodIsExact, Returned, q
  <2>16. SearchIsOrdered
    BY <2>9, <2>10, <2>11, <2>12, <2>13 DEF SearchIsOrdered, Returned, q
  <2> QED BY <2>14, <2>15, <2>16 DEF RetrievalIsExact
<1> QED BY <1>1, <1>2

(* Each selection that bounds what the model sees (graph/, rag/) is fair,  *)
(* exact and in its order, for any repository, question and limit.         *)
THEOREM RetrievalIsAlwaysExact == RetrievalSpec => []RetrievalIsExact
<1>1. RetrievalInit => ReplyIsAnswer
  BY DEF RetrievalInit, ReplyIsAnswer
<1>2. ReplyIsAnswer /\ [RetrievalNext]_retrievalVars => ReplyIsAnswer'
  <2> SUFFICES ASSUME ReplyIsAnswer, [RetrievalNext]_retrievalVars PROVE ReplyIsAnswer'
    OBVIOUS
  <2>1. CASE Ask
    <3>1. question = NoQuestion /\ question' \in Questions /\ reply' = reply
      BY <2>1 DEF Ask
    <3>2. reply = <<>>
      <4>1. NoQuestion \notin Questions
        <5>1. NoQuestion.about = "nothing"
          BY DEF NoQuestion
        <5>2. ~IsQuestion(NoQuestion)
          BY <5>1 DEF IsQuestion
        <5> QED BY <5>2, RetrievalAssumption
      <4> QED BY <3>1, <4>1 DEF ReplyIsAnswer
    <3> QED BY <3>1, <3>2 DEF ReplyIsAnswer
  <2>2. CASE Reply
    BY <2>2 DEF Reply, ReplyIsAnswer
  <2>3. CASE UNCHANGED retrievalVars
    BY <2>3 DEF ReplyIsAnswer, retrievalVars, Answer
  <2> QED BY <2>1, <2>2, <2>3 DEF RetrievalNext
<1> QED BY <1>1, <1>2, AnswersAreExact, PTL DEF RetrievalSpec
=============================================================================
