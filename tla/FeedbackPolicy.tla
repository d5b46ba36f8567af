--------------------------- MODULE FeedbackPolicy ---------------------------
(***************************************************************************)
(* What recorded decisions say about findings (feedback/policy.py): a      *)
(* prior for each rule and language, the score of a finding, and the order *)
(* the scores give.  An event is [rule, language, actionable]; "*" stands  *)
(* for an absent rule or language.  Ratios are kept as numerator and       *)
(* denominator.                                                            *)
(***************************************************************************)
EXTENDS Naturals, Sequences, FiniteSets, SequencesExt

Star == "*"

EventKey(event) == <<event.rule, event.language>>

EventsOf(events, key) == {i \in DOMAIN events : EventKey(events[i]) = key}

(* build_priors: Laplace-smoothed share of the actionable decisions.       *)
Prior(events, key) ==
  LET support    == Cardinality(EventsOf(events, key))
      actionable == Cardinality({i \in EventsOf(events, key) : events[i].actionable})
  IN  [support |-> support, num |-> actionable + 1, den |-> support + 2]

PriorKeys(events) == {EventKey(events[i]) : i \in DOMAIN events}

NoPrior == [support |-> 0, num |-> 1, den |-> 2]

(* prior_for: the exact key, then the rule alone, then the language alone; *)
(* a finding without a prior scores one half.                              *)
PriorFor(events, rule, language) ==
  LET keys  == << <<rule, language>>, <<rule, Star>>, <<Star, language>> >>
      known == {k \in DOMAIN keys : keys[k] \in PriorKeys(events)}
  IN  IF known = {} THEN NoPrior
      ELSE Prior(events, keys[CHOOSE k \in known : \A l \in known : k <= l])

Above(a, b) == a.num * b.den > b.num * a.den

(* rank_findings: by score, then confidence, then the place in the report. *)
RankedBefore(a, b) ==
  \/ Above(a.score, b.score)
  \/ ~Above(b.score, a.score) /\ a.confidence > b.confidence
  \/ ~Above(b.score, a.score) /\ a.confidence = b.confidence /\ a.index < b.index

Ranked(findings, events) ==
  LET scored == [i \in DOMAIN findings |->
        [index |-> i, confidence |-> findings[i].confidence,
         score |-> PriorFor(events, findings[i].rule, findings[i].language)]]
  IN  SetToSortSeq({scored[i] : i \in DOMAIN scored}, RankedBefore)
=============================================================================
