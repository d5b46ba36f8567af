------------------------- MODULE AuditTrialsProofs --------------------------
(***************************************************************************)
(* Proofs about the trials of an audit, for any candidates, any verdicts   *)
(* about them, and any number of trials and repairs; about the trials of   *)
(* patches in a sandbox, for any trees, proposals and passing trees; and   *)
(* about the engine, for any registry, project and requests.               *)
(***************************************************************************)
EXTENDS AuditTrials, PatchSandbox, Engine, Lists, SequenceTheorems

(* One record per trial that was finished; a report is about all of them.  *)
TrialsAreCounted ==
  /\ Len(records) = IF pc \in {"report", "done"} THEN trial ELSE trial - 1
  /\ pc \in {"report", "done"} => trial = trials
  /\ pc = "done" => report.stable = Stable /\ report.majority = Majority

(* Within a trial the stage has findings of supported candidates only.     *)
TInv == TrialsTypeOK /\ RejectedIsNeverEvidence /\ TrialsAreCounted

-----------------------------------------------------------------------------
(* SetToSeq lists the elements of a finite set, each once.                 *)
LEMMA SetToSeqListsTheSet ==
  ASSUME NEW S, IsFiniteSet(S)
  PROVE  /\ SetToSeq(S) \in Seq(S) /\ Len(SetToSeq(S)) = Cardinality(S)
         /\ ToSet(SetToSeq(S)) = S /\ IsInjective(SetToSeq(S))
<1> DEFINE n == Cardinality(S)
           f == SetToSeq(S)
<1>1. n \in Nat /\ ExistsBijection(1 .. n, S)
  BY FS_CardinalityType
<1>2. PICK g \in Bijection(1 .. n, S) : TRUE
  BY <1>1 DEF ExistsBijection
<1>3. g \in [1 .. n -> S] /\ IsInjective(g)
  BY <1>2 DEF Bijection, Injection, IsInjective
<1>4. f \in [1 .. n -> S] /\ IsInjective(f)
  BY <1>3 DEF SetToSeq
<1> HIDE DEF n, f
<1>5. f \in Seq(S) /\ Len(f) = n
  BY <1>1, <1>4
<1>6. f \in Injection(1 .. n, S)
  BY <1>4 DEF Injection
<1>7. IsFiniteSet(1 .. n) /\ Cardinality(1 .. n) = n
  BY <1>1, FS_Interval
<1>8. f \in Surjection(1 .. n, S)
  BY <1>6, <1>7, FS_Injection DEF n
<1>9. ToSet(f) = S
  BY <1>4, <1>8 DEF Surjection, ToSet
<1> QED BY <1>4, <1>5, <1>9 DEF n, f

(* The merge adds what the stage found at the end, once.                   *)
LEMMA MergedIsSound ==
  ASSUME TrialsTypeOK, NEW found \in SUBSET Candidates
  PROVE  /\ Merged(found) \in Seq(RuleFindings \cup Candidates)
         /\ ToSet(Merged(found)) = ToSet(findings) \cup found
         /\ Len(Merged(found)) = Cardinality(ToSet(Merged(found)))
         /\ IsPrefix(findings, Merged(found))
<1> DEFINE All == RuleFindings \cup Candidates
           new == found \ ToSet(findings)
           added == SetToSeq(new)
<1>1. findings \in Seq(All) /\ Len(findings) = Cardinality(ToSet(findings))
  BY Zenon DEF TrialsTypeOK
<1>2. IsFiniteSet(All) /\ IsFiniteSet(new) /\ new \subseteq All
  <2>1. IsFiniteSet(Candidates) /\ IsFiniteSet(RuleFindings)
    BY TrialsAssumption
  <2>2. IsFiniteSet(All)
    BY <2>1, FS_Union
  <2> QED BY <2>2, FS_Subset
<1>3. added \in Seq(new) /\ Len(added) = Cardinality(new) /\ ToSet(added) = new
  BY <1>2, SetToSeqListsTheSet
<1>4. Merged(found) = findings \o added
  BY DEF Merged
<1>5. ToSet(findings) \subseteq All
  BY <1>1 DEF ToSet
<1> HIDE DEF All, added
<1>6. added \in Seq(All)
  BY <1>2, <1>3
<1>7. /\ findings \o added \in Seq(All)
      /\ Len(findings \o added) = Len(findings) + Len(added)
      /\ \A i \in 1 .. Len(findings) : (findings \o added)[i] = findings[i]
      /\ \A i \in 1 .. Len(added) : (findings \o added)[Len(findings) + i] = added[i]
      /\ \A i \in 1 .. Len(findings) + Len(added) :
           i > Len(findings) => (findings \o added)[i] = added[i - Len(findings)]
  BY <1>1, <1>6
<1>8. ToSet(findings \o added) = ToSet(findings) \cup new
  <2>0. /\ DOMAIN findings = 1 .. Len(findings) /\ Len(findings) \in Nat
        /\ DOMAIN added = 1 .. Len(added) /\ Len(added) \in Nat
        /\ DOMAIN (findings \o added) = 1 .. Len(findings) + Len(added)
    BY <1>1, <1>6, <1>7
  <2>1. ASSUME NEW x \in ToSet(findings \o added)
        PROVE  x \in ToSet(findings) \cup ToSet(added)
    <3>1. PICK i \in 1 .. Len(findings) + Len(added) : x = (findings \o added)[i]
      BY <2>0, <2>1 DEF ToSet
    <3>2. CASE i <= Len(findings)
      BY <1>7, <2>0, <3>1, <3>2 DEF ToSet
    <3>3. CASE i > Len(findings)
      <4>1. i - Len(findings) \in DOMAIN added
        BY <2>0, <3>1, <3>3
      <4> QED BY <1>7, <3>1, <3>3, <4>1 DEF ToSet
    <3> QED BY <2>0, <3>1, <3>2, <3>3
  <2>2. ASSUME NEW x \in ToSet(findings)
        PROVE  x \in ToSet(findings \o added)
    BY <1>7, <2>0, <2>2 DEF ToSet
  <2>3. ASSUME NEW x \in ToSet(added)
        PROVE  x \in ToSet(findings \o added)
    <3>1. PICK i \in 1 .. Len(added) : x = added[i]
      BY <2>0, <2>3 DEF ToSet
    <3>2. Len(findings) + i \in DOMAIN (findings \o added)
      BY <2>0, <3>1
    <3> QED BY <1>7, <3>1, <3>2 DEF ToSet
  <2> QED BY <1>3, <2>1, <2>2, <2>3
<1>9. Cardinality(ToSet(findings) \cup new) = Cardinality(ToSet(findings)) + Cardinality(new)
  <2>1. IsFiniteSet(ToSet(findings))
    BY <1>2, <1>5, FS_Subset
  <2>2. ToSet(findings) \cap new = {}
    OBVIOUS
  <2>3. /\ Cardinality(ToSet(findings)) \in Nat /\ Cardinality(new) \in Nat
        /\ Cardinality({}) = 0
    BY <1>2, <2>1, FS_CardinalityType, FS_EmptySet
  <2> HIDE DEF new
  <2>4. Cardinality(ToSet(findings) \cup new) =
          Cardinality(ToSet(findings)) + Cardinality(new)
            - Cardinality(ToSet(findings) \cap new)
    BY <1>2, <2>1, FS_Union, Zenon
  <2>5. Cardinality(ToSet(findings) \cap new) = 0
    BY <2>2, <2>3, Zenon
  <2>6. \A a, b, c, d \in Nat : c = 0 /\ d = a + b - c => d = a + b
    OBVIOUS
  <2>7. Cardinality(ToSet(findings) \cup new) \in Nat
    BY <1>2, <2>1, FS_Union, FS_CardinalityType, Zenon
  <2> QED BY <2>3, <2>4, <2>5, <2>6, <2>7
<1>10. IsPrefix(findings, findings \o added)
  <2>1. Len(findings) <= Len(findings \o added) /\ Len(findings) \in Nat
    BY <1>1, <1>6, <1>7
  <2>2. SubSeq(findings, 1, Len(findings)) = findings
    BY <1>1
  <2>3. SubSeq(findings \o added, 1, Len(findings)) = findings
    BY <1>1, <1>6, <1>7
  <2> QED BY <2>1, <2>2, <2>3 DEF IsPrefix
<1>11. ToSet(findings) \cup new = ToSet(findings) \cup found
  OBVIOUS
<1> QED BY <1>1, <1>3, <1>4, <1>7, <1>8, <1>9, <1>10, <1>11 DEF All

(* A majority among at least one trial is a number of trials that agree.   *)
LEMMA MajorityExists ==
  ASSUME NEW S, records \in Seq(S), records # <<>>
  PROVE  /\ \E i \in DOMAIN records : Majority = Agreeing(records[i])
         /\ \A i \in DOMAIN records : Agreeing(records[i]) <= Majority
         /\ \A i \in DOMAIN records : Agreeing(records[i]) \in 1 .. Len(records)
<1> DEFINE n == Len(records)
           A == {Agreeing(records[i]) : i \in DOMAIN records}
           T == {k \in 0 .. n : n - k \in A}
<1>1. n \in Nat /\ DOMAIN records = 1 .. n /\ 1 \in DOMAIN records
  BY EmptySeq
<1>2. ASSUME NEW i \in DOMAIN records
      PROVE  Agreeing(records[i]) \in 1 .. n
  <2> DEFINE P == {j \in DOMAIN records : records[j] = records[i]}
  <2>1. P \in SUBSET (1 .. n) /\ P # {}
    BY <1>1
  <2> HIDE DEF n
  <2>2. IsFiniteSet(1 .. n) /\ Cardinality(1 .. n) = n
    BY <1>1, FS_Interval
  <2>3. IsFiniteSet(P) /\ Cardinality(P) <= n /\ Cardinality(P) \in Nat /\ Cardinality(P) # 0
    BY <2>1, <2>2, FS_Subset, FS_CardinalityType, FS_EmptySet
  <2> QED BY <1>1, <2>3 DEF Agreeing
<1> HIDE DEF n
<1>3. T \in SUBSET Nat /\ T # {}
  <2>1. n - Agreeing(records[1]) \in T
    BY <1>1, <1>2
  <2> QED BY <1>1, <2>1
<1>4. PICK k \in T : \A m \in T : k <= m
  BY <1>3, LeastNatural
<1>5. n - k \in A /\ \A i \in DOMAIN records : Agreeing(records[i]) <= n - k
  <2>1. ASSUME NEW i \in DOMAIN records
        PROVE  Agreeing(records[i]) <= n - k
    <3>1. n - Agreeing(records[i]) \in T
      BY <1>1, <1>2
    <3> QED BY <1>1, <1>2, <1>4, <3>1
  <2> QED BY <1>4, <2>1
<1> DEFINE m == n - k
<1>6. m \in A /\ \A i \in DOMAIN records : Agreeing(records[i]) <= m
  BY <1>5
<1> HIDE DEF m, T
<1>7. Majority \in A /\ \A i \in DOMAIN records : Agreeing(records[i]) <= Majority
  BY <1>6 DEF Majority
<1> QED BY <1>2, <1>7 DEF n

(* Trials are stable exactly when the majority is all of them.             *)
LEMMA StableIsAMajorityOfAll ==
  ASSUME NEW S, records \in Seq(S), records # <<>>
  PROVE  Stable <=> Majority = Len(records)
<1> DEFINE n == Len(records)
<1>1. n \in Nat \ {0} /\ DOMAIN records = 1 .. n
  BY EmptySeq
<1>2. IsFiniteSet(1 .. n) /\ Cardinality(1 .. n) = n
  <2> HIDE DEF n
  <2> QED BY <1>1, FS_Interval
<1>3. IsFiniteSet(ToSet(records)) /\ ToSet(records) # {}
  <2> DEFINE f == [i \in 1 .. n |-> records[i]]
  <2>1. f \in Surjection(1 .. n, ToSet(records))
    BY <1>1 DEF Surjection, ToSet
  <2>2. records[1] \in ToSet(records)
    BY <1>1 DEF ToSet
  <2> HIDE DEF f, n
  <2> QED BY <1>2, <2>1, <2>2, FS_Surjection
<1>4. ASSUME Stable
      PROVE  Majority = n
  <2>1. Cardinality(ToSet(records)) = 1
    BY <1>3, <1>4, FS_CardinalityType, FS_EmptySet DEF Stable
  <2>2. PICK x : ToSet(records) = {x}
    BY <1>3, <2>1, FS_Singleton
  <2>3. \A i \in 1 .. n : records[i] = x
    BY <1>1, <2>2 DEF ToSet
  <2>4. \A i \in 1 .. n : {j \in DOMAIN records : records[j] = records[i]} = 1 .. n
    BY <1>1, <2>3
  <2>5. \A i \in 1 .. n : Agreeing(records[i]) = n
    BY <1>2, <2>4 DEF Agreeing
  <2> QED BY <1>1, <2>5, MajorityExists
<1>5. ASSUME Majority = n
      PROVE  Stable
  <2>1. PICK i \in 1 .. n : Agreeing(records[i]) = n
    BY <1>1, <1>5, MajorityExists
  <2> DEFINE P == {j \in 1 .. n : records[j] = records[i]}
  <2>2. Cardinality(P) = n
    BY <1>1, <2>1 DEF Agreeing
  <2>3. P \in SUBSET (1 .. n)
    OBVIOUS
  <2> HIDE DEF P
  <2>4. P = 1 .. n
    BY <1>2, <2>2, <2>3, FS_Subset
  <2>5. ToSet(records) = {records[i]}
    BY <1>1, <2>4 DEF ToSet, P
  <2>6. Cardinality(ToSet(records)) = 1
    BY <2>5, FS_Singleton
  <2> QED BY <2>6 DEF Stable
<1> QED BY <1>4, <1>5

-----------------------------------------------------------------------------
(* The rules alone have spoken.                                            *)
LEMMA TrialsStart == TrialsInit => TInv
<1> SUFFICES ASSUME TrialsInit PROVE TInv
  OBVIOUS
<1>1. PICK S \in SUBSET RuleFindings : findings = SetToSeq(S)
  BY DEF TrialsInit
<1>2. findings \in Seq(S) /\ Len(findings) = Cardinality(S) /\ ToSet(findings) = S
  BY <1>1, TrialsAssumption, FS_Subset, SetToSeqListsTheSet
<1>3. records = <<>> /\ records \in Seq({}) /\ Len(records) = 0 /\ ToSet(records) = {}
  BY DEF TrialsInit, ToSet
<1>4. trials \in TrialCounts /\ trials \in 1 .. 10 /\ MaxRepairs \in Nat
  BY TrialsAssumption DEF TrialsInit
<1>5. findings \in Seq(RuleFindings \cup Candidates)
  BY <1>1, <1>2
<1>6. TrialsTypeOK
  BY <1>2, <1>3, <1>4, <1>5 DEF TrialsTypeOK, TrialsInit, NotRun
<1>7. RejectedIsNeverEvidence
  BY <1>2, <1>3, TrialsAssumption DEF RejectedIsNeverEvidence, TrialsInit, NotRun
<1>8. TrialsAreCounted
  BY <1>3 DEF TrialsAreCounted, TrialsInit
<1> QED BY <1>6, <1>7, <1>8 DEF TInv

(* The stage ends with findings, found by the analyzer, that the session   *)
(* did not have; or with none.                                             *)
LEMMA StageEndsSoundly ==
  ASSUME TInv, NEW found \in SUBSET Defects(model), NEW status,
         pc \in {"read", "validate"},
         \/ EndsWith(status, found, Merged(found))
         \/ found = {} /\ EndsWith(status, found, findings),
         model' \in SUBSET Candidates, repairs' \in 0 .. MaxRepairs
  PROVE  TInv' /\ IsPrefix(findings, findings')
<1>1. found \subseteq Candidates /\ \A c \in found : verdict[c] = "finding"
  BY DEF Defects, TInv, TrialsTypeOK
<1>2. TrialsTypeOK
  BY DEF TInv
<1>3. /\ findings' \in Seq(RuleFindings \cup Candidates)
      /\ ToSet(findings') = ToSet(findings) \cup found
      /\ Len(findings') = Cardinality(ToSet(findings'))
      /\ IsPrefix(findings, findings')
  <2>1. CASE EndsWith(status, found, Merged(found))
    <3>1. findings' = Merged(found)
      BY <2>1 DEF EndsWith
    <3> QED BY <1>1, <1>2, <3>1, MergedIsSound
  <2>2. CASE found = {} /\ EndsWith(status, found, findings)
    <3>1. findings' = findings /\ found = {}
      BY <2>2 DEF EndsWith
    <3>2. findings \in Seq(RuleFindings \cup Candidates)
      BY <1>2 DEF TrialsTypeOK
    <3>3. Len(findings) \in Nat
      BY <3>2
    <3>4. IsPrefix(findings, findings)
      BY <3>3 DEF IsPrefix
    <3> QED BY <1>2, <3>1, <3>4 DEF TrialsTypeOK
  <2> QED BY <2>1, <2>2
<1>4. /\ stage' = [status |-> status, findings |-> found] /\ pc' = "pack"
      /\ UNCHANGED <<environment, trial, pack, records, report>>
  BY DEF EndsWith
<1>5. TrialsTypeOK'
  BY <1>1, <1>2, <1>3, <1>4 DEF TrialsTypeOK, environment
<1>6. RejectedIsNeverEvidence'
  BY <1>1, <1>3, <1>4 DEF RejectedIsNeverEvidence, TInv, environment
<1>7. TrialsAreCounted'
  BY <1>4 DEF TrialsAreCounted, TInv, environment
<1> QED BY <1>3, <1>5, <1>6, <1>7 DEF TInv

(* A step that adds no finding.                                            *)
LEMMA PrefixOfItself == TrialsTypeOK /\ UNCHANGED findings => IsPrefix(findings, findings')
<1> SUFFICES ASSUME TrialsTypeOK, UNCHANGED findings PROVE IsPrefix(findings, findings')
  OBVIOUS
<1>1. findings \in Seq(RuleFindings \cup Candidates)
  BY DEF TrialsTypeOK
<1>2. Len(findings) \in Nat
  BY <1>1
<1> QED BY <1>2 DEF IsPrefix

(* A model answers, first or after a repair.                               *)
LEMMA ReadingStep ==
  ASSUME TInv, NEW m \in SUBSET Candidates, ReaderAnswers(m) \/ RepairAnswers(m)
  PROVE  TInv' /\ UNCHANGED findings
<1>1. /\ UNCHANGED <<environment, findings, trial, stage, pack, records, report>>
      /\ model' = m /\ pc' = "validate" /\ pc \in {"read", "validate"}
  BY DEF ReaderAnswers, RepairAnswers
<1>2. TrialsTypeOK /\ RejectedIsNeverEvidence /\ TrialsAreCounted
  BY DEF TInv
<1>3. repairs' \in 0 .. MaxRepairs
  <2>1. MaxRepairs \in Nat /\ repairs \in 0 .. MaxRepairs
    BY <1>2, TrialsAssumption DEF TrialsTypeOK
  <2>2. repairs' = 0 \/ (repairs < MaxRepairs /\ repairs' = repairs + 1)
    BY DEF ReaderAnswers, RepairAnswers, NeedsRepair
  <2> QED BY <2>1, <2>2
<1>4. TrialsTypeOK'
  BY <1>1, <1>2, <1>3 DEF TrialsTypeOK, environment
<1>5. RejectedIsNeverEvidence'
  BY <1>1, <1>2 DEF RejectedIsNeverEvidence, environment
<1>6. TrialsAreCounted'
  BY <1>1, <1>2 DEF TrialsAreCounted, environment
<1> QED BY <1>1, <1>4, <1>5, <1>6 DEF TInv

(* The evidence pack is built from what the session holds.                 *)
LEMMA PackStep == TInv /\ BuildPack => TInv' /\ UNCHANGED findings
<1> SUFFICES ASSUME TInv, BuildPack PROVE TInv' /\ UNCHANGED findings
  OBVIOUS
<1>1. /\ UNCHANGED <<environment, findings, trial, model, repairs, stage, records, report>>
      /\ pack' = PackOf(stage.findings, findings) /\ pc = "pack" /\ pc' = "review"
  BY DEF BuildPack
<1>2. TrialsTypeOK /\ RejectedIsNeverEvidence /\ TrialsAreCounted
  BY DEF TInv
<1>3. DiagnosticFacts(findings) \subseteq ToSet(findings)
  BY DEF DiagnosticFacts, ToSet
<1>4. pack' \subseteq stage.findings \cup ToSet(findings) \cup Retrieved
  BY <1>1, <1>3 DEF PackOf
<1>5. ToSet(findings) \subseteq RuleFindings \cup Candidates
  <2>1. findings \in Seq(RuleFindings \cup Candidates)
    BY <1>2 DEF TrialsTypeOK
  <2> QED BY <2>1 DEF ToSet
<1>6. TrialsTypeOK'
  BY <1>1, <1>2, <1>4, <1>5 DEF TrialsTypeOK, environment
<1>7. RejectedIsNeverEvidence'
  BY <1>1, <1>2, <1>4, TrialsAssumption DEF RejectedIsNeverEvidence, environment
<1>8. TrialsAreCounted'
  BY <1>1, <1>2 DEF TrialsAreCounted, environment
<1> QED BY <1>1, <1>6, <1>7, <1>8 DEF TInv

(* A trial is reviewed and recorded.                                       *)
LEMMA ReviewStep ==
  ASSUME TInv, NEW suggestions \in SUBSET pack, Review(suggestions)
  PROVE  TInv' /\ UNCHANGED findings
<1> DEFINE Facts == RuleFindings \cup Candidates \cup Retrieved
<1>1. /\ UNCHANGED <<environment, findings, model, repairs, stage, pack, report>>
      /\ records' = Append(records, suggestions) /\ pc = "review"
      /\ IF trial < trials THEN trial' = trial + 1 /\ pc' = "read"
                           ELSE pc' = "report" /\ trial' = trial
  BY DEF Review
<1>2. TrialsTypeOK /\ RejectedIsNeverEvidence /\ TrialsAreCounted
  BY DEF TInv
<1>3. /\ records \in Seq(SUBSET Facts) /\ suggestions \in SUBSET Facts
      /\ trials \in 1 .. 10 /\ trial \in 1 .. trials
  BY <1>2, TrialsAssumption, Zenon DEF TrialsTypeOK
<1>4. Len(records) = trial - 1
  BY <1>1, <1>2 DEF TrialsAreCounted
<1> HIDE DEF Facts
<1>5. records' \in Seq(SUBSET Facts) /\ Len(records') = Len(records) + 1
  BY <1>1, <1>3
<1>6. ToSet(records') = ToSet(records) \cup {suggestions}
  <2>1. /\ DOMAIN records = 1 .. Len(records) /\ DOMAIN records' = 1 .. Len(records) + 1
        /\ Len(records) \in Nat
        /\ \A i \in 1 .. Len(records) : records'[i] = records[i]
        /\ records'[Len(records) + 1] = suggestions
    BY <1>1, <1>3, <1>5
  <2> QED BY <2>1 DEF ToSet
<1>7. trial' \in 1 .. trials /\ Len(records') <= trials
  BY <1>1, <1>3, <1>4, <1>5
<1>8. TrialsTypeOK'
  <2>1. pc' \in {"read", "report"}
    BY <1>1
  <2> QED BY <1>1, <1>2, <1>5, <1>7, <2>1 DEF TrialsTypeOK, environment, Facts
<1>9. RejectedIsNeverEvidence'
  BY <1>1, <1>2, <1>6 DEF RejectedIsNeverEvidence, environment
<1>10. TrialsAreCounted'
  <2>1. trials' = trials
    BY <1>1 DEF environment
  <2>2. CASE trial < trials
    BY <1>1, <1>3, <1>4, <1>5, <2>1, <2>2 DEF TrialsAreCounted
  <2>3. CASE ~ (trial < trials)
    BY <1>1, <1>3, <1>4, <1>5, <2>1, <2>3 DEF TrialsAreCounted
  <2> QED BY <2>2, <2>3
<1> QED BY <1>1, <1>8, <1>9, <1>10 DEF TInv

(* The records of all trials are summarised.                               *)
LEMMA SummaryStep == TInv /\ Summarize => TInv' /\ UNCHANGED findings
<1> SUFFICES ASSUME TInv, Summarize PROVE TInv' /\ UNCHANGED findings
  OBVIOUS
<1>1. /\ UNCHANGED <<environment, findings, trial, model, repairs, stage, pack, records>>
      /\ report' = [stable |-> Stable, majority |-> Majority, status |-> stage.status]
      /\ pc = "report" /\ pc' = "done"
  BY DEF Summarize
<1>2. TrialsTypeOK /\ RejectedIsNeverEvidence /\ TrialsAreCounted
  BY DEF TInv
<1>3. Stable' = Stable /\ Majority' = Majority
  BY <1>1 DEF Stable, Majority, Agreeing
<1>4. TrialsTypeOK'
  BY <1>1, <1>2 DEF TrialsTypeOK, environment
<1>5. RejectedIsNeverEvidence'
  BY <1>1, <1>2 DEF RejectedIsNeverEvidence, environment
<1>6. TrialsAreCounted'
  BY <1>1, <1>2, <1>3 DEF TrialsAreCounted, environment
<1> QED BY <1>1, <1>4, <1>5, <1>6 DEF TInv

(* Every step keeps the invariant, and findings are only added.            *)
LEMMA TrialsStep == TInv /\ [TrialsNext]_trialVars => TInv' /\ IsPrefix(findings, findings')
<1> SUFFICES ASSUME TInv, [TrialsNext]_trialVars PROVE TInv' /\ IsPrefix(findings, findings')
  OBVIOUS
<1>0. TrialsTypeOK /\ MaxRepairs \in Nat /\ repairs \in 0 .. MaxRepairs /\ model \subseteq Candidates
  BY TrialsAssumption DEF TInv, TrialsTypeOK
<1>1. CASE ReaderIsUnavailable
  <2>1. PICK status : EndsWith(status, {}, findings)
    BY <1>1 DEF ReaderIsUnavailable
  <2>2. pc = "read" /\ model' = {} /\ repairs' = 0
    BY <1>1 DEF ReaderIsUnavailable
  <2> QED BY <1>0, <2>1, <2>2, StageEndsSoundly
<1>2. CASE \E m \in SUBSET Candidates : ReaderAnswers(m)
  BY <1>0, <1>2, ReadingStep, PrefixOfItself
<1>3. CASE \E m \in SUBSET Candidates : RepairAnswers(m)
  BY <1>0, <1>3, ReadingStep, PrefixOfItself
<1>4. CASE RepairFails
  <2>1. /\ EndsWith("abstained", {}, findings) /\ pc = "validate"
        /\ model' = model /\ repairs < MaxRepairs /\ repairs' = repairs + 1
    BY <1>4 DEF RepairFails, NeedsRepair
  <2>2. repairs' \in 0 .. MaxRepairs /\ model' \in SUBSET Candidates
    BY <1>0, <2>1
  <2> QED BY <2>1, <2>2, StageEndsSoundly
<1>5. CASE Validate
  <2>1. PICK status : EndsWith(status, Defects(model), Merged(Defects(model)))
    BY <1>5 DEF Validate
  <2>2. pc = "validate" /\ model' = model /\ repairs' = repairs
    BY <1>5 DEF Validate
  <2> QED BY <1>0, <2>1, <2>2, StageEndsSoundly
<1>6. CASE BuildPack
  BY <1>0, <1>6, PackStep, PrefixOfItself
<1>7. CASE \E suggestions \in SUBSET pack : Review(suggestions)
  BY <1>0, <1>7, ReviewStep, PrefixOfItself
<1>8. CASE Summarize
  BY <1>0, <1>8, SummaryStep, PrefixOfItself
<1>9. CASE UNCHANGED trialVars
  <2>1. TrialsTypeOK'
    BY <1>0, <1>9 DEF TrialsTypeOK, trialVars, environment
  <2>2. RejectedIsNeverEvidence'
    BY <1>9 DEF TInv, RejectedIsNeverEvidence, trialVars, environment
  <2>3. TrialsAreCounted'
    <3>1. UNCHANGED <<Stable, Majority>>
      BY <1>9 DEF trialVars, Stable, Majority, Agreeing
    <3> QED BY <1>9, <3>1 DEF TInv, TrialsAreCounted, trialVars, environment
  <2>4. UNCHANGED findings
    BY <1>9 DEF trialVars
  <2> QED BY <1>0, <2>1, <2>2, <2>3, <2>4, PrefixOfItself DEF TInv
<1> QED BY <1>1, <1>2, <1>3, <1>4, <1>5, <1>6, <1>7, <1>8, <1>9 DEF TrialsNext

(* TInv is an invariant of the trials.                                     *)
LEMMA TrialsInvariant == TrialsSpec => []TInv
<1>1. TInv /\ [TrialsNext]_trialVars => TInv'
  BY TrialsStep
<1> QED BY <1>1, TrialsStart, PTL DEF TrialsSpec

(* What the resolver or the validator rejected is never a finding nor      *)
(* evidence in any trial of an audit (session.py), and trials are called   *)
(* stable exactly when all of them agree (trials.py).                      *)
THEOREM TrialsAreAlwaysSound == TrialsSpec => []TrialsAreSound
<1>1. TInv => TrialsAreSound
  <2> SUFFICES ASSUME TInv PROVE TrialsAreSound
    OBVIOUS
  <2>1. TrialsTypeOK /\ RejectedIsNeverEvidence /\ TrialsAreCounted
    BY DEF TInv
  <2>2. ASSUME pc = "done"
        PROVE  report.stable <=> report.majority = Len(records)
    <3>1. Len(records) = trial /\ trial = trials /\ trials \in 1 .. 10
      BY <2>1, <2>2, TrialsAssumption DEF TrialsAreCounted, TrialsTypeOK
    <3>2. records # <<>>
      BY <3>1
    <3>3. records \in Seq(SUBSET (RuleFindings \cup Candidates \cup Retrieved))
      BY <2>1 DEF TrialsTypeOK
    <3>4. Stable <=> Majority = Len(records)
      BY <3>2, <3>3, StableIsAMajorityOfAll
    <3> QED BY <2>1, <2>2, <3>4 DEF TrialsAreCounted
  <2> QED BY <2>1, <2>2 DEF TrialsAreSound, StableIsUnanimous
<1> QED BY <1>1, TrialsInvariant, PTL

(* No trial loses or reorders a finding of the rules or of an earlier      *)
(* trial (_merge_project_reader_findings).                                 *)
THEOREM FindingsAreAlwaysKept == TrialsSpec => FindingsAreKept
<1>1. TInv /\ [TrialsNext]_trialVars => [IsPrefix(findings, findings')]_trialVars
  BY TrialsStep
<1> QED BY <1>1, TrialsInvariant, PTL DEF TrialsSpec, FindingsAreKept

-----------------------------------------------------------------------------
(* What PatchVerdictsAreEarned asks of one mark.                           *)
IsEarned(mark, proposal) ==
  /\ mark.status \in {"passed", "timeout"} \/ mark.applied =>
       /\ mark.applied
       /\ mark.baseline \in Passing
       /\ mark.before[proposal.path] = proposal.patch.expects
       /\ \A p \in DOMAIN mark.before \ {proposal.path} : mark.after[p] = mark.before[p]
  /\ mark.status = "passed" => mark.after \in Passing
  /\ mark.status = "failed" /\ mark.applied /\ mark.baseline = mark.before =>
       mark.before \in Passing /\ mark.after \notin Passing

(* One mark per proposal dealt with, in their order.                       *)
MarksAreEarned ==
  /\ trying \in Nat \ {0} /\ marks \in Seq({marks[i] : i \in DOMAIN marks})
  /\ Len(marks) = trying - 1
  /\ step = "submit" => trying = 1
  /\ \A i \in DOMAIN marks : IsEarned(marks[i], submission[i])

(* What the trial under way has shown by now.                              *)
TrialIsEarned ==
  /\ step \in {"submit", "guards"} => baseline = NoTree /\ patched = NoTree
  /\ step \in {"baseline tests", "apply"} => patched = before
  /\ step \in {"apply", "patched tests"} => baseline \in Passing
  /\ step = "patched tests" =>
       /\ before[Current.path] = Current.patch.expects
       /\ \A p \in DOMAIN before \ {Current.path} : patched[p] = before[p]

XInv == MarksAreEarned /\ TrialIsEarned

-----------------------------------------------------------------------------
(* A proposal is settled by a mark that is earned.                         *)
LEMMA SettleKeeps ==
  ASSUME XInv, NEW mark, Settle(mark), IsEarned(mark, Current), step # "submit"
  PROVE  XInv'
<1> DEFINE M == {marks[i] : i \in DOMAIN marks}
           N == M \cup {mark}
<1>1. /\ marks' = Append(marks, mark) /\ trying' = trying + 1 /\ step' = "guards"
      /\ baseline' = NoTree /\ patched' = NoTree /\ submission' = submission
  BY DEF Settle
<1>2. /\ trying \in Nat \ {0} /\ marks \in Seq(M) /\ Len(marks) = trying - 1
      /\ \A i \in DOMAIN marks : IsEarned(marks[i], submission[i])
  BY DEF XInv, MarksAreEarned
<1>3. IsEarned(mark, submission[trying])
  BY DEF Current
<1> HIDE DEF M
<1>4. marks \in Seq(N) /\ mark \in N
  BY <1>2
<1> HIDE DEF N
<1>5. /\ marks' \in Seq(N) /\ Len(marks') = trying /\ DOMAIN marks' = 1 .. trying
      /\ DOMAIN marks = 1 .. trying - 1
      /\ marks'[trying] = mark /\ \A i \in 1 .. trying - 1 : marks'[i] = marks[i]
  BY <1>1, <1>2, <1>4
<1>6. \A i \in 1 .. trying : i = trying \/ i \in 1 .. trying - 1
  BY <1>2
<1>7. \A i \in DOMAIN marks' : IsEarned(marks'[i], submission'[i])
  BY <1>1, <1>2, <1>3, <1>5, <1>6
<1>8. marks' \in Seq({marks'[i] : i \in DOMAIN marks'})
  BY <1>2, <1>5
<1>9. MarksAreEarned'
  BY <1>1, <1>2, <1>5, <1>7, <1>8 DEF MarksAreEarned, IsEarned
<1> QED BY <1>1, <1>9 DEF XInv, TrialIsEarned

(* A step that deals with no proposal.                                     *)
LEMMA MarksLast ==
  ASSUME XInv, UNCHANGED <<submission, trying, marks>>, step' # "submit"
  PROVE  MarksAreEarned'
<1>1. \A i \in DOMAIN marks' : IsEarned(marks'[i], submission'[i])
  BY DEF XInv, MarksAreEarned
<1> QED BY <1>1 DEF XInv, MarksAreEarned, IsEarned

(* Nothing was submitted yet.                                              *)
LEMMA SandboxStarts == SandboxInit => XInv
BY DEF SandboxInit, XInv, MarksAreEarned, TrialIsEarned

(* Every step of the sandbox, and every edit of the project meanwhile.     *)
LEMMA SandboxStep == XInv /\ [SandboxNext]_sandboxVars => XInv'
<1> SUFFICES ASSUME XInv, [SandboxNext]_sandboxVars PROVE XInv'
  OBVIOUS
<1>1. CASE Submit
  <2>1. step = "submit" /\ step' = "guards" /\ UNCHANGED <<trying, baseline, patched, before, marks>>
    BY <1>1 DEF Submit
  <2>2. marks = <<>> /\ trying = 1 /\ baseline = NoTree /\ patched = NoTree
    BY <2>1 DEF XInv, MarksAreEarned, TrialIsEarned
  <2> QED BY <2>1, <2>2 DEF XInv, MarksAreEarned, TrialIsEarned
<1>2. CASE Guards
  <2>1. CASE Refused(Current)
    <3> DEFINE mark == Mark("skipped", FALSE)
    <3>1. Settle(mark) /\ step # "submit"
      BY <1>2, <2>1 DEF Guards
    <3>2. mark.status = "skipped" /\ mark.applied = FALSE
      BY DEF Mark
    <3>3. IsEarned(mark, Current)
      BY <3>2 DEF IsEarned
    <3> HIDE DEF mark
    <3> QED BY <3>1, <3>3, SettleKeeps
  <2>2. CASE ~Refused(Current)
    <3>1. /\ step' = "copy baseline" /\ UNCHANGED <<submission, trying, marks>>
      BY <1>2, <2>2 DEF Guards
    <3> QED BY <3>1, MarksLast DEF XInv, TrialIsEarned
  <2> QED BY <2>1, <2>2
<1>3. CASE CopyToBaseline \/ CopyToPatched
  <2>1. /\ step' \in {"over limit", "copy baseline", "copy patched"}
        /\ UNCHANGED <<submission, trying, marks>>
    BY <1>3 DEF CopyToBaseline, CopyToPatched, CopyFile
  <2> QED BY <2>1, MarksLast DEF XInv, TrialIsEarned
<1>4. CASE SecondCopy
  <2>1. step' = "copy patched" /\ UNCHANGED <<submission, trying, marks>>
    BY <1>4 DEF SecondCopy
  <2> QED BY <2>1, MarksLast DEF XInv, TrialIsEarned
<1>5. CASE CopyRaises \/ TargetMissing \/ ApplyFails
  <2>1. PICK status \in {"error", "skipped", "failed"} : Settle(Mark(status, FALSE)) /\ step # "submit"
    BY <1>5 DEF CopyRaises, TargetMissing, ApplyFails
  <2> DEFINE mark == Mark(status, FALSE)
  <2>2. mark.status = status /\ mark.applied = FALSE
    BY DEF Mark
  <2>3. IsEarned(mark, Current)
    BY <2>2 DEF IsEarned
  <2> HIDE DEF mark
  <2>4. Settle(mark)
    BY <2>1 DEF mark
  <2> QED BY <2>1, <2>3, <2>4, SettleKeeps
<1>6. CASE BothCopied
  <2>1. step' = "baseline tests" /\ before' = patched /\ UNCHANGED <<submission, trying, patched, marks>>
    BY <1>6 DEF BothCopied
  <2> QED BY <2>1, MarksLast DEF XInv, TrialIsEarned
<1>7. CASE BaselineTests
  <2>1. PICK outcome \in TestOutcomes(baseline) :
          IF outcome # "passed"
            THEN Settle(Mark("baseline_failed", FALSE))
            ELSE /\ step' = "apply"
                 /\ UNCHANGED <<tree, edits, submission, trying, baseline, patched, toCopy, before, marks>>
    BY <1>7 DEF BaselineTests
  <2>2. CASE outcome # "passed"
    <3> DEFINE mark == Mark("baseline_failed", FALSE)
    <3>1. Settle(mark) /\ step # "submit"
      BY <1>7, <2>1, <2>2 DEF BaselineTests
    <3>2. mark.status = "baseline_failed" /\ mark.applied = FALSE
      BY DEF Mark
    <3>3. IsEarned(mark, Current)
      BY <3>2 DEF IsEarned
    <3> HIDE DEF mark
    <3> QED BY <3>1, <3>3, SettleKeeps
  <2>3. CASE outcome = "passed"
    <3>1. step' = "apply" /\ UNCHANGED <<submission, trying, baseline, patched, before, marks>>
      BY <2>1, <2>3
    <3>2. baseline \in Passing
      BY <2>3 DEF TestOutcomes, Outcomes
    <3>3. step = "baseline tests" /\ patched = before
      BY <1>7 DEF BaselineTests, XInv, TrialIsEarned
    <3> QED BY <3>1, <3>2, <3>3, MarksLast DEF XInv, TrialIsEarned
  <2> QED BY <2>2, <2>3
<1>8. CASE ApplyPatch
  <2>1. /\ step = "apply" /\ step' = "patched tests"
        /\ UNCHANGED <<submission, trying, baseline, before, marks>>
        /\ patched[Current.path] = Current.patch.expects
        /\ patched' = [patched EXCEPT ![Current.path] = Current.patch.gives]
    BY <1>8 DEF ApplyPatch
  <2>2. patched = before /\ baseline \in Passing
    BY <2>1 DEF XInv, TrialIsEarned
  <2>3. \A p \in DOMAIN patched \ {Current.path} : patched'[p] = patched[p]
    BY <2>1
  <2>4. Current' = Current
    BY <2>1 DEF Current
  <2>5. TrialIsEarned'
    BY <2>1, <2>2, <2>3, <2>4 DEF TrialIsEarned
  <2> QED BY <2>1, <2>5, MarksLast DEF XInv
<1>9. CASE PatchedTests
  <2>1. PICK outcome \in TestOutcomes(patched) : step = "patched tests" /\ Settle(Mark(outcome, TRUE))
    BY <1>9 DEF PatchedTests
  <2> DEFINE mark == Mark(outcome, TRUE)
  <2>2. /\ mark.status = outcome /\ mark.applied = TRUE /\ mark.baseline = baseline
        /\ mark.before = before /\ mark.after = patched
    BY DEF Mark
  <2> HIDE DEF mark
  <2>3. /\ outcome = "passed" => patched \in Passing
        /\ outcome = "failed" => patched \notin Passing
    BY DEF TestOutcomes, Outcomes
  <2>4. /\ baseline \in Passing /\ before[Current.path] = Current.patch.expects
        /\ \A p \in DOMAIN before \ {Current.path} : patched[p] = before[p]
    BY <2>1 DEF XInv, TrialIsEarned
  <2>5. IsEarned(mark, Current)
    BY <2>2, <2>3, <2>4 DEF IsEarned
  <2>6. Settle(mark) /\ step # "submit"
    BY <2>1 DEF mark
  <2> QED BY <2>5, <2>6, SettleKeeps
<1>10. CASE EditProject \/ UNCHANGED sandboxVars
  <2>1. UNCHANGED <<submission, trying, step, baseline, patched, before, marks>>
    BY <1>10 DEF EditProject, sandboxVars
  <2>2. Current' = Current
    BY <2>1 DEF Current
  <2>3. \A i \in DOMAIN marks' : IsEarned(marks'[i], submission'[i])
    BY <2>1 DEF XInv, MarksAreEarned
  <2>4. MarksAreEarned'
    BY <2>1, <2>3 DEF XInv, MarksAreEarned, IsEarned
  <2> QED BY <2>1, <2>2, <2>4 DEF XInv, TrialIsEarned
<1> QED BY <1>1, <1>2, <1>3, <1>4, <1>5, <1>6, <1>7, <1>8, <1>9, <1>10 DEF SandboxNext

(* Whoever edits the project while it is copied, a proposal is marked      *)
(* "passed" only when the tests pass on an unpatched copy and on the       *)
(* patched one, and the two differ in the patched file only                *)
(* (verify_fix, verifier/sandbox.py).                                      *)
THEOREM PatchVerdictsAreAlwaysEarned == SandboxSpec => []PatchVerdictsAreEarned
<1>1. XInv => PatchVerdictsAreEarned
  BY DEF XInv, MarksAreEarned, TrialIsEarned, IsEarned, PatchVerdictsAreEarned
<1> QED BY <1>1, SandboxStarts, SandboxStep, PTL DEF SandboxSpec

-----------------------------------------------------------------------------
(* -- The engine (Engine).                                                 *)
DistinctRules == {s \in Seq(EngineRule) : \A i, j \in DOMAIN s : s[i].id = s[j].id => i = j}

(* Rules are taken once.                                                   *)
LEMMA RulesAreTakenOnce ==
  ASSUME NEW known \in DistinctRules, NEW rules \in Seq(EngineRule), NEW fitting \in SUBSET DOMAIN rules
  PROVE  WithRules(known, rules, fitting) \in DistinctRules
<1> DEFINE P == NewAt(known, rules, fitting)
           t == AtPositions(rules, P)
           s == known \o t
<1>1. P \in SUBSET DOMAIN rules /\ known \in Seq(EngineRule)
  BY DEF NewAt, DistinctRules
<1>2. \A i, j \in P : rules[i].id = rules[j].id => i = j
  <2>1. P \subseteq Nat
    BY <1>1
  <2>2. \A i \in P : \A j \in fitting : j < i => rules[j].id # rules[i].id
    BY DEF NewAt
  <2>3. P \subseteq fitting
    BY DEF NewAt
  <2> HIDE DEF P
  <2> SUFFICES ASSUME NEW i \in P, NEW j \in P, rules[i].id = rules[j].id PROVE i = j
    OBVIOUS
  <2>4. ~ (i < j) /\ ~ (j < i)
    BY <2>2, <2>3
  <2> QED BY <2>1, <2>4
<1>3. \A i \in P : \A k \in DOMAIN known : rules[i].id # known[k].id
  BY DEF NewAt, RuleIds
<1> HIDE DEF P
<1>4. /\ t \in Seq(EngineRule) /\ Len(t) = Cardinality(P) /\ Cardinality(P) \in Nat
      /\ \A i \in 1 .. Cardinality(P) : Nth(P, i) \in P /\ t[i] = rules[Nth(P, i)]
      /\ \A i, j \in 1 .. Cardinality(P) : i < j => Nth(P, i) < Nth(P, j)
  BY <1>1, AtPositionsIsSubsequence
<1> HIDE DEF t
<1>5. ASSUME NEW i \in 1 .. Len(t), NEW j \in 1 .. Len(t), t[i].id = t[j].id PROVE i = j
  <2>1. Nth(P, i) = Nth(P, j)
    BY <1>2, <1>4, <1>5
  <2>2. Nth(P, i) \in Nat
    BY <1>1, <1>4
  <2>3. ~ (i < j) /\ ~ (j < i)
    BY <1>4, <2>1, <2>2
  <2> QED BY <1>4, <2>3
<1>6. \A i \in 1 .. Len(t) : \A k \in DOMAIN known : t[i].id # known[k].id
  BY <1>3, <1>4
<1>7. /\ s \in Seq(EngineRule) /\ Len(s) = Len(known) + Len(t) /\ DOMAIN s = 1 .. Len(s)
      /\ Len(known) \in Nat /\ DOMAIN known = 1 .. Len(known) /\ Len(t) \in Nat
      /\ \A i \in 1 .. Len(known) : s[i] = known[i]
      /\ \A i \in Len(known) + 1 .. Len(s) : s[i] = t[i - Len(known)]
  <2>1. known \in Seq(EngineRule) /\ t \in Seq(EngineRule)
    BY <1>1, <1>4
  <2>2. \A u \in Seq(EngineRule) : Len(u) \in Nat /\ DOMAIN u = 1 .. Len(u)
    OBVIOUS
  <2>3. /\ s \in Seq(EngineRule) /\ Len(s) = Len(known) + Len(t)
        /\ \A i \in 1 .. Len(known) + Len(t) :
             s[i] = IF i <= Len(known) THEN known[i] ELSE t[i - Len(known)]
    BY <2>1, ConcatProperties
  <2> HIDE DEF s
  <2> QED BY <2>1, <2>2, <2>3
<1>8. \A i, j \in DOMAIN known : known[i].id = known[j].id => i = j
  BY DEF DistinctRules
<1>9. ASSUME NEW i \in DOMAIN s, NEW j \in DOMAIN s, s[i].id = s[j].id PROVE i = j
  <2> DEFINE n == Len(known)
  <2> HIDE DEF s
  <2>1. i \in 1 .. Len(s) /\ j \in 1 .. Len(s)
    BY <1>7
  <2>2. CASE i <= n /\ j <= n
    BY <1>7, <1>8, <1>9, <2>1, <2>2
  <2>3. CASE n < i /\ n < j
    <3>1. i - n \in 1 .. Len(t) /\ j - n \in 1 .. Len(t) /\ s[i] = t[i - n] /\ s[j] = t[j - n]
      <4>1. i \in Len(known) + 1 .. Len(s) /\ j \in Len(known) + 1 .. Len(s)
        BY <1>7, <2>1, <2>3
      <4>2. s[i] = t[i - n] /\ s[j] = t[j - n]
        BY <1>7, <4>1
      <4> QED BY <1>7, <4>1, <4>2
    <3>2. i - n = j - n
      BY <1>5, <1>9, <3>1
    <3> QED BY <1>7, <2>1, <3>2
  <2>4. CASE i <= n /\ n < j
    <3>1. i \in 1 .. n /\ j - n \in 1 .. Len(t) /\ s[i] = known[i] /\ s[j] = t[j - n]
      BY <1>7, <2>1, <2>4
    <3> QED BY <1>6, <1>7, <1>9, <3>1
  <2>5. CASE n < i /\ j <= n
    <3>1. j \in 1 .. n /\ i - n \in 1 .. Len(t) /\ s[j] = known[j] /\ s[i] = t[i - n]
      BY <1>7, <2>1, <2>5
    <3> QED BY <1>6, <1>7, <1>9, <3>1
  <2> QED BY <1>7, <2>1, <2>2, <2>3, <2>4, <2>5
<1>10. s \in DistinctRules
  <2> HIDE DEF s
  <2> QED BY <1>7, <1>9 DEF DistinctRules
<1> QED BY <1>10 DEF WithRules, P, t

(* The rules after each of n lists, of which the fitting ones are taken.   *)
TakenInTurn(f, n, first, rules, fitting) ==
  f = [i \in 0 .. n |-> IF i = 0 THEN first ELSE WithRules(f[i - 1], rules[i], fitting[i])]

(* Rules taken from one list after the other are taken once.               *)
LEMMA RulesInTurn ==
  ASSUME NEW n \in Nat, NEW first \in DistinctRules,
         NEW rules \in [1 .. n -> Seq(EngineRule)], NEW fitting,
         \A i \in 1 .. n : fitting[i] \in SUBSET DOMAIN rules[i]
  PROVE  \E f : TakenInTurn(f, n, first, rules, fitting)
<1> DEFINE turn == [i \in 1 .. n |-> [known \in DistinctRules |-> WithRules(known, rules[i], fitting[i])]]
<1>1. \A i \in 1 .. n : \A known \in DistinctRules : WithRules(known, rules[i], fitting[i]) \in DistinctRules
  BY RulesAreTakenOnce
<1>2. turn \in [1 .. n -> [DistinctRules -> DistinctRules]]
  BY <1>1
<1> HIDE DEF turn
<1>3. PICK f \in [0 .. n -> DistinctRules] : IsLoop(f, n, first, turn)
  BY <1>2, LoopIsDefined, Zenon
<1>4. \A i \in 1 .. n : i - 1 \in 0 .. n
  OBVIOUS
<1>5. f[0] = first /\ \A i \in 1 .. n : f[i] = WithRules(f[i - 1], rules[i], fitting[i])
  BY <1>3, <1>4 DEF IsLoop, turn
<1>6. \A i \in 0 .. n : i # 0 => i \in 1 .. n
  OBVIOUS
<1>7. \A i \in 0 .. n : f[i] = IF i = 0 THEN first ELSE WithRules(f[i - 1], rules[i], fitting[i])
  BY <1>5, <1>6
<1>8. f = [i \in 0 .. n |-> f[i]]
  BY <1>3
<1>9. TakenInTurn(f, n, first, rules, fitting)
  BY <1>7, <1>8, Zenon DEF TakenInTurn
<1> QED BY <1>9

(* Whatever function is such a loop has such values.                       *)
LEMMA RulesOfTurns ==
  ASSUME NEW n \in Nat, NEW first \in DistinctRules,
         NEW rules \in [1 .. n -> Seq(EngineRule)], NEW fitting,
         \A i \in 1 .. n : fitting[i] \in SUBSET DOMAIN rules[i],
         NEW f, TakenInTurn(f, n, first, rules, fitting)
  PROVE  f[n] \in DistinctRules
<1> DEFINE T == {i \in 0 .. n : f[i] \notin DistinctRules}
<1>1. ASSUME T # {} PROVE FALSE
  <2>1. T \in SUBSET Nat
    OBVIOUS
  <2> HIDE DEF T
  <2>2. PICK i \in T : \A k \in T : i <= k
    BY <1>1, <2>1, LeastNatural, Zenon
  <2>3. i \in 0 .. n /\ f[i] \notin DistinctRules
    BY <2>2 DEF T
  <2>4. f[i] = IF i = 0 THEN first ELSE WithRules(f[i - 1], rules[i], fitting[i])
    BY <2>3 DEF TakenInTurn
  <2>5. i # 0
    BY <2>3, <2>4
  <2>6. i \in 1 .. n /\ i - 1 \in 0 .. n /\ ~ (i <= i - 1)
    BY <2>3, <2>5
  <2>7. f[i - 1] \in DistinctRules
    BY <2>2, <2>6 DEF T
  <2>8. WithRules(f[i - 1], rules[i], fitting[i]) \in DistinctRules
    BY <2>6, <2>7, RulesAreTakenOnce
  <2> QED BY <2>3, <2>4, <2>5, <2>8
<1>2. n \in 0 .. n
  OBVIOUS
<1> QED BY <1>1, <1>2

(* A part of a list is a part of what it holds.                            *)
LEMMA PartOfList ==
  ASSUME NEW S, NEW s \in Seq(S), NEW P \in SUBSET DOMAIN s
  PROVE  /\ AtPositions(s, P) \in Seq(S) /\ ToSet(AtPositions(s, P)) = {s[i] : i \in P}
         /\ IsInjective(s) => IsInjective(AtPositions(s, P))
         /\ \A i, j \in DOMAIN AtPositions(s, P) :
              i # j => \E k, m \in P : k # m /\ AtPositions(s, P)[i] = s[k] /\ AtPositions(s, P)[j] = s[m]
<1> DEFINE t == AtPositions(s, P)
           N == Cardinality(P)
<1>1. /\ t \in Seq(S) /\ Len(t) = N /\ N \in Nat
      /\ \A i \in 1 .. N : Nth(P, i) \in P /\ t[i] = s[Nth(P, i)]
      /\ \A i, j \in 1 .. N : i < j => Nth(P, i) < Nth(P, j)
      /\ \A n \in P : \E i \in 1 .. N : Nth(P, i) = n
  BY AtPositionsIsSubsequence
<1> HIDE DEF t, N
<1>2. DOMAIN t = 1 .. N
  BY <1>1
<1>3. \A k \in P : k \in Nat
  OBVIOUS
<1>4. \A i, j \in 1 .. N : i # j => Nth(P, i) # Nth(P, j)
  <2> SUFFICES ASSUME NEW i \in 1 .. N, NEW j \in 1 .. N, i # j PROVE Nth(P, i) # Nth(P, j)
    OBVIOUS
  <2>1. Nth(P, i) \in Nat /\ Nth(P, j) \in Nat
    BY <1>1, <1>3
  <2>2. i < j \/ j < i
    BY <1>1
  <2>3. Nth(P, i) < Nth(P, j) \/ Nth(P, j) < Nth(P, i)
    BY <1>1, <2>2
  <2> QED BY <2>1, <2>3
<1>5. ToSet(t) = {s[i] : i \in P}
  <2>1. ToSet(t) = {t[i] : i \in 1 .. N}
    BY <1>2 DEF ToSet
  <2>2. \A i \in 1 .. N : t[i] \in {s[k] : k \in P}
    BY <1>1
  <2>3. \A k \in P : \E i \in 1 .. N : t[i] = s[k]
    BY <1>1
  <2> QED BY <2>1, <2>2, <2>3
<1>6. IsInjective(s) => IsInjective(t)
  <2>1. ASSUME IsInjective(s) PROVE IsInjective(t)
    <3>1. \A k, m \in P : s[k] = s[m] => k = m
      BY <2>1 DEF IsInjective
    <3>2. \A i, j \in 1 .. N : t[i] = t[j] => i = j
      BY <1>1, <1>4, <3>1
    <3> QED BY <1>2, <3>2 DEF IsInjective
  <2> QED BY <2>1
<1>7. \A i, j \in DOMAIN t : i # j => \E k, m \in P : k # m /\ t[i] = s[k] /\ t[j] = s[m]
  BY <1>1, <1>2, <1>4
<1> QED BY <1>1, <1>5, <1>6, <1>7 DEF t

(* Two lists without a common element, joined.                             *)
LEMMA DisjointListsJoined ==
  ASSUME NEW S, NEW s \in Seq(S), NEW t \in Seq(S), IsInjective(s), IsInjective(t),
         ToSet(s) \cap ToSet(t) = {}
  PROVE  s \o t \in Seq(S) /\ IsInjective(s \o t) /\ ToSet(s \o t) = ToSet(s) \cup ToSet(t)
<1> DEFINE u == s \o t
           n == Len(s)
<1>1. /\ n \in Nat /\ Len(t) \in Nat /\ DOMAIN s = 1 .. n /\ DOMAIN t = 1 .. Len(t)
  OBVIOUS
<1>2. /\ u \in Seq(S) /\ Len(u) = n + Len(t)
      /\ \A i \in 1 .. n + Len(t) : u[i] = IF i <= n THEN s[i] ELSE t[i - n]
  BY ConcatProperties
<1> HIDE DEF u, n
<1>3. DOMAIN u = 1 .. n + Len(t)
  BY <1>1, <1>2
<1>4. \A i \in 1 .. n : i \in DOMAIN u /\ u[i] = s[i]
  BY <1>1, <1>2, <1>3
<1>5. \A i \in 1 .. Len(t) : n + i \in DOMAIN u /\ u[n + i] = t[i]
  BY <1>1, <1>2, <1>3
<1>6. \A i \in DOMAIN u : i \in 1 .. n \/ \E k \in 1 .. Len(t) : i = n + k
  <2> SUFFICES ASSUME NEW i \in DOMAIN u, ~ (i \in 1 .. n) PROVE \E k \in 1 .. Len(t) : i = n + k
    OBVIOUS
  <2>1. i - n \in 1 .. Len(t) /\ i = n + (i - n)
    BY <1>1, <1>3
  <2> QED BY <2>1
<1>7. ToSet(u) = ToSet(s) \cup ToSet(t)
  <2>1. \A i \in DOMAIN u : u[i] \in ToSet(s) \cup ToSet(t)
    BY <1>1, <1>4, <1>5, <1>6 DEF ToSet
  <2>2. \A x \in ToSet(s) \cup ToSet(t) : \E i \in DOMAIN u : u[i] = x
    BY <1>1, <1>4, <1>5 DEF ToSet
  <2>3. ToSet(u) = {u[i] : i \in DOMAIN u}
    BY DEF ToSet
  <2> QED BY <2>1, <2>2, <2>3
<1>8. ASSUME NEW i \in DOMAIN u, NEW j \in DOMAIN u, u[i] = u[j] PROVE i = j
  <2>1. \A k, m \in 1 .. n : s[k] = s[m] => k = m
    BY <1>1 DEF IsInjective
  <2>2. \A k, m \in 1 .. Len(t) : t[k] = t[m] => k = m
    BY <1>1 DEF IsInjective
  <2>3. \A k \in 1 .. n : \A m \in 1 .. Len(t) : s[k] # t[m]
    BY <1>1 DEF ToSet
  <2>4. CASE i \in 1 .. n /\ j \in 1 .. n
    BY <1>4, <1>8, <2>1, <2>4
  <2>5. CASE i \in 1 .. n /\ \E m \in 1 .. Len(t) : j = n + m
    BY <1>4, <1>5, <1>8, <2>3, <2>5
  <2>6. CASE (\E k \in 1 .. Len(t) : i = n + k) /\ j \in 1 .. n
    BY <1>4, <1>5, <1>8, <2>3, <2>6
  <2>7. CASE (\E k \in 1 .. Len(t) : i = n + k) /\ (\E m \in 1 .. Len(t) : j = n + m)
    BY <1>5, <1>8, <2>2, <2>7
  <2> QED BY <1>6, <2>4, <2>5, <2>6, <2>7
<1>9. IsInjective(u)
  BY <1>8 DEF IsInjective
<1> QED BY <1>2, <1>7, <1>9 DEF u

(* A list that repeats nothing is as long as the set of what it holds.     *)
LEMMA InjectiveIsCounted ==
  ASSUME NEW S, NEW s \in Seq(S), IsInjective(s)
  PROVE  Cardinality(ToSet(s)) = Len(s)
<1> DEFINE n == Len(s)
<1>1. n \in Nat /\ DOMAIN s = 1 .. n /\ s \in [1 .. n -> ToSet(s)]
  BY DEF ToSet
<1> HIDE DEF n
<1>2. IsFiniteSet(1 .. n) /\ Cardinality(1 .. n) = n
  BY <1>1, FS_Interval
<1>3. s \in Surjection(1 .. n, ToSet(s))
  BY <1>1 DEF Surjection, ToSet
<1>4. s \in Injection(1 .. n, ToSet(s))
  BY <1>1 DEF Injection, IsInjective
<1>5. ExistsBijection(1 .. n, ToSet(s))
  BY <1>3, <1>4 DEF ExistsBijection, Bijection
<1>6. Cardinality(ToSet(s)) = Cardinality(1 .. n)
  BY <1>2, <1>5, FS_Bijection
<1> QED BY <1>2, <1>6 DEF n

(* A part of the rules.                                                    *)
LEMMA PartOfRules ==
  ASSUME NEW s \in DistinctRules, NEW P \in SUBSET DOMAIN s
  PROVE  AtPositions(s, P) \in DistinctRules
<1> DEFINE t == AtPositions(s, P)
<1>1. s \in Seq(EngineRule) /\ \A k, m \in DOMAIN s : s[k].id = s[m].id => k = m
  BY DEF DistinctRules
<1>2. /\ t \in Seq(EngineRule)
      /\ \A i, j \in DOMAIN t : i # j => \E k, m \in P : k # m /\ t[i] = s[k] /\ t[j] = s[m]
  BY <1>1, PartOfList
<1> HIDE DEF t
<1>3. \A i, j \in DOMAIN t : t[i].id = t[j].id => i = j
  BY <1>1, <1>2
<1>4. t \in DistinctRules
  BY <1>2, <1>3 DEF DistinctRules
<1> QED BY <1>4 DEF t

(* The rules of the languages of a run, each once.                         *)
LEMMA ForLanguagesAreRules ==
  ASSUME request \in EngineRequest
  PROVE  ForLanguages \in DistinctRules
<1> DEFINE n == Len(request.languages)
           rules == [i \in 1 .. n |-> Registered]
           fitting == [i \in 1 .. n |-> ForLanguage(request.languages[i])]
           Value(f) == f = [k \in 0 .. n |-> IF k = 0 THEN <<>> ELSE
                              WithRules(f[k - 1], Registered, ForLanguage(request.languages[k]))]
<1>1. n \in Nat /\ <<>> \in DistinctRules
  BY DEF EngineRequest, DistinctRules
<1>2. Registered \in Seq(EngineRule) /\ \A l : ForLanguage(l) \in SUBSET DOMAIN Registered
  BY EngineAssumption DEF ForLanguage
<1> HIDE DEF n
<1>3. rules \in [1 .. n -> Seq(EngineRule)] /\ \A i \in 1 .. n : fitting[i] \in SUBSET DOMAIN rules[i]
  BY <1>2
<1>4. \A i \in 0 .. n : i # 0 => i \in 1 .. n
  BY <1>1
<1>5. \A f : Value(f) <=> TakenInTurn(f, n, <<>>, rules, fitting)
  <2>1. \A f : \A i \in 0 .. n : i # 0 => WithRules(f[i - 1], rules[i], fitting[i])
                                      = WithRules(f[i - 1], Registered, ForLanguage(request.languages[i]))
    BY <1>4
  <2> HIDE DEF rules, fitting
  <2> QED BY <2>1 DEF TakenInTurn
<1> HIDE DEF rules, fitting
<1>6. \E f : TakenInTurn(f, n, <<>>, rules, fitting)
  BY <1>1, <1>3, RulesInTurn, Zenon
<1>7. \E f : Value(f)
  BY <1>5, <1>6
<1> DEFINE upTo == CHOOSE f : Value(f)
<1>8. Value(upTo)
  BY <1>7
<1>9. ForLanguages = upTo[n]
  BY DEF ForLanguages, n
<1> HIDE DEF upTo
<1>10. TakenInTurn(upTo, n, <<>>, rules, fitting)
  BY <1>5, <1>8
<1>11. upTo[n] \in DistinctRules
  BY <1>1, <1>3, <1>10, RulesOfTurns
<1> QED BY <1>9, <1>11

(* The rules that apply, those of the files of state rules with them, each *)
(* once.                                                                   *)
LEMMA StateRulesAreRules ==
  ASSUME request \in EngineRequest
  PROVE  WithStateRules \in DistinctRules
<1> DEFINE n == Len(request.files)
           rules == [i \in 1 .. n |-> request.files[i].rules]
           fitting == [i \in 1 .. n |-> Wanted(request.files[i])]
           Value(f) == f = [k \in 0 .. n |-> IF k = 0 THEN Applicable ELSE
                              WithRules(f[k - 1], request.files[k].rules, Wanted(request.files[k]))]
<1>1. request.files \in Seq(StateRuleFile)
  BY DEF EngineRequest
<1>2. n \in Nat /\ \A i \in 1 .. n : request.files[i] \in StateRuleFile
  BY <1>1
<1>3. Applicable \in DistinctRules
  BY ForLanguagesAreRules, PartOfRules DEF Applicable
<1> HIDE DEF n
<1>4. rules \in [1 .. n -> Seq(EngineRule)] /\ \A i \in 1 .. n : fitting[i] \in SUBSET DOMAIN rules[i]
  BY <1>2 DEF StateRuleFile, Wanted
<1>5. \A i \in 0 .. n : i # 0 => i \in 1 .. n
  BY <1>2
<1>6. \A f : Value(f) <=> TakenInTurn(f, n, Applicable, rules, fitting)
  <2>1. \A f : \A i \in 0 .. n : i # 0 => WithRules(f[i - 1], rules[i], fitting[i])
                                      = WithRules(f[i - 1], request.files[i].rules, Wanted(request.files[i]))
    BY <1>5
  <2> HIDE DEF rules, fitting
  <2> QED BY <2>1 DEF TakenInTurn
<1> HIDE DEF rules, fitting
<1>7. \E f : TakenInTurn(f, n, Applicable, rules, fitting)
  BY <1>2, <1>3, <1>4, RulesInTurn, Zenon
<1>8. \E f : Value(f)
  BY <1>6, <1>7
<1> DEFINE upTo == CHOOSE f : Value(f)
<1>9. Value(upTo)
  BY <1>8
<1>10. WithStateRules = upTo[n]
  BY DEF WithStateRules, WithFiles, n
<1> HIDE DEF upTo
<1>11. TakenInTurn(upTo, n, Applicable, rules, fitting)
  BY <1>6, <1>9
<1>12. upTo[n] \in DistinctRules
  BY <1>2, <1>3, <1>4, <1>11, RulesOfTurns
<1> QED BY <1>10, <1>12

-----------------------------------------------------------------------------
(* The rules of a run that are to be run.                                  *)
Due == {rule \in ToSet(WithStateRules) : Runs(rule)}

EngineShape ==
  /\ frontend \in Seq(ParseOutcomes)
  /\ \A i \in DOMAIN frontend : frontend[i] # "raised" => request.languages[i] \in Adapted
  /\ reported \in Seq(EngineFinding) /\ IsInjective(reported) /\ returned \in SUBSET EngineFinding

BeforeRules ==
  /\ enginePhase = "request" => request = NoRequest /\ frontend = <<>> /\ errors = {}
  /\ enginePhase \in {"request", "parse"} =>
       agenda = <<>> /\ assessed = <<>> /\ reported = <<>> /\ packed = {} /\ returned = {} /\ ran = {}

(* A rule still to run is not yet run.                                     *)
AgendaIsSound ==
  /\ agenda \in DistinctRules
  /\ agenda # <<>> => enginePhase = "rules" /\ Parsed # {}
  /\ \A rule \in ToSet(agenda) : \A f \in returned : f.rule # rule.id

(* What is reported is what rules returned, then the part that is sure     *)
(* enough, then that and what the reader found.                            *)
ReportedIsReturned ==
  /\ ToSet(reported) =
       IF enginePhase \in {"request", "parse", "rules"} THEN returned
       ELSE {f \in returned : request.sure => f.sure} \cup (IF readerMerged THEN request.reader ELSE {})
  /\ readerMerged => HasIR /\ enginePhase \in {"report", "save", "done"}
  /\ enginePhase \in {"save", "done"} /\ request.reader # {} /\ HasIR => readerMerged

CountsAgree ==
  /\ enginePhase \in {"request", "parse", "rules", "packs", "count"} => counted = NoStats
  /\ enginePhase = "adjudicate" => counted = CountOf(reported, assessed)
  /\ enginePhase \in {"report", "save", "done"} =>
       counted = CountOf(reported, assessed) \/ (counted = NoStats /\ (Stopped \/ request.single))

OutputsAgree ==
  /\ saved \in Seq(ToSet(Outputs) \X Seq(EngineFinding)) /\ Len(saved) <= Len(Outputs)
  /\ \A i \in DOMAIN saved : saved[i][2] = reported
  /\ enginePhase \notin {"save", "done"} => saved = <<>>
  /\ enginePhase # "done" => exitCode = NotYet
  /\ enginePhase = "done" =>
       exitCode \in {0, 1, 2} /\ (exitCode = 1 <=> Len(saved) = Len(Outputs) /\ Gating # {})

(* As long as nothing failed, nothing was left out.                        *)
NothingUnsaid ==
  errors = {} /\ ~request.single =>
    /\ \A i \in DOMAIN frontend : request.languages[i] \in Adapted => frontend[i] # "raised"
    /\ enginePhase \notin {"request", "parse"} =>
         /\ AllParsed /\ \A i \in FirstParsed : frontend[i] # "partly"
         /\ Parsed # {} => \A rule \in Due : rule.id \in ran \/ rule \in ToSet(agenda)

EInv ==
  /\ EngineTypeOK /\ EngineShape /\ BeforeRules /\ AgendaIsSound
  /\ ReportedIsReturned /\ CountsAgree /\ OutputsAgree /\ NothingUnsaid

-----------------------------------------------------------------------------
(* What is asked for is a request.                                         *)
LEMMA RequestIsRequest ==
  ASSUME NEW r \in Requests \cup {NoRequest}
  PROVE  r \in EngineRequest /\ IsFiniteSet(r.reader) /\ Len(r.languages) \in Nat
<1>1. NoRequest \in EngineRequest
  BY DEF NoRequest, EngineRequest, Severities
<1>2. IsFiniteSet(NoRequest.reader)
  BY FS_EmptySet DEF NoRequest
<1>3. r \in EngineRequest /\ IsFiniteSet(r.reader)
  BY <1>1, <1>2, EngineAssumption, Zenon
<1>4. r.languages \in Seq(STRING)
  BY <1>3 DEF EngineRequest
<1> QED BY <1>3, <1>4

(* What depends on the request and the frontends only.                     *)
LEMMA SameFront ==
  ASSUME UNCHANGED <<request, frontend>>
  PROVE  /\ Parsed' = Parsed /\ ParsedAt' = ParsedAt /\ (AllParsed' <=> AllParsed)
         /\ FirstParsed' = FirstParsed
         /\ WithStateRules' = WithStateRules /\ Due' = Due
<1>1. /\ Parsed' = Parsed /\ ParsedAt' = ParsedAt /\ (AllParsed' <=> AllParsed)
      /\ FirstParsed' = FirstParsed
  BY DEF Parsed, ParsedAt, AllParsed, FirstParsed
<1>2. ForLanguages' = ForLanguages
  BY DEF ForLanguages
<1>3. \A file : Wanted(file)' = Wanted(file)
  BY DEF Wanted, AskedFor, Languages
<1>4. Applicable' = Applicable
  BY <1>2 DEF Applicable, AskedFor
<1>5. WithStateRules' = WithStateRules
  BY <1>4 DEF WithStateRules, WithFiles, Wanted, AskedFor, Languages
<1>6. Due' = Due
  BY <1>5 DEF Due, Runs
<1> QED BY <1>1, <1>5, <1>6

(* The first of some rules and the others.                                 *)
LEMMA NextRule ==
  ASSUME NEW s \in DistinctRules, s # <<>>
  PROVE  /\ Head(s) \in EngineRule /\ Head(s) \in ToSet(s) /\ Tail(s) \in DistinctRules
         /\ ToSet(s) = {Head(s)} \cup ToSet(Tail(s))
         /\ \A rule \in ToSet(Tail(s)) : rule.id # Head(s).id
<1> DEFINE t == Tail(s)
<1>1. s \in Seq(EngineRule) /\ \A i, j \in DOMAIN s : s[i].id = s[j].id => i = j
  BY DEF DistinctRules
<1>2. /\ Head(s) = s[1] /\ Head(s) \in EngineRule /\ t \in Seq(EngineRule) /\ Len(t) = Len(s) - 1
      /\ \A i \in 1 .. Len(t) : t[i] = s[i + 1]
  BY <1>1, HeadTailProperties
<1>3. /\ Len(s) \in Nat /\ Len(s) # 0 /\ DOMAIN s = 1 .. Len(s)
  BY <1>1
<1> HIDE DEF t
<1>4. DOMAIN t = 1 .. Len(t) /\ 1 \in DOMAIN s
  BY <1>2, <1>3
<1>5. \A i \in DOMAIN t : i + 1 \in DOMAIN s /\ t[i] = s[i + 1] /\ i + 1 # 1
  BY <1>2, <1>3, <1>4
<1>6. \A i \in DOMAIN s : i = 1 \/ \E k \in DOMAIN t : i = k + 1
  <2> SUFFICES ASSUME NEW i \in DOMAIN s, i # 1 PROVE \E k \in DOMAIN t : i = k + 1
    OBVIOUS
  <2>1. i - 1 \in DOMAIN t /\ i = (i - 1) + 1
    BY <1>2, <1>3, <1>4
  <2> QED BY <2>1
<1>7. \A i, j \in DOMAIN t : t[i].id = t[j].id => i = j
  <2> SUFFICES ASSUME NEW i \in DOMAIN t, NEW j \in DOMAIN t, t[i].id = t[j].id PROVE i = j
    OBVIOUS
  <2>1. i + 1 = j + 1 /\ i \in Nat /\ j \in Nat
    BY <1>1, <1>4, <1>5
  <2> QED BY <2>1
<1>8. \A i \in DOMAIN t : t[i].id # Head(s).id
  BY <1>1, <1>2, <1>4, <1>5
<1>9. ToSet(s) = {Head(s)} \cup ToSet(t)
  <2>1. ToSet(s) = {s[i] : i \in DOMAIN s} /\ ToSet(t) = {t[i] : i \in DOMAIN t}
    BY DEF ToSet
  <2>2. \A i \in DOMAIN s : s[i] \in {Head(s)} \cup {t[k] : k \in DOMAIN t}
    BY <1>2, <1>5, <1>6
  <2>3. \A k \in DOMAIN t : t[k] \in {s[i] : i \in DOMAIN s}
    BY <1>5
  <2>4. Head(s) \in {s[i] : i \in DOMAIN s}
    BY <1>2, <1>4
  <2> QED BY <2>1, <2>2, <2>3, <2>4
<1>10. t \in DistinctRules
  BY <1>2, <1>7 DEF DistinctRules
<1>11. \A rule \in ToSet(t) : rule.id # Head(s).id
  BY <1>8 DEF ToSet
<1> QED BY <1>2, <1>9, <1>10, <1>11 DEF t

(* A rule that is assessed gets a status.                                  *)
LEMMA StatusIsStatus ==
  ASSUME EngineShape, Parsed # {}, NEW rule
  PROVE  Status(rule) \in Statuses
<1> DEFINE S == {StatusIn(rule, l) : l \in AssessedFor(rule)}
<1>1. Parsed \subseteq Adapted
  BY DEF EngineShape, Parsed, ParsedAt
<1>2. AssessedFor(rule) # {} /\ AssessedFor(rule) \subseteq Adapted
  BY <1>1 DEF AssessedFor
<1>3. \A l \in Adapted : StatusIn(rule, l) \in Statuses
  BY EngineAssumption DEF StatusIn, Statuses
<1>4. S # {} /\ S \subseteq Statuses
  BY <1>2, <1>3
<1>5. Rank("unknown") = 0 /\ Rank("unsupported") = 1 /\ Rank("partial") = 2 /\ Rank("full") = 3
  BY DEF Rank
<1> HIDE DEF S
<1>6. \E s \in S : \A t \in S : Rank(s) <= Rank(t)
  <2>1. CASE "unknown" \in S
    BY <1>4, <1>5, <2>1 DEF Statuses
  <2>2. CASE "unknown" \notin S /\ "unsupported" \in S
    BY <1>4, <1>5, <2>2 DEF Statuses
  <2>3. CASE "unknown" \notin S /\ "unsupported" \notin S /\ "partial" \in S
    BY <1>4, <1>5, <2>3 DEF Statuses
  <2>4. CASE "unknown" \notin S /\ "unsupported" \notin S /\ "partial" \notin S
    <3>1. S = {"full"}
      BY <1>4, <2>4 DEF Statuses
    <3> QED BY <1>5, <3>1
  <2> QED BY <2>1, <2>2, <2>3, <2>4
<1>7. Status(rule) \in S
  BY <1>6 DEF Status, S
<1> QED BY <1>4, <1>7

(* Statistics that were counted are not those of before counting.          *)
LEMMA CountedIsCounted ==
  ASSUME NEW list, NEW status
  PROVE  CountOf(list, status) # NoStats
<1>1. DOMAIN CountOf(list, status).bySeverity = Severities
  BY DEF CountOf
<1>2. DOMAIN NoStats.bySeverity = {}
  BY DEF NoStats
<1> QED BY <1>1, <1>2 DEF Severities

(* The findings of a rule.                                                 *)
LEMMA FoundAreFindings ==
  ASSUME NEW rule \in EngineRule, NEW units \in SUBSET Units
  PROVE  LET found == {FindingAt(rule, u) : u \in {v \in units : InScope(rule, v)}} IN
         /\ found \in SUBSET EngineFinding /\ IsFiniteSet(found)
         /\ \A f \in found : f.rule = rule.id
<1> DEFINE here == {v \in units : InScope(rule, v)}
           found == {FindingAt(rule, u) : u \in here}
           place == [u \in here |-> FindingAt(rule, u)]
<1>1. here \subseteq SourceUnit /\ here \in SUBSET Units
  BY EngineAssumption
<1>2. IsFiniteSet(here)
  BY <1>1, EngineAssumption, FS_Subset
<1> HIDE DEF here
<1>3. \A u \in here : FindingAt(rule, u) \in EngineFinding /\ FindingAt(rule, u).rule = rule.id
  BY <1>1 DEF FindingAt, EngineFinding, EngineRule
<1>4. place \in Surjection(here, found)
  BY DEF Surjection
<1>5. IsFiniteSet(found)
  <2> HIDE DEF place, found
  <2> QED BY <1>2, <1>4, FS_Surjection
<1>6. found \in SUBSET EngineFinding /\ \A f \in found : f.rule = rule.id
  BY <1>3
<1> QED BY <1>5, <1>6 DEF here

-----------------------------------------------------------------------------
(* A run starts with nothing.                                              *)
LEMMA EngineStarts == EngineInit => EInv
<1> SUFFICES ASSUME EngineInit PROVE EInv
  OBVIOUS
<1>1. /\ enginePhase = "request" /\ request = NoRequest /\ frontend = <<>> /\ agenda = <<>>
      /\ assessed = <<>> /\ reported = <<>> /\ errors = {} /\ packed = {} /\ counted = NoStats
      /\ readerMerged = FALSE /\ saved = <<>> /\ exitCode = NotYet /\ returned = {} /\ ran = {}
  BY DEF EngineInit
<1>2. DOMAIN <<>> = {} /\ Len(<<>>) = 0 /\ \A S : <<>> \in Seq(S)
  OBVIOUS
<1>3. ToSet(<<>>) = {} /\ IsInjective(<<>>)
  BY <1>2 DEF ToSet, IsInjective
<1>4. EngineTypeOK
  BY <1>1, <1>2, RequestIsRequest DEF EngineTypeOK
<1>5. EngineShape
  BY <1>1, <1>2, <1>3 DEF EngineShape
<1>6. BeforeRules
  BY <1>1 DEF BeforeRules
<1>7. AgendaIsSound
  BY <1>1, <1>2, <1>3 DEF AgendaIsSound, DistinctRules
<1>8. ReportedIsReturned
  BY <1>1, <1>3 DEF ReportedIsReturned
<1>9. CountsAgree
  BY <1>1 DEF CountsAgree
<1>10. OutputsAgree
  BY <1>1, <1>2 DEF OutputsAgree, Outputs
<1>11. NothingUnsaid
  BY <1>1, <1>2 DEF NothingUnsaid
<1> QED BY <1>4, <1>5, <1>6, <1>7, <1>8, <1>9, <1>10, <1>11 DEF EInv

(* A request starts it.                                                    *)
LEMMA RequestedKeeps == EInv /\ Requested => EInv'
<1> SUFFICES ASSUME EInv, Requested PROVE EInv'
  OBVIOUS
<1>1. /\ enginePhase = "request" /\ request' \in Requests /\ enginePhase' = "parse"
      /\ UNCHANGED <<frontend, agenda, assessed, reported, errors, packed, counted, readerMerged, saved,
                     exitCode, returned, ran>>
  BY DEF Requested
<1>2. /\ frontend = <<>> /\ agenda = <<>> /\ assessed = <<>> /\ reported = <<>> /\ packed = {}
      /\ errors = {} /\ returned = {} /\ ran = {}
  BY <1>1 DEF EInv, BeforeRules
<1>3. DOMAIN <<>> = {} /\ Len(<<>>) = 0 /\ \A S : <<>> \in Seq(S)
  OBVIOUS
<1>4. ToSet(<<>>) = {} /\ IsInjective(<<>>)
  BY <1>3 DEF ToSet, IsInjective
<1>5. EngineTypeOK'
  BY <1>1, <1>2, <1>3, RequestIsRequest DEF EInv, EngineTypeOK
<1>6. EngineShape'
  BY <1>1, <1>2, <1>3, <1>4 DEF EngineShape
<1>7. BeforeRules'
  BY <1>1, <1>2 DEF BeforeRules
<1>8. AgendaIsSound'
  BY <1>1, <1>2, <1>3, <1>4 DEF AgendaIsSound, DistinctRules
<1>9. ReportedIsReturned'
  BY <1>1, <1>2, <1>4 DEF EInv, ReportedIsReturned
<1>10. CountsAgree'
  BY <1>1 DEF EInv, CountsAgree
<1>11. OutputsAgree'
  BY <1>1 DEF EInv, OutputsAgree
<1>12. NothingUnsaid'
  BY <1>1, <1>2, <1>3 DEF NothingUnsaid
<1> QED BY <1>5, <1>6, <1>7, <1>8, <1>9, <1>10, <1>11, <1>12 DEF EInv

(* A language is parsed.                                                   *)
LEMMA ParseKeeps ==
  ASSUME NEW outcome \in ParseOutcomes
  PROVE  EInv /\ Parse(outcome) => EInv'
<1> SUFFICES ASSUME EInv, Parse(outcome) PROVE EInv'
  OBVIOUS
<1> DEFINE n == Len(frontend) + 1
           language == request.languages[n]
           became == IF language \in Adapted THEN outcome ELSE "raised"
<1>1. /\ enginePhase = "parse" /\ ~AllParsed /\ frontend' = Append(frontend, became)
      /\ enginePhase' = IF request.single /\ became = "raised" THEN "report" ELSE "parse"
      /\ errors' = IF became = "raised" /\ (request.single \/ language \in Adapted)
                   THEN errors \cup {<<"parse", language>>} ELSE errors
      /\ UNCHANGED <<request, agenda, assessed, reported, packed, counted, readerMerged, saved,
                     exitCode, returned, ran>>
  BY DEF Parse
<1>2. agenda = <<>> /\ assessed = <<>> /\ reported = <<>> /\ packed = {} /\ returned = {} /\ ran = {}
  BY <1>1 DEF EInv, BeforeRules
<1>3. /\ frontend \in Seq(ParseOutcomes) /\ Len(frontend) \in Nat /\ DOMAIN frontend = 1 .. Len(frontend)
      /\ became \in ParseOutcomes /\ (became # "raised" => language \in Adapted)
  <2>1. frontend \in Seq(ParseOutcomes)
    BY DEF EInv, EngineShape
  <2> QED BY <2>1 DEF ParseOutcomes
<1> HIDE DEF became
<1>4. /\ frontend' \in Seq(ParseOutcomes) /\ Len(frontend') = n
      /\ \A i \in 1 .. Len(frontend) : frontend'[i] = frontend[i]
      /\ frontend'[n] = became
  BY <1>1, <1>3, AppendProperties
<1>5. Len(frontend) < Len(request.languages) /\ Len(request.languages) \in Nat
  BY <1>1, <1>3, RequestIsRequest DEF EInv, EngineTypeOK, AllParsed
<1>6. \A i \in DOMAIN frontend' : i \in 1 .. Len(frontend) \/ i = n
  BY <1>3, <1>4
<1>7. EngineTypeOK'
  BY <1>1, <1>2, <1>3, <1>4, <1>5 DEF EInv, EngineTypeOK
<1>8. EngineShape'
  <2>1. \A i \in DOMAIN frontend' : frontend'[i] # "raised" => request'.languages[i] \in Adapted
    BY <1>1, <1>3, <1>4, <1>6 DEF EInv, EngineShape
  <2> QED BY <1>1, <1>4, <2>1 DEF EInv, EngineShape
<1>9. BeforeRules'
  BY <1>1, <1>2 DEF BeforeRules
<1>10. ToSet(<<>>) = {}
  BY DEF ToSet
<1>11. AgendaIsSound'
  BY <1>1, <1>2, <1>10 DEF EInv, AgendaIsSound
<1>12. ReportedIsReturned'
  BY <1>1, <1>2, <1>10 DEF EInv, ReportedIsReturned
<1>13. CountsAgree'
  BY <1>1 DEF EInv, CountsAgree
<1>14. OutputsAgree'
  BY <1>1 DEF EInv, OutputsAgree
<1>15. NothingUnsaid'
  <2> SUFFICES ASSUME errors' = {}, ~request.single PROVE NothingUnsaid'
    BY <1>1 DEF NothingUnsaid
  <2>1. errors = {} /\ enginePhase' = "parse" /\ (language \in Adapted => became # "raised")
    BY <1>1
  <2>2. \A i \in DOMAIN frontend : request.languages[i] \in Adapted => frontend[i] # "raised"
    BY <2>1 DEF EInv, NothingUnsaid
  <2>3. \A i \in DOMAIN frontend' : request'.languages[i] \in Adapted => frontend'[i] # "raised"
    BY <1>1, <1>3, <1>4, <1>6, <2>1, <2>2
  <2> QED BY <2>1, <2>3 DEF NothingUnsaid
<1> QED BY <1>7, <1>8, <1>9, <1>11, <1>12, <1>13, <1>14, <1>15 DEF EInv

(* The rules are chosen.                                                   *)
LEMMA LinkKeeps ==
  ASSUME NEW fails \in BOOLEAN
  PROVE  EInv /\ Link(fails) => EInv'
<1> SUFFICES ASSUME EInv, Link(fails) PROVE EInv'
  OBVIOUS
<1>1. /\ enginePhase = "parse" /\ AllParsed /\ enginePhase' = "rules"
      /\ agenda' = IF Parsed = {} THEN <<>> ELSE WithStateRules
      /\ errors \subseteq errors' /\ FrontendErrors \subseteq errors'
      /\ UNCHANGED <<request, frontend, assessed, reported, packed, counted, readerMerged, saved,
                     exitCode, returned, ran>>
  BY DEF Link
<1>2. agenda = <<>> /\ assessed = <<>> /\ reported = <<>> /\ packed = {} /\ returned = {} /\ ran = {}
  BY <1>1 DEF EInv, BeforeRules
<1>3. Parsed' = Parsed /\ AllParsed' /\ Due' = Due /\ FirstParsed' = FirstParsed
  BY <1>1, SameFront
<1>4. EngineTypeOK'
  BY <1>1 DEF EInv, EngineTypeOK
<1>5. EngineShape'
  BY <1>1 DEF EInv, EngineShape
<1>6. BeforeRules'
  BY <1>1 DEF BeforeRules
<1>7. AgendaIsSound'
  <2>1. request \in EngineRequest
    BY RequestIsRequest DEF EInv, EngineTypeOK
  <2>2. agenda' \in DistinctRules
    BY <1>1, <1>2, <2>1, StateRulesAreRules DEF EInv, AgendaIsSound
  <2>3. returned' = {} /\ enginePhase' = "rules" /\ (agenda' # <<>> => Parsed' # {})
    BY <1>1, <1>2, <1>3
  <2> QED BY <2>2, <2>3 DEF AgendaIsSound
<1>8. ReportedIsReturned'
  BY <1>1, <1>2 DEF EInv, ReportedIsReturned
<1>9. CountsAgree'
  BY <1>1 DEF EInv, CountsAgree
<1>10. OutputsAgree'
  BY <1>1 DEF EInv, OutputsAgree
<1>11. NothingUnsaid'
  <2> SUFFICES ASSUME errors' = {}, ~request.single PROVE NothingUnsaid'
    BY <1>1 DEF NothingUnsaid
  <2>1. errors = {} /\ FrontendErrors = {}
    BY <1>1
  <2>2. \A i \in DOMAIN frontend' : request'.languages[i] \in Adapted => frontend'[i] # "raised"
    BY <1>1, <2>1 DEF EInv, NothingUnsaid
  <2>3. \A i \in FirstParsed' : frontend'[i] # "partly"
    BY <1>1, <1>3, <2>1 DEF FrontendErrors
  <2>4. Parsed # {} => \A rule \in Due : rule \in ToSet(agenda')
    BY <1>1 DEF Due
  <2> QED BY <1>3, <2>2, <2>3, <2>4 DEF NothingUnsaid
<1> QED BY <1>4, <1>5, <1>6, <1>7, <1>8, <1>9, <1>10, <1>11 DEF EInv

(* The next rule is left out, fails, or finds something.                   *)
LEMMA RulesKeep ==
  ASSUME NEW unsupported \in BOOLEAN, NEW units \in SUBSET Units
  PROVE  EInv /\ (LeaveOut \/ RuleFails(unsupported) \/ RuleFinds(units)) => EInv'
<1> SUFFICES ASSUME EInv, LeaveOut \/ RuleFails(unsupported) \/ RuleFinds(units) PROVE EInv'
  OBVIOUS
<1> DEFINE rule == Head(agenda)
           found == {FindingAt(rule, u) : u \in {v \in units : InScope(rule, v)}}
<1>1. /\ enginePhase = "rules" /\ agenda # <<>> /\ agenda' = Tail(agenda)
      /\ UNCHANGED <<request, enginePhase, frontend, packed, counted, readerMerged, saved, exitCode>>
  BY DEF LeaveOut, RuleFails, RuleFinds
<1>2. /\ rule \in EngineRule /\ Tail(agenda) \in DistinctRules
      /\ ToSet(agenda) = {rule} \cup ToSet(Tail(agenda))
      /\ \A r \in ToSet(Tail(agenda)) : r.id # rule.id
  BY <1>1, NextRule DEF EInv, AgendaIsSound
<1>3. Parsed # {} /\ \A r \in ToSet(agenda) : \A f \in returned : f.rule # r.id
  BY <1>1 DEF EInv, AgendaIsSound
<1>4. Status(rule) \in Statuses
  BY <1>3, StatusIsStatus DEF EInv
<1>5. found \in SUBSET EngineFinding /\ IsFiniteSet(found) /\ \A f \in found : f.rule = rule.id
  BY <1>2, FoundAreFindings
<1>6. Parsed' = Parsed /\ (AllParsed' <=> AllParsed) /\ Due' = Due /\ FirstParsed' = FirstParsed
  BY <1>1, SameFront
<1> DEFINE new == reported' = reported \o SetToSeq(found) /\ returned' = returned \cup found
           old == reported' = reported /\ returned' = returned
<1>7. /\ new \/ old
      /\ (ran' = ran \/ ran' = ran \cup {rule.id})
      /\ ((UNCHANGED assessed /\ ran' = ran) \/ Assess(rule))
  BY DEF LeaveOut, RuleFails, RuleFinds
<1>8. \/ ~Runs(rule) /\ ran' = ran /\ errors' = errors
      \/ errors' # {}
      \/ ran' = ran \cup {rule.id} /\ errors' = errors
  BY DEF LeaveOut, RuleFails, RuleFinds
<1>9. reported \in Seq(EngineFinding) /\ IsInjective(reported) /\ returned \in SUBSET EngineFinding
      /\ ToSet(reported) = returned
  BY <1>1 DEF EInv, EngineShape, ReportedIsReturned
<1> HIDE DEF rule, found
<1>10. /\ reported' \in Seq(EngineFinding) /\ IsInjective(reported') /\ returned' \in SUBSET EngineFinding
       /\ ToSet(reported') = returned' /\ returned \subseteq returned'
       /\ \A f \in returned' : f \in returned \/ f.rule = rule.id
  <2>1. CASE old
    BY <1>9, <2>1
  <2>2. CASE new
    <3> DEFINE t == SetToSeq(found)
    <3>1. t \in Seq(found) /\ ToSet(t) = found /\ IsInjective(t)
      BY <1>5, SetToSeqListsTheSet
    <3> HIDE DEF t
    <3>2. t \in Seq(EngineFinding)
      BY <1>5, <3>1
    <3>3. found \cap returned = {}
      BY <1>2, <1>3, <1>5
    <3>4. /\ reported \o t \in Seq(EngineFinding) /\ IsInjective(reported \o t)
          /\ ToSet(reported \o t) = ToSet(reported) \cup ToSet(t)
      BY <1>9, <3>1, <3>2, <3>3, DisjointListsJoined
    <3>5. reported' = reported \o t /\ returned' = returned \cup found
      BY <2>2 DEF t
    <3> QED BY <1>5, <1>9, <3>1, <3>4, <3>5
  <2> QED BY <1>7, <2>1, <2>2
<1>11. EngineTypeOK'
  <2>1. /\ \A id \in DOMAIN assessed : assessed[id] \in Statuses
        /\ ran \subseteq DOMAIN assessed /\ packed \subseteq returned
    BY DEF EInv, EngineTypeOK
  <2>2. /\ \A id \in DOMAIN assessed' : assessed'[id] \in Statuses
        /\ ran' \subseteq DOMAIN assessed'
    <3>1. CASE UNCHANGED assessed /\ ran' = ran
      BY <2>1, <3>1
    <3>2. CASE Assess(rule)
      <4>1. assessed' = [id \in DOMAIN assessed \cup {rule.id} |->
                           IF id = rule.id THEN Status(rule) ELSE assessed[id]]
        BY <3>2 DEF Assess
      <4>2. DOMAIN assessed' = DOMAIN assessed \cup {rule.id}
        BY <4>1
      <4>3. \A id \in DOMAIN assessed' : assessed'[id] \in Statuses
        BY <1>4, <2>1, <4>1
      <4> QED BY <1>7, <2>1, <4>2, <4>3
    <3> QED BY <1>7, <3>1, <3>2
  <2>3. packed' \subseteq returned'
    BY <1>1, <1>10, <2>1
  <2> QED BY <1>1, <2>2, <2>3 DEF EInv, EngineTypeOK
<1>12. EngineShape'
  BY <1>1, <1>10 DEF EInv, EngineShape
<1>13. BeforeRules'
  BY <1>1 DEF BeforeRules
<1>14. AgendaIsSound'
  <2>1. \A r \in ToSet(agenda') : \A f \in returned' : f.rule # r.id
    BY <1>1, <1>2, <1>3, <1>10
  <2> QED BY <1>1, <1>2, <1>3, <1>6, <2>1 DEF AgendaIsSound
<1>15. ReportedIsReturned'
  BY <1>1, <1>10 DEF EInv, ReportedIsReturned
<1>16. CountsAgree'
  BY <1>1 DEF EInv, CountsAgree
<1>17. OutputsAgree'
  <2>1. saved = <<>> /\ exitCode = NotYet
    BY <1>1 DEF EInv, OutputsAgree
  <2> QED BY <1>1, <2>1 DEF EInv, OutputsAgree
<1>18. NothingUnsaid'
  <2> SUFFICES ASSUME errors' = {}, ~request.single PROVE NothingUnsaid'
    BY <1>1 DEF NothingUnsaid
  <2>1. errors = {} /\ ran \subseteq ran' /\ (~Runs(rule) \/ rule.id \in ran')
    BY <1>8
  <2>2. /\ AllParsed /\ \A i \in FirstParsed : frontend[i] # "partly"
        /\ \A i \in DOMAIN frontend : request.languages[i] \in Adapted => frontend[i] # "raised"
        /\ \A r \in Due : r.id \in ran \/ r \in ToSet(agenda)
    BY <1>1, <1>3, <2>1 DEF EInv, NothingUnsaid
  <2>3. \A r \in Due : Runs(r)
    BY DEF Due
  <2>4. \A r \in Due : r.id \in ran' \/ r \in ToSet(agenda')
    BY <1>1, <1>2, <2>1, <2>2, <2>3
  <2> QED BY <1>1, <1>6, <2>2, <2>4 DEF NothingUnsaid
<1> QED BY <1>11, <1>12, <1>13, <1>14, <1>15, <1>16, <1>17, <1>18 DEF EInv

(* What is not sure enough is dropped.                                     *)
LEMMA FilterKeeps == EInv /\ Filter => EInv'
<1> SUFFICES ASSUME EInv, Filter PROVE EInv'
  OBVIOUS
<1> DEFINE P == {i \in DOMAIN reported : IsSure(reported[i])}
<1>1. /\ enginePhase = "rules" /\ agenda = <<>> /\ enginePhase' = "packs"
      /\ reported' = IF request.sure THEN AtPositions(reported, P) ELSE reported
      /\ UNCHANGED <<request, frontend, agenda, assessed, errors, packed, counted, readerMerged, saved,
                     exitCode, returned, ran>>
  BY DEF Filter
<1>2. reported \in Seq(EngineFinding) /\ IsInjective(reported) /\ ToSet(reported) = returned
      /\ returned \in SUBSET EngineFinding /\ ~readerMerged
  <2>1. ~readerMerged /\ readerMerged' = readerMerged
    BY <1>1 DEF EInv, ReportedIsReturned
  <2> QED BY <1>1, <2>1 DEF EInv, EngineShape, ReportedIsReturned
<1>3. /\ AtPositions(reported, P) \in Seq(EngineFinding) /\ IsInjective(AtPositions(reported, P))
      /\ ToSet(AtPositions(reported, P)) = {reported[i] : i \in P}
  BY <1>2, PartOfList
<1>4. {reported[i] : i \in P} = {f \in returned : f.sure}
  <2>1. returned = {reported[i] : i \in DOMAIN reported}
    BY <1>2 DEF ToSet
  <2> QED BY <2>1 DEF IsSure
<1>5. /\ reported' \in Seq(EngineFinding) /\ IsInjective(reported')
      /\ ToSet(reported') = {f \in returned : request.sure => f.sure}
  BY <1>1, <1>2, <1>3, <1>4
<1> HIDE DEF P
<1>6. Parsed' = Parsed /\ (AllParsed' <=> AllParsed) /\ Due' = Due /\ FirstParsed' = FirstParsed
  BY <1>1, SameFront
<1>7. EngineTypeOK'
  BY <1>1 DEF EInv, EngineTypeOK
<1>8. EngineShape'
  BY <1>1, <1>5 DEF EInv, EngineShape
<1>9. BeforeRules'
  BY <1>1 DEF BeforeRules
<1>10. AgendaIsSound'
  BY <1>1 DEF EInv, AgendaIsSound
<1>11. ReportedIsReturned'
  BY <1>1, <1>2, <1>5 DEF ReportedIsReturned
<1>12. CountsAgree'
  BY <1>1 DEF EInv, CountsAgree
<1>13. OutputsAgree'
  <2>1. saved = <<>> /\ exitCode = NotYet
    BY <1>1 DEF EInv, OutputsAgree
  <2> QED BY <1>1, <2>1 DEF EInv, OutputsAgree
<1>14. NothingUnsaid'
  BY <1>1, <1>6 DEF EInv, NothingUnsaid
<1> QED BY <1>7, <1>8, <1>9, <1>10, <1>11, <1>12, <1>13, <1>14 DEF EInv

(* The first findings get their evidence.                                  *)
LEMMA PacksKeep ==
  ASSUME NEW failed
  PROVE  EInv /\ Packs(failed) => EInv'
<1> SUFFICES ASSUME EInv, Packs(failed) PROVE EInv'
  OBVIOUS
<1>1. /\ enginePhase = "packs" /\ enginePhase' = "count" /\ errors \subseteq errors'
      /\ packed' = {reported[i] : i \in (1 .. Served) \ failed}
      /\ UNCHANGED <<request, frontend, agenda, assessed, reported, counted, readerMerged, saved,
                     exitCode, returned, ran>>
  BY DEF Packs
<1>2. ~readerMerged /\ reported \in Seq(EngineFinding) /\ ToSet(reported) \subseteq returned
  <2>1. ~readerMerged
    BY <1>1 DEF EInv, ReportedIsReturned
  <2> QED BY <1>1, <2>1 DEF EInv, EngineShape, ReportedIsReturned
<1>3. packed' \subseteq returned
  <2>1. Len(reported) \in Nat /\ DOMAIN reported = 1 .. Len(reported)
    BY <1>2
  <2>2. request.packs \in Nat
    BY RequestIsRequest DEF EInv, EngineTypeOK, EngineRequest
  <2>3. Served \in Nat /\ Served <= Len(reported)
    BY <2>1, <2>2 DEF Served
  <2>4. \A i \in 1 .. Served : reported[i] \in ToSet(reported)
    <3> HIDE DEF Served
    <3> QED BY <2>1, <2>3 DEF ToSet
  <2> QED BY <1>1, <1>2, <2>4
<1>4. Parsed' = Parsed /\ (AllParsed' <=> AllParsed) /\ Due' = Due /\ FirstParsed' = FirstParsed
  BY <1>1, SameFront
<1>5. EngineTypeOK'
  BY <1>1, <1>3 DEF EInv, EngineTypeOK
<1>6. EngineShape'
  BY <1>1 DEF EInv, EngineShape
<1>7. BeforeRules'
  BY <1>1 DEF BeforeRules
<1>8. AgendaIsSound'
  BY <1>1, <1>4 DEF EInv, AgendaIsSound
<1>9. ReportedIsReturned'
  BY <1>1, <1>2 DEF EInv, ReportedIsReturned
<1>10. CountsAgree'
  BY <1>1 DEF EInv, CountsAgree
<1>11. OutputsAgree'
  BY <1>1 DEF EInv, OutputsAgree
<1>12. NothingUnsaid'
  <2>1. errors' = {} => errors = {}
    BY <1>1
  <2> QED BY <1>1, <1>4, <2>1 DEF EInv, NothingUnsaid
<1> QED BY <1>5, <1>6, <1>7, <1>8, <1>9, <1>10, <1>11, <1>12 DEF EInv

(* The findings are counted and adjudicated.                               *)
LEMMA CountKeeps == EInv /\ (Count \/ Adjudicate) => EInv'
<1> SUFFICES ASSUME EInv, Count \/ Adjudicate PROVE EInv'
  OBVIOUS
<1>1. /\ enginePhase \in {"count", "adjudicate"} /\ enginePhase' \in {"adjudicate", "report"}
      /\ UNCHANGED <<request, frontend, agenda, assessed, reported, errors, packed, readerMerged, saved,
                     exitCode, returned, ran>>
  BY DEF Count, Adjudicate
<1>2. counted' = CountOf(reported, assessed)
  BY DEF Count, Adjudicate, EInv, CountsAgree
<1>3. Parsed' = Parsed /\ (AllParsed' <=> AllParsed) /\ Due' = Due /\ FirstParsed' = FirstParsed
  BY <1>1, SameFront
<1>4. EngineTypeOK'
  BY <1>1 DEF EInv, EngineTypeOK
<1>5. EngineShape'
  BY <1>1 DEF EInv, EngineShape
<1>6. BeforeRules'
  BY <1>1 DEF BeforeRules
<1>7. AgendaIsSound'
  BY <1>1, <1>3 DEF EInv, AgendaIsSound
<1>8. ReportedIsReturned'
  <2>1. ~readerMerged
    BY <1>1 DEF EInv, ReportedIsReturned
  <2> QED BY <1>1, <2>1 DEF EInv, ReportedIsReturned
<1>9. CountsAgree'
  BY <1>1, <1>2 DEF CountsAgree
<1>10. OutputsAgree'
  BY <1>1 DEF EInv, OutputsAgree
<1>11. NothingUnsaid'
  BY <1>1, <1>3 DEF EInv, NothingUnsaid
<1> QED BY <1>4, <1>5, <1>6, <1>7, <1>8, <1>9, <1>10, <1>11 DEF EInv

(* The run is cut short, with an error.                                    *)
LEMMA DiagnosticFailsKeeps ==
  ASSUME NEW cut \in {"scan", "merge", "adjudicate"}
  PROVE  EInv /\ DiagnosticFails(cut) => EInv'
<1> SUFFICES ASSUME EInv, DiagnosticFails(cut) PROVE EInv'
  OBVIOUS
<1>1. /\ enginePhase' = "report" /\ errors' = errors \cup {<<"diagnostic", cut>>}
      /\ \/ enginePhase = "parse" /\ cut \in {"scan", "merge"}
         \/ enginePhase = "adjudicate"
      /\ UNCHANGED <<request, frontend, agenda, assessed, reported, packed, counted, readerMerged, saved,
                     exitCode, returned, ran>>
  BY DEF DiagnosticFails
<1>2. Parsed' = Parsed
  BY <1>1, SameFront
<1>3. EngineTypeOK'
  BY <1>1 DEF EInv, EngineTypeOK
<1>4. EngineShape'
  BY <1>1 DEF EInv, EngineShape
<1>5. BeforeRules'
  BY <1>1 DEF BeforeRules
<1>6. AgendaIsSound'
  BY <1>1, <1>2 DEF EInv, AgendaIsSound
<1>7. ReportedIsReturned'
  <2>1. ~readerMerged
    BY <1>1 DEF EInv, ReportedIsReturned
  <2>2. enginePhase = "parse" => reported = <<>> /\ returned = {}
    BY DEF EInv, BeforeRules
  <2>3. ToSet(reported) = {f \in returned : request.sure => f.sure}
    <3>1. CASE enginePhase = "parse"
      BY <2>2, <3>1 DEF ToSet
    <3>2. CASE enginePhase = "adjudicate"
      BY <2>1, <3>2 DEF EInv, ReportedIsReturned
    <3> QED BY <1>1, <3>1, <3>2
  <2> QED BY <1>1, <2>1, <2>3 DEF ReportedIsReturned
<1>8. CountsAgree'
  <2>1. CASE enginePhase = "adjudicate"
    BY <1>1, <2>1 DEF EInv, CountsAgree
  <2>2. CASE enginePhase = "parse" /\ cut \in {"scan", "merge"}
    <3>1. Stopped' /\ counted' = NoStats
      BY <1>1, <2>2 DEF EInv, CountsAgree, Stopped
    <3> QED BY <1>1, <3>1 DEF CountsAgree
  <2> QED BY <1>1, <2>1, <2>2
<1>9. OutputsAgree'
  BY <1>1 DEF EInv, OutputsAgree
<1>10. NothingUnsaid'
  <2>1. errors' # {}
    BY <1>1
  <2> QED BY <2>1 DEF NothingUnsaid
<1> QED BY <1>3, <1>4, <1>5, <1>6, <1>7, <1>8, <1>9, <1>10 DEF EInv

(* The findings of the project reader join those of the rules.             *)
LEMMA ReaderMergesKeeps == EInv /\ ReaderMerges => EInv'
<1> SUFFICES ASSUME EInv, ReaderMerges PROVE EInv'
  OBVIOUS
<1> DEFINE new == request.reader \ ToSet(reported)
           t == SetToSeq(new)
           name == "project_resource_lifecycle"
<1>1. /\ enginePhase = "report" /\ HasIR /\ ~readerMerged /\ readerMerged'
      /\ reported' = reported \o t
      /\ assessed' = [id \in DOMAIN assessed \cup {name} |-> IF id = name THEN "partial" ELSE assessed[id]]
      /\ counted' = CountOf(reported', assessed')
      /\ UNCHANGED <<request, enginePhase, frontend, agenda, errors, packed, saved, exitCode,
                     returned, ran>>
  BY DEF ReaderMerges, Refreshed
<1>2. request.reader \in SUBSET EngineFinding /\ IsFiniteSet(request.reader)
  BY RequestIsRequest DEF EInv, EngineTypeOK, EngineRequest
<1>3. new \in SUBSET EngineFinding /\ IsFiniteSet(new)
  BY <1>2, FS_Subset
<1>4. /\ reported \in Seq(EngineFinding) /\ IsInjective(reported)
      /\ ToSet(reported) = {f \in returned : request.sure => f.sure}
  BY <1>1 DEF EInv, EngineShape, ReportedIsReturned
<1>5. t \in Seq(new) /\ ToSet(t) = new /\ IsInjective(t)
  BY <1>3, SetToSeqListsTheSet
<1>6. ToSet(reported) \cap new = {} /\ ToSet(reported) \cup new = ToSet(reported) \cup request.reader
  OBVIOUS
<1> HIDE DEF new, t
<1>7. t \in Seq(EngineFinding)
  BY <1>3, <1>5
<1>8. /\ reported' \in Seq(EngineFinding) /\ IsInjective(reported')
      /\ ToSet(reported') = ToSet(reported) \cup request.reader
  BY <1>1, <1>4, <1>5, <1>6, <1>7, DisjointListsJoined
<1>9. Parsed' = Parsed /\ (AllParsed' <=> AllParsed) /\ Due' = Due /\ FirstParsed' = FirstParsed
  BY <1>1, SameFront
<1>10. EngineTypeOK'
  <2>1. \A id \in DOMAIN assessed : assessed[id] \in Statuses
    BY DEF EInv, EngineTypeOK
  <2>2. \A id \in DOMAIN assessed' : assessed'[id] \in Statuses
    BY <1>1, <2>1 DEF Statuses
  <2>3. ran' \subseteq DOMAIN assessed'
    BY <1>1 DEF EInv, EngineTypeOK
  <2> QED BY <1>1, <2>2, <2>3 DEF EInv, EngineTypeOK
<1>11. EngineShape'
  BY <1>1, <1>8 DEF EInv, EngineShape
<1>12. BeforeRules'
  BY <1>1 DEF BeforeRules
<1>13. AgendaIsSound'
  BY <1>1, <1>9 DEF EInv, AgendaIsSound
<1>14. ReportedIsReturned'
  <2>1. HasIR'
    BY <1>1, <1>9 DEF HasIR
  <2> QED BY <1>1, <1>4, <1>8, <2>1 DEF ReportedIsReturned
<1>15. CountsAgree'
  BY <1>1 DEF CountsAgree
<1>16. OutputsAgree'
  <2>1. saved = <<>> /\ exitCode = NotYet
    BY <1>1 DEF EInv, OutputsAgree
  <2>2. DOMAIN saved = {}
    BY <2>1
  <2> QED BY <1>1, <2>1, <2>2 DEF EInv, OutputsAgree
<1>17. NothingUnsaid'
  BY <1>1, <1>9 DEF EInv, NothingUnsaid
<1> QED BY <1>10, <1>11, <1>12, <1>13, <1>14, <1>15, <1>16, <1>17 DEF EInv

(* The result is recorded and saved, and the command ends.                 *)
LEMMA OutputsKeep ==
  ASSUME NEW raises \in BOOLEAN
  PROVE  EInv /\ (RecordTrajectory(raises) \/ Save(raises) \/ Exit) => EInv'
<1> SUFFICES ASSUME EInv, RecordTrajectory(raises) \/ Save(raises) \/ Exit PROVE EInv'
  OBVIOUS
<1>1. /\ enginePhase \in {"report", "save"} /\ enginePhase' \in {"save", "done"}
      /\ UNCHANGED <<request, frontend, agenda, assessed, reported, errors, packed, counted, readerMerged,
                     returned, ran>>
  BY DEF RecordTrajectory, ReadyToReport, Save, Exit
<1>2. Parsed' = Parsed /\ (AllParsed' <=> AllParsed) /\ Due' = Due /\ FirstParsed' = FirstParsed
  BY <1>1, SameFront
<1>3. (HasIR' <=> HasIR) /\ (Stopped' <=> Stopped) /\ Gating' = Gating
  BY <1>1, <1>2 DEF HasIR, Stopped, Gating
<1>4. Len(Outputs) = 3 /\ \A i \in 1 .. 3 : Outputs[i] \in ToSet(Outputs)
  <2>1. Len(Outputs) = 3 /\ DOMAIN Outputs = 1 .. 3
    BY DEF Outputs
  <2> QED BY <2>1 DEF ToSet
<1>5. saved \in Seq(ToSet(Outputs) \X Seq(EngineFinding)) /\ Len(saved) <= Len(Outputs) /\ exitCode = NotYet
  BY <1>1 DEF EInv, OutputsAgree
<1>6. Len(saved) \in Nat /\ DOMAIN saved = 1 .. Len(saved)
  BY <1>5
<1>7. OutputsAgree' /\ exitCode' \in {0, 1, 2, NotYet}
  <2>1. CASE RecordTrajectory(raises)
    <3>1. /\ saved' = <<>> /\ saved = <<>> /\ enginePhase' = IF raises THEN "done" ELSE "save"
          /\ exitCode' = IF raises THEN 2 ELSE NotYet
      BY <1>5, <2>1 DEF RecordTrajectory, ReadyToReport, EInv, OutputsAgree
    <3>2. Len(saved') # Len(Outputs) /\ DOMAIN saved' = {} /\ Len(saved') = 0
      BY <1>4, <3>1
    <3> QED BY <1>4, <1>5, <3>1, <3>2 DEF OutputsAgree, NotYet
  <2>2. CASE Save(raises)
    <3> DEFINE entry == <<Outputs[Len(saved) + 1], reported>>
    <3>1. /\ enginePhase = "save" /\ Len(saved) < Len(Outputs)
          /\ saved' = IF raises THEN saved ELSE Append(saved, entry)
          /\ enginePhase' = IF raises THEN "done" ELSE "save"
          /\ exitCode' = IF raises THEN 2 ELSE NotYet
      BY <1>5, <2>2 DEF Save
    <3>2. entry \in ToSet(Outputs) \X Seq(EngineFinding) /\ entry[2] = reported
      BY <1>4, <1>6, <3>1 DEF EInv, EngineShape
    <3> HIDE DEF entry
    <3>3. \A i \in DOMAIN saved : saved[i][2] = reported
      BY DEF EInv, OutputsAgree
    <3>4. CASE raises
      <4>1. saved' = saved /\ enginePhase' = "done" /\ exitCode' = 2 /\ reported' = reported
        BY <1>1, <3>1, <3>4
      <4>2. Len(saved) # Len(Outputs)
        BY <1>4, <1>6, <3>1
      <4> QED BY <1>5, <3>3, <4>1, <4>2 DEF OutputsAgree
    <3>5. CASE ~raises
      <4>1. /\ saved' \in Seq(ToSet(Outputs) \X Seq(EngineFinding)) /\ Len(saved') = Len(saved) + 1
            /\ \A i \in 1 .. Len(saved) : saved'[i] = saved[i]
            /\ saved'[Len(saved) + 1] = entry
        BY <1>5, <3>1, <3>2, <3>5, AppendProperties
      <4>2. DOMAIN saved' = 1 .. Len(saved) + 1
        BY <4>1
      <4>3. \A i \in DOMAIN saved' : saved'[i][2] = reported'
        <5> SUFFICES ASSUME NEW i \in DOMAIN saved' PROVE saved'[i][2] = reported
          BY <1>1
        <5>1. i \in 1 .. Len(saved) \/ i = Len(saved) + 1
          BY <1>6, <4>2
        <5> QED BY <1>6, <3>2, <3>3, <4>1, <5>1
      <4>4. Len(saved') <= Len(Outputs)
        BY <1>4, <1>6, <3>1, <4>1
      <4> QED BY <3>1, <3>5, <4>1, <4>3, <4>4 DEF OutputsAgree, NotYet
    <3> QED BY <3>4, <3>5
  <2>3. CASE Exit
    <3>1. /\ enginePhase = "save" /\ Len(saved) = Len(Outputs) /\ enginePhase' = "done"
          /\ exitCode' = (IF Gating = {} THEN 0 ELSE 1) /\ saved' = saved
      BY <2>3 DEF Exit
    <3>2. \A i \in DOMAIN saved : saved[i][2] = reported
      BY DEF EInv, OutputsAgree
    <3> QED BY <1>1, <1>3, <1>5, <3>1, <3>2 DEF OutputsAgree
  <2> QED BY <2>1, <2>2, <2>3
<1>8. EngineTypeOK'
  BY <1>1, <1>7 DEF EInv, EngineTypeOK
<1>9. EngineShape'
  BY <1>1 DEF EInv, EngineShape
<1>10. BeforeRules'
  BY <1>1 DEF BeforeRules
<1>11. AgendaIsSound'
  BY <1>1, <1>2 DEF EInv, AgendaIsSound
<1>12. ReportedIsReturned'
  <2>1. request.reader # {} /\ HasIR => readerMerged
    BY DEF RecordTrajectory, ReadyToReport, Save, Exit, EInv, ReportedIsReturned
  <2> QED BY <1>1, <1>3, <2>1 DEF EInv, ReportedIsReturned
<1>13. CountsAgree'
  BY <1>1, <1>3 DEF EInv, CountsAgree
<1>14. NothingUnsaid'
  BY <1>1, <1>2 DEF EInv, NothingUnsaid
<1> QED BY <1>7, <1>8, <1>9, <1>10, <1>11, <1>12, <1>13, <1>14 DEF EInv

(* The invariant of the engine.                                            *)
LEMMA EngineInvariant == EngineSpec => []EInv
<1>1. EInv /\ UNCHANGED engineVars => EInv'
  <2> SUFFICES ASSUME EInv, UNCHANGED engineVars PROVE EInv'
    OBVIOUS
  <2>1. UNCHANGED <<request, enginePhase, frontend, agenda, assessed, reported, errors,
                    packed, counted, readerMerged, saved, exitCode, returned, ran>>
    BY DEF engineVars
  <2>2. Parsed' = Parsed /\ (AllParsed' <=> AllParsed) /\ Due' = Due /\ FirstParsed' = FirstParsed
    BY <2>1, SameFront
  <2>3. (HasIR' <=> HasIR) /\ (Stopped' <=> Stopped) /\ Gating' = Gating
    BY <2>1, <2>2 DEF HasIR, Stopped, Gating
  <2>4. EngineTypeOK' /\ EngineShape' /\ BeforeRules'
    BY <2>1 DEF EInv, EngineTypeOK, EngineShape, BeforeRules
  <2>5. AgendaIsSound'
    BY <2>1, <2>2 DEF EInv, AgendaIsSound
  <2>6. ReportedIsReturned'
    BY <2>1, <2>3 DEF EInv, ReportedIsReturned
  <2>7. CountsAgree'
    BY <2>1, <2>3 DEF EInv, CountsAgree
  <2>8. OutputsAgree'
    BY <2>1, <2>3 DEF EInv, OutputsAgree
  <2>9. NothingUnsaid'
    BY <2>1, <2>2 DEF EInv, NothingUnsaid
  <2> QED BY <2>4, <2>5, <2>6, <2>7, <2>8, <2>9 DEF EInv
<1>2. EInv /\ [EngineNext]_engineVars => EInv'
  <2> SUFFICES ASSUME EInv, [EngineNext]_engineVars PROVE EInv'
    OBVIOUS
  <2>1. CASE UNCHANGED engineVars
    BY <1>1, <2>1
  <2>2. CASE Requested \/ \E outcome \in ParseOutcomes : Parse(outcome)
    BY <2>2, RequestedKeeps, ParseKeeps
  <2>3. CASE \E fails \in BOOLEAN : Link(fails)
    BY <2>3, LinkKeeps
  <2>4. CASE \/ LeaveOut
             \/ \E unsupported \in BOOLEAN : RuleFails(unsupported)
             \/ \E units \in SUBSET Units : RuleFinds(units)
    BY <2>4, RulesKeep, Zenon
  <2>5. CASE Filter \/ \E failed \in SUBSET (1 .. Served) : Packs(failed)
    BY <2>5, FilterKeeps, PacksKeep
  <2>6. CASE Count \/ Adjudicate \/ ReaderMerges
    BY <2>6, CountKeeps, ReaderMergesKeeps
  <2>7. CASE \E cut \in {"scan", "merge", "adjudicate"} : DiagnosticFails(cut)
    BY <2>7, DiagnosticFailsKeeps
  <2>8. CASE (\E raises \in BOOLEAN : RecordTrajectory(raises) \/ Save(raises)) \/ Exit
    BY <2>8, OutputsKeep, Zenon
  <2> QED BY <2>1, <2>2, <2>3, <2>4, <2>5, <2>6, <2>7, <2>8, Zenon DEF EngineNext
<1> QED BY <1>2, EngineStarts, PTL DEF EngineSpec

-----------------------------------------------------------------------------
(* An error a frontend noted.                                              *)
Notes(found) == {e \in found : e[1] = "frontend"}

(* What the frontends noted is told once it was collected, and no sooner.  *)
FirstIsTold ==
  /\ enginePhase \in {"request", "parse"} => Notes(errors) = {}
  /\ enginePhase \notin {"request", "parse"} => Stopped \/ Notes(errors) = FrontendErrors

(* What else fails adds no note of a frontend.                             *)
LEMMA OtherErrorsAreNoNotes ==
  ASSUME NEW found, NEW more, \A e \in more : e[1] # "frontend"
  PROVE  Notes(found \cup more) = Notes(found)
BY DEF Notes

(* Every step of the engine keeps that.                                    *)
LEMMA FirstIsToldKept == FirstIsTold /\ [EngineNext]_engineVars => FirstIsTold'
<1> SUFFICES ASSUME FirstIsTold, [EngineNext]_engineVars PROVE FirstIsTold'
  OBVIOUS
<1> DEFINE asBefore == UNCHANGED <<request, frontend>>
           early    == {"request", "parse"}
           noNote   == errors \subseteq errors' /\ \A e \in errors' \ errors : e[1] # "frontend"
<1>1. ASSUME asBefore, enginePhase \notin early, enginePhase' \notin early, noNote
      PROVE  FirstIsTold'
  <2>1. FrontendErrors' = FrontendErrors
    BY <1>1, SameFront DEF FrontendErrors
  <2>2. Notes(errors') = Notes(errors)
    BY <1>1 DEF Notes
  <2>3. Stopped => Stopped'
    BY <1>1 DEF Stopped
  <2> QED BY <1>1, <2>1, <2>2, <2>3 DEF FirstIsTold
<1>2. ASSUME asBefore, errors' = errors, enginePhase \notin early, enginePhase' \notin early
      PROVE  FirstIsTold'
  <2>1. noNote
    BY <1>2
  <2> QED BY <1>1, <1>2, <2>1
<1>3. CASE UNCHANGED engineVars
  <2>1. UNCHANGED <<request, frontend, errors, enginePhase>>
    BY <1>3 DEF engineVars
  <2>2. FrontendErrors' = FrontendErrors
    BY <2>1, SameFront DEF FrontendErrors
  <2> QED BY <2>1, <2>2 DEF FirstIsTold, Stopped, Notes
<1>4. CASE Requested
  BY <1>4 DEF Requested, FirstIsTold, Notes
<1>5. ASSUME NEW outcome \in ParseOutcomes, Parse(outcome) PROVE FirstIsTold'
  <2> DEFINE language == request.languages[Len(frontend) + 1]
             became   == IF language \in Adapted THEN outcome ELSE "raised"
  <2>1. /\ enginePhase = "parse" /\ request' = request
        /\ enginePhase' = IF request.single /\ became = "raised" THEN "report" ELSE "parse"
        /\ errors' = errors \/ errors' = errors \cup {<<"parse", language>>}
    BY <1>5 DEF Parse
  <2>2. <<"parse", language>>[1] # "frontend" /\ errors = errors \cup {}
    OBVIOUS
  <2>3. Notes(errors') = {}
    <3>1. Notes(errors) = {}
      BY <2>1 DEF FirstIsTold
    <3>2. Notes(errors \cup {<<"parse", language>>}) = Notes(errors)
      BY <2>2 DEF Notes
    <3> QED BY <2>1, <3>1, <3>2
  <2>4. request.single => FrontendErrors' = {}
    BY <2>1 DEF FrontendErrors
  <2> QED BY <2>1, <2>3, <2>4 DEF FirstIsTold
<1>6. ASSUME NEW fails \in BOOLEAN, Link(fails) PROVE FirstIsTold'
  <2> DEFINE linked == IF fails /\ Parsed # {} THEN {<<"link", "ir">>} ELSE {}
             more   == StateRuleErrors \cup linked
  <2>1. /\ enginePhase = "parse" /\ enginePhase' = "rules" /\ asBefore
        /\ errors' = (errors \cup FrontendErrors) \cup more
    BY <1>6 DEF Link
  <2>2. \A e \in more : e[1] # "frontend"
    <3>1. \A e \in linked : e[1] # "frontend"
      OBVIOUS
    <3>2. \A e \in StateRuleErrors : e[1] # "frontend"
      BY DEF StateRuleErrors
    <3> QED BY <3>1, <3>2
  <2> HIDE DEF more
  <2>3. Notes(errors') = Notes(errors \cup FrontendErrors)
    BY <2>1, <2>2, OtherErrorsAreNoNotes
  <2>4. \A e \in FrontendErrors : e[1] = "frontend"
    BY DEF FrontendErrors
  <2>5. Notes(errors) = {}
    BY <2>1 DEF FirstIsTold
  <2>6. Notes(errors \cup FrontendErrors) = FrontendErrors
    BY <2>4, <2>5 DEF Notes
  <2>7. FrontendErrors' = FrontendErrors
    BY <2>1, SameFront DEF FrontendErrors
  <2> QED BY <2>1, <2>3, <2>6, <2>7 DEF FirstIsTold
<1>7. CASE LeaveOut \/ Filter \/ Count \/ Adjudicate \/ ReaderMerges \/ Exit
  <2>1. asBefore /\ errors' = errors /\ enginePhase \notin early /\ enginePhase' \notin early
    BY <1>7 DEF LeaveOut, Filter, Count, Adjudicate, ReaderMerges, Exit
  <2> QED BY <1>2, <2>1
<1>8. ASSUME NEW unsupported \in BOOLEAN, RuleFails(unsupported) PROVE FirstIsTold'
  <2> DEFINE e == <<IF unsupported THEN "skipped" ELSE "failed", Head(agenda).id>>
  <2>1. /\ asBefore /\ errors' = errors \cup {e}
        /\ enginePhase \notin early /\ enginePhase' \notin early
    BY <1>8 DEF RuleFails
  <2>2. \A d \in {e} : d[1] # "frontend"
    OBVIOUS
  <2> HIDE DEF e
  <2>3. noNote
    BY <2>1, <2>2
  <2> QED BY <1>1, <2>1, <2>3
<1>9. ASSUME NEW units \in SUBSET Units, RuleFinds(units) PROVE FirstIsTold'
  <2>1. asBefore /\ errors' = errors /\ enginePhase \notin early /\ enginePhase' \notin early
    BY <1>9 DEF RuleFinds
  <2> QED BY <1>2, <2>1
<1>10. ASSUME NEW failed, Packs(failed) PROVE FirstIsTold'
  <2> DEFINE more == IF failed = {} THEN {} ELSE {<<"evidence", "findings">>}
  <2>1. /\ asBefore /\ errors' = errors \cup more
        /\ enginePhase \notin early /\ enginePhase' \notin early
    BY <1>10 DEF Packs
  <2>2. \A e \in more : e[1] # "frontend"
    OBVIOUS
  <2> HIDE DEF more
  <2>3. noNote
    BY <2>1, <2>2
  <2> QED BY <1>1, <2>1, <2>3
<1>11. ASSUME NEW cut \in {"scan", "merge", "adjudicate"}, DiagnosticFails(cut) PROVE FirstIsTold'
  <2>1. asBefore /\ errors' = errors \cup {<<"diagnostic", cut>>} /\ enginePhase' = "report"
    BY <1>11 DEF DiagnosticFails
  <2>2. CASE cut = "adjudicate"
    <3>1. enginePhase = "adjudicate"
      BY <1>11, <2>2 DEF DiagnosticFails
    <3>2. \A d \in {<<"diagnostic", cut>>} : d[1] # "frontend"
      OBVIOUS
    <3>3. noNote
      BY <2>1, <3>2
    <3> QED BY <1>1, <2>1, <3>1, <3>3
  <2>3. CASE cut # "adjudicate"
    <3>1. Stopped'
      BY <2>1, <2>3 DEF Stopped
    <3> QED BY <2>1, <3>1 DEF FirstIsTold
  <2> QED BY <2>2, <2>3
<1>12. ASSUME NEW raises \in BOOLEAN, RecordTrajectory(raises) \/ Save(raises) PROVE FirstIsTold'
  <2>1. asBefore /\ errors' = errors /\ enginePhase \notin early /\ enginePhase' \notin early
    BY <1>12 DEF RecordTrajectory, ReadyToReport, Save
  <2> QED BY <1>2, <2>1
<1> QED BY <1>3, <1>4, <1>5, <1>6, <1>7, <1>8, <1>9, <1>10, <1>11, <1>12, Zenon DEF EngineNext

(* So it always holds.                                                     *)
LEMMA FirstIsAlwaysTold == EngineSpec => []FirstIsTold
<1>1. EngineInit => FirstIsTold
  BY DEF EngineInit, FirstIsTold, Notes
<1> QED BY <1>1, FirstIsToldKept, PTL DEF EngineSpec

(* What a run reports is honest, for any project, any rules and whatever   *)
(* fails: a run without errors was complete but for files of later         *)
(* languages, which are never told, and its findings, statistics, files    *)
(* and exit code agree.                                                    *)
THEOREM ReportIsAlwaysHonest == EngineSpec => []ReportIsHonest
<1>1. EInv /\ FirstIsTold => ReportIsHonest
  <2> SUFFICES ASSUME EInv, FirstIsTold PROVE CleanMeansComplete /\ OnlyTheFirstIsTold /\ ReportAgrees
    BY DEF ReportIsHonest, EInv
  <2>1. CleanMeansComplete
    <3> SUFFICES ASSUME enginePhase = "done", errors = {}, ~request.single, Languages \cap Adapted # {}
                 PROVE  /\ \A i \in DOMAIN request.languages :
                             request.languages[i] \in Adapted => i \in ParsedAt
                        /\ \A i \in FirstParsed : frontend[i] = "whole"
                        /\ \A rule \in ToSet(WithStateRules) : Runs(rule) => rule.id \in ran
      BY DEF CleanMeansComplete
    <3>1. /\ AllParsed /\ \A i \in FirstParsed : frontend[i] # "partly"
          /\ \A i \in DOMAIN frontend : request.languages[i] \in Adapted => frontend[i] # "raised"
          /\ Parsed # {} => \A rule \in Due : rule.id \in ran \/ rule \in ToSet(agenda)
      BY DEF EInv, NothingUnsaid
    <3>2. /\ frontend \in Seq(ParseOutcomes) /\ request.languages \in Seq(STRING)
      BY RequestIsRequest DEF EInv, EngineShape, EngineTypeOK, EngineRequest
    <3>3. DOMAIN frontend = DOMAIN request.languages
      BY <3>1, <3>2 DEF AllParsed
    <3>4. /\ \A i \in DOMAIN request.languages : request.languages[i] \in Adapted => i \in ParsedAt
          /\ \A i \in FirstParsed : frontend[i] = "whole"
      <4>1. \A i \in DOMAIN frontend : frontend[i] \in ParseOutcomes
        BY <3>2
      <4> QED BY <3>1, <3>3, <4>1 DEF ParseOutcomes, FirstParsed, ParsedAt
    <3>5. PICK i \in DOMAIN request.languages : request.languages[i] \in Adapted
      BY DEF Languages, ToSet
    <3>6. Parsed # {}
      BY <3>1, <3>3, <3>5 DEF Parsed, ParsedAt
    <3>7. ToSet(agenda) = {}
      BY DEF EInv, AgendaIsSound, ToSet
    <3>8. \A rule \in Due : rule.id \in ran
      BY <3>1, <3>6, <3>7
    <3> QED BY <3>4, <3>8 DEF Due
  <2>2. ReportAgrees
    <3> SUFFICES ASSUME enginePhase = "done" PROVE ReportAgrees
      BY DEF ReportAgrees
    <3>1. ToSet(reported) = {f \in returned : request.sure => f.sure}
                              \cup (IF HasIR THEN request.reader ELSE {})
      BY DEF EInv, ReportedIsReturned
    <3>2. Cardinality(ToSet(reported)) = Len(reported)
      BY InjectiveIsCounted DEF EInv, EngineShape
    <3>3. /\ counted # NoStats => counted = CountOf(reported, assessed)
          /\ counted = NoStats => Stopped \/ request.single
      BY CountedIsCounted DEF EInv, CountsAgree
    <3>4. /\ \A i \in DOMAIN saved : saved[i][2] = reported
          /\ exitCode = 1 <=> Len(saved) = Len(Outputs) /\ Gating # {}
      BY DEF EInv, OutputsAgree
    <3> QED BY <3>1, <3>2, <3>3, <3>4 DEF ReportAgrees
  <2>3. OnlyTheFirstIsTold
    <3> SUFFICES ASSUME enginePhase = "done", ~Stopped, NEW i \in DOMAIN frontend
                 PROVE  <<"frontend", request.languages[i]>> \in errors <=>
                          ~request.single /\ \E k \in FirstParsed :
                            /\ frontend[k] = "partly"
                            /\ request.languages[k] = request.languages[i]
      BY DEF OnlyTheFirstIsTold, Stopped
    <3>1. Notes(errors) = FrontendErrors
      BY DEF FirstIsTold
    <3>2. <<"frontend", request.languages[i]>> \in errors <=> <<"frontend", request.languages[i]>> \in FrontendErrors
      BY <3>1 DEF Notes
    <3> QED BY <3>2 DEF FrontendErrors
  <2> QED BY <2>1, <2>2, <2>3
<1> QED BY <1>1, EngineInvariant, FirstIsAlwaysTold, PTL
=============================================================================
