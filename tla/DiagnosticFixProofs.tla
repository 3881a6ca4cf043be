-------------------------- MODULE DiagnosticFixProofs --------------------------
(***************************************************************************)
(* FixInv is an inductive invariant of DiagnosticFix, and DiagnosticFix    *)
(* implements FixContract, for every set of requests and every bound.      *)
(***************************************************************************)
EXTENDS DiagnosticFix, FiniteSetTheorems, TLAPS

LEMMA FixInitInv == Init => FixInv
  BY FixBoundAssumption
  DEF Init, FixInv, TypeOK, CopiesLag, Copies, WorkerKnows, NoEarlierOutcome, OutcomeTrue,
      CRs, NoCR, Object, CRDPhases, Strategies, Rollbacks, PCs, RPCs

\* Users, the generator, the watch and the batch endpoints.
LEMMA EnvironmentInv ==
  ASSUME FixInv,
         \/ Submit \/ GenerateFix \/ GeneratorGone \/ CallbackCR \/ CallbackRow
         \/ EditFix \/ DeleteFix \/ RunErased \/ Sync
         \/ BatchApprove \/ BatchReject \/ Crash
  PROVE  FixInv'
<1> USE FixBoundAssumption
    DEF FixInv, TypeOK, CopiesLag, Copies, WorkerKnows, NoEarlierOutcome, OutcomeTrue,
        CRs, NoCR, Object, CRDPhases, Strategies, Rollbacks, PCs, RPCs,
        procVars, reqVars, histVars, objVars, Live, Fault, NoFault
<1>1. CASE Submit
  BY <1>1 DEF Submit
<1>2. CASE GenerateFix \/ GeneratorGone \/ CallbackRow \/ RunErased \/ BatchApprove \/ BatchReject
  <2>1. CASE GenerateFix
    BY <2>1 DEF GenerateFix
  <2>2. CASE GeneratorGone
    BY <2>2 DEF GeneratorGone
  <2>3. CASE CallbackRow
    BY <2>3 DEF CallbackRow
  <2>4. CASE RunErased
    BY <2>4 DEF RunErased
  <2>5. CASE BatchApprove
    BY <2>5 DEF BatchApprove
  <2>6. CASE BatchReject
    BY <2>6 DEF BatchReject
  <2> HIDE DEF FixInv
  <2> QED
    BY <1>2, <2>1, <2>2, <2>3, <2>4, <2>5, <2>6
<1>3. CASE CallbackCR
  BY <1>3 DEF CallbackCR
<1>4. CASE EditFix
  BY <1>4 DEF EditFix
<1>5. CASE DeleteFix
  BY <1>5 DEF DeleteFix
<1>6. CASE Sync
  BY <1>6 DEF Sync
<1>7. CASE Crash
  BY <1>7 DEF Crash
<1> HIDE DEF FixInv
<1> QED
  BY <1>1, <1>2, <1>3, <1>4, <1>5, <1>6, <1>7

\* The approve and reject requests.
LEMMA RequestInv ==
  ASSUME FixInv, NEW q \in Requests,
         AskRow(q) \/ FindCR(q) \/ UpdateSpec(q) \/ UpdateStatus(q)
  PROVE  FixInv'
<1> USE FixBoundAssumption
    DEF FixInv, TypeOK, CopiesLag, Copies, WorkerKnows, NoEarlierOutcome, OutcomeTrue,
        CRs, NoCR, Object, CRDPhases, Strategies, Rollbacks, PCs, RPCs,
        procVars, reqVars, histVars, objVars, Live, Fault, NoFault, Fresh, WithPhase
<1>1. CASE AskRow(q)
  BY <1>1 DEF AskRow
<1>2. CASE FindCR(q)
  BY <1>2 DEF FindCR
<1>3. CASE UpdateSpec(q)
  BY <1>3 DEF UpdateSpec
<1>4. CASE UpdateStatus(q)
  BY <1>4 DEF UpdateStatus
<1> HIDE DEF FixInv
<1> QED
  BY <1>1, <1>2, <1>3, <1>4

\* An accepted status update leaves the cache behind, and the copy it was
\* made from was the CR.
LEMMA StatusWritten ==
  ASSUME FixInv, NEW o \in CRs, Copies(o), Fresh(o), NEW p \in CRDPhases, cr' = WithPhase(cr, p)
  PROVE  /\ o = cr /\ cr' \in CRs
         /\ cr'.phase = p /\ cr'.version = cr.version + 1
         /\ UNCHANGED seen => Copies(seen)'
  BY DEF FixInv, TypeOK, CopiesLag, Copies, Fresh, Live, WithPhase, Object, CRs, CRDPhases

LEMMA ClaimInv ==
  ASSUME FixInv, Claim, Fresh(fix), cr' = WithPhase(cr, "Applying"), fix' = cr'
  PROVE  FixInv'
<1>1. /\ fix = cr /\ cr' \in CRs
      /\ cr'.phase = "Applying" /\ Copies(seen)' /\ cr'.version = cr.version + 1
  BY StatusWritten DEF Claim, FixInv, TypeOK, CopiesLag, CRDPhases
<1>2. TypeOK'
  <2>1. cr' # cr
    BY <1>1 DEF FixInv, TypeOK, CRs
  <2>2. UNCHANGED <<queue, faults>> /\ pc' \in PCs
    BY <2>1 DEF Claim, NoFault, PCs
  <2> QED
    BY <1>1, <2>2 DEF Claim, FixInv, TypeOK, reqVars, histVars
<1>3. CopiesLag'
  BY <1>1 DEF CopiesLag, Copies, FixInv, TypeOK, CRs
<1>4. WorkerKnows'
  BY <1>1 DEF Claim, WorkerKnows, FixInv, histVars
<1>5. NoEarlierOutcome' /\ OutcomeTrue'
  BY <1>1 DEF Claim, NoEarlierOutcome, OutcomeTrue, WorkerKnows, FixInv, histVars
<1> QED
  BY <1>2, <1>3, <1>4, <1>5 DEF FixInv

LEMMA FailInv ==
  ASSUME FixInv, Fail, Fresh(fix), cr' = WithPhase(cr, "Failed"), fix' = cr'
  PROVE  FixInv'
<1>1. /\ fix = cr /\ cr' \in CRs
      /\ cr'.phase = "Failed" /\ Copies(seen)' /\ cr'.version = cr.version + 1
  BY StatusWritten DEF Fail, Conclude, FixInv, TypeOK, CopiesLag, CRDPhases
<1>2. TypeOK'
  <2>1. cr' # cr
    BY <1>1 DEF FixInv, TypeOK, CRs
  <2>2. UNCHANGED <<queue, faults>> /\ pc' \in PCs
    BY <2>1 DEF Fail, Conclude, NoFault, PCs
  <2> QED
    BY <1>1, <2>2 DEF Fail, Conclude, FixInv, TypeOK, reqVars, histVars
<1>3. CopiesLag'
  BY <1>1 DEF CopiesLag, Copies, FixInv, TypeOK, CRs
<1>4. WorkerKnows'
  BY <1>1 DEF Fail, Conclude, WorkerKnows, FixInv, histVars
<1>5. NoEarlierOutcome' /\ OutcomeTrue'
  BY <1>1 DEF Fail, Conclude, NoEarlierOutcome, OutcomeTrue, WorkerKnows, FixInv, histVars
<1> QED
  BY <1>2, <1>3, <1>4, <1>5 DEF FixInv

LEMMA SucceedInv ==
  ASSUME FixInv, Succeed, Fresh(fix), cr' = WithPhase(cr, "Succeeded"), fix' = cr'
  PROVE  FixInv'
<1>1. /\ fix = cr /\ cr' \in CRs
      /\ cr'.phase = "Succeeded" /\ Copies(seen)' /\ cr'.version = cr.version + 1
  BY StatusWritten DEF Succeed, Conclude, FixInv, TypeOK, CopiesLag, CRDPhases
<1>2. TypeOK'
  <2>1. cr' # cr
    BY <1>1 DEF FixInv, TypeOK, CRs
  <2>2. UNCHANGED <<queue, faults>> /\ pc' \in PCs
    BY <2>1 DEF Succeed, Conclude, NoFault, PCs
  <2> QED
    BY <1>1, <2>2 DEF Succeed, Conclude, FixInv, TypeOK, reqVars, histVars
<1>3. CopiesLag'
  BY <1>1 DEF CopiesLag, Copies, FixInv, TypeOK, CRs
<1>4. WorkerKnows'
  BY <1>1 DEF Succeed, Conclude, WorkerKnows, FixInv, histVars
<1>5. NoEarlierOutcome' /\ OutcomeTrue'
  BY <1>1 DEF Succeed, Conclude, NoEarlierOutcome, OutcomeTrue, WorkerKnows, FixInv, histVars
<1> QED
  BY <1>2, <1>3, <1>4, <1>5 DEF FixInv

\* The worker: a write is accepted only when its copy is the CR.
LEMMA WorkerInv == ASSUME FixInv, WorkerStep PROVE FixInv'
<1> USE FixBoundAssumption
    DEF FixInv, TypeOK, CopiesLag, Copies, WorkerKnows, NoEarlierOutcome, OutcomeTrue,
        CRs, NoCR, Object, CRDPhases, Strategies, Rollbacks, PCs,
        procVars, reqVars, histVars, objVars, Live, Fault, NoFault, Fresh, WithPhase, Return
<1>1. CASE Reconcile
  BY <1>1 DEF Reconcile
<1>2. CASE InitStatus
  BY <1>2 DEF InitStatus, FirstPhase
<1>3. CASE Claim
  <2>1. CASE cr' = WithPhase(cr, "Applying") /\ Fresh(fix) /\ fix' = cr'
    <3> HIDE DEF FixInv, WithPhase, Fresh
    <3> QED
      BY <1>3, <2>1, ClaimInv
  <2>2. CASE UNCHANGED cr /\ pc' = "idle"
    BY <1>3, <2>2 DEF Claim
  <2> HIDE DEF FixInv
  <2> QED
    BY <1>3, <2>1, <2>2 DEF Claim
<1>4. CASE Snapshot
  BY <1>4 DEF Snapshot
<1>5. CASE Apply
  BY <1>5 DEF Apply, NextAfterError
<1>6. CASE Rollback
  BY <1>6 DEF Rollback
<1>7. CASE RolledBackCR
  BY <1>7 DEF RolledBackCR
<1>8. CASE RolledBackRow
  BY <1>8 DEF RolledBackRow, WriteRow
<1>9. CASE Fail
  <2>1. CASE cr' = WithPhase(cr, "Failed") /\ Fresh(fix) /\ fix' = cr'
    <3> HIDE DEF FixInv, WithPhase, Fresh
    <3> QED
      BY <1>9, <2>1, FailInv
  <2>2. CASE UNCHANGED cr /\ pc' = "idle"
    BY <1>9, <2>2 DEF Fail, Conclude
  <2> HIDE DEF FixInv
  <2> QED
    BY <1>9, <2>1, <2>2 DEF Fail, Conclude
<1>10. CASE Succeed
  <2>1. CASE cr' = WithPhase(cr, "Succeeded") /\ Fresh(fix) /\ fix' = cr'
    <3> HIDE DEF FixInv, WithPhase, Fresh
    <3> QED
      BY <1>10, <2>1, SucceedInv
  <2>2. CASE UNCHANGED cr /\ pc' = "idle"
    BY <1>10, <2>2 DEF Succeed, Conclude
  <2> HIDE DEF FixInv
  <2> QED
    BY <1>10, <2>1, <2>2 DEF Succeed, Conclude
<1>11. CASE FailRow
  BY <1>11 DEF FailRow, ConcludeRow, WriteRow
<1>12. CASE SucceedRow
  BY <1>12 DEF SucceedRow, ConcludeRow, WriteRow
<1> HIDE DEF FixInv
<1> QED
  BY <1>1, <1>2, <1>3, <1>4, <1>5, <1>6, <1>7, <1>8, <1>9, <1>10, <1>11, <1>12 DEF WorkerStep

LEMMA FixStepInv == FixInv /\ [Next]_vars => FixInv'
<1> SUFFICES ASSUME FixInv, [Next]_vars PROVE FixInv'
  OBVIOUS
<1>1. CASE UNCHANGED vars
  BY <1>1 DEF FixInv, TypeOK, CopiesLag, Copies, WorkerKnows, NoEarlierOutcome, OutcomeTrue,
              vars, objVars, procVars, reqVars, histVars
<1> QED
  BY <1>1, EnvironmentInv, RequestInv, WorkerInv DEF Next

\* The inductive invariant of DiagnosticFix.
THEOREM FixInvariance == Spec => []FixInv
  BY FixInitInv, FixStepInv, PTL DEF Spec

\* Every variable of DiagnosticFix keeps its type.
THEOREM FixTypeCorrect == Spec => []TypeOK
<1>1. FixInv => TypeOK
  BY DEF FixInv
<1> QED
  BY <1>1, FixInvariance, PTL

\* A fix shows Succeeded only when its latest patch took effect, RolledBack
\* only when it did not.
THEOREM TruthfulOutcome == Spec => []OutcomeTrue
<1>1. FixInv => OutcomeTrue
  BY DEF FixInv
<1> QED
  BY <1>1, FixInvariance, PTL

(***************************************************************************)
(* Consent: the answered approve requests are counted, so this needs the   *)
(* finiteness of Requests.                                                 *)
(***************************************************************************)

\* An answered request stays answered.
LEMMA AnsweredGrows ==
  ASSUME FixInv, [Next]_vars
  PROVE  Answered \subseteq Answered' /\ UNCHANGED verb
<1> USE DEF Answered
<1>1. ASSUME NEW q \in Requests, AskRow(q) \/ FindCR(q) \/ UpdateSpec(q) \/ UpdateStatus(q)
      PROVE  Answered \subseteq Answered' /\ UNCHANGED verb
  BY <1>1 DEF AskRow, FindCR, UpdateSpec, UpdateStatus, FixInv, TypeOK
<1>2. CASE Crash
  BY <1>2 DEF Crash, FixInv, TypeOK
<1>3. CASE WorkerStep
  BY <1>3 DEF WorkerStep, Reconcile, InitStatus, Claim, Snapshot, Apply, Rollback, RolledBackCR,
              RolledBackRow, Fail, FailRow, Succeed, SucceedRow, Conclude, ConcludeRow, reqVars
<1>4. CASE \/ Submit \/ GenerateFix \/ GeneratorGone \/ CallbackCR \/ CallbackRow
           \/ EditFix \/ DeleteFix \/ RunErased \/ Sync \/ BatchApprove \/ BatchReject
           \/ UNCHANGED vars
  BY <1>4 DEF Submit, GenerateFix, GeneratorGone, CallbackCR, CallbackRow, EditFix, DeleteFix,
              RunErased, Sync, BatchApprove, BatchReject, vars, reqVars
<1> QED
  BY <1>1, <1>2, <1>3, <1>4 DEF Next

LEMMA AnsweredCounted ==
  ASSUME FixInv, [Next]_vars
  PROVE  /\ Cardinality(Answered) \in Nat /\ Cardinality(Answered') \in Nat
         /\ Cardinality(Answered) <= Cardinality(Answered')
<1>1. IsFiniteSet(Answered) /\ IsFiniteSet(Answered')
  BY RequestAssumption, FS_Subset DEF Answered
<1> QED
  BY <1>1, AnsweredGrows, FS_Subset, FS_CardinalityType

\* An approval that reaches the CR is one more answered request.
LEMMA ApprovalCounted ==
  ASSUME FixInv, NEW q \in Requests, UpdateStatus(q), verb[q] = "approve"
  PROVE  Cardinality(Answered') = Cardinality(Answered) + 1
<1>1. q \notin Answered /\ Answered' = Answered \cup {q}
  BY DEF Answered, UpdateStatus, FixInv, TypeOK
<1>2. IsFiniteSet(Answered)
  BY RequestAssumption, FS_Subset DEF Answered
<1> QED
  BY <1>1, <1>2, FS_AddElement

LEMMA SpentCounts == attempts \in Nat => Spent \in Nat
  BY DEF Spent

LEMMA ConsentStep ==
  ASSUME FixInv, ConsentCovers, [Next]_vars
  PROVE  ConsentCovers'
<1> DEFINE Covered == /\ cr'.phase = "Absent" => cr.phase = "Absent" /\ UNCHANGED <<attempts, pc>>
                      /\ NeedsConsent' => NeedsConsent /\ Spent' <= Spent
<1>1. /\ Spent \in Nat /\ Spent' \in Nat
      /\ Cardinality(Answered) \in Nat /\ Cardinality(Answered') \in Nat
      /\ Cardinality(Answered) <= Cardinality(Answered')
  <2>1. FixInv'
    BY FixStepInv
  <2>2. Spent \in Nat
    BY DEF Spent, FixInv, TypeOK
  <2>3. Spent' \in Nat
    <3>1. attempts' \in Nat
      BY <2>1 DEF FixInv, TypeOK
    <3>2. (attempts \in Nat => Spent \in Nat)'
      BY SpentCounts, PTL
    <3> QED
      BY <3>1, <3>2
  <2> QED
    BY <2>2, <2>3, AnsweredCounted
<1>2. CASE Submit \/ CallbackCR
  <2>1. attempts' = 0 /\ pc' = "idle" /\ cr'.phase = "New"
    BY <1>2 DEF Submit, CallbackCR, Object, ConsentCovers, procVars, histVars
  <2> QED
    BY <2>1, <1>1 DEF ConsentCovers, Spent
<1>3. CASE \E q \in Requests : UpdateStatus(q)
  <2>1. PICK q \in Requests : UpdateStatus(q)
    BY <1>3
  <2>2. CASE UNCHANGED cr
    <3>1. Spent' = Spent /\ (NeedsConsent' <=> NeedsConsent) /\ UNCHANGED <<attempts, pc>>
      BY <2>1, <2>2 DEF UpdateStatus, Spent, NeedsConsent, procVars, histVars
    <3> QED
      BY <3>1, <2>2, <1>1 DEF ConsentCovers
  <2>3. CASE Fresh(copy[q]) /\ cr' = WithPhase(cr, IF verb[q] = "approve" THEN "Approved" ELSE "Failed")
    <3>1. /\ cr'.phase = (IF verb[q] = "approve" THEN "Approved" ELSE "Failed")
          /\ NeedsConsent' <=> NeedsConsent
          /\ UNCHANGED <<attempts, pc>>
      BY <2>1, <2>3 DEF UpdateStatus, WithPhase, Object, NeedsConsent, procVars, histVars
    <3>2. CASE verb[q] = "approve"
      <4>1. Spent' <= Spent + 1
        BY <3>1, <3>2 DEF Spent, FixInv, TypeOK
      <4> QED
        BY <4>1, <3>1, <3>2, <2>1, <1>1, ApprovalCounted DEF ConsentCovers
    <3>3. CASE verb[q] # "approve"
      <4>1. Spent' <= Spent
        BY <3>1, <3>3 DEF Spent, FixInv, TypeOK
      <4> QED
        BY <4>1, <3>1, <3>3, <1>1 DEF ConsentCovers
    <3> QED
      BY <3>2, <3>3
  <2> QED
    BY <2>1, <2>2, <2>3 DEF UpdateStatus
<1>4. ASSUME Covered PROVE ConsentCovers'
  BY <1>1, <1>4 DEF ConsentCovers
<1>5. CASE \/ GenerateFix \/ GeneratorGone \/ CallbackRow \/ RunErased \/ Sync
           \/ BatchApprove \/ BatchReject \/ UNCHANGED vars
           \/ \E q \in Requests : AskRow(q) \/ FindCR(q)
  <2>1. UNCHANGED <<cr, pc, attempts>>
    BY <1>5 DEF GenerateFix, GeneratorGone, CallbackRow, RunErased, Sync, BatchApprove, BatchReject,
                AskRow, FindCR, vars, objVars, procVars, histVars
  <2> QED
    BY <2>1, <1>1, <1>4 DEF NeedsConsent, Spent
<1>6. CASE EditFix \/ DeleteFix \/ (\E q \in Requests : UpdateSpec(q)) \/ Crash
  <2>1. /\ UNCHANGED attempts /\ (pc' = pc \/ pc' = "idle")
        /\ cr'.phase \in {cr.phase, "Gone"} /\ (cr'.phase = "Absent" => pc' = pc \/ pc' = "idle")
        /\ NeedsConsent' => NeedsConsent
    BY <1>6 DEF EditFix, DeleteFix, UpdateSpec, Object, Crash, NeedsConsent, procVars, histVars,
                FixInv, TypeOK, CRs, Strategies
  <2> QED
    BY <2>1, <1>1, <1>4 DEF Spent, ConsentCovers, FixInv, TypeOK
<1>7. CASE Reconcile \/ Rollback \/ RolledBackRow \/ FailRow \/ SucceedRow
  <2>1. /\ UNCHANGED <<cr, attempts>> /\ pc' \notin {"snapshot", "apply"}
        /\ pc' # pc => pc # "idle" \/ seen.phase \in {"New", "Approved"}
    BY <1>7 DEF Reconcile, Rollback, RolledBackRow, FailRow, SucceedRow, ConcludeRow, objVars, histVars
  <2>2. cr.phase = "Absent" => pc' = pc
    BY <2>1 DEF ConsentCovers, FixInv, CopiesLag, Copies, TypeOK, CRs
  <2> QED
    BY <2>1, <2>2, <1>1, <1>4 DEF Spent, NeedsConsent, FixInv, TypeOK
<1>8. CASE InitStatus
  <2>1. UNCHANGED attempts /\ pc = "init" /\ pc' = "idle" /\ cr.phase # "Absent"
    BY <1>8 DEF InitStatus, Return, histVars, ConsentCovers
  <2>2. CASE UNCHANGED cr
    BY <2>1, <2>2, <1>1 DEF ConsentCovers, Spent, NeedsConsent
  <2>3. CASE Fresh(fix) /\ cr' = WithPhase(cr, FirstPhase(fix))
    <3>1. fix = cr
      BY <2>1, <2>3 DEF FixInv, CopiesLag, Copies, Fresh, Live, CRDPhases
    <3>2. NeedsConsent' => NeedsConsent /\ cr'.phase # "Approved"
      BY <2>3, <3>1 DEF WithPhase, Object, FirstPhase, NeedsConsent
    <3>3. cr'.phase # "Absent"
      BY <2>3 DEF WithPhase, Object, FirstPhase
    <3> QED
      BY <2>1, <3>2, <3>3, <1>1 DEF ConsentCovers, Spent, FixInv, TypeOK
  <2> QED
    BY <1>8, <2>2, <2>3 DEF InitStatus
<1>9. CASE Claim
  <2>1. UNCHANGED attempts /\ pc = "claim" /\ cr.phase # "Absent"
    BY <1>9 DEF Claim, histVars, ConsentCovers
  <2>2. CASE UNCHANGED cr /\ pc' = "idle"
    BY <2>1, <2>2, <1>1 DEF ConsentCovers, Spent, NeedsConsent
  <2>3. CASE Fresh(fix) /\ cr' = WithPhase(cr, "Applying")
    <3>1. cr.phase = "Approved"
      BY <2>1, <2>3 DEF FixInv, CopiesLag, Copies, WorkerKnows, Fresh, Live, CRDPhases
    <3>2. (NeedsConsent' => NeedsConsent) /\ cr'.phase = "Applying"
      BY <2>3 DEF WithPhase, Object, NeedsConsent
    <3> QED
      BY <2>1, <3>1, <3>2, <1>1, <1>4 DEF Spent, FixInv, TypeOK
  <2> QED
    BY <1>9, <2>2, <2>3 DEF Claim, Return
<1>10. CASE Snapshot \/ Apply
  <2>1. /\ UNCHANGED cr /\ cr.phase # "Absent" /\ pc \in {"snapshot", "apply"}
        /\ \/ pc' \in {"apply", "fail"} /\ UNCHANGED attempts
           \/ pc' \notin {"snapshot", "apply"} /\ attempts' = attempts + 1
    BY <1>10 DEF Snapshot, Apply, NextAfterError, objVars, histVars, ConsentCovers
  <2> QED
    BY <2>1, <1>1, <1>4 DEF Spent, NeedsConsent, FixInv, TypeOK
<1>11. CASE RolledBackCR \/ Fail \/ Succeed
  <2>1. /\ UNCHANGED attempts /\ cr.phase # "Absent" /\ pc' \notin {"snapshot", "apply"}
        /\ UNCHANGED cr \/ \E p \in {"RolledBack", "Failed", "Succeeded"} : cr' = WithPhase(cr, p)
    BY <1>11 DEF RolledBackCR, Fail, Succeed, Conclude, Return, histVars, ConsentCovers
  <2>2. cr'.phase \in {cr.phase, "RolledBack", "Failed", "Succeeded"} /\ (NeedsConsent' => NeedsConsent)
    BY <2>1 DEF WithPhase, Object, NeedsConsent
  <2> QED
    BY <2>1, <2>2, <1>1, <1>4 DEF Spent, FixInv, TypeOK
<1> QED
  BY <1>2, <1>3, <1>5, <1>6, <1>7, <1>8, <1>9, <1>10, <1>11 DEF Next, WorkerStep

\* A fix that needs consent is patched no more often than it was approved.
THEOREM Consent == Spec => []PatchNeedsConsent
<1>1. Init => ConsentInv
  <2>1. Init => ConsentCovers
    <3>1. IsFiniteSet(Answered)
      BY RequestAssumption, FS_Subset DEF Answered
    <3>2. Cardinality(Answered) \in Nat
      BY <3>1, FS_CardinalityType
    <3> QED
      BY <3>2 DEF Init, NoCR, Object, ConsentCovers, Spent
  <2> QED
    BY <2>1, FixInitInv DEF ConsentInv
<1>2. ConsentInv /\ [Next]_vars => ConsentInv'
  BY FixStepInv, ConsentStep DEF ConsentInv
<1>3. ConsentInv => PatchNeedsConsent
  <2> DEFINE Asked == {q \in Requests : verb[q] = "approve" /\ rpc[q] # "new"}
  <2> SUFFICES ASSUME ConsentInv, NeedsConsent PROVE attempts <= Cardinality(Asked)
    BY DEF PatchNeedsConsent
  <2>1. IsFiniteSet(Asked) /\ Answered \subseteq Asked
    BY RequestAssumption, FS_Subset DEF Answered
  <2>2. Cardinality(Answered) <= Cardinality(Asked) /\ Cardinality(Asked) \in Nat /\ Cardinality(Answered) \in Nat
    BY <2>1, FS_Subset, FS_CardinalityType
  <2>3. attempts <= Spent /\ Spent \in Nat /\ attempts \in Nat
    BY DEF ConsentInv, FixInv, TypeOK, Spent
  <2> QED
    BY <2>2, <2>3 DEF ConsentInv, ConsentCovers
<1> QED
  BY <1>1, <1>2, <1>3, PTL DEF Spec

\* Every step of the fix is a step of the contract or leaves what the
\* contract sees alone.
LEMMA FixStepRefines == FixInv /\ [Next]_vars => [Contract!Next]_(Contract!fvars)
<1> SUFFICES ASSUME FixInv, [Next]_vars
             PROVE  Contract!Next \/ UNCHANGED Contract!fvars
  OBVIOUS
<1> USE DEF Contract!fvars
<1>1. CASE Submit \/ CallbackCR
  <2>1. Contract!Submit
    BY <1>1 DEF Submit, CallbackCR, Object, procVars, histVars, Contract!Submit
  <2> QED
    BY <2>1 DEF Contract!Next
<1>2. CASE DeleteFix
  <2>1. Contract!Remove
    BY <1>2 DEF DeleteFix, Live, CRDPhases, procVars, histVars, FixInv, TypeOK, CRs,
                Contract!Remove, Contract!Present, Contract!Undecided, Contract!Outcomes
  <2> QED
    BY <2>1 DEF Contract!Next
<1>3. CASE \/ GenerateFix \/ GeneratorGone \/ CallbackRow \/ EditFix \/ RunErased \/ Sync
           \/ BatchApprove \/ BatchReject \/ UNCHANGED vars
  BY <1>3 DEF GenerateFix, GeneratorGone, CallbackRow, EditFix, RunErased, Sync, BatchApprove,
              BatchReject, vars, procVars, histVars, objVars, reqVars, FixInv, TypeOK, CRs
<1>4. ASSUME NEW q \in Requests, AskRow(q) \/ FindCR(q) \/ UpdateSpec(q)
      PROVE  UNCHANGED Contract!fvars
  <2>1. CASE AskRow(q) \/ FindCR(q)
    BY <2>1 DEF AskRow, FindCR, objVars, procVars, histVars
  <2>2. CASE UpdateSpec(q)
    BY <2>2 DEF UpdateSpec, Object, procVars, histVars
  <2> QED
    BY <1>4, <2>1, <2>2
<1>5. ASSUME NEW q \in Requests, UpdateStatus(q)
      PROVE  Contract!Approve \/ Contract!Reject \/ UNCHANGED Contract!fvars
  BY <1>5 DEF UpdateStatus, Fresh, Live, WithPhase, Object, CRDPhases, procVars, histVars, FixInv, TypeOK, CRs,
              Contract!Approve, Contract!Reject, Contract!Present, Contract!Undecided, Contract!Outcomes
<1>6. CASE Crash
  <2>1. Contract!Lapse \/ UNCHANGED Contract!fvars
    BY <1>6 DEF Crash, histVars, Contract!Lapse
  <2> QED
    BY <2>1 DEF Contract!Next
<1>7. CASE WorkerStep
  <2>1. CASE Reconcile
    BY <2>1 DEF Reconcile, objVars, histVars
  <2>2. CASE InitStatus
    <3>1. Contract!Settle \/ Contract!Approve \/ UNCHANGED Contract!fvars
      BY <2>2 DEF InitStatus, FirstPhase, Fresh, Live, WithPhase, Object, Return, histVars,
                  FixInv, TypeOK, CRs, CopiesLag, Copies, WorkerKnows, CRDPhases,
                  Contract!Settle, Contract!Approve, Contract!Present, Contract!Undecided, Contract!Outcomes
    <3> QED
      BY <3>1 DEF Contract!Next
  <2>3. CASE Claim
    <3>1. Contract!Claim \/ UNCHANGED Contract!fvars
      BY <2>3 DEF Claim, Fresh, Live, WithPhase, Object, Return, histVars,
                  FixInv, TypeOK, CRs, CopiesLag, Copies, WorkerKnows, CRDPhases, Contract!Claim
    <3> QED
      BY <3>1 DEF Contract!Next
  <2>4. CASE Snapshot
    <3>1. Contract!Lapse \/ UNCHANGED Contract!fvars
      BY <2>4 DEF Snapshot, objVars, histVars, Contract!Lapse
    <3> QED
      BY <3>1 DEF Contract!Next
  <2>5. CASE Apply
    <3>1. Contract!Patch
      BY <2>5 DEF Apply, NextAfterError, objVars, Contract!Patch
    <3> QED
      BY <3>1 DEF Contract!Next
  <2>6. CASE Rollback \/ RolledBackRow \/ FailRow \/ SucceedRow
    BY <2>6 DEF Rollback, RolledBackRow, FailRow, SucceedRow, ConcludeRow, objVars, histVars
  <2>7. CASE RolledBackCR \/ Fail \/ Succeed
    <3>1. Contract!Conclude \/ Contract!Reject \/ UNCHANGED Contract!fvars
      BY <2>7 DEF RolledBackCR, Fail, Succeed, Conclude, Fresh, Live, WithPhase, Object, Return, histVars,
                  FixInv, TypeOK, CRs, CopiesLag, Copies, WorkerKnows, CRDPhases, Contract!Conclude,
                  Contract!Reject, Contract!Present, Contract!Undecided, Contract!Outcomes
    <3> QED
      BY <3>1 DEF Contract!Next
  <2> QED
    BY <1>7, <2>1, <2>2, <2>3, <2>4, <2>5, <2>6, <2>7 DEF WorkerStep
<1> QED
  BY <1>1, <1>2, <1>3, <1>4, <1>5, <1>6, <1>7 DEF Next, Contract!Next

\* DiagnosticFix implements FixContract.
THEOREM FixRefinement == Spec => ImplementsFixContract
<1>1. Init => Contract!Init
  BY DEF Init, NoCR, Object, Contract!Init
<1> QED
  BY <1>1, FixInvariance, FixStepRefines, PTL DEF Spec, ImplementsFixContract, Contract!Spec
=============================================================================
