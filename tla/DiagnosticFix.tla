---------------------------- MODULE DiagnosticFix ----------------------------
(***************************************************************************)
(* The life of one DiagnosticFix: the CR, the informer cache, the row in   *)
(* the fixes table, the reconcile worker (fix_reconciler.go) one external  *)
(* call at a time, the callback that stores a generated fix, the approve   *)
(* and reject requests, the batch endpoints that write the store alone,    *)
(* and a controller that can die between calls.  Fixes share nothing but   *)
(* the worker, so one is enough.                                           *)
(***************************************************************************)
EXTENDS Naturals, FiniteSets

CONSTANTS
  Requests,    \* the PATCH .../approve and .../reject requests ever made
  MaxVersion,  \* bound: resourceVersion up to which users edit the CR
  MaxCrashes,  \* bound: controller crashes
  MaxFaults    \* bound: failed or unanswered API and store calls

ASSUME RequestAssumption == IsFiniteSet(Requests)
ASSUME FixBoundAssumption == MaxVersion \in Nat /\ MaxCrashes \in Nat /\ MaxFaults \in Nat

VARIABLES
  cr,               \* the CR: phase, resourceVersion, and the spec that matters
  seen,             \* the informer's copy of it
  queue,            \* the CR's name, when it is in the workqueue
  row,              \* phase in the fixes table
  gen,              \* the fix-generator Job and the callback it makes
  run,              \* the fix's run, with its findings, until it is batch-deleted
  pc, fix,          \* the reconcile worker and its copy of the CR
  rpc, verb, copy,  \* the requests: where they are, what they ask, their copy
  attempts, effect, \* history: patches sent, whether the latest took effect
  crashes, faults

objVars  == <<cr, row, gen, run>>
procVars == <<seen, queue, pc, fix>>
reqVars  == <<rpc, verb, copy>>
histVars == <<attempts, effect>>
vars == <<objVars, procVars, reqVars, histVars, crashes, faults>>

Strategies == {"auto", "dry-run", "create"}
Rollbacks  == {"off", "snapshot", "auto"}  \* nothing; snapshotBefore; and autoRollbackOnFailure
CRDPhases  == {"New", "PendingApproval", "Approved", "Applying", "Succeeded", "Failed",
               "RolledBack", "DryRunComplete"}   \* "New" is the empty phase
CRs == [phase : CRDPhases \cup {"Absent", "Gone"}, version : Nat,
        strategy : Strategies, approval : {"required", "waived"}, rollback : Rollbacks]
Object(p, v, s, a, b) ==
  [phase |-> p, version |-> v, strategy |-> s, approval |-> a, rollback |-> b]
NoCR == Object("Absent", 0, "auto", "required", "off")

PCs  == {"idle", "init", "claim", "snapshot", "apply", "rollback", "rolledCR", "rolledRow",
         "fail", "failRow", "succeed", "succeedRow"}
RPCs == {"new", "find", "spec", "status", "done"}

TypeOK ==
  /\ cr \in CRs /\ seen \in CRs /\ fix \in CRs
  /\ queue \subseteq {"fix"}
  /\ row \in {"Absent", "PendingApproval", "Approved", "Succeeded", "Failed", "RolledBack"}
  /\ gen \in {"none", "running", "stored"}
  /\ run \in {"there", "erased"}
  /\ pc \in PCs
  /\ rpc \in [Requests -> RPCs]
  /\ verb \in [Requests -> {"approve", "reject"}]
  /\ copy \in [Requests -> CRs]
  /\ attempts \in Nat
  /\ effect \in {"none", "landed"}
  /\ crashes \in 0..MaxCrashes
  /\ faults \in 0..MaxFaults

Init ==
  /\ cr = NoCR /\ seen = NoCR /\ fix = NoCR
  /\ queue = {}
  /\ row = "Absent"
  /\ gen = "none"
  /\ run = "there"
  /\ pc = "idle"
  /\ rpc = [q \in Requests |-> "new"]
  /\ verb \in [Requests -> {"approve", "reject"}]
  /\ copy = [q \in Requests |-> NoCR]
  /\ attempts = 0
  /\ effect = "none"
  /\ crashes = 0
  /\ faults = 0

Live(o) == o.phase \in CRDPhases

Fault   == faults < MaxFaults /\ faults' = faults + 1
NoFault == UNCHANGED faults

\* An update is refused when the object was written or deleted since the
\* copy was read.
Fresh(o) == Live(cr) /\ cr.version = o.version

\* The object after a status update with this phase.
WithPhase(o, p) == Object(p, o.version + 1, o.strategy, o.approval, o.rollback)

(***************************************************************************)
(* Where fixes come from, and what users do to them.                       *)
(***************************************************************************)

\* kubectl apply of any spec; such a fix never has a row.
Submit ==
  /\ cr.phase = "Absent"
  /\ \E s \in Strategies, a \in {"required", "waived"}, b \in Rollbacks :
       cr' = Object("New", 1, s, a, b)
  /\ UNCHANGED <<procVars, reqVars, histVars, row, gen, run, crashes, faults>>

\* POST /api/findings/{id}/generate-fix: the finding is there, no fix has a
\* row, and the Job of that name does not exist.
GenerateFix ==
  /\ run = "there" /\ row = "Absent" /\ gen = "none"
  /\ gen' = "running"
  /\ UNCHANGED <<procVars, reqVars, histVars, cr, row, run, crashes, faults>>

\* The Job ends (by failure, or its deadline) and its TTL passes.
GeneratorGone ==
  /\ gen = "running" /\ gen' = "none"
  /\ UNCHANGED <<procVars, reqVars, histVars, cr, row, run, crashes, faults>>

\* POST /internal/fixes creates the CR, always with approval required,
CallbackCR ==
  /\ gen = "running" /\ cr.phase = "Absent"
  /\ \E s \in Strategies :
       cr' = Object("New", 1, s, "required", "auto")
  /\ gen' = "stored"
  /\ UNCHANGED <<procVars, reqVars, histVars, row, run, crashes, faults>>

\* then its row, whose error is dropped.
CallbackRow ==
  /\ gen = "stored" /\ gen' = "none"
  /\ \/ row' = "PendingApproval" /\ NoFault
     \/ UNCHANGED row /\ Fault
  /\ UNCHANGED <<procVars, reqVars, histVars, cr, run, crashes>>

EditFix ==
  /\ Live(cr) /\ cr.version < MaxVersion
  /\ cr' = [cr EXCEPT !.version = @ + 1]
  /\ UNCHANGED <<procVars, reqVars, histVars, row, gen, run, crashes, faults>>

DeleteFix ==
  /\ Live(cr)
  /\ cr' = [cr EXCEPT !.phase = "Gone"]
  /\ UNCHANGED <<procVars, reqVars, histVars, row, gen, run, crashes, faults>>

\* A batch delete of the fix's run deletes its findings and fixes too.
RunErased ==
  /\ run = "there" /\ run' = "erased"
  /\ row' = "Absent"
  /\ UNCHANGED <<procVars, reqVars, histVars, cr, gen, crashes, faults>>

Sync ==
  /\ seen # cr
  /\ seen' = cr /\ queue' = {"fix"}
  /\ UNCHANGED <<objVars, reqVars, histVars, pc, fix, crashes, faults>>

(***************************************************************************)
(* The reconcile worker.                                                   *)
(***************************************************************************)

ReturnUnqueued(again) ==   \* mutant: the error is logged, not returned
  pc' = "idle" /\ fix' = NoCR /\ UNCHANGED queue
Return(again) == pc' = "idle" /\ fix' = NoCR /\ queue' = IF again THEN {"fix"} ELSE queue

\* Store.UpdateFixPhase, its error dropped.
WriteRow(p) ==
  \/ /\ row # "Absent" /\ NoFault
     /\ row' = p
  \/ /\ IF row # "Absent" THEN Fault ELSE NoFault
     /\ UNCHANGED row

\* Get from the cache, and the switch on status.phase; Applying only asks to
\* be looked at again in ten seconds.
Reconcile ==
  /\ pc = "idle" /\ queue # {}
  /\ \/ seen.phase = "New" /\ pc' = "init" /\ fix' = seen /\ queue' = {}
     \/ seen.phase = "Approved" /\ pc' = "claim" /\ fix' = seen /\ queue' = {}
     \/ seen.phase \notin {"New", "Approved", "Applying"} /\ queue' = {} /\ UNCHANGED <<pc, fix>>
  /\ UNCHANGED <<objVars, reqVars, histVars, seen, crashes, faults>>

\* The decision about a new fix.
PhaseUnknown(o) ==   \* mutant: a phase that the CRD's enum does not admit
  IF o.approval = "required" THEN "AwaitingApproval" ELSE "Approved"
ApprovalSkipped(o) == "Approved"   \* mutant: approvalRequired not looked at
FirstPhase(o) ==
  IF o.strategy = "dry-run" THEN "DryRunComplete"
  ELSE IF o.approval = "required" THEN "PendingApproval" ELSE "Approved"

InitStatus ==
  /\ pc = "init"
  /\ \/ /\ Fresh(fix) /\ NoFault
        /\ cr' = WithPhase(cr, FirstPhase(fix))
     \/ /\ IF Fresh(fix) THEN Fault ELSE NoFault
        /\ UNCHANGED cr
  /\ Return(TRUE)
  /\ UNCHANGED <<reqVars, histVars, row, gen, run, seen, crashes>>

\* Status().Update: Applying.  The response is the worker's copy from here.
Claim ==
  /\ pc = "claim"
  /\ \/ /\ Fresh(fix) /\ NoFault
        /\ cr' = WithPhase(cr, "Applying") /\ fix' = cr'
        /\ pc' = IF fix.strategy = "create" \/ fix.rollback = "off" THEN "apply" ELSE "snapshot"
        /\ UNCHANGED queue
     \/ /\ IF Fresh(fix) THEN Fault ELSE NoFault
        /\ Return(TRUE) /\ UNCHANGED cr
  /\ UNCHANGED <<reqVars, histVars, row, gen, run, seen, crashes>>

\* Get of the target; it may not exist, or be of an unsupported kind.
Snapshot ==
  /\ pc = "snapshot"
  /\ pc' \in {"apply", "fail"}
  /\ UNCHANGED <<objVars, reqVars, histVars, seen, queue, fix, crashes, faults>>

\* The Patch, or the Create: it lands, it is refused, or it lands and the
\* answer is lost, which the code takes for a refusal.
NextAfterError == IF fix.strategy # "create" /\ fix.rollback = "auto" THEN "rollback" ELSE "fail"

ErrorIgnored ==   \* mutant: the error of Patch dropped
  /\ pc = "apply" /\ pc' = "succeed" /\ NoFault
  /\ attempts' = attempts + 1
  /\ effect' \in {"none", "landed"}
  /\ UNCHANGED <<objVars, reqVars, seen, queue, fix, crashes>>

Apply ==
  /\ pc = "apply"
  /\ attempts' = attempts + 1
  /\ \/ effect' = "landed" /\ pc' = "succeed" /\ NoFault
     \/ effect' = "none" /\ pc' = NextAfterError /\ NoFault
     \/ effect' = "landed" /\ pc' = NextAfterError /\ Fault
  /\ UNCHANGED <<objVars, reqVars, seen, queue, fix, crashes>>

\* The snapshot is sent back as a merge patch.  It carries the target's old
\* resourceVersion, so it is refused once anybody wrote the target.
ForcedRollback ==   \* mutant: the snapshot without its resourceVersion
  /\ pc = "rollback"
  /\ pc' \in {"rolledCR", "fail"}
  /\ UNCHANGED <<objVars, reqVars, histVars, seen, queue, fix, crashes, faults>>

Rollback ==
  /\ pc = "rollback"
  /\ \/ effect = "none" /\ pc' = "rolledCR"
     \/ pc' = "fail"
  /\ UNCHANGED <<objVars, reqVars, histVars, seen, queue, fix, crashes, faults>>

\* Status().Update: RolledBack, its error dropped,
RolledBackCR ==
  /\ pc = "rolledCR" /\ pc' = "rolledRow"
  /\ \/ /\ Fresh(fix) /\ NoFault
        /\ cr' = WithPhase(cr, "RolledBack") /\ fix' = cr'
     \/ /\ IF Fresh(fix) THEN Fault ELSE NoFault
        /\ UNCHANGED <<cr, fix>>
  /\ UNCHANGED <<reqVars, histVars, row, gen, run, seen, queue, crashes>>

\* the row, and back to the caller, which fails the fix.
RolledBackRow ==
  /\ pc = "rolledRow" /\ pc' = "fail"
  /\ WriteRow("RolledBack")
  /\ UNCHANGED <<reqVars, histVars, cr, gen, run, seen, queue, fix, crashes>>

\* failFix, and the same two writes for a success.
Conclude(at, outcome, next) ==
  /\ pc = at
  /\ \/ /\ Fresh(fix) /\ NoFault
        /\ cr' = WithPhase(cr, outcome) /\ fix' = cr'
        /\ pc' = next /\ UNCHANGED queue
     \/ /\ IF Fresh(fix) THEN Fault ELSE NoFault
        /\ Return(TRUE) /\ UNCHANGED cr
  /\ UNCHANGED <<reqVars, histVars, row, gen, run, seen, crashes>>

ConcludeRow(at, outcome) ==
  /\ pc = at
  /\ WriteRow(outcome)
  /\ pc' = "idle" /\ fix' = NoCR /\ UNCHANGED queue
  /\ UNCHANGED <<reqVars, histVars, cr, gen, run, seen, crashes>>

Fail       == Conclude("fail", "Failed", "failRow")
FailRow    == ConcludeRow("failRow", "Failed")
Succeed    == Conclude("succeed", "Succeeded", "succeedRow")
SucceedRow == ConcludeRow("succeedRow", "Succeeded")

WorkerStep ==
  \/ Reconcile \/ InitStatus \/ Claim \/ Snapshot \/ Apply
  \/ Rollback \/ RolledBackCR \/ RolledBackRow
  \/ Fail \/ FailRow \/ Succeed \/ SucceedRow

(***************************************************************************)
(* PATCH /api/fixes/{id}/approve and /reject, one external call at a time, *)
(* and the batch endpoints.                                                *)
(***************************************************************************)

\* UpdateFixApproval or UpdateFixPhase; without a row the request fails.
AskRow(q) ==
  /\ rpc[q] = "new"
  /\ \/ /\ row # "Absent" /\ NoFault
        /\ row' = IF verb[q] = "approve" THEN "Approved" ELSE "Failed"
        /\ rpc' = [rpc EXCEPT ![q] = "find"]
     \/ /\ IF row # "Absent" THEN Fault ELSE NoFault
        /\ rpc' = [rpc EXCEPT ![q] = "done"] /\ UNCHANGED row
  /\ UNCHANGED <<procVars, histVars, cr, gen, run, verb, copy, crashes>>

\* findFixCRByStoreID lists the cache; an error ends the request with 200.
FindCR(q) ==
  /\ rpc[q] = "find"
  /\ \/ /\ Live(seen) /\ NoFault
        /\ copy' = [copy EXCEPT ![q] = seen]
        /\ rpc' = [rpc EXCEPT ![q] = IF verb[q] = "approve" /\ seen.strategy = "dry-run"
                                     THEN "spec" ELSE "status"]
     \/ /\ IF Live(seen) THEN Fault ELSE NoFault
        /\ rpc' = [rpc EXCEPT ![q] = "done"] /\ UNCHANGED copy
  /\ UNCHANGED <<objVars, procVars, histVars, verb, crashes>>

\* Approving a dry run makes it an automatic one; an error is dropped.
UpdateSpec(q) ==
  /\ rpc[q] = "spec"
  /\ \/ /\ Fresh(copy[q]) /\ NoFault
        /\ cr' = Object(cr.phase, cr.version + 1, "auto", cr.approval, cr.rollback)
        /\ copy' = [copy EXCEPT ![q] = cr']
     \/ /\ IF Fresh(copy[q]) THEN Fault ELSE NoFault
        /\ UNCHANGED <<cr, copy>>
  /\ rpc' = [rpc EXCEPT ![q] = "status"]
  /\ UNCHANGED <<procVars, histVars, row, gen, run, verb, crashes>>

\* The phase, whatever it was; an error is dropped.
UpdateStatus(q) ==
  /\ rpc[q] = "status"
  /\ \/ /\ Fresh(copy[q]) /\ NoFault
        /\ cr' = WithPhase(cr, IF verb[q] = "approve" THEN "Approved" ELSE "Failed")
     \/ /\ IF Fresh(copy[q]) THEN Fault ELSE NoFault
        /\ UNCHANGED cr
  /\ rpc' = [rpc EXCEPT ![q] = "done"]
  /\ copy' = [copy EXCEPT ![q] = NoCR]
  /\ UNCHANGED <<procVars, histVars, row, gen, run, verb, crashes>>

\* batch-approve and batch-reject write the store and nothing else.
BatchApprove ==
  /\ row # "Absent" /\ row' = "Approved"
  /\ UNCHANGED <<procVars, reqVars, histVars, cr, gen, run, crashes, faults>>

BatchReject ==
  /\ row # "Absent" /\ row' = "Failed"
  /\ UNCHANGED <<procVars, reqVars, histVars, cr, gen, run, crashes, faults>>

\* The controller dies and restarts.
Crash ==
  /\ crashes < MaxCrashes /\ crashes' = crashes + 1
  /\ seen' = cr /\ queue' = IF Live(cr) THEN {"fix"} ELSE {}
  /\ pc' = "idle" /\ fix' = NoCR
  /\ rpc' = [q \in Requests |-> IF rpc[q] = "new" THEN "new" ELSE "done"]
  /\ copy' = [q \in Requests |-> NoCR]
  /\ gen' = IF gen = "stored" THEN "none" ELSE gen
  /\ UNCHANGED <<histVars, cr, row, run, verb, faults>>

Next ==
  \/ Submit \/ GenerateFix \/ GeneratorGone \/ CallbackCR \/ CallbackRow
  \/ EditFix \/ DeleteFix \/ RunErased \/ Sync
  \/ WorkerStep
  \/ \E q \in Requests : AskRow(q) \/ FindCR(q) \/ UpdateSpec(q) \/ UpdateStatus(q)
  \/ BatchApprove \/ BatchReject
  \/ Crash

Spec == Init /\ [][Next]_vars

\* The watch delivers and the worker keeps reconciling; nobody else has to act.
FairSpec == Spec /\ WF_vars(Sync) /\ WF_vars(WorkerStep)

(***************************************************************************)
(* Properties.                                                             *)
(***************************************************************************)

Contract == INSTANCE FixContract
              WITH phase <- cr.phase, permits <- IF pc \in {"snapshot", "apply"} THEN 1 ELSE 0

\* Through stale caches, crashes, conflicting writes and lost answers, each
\* approval is spent on at most one patch and an outcome follows its claim.
ImplementsFixContract == Contract!Spec

\* Succeeded means that the patch took effect, RolledBack that it did not:
\* a copy read before a later approval cannot write either.
OutcomeTrue ==
  /\ cr.phase = "Succeeded" => effect = "landed"
  /\ cr.phase = "RolledBack" => effect = "none"

\* A fix with approvalRequired, and a dry run, is patched no more often than
\* somebody asked for it.
NeedsConsent == cr.approval = "required" \/ cr.strategy = "dry-run"

PatchNeedsConsent ==
  NeedsConsent =>
    attempts <= Cardinality({q \in Requests : verb[q] = "approve" /\ rpc[q] # "new"})

\* The inductive invariant of the proofs in DiagnosticFixProofs.

\* A copy with the CR's resourceVersion is the CR, unless that was deleted.
Copies(o) == o.version <= cr.version /\ (o.version = cr.version /\ cr.phase # "Gone" => o = cr)

CopiesLag ==
  /\ Copies(seen)
  /\ pc # "idle" => Copies(fix)
  /\ cr.phase = "Absent" => cr.version = 0

\* What the worker's copy says at each of its calls.
WorkerKnows ==
  /\ pc = "init" => fix.phase = "New"
  /\ pc = "claim" => fix.phase = "Approved"
  /\ pc \in {"snapshot", "apply", "rollback", "rolledCR", "succeed"} => fix.phase = "Applying"
  /\ pc \in {"rolledRow", "fail"} => fix.phase \in {"Applying", "RolledBack"}
  /\ pc = "succeed" => effect = "landed"
  /\ pc = "rolledCR" => effect = "none"

\* While a patch is on its way the CR shows no earlier outcome.
NoEarlierOutcome ==
  pc \in {"snapshot", "apply"} => cr.phase \notin {"Succeeded", "RolledBack"}

\* Each patch sent or about to be sent, and an Approved not yet claimed, is
\* covered by an approve request that has been answered.
Answered == {q \in Requests : verb[q] = "approve" /\ rpc[q] = "done"}

Spent == attempts + (IF pc \in {"snapshot", "apply"} THEN 1 ELSE 0)
                  + (IF cr.phase = "Approved" THEN 1 ELSE 0)

ConsentCovers ==
  /\ cr.phase = "Absent" => attempts = 0 /\ pc = "idle"
  /\ NeedsConsent => Spent <= Cardinality(Answered)

FixInv == TypeOK /\ CopiesLag /\ WorkerKnows /\ NoEarlierOutcome /\ OutcomeTrue

ConsentInv == FixInv /\ ConsentCovers

\* A new fix is settled, and an approved one is taken up.
DecisionsTaken ==
  /\ cr.phase = "New" ~> cr.phase # "New"
  /\ cr.phase = "Approved" ~> cr.phase # "Approved"

\* A fix being applied comes to an outcome.
ApplyingDecided == cr.phase = "Applying" ~> cr.phase # "Applying"
=============================================================================
