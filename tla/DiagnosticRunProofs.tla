------------------------- MODULE DiagnosticRunProofs -------------------------
(***************************************************************************)
(* Proofs about DiagnosticRun for every set of runs and Job slots, every   *)
(* assignment of runs to slots and every bound.  Inv is inductive; the     *)
(* safety properties follow from it, and so does the refinement of         *)
(* RunContract.                                                            *)
(***************************************************************************)
EXTENDS DiagnosticRun, TLAPS

(***************************************************************************)
(* Inv is inductive.                                                       *)
(***************************************************************************)

LEMMA InitInv == Init => Inv
<1> SUFFICES ASSUME Init PROVE Inv
  OBVIOUS
<1>1. TypeOK
  <2>1. /\ phase \in [Runs -> Phases] /\ seenPhase \in [Runs -> Phases]
        /\ row \in [Runs -> RowPhases]
    BY DEF Init, Phases, RowPhases, CRDPhases
  <2>2. logs \in [Runs -> BOOLEAN] /\ registered \in BOOLEAN
    BY DEF Init
  <2>3. /\ reported \in [Runs -> 0..MaxFindings] /\ findings \in [Runs -> 0..MaxFindings]
        /\ counted \in 0..MaxFindings /\ crashes \in 0..MaxCrashes /\ faults \in 0..MaxFaults
    BY BoundAssumption DEF Init
  <2>4. pc \in PCs /\ goal \in Goals
    BY DEF Init, PCs, Goals
  <2> QED
    BY <2>1, <2>2, <2>3, <2>4 DEF Init, TypeOK
<1>2. ActorsBound /\ CacheLags /\ WorkerLags /\ EndingPending
  BY DEF Init, ActorsBound, CacheLags, WorkerLags, EndingPending
<1>3. RowAgreesWithCR /\ RowBeforeJob /\ AgentCanReport
  BY DEF Init, RowAgreesWithCR, RowBeforeJob, AgentCanReport, Ended
<1> QED
  BY <1>1, <1>2, <1>3 DEF Inv

\* The row of a run without one is inserted; nothing else but the worker's
\* place changes.
LEMMA InsertRowInv ==
  ASSUME Inv, InsertRow
  PROVE  Inv'
<1> USE DEF Inv, InsertRow, KeyIsFree, Return, GoTo, ActorsBound
<1>1. TypeOK'
  BY BoundAssumption
  DEF TypeOK, RowPhases, CRDPhases, Goals, PCs, Fault, NoFault,
         worldVars, cacheVars, delVars, crVars, jobVars, clockVars
<1>2. ActorsBound' /\ CacheLags' /\ WorkerLags' /\ EndingPending'
  BY DEF TypeOK, CacheLags, WorkerLags, EndingPending, Fresh, Live,
         worldVars, cacheVars, delVars, crVars, jobVars
<1>3. RowAgreesWithCR'
  BY DEF TypeOK, RowAgreesWithCR, Ended, crVars
<1>4. RowBeforeJob'
  BY DEF TypeOK, RowBeforeJob, worldVars, cacheVars, crVars
<1>5. AgentCanReport'
  BY DEF TypeOK, AgentCanReport, worldVars, jobVars
<1> QED
  BY <1>1, <1>2, <1>3, <1>4, <1>5

\* A Running CR gets a message, or refuses it.
LEMMA UpdateMessageInv ==
  ASSUME Inv, UpdateMessage
  PROVE  Inv'
<1> USE DEF Inv, UpdateMessage, GoTo, ActorsBound, worldVars, cacheVars, delVars, storeVars, jobVars, clockVars
<1>1. TypeOK'
  BY BoundAssumption DEF TypeOK, PCs, Fault, NoFault
<1>2. ActorsBound' /\ CacheLags' /\ WorkerLags' /\ EndingPending'
  BY DEF TypeOK, CacheLags, WorkerLags, EndingPending, Fresh, Live, CRDPhases
<1>3. RowAgreesWithCR' /\ AgentCanReport'
  BY DEF RowAgreesWithCR, AgentCanReport
<1>4. RowBeforeJob'
  BY DEF RowBeforeJob
<1> QED
  BY <1>1, <1>2, <1>3, <1>4

\* A Pending CR becomes Running, or refuses.
LEMMA StartRunInv ==
  ASSUME Inv, StartRun
  PROVE  Inv'
<1> USE DEF Inv, StartRun, Return, GoTo, ActorsBound, worldVars, cacheVars, delVars, storeVars, jobVars, clockVars
<1>1. TypeOK'
  BY BoundAssumption DEF TypeOK, PCs, Goals, Phases, CRDPhases, Fault, NoFault
<1>2. ActorsBound' /\ CacheLags'
  BY DEF TypeOK, CacheLags, Fresh, Live, CRDPhases
<1>3. WorkerLags' /\ EndingPending'
  BY DEF TypeOK, WorkerLags, EndingPending, Fresh, Live, CRDPhases
<1>4. RowAgreesWithCR' /\ AgentCanReport'
  BY DEF TypeOK, WorkerLags, RowAgreesWithCR, AgentCanReport, Ended
<1>5. RowBeforeJob'
  BY DEF TypeOK, RowBeforeJob
<1> QED
  BY <1>1, <1>2, <1>3, <1>4, <1>5

\* A Pending or Running CR gets the worker's goal, or refuses it.
LEMMA FinishRunInv ==
  ASSUME Inv, FinishRun
  PROVE  Inv'
<1> USE DEF Inv, FinishRun, InEnum, Return, GoTo, ActorsBound, worldVars, cacheVars, delVars,
            crVars, storeVars, jobVars, clockVars
<1>1. TypeOK'
  BY BoundAssumption DEF TypeOK, PCs, Goals, Phases, CRDPhases, Fault, NoFault
<1>2. ActorsBound' /\ CacheLags'
  BY DEF TypeOK, CacheLags, Fresh, Live, CRDPhases
<1>3. WorkerLags' /\ EndingPending'
  BY DEF TypeOK, WorkerLags, EndingPending, Fresh, Live, CRDPhases, Goals, Ended
<1>4. RowAgreesWithCR' /\ AgentCanReport'
  BY DEF TypeOK, WorkerLags, RowAgreesWithCR, AgentCanReport, Ended
<1>5. RowBeforeJob'
  BY DEF TypeOK, RowBeforeJob
<1> QED
  BY <1>1, <1>2, <1>3, <1>4, <1>5

\* Only the flag of the run's logs and the worker's place change.
LEMMA CollectLogsInv ==
  ASSUME Inv, CollectLogs
  PROVE  Inv'
<1> USE DEF Inv, CollectLogs, GoTo, worldVars, cacheVars, delVars, crVars, jobVars, clockVars
<1>1. TypeOK'
  <2>1. logs' \in [Runs -> BOOLEAN]
    BY DEF TypeOK, ActorsBound
  <2>2. pc' \in PCs /\ faults' \in 0..MaxFaults
    BY BoundAssumption DEF TypeOK, PCs, Fault, NoFault
  <2> QED
    BY <2>1, <2>2 DEF TypeOK
<1>2. ActorsBound' /\ CacheLags' /\ WorkerLags' /\ EndingPending'
  BY DEF ActorsBound, CacheLags, WorkerLags, EndingPending
<1>3. RowAgreesWithCR' /\ RowBeforeJob' /\ AgentCanReport'
  BY DEF RowAgreesWithCR, RowBeforeJob, AgentCanReport
<1> QED
  BY <1>1, <1>2, <1>3

\* A run without its rows is an erased run, of which nothing is claimed.
LEMMA BatchDeleteRowsInv ==
  ASSUME Inv, BatchDeleteRows
  PROVE  Inv'
<1> USE DEF Inv, BatchDeleteRows, ActorsBound, storeVars, cacheVars, crVars, jobVars, clockVars, workVars
<1>1. TypeOK'
  <2>1. logs' \in [Runs -> BOOLEAN]
    BY DEF TypeOK
  <2>2. /\ row' \in [Runs -> RowPhases] /\ findings' \in [Runs -> 0..MaxFindings]
        /\ erased' \subseteq Runs /\ faults' \in 0..MaxFaults
    BY BoundAssumption DEF TypeOK, RowPhases, Fault, NoFault
  <2> QED
    BY <2>1, <2>2 DEF TypeOK
<1>2. ActorsBound' /\ CacheLags' /\ WorkerLags' /\ EndingPending'
  BY DEF CacheLags, WorkerLags, EndingPending, Fresh, Live
<1>3. RowAgreesWithCR'
  BY DEF TypeOK, RowAgreesWithCR, Ended
<1>4. RowBeforeJob' /\ AgentCanReport'
  BY DEF TypeOK, RowBeforeJob, AgentCanReport
<1> QED
  BY <1>1, <1>2, <1>3, <1>4

\* The new cache is the API server's content and the worker is idle: what a
\* crash leaves of the invariant is about the CRs, the rows and the Jobs.
LEMMA CrashInv ==
  ASSUME Inv, Crash
  PROVE  Inv'
<1> USE DEF Inv, Crash, crVars, storeVars, jobVars, clockVars, histVars
<1>1. TypeOK'
  <2>1. queue' \subseteq Slots
    BY SlotAssumption
  <2>2. crashes' \in 0..MaxCrashes /\ snap' \in Nat /\ counted' \in 0..MaxFindings
    BY BoundAssumption DEF TypeOK
  <2>3. pc' \in PCs /\ goal' \in Goals /\ registered' \in BOOLEAN
    BY DEF PCs, Goals
  <2> QED
    BY <2>1, <2>2, <2>3 DEF TypeOK
<1>2. CacheLags'
  BY DEF TypeOK, CacheLags
<1>3. ActorsBound' /\ WorkerLags' /\ EndingPending'
  BY DEF ActorsBound, WorkerLags, EndingPending
<1>4. RowAgreesWithCR' /\ RowBeforeJob' /\ AgentCanReport'
  BY DEF RowAgreesWithCR, RowBeforeJob, AgentCanReport
<1> QED
  BY <1>1, <1>2, <1>3, <1>4

\* Users, the watch, the clock and the other cluster.
LEMMA EnvironmentInv ==
  ASSUME Inv, 
         \/ \E r \in Runs : CreateRun(r) \/ EditRun(r) \/ DeleteRun(r) \/ Overdue(r) \/ Expire(r)
         \/ \E n \in Slots : Sync(n)
         \/ ClusterChanges
  PROVE  Inv'
<1> USE SlotAssumption, SubsetAssumption, NoneAssumption, BoundAssumption
    DEF Inv, TypeOK, ActorsBound, CacheLags, WorkerLags, EndingPending,
        RowAgreesWithCR, RowBeforeJob, AgentCanReport, Fresh, Live,
        Phases, RowPhases, CRDPhases, Ended, Goals, PCs,
        processVars, worldVars, crVars, cacheVars, storeVars, jobVars,
        clockVars, workVars, delVars, histVars
<1>1. ASSUME NEW r \in Runs, CreateRun(r) PROVE Inv'
  BY <1>1 DEF CreateRun
<1>2. ASSUME NEW r \in Runs, EditRun(r) PROVE Inv'
  BY <1>2 DEF EditRun
<1>3. ASSUME NEW r \in Runs, DeleteRun(r) PROVE Inv'
  BY <1>3 DEF DeleteRun
<1>4. ASSUME NEW n \in Slots, Sync(n) PROVE Inv'
  BY <1>4 DEF Sync
<1>5. CASE ClusterChanges
  BY <1>5 DEF ClusterChanges
<1>6. ASSUME NEW r \in Runs, Overdue(r) PROVE Inv'
  BY <1>6 DEF Overdue
<1>7. ASSUME NEW r \in Runs, Expire(r) PROVE Inv'
  BY <1>7 DEF Expire
<1> HIDE DEF Inv
<1> QED
  BY <1>1, <1>2, <1>3, <1>4, <1>5, <1>6, <1>7

LEMMA JobInv ==
  ASSUME Inv, 
         \E s \in Slots : PostFinding(s) \/ JobFinish(s) \/ JobTTL(s) \/ JobCollected(s)
  PROVE  Inv'
<1> USE SlotAssumption, SubsetAssumption, NoneAssumption, BoundAssumption
    DEF Inv, TypeOK, ActorsBound, CacheLags, WorkerLags, EndingPending,
        RowAgreesWithCR, RowBeforeJob, AgentCanReport, Fresh, Live,
        Phases, RowPhases, CRDPhases, Ended, Goals, PCs,
        processVars, worldVars, crVars, cacheVars, storeVars, jobVars,
        clockVars, workVars, delVars, histVars
<1>1. ASSUME NEW s \in Slots, PostFinding(s) PROVE Inv'
  BY <1>1 DEF PostFinding
<1>2. ASSUME NEW s \in Slots, JobFinish(s) PROVE Inv'
  BY <1>2 DEF JobFinish
<1>3. ASSUME NEW s \in Slots, JobTTL(s) PROVE Inv'
  BY <1>3 DEF JobTTL
<1>4. ASSUME NEW s \in Slots, JobCollected(s) PROVE Inv'
  BY <1>4 DEF JobCollected
<1> HIDE DEF Inv
<1> QED
  BY <1>1, <1>2, <1>3, <1>4

LEMMA WorkerInv ==
  ASSUME Inv, WorkerStep
  PROVE  Inv'
<1> USE SlotAssumption, SubsetAssumption, NoneAssumption, BoundAssumption
    DEF Inv, TypeOK, ActorsBound, CacheLags, WorkerLags, EndingPending,
        RowAgreesWithCR, RowBeforeJob, AgentCanReport, Fresh, Live,
        Phases, RowPhases, CRDPhases, Ended, Goals, PCs,
        processVars, worldVars, crVars, cacheVars, storeVars, jobVars,
        clockVars, workVars, delVars, histVars
<1>1. CASE GetNothingToDo
  BY <1>1 DEF GetNothingToDo, Return
<1>2. ASSUME NEW r \in Runs, GetPending(r) PROVE Inv'
  BY <1>2 DEF GetPending
<1>3. ASSUME NEW r \in Runs, GetRunning(r) PROVE Inv'
  BY <1>3 DEF GetRunning
<1>4. CASE InsertRow
  BY <1>4, InsertRowInv
<1>5. CASE CreateJob
  BY <1>5 DEF CreateJob, Finish, GoTo
<1>6. CASE StartRun
  BY <1>6, StartRunInv
<1>7. CASE RowRunning
  BY <1>7 DEF RowRunning, Return, Fault, NoFault
<1>8. CASE CheckJob
  BY <1>8 DEF CheckJob, StillRunning, TimedOut, Finish, Return, GoTo
<1>9. CASE UpdateMessage
  BY <1>9, UpdateMessageInv
<1>10. CASE RowMessage
  BY <1>10 DEF RowMessage, Return, Fault, NoFault
<1>11. CASE ListFindings
  BY <1>11 DEF ListFindings, Fault, NoFault
<1>12. CASE FinishRun
  BY <1>12, FinishRunInv
<1>13. CASE RowFinish
  BY <1>13 DEF RowFinish, GoTo, Fault, NoFault
<1>14. CASE CollectLogs
  BY <1>14, CollectLogsInv
<1>15. CASE Notify
  BY <1>15 DEF Notify, Return
<1> HIDE DEF Inv
<1> QED
  BY <1>1, <1>2, <1>3, <1>4, <1>5, <1>6, <1>7, <1>8, <1>9, <1>10, <1>11, <1>12, <1>13, <1>14, <1>15 DEF WorkerStep

LEMMA RequestInv ==
  ASSUME Inv, 
         \/ \E n \in Slots : Pop(n)
         \/ \E r \in Runs : BatchDelete(r)
         \/ BatchDeleteCR
  PROVE  Inv'
<1> USE SlotAssumption, SubsetAssumption, NoneAssumption, BoundAssumption
    DEF Inv, TypeOK, ActorsBound, CacheLags, WorkerLags, EndingPending,
        RowAgreesWithCR, RowBeforeJob, AgentCanReport, Fresh, Live,
        Phases, RowPhases, CRDPhases, Ended, Goals, PCs,
        processVars, worldVars, crVars, cacheVars, storeVars, jobVars,
        clockVars, workVars, delVars, histVars
<1>1. ASSUME NEW n \in Slots, Pop(n) PROVE Inv'
  BY <1>1 DEF Pop
<1>2. ASSUME NEW r \in Runs, BatchDelete(r) PROVE Inv'
  BY <1>2 DEF BatchDelete, Fault, NoFault
<1>3. CASE BatchDeleteCR
  BY <1>3 DEF BatchDeleteCR, Fault, NoFault
<1> HIDE DEF Inv
<1> QED
  BY <1>1, <1>2, <1>3

LEMMA StepInv == Inv /\ [Next]_vars => Inv'
<1> SUFFICES ASSUME Inv, [Next]_vars PROVE Inv'
  OBVIOUS
<1>1. CASE Next
  BY <1>1, EnvironmentInv, JobInv, WorkerInv, RequestInv, BatchDeleteRowsInv, CrashInv
  DEF Next
<1>2. CASE UNCHANGED vars
  <2> USE <1>2 DEF vars, crVars, cacheVars, storeVars, jobVars, clockVars, workVars, delVars, histVars
  <2>1. TypeOK'
    BY DEF Inv, TypeOK
  <2>2. ActorsBound' /\ CacheLags' /\ WorkerLags' /\ EndingPending'
    BY DEF Inv, ActorsBound, CacheLags, WorkerLags, EndingPending, Fresh, Live
  <2>3. RowAgreesWithCR' /\ RowBeforeJob' /\ AgentCanReport'
    BY DEF Inv, RowAgreesWithCR, RowBeforeJob, AgentCanReport
  <2> QED
    BY <2>1, <2>2, <2>3 DEF Inv
<1> QED
  BY <1>1, <1>2

\* Inv holds in every reachable state.
THEOREM Invariance == Spec => []Inv
  BY InitInv, StepInv, PTL DEF Spec

(***************************************************************************)
(* What follows from it.                                                   *)
(***************************************************************************)

\* Every variable keeps its type; in particular no status the CRD's enum
\* does not have reaches a CR, and no row gets a goal that was never set.
THEOREM TypeCorrect == Spec => []TypeOK
<1>1. Inv => TypeOK
  BY DEF Inv
<1> QED
  BY <1>1, Invariance, PTL

\* The store never claims an ending the CR does not have, for any number of
\* runs, name collisions between them, crashes, conflicts and failed calls.
THEOREM StoreFollowsCR == Spec => []RowAgreesWithCR
<1>1. Inv => RowAgreesWithCR
  BY DEF Inv
<1> QED
  BY <1>1, Invariance, PTL

\* One run starts one Job: CreateRun's plain INSERT is the guard.
THEOREM OneJob == Spec => []NoSecondJob
<1>1. Inv => NoSecondJob
  BY DEF Inv, TypeOK, RowBeforeJob, NoSecondJob
<1> QED
  BY <1>1, Invariance, PTL

\* No Job is started for a local run that has ended, whatever the cache says.
THEOREM EndedStaysEnded == Spec => EndedStartsNoJob
<1>1. ASSUME Inv, [Next]_vars,
             NEW r \in Runs \ (RemoteRuns \cup erased), phase[r] \in Ended
      PROVE  created'[r] = created[r]
  <2>1. CASE CreateJob
    \* The worker is at a run that is Pending or gone: RowBeforeJob.
    <3>1. pc = "create" /\ cur # r
      BY <1>1, <2>1 DEF CreateJob, Inv, RowBeforeJob, Ended
    <3> QED
      BY <1>1, <2>1, <3>1 DEF CreateJob, Inv, TypeOK
  <2>2. CASE UNCHANGED created
    BY <2>2
  <2>3. ASSUME NEW q \in Runs,
               CreateRun(q) \/ EditRun(q) \/ DeleteRun(q) \/ BatchDelete(q) \/ Overdue(q)
               \/ Expire(q) \/ GetPending(q) \/ GetRunning(q)
        PROVE  UNCHANGED created
    BY <2>3 DEF CreateRun, EditRun, DeleteRun, BatchDelete, Overdue, Expire, GetPending, GetRunning,
                processVars, histVars
  <2>4. ASSUME NEW s \in Slots,
               Sync(s) \/ Pop(s) \/ PostFinding(s) \/ JobFinish(s) \/ JobTTL(s) \/ JobCollected(s)
        PROVE  UNCHANGED created
    BY <2>4 DEF Sync, Pop, PostFinding, JobFinish, JobTTL, JobCollected, processVars, histVars
  <2>5. ASSUME GetNothingToDo \/ InsertRow \/ StartRun \/ RowRunning \/ CheckJob \/ UpdateMessage
               \/ RowMessage \/ ListFindings \/ FinishRun \/ RowFinish \/ CollectLogs \/ Notify
        PROVE  UNCHANGED created
    BY <2>5 DEF GetNothingToDo, InsertRow, StartRun, RowRunning, CheckJob, UpdateMessage,
                RowMessage, ListFindings, FinishRun, RowFinish, CollectLogs, Notify
  <2>6. ASSUME ClusterChanges \/ BatchDeleteCR \/ BatchDeleteRows \/ Crash \/ UNCHANGED vars
        PROVE  UNCHANGED created
    BY <2>6 DEF ClusterChanges, BatchDeleteCR, BatchDeleteRows, Crash, vars, histVars
  <2> QED
    BY <1>1, <2>1, <2>2, <2>3, <2>4, <2>5, <2>6 DEF Next, WorkerStep
<1>2. Inv /\ [Next]_vars =>
        [\A r \in Runs \ (RemoteRuns \cup erased) : phase[r] \in Ended => created'[r] = created[r]]_vars
  BY <1>1
<1> QED
  BY <1>2, Invariance, PTL DEF Spec, EndedStartsNoJob

\* The row a running agent posts its findings to is there.
THEOREM AgentsCanReport == Spec => []AgentCanReport
<1>1. Inv => AgentCanReport
  BY DEF Inv
<1> QED
  BY <1>1, Invariance, PTL

(***************************************************************************)
(* The steps of DiagnosticRun are steps of RunContract, or stutter.        *)
(***************************************************************************)

LEMMA StepRefines == Inv /\ [Next]_vars => [Contract!Next]_Contract!cvars
<1> SUFFICES ASSUME Inv, [Next]_vars PROVE [Contract!Next]_Contract!cvars
  OBVIOUS
<1> USE DEF Contract!cvars
<1>1. ASSUME NEW r \in Runs, CreateRun(r) PROVE Contract!Submit(r)
  BY <1>1 DEF CreateRun, processVars, histVars, Contract!Submit
<1>2. ASSUME NEW r \in Runs, DeleteRun(r) PROVE Contract!Remove(r)
  BY <1>2 DEF DeleteRun, Live, CRDPhases, processVars, histVars, Contract!Remove
<1>3. CASE BatchDeleteCR
  <2>1. CASE phase' = phase
    BY <1>3, <2>1 DEF BatchDeleteCR, histVars
  <2>2. CASE phase' # phase
    <3>1. PICK r \in Runs : Live(r) /\ phase' = [phase EXCEPT ![r] = "Gone"]
      BY <1>3, <2>2 DEF BatchDeleteCR
    <3>2. UNCHANGED <<reported, notified>>
      BY <1>3 DEF BatchDeleteCR, histVars
    <3>3. Contract!Remove(r)
      BY <3>1, <3>2 DEF Live, CRDPhases, Contract!Remove
    <3> QED
      BY <3>3 DEF Contract!Next
  <2> QED
    BY <2>1, <2>2
<1>4. CASE StartRun
  <2>1. CASE Fresh /\ phase' = [phase EXCEPT ![cur] = "Running"]
    <3>1. cur \in Runs /\ phase[cur] = "Pending"
      BY <1>4, <2>1 DEF StartRun, Inv, ActorsBound, WorkerLags
    <3>2. Contract!Start(cur)
      BY <1>4, <2>1, <3>1 DEF StartRun, Contract!Start
    <3> QED
      BY <3>1, <3>2 DEF Contract!Next
  <2>2. CASE UNCHANGED phase
    BY <1>4, <2>2 DEF StartRun
  <2> QED
    BY <1>4, <2>1, <2>2 DEF StartRun
<1>5. CASE FinishRun
  \* The phase reported is the worker's goal, the findings those it counted.
  <2>1. CASE Fresh /\ InEnum(goal) /\ phase' = [phase EXCEPT ![cur] = goal]
                 /\ reported' = [reported EXCEPT ![cur] = counted]
    <3>1. cur \in Runs /\ phase[cur] \in {"Pending", "Running"}
      BY <1>5, <2>1 DEF FinishRun, Inv, ActorsBound, WorkerLags
    <3>2. goal \in {"Succeeded", "Failed"} /\ counted \in 0..MaxFindings
      BY <2>1 DEF Inv, TypeOK, Goals, InEnum, CRDPhases
    <3>3. Contract!End(cur)
      BY <1>5, <2>1, <3>1, <3>2 DEF FinishRun, Contract!End
    <3> QED
      BY <3>1, <3>3 DEF Contract!Next
  <2>2. CASE UNCHANGED crVars
    BY <1>5, <2>2 DEF FinishRun, crVars
  <2> QED
    BY <1>5, <2>1, <2>2 DEF FinishRun
<1>6. CASE Notify
  \* Nobody was told before: EndingPending.
  <2>1. cur \in Runs /\ notified[cur] = 0 /\ phase[cur] \in {"Succeeded", "Failed", "Gone"}
    BY <1>6 DEF Notify, Inv, ActorsBound, EndingPending, Ended
  <2>2. Contract!Announce(cur)
    BY <1>6, <2>1 DEF Notify, Inv, TypeOK, crVars, Contract!Announce
  <2> QED
    BY <2>1, <2>2 DEF Contract!Next
<1>7. CASE UNCHANGED <<phase, reported, notified>>
  BY <1>7
<1>8. ASSUME NEW r \in Runs,
             EditRun(r) \/ Overdue(r) \/ Expire(r) \/ BatchDelete(r) \/ GetPending(r) \/ GetRunning(r)
      PROVE  UNCHANGED <<phase, reported, notified>>
  BY <1>8 DEF EditRun, Overdue, Expire, BatchDelete, GetPending, GetRunning, processVars, crVars, histVars
<1>9. ASSUME NEW s \in Slots,
             Sync(s) \/ Pop(s) \/ PostFinding(s) \/ JobFinish(s) \/ JobTTL(s) \/ JobCollected(s)
      PROVE  UNCHANGED <<phase, reported, notified>>
  BY <1>9 DEF Sync, Pop, PostFinding, JobFinish, JobTTL, JobCollected, processVars, crVars, histVars
<1>10. ASSUME GetNothingToDo \/ InsertRow \/ CreateJob \/ RowRunning \/ CheckJob
              \/ UpdateMessage \/ RowMessage \/ ListFindings \/ RowFinish \/ CollectLogs
       PROVE  UNCHANGED <<phase, reported, notified>>
  BY <1>10 DEF GetNothingToDo, InsertRow, CreateJob, RowRunning, CheckJob,
               UpdateMessage, RowMessage, ListFindings, RowFinish, CollectLogs, crVars
<1>11. ASSUME ClusterChanges \/ BatchDeleteRows \/ Crash \/ UNCHANGED vars
       PROVE  UNCHANGED <<phase, reported, notified>>
  BY <1>11 DEF ClusterChanges, BatchDeleteRows, Crash, vars, crVars, histVars
<1> QED
  BY <1>1, <1>2, <1>3, <1>4, <1>5, <1>6, <1>7, <1>8, <1>9, <1>10, <1>11
  DEF Next, WorkerStep, Contract!Next

\* Whatever the cache, crashes, conflicts, failed calls and deletions do, the
\* CR's phases, its report and the notifications follow RunContract.
THEOREM Refinement == Spec => ImplementsContract
<1>1. Init => Contract!Init
  BY DEF Init, Contract!Init
<1> QED
  BY <1>1, StepRefines, Invariance, PTL DEF Spec, ImplementsContract, Contract!Spec

(***************************************************************************)
(* The report of a Succeeded run, and the rows that have ended: the        *)
(* invariants behind ReportComplete and RowNotReopened.                    *)
(***************************************************************************)

\* A Job is created in its owner's slot and nowhere else.
LEMMA JobsInPlaceStep ==
  ASSUME Inv, JobsInPlace, Next
  PROVE  JobsInPlace'
<1> USE SlotAssumption, SubsetAssumption, NoneAssumption, BoundAssumption
    DEF Inv, TypeOK, ActorsBound, Fresh, Live, Phases, RowPhases, CRDPhases, Ended, Goals, PCs,
        Fault, NoFault, JobsInPlace,
        crVars, cacheVars, storeVars, jobVars, clockVars, workVars, delVars, histVars,
        processVars, worldVars
<1>1. ASSUME NEW r \in Runs, CreateRun(r) \/ DeleteRun(r) \/ EditRun(r) \/ BatchDelete(r) \/
             Overdue(r) \/ Expire(r) \/ GetPending(r) \/ GetRunning(r)
      PROVE  JobsInPlace'
  BY <1>1 DEF CreateRun, DeleteRun, EditRun, BatchDelete, Overdue, Expire, GetPending,
              GetRunning
<1>2. ASSUME NEW s \in Slots, Sync(s) \/ Pop(s) \/ PostFinding(s)
      PROVE  JobsInPlace'
  BY <1>2 DEF Sync, Pop, PostFinding
<1>3. ASSUME NEW s \in Slots, JobFinish(s) \/ JobTTL(s) \/ JobCollected(s)
      PROVE  JobsInPlace'
  BY <1>3 DEF JobFinish, JobTTL, JobCollected
<1>4. CASE ClusterChanges \/ BatchDeleteCR \/ BatchDeleteRows \/ Crash
  BY <1>4 DEF ClusterChanges, BatchDeleteCR, BatchDeleteRows, Crash
<1>5. CASE CreateJob
  BY <1>5 DEF CreateJob, Finish, GoTo
<1>6. CASE GetNothingToDo \/ InsertRow \/ StartRun \/ RowRunning \/ CheckJob \/ UpdateMessage \/
         RowMessage \/ ListFindings \/ FinishRun \/ RowFinish \/ CollectLogs \/ Notify
  BY <1>6 DEF GetNothingToDo, InsertRow, StartRun, RowRunning, CheckJob, UpdateMessage,
              RowMessage, ListFindings, FinishRun, RowFinish, CollectLogs, Notify, Return,
              KeyIsFree, GoTo, StillRunning, TimedOut, Finish, InEnum
<1> QED
  BY ONLY Next, <1>1, <1>2, <1>3, <1>4, <1>5, <1>6 DEF Next, WorkerStep

\* A row is there before its run is Running, and only a batch delete takes it.
LEMMA StartedHasRowStep ==
  ASSUME Inv, StartedHasRow, Next
  PROVE  StartedHasRow'
<1> USE SlotAssumption, SubsetAssumption, NoneAssumption, BoundAssumption
    DEF Inv, TypeOK, ActorsBound, Fresh, Live, Phases, RowPhases, CRDPhases, Ended, Goals, PCs,
        Fault, NoFault,
        StartedHasRow, WorkerLags,
        crVars, cacheVars, storeVars, jobVars, clockVars, workVars, delVars, histVars,
        processVars, worldVars
<1>1. ASSUME NEW r \in Runs, CreateRun(r) PROVE StartedHasRow'
  BY <1>1 DEF CreateRun
<1>2. ASSUME NEW r \in Runs, DeleteRun(r) PROVE StartedHasRow'
  BY <1>2 DEF DeleteRun
<1>3. ASSUME NEW r \in Runs, EditRun(r) \/ BatchDelete(r) \/ Overdue(r) \/ Expire(r)
      PROVE  StartedHasRow'
  BY <1>3 DEF EditRun, BatchDelete, Overdue, Expire
<1>4. ASSUME NEW s \in Slots, Sync(s) PROVE StartedHasRow'
  BY <1>4 DEF Sync
<1>5. ASSUME NEW s \in Slots, Pop(s) \/ PostFinding(s)
      PROVE  StartedHasRow'
  BY <1>5 DEF Pop, PostFinding
<1>6. ASSUME NEW s \in Slots, JobFinish(s) \/ JobTTL(s) \/ JobCollected(s)
      PROVE  StartedHasRow'
  BY <1>6 DEF JobFinish, JobTTL, JobCollected
<1>7. CASE ClusterChanges \/ BatchDeleteCR
  BY <1>7 DEF ClusterChanges, BatchDeleteCR
<1>8. CASE BatchDeleteRows
  BY <1>8 DEF BatchDeleteRows
<1>9. CASE Crash
  BY <1>9 DEF Crash
<1>10. ASSUME NEW r \in Runs, GetPending(r) PROVE StartedHasRow'
  BY <1>10 DEF GetPending
<1>11. ASSUME NEW r \in Runs, GetRunning(r) PROVE StartedHasRow'
  BY <1>11 DEF GetRunning
<1>12. CASE GetNothingToDo \/ RowRunning \/ RowMessage \/ CollectLogs \/ Notify
  BY <1>12 DEF GetNothingToDo, RowRunning, RowMessage, CollectLogs, Notify, Return, GoTo
<1>13. CASE InsertRow
  BY <1>13 DEF InsertRow, KeyIsFree, Return, GoTo
<1>14. CASE CreateJob
  BY <1>14 DEF CreateJob, Finish, GoTo, RowBeforeJob
<1>15. CASE StartRun
  BY <1>15 DEF StartRun, Return, GoTo
<1>16. CASE CheckJob
  BY <1>16 DEF CheckJob, StillRunning, TimedOut, Finish, Return, GoTo
<1>17. CASE UpdateMessage
  BY <1>17 DEF UpdateMessage, GoTo
<1>18. CASE ListFindings
  BY <1>18 DEF ListFindings
<1>19. CASE FinishRun
  BY <1>19 DEF FinishRun, InEnum, Return, GoTo
<1>20. CASE RowFinish
  BY <1>20 DEF RowFinish, GoTo
<1> QED
  BY ONLY Next, <1>1, <1>2, <1>3, <1>4, <1>5, <1>6, <1>7, <1>8, <1>9, <1>10, <1>11, <1>12,
     <1>13, <1>14, <1>15, <1>16, <1>17, <1>18, <1>19, <1>20 DEF Next, WorkerStep

\* When the worker goes to list a run's findings its agent has exited, and no
\* other Job of that run comes: its row blocks a second start.
LEMMA CountFinalStep ==
  ASSUME Inv, JobsInPlace, StartedHasRow, CountFinal, LooksAtItsOwn, Next
  PROVE  CountFinal'
<1> USE SlotAssumption, SubsetAssumption, NoneAssumption, BoundAssumption
    DEF Inv, TypeOK, ActorsBound, Fresh, Live, Phases, RowPhases, CRDPhases, Ended, Goals, PCs,
        Fault, NoFault,
        JobsInPlace, StartedHasRow, CountFinal, Quiet, LooksAtItsOwn,
        crVars, cacheVars, storeVars, jobVars, clockVars, workVars, delVars, histVars,
        processVars, worldVars
<1>1. ASSUME NEW r \in Runs, CreateRun(r) PROVE CountFinal'
  BY <1>1 DEF CreateRun
<1>2. ASSUME NEW r \in Runs, DeleteRun(r) PROVE CountFinal'
  BY <1>2 DEF DeleteRun
<1>3. ASSUME NEW r \in Runs, EditRun(r) \/ BatchDelete(r) \/ Overdue(r) \/ Expire(r)
      PROVE  CountFinal'
  BY <1>3 DEF EditRun, BatchDelete, Overdue, Expire
<1>4. ASSUME NEW s \in Slots, Sync(s) PROVE CountFinal'
  BY <1>4 DEF Sync
<1>5. ASSUME NEW s \in Slots, Pop(s) \/ PostFinding(s)
      PROVE  CountFinal'
  BY <1>5 DEF Pop, PostFinding
<1>6. ASSUME NEW s \in Slots, JobFinish(s) \/ JobTTL(s) \/ JobCollected(s)
      PROVE  CountFinal'
  BY <1>6 DEF JobFinish, JobTTL, JobCollected
<1>7. CASE ClusterChanges \/ BatchDeleteCR
  BY <1>7 DEF ClusterChanges, BatchDeleteCR
<1>8. CASE BatchDeleteRows
  BY <1>8 DEF BatchDeleteRows
<1>9. CASE Crash
  BY <1>9 DEF Crash
<1>10. ASSUME NEW r \in Runs, GetPending(r) PROVE CountFinal'
  BY <1>10 DEF GetPending
<1>11. ASSUME NEW r \in Runs, GetRunning(r) PROVE CountFinal'
  BY <1>11 DEF GetRunning
<1>12. CASE GetNothingToDo \/ RowRunning \/ RowMessage \/ CollectLogs \/ Notify
  BY <1>12 DEF GetNothingToDo, RowRunning, RowMessage, CollectLogs, Notify, Return, GoTo
<1>13. CASE InsertRow
  BY <1>13 DEF InsertRow, KeyIsFree, Return, GoTo
<1>14. CASE CreateJob
  BY <1>14 DEF CreateJob, Finish, GoTo
<1>15. CASE StartRun
  BY <1>15 DEF StartRun, Return, GoTo
<1>16. CASE CheckJob
  BY <1>16 DEF CheckJob, StillRunning, TimedOut, Finish, Return, GoTo
<1>17. CASE UpdateMessage
  BY <1>17 DEF UpdateMessage, GoTo
<1>18. CASE ListFindings
  BY <1>18 DEF ListFindings
<1>19. CASE FinishRun
  BY <1>19 DEF FinishRun, InEnum, Return, GoTo
<1>20. CASE RowFinish
  BY <1>20 DEF RowFinish, GoTo
<1> QED
  BY ONLY Next, <1>1, <1>2, <1>3, <1>4, <1>5, <1>6, <1>7, <1>8, <1>9, <1>10, <1>11, <1>12,
     <1>13, <1>14, <1>15, <1>16, <1>17, <1>18, <1>19, <1>20 DEF Next, WorkerStep

LEMMA ReportInvariance == ASSUME LooksAtItsOwn PROVE Spec => []ReportInv
<1>1. Init => ReportInv
  <2> SUFFICES ASSUME Init PROVE ReportInv
    OBVIOUS
  <2>1. JobsInPlace /\ StartedHasRow /\ CountFinal
    BY DEF Init, JobsInPlace, StartedHasRow, CountFinal
  <2> QED
    BY <2>1, InitInv DEF ReportInv
<1>2. ReportInv /\ [Next]_vars => ReportInv'
  <2> SUFFICES ASSUME ReportInv, [Next]_vars PROVE ReportInv'
    OBVIOUS
  <2>1. CASE Next
    BY <2>1, LooksAtItsOwn, StepInv, JobsInPlaceStep, StartedHasRowStep, CountFinalStep DEF ReportInv
  <2>2. CASE UNCHANGED vars
    <3>1. Inv'
      BY <2>2, StepInv DEF ReportInv
    <3>2. JobsInPlace' /\ StartedHasRow' /\ CountFinal'
      BY <2>2 DEF ReportInv, JobsInPlace, StartedHasRow, CountFinal, Quiet, vars, crVars, cacheVars,
                  storeVars, jobVars, workVars, histVars
    <3> QED
      BY <3>1, <3>2 DEF ReportInv
  <2> QED
    BY <2>1, <2>2
<1> QED
  BY <1>1, <1>2, PTL DEF Spec

\* The findings counted in a Succeeded CR are all its agent posted, for any
\* number of runs and whatever happens in between, as long as no run is taken
\* for finished because of a Job from another cluster.
THEOREM ReportsAreComplete == ASSUME LooksAtItsOwn PROVE Spec => []ReportComplete
<1>1. ReportInv => ReportComplete
  BY DEF ReportInv, CountFinal, ReportComplete
<1> QED
  BY <1>1, LooksAtItsOwn, ReportInvariance, PTL

\* The watch brings the phases of a name in the order they were written.
LEMMA CacheBehindStep ==
  ASSUME Inv, CacheBehind, Next
  PROVE  CacheBehind'
<1> USE SlotAssumption, SubsetAssumption, NoneAssumption, BoundAssumption
    DEF Inv, TypeOK, ActorsBound, Fresh, Live, Phases, RowPhases, CRDPhases, Ended, Goals, PCs,
        Fault, NoFault,
        CacheBehind, WorkerLags,
        crVars, cacheVars, storeVars, jobVars, clockVars, workVars, delVars, histVars,
        processVars, worldVars
<1>1. ASSUME NEW r \in Runs, CreateRun(r) PROVE CacheBehind'
  BY <1>1 DEF CreateRun
<1>2. ASSUME NEW r \in Runs, DeleteRun(r) PROVE CacheBehind'
  BY <1>2 DEF DeleteRun
<1>3. ASSUME NEW r \in Runs, EditRun(r) \/ BatchDelete(r) \/ Overdue(r) \/ Expire(r)
      PROVE  CacheBehind'
  BY <1>3 DEF EditRun, BatchDelete, Overdue, Expire
<1>4. ASSUME NEW s \in Slots, Sync(s) PROVE CacheBehind'
  BY <1>4 DEF Sync
<1>5. ASSUME NEW s \in Slots, Pop(s) \/ PostFinding(s)
      PROVE  CacheBehind'
  BY <1>5 DEF Pop, PostFinding
<1>6. ASSUME NEW s \in Slots, JobFinish(s) \/ JobTTL(s) \/ JobCollected(s)
      PROVE  CacheBehind'
  BY <1>6 DEF JobFinish, JobTTL, JobCollected
<1>7. CASE ClusterChanges \/ BatchDeleteCR
  BY <1>7 DEF ClusterChanges, BatchDeleteCR
<1>8. CASE BatchDeleteRows
  BY <1>8 DEF BatchDeleteRows
<1>9. CASE Crash
  BY <1>9 DEF Crash
<1>10. ASSUME NEW r \in Runs, GetPending(r) PROVE CacheBehind'
  BY <1>10 DEF GetPending
<1>11. ASSUME NEW r \in Runs, GetRunning(r) PROVE CacheBehind'
  BY <1>11 DEF GetRunning
<1>12. CASE GetNothingToDo \/ RowRunning \/ RowMessage \/ CollectLogs \/ Notify
  BY <1>12 DEF GetNothingToDo, RowRunning, RowMessage, CollectLogs, Notify, Return, GoTo
<1>13. CASE InsertRow
  BY <1>13 DEF InsertRow, KeyIsFree, Return, GoTo
<1>14. CASE CreateJob
  BY <1>14 DEF CreateJob, Finish, GoTo
<1>15. CASE StartRun
  BY <1>15 DEF StartRun, Return, GoTo
<1>16. CASE CheckJob
  BY <1>16 DEF CheckJob, StillRunning, TimedOut, Finish, Return, GoTo
<1>17. CASE UpdateMessage
  BY <1>17 DEF UpdateMessage, GoTo
<1>18. CASE ListFindings
  BY <1>18 DEF ListFindings
<1>19. CASE FinishRun
  BY <1>19 DEF FinishRun, InEnum, Return, GoTo
<1>20. CASE RowFinish
  BY <1>20 DEF RowFinish, GoTo
<1> QED
  BY ONLY Next, <1>1, <1>2, <1>3, <1>4, <1>5, <1>6, <1>7, <1>8, <1>9, <1>10, <1>11, <1>12,
     <1>13, <1>14, <1>15, <1>16, <1>17, <1>18, <1>19, <1>20 DEF Next, WorkerStep

\* Where a row has ended, the Running branch finds no Job that runs: a new one
\* comes only with a run of the same name, after the cache saw the old one go.
LEMMA EndedRowsStep ==
  ASSUME Inv, CacheBehind, EndedRows, LooksAtItsName, Next
  PROVE  EndedRows'
<1> USE SlotAssumption, SubsetAssumption, NoneAssumption, BoundAssumption
    DEF Inv, TypeOK, ActorsBound, Fresh, Live, Phases, RowPhases, CRDPhases, Ended, Goals, PCs,
        Fault, NoFault,
        CacheBehind, EndedRows, NotAtWork, LooksAtItsName, WorkerLags, RowAgreesWithCR,
        crVars, cacheVars, storeVars, jobVars, clockVars, workVars, delVars, histVars,
        processVars, worldVars
<1>1. ASSUME NEW r \in Runs, CreateRun(r) PROVE EndedRows'
  BY <1>1 DEF CreateRun
<1>2. ASSUME NEW r \in Runs, DeleteRun(r) PROVE EndedRows'
  BY <1>2 DEF DeleteRun
<1>3. ASSUME NEW r \in Runs, EditRun(r) \/ BatchDelete(r) \/ Overdue(r) \/ Expire(r)
      PROVE  EndedRows'
  BY <1>3 DEF EditRun, BatchDelete, Overdue, Expire
<1>4. ASSUME NEW s \in Slots, Sync(s) PROVE EndedRows'
  BY <1>4 DEF Sync
<1>5. ASSUME NEW s \in Slots, Pop(s) \/ PostFinding(s)
      PROVE  EndedRows'
  BY <1>5 DEF Pop, PostFinding
<1>6. ASSUME NEW s \in Slots, JobFinish(s) \/ JobTTL(s) \/ JobCollected(s)
      PROVE  EndedRows'
  BY <1>6 DEF JobFinish, JobTTL, JobCollected
<1>7. CASE ClusterChanges \/ BatchDeleteCR
  BY <1>7 DEF ClusterChanges, BatchDeleteCR
<1>8. CASE BatchDeleteRows
  BY <1>8 DEF BatchDeleteRows
<1>9. CASE Crash
  BY <1>9 DEF Crash
<1>10. ASSUME NEW r \in Runs, GetPending(r) PROVE EndedRows'
  BY <1>10 DEF GetPending, CacheLags
<1>11. ASSUME NEW r \in Runs, GetRunning(r) PROVE EndedRows'
  BY <1>11 DEF GetRunning
<1>12. CASE GetNothingToDo \/ RowRunning \/ RowMessage \/ CollectLogs \/ Notify
  BY <1>12 DEF GetNothingToDo, RowRunning, RowMessage, CollectLogs, Notify, Return, GoTo
<1>13. CASE InsertRow
  BY <1>13 DEF InsertRow, KeyIsFree, Return, GoTo
<1>14. CASE CreateJob
  BY <1>14 DEF CreateJob, Finish, GoTo
<1>15. CASE StartRun
  BY <1>15 DEF StartRun, Return, GoTo
<1>16. CASE CheckJob
  BY <1>16 DEF CheckJob, StillRunning, TimedOut, Finish, Return, GoTo
<1>17. CASE UpdateMessage
  BY <1>17 DEF UpdateMessage, GoTo
<1>18. CASE ListFindings
  BY <1>18 DEF ListFindings
<1>19. CASE FinishRun
  BY <1>19 DEF FinishRun, InEnum, Return, GoTo
<1>20. CASE RowFinish
  BY <1>20 DEF RowFinish, GoTo
<1> QED
  BY ONLY Next, <1>1, <1>2, <1>3, <1>4, <1>5, <1>6, <1>7, <1>8, <1>9, <1>10, <1>11, <1>12,
     <1>13, <1>14, <1>15, <1>16, <1>17, <1>18, <1>19, <1>20 DEF Next, WorkerStep

LEMMA RowInvariance == ASSUME LooksAtItsName PROVE Spec => []RowInv
<1>1. Init => RowInv
  <2> SUFFICES ASSUME Init PROVE RowInv
    OBVIOUS
  <2>1. CacheBehind /\ EndedRows
    BY DEF Init, CacheBehind, EndedRows, Live, CRDPhases, Ended
  <2> QED
    BY <2>1, InitInv DEF RowInv
<1>2. RowInv /\ [Next]_vars => RowInv'
  <2> SUFFICES ASSUME RowInv, [Next]_vars PROVE RowInv'
    OBVIOUS
  <2>1. CASE Next
    BY <2>1, LooksAtItsName, StepInv, CacheBehindStep, EndedRowsStep DEF RowInv
  <2>2. CASE UNCHANGED vars
    <3>1. Inv'
      BY <2>2, StepInv DEF RowInv
    <3>2. CacheBehind' /\ EndedRows'
      BY <2>2 DEF RowInv, CacheBehind, EndedRows, NotAtWork, Live, Fresh, vars, crVars, cacheVars,
                  storeVars, jobVars, clockVars, workVars
    <3> QED
      BY <3>1, <3>2 DEF RowInv
  <2> QED
    BY <2>1, <2>2
<1> QED
  BY <1>1, <1>2, PTL DEF Spec

\* A row that ended is never set back to Running, by whatever stale copy the
\* Running branch acts on and although its message update writes the store when
\* the CR refused: the Job it would have to see running is gone by then.
THEOREM RowsStayEnded == ASSUME LooksAtItsName PROVE Spec => RowNotReopened
<1>1. ASSUME RowInv, [Next]_vars, NEW r \in Runs, row[r] \in Ended
      PROVE  row'[r] \in {row[r], "Absent"}
  <2>1. CASE UNCHANGED row
    BY <2>1
  <2>2. CASE InsertRow \/ RowRunning \/ RowMessage \/ RowFinish \/ BatchDeleteRows
    BY <1>1, <2>2
    DEF RowInv, Inv, TypeOK, ActorsBound, EndedRows, Ended, InsertRow, KeyIsFree, RowRunning,
        RowMessage, RowFinish, BatchDeleteRows, storeVars
  <2>3. ASSUME NEW q \in Runs,
               CreateRun(q) \/ EditRun(q) \/ DeleteRun(q) \/ BatchDelete(q) \/ Overdue(q)
               \/ Expire(q) \/ GetPending(q) \/ GetRunning(q)
        PROVE  UNCHANGED row
    BY <2>3 DEF CreateRun, EditRun, DeleteRun, BatchDelete, Overdue, Expire, GetPending, GetRunning,
                storeVars
  <2>4. ASSUME NEW s \in Slots,
               Sync(s) \/ Pop(s) \/ PostFinding(s) \/ JobFinish(s) \/ JobTTL(s) \/ JobCollected(s)
        PROVE  UNCHANGED row
    BY <2>4 DEF Sync, Pop, PostFinding, JobFinish, JobTTL, JobCollected, storeVars
  <2>5. ASSUME GetNothingToDo \/ CreateJob \/ StartRun \/ CheckJob \/ UpdateMessage
               \/ ListFindings \/ FinishRun \/ CollectLogs \/ Notify
        PROVE  UNCHANGED row
    BY <2>5 DEF GetNothingToDo, CreateJob, StartRun, CheckJob, UpdateMessage,
                ListFindings, FinishRun, CollectLogs, Notify, storeVars
  <2>6. ASSUME ClusterChanges \/ BatchDeleteCR \/ Crash \/ UNCHANGED vars
        PROVE  UNCHANGED row
    BY <2>6 DEF ClusterChanges, BatchDeleteCR, Crash, vars, storeVars
  <2> QED
    BY <1>1, <2>1, <2>2, <2>3, <2>4, <2>5, <2>6 DEF Next, WorkerStep
<1>2. RowInv /\ [Next]_vars =>
        [\A r \in Runs : row[r] \in Ended => row'[r] \in {row[r], "Absent"}]_vars
  BY <1>1
<1> QED
  BY <1>2, LooksAtItsName, RowInvariance, PTL DEF Spec, RowNotReopened
=============================================================================
