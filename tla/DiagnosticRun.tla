---------------------------- MODULE DiagnosticRun ----------------------------
(***************************************************************************)
(* The life of a DiagnosticRun: the CR in the API server, the informer     *)
(* cache the reconciler reads, the single reconcile worker                 *)
(* (run_reconciler.go) one external call at a time, the SQLite rows it     *)
(* keeps beside the CR, the agent Job it starts, and the other actors that *)
(* touch the same state: users, the batch-delete endpoint, the Job         *)
(* controller and garbage collector, the agent posting findings, the       *)
(* ClusterConfig reconciler, and a controller that can die between calls.  *)
(*                                                                         *)
(* A run is a UID: deleting a CR and creating one of the same name gives a *)
(* second element of Runs with the same WatchSlot.  A Job slot is what     *)
(* identifies a Job: cluster, namespace and Job name.                      *)
(***************************************************************************)
EXTENDS Integers, FiniteSets

CONSTANTS
  Runs,          \* UIDs of the DiagnosticRun CRs that may ever be created
  Slots,         \* (cluster, namespace, name) of Jobs
  JobSlot,       \* where a run's Job is created (translator + target client)
  WatchSlot,     \* the local slot agent-<name> the Running branch looks at
  RemoteRuns,    \* runs whose spec.clusterRef names another cluster
  TimedRuns,     \* runs with spec.timeoutSeconds > 0
  TTLSlots,      \* Jobs that may be TTL-cleaned before the worker looks
  Doomed,        \* runs that users may delete, by kubectl or in a batch
  None,
  MaxFindings,   \* bound: findings per run
  MaxVersion,    \* bound: resourceVersion reached by edits and messages
  MaxCrashes,    \* bound: controller crashes
  MaxFaults      \* bound: failed store and API calls

ASSUME SlotAssumption ==
  /\ JobSlot \in [Runs -> Slots]
  /\ WatchSlot \in [Runs -> Slots]
ASSUME SubsetAssumption ==
  /\ RemoteRuns \subseteq Runs
  /\ TimedRuns \subseteq Runs
  /\ TTLSlots \subseteq Slots
  /\ Doomed \subseteq Runs
ASSUME NoneAssumption == None \notin Runs \cup Slots
ASSUME BoundAssumption ==
  /\ MaxFindings \in Nat
  /\ MaxVersion \in Nat
  /\ MaxCrashes \in Nat
  /\ MaxFaults \in Nat

VARIABLES
  phase, version, reported,        \* the CR: status.phase, resourceVersion, status.findings
  seenPhase, seenVersion,          \* the informer's copy of it
  queue,                           \* names waiting in the controller's workqueue
  row, findings, logs,             \* diagnostic_runs, findings and run_logs in SQLite
  jobPhase, jobOwner,              \* the Job in each slot and the UID that owns it
  overdue, expired,                \* runs past timeoutSeconds, past one hour, since StartedAt
  registered,                      \* the remote cluster has a client in the registry
  pc, req, cur, snap, goal, counted,  \* the reconcile worker
  delPc, delRun,                   \* the DELETE /api/runs/batch request in progress
  notified, created, erased,       \* history: notifications, Jobs created, rows batch-deleted
  crashes, faults

crVars    == <<phase, version, reported>>
cacheVars == <<seenPhase, seenVersion>>
storeVars == <<row, findings, logs>>
jobVars   == <<jobPhase, jobOwner>>
clockVars == <<overdue, expired>>
workVars  == <<pc, req, cur, snap, goal, counted>>
delVars   == <<delPc, delRun>>
histVars  == <<notified, created, erased>>
\* What lives in the controller process, and the histories; nothing outside it
\* changes these.  A reconcile changes none of worldVars.
processVars == <<cacheVars, queue, registered, workVars, delVars, histVars, crashes, faults>>
worldVars   == <<cacheVars, registered, delVars, erased, crashes>>
vars == <<crVars, cacheVars, queue, storeVars, jobVars, clockVars, registered,
          workVars, delVars, histVars, crashes, faults>>

CRDPhases == {"Pending", "Running", "Succeeded", "Failed"}  \* the CRD's enum
Ended     == {"Succeeded", "Failed"}
Phases    == CRDPhases \cup {"Absent", "Gone"}
RowPhases == CRDPhases \cup {"Absent", "Unknown"}
Goals     == {"none", "Succeeded", "Failed", "Unknown"}
PCs       == {"idle", "get", "insert", "create", "start", "rowRunning",
              "checkJob", "message", "rowMessage",
              "findings", "finish", "rowFinish", "logs", "notify"}

TypeOK ==
  /\ phase \in [Runs -> Phases]
  /\ version \in [Runs -> Nat]
  /\ reported \in [Runs -> 0..MaxFindings]
  /\ seenPhase \in [Runs -> Phases]
  /\ seenVersion \in [Runs -> Nat]
  /\ queue \subseteq Slots
  /\ row \in [Runs -> RowPhases]
  /\ findings \in [Runs -> 0..MaxFindings]
  /\ logs \in [Runs -> BOOLEAN]
  /\ jobPhase \in [Slots -> {"None", "Active", "Succeeded", "Failed"}]
  /\ jobOwner \in [Slots -> Runs \cup {None}]
  /\ overdue \subseteq Runs
  /\ expired \subseteq Runs
  /\ registered \in BOOLEAN
  /\ pc \in PCs
  /\ req \in Slots \cup {None}
  /\ cur \in Runs \cup {None}
  /\ snap \in Nat
  /\ goal \in Goals
  /\ counted \in 0..MaxFindings
  /\ delPc \in {"idle", "deleteCR", "deleteRows"}
  /\ delRun \in Runs \cup {None}
  /\ notified \in [Runs -> Nat]
  /\ created \in [Runs -> Nat]
  /\ erased \subseteq Runs
  /\ crashes \in 0..MaxCrashes
  /\ faults \in 0..MaxFaults

Init ==
  /\ phase = [r \in Runs |-> "Absent"]
  /\ version = [r \in Runs |-> 0]
  /\ reported = [r \in Runs |-> 0]
  /\ seenPhase = phase
  /\ seenVersion = version
  /\ queue = {}
  /\ row = [r \in Runs |-> "Absent"]
  /\ findings = [r \in Runs |-> 0]
  /\ logs = [r \in Runs |-> FALSE]
  /\ jobPhase = [s \in Slots |-> "None"]
  /\ jobOwner = [s \in Slots |-> None]
  /\ overdue = {}
  /\ expired = {}
  /\ registered = FALSE
  /\ pc = "idle"
  /\ req = None
  /\ cur = None
  /\ snap = 0
  /\ goal = "none"
  /\ counted = 0
  /\ delPc = "idle"
  /\ delRun = None
  /\ notified = [r \in Runs |-> 0]
  /\ created = [r \in Runs |-> 0]
  /\ erased = {}
  /\ crashes = 0
  /\ faults = 0

Live(r) == phase[r] \in CRDPhases

Fault   == faults < MaxFaults /\ faults' = faults + 1
NoFault == UNCHANGED faults


(***************************************************************************)
(* Users and the API server.                                               *)
(***************************************************************************)

\* POST /api/runs or kubectl apply: the API server accepts a name once.
CreateRun(r) ==
  /\ phase[r] = "Absent"
  /\ \A q \in Runs : WatchSlot[q] = WatchSlot[r] => ~Live(q)
  /\ phase' = [phase EXCEPT ![r] = "Pending"]
  /\ version' = [version EXCEPT ![r] = 1]
  /\ UNCHANGED <<processVars, storeVars, jobVars, clockVars, reported>>

\* A label, annotation or spec edit: a new resourceVersion, the same status.
EditRun(r) ==
  /\ Live(r)
  /\ version[r] < MaxVersion
  /\ version' = [version EXCEPT ![r] = @ + 1]
  /\ UNCHANGED <<processVars, storeVars, jobVars, clockVars, phase, reported>>

\* kubectl delete.  Nothing in the controller removes the row.
DeleteRun(r) ==
  /\ r \in Doomed /\ Live(r)
  /\ phase' = [phase EXCEPT ![r] = "Gone"]
  /\ UNCHANGED <<processVars, storeVars, jobVars, clockVars, version, reported>>

\* The watch brings the name's latest object, or its deletion, to the cache
\* and puts the name in the workqueue.
Sync(n) ==
  LET named == {r \in Runs : WatchSlot[r] = n}
  IN  /\ \E r \in named : <<seenPhase[r], seenVersion[r]>> # <<phase[r], version[r]>>
      /\ seenPhase' = [r \in Runs |-> IF r \in named THEN phase[r] ELSE seenPhase[r]]
      /\ seenVersion' = [r \in Runs |-> IF r \in named THEN version[r] ELSE seenVersion[r]]
      /\ queue' = queue \cup {n}
      /\ UNCHANGED <<crVars, storeVars, jobVars, clockVars, workVars, delVars, histVars, registered, crashes, faults>>

\* ClusterConfigReconciler: Registry.Set after a good kubeconfig,
\* Registry.Delete when the ClusterConfig is gone.
ClusterChanges ==
  /\ RemoteRuns # {}
  /\ registered' = ~registered
  /\ UNCHANGED <<crVars, cacheVars, storeVars, jobVars, clockVars, workVars, delVars, histVars, queue, crashes, faults>>

\* Time since StartedAt passes timeoutSeconds, or one hour.
Overdue(r) ==
  /\ phase[r] = "Running" /\ r \in TimedRuns \ overdue
  /\ overdue' = overdue \cup {r}
  /\ UNCHANGED <<processVars, crVars, storeVars, jobVars, expired>>

Expire(r) ==
  /\ phase[r] = "Running" /\ r \notin expired
  /\ expired' = expired \cup {r}
  /\ UNCHANGED <<processVars, crVars, storeVars, jobVars, overdue>>

(***************************************************************************)
(* The Job: the agent posts findings, exits, and the Job is cleaned up an  *)
(* hour later or collected with its owner.                                 *)
(***************************************************************************)

\* POST /internal/runs/{id}/findings; the foreign key refuses an unknown run.
PostFinding(s) ==
  /\ jobPhase[s] = "Active"
  /\ row[jobOwner[s]] # "Absent"
  /\ findings[jobOwner[s]] < MaxFindings
  /\ findings' = [findings EXCEPT ![jobOwner[s]] = @ + 1]
  /\ UNCHANGED <<processVars, crVars, jobVars, clockVars, row, logs>>

JobFinish(s) ==
  /\ jobPhase[s] = "Active"
  /\ \E p \in Ended : jobPhase' = [jobPhase EXCEPT ![s] = p]
  /\ UNCHANGED <<processVars, crVars, storeVars, clockVars, jobOwner>>

JobTTL(s) ==
  /\ s \in TTLSlots /\ jobPhase[s] \in Ended
  /\ jobPhase' = [jobPhase EXCEPT ![s] = "None"]
  /\ jobOwner' = [jobOwner EXCEPT ![s] = None]
  /\ expired' = IF phase[jobOwner[s]] = "Running" THEN expired \cup {jobOwner[s]} ELSE expired
  /\ UNCHANGED <<processVars, crVars, storeVars, overdue>>

\* The garbage collector follows the ownerReference; on another cluster the
\* owner's kind is not served and the Job stays.
JobCollected(s) ==
  /\ jobPhase[s] # "None"
  /\ jobOwner[s] \notin RemoteRuns /\ phase[jobOwner[s]] = "Gone"
  /\ jobPhase' = [jobPhase EXCEPT ![s] = "None"]
  /\ jobOwner' = [jobOwner EXCEPT ![s] = None]
  /\ UNCHANGED <<processVars, crVars, storeVars, clockVars>>

(***************************************************************************)
(* The reconcile worker.  A step is one call that leaves the process, with *)
(* the code up to the next one.                                            *)
(***************************************************************************)

GoTo(label) == pc' = label /\ UNCHANGED <<req, cur, snap, goal, counted>>

\* Reconcile returns: the request leaves the worker, and is back in the
\* queue when it returned an error, Requeue or RequeueAfter.
ReturnUnqueued(again) ==   \* mutant: a failed reconcile is not retried
  /\ pc' = "idle" /\ req' = None /\ cur' = None
  /\ snap' = 0 /\ goal' = "none" /\ counted' = 0
  /\ UNCHANGED queue

Return(again) ==
  /\ pc' = "idle" /\ req' = None /\ cur' = None
  /\ snap' = 0 /\ goal' = "none" /\ counted' = 0
  /\ queue' = IF again THEN queue \cup {req} ELSE queue

\* completeRun, failRun and unknownRun begin with Store.ListFindings.
Finish(p) ==
  /\ pc' = "findings" /\ goal' = p
  /\ UNCHANGED <<req, cur, snap, counted, queue>>

\* Status().Update is refused when the object was written or deleted since
\* it was read, and when the API server is unavailable.
FreshEnough == Live(cur)   \* mutant: a patch, with no resourceVersion
Fresh == Live(cur) /\ version[cur] = snap

\* The API server admits only the phases of the CRD's enum.
AnyPhase(p) == TRUE   \* mutant: a schema without the enum
InEnum(p) == p \in CRDPhases

Pop(n) ==
  /\ pc = "idle" /\ n \in queue
  /\ pc' = "get" /\ req' = n /\ queue' = queue \ {n}
  /\ UNCHANGED <<worldVars, crVars, storeVars, jobVars, clockVars, cur, snap, goal, counted, notified, created, faults>>

\* r.Get from the cache and the branch on status.phase.
GetNothingToDo ==
  /\ pc = "get"
  /\ \A r \in Runs : WatchSlot[r] = req => seenPhase[r] \notin {"Pending", "Running"}
  /\ Return(FALSE)
  /\ UNCHANGED <<worldVars, crVars, storeVars, jobVars, clockVars, notified, created, faults>>

GetPending(r) ==
  /\ pc = "get" /\ WatchSlot[r] = req /\ seenPhase[r] = "Pending"
  /\ cur' = r /\ snap' = seenVersion[r]
  /\ IF r \in RemoteRuns /\ ~registered
       THEN pc' = "findings" /\ goal' = "Failed"
       ELSE pc' = "insert" /\ UNCHANGED goal
  /\ UNCHANGED <<worldVars, crVars, storeVars, jobVars, clockVars, queue, req, counted, notified, created, faults>>

GetRunning(r) ==
  /\ pc = "get" /\ WatchSlot[r] = req /\ seenPhase[r] = "Running"
  /\ cur' = r /\ snap' = seenVersion[r] /\ pc' = "checkJob"
  /\ UNCHANGED <<worldVars, crVars, storeVars, jobVars, clockVars, queue, req, goal, counted, notified, created, faults>>

\* Store.CreateRun is a plain INSERT keyed by the UID.
Upsert == TRUE   \* mutant: INSERT OR REPLACE
KeyIsFree == row[cur] = "Absent"

\* mutant: the error of CreateRun dropped, like those of UpdateRunStatus
InsertRowUnchecked ==
  /\ pc = "insert"
  /\ \/ KeyIsFree /\ row' = [row EXCEPT ![cur] = "Pending"] /\ NoFault
     \/ Fault /\ UNCHANGED row
  /\ GoTo("create") /\ UNCHANGED queue
  /\ UNCHANGED <<worldVars, crVars, jobVars, clockVars, findings, logs, notified, created>>

InsertRow ==
  /\ pc = "insert"
  /\ \/ /\ KeyIsFree
        /\ row' = [row EXCEPT ![cur] = "Pending"]
        /\ GoTo("create") /\ NoFault /\ UNCHANGED queue
     \/ /\ ~KeyIsFree /\ NoFault
        /\ Return(TRUE) /\ UNCHANGED row
     \/ /\ Fault
        /\ Return(TRUE) /\ UNCHANGED row
  /\ UNCHANGED <<worldVars, crVars, jobVars, clockVars, findings, logs, notified, created>>

\* Translator.Compile and the creation of its objects, the Job last.  A Job
\* already in the slot counts as created; one whose creation was not answered
\* counts as not created.
CreateJob ==
  /\ pc = "create"
  /\ LET s == JobSlot[cur]
     IN  \/ /\ Finish("Failed")
            /\ UNCHANGED <<jobVars, created>>
         \/ /\ jobPhase[s] = "None"
            /\ jobPhase' = [jobPhase EXCEPT ![s] = "Active"]
            /\ jobOwner' = [jobOwner EXCEPT ![s] = cur]
            /\ created' = [created EXCEPT ![cur] = @ + 1]
            /\ (GoTo("start") /\ UNCHANGED queue) \/ Finish("Failed")
         \/ /\ jobPhase[s] # "None"
            /\ GoTo("start") /\ UNCHANGED <<queue, jobVars, created>>
  /\ UNCHANGED <<worldVars, crVars, storeVars, clockVars, notified, faults>>

\* Status().Update: Running, with StartedAt = now.
StartRun ==
  /\ pc = "start"
  /\ \/ /\ Fresh /\ NoFault
        /\ phase' = [phase EXCEPT ![cur] = "Running"]
        /\ version' = [version EXCEPT ![cur] = @ + 1]
        /\ overdue' = overdue \ {cur}
        /\ expired' = expired \ {cur}
        /\ GoTo("rowRunning") /\ UNCHANGED queue
     \/ /\ IF Fresh THEN Fault ELSE NoFault
        /\ Return(TRUE) /\ UNCHANGED <<phase, version, clockVars>>
  /\ UNCHANGED <<worldVars, storeVars, jobVars, reported, notified, created>>

\* UpdateRunStatus(Running); an error only asks for a requeue.
RowRunning ==
  /\ pc = "rowRunning"
  /\ \/ /\ row[cur] # "Absent" /\ NoFault
        /\ row' = [row EXCEPT ![cur] = "Running"]
     \/ /\ IF row[cur] # "Absent" THEN Fault ELSE NoFault
        /\ UNCHANGED row
  /\ Return(TRUE)
  /\ UNCHANGED <<worldVars, crVars, jobVars, clockVars, findings, logs, notified, created>>

\* timeoutSeconds has passed since StartedAt.
NeverTimedOut == FALSE   \* mutant: no timeout
TimedOut == cur \in overdue

\* A Job still running, whose pods may have a new waiting reason to report.
RunningEvenIfTimedOut(job) == job = "Active"   \* mutant: the timeout looked at last
StillRunning(job) == job = "Active" /\ ~TimedOut

\* The Running branch: missing Job, timeout, finished Job, running Job.
CheckJob ==
  /\ pc = "checkJob"
  /\ LET job == jobPhase[WatchSlot[cur]]
     IN  \/ job = "None" /\ cur \notin expired /\ Return(TRUE)
         \/ job = "None" /\ cur \in expired /\ Finish("Unknown")
         \/ job # "None" /\ TimedOut /\ Finish("Failed")
         \/ job \in Ended /\ ~TimedOut /\ Finish(job)
         \/ StillRunning(job) /\ Return(TRUE)
         \/ /\ StillRunning(job) /\ snap < MaxVersion
            /\ GoTo("message") /\ UNCHANGED queue
  /\ UNCHANGED <<worldVars, crVars, storeVars, jobVars, clockVars, notified, created, faults>>

\* Status().Update with the new message; a failure is only logged.
UpdateMessage ==
  /\ pc = "message"
  /\ \/ /\ Fresh /\ NoFault
        /\ version' = [version EXCEPT ![cur] = @ + 1]
     \/ /\ IF Fresh THEN Fault ELSE NoFault
        /\ UNCHANGED version
  /\ GoTo("rowMessage")
  /\ UNCHANGED <<worldVars, storeVars, jobVars, clockVars, phase, reported, queue, notified, created>>

\* UpdateRunStatus(Running, msg), whatever became of the CR's update.
RowMessage ==
  /\ pc = "rowMessage"
  /\ \/ /\ row[cur] # "Absent" /\ NoFault
        /\ row' = [row EXCEPT ![cur] = "Running"]
     \/ /\ IF row[cur] # "Absent" THEN Fault ELSE NoFault
        /\ UNCHANGED row
  /\ Return(TRUE)
  /\ UNCHANGED <<worldVars, crVars, jobVars, clockVars, findings, logs, notified, created>>

\* mutant: the findings that the status already has
FindingsInStatus ==
  /\ pc = "findings" /\ NoFault
  /\ counted' = reported[cur]
  /\ pc' = "finish" /\ UNCHANGED <<req, cur, snap, goal>>
  /\ UNCHANGED <<worldVars, crVars, storeVars, jobVars, clockVars, queue, notified, created>>

\* A failed ListFindings reports none.
ListFindings ==
  /\ pc = "findings"
  /\ \/ counted' = findings[cur] /\ NoFault
     \/ counted' = 0 /\ Fault
  /\ pc' = "finish" /\ UNCHANGED <<req, cur, snap, goal>>
  /\ UNCHANGED <<worldVars, crVars, storeVars, jobVars, clockVars, queue, notified, created>>

\* The terminal Status().Update, refused for Unknown.
FinishRun ==
  /\ pc = "finish"
  /\ LET admitted == Fresh /\ InEnum(goal)
     IN  \/ /\ admitted /\ NoFault
            /\ phase' = [phase EXCEPT ![cur] = goal]
            /\ version' = [version EXCEPT ![cur] = @ + 1]
            /\ reported' = [reported EXCEPT ![cur] = counted]
            /\ GoTo("rowFinish") /\ UNCHANGED queue
         \/ /\ IF admitted THEN Fault ELSE NoFault
            /\ Return(TRUE) /\ UNCHANGED crVars
  /\ UNCHANGED <<worldVars, storeVars, jobVars, clockVars, notified, created>>

\* The row's terminal status, its error dropped.
RowFinish ==
  /\ pc = "rowFinish"
  /\ \/ /\ row[cur] # "Absent" /\ NoFault
        /\ row' = [row EXCEPT ![cur] = goal]
     \/ /\ IF row[cur] # "Absent" THEN Fault ELSE NoFault
        /\ UNCHANGED row
  /\ GoTo("logs")
  /\ UNCHANGED <<worldVars, crVars, jobVars, clockVars, queue, findings, logs, notified, created>>

\* collectPodLogs: the pods of agent-<name> on the local cluster.
CollectLogs ==
  /\ pc = "logs"
  /\ LET stored == row[cur] # "Absent" /\ jobPhase[WatchSlot[cur]] # "None"
     IN  \/ /\ stored /\ NoFault
            /\ logs' = [logs EXCEPT ![cur] = TRUE]
         \/ /\ IF stored THEN Fault ELSE NoFault
            /\ UNCHANGED logs
  /\ GoTo("notify")
  /\ UNCHANGED <<worldVars, crVars, jobVars, clockVars, queue, row, findings, notified, created>>

Notify ==
  /\ pc = "notify"
  /\ notified' = [notified EXCEPT ![cur] = @ + 1]
  /\ Return(FALSE)
  /\ UNCHANGED <<worldVars, crVars, storeVars, jobVars, clockVars, created, faults>>

(***************************************************************************)
(* DELETE /api/runs/batch for one id: list the cache, delete the CR when   *)
(* it is there, then delete the rows in one transaction.                   *)
(***************************************************************************)

BatchDelete(r) ==
  /\ delPc = "idle" /\ r \in Doomed \ erased
  /\ row[r] # "Absent" \/ seenPhase[r] \in CRDPhases   \* the API lists it
  /\ delRun' = r
  /\ \/ seenPhase[r] \in CRDPhases /\ delPc' = "deleteCR" /\ NoFault
     \/ seenPhase[r] \notin CRDPhases /\ delPc' = "deleteRows" /\ NoFault
     \/ delPc' = "deleteRows" /\ Fault   \* the List error is ignored
  /\ UNCHANGED <<crVars, cacheVars, storeVars, jobVars, clockVars, workVars, histVars, queue, registered, crashes>>

\* The delete goes by name, without a UID precondition: it takes the CR that
\* bears the name now.
BatchDeleteCR ==
  /\ delPc = "deleteCR"
  /\ \/ /\ NoFault
        /\ LET named == {r \in Runs : WatchSlot[r] = WatchSlot[delRun] /\ Live(r)}
           IN  \/ \E r \in named : phase' = [phase EXCEPT ![r] = "Gone"]
               \/ named = {} /\ UNCHANGED phase
        /\ delPc' = "deleteRows" /\ UNCHANGED delRun
     \/ /\ Fault
        /\ delPc' = "idle" /\ delRun' = None /\ UNCHANGED phase
  /\ UNCHANGED <<cacheVars, storeVars, jobVars, clockVars, workVars, histVars, version, reported, queue, registered, crashes>>

BatchDeleteRows ==
  /\ delPc = "deleteRows"
  /\ \/ /\ NoFault
        /\ row' = [row EXCEPT ![delRun] = "Absent"]
        /\ findings' = [findings EXCEPT ![delRun] = 0]
        /\ logs' = [logs EXCEPT ![delRun] = FALSE]
        /\ erased' = erased \cup {delRun}
     \/ Fault /\ UNCHANGED <<storeVars, erased>>
  /\ delPc' = "idle" /\ delRun' = None
  /\ UNCHANGED <<crVars, cacheVars, jobVars, clockVars, workVars, queue, registered, notified, created, crashes>>

(***************************************************************************)
(* The controller dies and restarts: the worker, the request and the       *)
(* registry are lost, the cache is listed afresh and every CR queued.      *)
(***************************************************************************)
Crash ==
  /\ crashes < MaxCrashes
  /\ crashes' = crashes + 1
  /\ seenPhase' = phase /\ seenVersion' = version
  /\ queue' = {WatchSlot[r] : r \in {q \in Runs : Live(q)}}
  /\ registered' = FALSE
  /\ pc' = "idle" /\ req' = None /\ cur' = None
  /\ snap' = 0 /\ goal' = "none" /\ counted' = 0
  /\ delPc' = "idle" /\ delRun' = None
  /\ UNCHANGED <<crVars, storeVars, jobVars, clockVars, histVars, faults>>

WorkerStep ==
  \/ GetNothingToDo
  \/ \E r \in Runs : GetPending(r) \/ GetRunning(r)
  \/ InsertRow \/ CreateJob \/ StartRun \/ RowRunning
  \/ CheckJob \/ UpdateMessage \/ RowMessage
  \/ ListFindings \/ FinishRun \/ RowFinish \/ CollectLogs \/ Notify

Next ==
  \/ \E r \in Runs : CreateRun(r) \/ EditRun(r) \/ DeleteRun(r) \/ BatchDelete(r)
                     \/ Overdue(r) \/ Expire(r)
  \/ \E n \in Slots : Sync(n) \/ Pop(n)
  \/ \E s \in Slots : PostFinding(s) \/ JobFinish(s) \/ JobTTL(s) \/ JobCollected(s)
  \/ ClusterChanges
  \/ WorkerStep
  \/ BatchDeleteCR \/ BatchDeleteRows
  \/ Crash

Spec == Init /\ [][Next]_vars

(***************************************************************************)
(* What scheduling gives: the manager drains the workqueue in order (SF,   *)
(* because the worker is busy in between), the watch delivers, a call      *)
(* returns.  The agent of an untimed run is trusted to exit; a timed run   *)
(* only needs the clock.                                                   *)
(***************************************************************************)
Fairness ==
  /\ WF_vars(WorkerStep)
  /\ \A n \in Slots : SF_vars(Pop(n)) /\ WF_vars(Sync(n))
  /\ \A r \in TimedRuns : WF_vars(Overdue(r))
  /\ \A r \in Runs \ TimedRuns : WF_vars(JobFinish(JobSlot[r]))
  /\ \A r \in Runs : WF_vars(Expire(r))

FairSpec == Spec /\ Fairness

(***************************************************************************)
(* Properties.                                                             *)
(***************************************************************************)

\* The lifecycle, seen from the CR and the notifications alone.
Contract == INSTANCE RunContract WITH Reports <- 0..MaxFindings

\* Whatever the cache, edits, crashes and failed calls do, a run moves only
\* Pending, Running, ended; an ending and its findings never change; and an
\* ending is announced at most once.
ImplementsContract == Contract!Spec

\* The store never claims an ending that the CR does not have: completeRun
\* writes the CR first, and its row only when that write was accepted.
RowAgreesWithCR ==
  \A r \in Runs : row[r] \in Ended \cup {"Unknown"} => phase[r] \in {row[r], "Gone"}

\* A row that ended is never set back to Running by the message update of
\* the Running branch, which writes the store even when the CR refused it.
RowNotReopened ==
  [][\A r \in Runs : row[r] \in Ended => row'[r] \in {row[r], "Absent"}]_vars

\* One run starts one Job, however often Pending is reconciled: the INSERT
\* of CreateRun is the only guard once the Job's slot may be free again.
NoSecondJob == \A r \in Runs : created[r] > 1 => r \in erased

\* An agent that is running can post: the row its findings refer to was
\* inserted before its Job, and only a batch delete removes it.
AgentCanReport ==
  \A s \in Slots : jobPhase[s] = "Active" => row[jobOwner[s]] # "Absent" \/ jobOwner[s] \in erased

\* The findings summarised in a Succeeded CR are all that its agent posted:
\* completeRun reads them after it saw the Job finished.  (A failed
\* ListFindings is reported as none.)
ReportComplete ==
  faults = 0 =>
    \A r \in Runs : phase[r] = "Succeeded" /\ r \notin erased => reported[r] = findings[r]

\* A run that has ended is left alone, stale as the cache may be: no Job is
\* started for it.  Not so for a run of another cluster, which can fail
\* before it has a row.
EndedStartsNoJob ==
  [][\A r \in Runs \ (RemoteRuns \cup erased) :
       phase[r] \in Ended => created'[r] = created[r]]_vars

\* The inductive invariants of the proofs in DiagnosticRunProofs.

\* Who the worker, the delete request and the Jobs are busy with.
ActorsBound ==
  /\ pc # "idle" => req \in Slots
  /\ pc \notin {"idle", "get"} => cur \in Runs
  /\ delPc # "idle" => delRun \in Runs
  /\ \A s \in Slots : jobPhase[s] # "None" => jobOwner[s] \in Runs

\* The cache lags: a copy with the CR's resourceVersion has its phase.
CacheLags ==
  \A r \in Runs :
    /\ phase[r] = "Absent" => version[r] = 0
    /\ seenVersion[r] <= version[r]
    /\ seenVersion[r] = version[r] /\ phase[r] # "Gone" => seenPhase[r] = phase[r]

\* The worker's copy was read from the cache: it lags too, and when it does
\* not the CR is in the phase its branch is for.
WorkerLags ==
  /\ pc \in {"insert", "create", "start", "checkJob", "message", "findings", "finish"} =>
       snap <= version[cur]
  /\ pc \in {"insert", "create", "start"} /\ Fresh => phase[cur] = "Pending"
  /\ pc \in {"checkJob", "message"} /\ Fresh => phase[cur] = "Running"
  /\ pc \in {"findings", "finish"} /\ Fresh => phase[cur] \in {"Pending", "Running"}

\* Past the terminal status update the CR is at the worker's goal, or gone,
\* and nobody was told yet.
EndingPending ==
  /\ pc \in {"rowFinish", "logs", "notify"} =>
       goal \in Ended /\ phase[cur] \in {goal, "Gone"} /\ notified[cur] = 0
  /\ \A r \in Runs : phase[r] \in {"Absent", "Pending", "Running"} => notified[r] = 0

\* The row is inserted before the first Job and outlives it; a local run
\* gets no further than Pending without one.
RowBeforeJob ==
  /\ \A r \in Runs \ erased : created[r] <= 1 /\ (created[r] = 1 => row[r] # "Absent")
  /\ pc = "create" /\ cur \notin erased => created[cur] = 0 /\ row[cur] # "Absent"
  /\ \A r \in Runs \ (RemoteRuns \cup erased) :
       /\ row[r] = "Absent" => phase[r] \in {"Absent", "Pending", "Gone"} /\ seenPhase[r] # "Running"
       /\ pc = "create" /\ cur = r => phase[r] \in {"Absent", "Pending", "Gone"}
       /\ pc \in {"start", "checkJob", "findings", "finish"} /\ cur = r => row[r] # "Absent"

Inv ==
  /\ TypeOK /\ ActorsBound /\ CacheLags /\ WorkerLags /\ EndingPending
  /\ RowAgreesWithCR /\ RowBeforeJob /\ AgentCanReport

\* What ReportComplete needs of the names: the Job in the slot that a run's
\* Running branch looks at is of a run whose Jobs are created there.  It is
\* not so when a local run gets the name of one that ran in another cluster,
\* or the other way round.
LooksAtItsOwn ==
  \A q, r \in Runs : JobSlot[q] = WatchSlot[r] => JobSlot[r] = WatchSlot[r]

JobsInPlace == \A s \in Slots : jobPhase[s] # "None" => JobSlot[jobOwner[s]] = s

\* A run that got past Pending has its row, which ends every second attempt
\* to start it at its INSERT.
StartedHasRow ==
  \A r \in Runs \ erased :
    /\ phase[r] \in {"Running", "Succeeded"} \/ seenPhase[r] = "Running" => row[r] # "Absent"
    /\ pc \in {"start", "checkJob", "message"} /\ cur = r => row[r] # "Absent"
    /\ pc \in {"findings", "finish"} /\ cur = r /\ goal = "Succeeded" => row[r] # "Absent"
    /\ pc = "create" /\ cur = r => phase[r] \notin {"Running", "Succeeded"}

\* From the moment the worker saw the Job succeed, the run's agent posts
\* nothing more.
Quiet(r) == ~(jobPhase[JobSlot[r]] = "Active" /\ jobOwner[JobSlot[r]] = r)

CountFinal ==
  /\ \A r \in Runs \ erased :
       phase[r] = "Succeeded" => Quiet(r) /\ (faults = 0 => reported[r] = findings[r])
  /\ pc \in {"findings", "finish"} /\ goal = "Succeeded" /\ cur \notin erased => Quiet(cur)
  /\ pc = "finish" /\ goal = "Succeeded" /\ cur \notin erased /\ faults = 0 => counted = findings[cur]

ReportInv == Inv /\ JobsInPlace /\ StartedHasRow /\ CountFinal

\* What RowNotReopened needs of the names: the Job in the slot that a run's
\* Running branch looks at is of a run of the same name.
LooksAtItsName ==
  \A q, r \in Runs : JobSlot[q] = WatchSlot[r] => WatchSlot[q] = WatchSlot[r]

\* The cache is behind the CR along the same lifecycle, and of two runs of
\* one name at most one lives, in the API server as in the cache.
CacheBehind ==
  /\ \A r \in Runs :
       /\ phase[r] = "Absent" => seenPhase[r] = "Absent"
       /\ phase[r] = "Pending" => seenPhase[r] \in {"Absent", "Pending"}
       /\ phase[r] = "Running" => seenPhase[r] \in {"Absent", "Pending", "Running"}
       /\ seenPhase[r] = "Gone" => phase[r] = "Gone"
       /\ row[r] # "Absent" => seenPhase[r] # "Absent"
  /\ \A q, r \in Runs :
       q # r /\ WatchSlot[q] = WatchSlot[r] =>
         /\ Live(q) => ~Live(r)
         /\ seenPhase[q] \in CRDPhases => seenPhase[r] \notin CRDPhases
  /\ pc \notin {"idle", "get"} => seenPhase[cur] # "Absent"
  /\ pc \in {"insert", "create"} =>
       \A r \in Runs \ {cur} :
         WatchSlot[r] = WatchSlot[cur] /\ row[r] # "Absent" => seenPhase[r] = "Gone"

\* Nothing makes the Running branch of r ask for a message update: the Job it
\* would look at is not running, r is past its timeout, or it is no longer
\* taken for Running.
NotAtWork(r) ==
  \/ r \in overdue
  \/ jobPhase[WatchSlot[r]] # "Active"
  \/ phase[r] \in {"Failed", "Gone"} /\ seenPhase[r] # "Running"

EndedRows ==
  /\ \A r \in Runs : row[r] \in Ended => NotAtWork(r)
  /\ pc \in {"create", "start"} => row[cur] \in {"Pending", "Absent"}
  /\ pc \in {"rowRunning", "message", "rowMessage", "rowFinish"} => row[cur] \notin Ended
  /\ pc = "checkJob" /\ row[cur] \in Ended => cur \in overdue \/ jobPhase[WatchSlot[cur]] # "Active"
  /\ pc \in {"findings", "finish"} /\ Fresh /\ goal \in Ended =>
       NotAtWork(cur) \/ (phase[cur] = "Pending" /\ goal = "Failed")
  /\ pc = "rowFinish" => NotAtWork(cur)

RowInv == Inv /\ CacheBehind /\ EndedRows

\* A run that reached Running ends, or is deleted, through crashes, failed
\* calls, conflicting edits and an agent that hangs past its timeout; unless
\* its Job is gone for good before the worker has seen how it ended.
RunningEnds ==
  \A r \in Runs : phase[r] = "Running" ~>
    (phase[r] \in Ended \cup {"Gone"} \/ [](jobPhase[WatchSlot[r]] = "None"))

\* A Pending run is started, ended or deleted, unless the row that an earlier
\* attempt inserted blocks every later one.
PendingLeftUnlessBlocked ==
  \A r \in Runs : phase[r] = "Pending" ~> (phase[r] # "Pending" \/ [](row[r] # "Absent"))
=============================================================================
