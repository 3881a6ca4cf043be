----------------------------- MODULE ScheduledRun -----------------------------
(***************************************************************************)
(* A DiagnosticRun with a schedule (scheduled_run_reconciler.go): the      *)
(* template CR, the children made from it, one per due time, the informer  *)
(* cache of both, the reconcile worker one external call at a time, and    *)
(* the history limit that deletes old children.                            *)
(*                                                                         *)
(* The schedule's due times are 1, 2, ...; a child is named after its due  *)
(* time, so it is that number.  Template and children are of one kind and  *)
(* reach the cache by one watch, in the order in which they were written.  *)
(***************************************************************************)
EXTENDS Integers, FiniteSets

CONSTANTS
  Horizon,     \* bound: the last due time
  Limit,       \* spec.historyLimit
  Doomed,      \* children that users may delete
  MaxVersion,  \* bound: resourceVersion up to which users edit the template
  MaxCrashes,  \* bound: controller crashes
  MaxFaults    \* bound: failed API calls

ASSUME HorizonAssumption == Horizon \in Nat \ {0}
ASSUME LimitAssumption == Limit \in Int
ASSUME DoomedAssumption == Doomed \subseteq 1..Horizon
ASSUME ScheduleBoundAssumption == MaxVersion \in Nat /\ MaxCrashes \in Nat /\ MaxFaults \in Nat

VARIABLES
  now,                            \* the last due time that has passed
  template, version, next, active,  \* the CR: is it there, resourceVersion, status
                                  \* .nextRunAt (0: unset) and .activeRuns
  alive,                          \* the children in the API server
  seenVersion, seenNext, seenActive, seenAlive,  \* the cache (version 0: no CR)
  queue, timers,                  \* workqueue; due times a delayed request waits for
  pc, ver, due, list, victims,    \* the worker: its copy of the CR, and of those
                                  \* children the ones it is going to delete
  first, stamp, created, lost,    \* history: the first nextRunAt, when a child was
                                  \* created, how often, and which were deleted early
  crashes, faults

crVars    == <<template, version, next, active>>
cacheVars == <<seenVersion, seenNext, seenActive, seenAlive>>
reqVars   == <<queue, timers>>
workVars  == <<pc, ver, due, list, victims>>
histVars  == <<first, stamp, created, lost>>
vars == <<now, crVars, alive, cacheVars, reqVars, workVars, histVars, crashes, faults>>

Due == 1..Horizon
PCs == {"idle", "init", "wait", "look", "create", "limit", "sweep", "update"}

TypeOK ==
  /\ now \in 0..Horizon
  /\ template \in {"Absent", "Present", "Gone"}
  /\ version \in Nat /\ next \in 0..(Horizon + 1) /\ active \subseteq Due
  /\ alive \subseteq Due
  /\ seenVersion \in Nat /\ seenNext \in 0..(Horizon + 1)
  /\ seenActive \subseteq Due /\ seenAlive \subseteq Due
  /\ queue \subseteq {"template"} /\ timers \subseteq 1..(Horizon + 1)
  /\ pc \in PCs
  /\ ver \in Nat /\ due \in 0..(Horizon + 1)
  /\ list \subseteq Due /\ victims \subseteq Due
  /\ first \in 0..(Horizon + 1)
  /\ stamp \in [Due -> 0..Horizon]
  /\ created \in [Due -> Nat]
  /\ lost \subseteq Due
  /\ crashes \in 0..MaxCrashes /\ faults \in 0..MaxFaults

Init ==
  /\ now = 0
  /\ template = "Absent" /\ version = 0 /\ next = 0 /\ active = {}
  /\ alive = {}
  /\ seenVersion = 0 /\ seenNext = 0 /\ seenActive = {} /\ seenAlive = {}
  /\ queue = {} /\ timers = {}
  /\ pc = "idle" /\ ver = 0 /\ due = 0 /\ list = {} /\ victims = {}
  /\ first = 0
  /\ stamp = [k \in Due |-> 0]
  /\ created = [k \in Due |-> 0]
  /\ lost = {}
  /\ crashes = 0 /\ faults = 0

Fault   == faults < MaxFaults /\ faults' = faults + 1
NoFault == UNCHANGED faults

\* A status update is refused when the template was written or deleted since.
Fresh == template = "Present" /\ version = ver

(***************************************************************************)
(* Time, users, and the cache.                                             *)
(***************************************************************************)

Tick ==
  /\ now < Horizon /\ now' = now + 1
  /\ UNCHANGED <<crVars, alive, cacheVars, reqVars, workVars, histVars, crashes, faults>>

CreateTemplate ==
  /\ template = "Absent" /\ template' = "Present" /\ version' = 1
  /\ UNCHANGED <<now, next, active, alive, cacheVars, reqVars, workVars, histVars, crashes, faults>>

EditTemplate ==
  /\ template = "Present" /\ version < MaxVersion
  /\ version' = version + 1
  /\ UNCHANGED <<now, template, next, active, alive, cacheVars, reqVars, workVars, histVars, crashes, faults>>

\* The children stay: their ownerReference names an API group that no
\* CRD has.
DeleteTemplate ==
  /\ template = "Present" /\ template' = "Gone"
  /\ UNCHANGED <<now, version, next, active, alive, cacheVars, reqVars, workVars, histVars, crashes, faults>>

DeleteChild(k) ==   \* bound: once, and not after a sweep took it early
  /\ k \in (alive \cap Doomed) \ lost
  /\ alive' = alive \ {k} /\ lost' = lost \cup {k}
  /\ UNCHANGED <<now, crVars, cacheVars, reqVars, workVars, first, stamp, created, crashes, faults>>

\* The cache as it is after the watch has caught up.
Refreshed ==
  /\ seenVersion' = IF template = "Present" THEN version ELSE 0
  /\ seenNext' = next /\ seenActive' = active /\ seenAlive' = alive

\* A change of a child alone wakes nobody: its owner's group is not watched.
Sync ==
  /\ Refreshed /\ UNCHANGED <<crVars, alive>>
  /\ cacheVars' # cacheVars
  /\ queue' = IF seenVersion' # seenVersion THEN {"template"} ELSE queue
  /\ UNCHANGED <<now, timers, workVars, histVars, crashes, faults>>

\* The informer's resync, every ten hours.
Resync ==
  /\ seenVersion > 0 /\ queue = {}
  /\ queue' = {"template"}
  /\ UNCHANGED <<now, crVars, alive, cacheVars, timers, workVars, histVars, crashes, faults>>

Alarm ==
  /\ \E t \in timers : t <= now /\ timers' = timers \ {t}
  /\ queue' = {"template"}
  /\ UNCHANGED <<now, crVars, alive, cacheVars, workVars, histVars, crashes, faults>>

(***************************************************************************)
(* The reconcile worker.                                                   *)
(***************************************************************************)

Forget == pc' = "idle" /\ ver' = 0 /\ due' = 0 /\ list' = {} /\ victims' = {}

Return(again) == Forget /\ queue' = IF again THEN {"template"} ELSE queue

\* RequeueAfter: time.Until(t), which asks for nothing when t has passed.
ReturnUntil(t) ==
  /\ Return(FALSE)
  /\ timers' = IF t > now THEN timers \cup {t} ELSE timers

\* r.Get, and the branches up to the first call.
Reconcile ==
  /\ pc = "idle" /\ queue # {} /\ queue' = {}
  /\ IF seenVersion = 0
       THEN UNCHANGED workVars
       ELSE /\ ver' = seenVersion /\ list' = seenActive /\ victims' = {}
            /\ due' = IF seenNext = 0 THEN now + 1 ELSE seenNext
            /\ pc' = IF seenNext = 0 THEN "init" ELSE IF now < seenNext THEN "wait" ELSE "look"
  /\ UNCHANGED <<now, crVars, alive, cacheVars, timers, histVars, crashes, faults>>

\* A new template is first due at the next due time; which is worked out
\* before the call and may have passed after it.
InitNext ==
  /\ pc = "init"
  /\ \/ /\ Fresh /\ NoFault
        /\ next' = due /\ first' = due /\ version' = version + 1
        /\ ReturnUntil(due)
     \/ /\ IF Fresh THEN Fault ELSE NoFault
        /\ Return(TRUE) /\ UNCHANGED <<next, first, version, timers>>
  /\ UNCHANGED <<now, template, active, alive, cacheVars, stamp, created, lost, crashes>>

\* Between the comparison with now and time.Until the clock may pass.
Wait ==
  /\ pc = "wait" /\ ReturnUntil(due)
  /\ UNCHANGED <<now, crVars, alive, cacheVars, histVars, crashes, faults>>

\* r.Get of the child.
Look ==
  /\ pc = "look"
  /\ pc' = IF due \in seenAlive THEN "limit" ELSE "create"
  /\ UNCHANGED <<now, crVars, alive, cacheVars, reqVars, ver, due, list, victims, histVars, crashes, faults>>

\* The child's name is made of the template's and the due time.
NeverTaken == FALSE   \* mutant: a generated name
NameTaken == due \in alive

CreateChild ==
  /\ pc = "create"
  /\ \/ /\ ~NameTaken /\ NoFault
        /\ alive' = alive \cup {due}
        /\ created' = [created EXCEPT ![due] = @ + 1]
        /\ stamp' = [stamp EXCEPT ![due] = now]
        /\ pc' = "limit" /\ UNCHANGED <<queue, ver, due, list, victims>>
     \/ /\ IF NameTaken THEN NoFault ELSE Fault   \* AlreadyExists, or another error
        /\ Return(TRUE) /\ UNCHANGED <<alive, created, stamp>>
  /\ UNCHANGED <<now, crVars, cacheVars, timers, first, lost, crashes>>

\* enforceHistoryLimit lists the children in the cache, oldest first; those
\* created within one second come in any order.
OneTooFew(S) ==   \* mutant: the loop stops one early
  {V \in SUBSET S : Cardinality(V) = Cardinality(S) - Limit - 1
                    /\ \A v \in V, u \in S \ V : stamp[v] <= stamp[u]}
Oldest(S) ==
  {V \in SUBSET S : Cardinality(V) = Cardinality(S) - Limit
                    /\ \A v \in V, u \in S \ V : stamp[v] <= stamp[u]}

EnforceLimit ==
  /\ pc = "limit"
  /\ list' = list \cup {due}
  /\ LET listed == Cardinality(list') > Limit
         over   == Cardinality(seenAlive) > Limit
     IN  \/ ~(listed /\ over) /\ pc' = "update" /\ UNCHANGED victims /\ NoFault
         \/ listed /\ pc' = "update" /\ UNCHANGED victims /\ Fault
         \/ /\ listed /\ over /\ pc' = "sweep" /\ NoFault
            /\ victims' \in IF Limit < 0 THEN {seenAlive} ELSE Oldest(seenAlive)
  /\ UNCHANGED <<now, crVars, alive, cacheVars, reqVars, ver, due, histVars, crashes>>

\* One Delete after the other; an error ends the sweep and is only logged.
\* With a negative limit the loop runs past the list and panics.
Sweep ==
  /\ pc = "sweep"
  /\ \/ \E v \in victims :
          /\ NoFault
          /\ alive' = alive \ {v} /\ list' = list \ {v} /\ victims' = victims \ {v}
          /\ lost' = IF v >= due THEN lost \cup {v} ELSE lost
          /\ UNCHANGED <<pc, ver, due, queue>>
     \/ /\ victims # {} /\ Fault
        /\ pc' = "update" /\ victims' = {} /\ UNCHANGED <<alive, ver, due, list, lost, queue>>
     \/ /\ victims = {} /\ NoFault
        /\ IF Limit < 0 THEN Return(TRUE)
           ELSE pc' = "update" /\ UNCHANGED <<ver, due, list, victims, queue>>
        /\ UNCHANGED <<alive, lost>>
  /\ UNCHANGED <<now, crVars, cacheVars, timers, first, stamp, created, crashes>>

\* sched.Next(nextRunAt): the due times that were missed are made up for.
NextFromNow(t) == now + 1   \* mutant: sched.Next(now)
NextButOne(t) == t + 2      \* mutant: sched.Next twice
NextAfter(t) == t + 1

UpdateNext ==
  /\ pc = "update"
  /\ \/ /\ Fresh /\ NoFault
        /\ next' = NextAfter(due) /\ active' = list /\ version' = version + 1
        /\ ReturnUntil(next')
     \/ /\ IF Fresh THEN Fault ELSE NoFault
        /\ Return(TRUE) /\ UNCHANGED <<next, active, version, timers>>
  /\ UNCHANGED <<now, template, alive, cacheVars, histVars, crashes>>

Crash ==
  /\ crashes < MaxCrashes /\ crashes' = crashes + 1
  /\ Refreshed
  /\ queue' = IF template = "Present" THEN {"template"} ELSE {}
  /\ timers' = {}
  /\ Forget
  /\ UNCHANGED <<now, crVars, alive, histVars, faults>>

WorkerStep ==
  \/ Reconcile \/ InitNext \/ Wait \/ Look \/ CreateChild
  \/ EnforceLimit \/ Sweep \/ UpdateNext

Next ==
  \/ Tick \/ CreateTemplate \/ EditTemplate \/ DeleteTemplate
  \/ \E k \in Due : DeleteChild(k)
  \/ Sync \/ Resync \/ Alarm
  \/ WorkerStep
  \/ Crash

Spec == Init /\ [][Next]_vars

\* The watch delivers, the informer resyncs, timers fire, the worker goes on.
FairSpec ==
  Spec /\ WF_vars(Sync) /\ WF_vars(Resync) /\ WF_vars(Alarm) /\ WF_vars(WorkerStep)

(***************************************************************************)
(* Properties.                                                             *)
(***************************************************************************)

\* No due time is passed over: status.nextRunAt moves beyond one only after
\* its child was created.
NoneSkipped == \A k \in Due : first <= k /\ k < next => created[k] > 0

\* A due time that is recorded as done is not done again, whatever copy the
\* worker acts on; unless its child was deleted too early.
NoneRepeated ==
  [][\A k \in Due \ lost : k < next => created'[k] = created[k]]_vars

\* The history stays within its limit but for the latest child, the sweeps
\* that failed, and children that were deleted too early and made again.
HistoryBounded ==
  Limit >= 0 => Cardinality(alive \ (lost \cup {next})) <= Limit + 1 + faults

\* The inductive invariants of the proofs in ScheduledRunProofs.

\* A copy with the template's resourceVersion has its status; older ones
\* were due no later.
CopiesAge ==
  /\ template = "Absent" => version = 0 /\ next = 0
  /\ next > 0 => 0 < first /\ first <= next
  /\ next = 0 => first = 0
  /\ seenVersion <= version /\ seenNext <= next
  /\ seenNext > 0 => first <= seenNext
  /\ template = "Present" /\ seenVersion = version => seenNext = next
  /\ pc # "idle" => 0 < ver /\ ver <= version
  /\ pc = "init" /\ Fresh => next = 0
  /\ pc \notin {"idle", "init"} => first <= due /\ due <= seenNext /\ (Fresh => due = next)

\* What the worker may rely on at each of its calls.
Working == {"look", "create", "limit", "sweep", "update"}

WorkerKnows ==
  /\ pc \in {"init", "wait"} => due > 0
  /\ pc \in Working => due \in Due
  /\ pc \in {"limit", "sweep", "update"} => created[due] > 0

\* A child that is in the API server or the cache was created, and one that
\* a sweep took belongs to a time that no copy has as its next.
ChildrenKnown ==
  /\ \A k \in alive \cup seenAlive : created[k] > 0
  /\ \A k \in Due \ (alive \cup lost) :
       created[k] > 0 => k < seenNext /\ (pc \in Working => k < due)

ScheduleInv == TypeOK /\ CopiesAge /\ WorkerKnows /\ ChildrenKnown /\ NoneSkipped

\* Of the children that must be within the limit none is overlooked: a copy
\* with the template's resourceVersion lists them, be it in the cache or in
\* the worker, and so does status.activeRuns.
Kept == alive \ (lost \cup {next})

ChildrenListed ==
  /\ \A k \in alive : k <= next
  /\ Kept \subseteq active
  /\ template = "Present" /\ seenVersion = version => seenActive = active /\ Kept \subseteq seenAlive
  /\ template = "Present" /\ pc # "idle" => ver <= seenVersion
  /\ pc \in Working /\ Fresh => Kept \subseteq list
  /\ pc \in {"sweep", "update"} /\ Fresh => alive \ lost \subseteq list

\* What the sweep leaves, the latest child included, is within the limit
\* before nextRunAt moves on; a failed call costs one child.
SweepBounded ==
  Limit >= 0 /\ Fresh =>
    /\ pc = "sweep" => Cardinality(alive \ (lost \cup victims)) <= Limit + 1 + faults
    /\ pc = "update" => Cardinality(alive \ lost) <= Limit + 1 + faults

HistoryInv == ScheduleInv /\ ChildrenListed /\ SweepBounded /\ HistoryBounded

\* Every due time of a template gets its child, through crashes, downtime,
\* lost timers, failed calls and edits.
DueTimesServed ==
  \A k \in Due :
    first > 0 /\ first <= k /\ k <= now ~> created[k] > 0 \/ template = "Gone"
=============================================================================
