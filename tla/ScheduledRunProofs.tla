-------------------------- MODULE ScheduledRunProofs --------------------------
(***************************************************************************)
(* Proofs about ScheduledRun, for every history limit and every horizon.   *)
(***************************************************************************)
EXTENDS ScheduledRun, FiniteSetTheorems, TLAPS

USE DEF Due, PCs, Working

LEMMA OldestAmong == \A S : \A V \in Oldest(S) : V \subseteq S
BY DEF Oldest

LEMMA ScheduleInit == Init => ScheduleInv
BY HorizonAssumption, ScheduleBoundAssumption
   DEF Init, ScheduleInv, TypeOK, CopiesAge, WorkerKnows, ChildrenKnown, NoneSkipped, Fresh

\* Time, users and the cache.
LEMMA ScheduleEnvironment ==
  ASSUME ScheduleInv,
         \/ Tick \/ CreateTemplate \/ EditTemplate \/ DeleteTemplate
         \/ \E k \in Due : DeleteChild(k)
         \/ Sync \/ Resync \/ Alarm \/ Crash
  PROVE  ScheduleInv'
<1> USE HorizonAssumption, ScheduleBoundAssumption
        DEF ScheduleInv, crVars, cacheVars, reqVars, workVars, histVars
<1>1. CASE Tick
  <2>0. now' \in 0..Horizon BY <1>1 DEF Tick, TypeOK
  <2>1. TypeOK' BY <2>0, <1>1, Zenon DEF Tick, TypeOK
  <2>2. CopiesAge' BY <1>1 DEF Tick, Fresh, TypeOK, CopiesAge
  <2>3. WorkerKnows' BY <1>1 DEF Tick, TypeOK, CopiesAge, WorkerKnows
  <2>4. ChildrenKnown' BY <1>1 DEF Tick, TypeOK, CopiesAge, WorkerKnows, ChildrenKnown
  <2>5. NoneSkipped' BY <1>1 DEF Tick, Fresh, TypeOK, CopiesAge, WorkerKnows, NoneSkipped
  <2> QED BY <2>1, <2>2, <2>3, <2>4, <2>5
<1>2. CASE CreateTemplate
  <2>1. TypeOK' BY <1>2 DEF CreateTemplate, TypeOK
  <2>2. CopiesAge' BY <1>2 DEF CreateTemplate, Fresh, TypeOK, CopiesAge
  <2>3. WorkerKnows' BY <1>2 DEF CreateTemplate, TypeOK, CopiesAge, WorkerKnows
  <2>4. ChildrenKnown' BY <1>2 DEF CreateTemplate, TypeOK, CopiesAge, WorkerKnows, ChildrenKnown
  <2>5. NoneSkipped' BY <1>2 DEF CreateTemplate, Fresh, TypeOK, CopiesAge, WorkerKnows, NoneSkipped
  <2> QED BY <2>1, <2>2, <2>3, <2>4, <2>5
<1>3. CASE EditTemplate
  <2>0. version' \in Nat BY <1>3 DEF EditTemplate, TypeOK
  <2>1. TypeOK' BY <2>0, <1>3, Zenon DEF EditTemplate, TypeOK
  <2>2. CopiesAge' BY <1>3 DEF EditTemplate, Fresh, TypeOK, CopiesAge
  <2>3. WorkerKnows' BY <1>3 DEF EditTemplate, TypeOK, CopiesAge, WorkerKnows
  <2>4. ChildrenKnown' BY <1>3 DEF EditTemplate, TypeOK, CopiesAge, WorkerKnows, ChildrenKnown
  <2>5. NoneSkipped' BY <1>3 DEF EditTemplate, Fresh, TypeOK, CopiesAge, WorkerKnows, NoneSkipped
  <2> QED BY <2>1, <2>2, <2>3, <2>4, <2>5
<1>4. CASE DeleteTemplate
  <2>1. TypeOK' BY <1>4 DEF DeleteTemplate, TypeOK
  <2>2. CopiesAge' BY <1>4 DEF DeleteTemplate, Fresh, TypeOK, CopiesAge
  <2>3. WorkerKnows' BY <1>4 DEF DeleteTemplate, TypeOK, CopiesAge, WorkerKnows
  <2>4. ChildrenKnown' BY <1>4 DEF DeleteTemplate, TypeOK, CopiesAge, WorkerKnows, ChildrenKnown
  <2>5. NoneSkipped' BY <1>4 DEF DeleteTemplate, Fresh, TypeOK, CopiesAge, WorkerKnows, NoneSkipped
  <2> QED BY <2>1, <2>2, <2>3, <2>4, <2>5
<1>5. CASE \E k \in Due : DeleteChild(k)
  <2>1. TypeOK' BY <1>5 DEF DeleteChild, TypeOK
  <2>2. CopiesAge' BY <1>5 DEF DeleteChild, Fresh, TypeOK, CopiesAge
  <2>3. WorkerKnows' BY <1>5 DEF DeleteChild, TypeOK, CopiesAge, WorkerKnows
  <2>4. ChildrenKnown' BY <1>5 DEF DeleteChild, TypeOK, CopiesAge, WorkerKnows, ChildrenKnown
  <2>5. NoneSkipped' BY <1>5 DEF DeleteChild, Fresh, TypeOK, CopiesAge, WorkerKnows, NoneSkipped
  <2> QED BY <2>1, <2>2, <2>3, <2>4, <2>5
<1>6. CASE Sync
  <2>1. TypeOK' BY <1>6 DEF Sync, Refreshed, TypeOK
  <2>2. CopiesAge' BY <1>6 DEF Sync, Refreshed, Fresh, TypeOK, CopiesAge
  <2>3. WorkerKnows' BY <1>6 DEF Sync, Refreshed, TypeOK, CopiesAge, WorkerKnows
  <2>4. ChildrenKnown' BY <1>6 DEF Sync, Refreshed, TypeOK, CopiesAge, WorkerKnows, ChildrenKnown
  <2>5. NoneSkipped' BY <1>6 DEF Sync, Refreshed, Fresh, TypeOK, CopiesAge, WorkerKnows, NoneSkipped
  <2> QED BY <2>1, <2>2, <2>3, <2>4, <2>5
<1>7. CASE Resync
  <2>1. TypeOK' BY <1>7 DEF Resync, TypeOK
  <2>2. CopiesAge' BY <1>7 DEF Resync, Fresh, TypeOK, CopiesAge
  <2>3. WorkerKnows' BY <1>7 DEF Resync, TypeOK, CopiesAge, WorkerKnows
  <2>4. ChildrenKnown' BY <1>7 DEF Resync, TypeOK, CopiesAge, WorkerKnows, ChildrenKnown
  <2>5. NoneSkipped' BY <1>7 DEF Resync, Fresh, TypeOK, CopiesAge, WorkerKnows, NoneSkipped
  <2> QED BY <2>1, <2>2, <2>3, <2>4, <2>5
<1>8. CASE Alarm
  <2>1. TypeOK' BY <1>8 DEF Alarm, TypeOK
  <2>2. CopiesAge' BY <1>8 DEF Alarm, Fresh, TypeOK, CopiesAge
  <2>3. WorkerKnows' BY <1>8 DEF Alarm, TypeOK, CopiesAge, WorkerKnows
  <2>4. ChildrenKnown' BY <1>8 DEF Alarm, TypeOK, CopiesAge, WorkerKnows, ChildrenKnown
  <2>5. NoneSkipped' BY <1>8 DEF Alarm, Fresh, TypeOK, CopiesAge, WorkerKnows, NoneSkipped
  <2> QED BY <2>1, <2>2, <2>3, <2>4, <2>5
<1>9. CASE Crash
  <2>1. TypeOK' BY <1>9 DEF Crash, Refreshed, Forget, TypeOK
  <2>2. CopiesAge' BY <1>9 DEF Crash, Refreshed, Forget, Fresh, TypeOK, CopiesAge
  <2>3. WorkerKnows' BY <1>9 DEF Crash, Refreshed, Forget, TypeOK, CopiesAge, WorkerKnows
  <2>4. ChildrenKnown' BY <1>9 DEF Crash, Refreshed, Forget, TypeOK, CopiesAge, WorkerKnows, ChildrenKnown
  <2>5. NoneSkipped' BY <1>9 DEF Crash, Refreshed, Forget, Fresh, TypeOK, CopiesAge, WorkerKnows, NoneSkipped
  <2> QED BY <2>1, <2>2, <2>3, <2>4, <2>5
<1> QED BY <1>1, <1>2, <1>3, <1>4, <1>5, <1>6, <1>7, <1>8, <1>9

\* The worker.
LEMMA ScheduleWorker == ASSUME ScheduleInv, WorkerStep PROVE ScheduleInv'
<1> USE HorizonAssumption, ScheduleBoundAssumption
        DEF ScheduleInv, crVars, cacheVars, reqVars, workVars, histVars, Fault, NoFault
<1>1. CASE Reconcile
  <2>0. /\ pc' \in PCs /\ ver' \in Nat /\ due' \in 0..(Horizon + 1)
        /\ list' \subseteq Due /\ victims' \subseteq Due
    <3>1. /\ pc \in PCs /\ ver \in Nat /\ due \in 0..(Horizon + 1)
          /\ list \subseteq Due /\ victims \subseteq Due
          /\ seenVersion \in Nat /\ seenNext \in 0..(Horizon + 1) /\ seenActive \subseteq Due
          /\ {} \subseteq Due
      BY DEF TypeOK
    <3>2. now + 1 \in 0..(Horizon + 1) BY DEF TypeOK
    <3> QED BY <1>1, <3>1, <3>2 DEF Reconcile
  <2>1. TypeOK' BY <1>1, <2>0, SMTT(30) DEF Reconcile, TypeOK
  <2>2. CopiesAge' BY <1>1 DEF Reconcile, Fresh, TypeOK, CopiesAge
  <2>3. WorkerKnows' BY <1>1 DEF Reconcile, TypeOK, CopiesAge, WorkerKnows
  <2>4. ChildrenKnown' BY <1>1 DEF Reconcile, TypeOK, CopiesAge, WorkerKnows, ChildrenKnown
  <2>5. NoneSkipped' BY <1>1 DEF Reconcile, Fresh, TypeOK, CopiesAge, WorkerKnows, NoneSkipped
  <2> QED BY <2>1, <2>2, <2>3, <2>4, <2>5
<1>2. CASE InitNext
  <2>a. /\ pc = "init" /\ Forget
        /\ UNCHANGED <<now, template, active, alive, cacheVars, stamp, created, lost, crashes>>
    BY <1>2 DEF InitNext, Return, ReturnUntil, Forget
  <2>b. CASE /\ Fresh /\ faults' = faults
             /\ next' = due /\ first' = due /\ version' = version + 1
             /\ queue' = queue /\ timers' \in {timers, timers \cup {due}}
    <3>a. due \in 1..(Horizon + 1) BY <2>a DEF WorkerKnows, TypeOK
    <3>b. timers' \subseteq 1..(Horizon + 1) BY <2>b, <3>a DEF TypeOK
    <3>c. seenNext = 0 /\ next = 0 /\ first = 0
      BY <2>a, <2>b DEF TypeOK, CopiesAge, WorkerKnows
    <3>1. TypeOK' BY <2>a, <2>b, <3>a, <3>b, SMTT(30) DEF TypeOK, Forget
    <3>2. CopiesAge' BY <2>a, <2>b, <3>a, <3>c DEF TypeOK, CopiesAge, Fresh, Forget
    <3>3. WorkerKnows' BY <2>a DEF WorkerKnows, Forget
    <3>4. ChildrenKnown' BY <2>a, <3>c DEF ChildrenKnown, Forget
    <3>5. NoneSkipped' BY <2>a, <2>b, <3>a DEF NoneSkipped
    <3> QED BY <3>1, <3>2, <3>3, <3>4, <3>5
  <2>c. CASE /\ UNCHANGED <<next, first, version, timers>> /\ queue' = {"template"}
             /\ faults' \in 0..MaxFaults
    <3>1. TypeOK' BY <2>a, <2>c, SMTT(30) DEF TypeOK, Forget
    <3>2. CopiesAge' BY <2>a, <2>c DEF TypeOK, CopiesAge, Fresh, Forget
    <3>3. WorkerKnows' BY <2>a DEF WorkerKnows, Forget
    <3>4. ChildrenKnown' BY <2>a DEF ChildrenKnown, Forget
    <3>5. NoneSkipped' BY <2>a, <2>c DEF NoneSkipped
    <3> QED BY <3>1, <3>2, <3>3, <3>4, <3>5
  <2>d. faults < MaxFaults => faults + 1 \in 0..MaxFaults BY DEF TypeOK
  <2>e. faults \in 0..MaxFaults BY DEF TypeOK
  <2> QED BY <1>2, <2>b, <2>c, <2>d, <2>e DEF InitNext, Return, ReturnUntil
<1>3. CASE Wait
  <2>1. TypeOK' BY <1>3 DEF Wait, Return, ReturnUntil, Forget, TypeOK
  <2>2. CopiesAge' BY <1>3 DEF Wait, Return, ReturnUntil, Forget, Fresh, TypeOK, CopiesAge
  <2>3. WorkerKnows' BY <1>3 DEF Wait, Return, ReturnUntil, Forget, TypeOK, CopiesAge, WorkerKnows
  <2>4. ChildrenKnown' BY <1>3 DEF Wait, Return, ReturnUntil, Forget, TypeOK, CopiesAge, WorkerKnows, ChildrenKnown
  <2>5. NoneSkipped' BY <1>3 DEF Wait, Return, ReturnUntil, Forget, Fresh, TypeOK, CopiesAge, WorkerKnows, NoneSkipped
  <2> QED BY <2>1, <2>2, <2>3, <2>4, <2>5
<1>4. CASE Look
  <2>a. /\ pc = "look" /\ due \in Due
        /\ \/ pc' = "limit" /\ due \in seenAlive
           \/ pc' = "create"
        /\ UNCHANGED <<now, crVars, alive, cacheVars, reqVars, ver, due, list, victims, histVars,
                       crashes, faults>>
    BY <1>4 DEF Look, WorkerKnows
  <2>b. pc' = "limit" => created[due] > 0 BY <2>a DEF ChildrenKnown
  <2>1. TypeOK' BY <2>a DEF TypeOK
  <2>2. CopiesAge' BY <2>a DEF CopiesAge, Fresh
  <2>3. WorkerKnows' BY <2>a, <2>b DEF WorkerKnows
  <2>4. ChildrenKnown' BY <2>a DEF ChildrenKnown
  <2>5. NoneSkipped' BY <2>a DEF NoneSkipped
  <2> QED BY <2>1, <2>2, <2>3, <2>4, <2>5
<1>5. CASE CreateChild
  <2>a. /\ pc = "create" /\ due \in Due
        /\ UNCHANGED <<now, crVars, cacheVars, timers, first, lost, crashes>>
    BY <1>5 DEF CreateChild, WorkerKnows
  <2>b. CASE /\ due \notin alive /\ faults' = faults /\ alive' = alive \cup {due}
             /\ created' = [created EXCEPT ![due] = @ + 1]
             /\ stamp' = [stamp EXCEPT ![due] = now]
             /\ pc' = "limit" /\ UNCHANGED <<queue, ver, due, list, victims>>
    <3>a. created' \in [Due -> Nat] /\ stamp' \in [Due -> 0..Horizon]
      BY <2>a, <2>b, SMTT(20) DEF TypeOK
    <3>b. created'[due] > 0 /\ \A k \in Due : k # due => created'[k] = created[k]
      BY <2>a, <2>b DEF TypeOK
    <3>1. TypeOK'
      <4>1. /\ UNCHANGED <<now, template, version, next, active, timers, first, lost, crashes>>
            /\ UNCHANGED <<seenVersion, seenNext, seenActive, seenAlive>>
            /\ UNCHANGED <<queue, ver, due, list, victims, faults>>
        BY <2>a, <2>b
      <4>2. alive' \subseteq Due /\ pc' \in PCs BY <2>a, <2>b DEF TypeOK
      <4> QED BY ONLY TypeOK, <3>a, <4>1, <4>2 DEF TypeOK
    <3>2. CopiesAge' BY <2>a, <2>b DEF CopiesAge, Fresh
    <3>3. WorkerKnows' BY <2>a, <2>b, <3>b DEF WorkerKnows
    <3>4. ChildrenKnown' BY <2>a, <2>b, <3>b DEF ChildrenKnown, TypeOK
    <3>5. NoneSkipped' BY <2>a, <2>b, <3>b DEF NoneSkipped
    <3> QED BY <3>1, <3>2, <3>3, <3>4, <3>5
  <2>c. CASE /\ Forget /\ queue' = {"template"} /\ faults' \in 0..MaxFaults
             /\ UNCHANGED <<alive, created, stamp>>
    <3>1. TypeOK' BY <2>a, <2>c, SMTT(30) DEF TypeOK, Forget
    <3>2. CopiesAge' BY <2>a, <2>c DEF TypeOK, CopiesAge, Fresh, Forget
    <3>3. WorkerKnows' BY <2>c DEF WorkerKnows, Forget
    <3>4. ChildrenKnown' BY <2>a, <2>c DEF ChildrenKnown, Forget
    <3>5. NoneSkipped' BY <2>a, <2>c DEF NoneSkipped
    <3> QED BY <3>1, <3>2, <3>3, <3>4, <3>5
  <2>d. faults < MaxFaults => faults + 1 \in 0..MaxFaults BY DEF TypeOK
  <2>e. faults \in 0..MaxFaults BY DEF TypeOK
  <2> QED BY <1>5, <2>b, <2>c, <2>d, <2>e DEF CreateChild, NameTaken, Return, Forget
<1>6. CASE EnforceLimit
  <2>a. /\ pc = "limit" /\ due \in Due /\ created[due] > 0
        /\ pc' \in {"update", "sweep"} /\ list' = list \cup {due}
        /\ UNCHANGED <<now, crVars, alive, cacheVars, reqVars, ver, due, histVars, crashes>>
    BY <1>6 DEF EnforceLimit, WorkerKnows
  <2>b. victims' \subseteq Due
    <3>1. \A V \in Oldest(seenAlive) : V \subseteq seenAlive BY OldestAmong
    <3> QED BY <1>6, <3>1 DEF EnforceLimit, TypeOK
  <2>c. faults' \in 0..MaxFaults BY <1>6 DEF EnforceLimit, TypeOK
  <2>1. TypeOK'
    <3>1. /\ UNCHANGED <<now, template, version, next, active, alive>>
          /\ UNCHANGED <<seenVersion, seenNext, seenActive, seenAlive, queue, timers>>
          /\ UNCHANGED <<ver, due, first, stamp, created, lost, crashes>>
      BY <2>a
    <3>2. list' \subseteq Due /\ pc' \in PCs BY <2>a DEF TypeOK
    <3> QED BY ONLY TypeOK, <2>b, <2>c, <3>1, <3>2 DEF TypeOK
  <2>2. CopiesAge' BY <2>a DEF CopiesAge, Fresh
  <2>3. WorkerKnows' BY <2>a DEF WorkerKnows
  <2>4. ChildrenKnown' BY <2>a DEF ChildrenKnown
  <2>5. NoneSkipped' BY <2>a DEF NoneSkipped
  <2> QED BY <2>1, <2>2, <2>3, <2>4, <2>5
<1>7. CASE Sweep
  <2>a. /\ pc = "sweep" /\ due \in Due /\ created[due] > 0
        /\ UNCHANGED <<now, crVars, cacheVars, timers, first, stamp, created, crashes>>
    BY <1>7 DEF Sweep, WorkerKnows
  <2>b. CASE \E v \in victims :
               /\ NoFault
               /\ alive' = alive \ {v} /\ list' = list \ {v} /\ victims' = victims \ {v}
               /\ lost' = IF v >= due THEN lost \cup {v} ELSE lost
               /\ UNCHANGED <<pc, ver, due, queue>>
    <3> PICK v \in victims :
               /\ faults' = faults
               /\ alive' = alive \ {v} /\ list' = list \ {v} /\ victims' = victims \ {v}
               /\ lost' = IF v >= due THEN lost \cup {v} ELSE lost
               /\ UNCHANGED <<pc, ver, due, queue>>
      BY <2>b
    <3>a. v \in Due BY DEF TypeOK
    <3>b. lost' \in {lost, lost \cup {v}} OBVIOUS
    <3>c. due <= seenNext BY <2>a DEF CopiesAge
    <3>d. lost' \subseteq Due /\ alive' \subseteq Due /\ list' \subseteq Due /\ victims' \subseteq Due
      BY <3>a, <3>b DEF TypeOK
    <3>1. TypeOK' BY <2>a, <3>d, SMTT(30) DEF TypeOK
    <3>2. CopiesAge' BY <2>a DEF CopiesAge, Fresh
    <3>3. WorkerKnows' BY <2>a DEF WorkerKnows
    <3>4. ChildrenKnown'
      <4>1. \A k \in alive' \cup seenAlive' : created'[k] > 0 BY <2>a DEF ChildrenKnown
      <4>2. ASSUME NEW k \in Due \ (alive \cup lost)', created'[k] > 0
            PROVE  k < seenNext' /\ (pc' \in Working => k < due')
        <5>1. CASE k = v
          <6>1. v < due BY <3>a, <4>2, <5>1, <2>a
          <6> QED BY <2>a, <3>a, <3>c, <5>1, <6>1 DEF TypeOK
        <5>2. CASE k # v BY <2>a, <3>b, <4>2, <5>2 DEF ChildrenKnown
        <5> QED BY <5>1, <5>2
      <4> QED BY <4>1, <4>2 DEF ChildrenKnown
    <3>5. NoneSkipped' BY <2>a DEF NoneSkipped
    <3> QED BY <3>1, <3>2, <3>3, <3>4, <3>5
  <2>c. CASE /\ \/ Forget
                \/ pc' = "update" /\ victims' = {} /\ UNCHANGED <<ver, due, list>>
             /\ queue' \subseteq {"template"} /\ faults' \in 0..MaxFaults
             /\ UNCHANGED <<alive, lost>>
    <3>a. /\ 0 \in Nat /\ 0 \in 0..(Horizon + 1) /\ {} \subseteq Due
          /\ ver \in Nat /\ due \in 0..(Horizon + 1) /\ list \subseteq Due
      BY DEF TypeOK
    <3>0. /\ pc' \in {"idle", "update"} /\ ver' \in Nat /\ due' \in 0..(Horizon + 1)
          /\ list' \subseteq Due /\ victims' \subseteq Due
      <4>1. CASE Forget BY <3>a, <4>1, Zenon DEF Forget
      <4>2. CASE pc' = "update" /\ victims' = {} /\ UNCHANGED <<ver, due, list>>
        BY <3>a, <4>2
      <4> QED BY <2>c, <4>1, <4>2
    <3>1. TypeOK' BY <2>a, <3>0, <2>c, SMTT(60) DEF TypeOK
    <3>2. CopiesAge' BY <2>a, <2>c DEF TypeOK, CopiesAge, Fresh, Forget
    <3>3. WorkerKnows' BY <2>a, <2>c DEF WorkerKnows, Forget
    <3>4. ChildrenKnown' BY <2>a, <2>c DEF ChildrenKnown, Forget
    <3>5. NoneSkipped' BY <2>a, <2>c DEF NoneSkipped
    <3> QED BY <3>1, <3>2, <3>3, <3>4, <3>5
  <2>d. faults < MaxFaults => faults + 1 \in 0..MaxFaults BY DEF TypeOK
  <2>e. faults \in 0..MaxFaults /\ queue \subseteq {"template"} BY DEF TypeOK
  <2>1. CASE victims # {} /\ Fault
             /\ pc' = "update" /\ victims' = {} /\ UNCHANGED <<alive, ver, due, list, lost, queue>>
    BY <2>1, <2>c, <2>d, <2>e
  <2>2. CASE /\ victims = {} /\ NoFault
             /\ IF Limit < 0 THEN Return(TRUE)
                ELSE pc' = "update" /\ UNCHANGED <<ver, due, list, victims, queue>>
             /\ UNCHANGED <<alive, lost>>
    <3>1. CASE Limit < 0 BY <2>2, <2>c, <2>e, <3>1 DEF Return, Forget
    <3>2. CASE ~(Limit < 0) BY <2>2, <2>c, <2>e, <3>2
    <3> QED BY <3>1, <3>2
  <2> QED BY <1>7, <2>b, <2>1, <2>2 DEF Sweep
<1>8. CASE UpdateNext
  <2>a. /\ pc = "update" /\ Forget /\ due \in Due /\ created[due] > 0 /\ first <= due
        /\ UNCHANGED <<now, template, alive, cacheVars, histVars, crashes>>
    BY <1>8 DEF UpdateNext, Return, ReturnUntil, Forget, TypeOK, CopiesAge, WorkerKnows
  <2>b. CASE /\ Fresh /\ faults' = faults
             /\ next' = due + 1 /\ active' = list /\ version' = version + 1
             /\ queue' = queue /\ timers' \in {timers, timers \cup {due + 1}}
    <3>a. due + 1 \in 1..(Horizon + 1) BY <2>a DEF TypeOK
    <3>b. timers' \subseteq 1..(Horizon + 1) BY <2>b, <3>a DEF TypeOK
    <3>c. next = due /\ seenNext <= next
      BY <2>a, <2>b DEF TypeOK, CopiesAge
    <3>1. TypeOK' BY <2>a, <2>b, <3>a, <3>b, SMTT(30) DEF TypeOK, Forget
    <3>2. CopiesAge' BY <2>a, <2>b, <3>a, <3>c DEF TypeOK, CopiesAge, Fresh, Forget
    <3>3. WorkerKnows' BY <2>a DEF WorkerKnows, Forget
    <3>4. ChildrenKnown' BY <2>a DEF ChildrenKnown, Forget
    <3>5. NoneSkipped'
      <4> SUFFICES ASSUME NEW k \in Due, first <= k, k < due + 1 PROVE created[k] > 0
        BY <2>a, <2>b DEF NoneSkipped
      <4>1. k = due \/ k < due BY <2>a
      <4> QED BY <2>a, <3>c, <4>1 DEF NoneSkipped
    <3> QED BY <3>1, <3>2, <3>3, <3>4, <3>5
  <2>c. CASE /\ UNCHANGED <<next, active, version, timers>> /\ queue' = {"template"}
             /\ faults' \in 0..MaxFaults
    <3>1. TypeOK' BY <2>a, <2>c, SMTT(30) DEF TypeOK, Forget
    <3>2. CopiesAge' BY <2>a, <2>c DEF TypeOK, CopiesAge, Fresh, Forget
    <3>3. WorkerKnows' BY <2>a DEF WorkerKnows, Forget
    <3>4. ChildrenKnown' BY <2>a DEF ChildrenKnown, Forget
    <3>5. NoneSkipped' BY <2>a, <2>c DEF NoneSkipped
    <3> QED BY <3>1, <3>2, <3>3, <3>4, <3>5
  <2>d. faults < MaxFaults => faults + 1 \in 0..MaxFaults BY DEF TypeOK
  <2>e. faults \in 0..MaxFaults BY DEF TypeOK
  <2> QED BY <1>8, <2>b, <2>c, <2>d, <2>e DEF UpdateNext, NextAfter, Return, ReturnUntil
<1> QED BY <1>1, <1>2, <1>3, <1>4, <1>5, <1>6, <1>7, <1>8 DEF WorkerStep

LEMMA ScheduleStep == ScheduleInv /\ [Next]_vars => ScheduleInv'
<1> SUFFICES ASSUME ScheduleInv, [Next]_vars PROVE ScheduleInv'
  OBVIOUS
<1>1. CASE UNCHANGED vars
  BY <1>1 DEF vars, crVars, cacheVars, reqVars, workVars, histVars, ScheduleInv, TypeOK,
              CopiesAge, WorkerKnows, ChildrenKnown, NoneSkipped, Fresh
<1>2. CASE Next BY <1>2, ScheduleEnvironment, ScheduleWorker DEF Next
<1> QED BY <1>1, <1>2

\* The invariant of the scheduler: how old its copies may be and what they
\* still say about the children.
THEOREM ScheduleInvariance == Spec => []ScheduleInv
<1>1. Init => ScheduleInv BY ScheduleInit
<1>2. ScheduleInv /\ [Next]_vars => ScheduleInv' BY ScheduleStep
<1> QED BY <1>1, <1>2, PTL DEF Spec

\* Every variable keeps its type, nextRunAt within one due time of the clock's
\* horizon.
THEOREM ScheduleTypeCorrect == Spec => []TypeOK
<1>1. ScheduleInv => TypeOK BY DEF ScheduleInv
<1> QED BY <1>1, ScheduleInvariance, PTL

\* status.nextRunAt never moves past a due time that got no child.
THEOREM NothingSkipped == Spec => []NoneSkipped
<1>1. ScheduleInv => NoneSkipped BY DEF ScheduleInv
<1> QED BY <1>1, ScheduleInvariance, PTL

\* A due time recorded as done gets no second child from a stale copy of the
\* template: a copy as old as that still has the first one in its cache, or
\* the API server has.
THEOREM NothingRepeated == Spec => NoneRepeated
<1>1. ASSUME ScheduleInv, [Next]_vars
      PROVE  \A k \in Due \ lost : k < next => created'[k] = created[k]
  <2>1. CASE CreateChild
    <3> SUFFICES ASSUME NEW k \in Due \ lost, k < next, k = due, due \notin alive
                 PROVE  FALSE
      BY <1>1, <2>1 DEF CreateChild, NameTaken, ScheduleInv, TypeOK
    <3>1. pc = "create" BY <2>1 DEF CreateChild
    <3>2. first <= k /\ created[k] > 0
      BY <1>1, <3>1 DEF ScheduleInv, TypeOK, CopiesAge, WorkerKnows, NoneSkipped
    <3> QED BY <1>1, <3>1, <3>2 DEF ScheduleInv, TypeOK, ChildrenKnown
  <2>2. CASE ~CreateChild
    BY <1>1, <2>2
       DEF Next, WorkerStep, vars, histVars, Tick, CreateTemplate, EditTemplate, DeleteTemplate,
           DeleteChild, Sync, Resync, Alarm, Crash, Reconcile, InitNext, Wait, Look,
           EnforceLimit, Sweep, UpdateNext
  <2> QED BY <2>1, <2>2
<1>2. ScheduleInv /\ [Next]_vars => [\A k \in Due \ lost : k < next => created'[k] = created[k]]_vars
  BY <1>1
<1> QED BY <1>2, ScheduleInvariance, PTL DEF Spec, NoneRepeated

(***************************************************************************)
(* The history limit: sets of children and their sizes, then the invariant.*)
(***************************************************************************)

LEMMA FiniteChildren ==
  ASSUME NEW S \in SUBSET Due
  PROVE  IsFiniteSet(S) /\ Cardinality(S) \in Nat
<1>1. 1 \in Int /\ Horizon \in Int BY HorizonAssumption
<1>2. IsFiniteSet(Due) BY <1>1, FS_Interval
<1>3. IsFiniteSet(S) BY <1>2, FS_Subset
<1> QED BY <1>3, FS_CardinalityType

LEMMA FewerChildren ==
  ASSUME NEW T \in SUBSET Due, NEW S \in SUBSET T
  PROVE  Cardinality(S) \in Nat /\ Cardinality(T) \in Nat /\ Cardinality(S) <= Cardinality(T)
<1>2. IsFiniteSet(T) BY FiniteChildren
<1>3. IsFiniteSet(S) /\ Cardinality(S) <= Cardinality(T) BY <1>2, FS_Subset
<1> QED BY <1>2, <1>3, FS_CardinalityType

LEMMA AllButOne ==
  ASSUME NEW S \in SUBSET Due, NEW x
  PROVE  Cardinality(S) <= Cardinality(S \ {x}) + 1
<1>1. IsFiniteSet(S) /\ Cardinality(S) \in Nat BY FiniteChildren
<1>2. Cardinality(S \ {x}) = IF x \in S THEN Cardinality(S) - 1 ELSE Cardinality(S)
  BY <1>1, FS_RemoveElement
<1> QED BY <1>1, <1>2

\* Without the children that the sweep takes, Limit of them are left.
LEMMA SweepLeaves ==
  ASSUME NEW S \in SUBSET Due, NEW V \in Oldest(S)
  PROVE  Cardinality(S \ V) = Limit
<1>1. IsFiniteSet(S) /\ Cardinality(S) \in Nat BY FiniteChildren
<1>2. V \in SUBSET S /\ Cardinality(V) = Cardinality(S) - Limit BY DEF Oldest
<1>3. S \cap V = V BY <1>2
<1>4. Cardinality(S \ V) = Cardinality(S) - Cardinality(S \cap V)
  BY <1>1, FS_Difference
<1>5. Cardinality(S \ V) = Cardinality(S) - (Cardinality(S) - Limit) BY <1>2, <1>3, <1>4
<1> QED BY <1>1, <1>5, LimitAssumption

\* A step after which no other children count keeps the bound.
LEMMA NoMoreKept ==
  ASSUME TypeOK, TypeOK', HistoryBounded, Kept' \subseteq Kept, faults <= faults'
  PROVE  HistoryBounded'
<1>1. Kept \in SUBSET Due /\ Kept' \in SUBSET Kept BY DEF Kept, TypeOK
<1>2. Cardinality(Kept') \in Nat /\ Cardinality(Kept) \in Nat /\ Cardinality(Kept') <= Cardinality(Kept)
  BY <1>1, FewerChildren
<1>3. faults \in Nat /\ faults' \in Nat BY ScheduleBoundAssumption DEF TypeOK
<1> QED BY <1>2, <1>3, LimitAssumption DEF HistoryBounded, Kept

LEMMA HistoryInit == Init => HistoryInv
<1> SUFFICES ASSUME Init PROVE HistoryInv
  OBVIOUS
<1>1. ScheduleInv BY ScheduleInit
<1>2. ChildrenListed BY DEF Init, ChildrenListed, Kept
<1>3. SweepBounded BY DEF Init, SweepBounded
<1>4. HistoryBounded
  <2>1. alive \ (lost \cup {next}) = {} /\ faults = 0 BY DEF Init
  <2> QED BY <2>1, FS_EmptySet, LimitAssumption DEF HistoryBounded
<1> QED BY <1>1, <1>2, <1>3, <1>4 DEF HistoryInv

\* Time, users and the cache take nothing out of the lists, and make no copy
\* fresher than it is.
LEMMA HistoryEnvironment ==
  ASSUME HistoryInv,
         \/ Tick \/ CreateTemplate \/ EditTemplate \/ DeleteTemplate
         \/ \E k \in Due : DeleteChild(k)
         \/ Sync \/ Resync \/ Alarm \/ Crash
  PROVE  HistoryInv'
<1>0. ScheduleInv' /\ TypeOK' /\ TypeOK
  BY ScheduleEnvironment DEF HistoryInv, ScheduleInv
<1> USE DEF crVars, cacheVars, reqVars, workVars, histVars
<1>1. /\ Kept' \subseteq Kept /\ alive' \ lost' \subseteq alive \ lost
      /\ UNCHANGED <<next, active, faults>>
  BY DEF Tick, CreateTemplate, EditTemplate, DeleteTemplate, DeleteChild, Sync, Refreshed, Resync, Alarm, Crash, Kept
<1>2. \/ pc' = "idle"
      \/ UNCHANGED workVars /\ (Fresh' => Fresh)
  <2>1. CASE CreateTemplate
    BY <1>0, <2>1 DEF CreateTemplate, HistoryInv, ScheduleInv, CopiesAge, TypeOK
  <2>2. CASE EditTemplate
    BY <1>0, <2>2 DEF EditTemplate, HistoryInv, ScheduleInv, CopiesAge, TypeOK, Fresh
  <2> QED BY <2>1, <2>2
    DEF Tick, DeleteTemplate, DeleteChild, Sync, Refreshed, Resync, Alarm, Crash, Forget, Fresh
<1>3. ChildrenListed'
  <2> USE DEF ChildrenListed
  <2>1. \A k \in alive' : k <= next'
    BY <1>1 DEF HistoryInv, Tick, CreateTemplate, EditTemplate, DeleteTemplate, DeleteChild,
                Sync, Refreshed, Resync, Alarm, Crash
  <2>2. Kept' \subseteq active' BY <1>1 DEF HistoryInv
  <2>3. template' = "Present" /\ seenVersion' = version' => seenActive' = active' /\ Kept' \subseteq seenAlive'
    <3>1. CASE Sync \/ Crash BY <3>1 DEF Sync, Crash, Refreshed, Kept
    <3>2. CASE CreateTemplate BY <1>0, <3>2 DEF CreateTemplate, HistoryInv, ScheduleInv, CopiesAge, TypeOK
    <3>3. CASE EditTemplate BY <1>0, <3>3 DEF EditTemplate, HistoryInv, ScheduleInv, CopiesAge, TypeOK
    <3> QED BY <1>1, <3>1, <3>2, <3>3 DEF HistoryInv, Tick, DeleteTemplate, DeleteChild, Resync, Alarm
  <2>4. template' = "Present" /\ pc' # "idle" => ver' <= seenVersion'
    <3>1. CASE Sync BY <1>0, <3>1 DEF Sync, Refreshed, HistoryInv, ScheduleInv, CopiesAge, TypeOK
    <3>2. CASE CreateTemplate BY <1>0, <3>2 DEF CreateTemplate, HistoryInv, ScheduleInv, CopiesAge, TypeOK
    <3> QED BY <1>2, <3>1, <3>2 DEF HistoryInv, Tick, EditTemplate, DeleteTemplate, DeleteChild, Resync, Alarm, Crash, Forget
  <2>5. pc' \in Working /\ Fresh' => Kept' \subseteq list'
    BY <1>1, <1>2 DEF HistoryInv
  <2>6. pc' \in {"sweep", "update"} /\ Fresh' => alive' \ lost' \subseteq list'
    BY <1>1, <1>2 DEF HistoryInv
  <2> QED BY <2>1, <2>2, <2>3, <2>4, <2>5, <2>6
<1>4. SweepBounded'
  <2>1. CASE pc' = "idle" BY <2>1 DEF SweepBounded
  <2>2. CASE UNCHANGED workVars /\ (Fresh' => Fresh)
    <3>1. /\ alive \ lost \in SUBSET Due /\ alive' \ lost' \in SUBSET (alive \ lost)
          /\ alive \ (lost \cup victims) \in SUBSET Due
          /\ alive' \ (lost' \cup victims) \in SUBSET (alive \ (lost \cup victims))
      BY <1>0, <1>1 DEF TypeOK
    <3>2. /\ Cardinality(alive \ lost) \in Nat /\ Cardinality(alive' \ lost') \in Nat
          /\ Cardinality(alive' \ lost') <= Cardinality(alive \ lost)
      BY <3>1, FewerChildren
    <3>3. /\ Cardinality(alive \ (lost \cup victims)) \in Nat
          /\ Cardinality(alive' \ (lost' \cup victims)) \in Nat
          /\ Cardinality(alive' \ (lost' \cup victims)) <= Cardinality(alive \ (lost \cup victims))
      BY <3>1, FewerChildren
    <3>4. faults \in Nat BY <1>0, ScheduleBoundAssumption DEF TypeOK
    <3> QED BY <1>1, <2>2, <3>2, <3>3, <3>4, LimitAssumption DEF SweepBounded, HistoryInv
  <2> QED BY <1>2, <2>1, <2>2
<1>5. HistoryBounded'
  <2>1. faults <= faults' BY <1>0, <1>1, ScheduleBoundAssumption DEF TypeOK
  <2> QED BY <1>0, <1>1, <2>1, NoMoreKept DEF HistoryInv
<1> QED BY <1>0, <1>3, <1>4, <1>5 DEF HistoryInv

\* The worker.  While its copy is current, it lists every child that counts
\* before it sweeps, and the sweep leaves Limit of them and the latest.
LEMMA HistoryWorker == ASSUME HistoryInv, WorkerStep PROVE HistoryInv'
<1>0. ScheduleInv' /\ TypeOK' /\ TypeOK
  BY ScheduleWorker DEF HistoryInv, ScheduleInv
<1>a. faults \in Nat /\ faults' \in Nat /\ MaxFaults \in Nat /\ version \in Nat /\ seenVersion \in Nat
  BY <1>0, ScheduleBoundAssumption DEF TypeOK
<1> USE DEF crVars, cacheVars, reqVars, workVars, histVars
<1>1. CASE Reconcile \/ Wait \/ Look
  <2>1. /\ UNCHANGED <<template, version, next, active, alive, lost, faults, cacheVars>>
        /\ pc' \notin {"sweep", "update"}
    BY <1>1 DEF Reconcile, Wait, ReturnUntil, Return, Forget, Look
  <2>2. ChildrenListed'
    <3>1. CASE Reconcile
      <4>1. template' = "Present" /\ pc' # "idle" => ver' <= seenVersion'
        BY <3>1, <1>a DEF Reconcile
      <4>2. pc' \in Working /\ Fresh' => Kept' \subseteq list'
        BY <3>1 DEF Reconcile, Fresh, Kept, HistoryInv, ChildrenListed
      <4> QED BY <2>1, <4>1, <4>2 DEF HistoryInv, ChildrenListed, Kept
    <3>2. CASE Wait BY <2>1, <3>2 DEF Wait, ReturnUntil, Return, Forget, HistoryInv, ChildrenListed, Kept
    <3>3. CASE Look BY <2>1, <3>3 DEF Look, HistoryInv, ChildrenListed, Kept, Fresh
    <3> QED BY <1>1, <3>1, <3>2, <3>3
  <2>3. SweepBounded' BY <2>1 DEF SweepBounded
  <2>4. Kept' \subseteq Kept /\ faults <= faults' BY <2>1, <1>a DEF Kept
  <2>5. HistoryBounded' BY <1>0, <2>4, NoMoreKept DEF HistoryInv
  <2> QED BY <1>0, <2>2, <2>3, <2>5 DEF HistoryInv
<1>2. CASE InitNext
  <2>1. /\ pc = "init" /\ pc' = "idle" /\ UNCHANGED <<template, active, alive, lost, cacheVars>>
        /\ \/ Fresh /\ version' = version + 1 /\ faults' = faults /\ next' = due
           \/ UNCHANGED <<version, next>> /\ faults' \in {faults, faults + 1}
    BY <1>2 DEF InitNext, ReturnUntil, Return, Forget, Fault, NoFault
  <2>2. Fresh => alive = {} /\ seenVersion <= version
    BY <1>0, <2>1 DEF HistoryInv, ScheduleInv, ChildrenListed, CopiesAge, TypeOK
  <2>3. Kept' \subseteq Kept /\ faults <= faults' BY <1>a, <2>1, <2>2 DEF Kept
  <2>4. ChildrenListed'
    <3>1. CASE Fresh /\ version' = version + 1 /\ next' = due
      BY <1>a, <2>1, <2>2, <3>1 DEF HistoryInv, ChildrenListed, Kept
    <3>2. CASE UNCHANGED <<version, next>>
      BY <2>1, <3>2 DEF HistoryInv, ChildrenListed, Kept
    <3> QED BY <2>1, <3>1, <3>2
  <2>5. SweepBounded' BY <2>1 DEF SweepBounded
  <2>6. HistoryBounded' BY <1>0, <2>3, NoMoreKept DEF HistoryInv
  <2> QED BY <1>0, <2>4, <2>5, <2>6 DEF HistoryInv
<1>3. CASE CreateChild
  <2>1. /\ pc = "create" /\ pc' \in {"limit", "idle"}
        /\ UNCHANGED <<template, version, next, active, lost, cacheVars>>
        /\ faults' \in {faults, faults + 1}
        /\ \/ due \notin alive /\ alive' = alive \cup {due}
           \/ alive' = alive
        /\ pc' = "limit" => UNCHANGED <<ver, due, list>>
    BY <1>3 DEF CreateChild, NameTaken, Return, Forget, Fault, NoFault
  <2>2. due \in Due /\ due <= next /\ first <= due /\ next \in 0..(Horizon + 1)
    BY <1>0, <2>1 DEF HistoryInv, ScheduleInv, CopiesAge, WorkerKnows, TypeOK
  \* A time behind nextRunAt is made up for again only when its child was lost.
  <2>3. due \in alive \cup lost \cup {next}
    <3> SUFFICES ASSUME due \notin alive \cup lost \cup {next} PROVE FALSE
      OBVIOUS
    <3>1. due < next BY <2>2
    <3>2. created[due] > 0 BY <2>2, <3>1 DEF HistoryInv, ScheduleInv, NoneSkipped
    <3>3. due < due BY <2>1, <2>2, <3>2 DEF HistoryInv, ScheduleInv, ChildrenKnown
    <3> QED BY <2>2, <3>3
  <2>4. Kept' \subseteq Kept /\ faults <= faults' BY <1>a, <2>1, <2>3 DEF Kept
  <2>5. ChildrenListed'
    <3>1. \A k \in alive' : k <= next' BY <2>1, <2>2 DEF HistoryInv, ChildrenListed
    <3>2. pc' \in Working /\ Fresh' => Kept' \subseteq list'
      BY <2>1, <2>4 DEF HistoryInv, ChildrenListed, Fresh
    <3> QED BY <2>1, <2>4, <3>1, <3>2 DEF HistoryInv, ChildrenListed
  <2>6. SweepBounded' BY <2>1 DEF SweepBounded
  <2>7. HistoryBounded' BY <1>0, <2>4, NoMoreKept DEF HistoryInv
  <2> QED BY <1>0, <2>5, <2>6, <2>7 DEF HistoryInv
<1>4. CASE EnforceLimit
  <2>1. /\ pc = "limit" /\ pc' \in {"sweep", "update"} /\ list' = list \cup {due}
        /\ faults' \in {faults, faults + 1}
        /\ UNCHANGED <<template, version, next, active, alive, lost, cacheVars, ver, due>>
    BY <1>4 DEF EnforceLimit, Fault, NoFault
  <2>2. due \in Due /\ (Fresh => due = next)
    BY <2>1 DEF HistoryInv, ScheduleInv, CopiesAge, WorkerKnows
  <2>3. Fresh => Kept \subseteq list /\ Kept \subseteq seenAlive
    <3>1. Fresh => seenVersion = version
      BY <1>a, <1>0, <2>1 DEF HistoryInv, ScheduleInv, CopiesAge, ChildrenListed, Fresh, TypeOK
    <3> QED BY <2>1, <3>1 DEF HistoryInv, ChildrenListed, Fresh
  <2>4. Kept' \subseteq Kept /\ faults <= faults' BY <1>a, <2>1 DEF Kept
  <2>5. ChildrenListed'
    BY <2>1, <2>2, <2>3 DEF HistoryInv, ChildrenListed, Fresh, Kept
  <2>6. SweepBounded'
    <3> SUFFICES ASSUME Limit >= 0, Fresh, due = next, Kept \subseteq list, Kept \subseteq seenAlive
                 PROVE  /\ pc' = "sweep" => Cardinality(alive \ (lost \cup victims')) <= Limit + 1 + faults'
                        /\ pc' = "update" => Cardinality(alive \ lost) <= Limit + 1 + faults'
      BY <2>1, <2>2, <2>3 DEF SweepBounded, Fresh
    <3> DEFINE S == alive \ lost
    <3>0. /\ S \in SUBSET Due /\ seenAlive \in SUBSET Due /\ list' \in SUBSET Due
          /\ Kept \in SUBSET Due /\ Kept \in SUBSET seenAlive
          /\ Kept = S \ {due} /\ S \in SUBSET list'
      BY <1>0, <2>1, <2>2 DEF TypeOK, Kept
    <3>1. /\ Cardinality(S) \in Nat /\ Cardinality(Kept) \in Nat /\ Cardinality(seenAlive) \in Nat
          /\ Cardinality(list') \in Nat /\ Cardinality(S) <= Cardinality(list')
          /\ Cardinality(Kept) <= Cardinality(seenAlive)
      BY <3>0, FewerChildren
    <3>2. Cardinality(S) <= Cardinality(Kept) + 1 BY <3>0, AllButOne
    <3>3. CASE pc' = "update"
      <4>1. \/ Cardinality(list') <= Limit
            \/ Cardinality(seenAlive) <= Limit
            \/ faults' = faults + 1
        BY <1>4, <3>1, <3>3, LimitAssumption DEF EnforceLimit, Fault
      <4>2. Cardinality(Kept) <= Limit + 1 + faults
        BY <1>a, <3>0 DEF HistoryInv, HistoryBounded, Kept
      <4> QED BY <1>a, <2>1, <3>1, <3>2, <3>3, <4>1, <4>2, LimitAssumption
    <3>4. CASE pc' = "sweep"
      <4>1. victims' \in Oldest(seenAlive) /\ faults' = faults
        BY <1>4, <3>4, LimitAssumption DEF EnforceLimit, NoFault
      <4>2. Cardinality(seenAlive \ victims') = Limit BY <3>0, <4>1, SweepLeaves
      <4> DEFINE R == alive \ (lost \cup victims')
      <4>3. R \in SUBSET Due /\ R \ {due} \in SUBSET (seenAlive \ victims')
            /\ seenAlive \ victims' \in SUBSET Due
        BY <3>0 DEF Kept
      <4>4. /\ Cardinality(R) \in Nat /\ Cardinality(R \ {due}) \in Nat
            /\ Cardinality(R \ {due}) <= Limit
        BY <4>2, <4>3, FewerChildren
      <4>5. Cardinality(R) <= Cardinality(R \ {due}) + 1 BY <4>3, AllButOne
      <4> QED BY <1>a, <3>4, <4>1, <4>4, <4>5, LimitAssumption
    <3> QED BY <2>1, <3>3, <3>4
  <2>7. HistoryBounded' BY <1>0, <2>4, NoMoreKept DEF HistoryInv
  <2> QED BY <1>0, <2>5, <2>6, <2>7 DEF HistoryInv
<1>5. CASE Sweep
  <2>1. /\ pc = "sweep" /\ UNCHANGED <<template, version, next, active, cacheVars>>
        /\ faults' \in {faults, faults + 1}
    BY <1>5 DEF Sweep, Fault, NoFault
  <2>2. due \in Due /\ (Fresh => due = next)
    BY <2>1 DEF HistoryInv, ScheduleInv, CopiesAge, WorkerKnows
  \* One more of the victims is deleted, as long as there are some.
  <2>3. CASE \E v \in victims :
               /\ UNCHANGED <<faults, pc, ver, due>>
               /\ alive' = alive \ {v} /\ list' = list \ {v} /\ victims' = victims \ {v}
               /\ lost \subseteq lost'
    <3>1. /\ Kept' \subseteq Kept /\ alive' \subseteq alive /\ alive' \ lost' \subseteq alive \ lost
          /\ alive' \ (lost' \cup victims') \subseteq alive \ (lost \cup victims)
          /\ (Kept \subseteq list => Kept' \subseteq list')
          /\ (alive \ lost \subseteq list => alive' \ lost' \subseteq list')
      BY <2>1, <2>3 DEF Kept
    <3>2. faults' = faults /\ pc' = pc /\ ver' = ver BY <2>3
    <3>3. ChildrenListed'
      BY <2>1, <3>1, <3>2 DEF HistoryInv, ChildrenListed, Fresh
    <3>4. SweepBounded'
      <4>1. /\ alive \ (lost \cup victims) \in SUBSET Due
            /\ alive' \ (lost' \cup victims') \in SUBSET (alive \ (lost \cup victims))
        BY <1>0, <3>1 DEF TypeOK
      <4>2. /\ Cardinality(alive \ (lost \cup victims)) \in Nat
            /\ Cardinality(alive' \ (lost' \cup victims')) \in Nat
            /\ Cardinality(alive' \ (lost' \cup victims')) <= Cardinality(alive \ (lost \cup victims))
        BY <4>1, FewerChildren
      <4> QED BY <1>a, <2>1, <3>2, <4>2, LimitAssumption DEF HistoryInv, SweepBounded, Fresh
    <3>5. faults <= faults' BY <1>a, <3>2
    <3>6. HistoryBounded' BY <1>0, <3>1, <3>5, NoMoreKept DEF HistoryInv
    <3> QED BY <1>0, <3>3, <3>4, <3>6 DEF HistoryInv
  \* The sweep is over: it took all, or it failed.
  <2>4. CASE /\ \/ victims # {} /\ faults' = faults + 1
                \/ victims = {} /\ faults' = faults
             /\ \/ pc' = "idle"
                \/ pc' = "update" /\ UNCHANGED <<ver, due, list>>
             /\ UNCHANGED <<alive, lost>>
    <3>1. Kept' \subseteq Kept /\ faults <= faults' BY <1>a, <2>1, <2>4 DEF Kept
    <3>2. ChildrenListed'
      BY <2>1, <2>4, <3>1 DEF HistoryInv, ChildrenListed, Fresh
    <3>3. SweepBounded'
      <4> SUFFICES ASSUME Limit >= 0, Fresh, pc' = "update"
                   PROVE  Cardinality(alive \ lost) <= Limit + 1 + faults'
        BY <2>1, <2>4 DEF SweepBounded, Fresh
      <4>1. CASE victims = {}
        <5>1. lost \cup victims = lost BY <4>1
        <5> QED BY <2>1, <2>4, <4>1, <5>1 DEF HistoryInv, SweepBounded
      <4>2. CASE victims # {}
        <5>1. alive \ lost \in SUBSET Due /\ Kept = (alive \ lost) \ {due}
          BY <1>0, <2>2 DEF TypeOK, Kept
        <5>2. /\ Cardinality(alive \ lost) \in Nat /\ Cardinality(Kept) \in Nat
              /\ Cardinality(alive \ lost) <= Cardinality(Kept) + 1
          BY <5>1, FewerChildren, AllButOne
        <5>3. Cardinality(Kept) <= Limit + 1 + faults BY DEF HistoryInv, HistoryBounded, Kept
        <5> QED BY <1>a, <2>4, <4>2, <5>2, <5>3, LimitAssumption
      <4> QED BY <4>1, <4>2
    <3>4. HistoryBounded' BY <1>0, <3>1, NoMoreKept DEF HistoryInv
    <3> QED BY <1>0, <3>2, <3>3, <3>4 DEF HistoryInv
  <2> QED BY <1>5, <2>3, <2>4 DEF Sweep, Fault, NoFault, Return, Forget
<1>6. CASE UpdateNext
  <2>1. /\ pc = "update" /\ pc' = "idle" /\ UNCHANGED <<template, alive, lost, cacheVars>>
        /\ \/ /\ Fresh /\ version' = version + 1 /\ faults' = faults
              /\ next' = due + 1 /\ active' = list
           \/ UNCHANGED <<version, next, active>> /\ faults' \in {faults, faults + 1}
    BY <1>6 DEF UpdateNext, NextAfter, ReturnUntil, Return, Forget, Fault, NoFault
  <2>2. due \in Due /\ (Fresh => due = next) /\ seenVersion <= version
    BY <2>1 DEF HistoryInv, ScheduleInv, CopiesAge, WorkerKnows
  <2>3. SweepBounded' BY <2>1 DEF SweepBounded
  <2>4. CASE Fresh /\ version' = version + 1 /\ faults' = faults /\ next' = due + 1 /\ active' = list
    <3>1. alive \ lost \subseteq list BY <2>1, <2>4 DEF HistoryInv, ChildrenListed
    <3>2. \A k \in alive' : k <= next'
      <4>1. \A k \in alive : k \in Due /\ k <= due BY <1>0, <2>2, <2>4 DEF HistoryInv, ChildrenListed, TypeOK
      <4> QED BY <2>1, <2>2, <2>4, <4>1
    <3>3. ChildrenListed' BY <1>a, <2>1, <2>2, <2>4, <3>1, <3>2 DEF ChildrenListed, Kept
    <3>4. HistoryBounded'
      <4> SUFFICES ASSUME Limit >= 0 PROVE Cardinality(alive \ (lost \cup {due + 1})) <= Limit + 1 + faults
        BY <2>1, <2>4 DEF HistoryBounded
      <4>1. /\ alive \ lost \in SUBSET Due
            /\ alive \ (lost \cup {due + 1}) \in SUBSET (alive \ lost)
        BY <1>0 DEF TypeOK
      <4>2. Cardinality(alive \ lost) <= Limit + 1 + faults
        BY <2>1, <2>4 DEF HistoryInv, SweepBounded
      <4>3. /\ Cardinality(alive \ lost) \in Nat /\ Cardinality(alive \ (lost \cup {due + 1})) \in Nat
            /\ Cardinality(alive \ (lost \cup {due + 1})) <= Cardinality(alive \ lost)
        BY <4>1, FewerChildren
      <4> QED BY <1>a, <4>2, <4>3, LimitAssumption
    <3> QED BY <1>0, <2>3, <3>3, <3>4 DEF HistoryInv
  <2>5. CASE UNCHANGED <<version, next, active>> /\ faults' \in {faults, faults + 1}
    <3>1. Kept' \subseteq Kept /\ faults <= faults' BY <1>a, <2>1, <2>5 DEF Kept
    <3>2. ChildrenListed' BY <2>1, <2>5, <3>1 DEF HistoryInv, ChildrenListed
    <3>3. HistoryBounded' BY <1>0, <3>1, NoMoreKept DEF HistoryInv
    <3> QED BY <1>0, <2>3, <3>2, <3>3 DEF HistoryInv
  <2> QED BY <2>1, <2>4, <2>5
<1> QED BY <1>1, <1>2, <1>3, <1>4, <1>5, <1>6 DEF WorkerStep

\* The history stays within its limit but for the latest child, failed sweeps
\* and children deleted too early, for every limit, horizon and interference:
\* neither a stale list of children nor a stale template lets one escape.
THEOREM HistoryStaysBounded == Spec => []HistoryBounded
<1>1. HistoryInv /\ [Next]_vars => HistoryInv'
  <2> SUFFICES ASSUME HistoryInv, [Next]_vars PROVE HistoryInv'
    OBVIOUS
  <2>1. CASE UNCHANGED vars
    BY <2>1, ScheduleStep
       DEF vars, crVars, cacheVars, reqVars, workVars, histVars, HistoryInv, ChildrenListed, Kept,
           SweepBounded, HistoryBounded, Fresh
  <2>2. CASE Next BY <2>2, HistoryEnvironment, HistoryWorker DEF Next
  <2> QED BY <2>1, <2>2
<1>2. HistoryInv => HistoryBounded BY DEF HistoryInv
<1> QED BY <1>1, <1>2, HistoryInit, PTL DEF Spec
=============================================================================
