-------------------------- MODULE NotificationProofs --------------------------
(***************************************************************************)
(* Proofs about Notification, for any number of callers, requests, rows    *)
(* and events and every window: an event is let through at most once in    *)
(* TTL, what is let through is sent to every channel that wants it or      *)
(* reported as failed, and an edit that meets no other takes effect.       *)
(***************************************************************************)
EXTENDS Notification, FiniteSetTheorems, TLAPS

Steady ==
  /\ UNCHANGED mgrVars
  /\ \A c \in Callers : pc'[c] = "arm" => pc[c] = "arm" /\ event'[c] = event[c]

NotifyInv == ManagerOK /\ WindowInv

\* A step that starts no window and leaves map and timers alone.
LEMMA SteadyWindow == ASSUME WindowInv, Steady PROVE WindowInv'
<1>1. UNCHANGED <<held, timers, age>> BY DEF Steady, mgrVars
<1> QED BY <1>1 DEF WindowInv, Steady

LEMMA NotifyInit == Init => NotifyInv
<1> SUFFICES ASSUME Init PROVE NotifyInv OBVIOUS
<1>1. AnEvent \in Events BY EventsAssumption DEF AnEvent
<1>2. ManagerOK
  BY <1>1, TTLAssumption, NotifyBoundAssumption DEF Init, ManagerOK, PCs, Jobs
<1>3. WindowInv BY TTLAssumption DEF Init, WindowInv
<1> QED BY <1>2, <1>3 DEF NotifyInv

LEMMA ClaimKeeps ==
  ASSUME NotifyInv, NEW c \in Callers, NEW e \in Events, Claim(c, e)
  PROVE  NotifyInv'
<1> USE TTLAssumption DEF NotifyInv
<1>1. /\ held' = held \cup {e} /\ age' = [age EXCEPT ![e] = 0] /\ timers' = timers
      /\ pc' = [pc EXCEPT ![c] = "arm"] /\ event' = [event EXCEPT ![c] = e]
      /\ pc[c] = "idle" /\ e \notin held
      /\ starts' = starts + 1 /\ starts < MaxStarts
      /\ UNCHANGED <<at, job, faults>>
  BY DEF Claim, Start, reqVars
<1>2. age' \in [Events -> 0..TTL] BY <1>1 DEF ManagerOK
<1>3. pc' \in [Callers -> PCs] BY <1>1 DEF ManagerOK, PCs
<1>4. event' \in [Callers -> Events] BY <1>1 DEF ManagerOK
<1>0. starts' \in 0..MaxStarts BY <1>1, NotifyBoundAssumption DEF ManagerOK
<1>5. ManagerOK' BY <1>0, <1>1, <1>2, <1>3, <1>4 DEF ManagerOK
<1>6. \A t \in timers : t[1] # e BY <1>1 DEF WindowInv
<1>7. \A t \in timers' : t[1] \in held' /\ age'[t[1]] + t[2] >= TTL
  <2> TAKE t \in timers'
  <2>1. t[1] \in Events /\ t[1] # e /\ t \in timers BY <1>1, <1>6 DEF ManagerOK
  <2>2. age'[t[1]] = age[t[1]] BY <2>1, <1>1 DEF ManagerOK
  <2> QED BY <2>1, <2>2, <1>1 DEF WindowInv
<1>8. \A f \in Events \ held' : age'[f] = TTL BY <1>1 DEF ManagerOK, WindowInv
<1>9. \A d \in Callers : pc'[d] = "arm" =>
        event'[d] \in held' /\ \A t \in timers' : t[1] # event'[d]
  BY <1>1, <1>6 DEF ManagerOK, WindowInv
<1>10. \A b, d \in Callers :
         (pc'[b] = "arm" /\ pc'[d] = "arm" /\ event'[b] = event'[d]) => b = d
  BY <1>1 DEF ManagerOK, WindowInv
<1> QED BY <1>1, <1>5, <1>7, <1>8, <1>9, <1>10 DEF WindowInv

LEMMA ArmKeeps == ASSUME NotifyInv, NEW c \in Callers, Arm(c) PROVE NotifyInv'
<1> USE TTLAssumption DEF NotifyInv
<1>1. /\ timers' = timers \cup {<<event[c], TTL>>} /\ pc' = [pc EXCEPT ![c] = "copy"]
      /\ pc[c] = "arm"
      /\ UNCHANGED <<held, age, event, at, job, starts, faults>>
  BY DEF Arm, reqVars
<1>2. timers' \subseteq Events \X (0..TTL) BY <1>1 DEF ManagerOK
<1>3. pc' \in [Callers -> PCs] BY <1>1 DEF ManagerOK, PCs
<1>4. ManagerOK' BY <1>1, <1>2, <1>3 DEF ManagerOK
<1>5. event[c] \in held /\ \A t \in timers : t[1] # event[c] BY <1>1 DEF WindowInv
<1>6. \A t \in timers' : t[1] \in held' /\ age'[t[1]] + t[2] >= TTL
  <2> TAKE t \in timers'
  <2>1. CASE t \in timers BY <2>1, <1>1 DEF WindowInv
  <2>2. CASE t = <<event[c], TTL>>
    <3>1. age[event[c]] \in 0..TTL BY DEF ManagerOK
    <3> QED BY <2>2, <3>1, <1>1, <1>5
  <2> QED BY <2>1, <2>2, <1>1
<1>7. \A f \in Events \ held' : age'[f] = TTL BY <1>1 DEF WindowInv
<1>8. \A d \in Callers : pc'[d] = "arm" =>
        event'[d] \in held' /\ \A t \in timers' : t[1] # event'[d]
  <2> TAKE d \in Callers
  <2> HAVE pc'[d] = "arm"
  <2>1. d # c /\ pc[d] = "arm" BY <1>1 DEF ManagerOK
  <2>2. event[d] # event[c] BY <2>1, <1>1 DEF WindowInv
  <2> QED BY <2>1, <2>2, <1>1 DEF WindowInv
<1>9. \A t, u \in timers' : t[1] = u[1] => t = u BY <1>1, <1>5 DEF WindowInv
<1>10. \A b, d \in Callers :
         (pc'[b] = "arm" /\ pc'[d] = "arm" /\ event'[b] = event'[d]) => b = d
  BY <1>1 DEF ManagerOK, WindowInv
<1> QED BY <1>4, <1>6, <1>7, <1>8, <1>9, <1>10 DEF WindowInv

LEMMA ExpireKeeps == ASSUME NotifyInv, NEW t \in timers, Expire(t) PROVE NotifyInv'
<1> USE TTLAssumption DEF NotifyInv
<1>1. /\ timers' = timers \ {t} /\ held' = held \ {t[1]} /\ t[2] = 0
      /\ UNCHANGED <<age, pc, event, at, job, starts, faults>>
  BY DEF Expire, callVars, reqVars
<1>2. ManagerOK' BY <1>1 DEF ManagerOK
<1>3. t[1] \in Events /\ age[t[1]] \in 0..TTL BY DEF ManagerOK
<1>4. age[t[1]] = TTL
  <2>1. age[t[1]] + 0 >= TTL BY <1>1 DEF WindowInv
  <2> QED BY <2>1, <1>3
<1>5. \A u \in timers' : u[1] # t[1] BY <1>1 DEF WindowInv
<1>6. \A u \in timers' : u[1] \in held' /\ age'[u[1]] + u[2] >= TTL
  BY <1>1, <1>5 DEF WindowInv
<1>7. \A f \in Events \ held' : age'[f] = TTL BY <1>1, <1>4 DEF WindowInv
<1>8. \A d \in Callers : pc'[d] = "arm" =>
        event'[d] \in held' /\ \A u \in timers' : u[1] # event'[d]
  BY <1>1 DEF WindowInv
<1> QED BY <1>1, <1>2, <1>6, <1>7, <1>8 DEF WindowInv

LEMMA TickKeeps == ASSUME NotifyInv, Tick PROVE NotifyInv'
<1> USE TTLAssumption DEF NotifyInv
<1> DEFINE Older(t) == <<t[1], IF t[2] = 0 THEN 0 ELSE t[2] - 1>>
<1>1. /\ timers' = {Older(t) : t \in timers}
      /\ age' = [e \in Events |-> IF age[e] = TTL THEN TTL ELSE age[e] + 1]
      /\ UNCHANGED <<held, pc, event, at, job, starts, faults>>
  BY DEF Tick, callVars, reqVars
<1>2. \A t \in timers : t[1] \in Events /\ t[2] \in 0..TTL /\ age[t[1]] \in 0..TTL
  BY DEF ManagerOK
<1>3. \A t \in timers : Older(t)[1] = t[1] /\ Older(t)[2] \in 0..TTL BY <1>2
<1>4. timers' \subseteq Events \X (0..TTL) BY <1>1, <1>2, <1>3
<1>5. age' \in [Events -> 0..TTL] BY <1>1 DEF ManagerOK
<1>6. ManagerOK' BY <1>1, <1>4, <1>5 DEF ManagerOK
<1>7. \A u \in timers' : u[1] \in held' /\ age'[u[1]] + u[2] >= TTL
  <2> TAKE u \in timers'
  <2>1. PICK t \in timers : u = Older(t) BY <1>1
  <2>2. u[1] = t[1] /\ u[2] = IF t[2] = 0 THEN 0 ELSE t[2] - 1 BY <2>1
  <2>3. age'[t[1]] = IF age[t[1]] = TTL THEN TTL ELSE age[t[1]] + 1 BY <1>1, <1>2
  <2>4. t[1] \in held /\ age[t[1]] + t[2] >= TTL BY DEF WindowInv
  <2> HIDE DEF Older
  <2> QED BY <2>2, <2>3, <2>4, <1>1, <1>2
<1>8. \A f \in Events \ held' : age'[f] = TTL BY <1>1 DEF WindowInv
<1>9. \A d \in Callers : pc'[d] = "arm" =>
        event'[d] \in held' /\ \A u \in timers' : u[1] # event'[d]
  BY <1>1, <1>3 DEF WindowInv
<1>10. \A u, v \in timers' : u[1] = v[1] => u = v
  <2> TAKE u, v \in timers'
  <2> HAVE u[1] = v[1]
  <2>1. PICK s \in timers : u = Older(s) BY <1>1
  <2>2. PICK t \in timers : v = Older(t) BY <1>1
  <2>3. s[1] = t[1] BY <2>1, <2>2, <1>3
  <2>4. s = t BY <2>3 DEF WindowInv
  <2> QED BY <2>1, <2>2, <2>4
<1> QED BY <1>1, <1>6, <1>7, <1>8, <1>9, <1>10 DEF WindowInv

LEMMA RestartKeeps == ASSUME NotifyInv, Restart PROVE NotifyInv'
<1> USE TTLAssumption, NotifyBoundAssumption DEF NotifyInv
<1>1. /\ held' = {} /\ timers' = {} /\ age' = [e \in Events |-> TTL]
      /\ pc' = [c \in Callers |-> "idle"] /\ event' = [c \in Callers |-> AnEvent]
      /\ at' = [c \in Callers |-> 0] /\ job' = [r \in Requests |-> "idle"]
      /\ starts' = starts /\ faults < MaxFaults /\ faults' = faults + 1
  BY DEF Restart, Fault
<1>3. faults' \in 0..MaxFaults BY <1>1 DEF ManagerOK
<1>4. AnEvent \in Events BY EventsAssumption DEF AnEvent
<1>5. ManagerOK' BY <1>1, <1>3, <1>4 DEF ManagerOK, PCs, Jobs
<1>6. WindowInv' BY <1>1 DEF WindowInv
<1> QED BY <1>5, <1>6

\* What is left of Notify changes the caller alone.
LEMMA CallKeeps ==
  ASSUME NotifyInv, NEW c \in Callers, Snapshot(c) \/ Send(c) \/ Return(c)
  PROVE  NotifyInv'
<1> USE DEF NotifyInv
<1>1. /\ UNCHANGED <<mgrVars, job, starts>>
      /\ pc[c] # "arm"
      /\ \/ pc' = pc \/ pc' = [pc EXCEPT ![c] = "send"] \/ pc' = [pc EXCEPT ![c] = "idle"]
      /\ event' = event \/ event' = [event EXCEPT ![c] = AnEvent]
  BY DEF Snapshot, Send, Return, reqVars
<1>2. pc' \in [Callers -> PCs] BY <1>1 DEF ManagerOK, PCs
<1>3. event' \in [Callers -> Events] BY <1>1, EventsAssumption DEF ManagerOK, AnEvent
<1>4. at' \in [Callers -> Nat] BY DEF Snapshot, Send, Return, ManagerOK
<1>5. faults' = faults \/ (faults < MaxFaults /\ faults' = faults + 1)
  BY DEF Snapshot, Send, Return, Deliver, Fault
<1>6. faults' \in 0..MaxFaults BY <1>5, NotifyBoundAssumption DEF ManagerOK
<1>7. ManagerOK' BY <1>1, <1>2, <1>3, <1>4, <1>6 DEF ManagerOK, mgrVars
<1>8. \A d \in Callers : pc'[d] = "arm" => pc[d] = "arm" /\ event'[d] = event[d]
  BY <1>1 DEF ManagerOK
<1>9. WindowInv' BY <1>1, <1>8, SteadyWindow DEF Steady
<1> QED BY <1>7, <1>9

\* The requests, and a client that leaves, leave the window alone.
LEMMA RequestKeeps ==
  ASSUME NotifyInv, NEW r \in Requests,
         Edit(r) \/ Serve(r) \/ \E k \in DOMAIN configs : ReadForTest(r, k)
  PROVE  NotifyInv'
<1> USE NotifyBoundAssumption DEF NotifyInv
<1>1. UNCHANGED <<mgrVars, callVars>>
  BY DEF Edit, Serve, Create, Update, Delete, Wrote, ListRows, ListFails, Reload, ReadForTest,
         SendTest, AnswerTest
<1>2. /\ \/ job' = [job EXCEPT ![r] = "list"] \/ job' = [job EXCEPT ![r] = "load"]
         \/ job' = [job EXCEPT ![r] = "idle"] \/ job' = [job EXCEPT ![r] = "test"]
         \/ job' = [job EXCEPT ![r] = "tested"]
      /\ starts' = starts \/ (starts < MaxStarts /\ starts' = starts + 1)
      /\ faults' = faults \/ (faults < MaxFaults /\ faults' = faults + 1)
  BY DEF Edit, Serve, Create, Update, Delete, Wrote, Begin, ListRows, ListFails, Reload,
         ReadForTest, SendTest, AnswerTest, Deliver, Start, Fault
<1>3. job' \in [Requests -> Jobs] BY <1>2 DEF ManagerOK, Jobs
<1>4. starts' \in 0..MaxStarts /\ faults' \in 0..MaxFaults BY <1>2 DEF ManagerOK
<1>5. ManagerOK' BY <1>1, <1>3, <1>4 DEF ManagerOK, mgrVars, callVars
<1>6. Steady BY <1>1 DEF Steady, callVars
<1> QED BY <1>5, <1>6, SteadyWindow

LEMMA DisconnectKeeps == ASSUME NotifyInv, NEW x, Disconnect(x) PROVE NotifyInv'
<1> USE NotifyBoundAssumption DEF NotifyInv
<1>1. /\ UNCHANGED <<held, timers, age, pc, event, at, job, starts>>
      /\ faults < MaxFaults /\ faults' = faults + 1
  BY DEF Disconnect, Fault, mgrVars, callVars, reqVars
<1>2. faults' \in 0..MaxFaults BY <1>1 DEF ManagerOK
<1>3. ManagerOK' BY <1>1, <1>2 DEF ManagerOK
<1>4. Steady BY <1>1 DEF Steady, mgrVars
<1> QED BY <1>3, <1>4, SteadyWindow

LEMMA NotifyStep == NotifyInv /\ [Next]_vars => NotifyInv'
<1> SUFFICES ASSUME NotifyInv, [Next]_vars PROVE NotifyInv' OBVIOUS
<1>1. CASE \E c \in Callers : Dispatch(c) BY <1>1, ArmKeeps, CallKeeps DEF Dispatch
<1>2. CASE \E c \in Callers, e \in Events : Claim(c, e) BY <1>2, ClaimKeeps
<1>3. CASE \E t \in timers : Expire(t) BY <1>3, ExpireKeeps
<1>4. CASE Tick BY <1>4, TickKeeps
<1>5. CASE Restart BY <1>5, RestartKeeps
<1>6. CASE \E r \in Requests :
             Edit(r) \/ Serve(r) \/ \E k \in DOMAIN configs : ReadForTest(r, k)
  BY <1>6, RequestKeeps
<1>8. CASE \E x \in Clients \cup Requests : Disconnect(x) BY <1>8, DisconnectKeeps
<1>7. CASE UNCHANGED vars
  <2>1. UNCHANGED <<held, timers, age, pc, event, at, job, starts, faults>>
    BY <1>7 DEF vars, mgrVars, callVars, reqVars
  <2>2. ManagerOK' BY <2>1 DEF NotifyInv, ManagerOK
  <2>3. Steady BY <2>1 DEF Steady, mgrVars
  <2> QED BY <2>2, <2>3, SteadyWindow DEF NotifyInv
<1> QED BY <1>1, <1>2, <1>3, <1>4, <1>5, <1>6, <1>7, <1>8 DEF Next

\* The manager's part of TypeOK, and the invariant behind the window.
THEOREM NotifyInvariance == Spec => []NotifyInv
<1>1. Init => NotifyInv BY NotifyInit
<1>2. NotifyInv /\ [Next]_vars => NotifyInv' BY NotifyStep
<1> QED BY <1>1, <1>2, PTL DEF Spec

\* An event is let through at most once in TTL (WindowKept).
THEOREM WindowIsKept == Spec => WindowKept
<1> DEFINE Kept == \A c \in Callers : pc[c] = "idle" /\ pc'[c] = "arm" => age[event'[c]] = TTL
<1>1. NotifyInv /\ [Next]_vars => Kept
  <2> SUFFICES ASSUME NotifyInv, [Next]_vars, NEW c \in Callers,
                      pc[c] = "idle", pc'[c] = "arm"
               PROVE  age[event'[c]] = TTL
    OBVIOUS
  <2>1. CASE \E d \in Callers, e \in Events : Claim(d, e)
    BY <2>1 DEF Claim, NotifyInv, ManagerOK, WindowInv
  <2>2. CASE \E d \in Callers : Dispatch(d)
    BY <2>2 DEF Dispatch, Arm, Snapshot, Send, Return, NotifyInv, ManagerOK
  <2>3. CASE \/ \E t \in timers : Expire(t)
             \/ Tick
             \/ \E r \in Requests :
                  Edit(r) \/ Serve(r) \/ \E k \in DOMAIN configs : ReadForTest(r, k)
             \/ \E x \in Clients \cup Requests : Disconnect(x)
             \/ UNCHANGED vars
    BY <2>3 DEF Disconnect, Expire, Tick, Edit, Serve, Create, Update, Delete, Wrote, ListRows, ListFails,
                Reload, ReadForTest, SendTest, AnswerTest, vars, callVars
  <2>4. CASE Restart BY <2>4 DEF Restart
  <2> QED BY <2>1, <2>2, <2>3, <2>4 DEF Next
<1>2. Spec => []NotifyInv BY NotifyInvariance
<1> QED BY <1>1, <1>2, PTL DEF Spec, WindowKept

(***************************************************************************)
(* Edits.                                                                  *)
(***************************************************************************)

Editing == {r \in Requests : job[r] \in {"list", "load"}}

\* While the last edit is a lone one, it is the only one being served, what
\* it loads is what the rows are, and when it is over that is in effect.
LoneInv ==
  /\ job \in [Requests -> Jobs] /\ DOMAIN copy = Requests /\ lone \in BOOLEAN
  /\ lone => /\ \A r, s \in Editing : r = s
             /\ \A r \in Requests : job[r] = "load" => copy[r] = configs
             /\ Editing = {} => InEffect

LEMMA LoneStep == ASSUME LoneInv, [Next]_vars PROVE LoneInv'
<1> USE DEF Jobs
<1>1. ASSUME UNCHANGED <<configs, loaded, job, copy, lone>> PROVE LoneInv'
  BY <1>1 DEF LoneInv, Editing, InEffect
<1>2. ASSUME NEW r \in Requests, Edit(r) PROVE LoneInv'
  <2>1. /\ job' = [job EXCEPT ![r] = "list"] /\ copy' = copy
        /\ lone' = \A s \in Requests : job[s] \notin {"list", "load"}
    BY <1>2 DEF Edit, Create, Update, Delete, Wrote, Begin, NoEdit
  <2>2. lone' \in BOOLEAN BY <2>1
  <2>3. job' \in [Requests -> Jobs] /\ DOMAIN copy' = Requests BY <2>1 DEF LoneInv
  <2>4. ASSUME lone' PROVE Editing' = {r} /\ \A s \in Requests : job'[s] # "load"
    <3>1. \A s \in Requests : job[s] \notin {"list", "load"} BY <2>1, <2>4
    <3>2. \A s \in Requests : s # r => job'[s] = job[s] BY <2>1 DEF LoneInv
    <3>3. job'[r] = "list" BY <2>1 DEF LoneInv
    <3> QED BY <3>1, <3>2, <3>3 DEF Editing
  <2> QED BY <2>2, <2>3, <2>4 DEF LoneInv
<1>3. ASSUME NEW r \in Requests, ListRows(r) PROVE LoneInv'
  <2>1. /\ job' = [job EXCEPT ![r] = "load"] /\ job[r] = "list"
        /\ copy' = [copy EXCEPT ![r] = configs]
        /\ UNCHANGED <<configs, loaded, lone>>
    BY <1>3 DEF ListRows
  <2>2. job' \in [Requests -> Jobs] /\ DOMAIN copy' = Requests BY <2>1 DEF LoneInv
  <2>3. Editing' = Editing /\ r \in Editing BY <2>1 DEF LoneInv, Editing
  <2>4. ASSUME lone, NEW s \in Requests, job'[s] = "load" PROVE copy'[s] = configs'
    <3>1. CASE s = r BY <2>1, <3>1 DEF LoneInv
    <3>2. CASE s # r BY <2>1, <2>4, <3>2 DEF LoneInv
    <3> QED BY <3>1, <3>2
  <2> QED BY <2>1, <2>2, <2>3, <2>4 DEF LoneInv
<1>4. ASSUME NEW r \in Requests, ListFails(r) PROVE LoneInv'
  <2>1. job' = [job EXCEPT ![r] = "idle"] /\ copy' = copy /\ lone' = FALSE
    BY <1>4 DEF ListFails
  <2>2. job' \in [Requests -> Jobs] BY <2>1 DEF LoneInv
  <2> QED BY <2>1, <2>2 DEF LoneInv
<1>5. ASSUME NEW r \in Requests, Reload(r) PROVE LoneInv'
  <2>1. /\ job' = [job EXCEPT ![r] = "idle"] /\ job[r] = "load"
        /\ loaded' = Built(copy[r]) /\ copy' = [copy EXCEPT ![r] = <<>>]
        /\ UNCHANGED <<configs, lone>>
    BY <1>5 DEF Reload
  <2>2. job' \in [Requests -> Jobs] /\ DOMAIN copy' = Requests BY <2>1 DEF LoneInv
  <2>3. r \in Editing /\ Editing' = Editing \ {r} BY <2>1 DEF LoneInv, Editing
  <2>4. ASSUME lone PROVE Editing' = {} /\ InEffect'
    <3>1. Editing' = {} BY <2>3, <2>4 DEF LoneInv
    <3>2. copy[r] = configs BY <2>1, <2>4 DEF LoneInv
    <3>3. Built(configs') = Built(copy[r]) BY <2>1, <3>2
    <3> QED BY <2>1, <3>1, <3>3 DEF InEffect
  <2>5. ASSUME lone, NEW s \in Requests, job'[s] = "load" PROVE FALSE
    BY <2>4, <2>5 DEF Editing
  <2> QED BY <2>1, <2>2, <2>4, <2>5 DEF LoneInv
<1>6. ASSUME NEW r \in Requests,
             SendTest(r) \/ AnswerTest(r) \/ \E k \in DOMAIN configs : ReadForTest(r, k)
      PROVE  LoneInv'
  <2>1. /\ job[r] \notin {"list", "load"} /\ UNCHANGED <<configs, loaded, lone>>
        /\ \E new \in {"idle", "test", "tested"} : job' = [job EXCEPT ![r] = new]
        /\ copy' = copy \/ \E new : copy' = [copy EXCEPT ![r] = new]
    <3>1. CASE SendTest(r) BY <3>1 DEF SendTest
    <3>2. CASE AnswerTest(r) BY <3>2 DEF AnswerTest
    <3>3. CASE \E k \in DOMAIN configs : ReadForTest(r, k) BY <3>3 DEF ReadForTest, Begin
    <3> QED BY <1>6, <3>1, <3>2, <3>3
  <2>2. job' \in [Requests -> Jobs] /\ DOMAIN copy' = Requests BY <2>1 DEF LoneInv
  <2>3. /\ job'[r] \in {"idle", "test", "tested"}
        /\ \A s \in Requests : s # r => job'[s] = job[s] /\ copy'[s] = copy[s]
    BY <2>1 DEF LoneInv
  <2>4. Editing' = Editing BY <2>1, <2>3 DEF Editing
  <2>5. InEffect' <=> InEffect BY <2>1 DEF InEffect
  <2>6. ASSUME lone, NEW s \in Requests, job'[s] = "load" PROVE copy'[s] = configs'
    BY <2>1, <2>3, <2>6 DEF LoneInv
  <2> QED BY <2>1, <2>2, <2>4, <2>5, <2>6 DEF LoneInv
<1>7. CASE Restart
  <2>1. /\ job' = [r \in Requests |-> "idle"] /\ copy' = [r \in Requests |-> <<>>]
        /\ configs' = configs
        /\ lone' \in BOOLEAN /\ (lone' => loaded' = AtStart(configs))
    BY <1>7 DEF Restart
  <2>2. Editing' = {} /\ \A r \in Requests : job'[r] # "load" BY <2>1 DEF Editing
  <2>3. ASSUME loaded' = AtStart(configs) PROVE InEffect'
    <3>1. CASE configs = <<>> BY <2>1, <2>3, <3>1 DEF InEffect
    <3>2. CASE configs # <<>>
      <4>1. loaded' = Built(configs) BY <2>3, <3>2 DEF AtStart
      <4>2. Built(configs') = Built(configs) BY <2>1
      <4> QED BY <4>1, <4>2 DEF InEffect
    <3> QED BY <3>1, <3>2
  <2> QED BY <2>1, <2>2, <2>3 DEF LoneInv
<1>8. ASSUME \/ \E c \in Callers : Dispatch(c) \/ \E e \in Events : Claim(c, e)
             \/ \E t \in timers : Expire(t)
             \/ \E x \in Clients \cup Requests : Disconnect(x)
             \/ Tick \/ UNCHANGED vars
      PROVE  UNCHANGED <<configs, loaded, job, copy, lone>>
  BY <1>8 DEF Dispatch, Arm, Snapshot, Send, Return, Claim, Expire, Disconnect, Tick, vars, reqVars
<1> QED BY <1>1, <1>2, <1>3, <1>4, <1>5, <1>6, <1>7, <1>8 DEF Next, Serve

THEOREM LoneInvariance == Spec => []LoneInv
<1>1. Init => LoneInv
  <2> SUFFICES ASSUME Init PROVE LoneInv OBVIOUS
  <2>1. InEffect
    <3>1. CASE Stored = <<>> BY <3>1 DEF Init, InEffect
    <3>2. CASE Stored # <<>> BY <3>2 DEF Init, InEffect, AtStart
    <3> QED BY <3>1, <3>2
  <2> QED BY <2>1 DEF Init, LoneInv, Editing, Jobs
<1>2. LoneInv /\ [Next]_vars => LoneInv' BY LoneStep
<1> QED BY <1>1, <1>2, PTL DEF Spec

\* An edit that meets no other takes effect by the time it is answered,
\* whatever earlier edits left (LoneEditsTakeEffect).
THEOREM LoneEditTakesEffect == Spec => []LoneEditsTakeEffect
<1>1. LoneInv => LoneEditsTakeEffect BY DEF LoneInv, LoneEditsTakeEffect, NoEdit, Editing
<1> QED BY <1>1, LoneInvariance, PTL

(***************************************************************************)
(* Selection.                                                              *)
(***************************************************************************)

StrictOrder(K, order) ==
  /\ \A i \in K : <<i, i>> \notin order
  /\ \A i, j \in K : i # j => <<i, j>> \in order \/ <<j, i>> \in order
  /\ \A i, j, k \in K : <<i, j>> \in order /\ <<j, k>> \in order => <<i, k>> \in order

\* A strict total order puts every element of a finite set at a place of its
\* own, and so into a sequence.
LEMMA Ordering ==
  ASSUME NEW K, IsFiniteSet(K), NEW order, StrictOrder(K, order)
  PROVE  /\ Cardinality(K) \in Nat
         /\ InOrder(K, order) \in [1..Cardinality(K) -> K]
         /\ \A i \in K : \E n \in 1..Cardinality(K) : InOrder(K, order)[n] = i
         /\ \A m, n \in 1..Cardinality(K) :
              m < n => <<InOrder(K, order)[m], InOrder(K, order)[n]>> \in order
         /\ \A n \in 1..Cardinality(K) : Place(K, order, InOrder(K, order)[n]) = n
         /\ \A i, j \in K : Place(K, order, i) = Place(K, order, j) => i = j
<1> DEFINE Upto(i) == {j \in K : j = i \/ <<j, i>> \in order}
           N == Cardinality(K)
           place == [i \in K |-> Cardinality(Upto(i))]
           p == InOrder(K, order)
<1>1. N \in Nat /\ IsFiniteSet(1..N) /\ Cardinality(1..N) = N
  BY FS_CardinalityType, FS_Interval
<1>2. ASSUME NEW i \in K PROVE IsFiniteSet(Upto(i)) /\ place[i] \in 1..N
  <2>1. Upto(i) \in SUBSET K /\ i \in Upto(i) OBVIOUS
  <2> HIDE DEF Upto
  <2>2. IsFiniteSet(Upto(i)) /\ Cardinality(Upto(i)) <= N BY <2>1, FS_Subset
  <2>3. Cardinality(Upto(i)) \in Nat /\ Cardinality(Upto(i)) # 0
    BY <2>1, <2>2, FS_CardinalityType, FS_EmptySet
  <2> QED BY <1>1, <2>2, <2>3
<1>3. ASSUME NEW i \in K, NEW j \in K, <<i, j>> \in order PROVE place[i] < place[j]
  <2>1. Upto(i) \in SUBSET Upto(j) BY <1>3 DEF StrictOrder
  <2>2. j \in Upto(j) /\ j \notin Upto(i) BY <1>3 DEF StrictOrder
  <2>3. IsFiniteSet(Upto(j)) /\ IsFiniteSet(Upto(i)) BY <1>2
  <2> HIDE DEF Upto
  <2>4. Cardinality(Upto(i)) <= Cardinality(Upto(j)) /\ Cardinality(Upto(i)) # Cardinality(Upto(j))
    BY <2>1, <2>2, <2>3, FS_Subset
  <2> QED BY <2>3, <2>4, FS_CardinalityType
<1>4. place \in Injection(K, 1..N)
  <2>1. place \in [K -> 1..N] BY <1>2
  <2> HIDE DEF place
  <2>2. ASSUME NEW i \in K, NEW j \in K, place[i] = place[j] PROVE i = j
    <3>1. \A k \in 1..N : k \in Nat BY <1>1
    <3>2. place[i] \in Nat BY <2>1, <3>1
    <3>3. ~(place[i] < place[i]) BY <3>2
    <3>4. i # j => <<i, j>> \in order \/ <<j, i>> \in order BY DEF StrictOrder
    <3> QED BY <1>3, <2>2, <3>3, <3>4
  <2> QED BY <2>1, <2>2 DEF Injection, IsInjective
<1> HIDE DEF place
<1>5. place \in Surjection(K, 1..N) BY <1>1, <1>4, FS_Injection
<1>6. ASSUME NEW n \in 1..N PROVE p[n] \in K /\ place[p[n]] = n
  <2>1. \E i \in K : place[i] = n BY <1>5 DEF Surjection
  <2>2. p[n] = CHOOSE i \in K : Cardinality(Upto(i)) = n BY DEF InOrder, Place
  <2>3. \A i \in K : place[i] = Cardinality(Upto(i)) BY DEF place
  <2> HIDE DEF Upto, p
  <2>4. \E i \in K : Cardinality(Upto(i)) = n BY <2>1, <2>3
  <2>5. p[n] \in K /\ Cardinality(Upto(p[n])) = n BY <2>2, <2>4
  <2> QED BY <2>3, <2>5
<1>7. p \in [1..N -> K]
  <2>1. p = [n \in 1..N |-> p[n]] BY DEF InOrder
  <2> HIDE DEF p
  <2> QED BY <1>6, <2>1
<1> HIDE DEF p, N, Upto
<1>8. \A i \in K : \E n \in 1..N : p[n] = i
  <2> TAKE i \in K
  <2>1. place[i] \in 1..N BY <1>2
  <2>2. p[place[i]] \in K /\ place[p[place[i]]] = place[i] BY <1>6, <2>1
  <2>3. p[place[i]] = i BY <1>4, <2>2 DEF Injection, IsInjective
  <2> QED BY <2>1, <2>3
<1>9. ASSUME NEW m \in 1..N, NEW n \in 1..N, m < n PROVE <<p[m], p[n]>> \in order
  <2>1. p[m] \in K /\ p[n] \in K /\ place[p[m]] = m /\ place[p[n]] = n BY <1>6
  <2>2. m \in Nat /\ n \in Nat BY <1>1
  <2>3. p[m] # p[n] BY <1>9, <2>1, <2>2
  <2>4. <<p[n], p[m]>> \notin order
    <3> SUFFICES ASSUME <<p[n], p[m]>> \in order PROVE FALSE OBVIOUS
    <3>1. place[p[n]] < place[p[m]] BY <1>3, <2>1
    <3> QED BY <1>9, <2>1, <2>2, <3>1
  <2> QED BY <2>1, <2>3, <2>4 DEF StrictOrder
<1>10. \A i \in K : Place(K, order, i) = place[i] BY DEF Place, place, Upto
<1>11. \A n \in 1..N : Place(K, order, p[n]) = n BY <1>6, <1>10
<1>12. \A i, j \in K : Place(K, order, i) = Place(K, order, j) => i = j
  BY <1>4, <1>10 DEF Injection, IsInjective
<1> QED BY <1>1, <1>7, <1>8, <1>9, <1>11, <1>12 DEF p, N

\* Numbers upwards.
LEMMA Numbers ==
  ASSUME NEW n \in Nat, NEW K \in SUBSET (1..n)
  PROVE  IsFiniteSet(K) /\ K \subseteq Nat /\ StrictOrder(K, Upward(K))
         /\ \A i, j \in K : <<i, j>> \in Upward(K) <=> i < j
<1>1. IsFiniteSet(K) /\ K \subseteq Nat
  <2>1. 1 \in Int /\ n \in Int OBVIOUS
  <2>2. IsFiniteSet(1..n) BY <2>1, FS_Interval
  <2>3. IsFiniteSet(K) BY <2>2, FS_Subset
  <2> QED BY <2>3
<1>2. \A i, j \in K : <<i, j>> \in Upward(K) <=> i < j BY <1>1 DEF Upward
<1>3. \A i, j, k \in K : i < j /\ j < k => i < k BY <1>1
<1>4. \A i, j \in K : ~(i < i) /\ (i # j => i < j \/ j < i) BY <1>1
<1>5. StrictOrder(K, Upward(K)) BY <1>2, <1>3, <1>4 DEF StrictOrder
<1> QED BY <1>1, <1>2, <1>5

\* A subsequence has the elements of its indices, in their order, and no
\* other.
LEMMA SubsequenceOf ==
  ASSUME NEW S, NEW s \in Seq(S), NEW K \in SUBSET (1..Len(s))
  PROVE  /\ Subsequence(s, K) \in Seq(S)
         /\ \E p \in [1..Len(Subsequence(s, K)) -> K] :
              /\ \A n \in 1..Len(Subsequence(s, K)) : Subsequence(s, K)[n] = s[p[n]]
              /\ \A i \in K : \E n \in 1..Len(Subsequence(s, K)) : p[n] = i
              /\ \A m, n \in 1..Len(Subsequence(s, K)) : m < n => p[m] < p[n]
<1>1. Len(s) \in Nat /\ s \in [1..Len(s) -> S] OBVIOUS
<1>2. IsFiniteSet(K) /\ K \subseteq Nat /\ StrictOrder(K, Upward(K))
      /\ \A i, j \in K : <<i, j>> \in Upward(K) <=> i < j
  BY <1>1, Numbers
<1> DEFINE order == Upward(K)
           p == InOrder(K, order)
<1>3. StrictOrder(K, order) /\ \A i, j \in K : <<i, j>> \in order <=> i < j BY <1>2
<1> HIDE DEF order
<1>5. /\ Cardinality(K) \in Nat /\ p \in [1..Cardinality(K) -> K]
      /\ \A i \in K : \E n \in 1..Cardinality(K) : p[n] = i
      /\ \A m, n \in 1..Cardinality(K) : m < n => <<p[m], p[n]>> \in order
  BY <1>2, <1>3, Ordering
<1>6. Subsequence(s, K) = [n \in 1..Cardinality(K) |-> s[p[n]]]
  BY DEF Subsequence, Picked, order
<1> HIDE DEF p
<1>7. \A n \in 1..Cardinality(K) : s[p[n]] \in S BY <1>1, <1>5
<1>8. Subsequence(s, K) \in Seq(S) /\ Len(Subsequence(s, K)) = Cardinality(K) BY <1>5, <1>6, <1>7
<1>9. \A m, n \in 1..Cardinality(K) : m < n => p[m] < p[n] BY <1>3, <1>5
<1> QED BY <1>5, <1>6, <1>8, <1>9

\* One index more at the end is one element more at the end.
LEMMA OneMore ==
  ASSUME NEW S, NEW s \in Seq(S), NEW n \in 1..Len(s), NEW K \in SUBSET (1..(n - 1))
  PROVE  Subsequence(s, K \cup {n}) = Append(Subsequence(s, K), s[n])
<1> DEFINE L == K \cup {n}
           N == Cardinality(K)
           p == InOrder(K, Upward(K))
           q == InOrder(L, Upward(L))
<1>1. Len(s) \in Nat /\ n \in Nat /\ n - 1 \in Nat OBVIOUS
<1>2. /\ n \notin K /\ L \in SUBSET (1..n) /\ \A i \in K : i \in Nat /\ i < n
      /\ \A i \in L : i = n \/ i \in K
  BY <1>1
<1>3. /\ IsFiniteSet(K) /\ StrictOrder(K, Upward(K))
      /\ \A i, j \in K : <<i, j>> \in Upward(K) <=> i < j
  BY <1>1, Numbers
<1> HIDE DEF L
<1>4. /\ IsFiniteSet(L) /\ StrictOrder(L, Upward(L))
      /\ \A i, j \in L : <<i, j>> \in Upward(L) <=> i < j
  BY <1>1, <1>2, Numbers
<1>5. N \in Nat /\ Cardinality(L) = N + 1
  BY <1>2, <1>3, FS_CardinalityType, FS_AddElement DEF L
<1>6. /\ p \in [1..N -> K]
      /\ \A m \in 1..N : Place(K, Upward(K), p[m]) = m
      /\ \A i \in K : \E m \in 1..N : p[m] = i
  BY <1>3, Ordering
<1>7. /\ q \in [1..(N + 1) -> L]
      /\ \A m \in 1..(N + 1) : Place(L, Upward(L), q[m]) = m
      /\ \A i, j \in L : Place(L, Upward(L), i) = Place(L, Upward(L), j) => i = j
  BY <1>4, <1>5, Ordering
<1>8. ASSUME NEW i \in K PROVE Place(L, Upward(L), i) = Place(K, Upward(K), i)
  <2>1. {j \in L : j = i \/ <<j, i>> \in Upward(L)} = {j \in K : j = i \/ <<j, i>> \in Upward(K)}
    <3>1. i \in L /\ i < n /\ i \in Nat BY <1>2 DEF L
    <3>4. n \in L /\ ~(n < i) /\ n # i BY <1>1, <3>1 DEF L
    <3>2. <<n, i>> \notin Upward(L) /\ n # i BY <1>4, <3>1, <3>4
    <3>3. \A j \in K : j \in L /\ (<<j, i>> \in Upward(L) <=> <<j, i>> \in Upward(K))
      BY <1>3, <1>4, <3>1 DEF L
    <3> QED BY <1>2, <3>2, <3>3
  <2> QED BY <2>1 DEF Place
<1>9. Place(L, Upward(L), n) = N + 1
  <2>1. \A j \in L : j = n \/ <<j, n>> \in Upward(L)
    <3> TAKE j \in L
    <3>1. j = n \/ j < n BY <1>2
    <3> QED BY <1>4, <3>1 DEF L
  <2>2. {j \in L : j = n \/ <<j, n>> \in Upward(L)} = L BY <2>1
  <2> QED BY <1>5, <2>2 DEF Place
<1> HIDE DEF p, q, N
<1>10. ASSUME NEW m \in 1..N PROVE q[m] = p[m]
  <2>1. p[m] \in K /\ p[m] \in L /\ q[m] \in L BY <1>5, <1>6, <1>7 DEF L
  <2>2. Place(L, Upward(L), p[m]) = m BY <1>6, <1>8, <2>1
  <2>3. Place(L, Upward(L), q[m]) = m BY <1>5, <1>7
  <2> QED BY <1>7, <2>1, <2>2, <2>3
<1>11. q[N + 1] = n
  <2>1. n \in L /\ q[N + 1] \in L /\ Place(L, Upward(L), q[N + 1]) = N + 1
    <3>1. N + 1 \in 1..(N + 1) BY <1>5
    <3>2. n \in L BY DEF L
    <3> QED BY <1>7, <3>1, <3>2
  <2> QED BY <1>7, <1>9, <2>1
<1>12. Subsequence(s, K) = [m \in 1..N |-> s[p[m]]] BY DEF Subsequence, Picked, p, N
<1>13. Subsequence(s, L) = [m \in 1..(N + 1) |-> s[q[m]]]
  BY <1>5 DEF Subsequence, Picked, q
<1>14. \A m \in 1..N : s[p[m]] \in S
  <2> TAKE m \in 1..N
  <2>0. p[m] \in K BY <1>6
  <2>1. p[m] \in 1..Len(s)
    <3>1. \A i \in 1..(n - 1) : i \in 1..Len(s) BY <1>1
    <3> QED BY <2>0, <3>1
  <2> QED BY <2>1
<1>15. Subsequence(s, K) \in Seq(S) /\ Len(Subsequence(s, K)) = N BY <1>5, <1>12, <1>14
<1> DEFINE a == Append(Subsequence(s, K), s[n])
<1>16. /\ a = [m \in 1..(N + 1) |-> a[m]] /\ a[N + 1] = s[n]
       /\ \A m \in 1..N : a[m] = s[p[m]]
  BY <1>5, <1>12, <1>15
<1> HIDE DEF a
<1>17. \A m \in 1..(N + 1) : s[q[m]] = a[m]
  <2> TAKE m \in 1..(N + 1)
  <2>1. CASE m \in 1..N BY <1>10, <1>16, <2>1
  <2>2. CASE m \notin 1..N
    <3>1. m = N + 1 BY <1>5, <2>2
    <3> QED BY <1>11, <1>16, <3>1
  <2> QED BY <2>1, <2>2
<1>18. Subsequence(s, L) = a BY <1>13, <1>16, <1>17
<1> QED BY <1>18 DEF L, a

(***************************************************************************)
(* What is sent.                                                           *)
(***************************************************************************)
Row == [id : Nat, cfg : Settings]

\* The filters are those of the channels at the same index.
Aligned(set) ==
  /\ set.channels \in Seq(Settings)
  /\ \A i \in DOMAIN set.channels : set.channels[i].kind \in Kinds
  /\ DOMAIN set.filters = {i \in DOMAIN set.channels : set.channels[i].events # {}}
  /\ \A i \in DOMAIN set.filters : set.filters[i] = set.channels[i].events

\* What the first n channels are due, but those that failed.
Sendings(channels, type, failed, n) ==
  LET due == Subsequence(channels, {i \in (1..n) \ failed : Wants(channels[i], type)})
  IN [k \in DOMAIN due |-> Wanted(due[k], type)]

TablesOK ==
  /\ configs \in Seq(Row) /\ Aligned(loaded) /\ copy \in [Requests -> Seq(Row)]
  /\ DOMAIN sent = Callers \cup Requests /\ DOMAIN snap = Callers
  /\ errs \in [Callers \cup Requests -> SUBSET Nat] /\ gone \subseteq Clients \cup Requests

\* A caller that is at some channel has sent what those before it are due,
\* but for some whose error it has noted.
CallerOK(c) ==
  /\ pc[c] = "send" =>
       /\ Aligned(snap[c]) /\ at[c] \in 1..(Len(snap[c].channels) + 1)
       /\ \A i \in errs[c] : i \in 1..(at[c] - 1) /\ Wants(snap[c].channels[i], event[c].type)
       /\ \E failed \in SUBSET errs[c] :
            sent[c] = Sendings(snap[c].channels, event[c].type, failed, at[c] - 1)
  /\ pc[c] # "send" => sent[c] = <<>> /\ errs[c] = {}

TestOK(r) ==
  /\ job[r] \in {"test", "tested"} => copy[r] # <<>>
  /\ job[r] = "tested" => TestAnswered(r)
  /\ job[r] # "tested" => sent[r] = <<>> /\ errs[r] = {}

WireInv ==
  TablesOK /\ (\A c \in Callers : CallerOK(c)) /\ (\A r \in Requests : TestOK(r))

LEMMA BuiltAligned == ASSUME NEW rows \in Seq(Row) PROVE Aligned(Built(rows))
<1> DEFINE K == UsableOnes(rows)
           use == Subsequence(rows, K)
<1>1. K \in SUBSET (1..Len(rows)) BY DEF UsableOnes
<1>2. \A k \in K : Usable(rows[k]) BY DEF UsableOnes
<1>3. /\ Built(rows).channels = [i \in DOMAIN use |-> use[i].cfg]
      /\ Built(rows).filters =
           [i \in {j \in DOMAIN use : use[j].cfg.events # {}} |-> use[i].cfg.events]
  BY DEF Built
<1> HIDE DEF K
<1>4. use \in Seq(Row) BY <1>1, SubsequenceOf
<1>5. PICK p \in [1..Len(use) -> K] : \A n \in 1..Len(use) : use[n] = rows[p[n]]
  BY <1>1, SubsequenceOf
<1> HIDE DEF use
<1>6. DOMAIN use = 1..Len(use) /\ Len(use) \in Nat BY <1>4
<1>7. \A s \in Row : s.cfg \in Settings BY DEF Row
<1>8. \A i \in 1..Len(use) : use[i].cfg \in Settings BY <1>4, <1>7
<1>9. \A i \in 1..Len(use) : use[i].cfg.kind \in Kinds
  BY <1>2, <1>5 DEF Usable
<1>10. Built(rows).channels \in Seq(Settings) BY <1>3, <1>6, <1>8
<1> QED BY <1>3, <1>6, <1>9, <1>10 DEF Aligned

LEMMA StartAligned == ASSUME NEW rows \in Seq(Row) PROVE Aligned(AtStart(rows))
<1>1. CASE rows # <<>> BY <1>1, BuiltAligned DEF AtStart
<1>2. CASE rows = <<>>
  <2>1. AtStart(rows).channels = Flags /\ AtStart(rows).filters = <<>> BY <1>2 DEF AtStart
  <2>2. DOMAIN <<>> = {} OBVIOUS
  <2>3. {i \in DOMAIN Flags : Flags[i].events # {}} = {} BY FlagsAssumption
  <2> QED BY <2>1, <2>2, <2>3, FlagsAssumption DEF Aligned
<1> QED BY <1>1, <1>2

\* Every kind of channel sends what it should.
LEMMA SameRequest ==
  ASSUME NEW s \in Settings, s.kind \in Kinds, NEW type
  PROVE  Request(s, type) = Wanted(s, type)
<1>1. s.secret \in BOOLEAN BY SettingsAssumption
<1>2. s.kind \in {"webhook", "slack", "dingtalk", "feishu"} BY DEF Kinds
<1>3. CASE s.secret
  BY <1>2, <1>3 DEF Request, Wanted, WebhookSend, SlackSend, DingTalkSend, FeishuSend
<1>4. CASE ~s.secret
  <2>1. Wanted(s, type) = [to |-> s.url, type |-> type, auth |-> "none"] BY <1>4 DEF Wanted
  <2>2. Request(s, type) = [to |-> s.url, auth |-> "none", type |-> type]
    <3>1. CASE s.kind = "webhook" BY <1>4, <3>1 DEF Request, WebhookSend
    <3>2. CASE s.kind = "slack" BY <3>2 DEF Request, SlackSend
    <3>3. CASE s.kind = "dingtalk" BY <1>4, <3>3 DEF Request, DingTalkSend
    <3>4. CASE s.kind = "feishu" BY <1>4, <3>4 DEF Request, FeishuSend
    <3> QED BY <1>2, <3>1, <3>2, <3>3, <3>4
  <2> QED BY <2>1, <2>2
<1> QED BY <1>1, <1>3, <1>4

LEMMA NothingDue ==
  ASSUME NEW channels, NEW type PROVE Sendings(channels, type, {}, 0) = <<>>
<1>1. {i \in (1..0) \ {} : Wants(channels[i], type)} = {} OBVIOUS
<1>2. Cardinality({}) = 0 BY FS_EmptySet
<1>3. Subsequence(channels, {}) = <<>> BY <1>2 DEF Subsequence, Picked
<1>4. DOMAIN Subsequence(channels, {}) = {} BY <1>3
<1> QED BY <1>1, <1>4 DEF Sendings

\* A channel that wants the event and takes it.
LEMMA DueGrows ==
  ASSUME NEW channels \in Seq(Settings), NEW type, NEW n \in 1..Len(channels),
         NEW failed \in SUBSET (1..(n - 1)), Wants(channels[n], type)
  PROVE  Sendings(channels, type, failed, n) =
           Append(Sendings(channels, type, failed, n - 1), Wanted(channels[n], type))
<1> DEFINE K == {i \in (1..(n - 1)) \ failed : Wants(channels[i], type)}
           L == {i \in (1..n) \ failed : Wants(channels[i], type)}
           due == Subsequence(channels, K)
           T == {Wanted(s, type) : s \in Settings}
           out == [k \in DOMAIN due |-> Wanted(due[k], type)]
<1>0. n \in Nat /\ n - 1 \in Nat /\ Len(channels) \in Nat OBVIOUS
<1>1. L = K \cup {n} BY <1>0
<1>2. K \in SUBSET (1..(n - 1)) /\ K \in SUBSET (1..Len(channels)) BY <1>0
<1>3. channels[n] \in Settings OBVIOUS
<1>4. Sendings(channels, type, failed, n - 1) = out BY DEF Sendings
<1> HIDE DEF K
<1>5. Subsequence(channels, L) = Append(due, channels[n]) BY <1>1, <1>2, OneMore
<1>6. Sendings(channels, type, failed, n) =
        [k \in DOMAIN Append(due, channels[n]) |-> Wanted(Append(due, channels[n])[k], type)]
  BY <1>5 DEF Sendings
<1>7. due \in Seq(Settings) BY <1>2, SubsequenceOf
<1> HIDE DEF due
<1>8. out \in Seq(T) /\ Len(out) = Len(due) /\ Len(due) \in Nat BY <1>7
<1>9. /\ DOMAIN Append(due, channels[n]) = 1..(Len(due) + 1)
      /\ \A k \in 1..Len(due) : Append(due, channels[n])[k] = due[k]
      /\ Append(due, channels[n])[Len(due) + 1] = channels[n]
  BY <1>3, <1>7
<1>10. \A k \in 1..Len(due) : out[k] = Wanted(due[k], type) BY <1>7
<1>11. Wanted(channels[n], type) \in T BY <1>3
<1> HIDE DEF T, out
<1> DEFINE a == Append(out, Wanted(channels[n], type))
<1>12. /\ a = [k \in 1..(Len(due) + 1) |-> a[k]]
       /\ \A k \in 1..Len(due) : a[k] = out[k]
       /\ a[Len(due) + 1] = Wanted(channels[n], type)
  BY <1>8, <1>11
<1> HIDE DEF a
<1>13. \A k \in 1..(Len(due) + 1) : a[k] = Wanted(Append(due, channels[n])[k], type)
  <2> TAKE k \in 1..(Len(due) + 1)
  <2>1. CASE k \in 1..Len(due) BY <1>9, <1>10, <1>12, <2>1
  <2>2. CASE k \notin 1..Len(due)
    <3>1. k = Len(due) + 1 BY <1>8, <2>2
    <3> QED BY <1>9, <1>12, <3>1
  <2> QED BY <2>1, <2>2
<1>14. Sendings(channels, type, failed, n) = a BY <1>6, <1>9, <1>12, <1>13
<1> QED BY <1>4, <1>14 DEF a

\* One that does not want it, or fails.
LEMMA DueStays ==
  ASSUME NEW channels, NEW type, NEW n \in Nat \ {0}, NEW failed \in SUBSET (1..(n - 1))
  PROVE  /\ ~Wants(channels[n], type) =>
              Sendings(channels, type, failed, n) = Sendings(channels, type, failed, n - 1)
         /\ Sendings(channels, type, failed \cup {n}, n) = Sendings(channels, type, failed, n - 1)
<1> DEFINE K == {i \in (1..(n - 1)) \ failed : Wants(channels[i], type)}
           L == {i \in (1..n) \ failed : Wants(channels[i], type)}
           M == {i \in (1..n) \ (failed \cup {n}) : Wants(channels[i], type)}
<1>1. \A i : i \in 1..n <=> i \in 1..(n - 1) \/ i = n OBVIOUS
<1>2. n \notin 1..(n - 1) OBVIOUS
<1>3. M = K BY <1>1, <1>2
<1>4. ~Wants(channels[n], type) => L = K BY <1>1
<1> QED BY <1>3, <1>4 DEF Sendings

\* At the end, every channel that has not failed got what it is due.
LEMMA AllSent ==
  ASSUME NEW channels \in Seq(Settings), NEW type, NEW failed
  PROVE  Sendings(channels, type, failed, Len(channels)) = Due(channels, type, failed)
<1>1. DOMAIN channels = 1..Len(channels) OBVIOUS
<1> QED BY <1>1 DEF Sendings, Due

LEMMA PassesIfWanted ==
  ASSUME NEW set, Aligned(set), NEW i \in DOMAIN set.channels, NEW type
  PROVE  Passes(set, i, type) <=> Wants(set.channels[i], type)
BY DEF Aligned, Passes, Wants

\* What a step leaves alone stays as it was.
LEMMA CallerStill ==
  ASSUME NEW c \in Callers, CallerOK(c), pc'[c] = pc[c], event'[c] = event[c],
         snap'[c] = snap[c], at'[c] = at[c], sent'[c] = sent[c], errs'[c] = errs[c]
  PROVE  CallerOK(c)'
BY DEF CallerOK

LEMMA TestStill ==
  ASSUME NEW r \in Requests, TestOK(r), job'[r] = job[r], copy'[r] = copy[r], sent'[r] = sent[r],
         errs'[r] = errs[r]
  PROVE  TestOK(r)'
BY DEF TestOK, TestAnswered

LEMMA WireInit == Init => WireInv
<1> SUFFICES ASSUME Init PROVE WireInv OBVIOUS
<1>1. configs \in Seq(Row) BY StoredAssumption DEF Init, Row
<1>2. Aligned(loaded) BY <1>1, StartAligned DEF Init
<1>3. TablesOK BY <1>1, <1>2 DEF Init, TablesOK
<1>4. \A c \in Callers : CallerOK(c) BY DEF Init, CallerOK
<1>5. \A r \in Requests : TestOK(r) BY DEF Init, TestOK
<1> QED BY <1>3, <1>4, <1>5 DEF WireInv

LEMMA ClaimWires ==
  ASSUME ManagerOK, WireInv, NEW c \in Callers, NEW e \in Events, Claim(c, e) \/ Arm(c)
  PROVE  WireInv'
<1>1. /\ \/ pc' = [pc EXCEPT ![c] = "arm"] /\ event' = [event EXCEPT ![c] = e] /\ pc[c] = "idle"
         \/ pc' = [pc EXCEPT ![c] = "copy"] /\ event' = event /\ pc[c] = "arm"
      /\ UNCHANGED <<configs, loaded, snap, at, job, copy, wireVars>>
  BY DEF Claim, Arm, reqVars
<1>2. pc \in [Callers -> PCs] /\ event \in [Callers -> Events] BY DEF ManagerOK
<1>3. TablesOK' BY <1>1 DEF WireInv, TablesOK, wireVars
<1>4. ASSUME NEW d \in Callers PROVE CallerOK(d)'
  <2>1. CASE d = c
    <3>1. pc'[c] # "send" /\ sent'[c] = <<>> /\ errs'[c] = {}
      BY <1>1, <1>2 DEF WireInv, CallerOK, wireVars
    <3> QED BY <2>1, <3>1 DEF CallerOK
  <2>2. CASE d # c
    <3>1. pc'[d] = pc[d] /\ event'[d] = event[d] BY <1>1, <1>2, <2>2
    <3> QED BY <1>1, <3>1, CallerStill DEF WireInv, wireVars
  <2> QED BY <2>1, <2>2
<1>5. \A r \in Requests : TestOK(r)' BY <1>1, TestStill DEF WireInv, wireVars
<1> QED BY <1>3, <1>4, <1>5 DEF WireInv

LEMMA SnapshotWires ==
  ASSUME ManagerOK, WireInv, NEW c \in Callers, Snapshot(c)
  PROVE  WireInv'
<1>1. /\ pc' = [pc EXCEPT ![c] = "send"] /\ pc[c] = "copy"
      /\ snap' = [snap EXCEPT ![c] = loaded] /\ at' = [at EXCEPT ![c] = 1]
      /\ UNCHANGED <<configs, loaded, event, job, copy, wireVars>>
  BY DEF Snapshot, reqVars
<1>2. pc \in [Callers -> PCs] /\ at \in [Callers -> Nat] /\ DOMAIN snap = Callers
  BY DEF ManagerOK, WireInv, TablesOK
<1>3. TablesOK' BY <1>1, <1>2 DEF WireInv, TablesOK, wireVars
<1>4. ASSUME NEW d \in Callers PROVE CallerOK(d)'
  <2>1. CASE d = c
    <3>1. pc'[c] = "send" /\ snap'[c] = loaded /\ at'[c] = 1 BY <1>1, <1>2
    <3>2. Aligned(loaded) BY DEF WireInv, TablesOK
    <3>3. sent'[c] = <<>> /\ errs'[c] = {} BY <1>1 DEF WireInv, CallerOK, wireVars
    <3>4. Sendings(snap'[c].channels, event'[c].type, {}, at'[c] - 1) = <<>>
      <4>1. at'[c] - 1 = 0 BY <3>1
      <4> QED BY <4>1, NothingDue
    <3>5. 1 \in 1..(Len(loaded.channels) + 1) BY <3>2 DEF Aligned
    <3>6. Aligned(snap'[c]) /\ at'[c] \in 1..(Len(snap'[c].channels) + 1) BY <3>1, <3>2, <3>5
    <3> QED BY <2>1, <3>1, <3>3, <3>4, <3>6 DEF CallerOK, Aligned
  <2>2. CASE d # c
    <3>1. pc'[d] = pc[d] /\ snap'[d] = snap[d] /\ at'[d] = at[d] BY <1>1, <1>2, <2>2
    <3> QED BY <1>1, <3>1, CallerStill DEF WireInv, wireVars
  <2> QED BY <2>1, <2>2
<1>5. \A r \in Requests : TestOK(r)' BY <1>1, TestStill DEF WireInv, wireVars
<1> QED BY <1>3, <1>4, <1>5 DEF WireInv

\* What a channel's Send does to the wire and the errors, and to no one else's.
LEMMA DeliverTo ==
  ASSUME TablesOK, NEW x \in Callers \cup Requests, NEW n \in Nat, NEW request, Deliver(x, n, request)
  PROVE  /\ DOMAIN sent' = Callers \cup Requests /\ errs' \in [Callers \cup Requests -> SUBSET Nat]
         /\ \A y \in Callers \cup Requests : y # x => sent'[y] = sent[y] /\ errs'[y] = errs[y]
         /\ \/ sent'[x] = Append(sent[x], request) /\ errs'[x] \in {errs[x], errs[x] \cup {n}}
            \/ sent'[x] = sent[x] /\ errs'[x] = errs[x] \cup {n}
<1>1. /\ errs' = errs \/ errs' = [errs EXCEPT ![x] = @ \cup {n}]
      /\ \/ sent' = [sent EXCEPT ![x] = Append(@, request)]
         \/ sent' = sent /\ errs' = [errs EXCEPT ![x] = @ \cup {n}]
  BY DEF Deliver
<1>2. /\ DOMAIN sent = Callers \cup Requests /\ errs \in [Callers \cup Requests -> SUBSET Nat]
  BY DEF TablesOK
<1> QED BY <1>1, <1>2

LEMMA SendWires == ASSUME ManagerOK, WireInv, NEW c \in Callers, Send(c) PROVE WireInv'
<1> DEFINE i == at[c]
           chs == snap[c].channels
           type == event[c].type
<1>1. /\ pc[c] = "send" /\ i \in DOMAIN chs /\ at' = [at EXCEPT ![c] = i + 1]
      /\ IF Passes(snap[c], i, type) THEN Deliver(c, i, Request(chs[i], type))
                                     ELSE UNCHANGED <<sent, errs, faults>>
      /\ UNCHANGED <<configs, loaded, pc, event, snap, job, copy, gone>>
  BY DEF Send, reqVars
<1>2. at \in [Callers -> Nat] /\ DOMAIN sent = Callers \cup Requests /\ TablesOK
  BY DEF ManagerOK, WireInv, TablesOK
<1>3. /\ DOMAIN sent' = Callers \cup Requests /\ errs' \in [Callers \cup Requests -> SUBSET Nat]
      /\ \A y \in Callers \cup Requests : y # c => sent'[y] = sent[y] /\ errs'[y] = errs[y]
      /\ \/ ~Passes(snap[c], i, type) /\ sent'[c] = sent[c] /\ errs'[c] = errs[c]
         \/ /\ Passes(snap[c], i, type) /\ sent'[c] = Append(sent[c], Request(chs[i], type))
            /\ errs'[c] \in {errs[c], errs[c] \cup {i}}
         \/ /\ Passes(snap[c], i, type) /\ sent'[c] = sent[c] /\ errs'[c] = errs[c] \cup {i}
  <2>1. i \in Nat /\ c \in Callers \cup Requests BY <1>2
  <2>2. CASE Passes(snap[c], i, type)
    <3>1. Deliver(c, i, Request(chs[i], type)) BY <1>1, <2>2
    <3> HIDE DEF i, chs, type
    <3> QED BY <1>2, <2>1, <2>2, <3>1, DeliverTo
  <2>3. CASE ~Passes(snap[c], i, type)
    <3>1. UNCHANGED <<sent, errs>> BY <1>1, <2>3
    <3> QED BY <1>2, <2>3, <3>1 DEF TablesOK
  <2> QED BY <2>2, <2>3
<1>4. TablesOK' BY <1>1, <1>2, <1>3 DEF TablesOK
<1>5. CallerOK(c)'
  <2>1. /\ Aligned(snap[c])
        /\ \A n \in errs[c] : n \in 1..(i - 1) /\ Wants(chs[n], type)
        /\ \E failed \in SUBSET errs[c] : sent[c] = Sendings(chs, type, failed, i - 1)
    BY <1>1 DEF WireInv, CallerOK
  <2>2. /\ chs \in Seq(Settings) /\ \A j \in DOMAIN chs : chs[j].kind \in Kinds
    BY <2>1 DEF Aligned
  <2>3. i \in 1..Len(chs) /\ Len(chs) \in Nat /\ chs[i] \in Settings BY <1>1, <2>2
  <2>4. Request(chs[i], type) = Wanted(chs[i], type) BY <1>1, <2>2, <2>3, SameRequest
  <2>5. Passes(snap[c], i, type) <=> Wants(chs[i], type) BY <1>1, <2>1, PassesIfWanted
  <2>6. PICK failed \in SUBSET errs[c] : sent[c] = Sendings(chs, type, failed, i - 1) BY <2>1
  <2>7. failed \in SUBSET (1..(i - 1)) /\ i \in Nat \ {0} BY <2>1, <2>3, <2>6
  <2>8. /\ Wants(chs[i], type) =>
             Sendings(chs, type, failed, i) = Append(Sendings(chs, type, failed, i - 1), Wanted(chs[i], type))
        /\ ~Wants(chs[i], type) =>
             Sendings(chs, type, failed, i) = Sendings(chs, type, failed, i - 1)
        /\ Sendings(chs, type, failed \cup {i}, i) = Sendings(chs, type, failed, i - 1)
    <3> HIDE DEF i, chs, type
    <3> QED BY ONLY <2>2, <2>3, <2>7, DueGrows, DueStays
  <2>9. \E but \in SUBSET errs'[c] : sent'[c] = Sendings(chs, type, but, i)
    <3> HIDE DEF i, chs, type
    <3>1. CASE sent'[c] = sent[c] /\ errs'[c] = errs[c] /\ ~Wants(chs[i], type)
      BY <2>6, <2>8, <3>1
    <3>2. CASE /\ Wants(chs[i], type) /\ sent'[c] = Append(sent[c], Wanted(chs[i], type))
               /\ errs'[c] \in {errs[c], errs[c] \cup {i}}
      <4>1. failed \in SUBSET errs'[c] BY <3>2
      <4> QED BY <2>6, <2>8, <3>2, <4>1
    <3>3. CASE sent'[c] = sent[c] /\ errs'[c] = errs[c] \cup {i}
      <4>1. failed \cup {i} \in SUBSET errs'[c] BY <3>3
      <4> QED BY <2>6, <2>8, <3>3, <4>1
    <3> QED BY <1>3, <2>4, <2>5, <3>1, <3>2, <3>3
  <2>10. at'[c] = i + 1 /\ (i + 1) - 1 = i /\ i + 1 \in 1..(Len(chs) + 1) BY <1>1, <1>2, <2>3
  <2>11. \A n \in errs'[c] : n \in 1..i /\ Wants(chs[n], type)
    <3>1. \A n \in 1..(i - 1) : n \in 1..i BY <2>7
    <3>2. i \in 1..i BY <2>7
    <3> HIDE DEF i, chs, type
    <3> QED BY <1>3, <2>1, <2>5, <3>1, <3>2
  <2> HIDE DEF i
  <2> QED BY <1>1, <2>1, <2>9, <2>10, <2>11 DEF CallerOK, Aligned
<1>6. ASSUME NEW d \in Callers, d # c PROVE CallerOK(d)'
  <2>1. at'[d] = at[d] /\ sent'[d] = sent[d] /\ errs'[d] = errs[d] BY <1>1, <1>2, <1>3, <1>6
  <2> QED BY <1>1, <2>1, CallerStill DEF WireInv
<1>7. ASSUME NEW r \in Requests PROVE TestOK(r)'
  <2>1. r # c BY ThreadsAssumption
  <2>2. sent'[r] = sent[r] /\ errs'[r] = errs[r] BY <1>3, <2>1
  <2> QED BY <1>1, <2>2, TestStill DEF WireInv
<1> QED BY <1>4, <1>5, <1>6, <1>7 DEF WireInv

\* A thread that ends leaves the others' wire alone.
LEMMA ForgetOne ==
  ASSUME TablesOK, NEW x \in Callers \cup Requests, Forget(x)
  PROVE  /\ DOMAIN sent' = Callers \cup Requests /\ errs' \in [Callers \cup Requests -> SUBSET Nat]
         /\ gone' \subseteq Clients \cup Requests
         /\ \A y \in Callers \cup Requests : y # x => sent'[y] = sent[y] /\ errs'[y] = errs[y]
         /\ sent'[x] = <<>> /\ errs'[x] = {}
BY DEF Forget, TablesOK

LEMMA ReturnWires == ASSUME ManagerOK, WireInv, NEW c \in Callers, Return(c) PROVE WireInv'
<1>1. /\ pc' = [pc EXCEPT ![c] = "idle"] /\ event' = [event EXCEPT ![c] = AnEvent]
      /\ snap' = [snap EXCEPT ![c] = Empty] /\ at' = [at EXCEPT ![c] = 0]
      /\ Forget(c)
      /\ UNCHANGED <<configs, loaded, job, copy>>
  BY DEF Return, reqVars
<1>2. /\ pc \in [Callers -> PCs] /\ event \in [Callers -> Events] /\ at \in [Callers -> Nat]
      /\ DOMAIN snap = Callers /\ TablesOK
  BY DEF ManagerOK, WireInv, TablesOK
<1>3. /\ DOMAIN sent' = Callers \cup Requests /\ errs' \in [Callers \cup Requests -> SUBSET Nat]
      /\ gone' \subseteq Clients \cup Requests
      /\ \A y \in Callers \cup Requests : y # c => sent'[y] = sent[y] /\ errs'[y] = errs[y]
      /\ sent'[c] = <<>> /\ errs'[c] = {}
  BY <1>1, <1>2, ForgetOne
<1>4. TablesOK' BY <1>1, <1>2, <1>3 DEF TablesOK
<1>5. CallerOK(c)' BY <1>1, <1>2, <1>3 DEF CallerOK
<1>6. ASSUME NEW d \in Callers, d # c PROVE CallerOK(d)'
  <2>1. /\ pc'[d] = pc[d] /\ event'[d] = event[d] /\ snap'[d] = snap[d]
        /\ at'[d] = at[d] /\ sent'[d] = sent[d] /\ errs'[d] = errs[d]
    BY <1>1, <1>2, <1>3, <1>6
  <2> QED BY <2>1, CallerStill DEF WireInv
<1>7. ASSUME NEW r \in Requests PROVE TestOK(r)'
  <2>1. r # c BY ThreadsAssumption
  <2>2. sent'[r] = sent[r] /\ errs'[r] = errs[r] BY <1>3, <2>1
  <2> QED BY <1>1, <2>2, TestStill DEF WireInv
<1> QED BY <1>4, <1>5, <1>6, <1>7 DEF WireInv

\* The rows stay rows.
LEMMA EditKeepsRows ==
  ASSUME ManagerOK, configs \in Seq(Row), NEW r \in Requests, Edit(r)
  PROVE  configs' \in Seq(Row)
<1>1. CASE \E s \in Settings : Create(r, s)
  <2>1. PICK s \in Settings : configs' = Append(configs, [id |-> Len(Stored) + starts', cfg |-> s])
    BY <1>1 DEF Create
  <2>2. starts' \in Nat
    <3>1. starts' = starts + 1 BY <1>1 DEF Create, Wrote, Begin, Start
    <3> QED BY <3>1, NotifyBoundAssumption DEF ManagerOK
  <2>3. Len(Stored) \in Nat BY StoredAssumption
  <2>4. [id |-> Len(Stored) + starts', cfg |-> s] \in Row BY <2>2, <2>3 DEF Row
  <2> QED BY <2>1, <2>4
<1>2. CASE \E k \in DOMAIN configs : Delete(r, k)
  <2>1. PICK k \in DOMAIN configs : configs' = Without(configs[k].id) BY <1>2 DEF Delete
  <2> DEFINE K == {j \in DOMAIN configs : configs[j].id # configs[k].id}
  <2>2. K \in SUBSET (1..Len(configs)) OBVIOUS
  <2>3. configs' = Subsequence(configs, K) BY <2>1 DEF Without
  <2> HIDE DEF K
  <2> QED BY <2>2, <2>3, SubsequenceOf
<1>3. CASE \E k \in DOMAIN configs : \E s \in Settings : Update(r, k, s)
  <2>1. PICK k \in DOMAIN configs, s \in Settings : configs' = [configs EXCEPT ![k].cfg = s]
    BY <1>3 DEF Update
  <2>2. configs' = [configs EXCEPT ![k] = [configs[k] EXCEPT !.cfg = s]] BY <2>1
  <2>3. configs[k] \in Row OBVIOUS
  <2>4. [configs[k] EXCEPT !.cfg = s] \in Row BY <2>3 DEF Row
  <2> QED BY <2>2, <2>4
<1> QED BY <1>1, <1>2, <1>3 DEF Edit

\* A step of one request that sends nothing.
LEMMA RequestWires ==
  ASSUME ManagerOK, WireInv, NEW r \in Requests,
         Edit(r) \/ ListRows(r) \/ ListFails(r) \/ Reload(r)
                 \/ \E k \in DOMAIN configs : ReadForTest(r, k)
  PROVE  WireInv'
<1>1. /\ UNCHANGED callVars /\ job[r] \notin {"test", "tested"}
      /\ Forget(r) \/ UNCHANGED wireVars
  BY DEF Edit, Create, Update, Delete, Wrote, Begin, ListRows, ListFails, Reload, ReadForTest
<1>2. /\ job \in [Requests -> Jobs] /\ configs \in Seq(Row) /\ copy \in [Requests -> Seq(Row)]
      /\ Aligned(loaded) /\ TablesOK
  BY DEF ManagerOK, WireInv, TablesOK
<1>3. configs' \in Seq(Row)
  BY <1>2, EditKeepsRows DEF ListRows, ListFails, Reload, ReadForTest
<1>4. Aligned(loaded')
  <2>1. CASE Reload(r)
    <3>1. loaded' = Built(copy[r]) /\ copy[r] \in Seq(Row) BY <1>2, <2>1 DEF Reload
    <3> QED BY <3>1, BuiltAligned
  <2>2. CASE ~Reload(r)
    BY <1>2, <2>2 DEF Edit, Create, Update, Delete, Wrote, ListRows, ListFails, ReadForTest
  <2> QED BY <2>1, <2>2
<1>5. \E new \in Seq(Row) :
        /\ copy' = [copy EXCEPT ![r] = new]
        /\ job'[r] = "test" => new # <<>>
        /\ job'[r] # "tested" /\ \A s \in Requests : s # r => job'[s] = job[s]
  <2>1. CASE Edit(r)
    <3>1. copy' = [copy EXCEPT ![r] = copy[r]] /\ job' = [job EXCEPT ![r] = "list"]
      BY <1>2, <2>1 DEF Edit, Create, Update, Delete, Wrote, Begin
    <3> QED BY <1>2, <3>1
  <2>2. CASE ListRows(r)
    <3>1. copy' = [copy EXCEPT ![r] = configs] /\ job' = [job EXCEPT ![r] = "load"]
      BY <2>2 DEF ListRows
    <3> QED BY <1>2, <3>1
  <2>3. CASE ListFails(r)
    <3>1. copy' = [copy EXCEPT ![r] = copy[r]] /\ job' = [job EXCEPT ![r] = "idle"]
      BY <1>2, <2>3 DEF ListFails
    <3> QED BY <1>2, <3>1
  <2>4. CASE Reload(r)
    <3>1. copy' = [copy EXCEPT ![r] = <<>>] /\ job' = [job EXCEPT ![r] = "idle"]
      BY <2>4 DEF Reload
    <3>2. <<>> \in Seq(Row) OBVIOUS
    <3> QED BY <1>2, <3>1, <3>2
  <2>5. CASE \E k \in DOMAIN configs : ReadForTest(r, k)
    <3>1. PICK k \in DOMAIN configs : copy' = [copy EXCEPT ![r] = <<configs[k]>>]
      BY <2>5 DEF ReadForTest
    <3>2. job' = [job EXCEPT ![r] = "test"] BY <2>5 DEF ReadForTest, Begin
    <3>3. <<configs[k]>> \in Seq(Row) /\ <<configs[k]>> # <<>> BY <1>2
    <3> QED BY <1>2, <3>1, <3>2, <3>3
  <2> QED BY <2>1, <2>2, <2>3, <2>4, <2>5
<1>6. /\ DOMAIN sent' = Callers \cup Requests /\ errs' \in [Callers \cup Requests -> SUBSET Nat]
      /\ gone' \subseteq Clients \cup Requests
      /\ \A y \in Callers \cup Requests : y # r => sent'[y] = sent[y] /\ errs'[y] = errs[y]
      /\ sent'[r] = <<>> /\ errs'[r] = {}
  <2>1. CASE Forget(r) BY <1>2, <2>1, ForgetOne
  <2>2. CASE UNCHANGED wireVars
    BY <1>1, <1>2, <2>2 DEF wireVars, TablesOK, WireInv, TestOK
  <2> QED BY <1>1, <2>1, <2>2
<1>7. TablesOK' BY <1>1, <1>2, <1>3, <1>4, <1>5, <1>6 DEF TablesOK, callVars, Aligned
<1>8. ASSUME NEW c \in Callers PROVE CallerOK(c)'
  <2>1. c # r BY ThreadsAssumption
  <2>2. sent'[c] = sent[c] /\ errs'[c] = errs[c] BY <1>6, <2>1
  <2> QED BY <1>1, <2>2, CallerStill DEF WireInv, callVars
<1>9. ASSUME NEW s \in Requests PROVE TestOK(s)'
  <2>1. CASE s = r
    <3>1. job'[r] # "tested" /\ (job'[r] = "test" => copy'[r] # <<>>) BY <1>2, <1>5
    <3> QED BY <1>6, <2>1, <3>1 DEF TestOK
  <2>2. CASE s # r
    <3>1. job'[s] = job[s] /\ copy'[s] = copy[s] BY <1>2, <1>5, <2>2
    <3> QED BY <1>6, <2>2, <3>1, TestStill DEF WireInv
  <2> QED BY <2>1, <2>2
<1> QED BY <1>7, <1>8, <1>9 DEF WireInv

LEMMA TestWires ==
  ASSUME ManagerOK, WireInv, NEW r \in Requests, SendTest(r) \/ AnswerTest(r)
  PROVE  WireInv'
<1>1. UNCHANGED <<configs, loaded, callVars>> BY DEF SendTest, AnswerTest
<1>2. job \in [Requests -> Jobs] /\ copy \in [Requests -> Seq(Row)] /\ TablesOK
  BY DEF ManagerOK, WireInv, TablesOK
<1>3. /\ \/ copy' = copy \/ copy' = [copy EXCEPT ![r] = <<>>]
      /\ \/ job' = [job EXCEPT ![r] = "tested"] \/ job' = [job EXCEPT ![r] = "idle"]
  BY DEF SendTest, AnswerTest
<1> DEFINE s == copy[r][1].cfg
<1>4. ASSUME SendTest(r)
      PROVE  /\ job[r] = "test" /\ job'[r] = "tested" /\ copy' = copy /\ gone' = gone
             /\ IF s.kind \in Kinds THEN Deliver(r, 1, Request(s, "test"))
                ELSE errs' = [errs EXCEPT ![r] = {1}] /\ sent' = sent
  BY <1>2, <1>4 DEF SendTest
<1>5. /\ DOMAIN sent' = Callers \cup Requests /\ errs' \in [Callers \cup Requests -> SUBSET Nat]
      /\ gone' \subseteq Clients \cup Requests
      /\ \A y \in Callers \cup Requests : y # r => sent'[y] = sent[y] /\ errs'[y] = errs[y]
  <2>1. CASE AnswerTest(r)
    <3>1. Forget(r) BY <2>1 DEF AnswerTest
    <3> QED BY <1>2, <3>1, ForgetOne
  <2>2. CASE SendTest(r) /\ s.kind \in Kinds
    <3>1. Deliver(r, 1, Request(s, "test")) /\ gone' = gone BY <1>4, <2>2
    <3>2. 1 \in Nat /\ r \in Callers \cup Requests OBVIOUS
    <3> HIDE DEF s
    <3> QED BY <1>2, <3>1, <3>2, DeliverTo DEF TablesOK
  <2>3. CASE SendTest(r) /\ s.kind \notin Kinds
    <3>1. errs' = [errs EXCEPT ![r] = {1}] /\ sent' = sent /\ gone' = gone BY <1>4, <2>3
    <3>2. {1} \in SUBSET Nat OBVIOUS
    <3> HIDE DEF s
    <3> QED BY <1>2, <3>1, <3>2 DEF TablesOK
  <2> QED BY <2>1, <2>2, <2>3
<1>6. TablesOK'
  <2>0. <<>> \in Seq(Row) OBVIOUS
  <2>1. copy' \in [Requests -> Seq(Row)] BY <1>2, <1>3, <2>0
  <2> QED BY <1>1, <1>2, <1>5, <2>1 DEF TablesOK, callVars
<1>7. ASSUME NEW c \in Callers PROVE CallerOK(c)'
  <2>1. r # c BY ThreadsAssumption
  <2>2. sent'[c] = sent[c] /\ errs'[c] = errs[c] BY <1>5, <2>1
  <2> QED BY <1>1, <2>2, CallerStill DEF WireInv, callVars
<1>8. ASSUME NEW q \in Requests, q # r PROVE TestOK(q)'
  <2>1. job'[q] = job[q] /\ copy'[q] = copy[q] /\ sent'[q] = sent[q] /\ errs'[q] = errs[q]
    BY <1>2, <1>3, <1>5, <1>8
  <2> QED BY <2>1, TestStill DEF WireInv
<1>9. TestOK(r)'
  <2>1. CASE SendTest(r)
    <3>1. job[r] = "test" /\ job'[r] = "tested" /\ copy' = copy BY <1>4, <2>1
    <3>2. copy[r] # <<>> /\ sent[r] = <<>> /\ errs[r] = {} BY <3>1 DEF WireInv, TestOK
    <3>3. s \in Settings
      <4>1. copy[r] \in Seq(Row) /\ Len(copy[r]) # 0 BY <1>2, <3>2
      <4>2. copy[r][1] \in Row BY <4>1
      <4> QED BY <4>2 DEF Row
    <3>4. (s.kind \in Kinds /\ sent'[r] = <<Wanted(s, "test")>>) \/ (sent'[r] = <<>> /\ errs'[r] # {})
      <4>1. CASE s.kind \in Kinds
        <5>1. Deliver(r, 1, Request(s, "test")) BY <1>4, <2>1, <4>1
        <5>2. 1 \in Nat /\ r \in Callers \cup Requests OBVIOUS
        <5>3. Request(s, "test") = Wanted(s, "test") BY <3>3, <4>1, SameRequest
        <5> HIDE DEF s
        <5>4. \/ sent'[r] = Append(sent[r], Request(s, "test"))
              \/ sent'[r] = sent[r] /\ errs'[r] = errs[r] \cup {1}
          BY <1>2, <5>1, <5>2, DeliverTo
        <5>5. Append(<<>>, Wanted(s, "test")) = <<Wanted(s, "test")>> OBVIOUS
        <5> QED BY <3>2, <4>1, <5>3, <5>4, <5>5
      <4>2. CASE s.kind \notin Kinds
        BY <1>2, <1>4, <2>1, <3>2, <4>2 DEF TablesOK
      <4> QED BY <4>1, <4>2
    <3>5. TestAnswered(r)' BY <3>1, <3>4 DEF TestAnswered
    <3> QED BY <3>1, <3>2, <3>5 DEF TestOK
  <2>2. CASE AnswerTest(r)
    <3>1. job'[r] = "idle" /\ Forget(r) BY <1>2, <2>2 DEF AnswerTest
    <3>2. sent'[r] = <<>> /\ errs'[r] = {} BY <1>2, <3>1, ForgetOne
    <3> QED BY <3>1, <3>2 DEF TestOK
  <2> QED BY <2>1, <2>2
<1> QED BY <1>6, <1>7, <1>8, <1>9 DEF WireInv

LEMMA RestartWires == ASSUME WireInv, Restart PROVE WireInv'
<1>1. /\ pc' = [c \in Callers |-> "idle"] /\ snap' = [c \in Callers |-> Empty]
      /\ job' = [r \in Requests |-> "idle"] /\ copy' = [r \in Requests |-> <<>>]
      /\ sent' = [x \in Callers \cup Requests |-> <<>>] /\ configs' = configs
      /\ errs' = [x \in Callers \cup Requests |-> {}] /\ gone' = {}
      /\ loaded' = AtStart(configs) \/ loaded' = AtStart(<<>>)
  BY DEF Restart
<1>2. configs \in Seq(Row) /\ <<>> \in Seq(Row) BY DEF WireInv, TablesOK
<1>3. Aligned(loaded') BY <1>1, <1>2, StartAligned
<1>4. TablesOK' BY <1>1, <1>2, <1>3 DEF TablesOK, Aligned
<1>5. \A c \in Callers : CallerOK(c)' BY <1>1 DEF CallerOK
<1>6. \A r \in Requests : TestOK(r)' BY <1>1 DEF TestOK
<1> QED BY <1>4, <1>5, <1>6 DEF WireInv

LEMMA WireStep == ASSUME ManagerOK, WireInv, [Next]_vars PROVE WireInv'
<1>1. CASE \E c \in Callers : Dispatch(c)
  BY <1>1, EventsAssumption, ClaimWires, SnapshotWires, SendWires, ReturnWires DEF Dispatch
<1>2. CASE \E c \in Callers, e \in Events : Claim(c, e) BY <1>2, ClaimWires
<1>3. CASE \/ \E t \in timers : Expire(t)
           \/ \E x \in Clients \cup Requests : Disconnect(x)
           \/ Tick \/ UNCHANGED vars
  <2>1. /\ UNCHANGED <<configs, loaded, callVars, reqVars, sent, errs>>
        /\ gone' = gone \/ \E x \in Clients \cup Requests : gone' = gone \cup {x}
    BY <1>3 DEF Expire, Disconnect, Tick, vars, wireVars
  <2>2. TablesOK' BY <2>1 DEF WireInv, TablesOK, callVars, reqVars
  <2>3. \A c \in Callers : CallerOK(c)' BY <2>1, CallerStill DEF WireInv, callVars, reqVars
  <2>4. \A r \in Requests : TestOK(r)' BY <2>1, TestStill DEF WireInv, reqVars
  <2> QED BY <2>2, <2>3, <2>4 DEF WireInv
<1>4. CASE Restart BY <1>4, RestartWires
<1>5. CASE \E r \in Requests :
             Edit(r) \/ Serve(r) \/ \E k \in DOMAIN configs : ReadForTest(r, k)
  BY <1>5, RequestWires, TestWires DEF Serve
<1> QED BY <1>1, <1>2, <1>3, <1>4, <1>5 DEF Next

\* What a caller has sent is what the channels behind it are due.
THEOREM WireInvariance == Spec => [](NotifyInv /\ WireInv)
<1>1. Init => WireInv BY WireInit
<1>2. NotifyInv /\ WireInv /\ [Next]_vars => WireInv' BY WireStep DEF NotifyInv
<1>3. Spec => []NotifyInv BY NotifyInvariance
<1> QED BY <1>1, <1>2, <1>3, PTL DEF Spec

\* Type correctness: the rows and the channels hold settings (TypeOK).
THEOREM NotifyTypeCorrect == Spec => []TypeOK
<1>1. NotifyInv /\ WireInv /\ LoneInv => TypeOK
  <2> SUFFICES ASSUME NotifyInv, WireInv, LoneInv PROVE TypeOK OBVIOUS
  <2>1. configs \in Seq(Row) /\ loaded.channels \in Seq(Settings)
    BY DEF WireInv, TablesOK, Aligned
  <2>2. \A x \in Row : x.cfg \in Settings BY DEF Row
  <2>3. RowsOK BY <2>1, <2>2 DEF RowsOK
  <2>4. WiresOK BY DEF WiresOK, WireInv, TablesOK, LoneInv
  <2> QED BY <2>3, <2>4 DEF NotifyInv, TypeOK
<1> QED BY <1>1, WireInvariance, LoneInvariance, PTL

\* Notify and a test come back only when every channel that wants the event
\* got its request or has its error noted (SentOrReported).
THEOREM EachSentOrReported == Spec => SentOrReported
<1> DEFINE Notified ==
      \A c \in Callers : pc[c] = "send" /\ pc'[c] = "idle" => NotifyAnswered(c)
           Tested ==
      \A r \in Requests : job[r] = "tested" /\ job'[r] = "idle" => TestAnswered(r)
<1>1. ASSUME NotifyInv, WireInv, [Next]_vars, faults' = faults PROVE Notified
  <2> SUFFICES ASSUME NEW c \in Callers, pc[c] = "send", pc'[c] = "idle"
               PROVE  NotifyAnswered(c)
    OBVIOUS
  <2>0. pc \in [Callers -> PCs] /\ faults \in Nat
    BY <1>1, NotifyBoundAssumption DEF NotifyInv, ManagerOK
  <2>1. Return(c)
    <3>1. CASE \E d \in Callers : Dispatch(d)
      <4>1. PICK d \in Callers : Dispatch(d) BY <3>1
      <4>2. d = c BY <2>0, <4>1 DEF Dispatch, Arm, Snapshot, Send, Return
      <4>3. ~Arm(c) /\ ~Snapshot(c) /\ ~Send(c) BY <2>0 DEF Arm, Snapshot, Send
      <4> QED BY <4>1, <4>2, <4>3 DEF Dispatch
    <3>2. CASE \E d \in Callers, e \in Events : Claim(d, e)
      BY <2>0, <3>2 DEF Claim
    <3>3. CASE \/ \E t \in timers : Expire(t)
               \/ Tick
               \/ \E r \in Requests :
                    Edit(r) \/ Serve(r) \/ \E k \in DOMAIN configs : ReadForTest(r, k)
               \/ \E x \in Clients \cup Requests : Disconnect(x)
               \/ UNCHANGED vars
      <4>1. pc' = pc
        BY <3>3 DEF Expire, Tick, Edit, Serve, Create, Update, Delete, Wrote, ListRows, ListFails,
                    Reload, ReadForTest, SendTest, AnswerTest, Disconnect, vars, callVars
      <4> QED BY <4>1
    <3>4. CASE Restart
      <4>1. faults' = faults + 1 BY <3>4 DEF Restart, Fault
      <4> QED BY <1>1, <2>0, <4>1
    <3> QED BY <1>1, <3>1, <3>2, <3>3, <3>4 DEF Next
  <2> DEFINE chs == snap[c].channels
             type == event[c].type
  <2>2. /\ Aligned(snap[c]) /\ at[c] \in 1..(Len(chs) + 1)
        /\ \A i \in errs[c] : i \in 1..(at[c] - 1) /\ Wants(chs[i], type)
        /\ \E failed \in SUBSET errs[c] : sent[c] = Sendings(chs, type, failed, at[c] - 1)
    BY <1>1 DEF WireInv, CallerOK
  <2>3. chs \in Seq(Settings) BY <2>2 DEF Aligned
  <2>4. at[c] \notin 1..Len(chs) BY <2>1, <2>3 DEF Return
  <2>5. at[c] - 1 = Len(chs) /\ DOMAIN chs = 1..Len(chs) BY <2>2, <2>3, <2>4
  <2>6. \E failed \in SUBSET errs[c] : sent[c] = Due(chs, type, failed)
    <3>1. PICK failed \in SUBSET errs[c] : sent[c] = Sendings(chs, type, failed, Len(chs))
      BY <2>2, <2>5
    <3> HIDE DEF chs, type
    <3>2. Sendings(chs, type, failed, Len(chs)) = Due(chs, type, failed) BY <2>3, AllSent
    <3> QED BY <3>1, <3>2
  <2> QED BY <2>2, <2>5, <2>6 DEF NotifyAnswered
<1>2. ASSUME WireInv PROVE Tested BY <1>2 DEF WireInv, TestOK
<1>3. NotifyInv /\ WireInv /\ [Next]_vars => (faults' = faults => Notified /\ Tested)
  BY <1>1, <1>2
<1> QED BY <1>3, WireInvariance, PTL DEF Spec, SentOrReported

=============================================================================
