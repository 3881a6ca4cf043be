----------------------------- MODULE Notification -----------------------------
(***************************************************************************)
(* Event notifications: the manager (notification/manager.go) with its     *)
(* deduplication window and its channels, the callers that raise events    *)
(* (reconcilers and endpoints), and the requests that edit the rows of     *)
(* notification_configs and reload the channels from them.                 *)
(*                                                                         *)
(* Time is relative: what is left of every timer, and how long ago every   *)
(* event was last let through (TTL: as long ago as matters, or never).     *)
(***************************************************************************)
EXTENDS Selection

CONSTANTS
  Callers,     \* threads that may be in Notify at once
  Clients,     \* those that serve an approval or a rejection over HTTP
  Requests,    \* HTTP requests on the configurations that may be served at once
  Types,       \* the types of events that filters may name
  Events,      \* records [type, resource]: the two fields Notify's key is made of
  Settings,    \* records [url, kind, secret, events, enabled]: what a row may hold
  Flags,       \* the channels of the command line: a sequence of Settings
  Stored,      \* the rows of an earlier life: a sequence of [id, cfg]
  TTL,         \* the deduplication window, in ticks
  MaxStarts,   \* bound: events let through and requests on the configurations
  MaxFaults    \* bound: restarts of the controller, failed reads of the rows,
               \* endpoints that do not take what they are sent, and clients
               \* that leave

Kinds == {"webhook", "slack", "dingtalk", "feishu"}
Approvals == {"fix.approved", "fix.rejected"}   \* raised by HTTP requests

ASSUME EventsAssumption == Events # {} /\ \A e \in Events : e.type \in Types
ASSUME TTLAssumption == TTL \in Nat \ {0}
ASSUME NotifyBoundAssumption == MaxStarts \in Nat /\ MaxFaults \in Nat
ASSUME SettingsAssumption ==
  \A s \in Settings :
    s.events \subseteq Types /\ s.enabled \in BOOLEAN /\ s.secret \in BOOLEAN
ASSUME ThreadsAssumption == Clients \subseteq Callers /\ Callers \cap Requests = {}
ASSUME StoredAssumption == Stored \in Seq([id : Nat, cfg : Settings])
\* A flag gives a channel of a kind that there is, and no filter.
ASSUME FlagsAssumption ==
  /\ Flags \in Seq(Settings)
  /\ \A i \in DOMAIN Flags : Flags[i].kind \in Kinds /\ Flags[i].events = {}

VARIABLES
  configs,     \* the rows, oldest first
  loaded,      \* the manager's channels, and the filters by their index
  held,        \* the events in the dedup map
  timers,      \* pairs of an event and the ticks until it leaves the map
  pc, event, snap, at,  \* the callers: place, event, the channels they copied,
                        \* and the index they are at
  job, copy,   \* the requests: place, and the rows they read
  sent,        \* what a caller or a request has put on the wire so far
  errs,        \* the channels, by index, whose error it has noted so far
  gone,        \* the callers and requests whose client has left: their
               \* context is cancelled
  lone,        \* history: the last edit met no other, and its read succeeded
  age,         \* history: ticks since an event was let through, at most TTL
  starts, faults

callVars == <<pc, event, snap, at>>
reqVars  == <<job, copy, lone>>
wireVars == <<sent, errs, gone>>
mgrVars  == <<held, timers, age>>
vars == <<configs, loaded, mgrVars, callVars, reqVars, wireVars, starts, faults>>

AnEvent == CHOOSE e \in Events : TRUE
Empty   == [channels |-> <<>>, filters |-> <<>>]

\* The channels built from rows: the usable ones in their order, and a
\* filter, by the channel's index, where the row has one.
Usable(row) == row.cfg.enabled /\ row.cfg.kind \in Kinds
UsableOnes(rows) == {k \in DOMAIN rows : Usable(rows[k])}

BuiltByRow(rows) ==   \* mutant: the filters by the row's index
  LET use == Subsequence(rows, UsableOnes(rows))
  IN [channels |-> [i \in DOMAIN use |-> use[i].cfg],
      filters  |-> [i \in {j \in UsableOnes(rows) : rows[j].cfg.events # {}} |-> rows[i].cfg.events]]

Built(rows) ==
  LET use == Subsequence(rows, UsableOnes(rows))
  IN [channels |-> [i \in DOMAIN use |-> use[i].cfg],
      filters  |-> [i \in {j \in DOMAIN use : use[j].cfg.events # {}} |-> use[i].cfg.events]]

\* At start-up the rows come first, the flags only when there is none.
AtStart(rows) ==
  IF rows # <<>> THEN Built(rows) ELSE [channels |-> Flags, filters |-> <<>>]

Passes(set, i, type) == i \in DOMAIN set.filters => type \in set.filters[i]

(***************************************************************************)
(* What a channel of each kind puts on the wire: where to, how it is       *)
(* signed, and for which type of event.                                    *)
(***************************************************************************)

WebhookSend(s, type)  == [to |-> s.url, auth |-> IF s.secret THEN "header" ELSE "none", type |-> type]
SlackSend(s, type)    == [to |-> s.url, auth |-> "none", type |-> type]
DingTalkSend(s, type) == [to |-> s.url, auth |-> IF s.secret THEN "query" ELSE "none", type |-> type]
FeishuSend(s, type)   == [to |-> s.url, auth |-> IF s.secret THEN "body" ELSE "none", type |-> type]

Request(s, type) ==
  CASE s.kind = "webhook"  -> WebhookSend(s, type)
    [] s.kind = "slack"    -> SlackSend(s, type)
    [] s.kind = "dingtalk" -> DingTalkSend(s, type)
    [] s.kind = "feishu"   -> FeishuSend(s, type)

Init ==
  /\ configs = Stored /\ loaded = AtStart(Stored)
  /\ held = {} /\ timers = {} /\ age = [e \in Events |-> TTL]
  /\ pc = [c \in Callers |-> "idle"]
  /\ event = [c \in Callers |-> AnEvent]
  /\ snap = [c \in Callers |-> Empty]
  /\ at = [c \in Callers |-> 0]
  /\ job = [r \in Requests |-> "idle"] /\ copy = [r \in Requests |-> <<>>]
  /\ sent = [x \in Callers \cup Requests |-> <<>>]
  /\ errs = [x \in Callers \cup Requests |-> {}]
  /\ gone = {} /\ lone = TRUE
  /\ starts = 0 /\ faults = 0

(***************************************************************************)
(* Notify, one access to shared state per step.                            *)
(***************************************************************************)

Start == starts < MaxStarts /\ starts' = starts + 1
Fault == faults < MaxFaults /\ faults' = faults + 1

Raises(c, e) == c \in Clients <=> e.type \in Approvals

\* LoadOrStore found the key: the event is dropped.  Nothing changes, so a
\* duplicate is a stuttering step.
ClaimAnyway(c, e) ==   \* mutant: Load and Store, and the answer of Load is old
  /\ pc[c] = "idle" /\ Raises(c, e) /\ Start
  /\ held' = held \cup {e} /\ age' = [age EXCEPT ![e] = 0]
  /\ pc' = [pc EXCEPT ![c] = "arm"] /\ event' = [event EXCEPT ![c] = e]
  /\ UNCHANGED <<configs, loaded, timers, snap, at, reqVars, wireVars, faults>>

Claim(c, e) ==
  /\ pc[c] = "idle" /\ Raises(c, e) /\ e \notin held /\ Start
  /\ held' = held \cup {e} /\ age' = [age EXCEPT ![e] = 0]
  /\ pc' = [pc EXCEPT ![c] = "arm"] /\ event' = [event EXCEPT ![c] = e]
  /\ UNCHANGED <<configs, loaded, timers, snap, at, reqVars, wireVars, faults>>

ArmNothing(c) ==   \* mutant: no AfterFunc
  /\ pc[c] = "arm" /\ pc' = [pc EXCEPT ![c] = "copy"] /\ UNCHANGED timers
  /\ UNCHANGED <<configs, loaded, held, age, event, snap, at, reqVars, wireVars, starts, faults>>

ArmTwice(c) ==   \* mutant: the window counted twice
  /\ pc[c] = "arm" /\ pc' = [pc EXCEPT ![c] = "copy"]
  /\ timers' = timers \cup {<<event[c], TTL + TTL>>}
  /\ UNCHANGED <<configs, loaded, held, age, event, snap, at, reqVars, wireVars, starts, faults>>

Arm(c) ==
  /\ pc[c] = "arm" /\ pc' = [pc EXCEPT ![c] = "copy"]
  /\ timers' = timers \cup {<<event[c], TTL>>}
  /\ UNCHANGED <<configs, loaded, held, age, event, snap, at, reqVars, wireVars, starts, faults>>

Snapshot(c) ==
  /\ pc[c] = "copy" /\ pc' = [pc EXCEPT ![c] = "send"]
  /\ snap' = [snap EXCEPT ![c] = loaded] /\ at' = [at EXCEPT ![c] = 1]
  /\ UNCHANGED <<configs, loaded, mgrVars, event, reqVars, wireVars, starts, faults>>

\* A channel's Send with the context of x.  The request goes out and is
\* answered; or it goes out and is answered with 400 and more, or with
\* nothing; or none goes out: the URL cannot be used, nobody answers the
\* dial, or the client of x has left.
Deliver(x, i, request) ==
  \/ /\ x \notin gone
     /\ sent' = [sent EXCEPT ![x] = Append(@, request)] /\ UNCHANGED <<errs, faults>>
  \/ /\ errs' = [errs EXCEPT ![x] = @ \cup {i}]
     /\ \/ x \notin gone /\ Fault /\ sent' = [sent EXCEPT ![x] = Append(@, request)]
        \/ x \notin gone /\ Fault /\ sent' = sent
        \/ x \in gone /\ UNCHANGED <<sent, faults>>

StopAtError(c) ==   \* mutant: the loop ends with the first error
  LET i == at[c]
  IN /\ pc[c] = "send" /\ i \in DOMAIN snap[c].channels
     /\ IF Passes(snap[c], i, event[c].type)
          THEN Deliver(c, i, Request(snap[c].channels[i], event[c].type))
          ELSE UNCHANGED <<sent, errs, faults>>
     /\ at' = [at EXCEPT ![c] = IF errs' = errs THEN i + 1 ELSE Len(snap[c].channels) + 1]
     /\ UNCHANGED <<configs, loaded, mgrVars, pc, event, snap, reqVars, gone,
                    starts>>

\* An error is noted and the loop goes on.
Send(c) ==
  LET i == at[c]
  IN /\ pc[c] = "send" /\ i \in DOMAIN snap[c].channels
     /\ at' = [at EXCEPT ![c] = i + 1]
     /\ IF Passes(snap[c], i, event[c].type)
          THEN Deliver(c, i, Request(snap[c].channels[i], event[c].type))
          ELSE UNCHANGED <<sent, errs, faults>>
     /\ UNCHANGED <<configs, loaded, mgrVars, pc, event, snap, reqVars, gone,
                    starts>>

\* The thread has come to an end: nothing is left of what x sent and noted.
Forget(x) ==
  /\ sent' = [sent EXCEPT ![x] = <<>>] /\ errs' = [errs EXCEPT ![x] = {}]
  /\ gone' = gone \ {x}

Return(c) ==
  /\ pc[c] = "send" /\ at[c] \notin DOMAIN snap[c].channels
  /\ pc' = [pc EXCEPT ![c] = "idle"] /\ event' = [event EXCEPT ![c] = AnEvent]
  /\ snap' = [snap EXCEPT ![c] = Empty] /\ at' = [at EXCEPT ![c] = 0]
  /\ Forget(c)
  /\ UNCHANGED <<configs, loaded, mgrVars, reqVars, starts, faults>>

\* The client of a request closes its connection before it has the answer.
Busy == {c \in Clients : pc[c] # "idle"} \cup {r \in Requests : job[r] # "idle"}
Disconnect(x) ==
  /\ x \in Busy \ gone /\ gone' = gone \cup {x} /\ Fault
  /\ UNCHANGED <<configs, loaded, mgrVars, callVars, reqVars, sent, errs, starts>>

\* A timer that ran out deletes its key; it may run late.
Expire(t) ==
  /\ t \in timers /\ t[2] = 0
  /\ timers' = timers \ {t} /\ held' = held \ {t[1]}
  /\ UNCHANGED <<configs, loaded, age, callVars, reqVars, wireVars, starts, faults>>

Tick ==
  /\ timers' = {<<t[1], IF t[2] = 0 THEN 0 ELSE t[2] - 1>> : t \in timers}
  /\ age' = [e \in Events |-> IF age[e] = TTL THEN TTL ELSE age[e] + 1]
  /\ UNCHANGED <<configs, loaded, held, callVars, reqVars, wireVars, starts, faults>>

(***************************************************************************)
(* The requests on /api/notification-configs.  A refused write leaves no   *)
(* trace; after an accepted one the rows are read, then the channels are   *)
(* swapped.                                                                *)
(***************************************************************************)

Begin(r, next) ==
  Start /\ job[r] = "idle" /\ job' = [job EXCEPT ![r] = next]

NoEdit == \A r \in Requests : job[r] \notin {"list", "load"}

Wrote(r) ==
  /\ Begin(r, "list") /\ lone' = NoEdit
  /\ UNCHANGED <<loaded, mgrVars, callVars, copy, wireVars, faults>>

\* Only the creation checks the kind.
Create(r, s) ==
  /\ Wrote(r) /\ s.kind \in Kinds
  /\ configs' = Append(configs, [id |-> Len(Stored) + starts', cfg |-> s])

Update(r, k, s) ==
  /\ Wrote(r) /\ k \in DOMAIN configs
  /\ configs' = [configs EXCEPT ![k].cfg = s]

Without(id) == Subsequence(configs, {j \in DOMAIN configs : configs[j].id # id})

DeleteQuietly(r, k) ==   \* mutant: no reload after a delete
  /\ k \in DOMAIN configs /\ Begin(r, "idle") /\ lone' = NoEdit
  /\ configs' = Without(configs[k].id)
  /\ UNCHANGED <<loaded, mgrVars, callVars, copy, wireVars, faults>>

Delete(r, k) ==
  /\ Wrote(r) /\ k \in DOMAIN configs
  /\ configs' = Without(configs[k].id)

ListRows(r) ==
  /\ job[r] = "list" /\ r \notin gone
  /\ job' = [job EXCEPT ![r] = "load"] /\ copy' = [copy EXCEPT ![r] = configs]
  /\ UNCHANGED <<configs, loaded, mgrVars, callVars, lone, wireVars, starts, faults>>

\* The store fails, or the client has left; an error here is not answered.
ListFails(r) ==
  /\ job[r] = "list" /\ job' = [job EXCEPT ![r] = "idle"]
  /\ IF r \in gone THEN UNCHANGED faults ELSE Fault
  /\ lone' = FALSE /\ Forget(r)
  /\ UNCHANGED <<configs, loaded, mgrVars, callVars, copy, starts>>

Reload(r) ==
  /\ job[r] = "load" /\ job' = [job EXCEPT ![r] = "idle"]
  /\ loaded' = Built(copy[r]) /\ copy' = [copy EXCEPT ![r] = <<>>] /\ Forget(r)
  /\ UNCHANGED <<configs, mgrVars, callVars, lone, starts, faults>>

\* POST .../test: the row is read, then its channel is used, whatever the
\* window, the filter and the switch say.
ReadForTest(r, k) ==
  /\ Begin(r, "test") /\ k \in DOMAIN configs
  /\ copy' = [copy EXCEPT ![r] = <<configs[k]>>]
  /\ UNCHANGED <<configs, loaded, mgrVars, callVars, lone, wireVars, faults>>

SendTest(r) ==
  LET s == copy[r][1].cfg
  IN /\ job[r] = "test" /\ job' = [job EXCEPT ![r] = "tested"]
     /\ IF s.kind \in Kinds
          THEN Deliver(r, 1, Request(s, "test"))
          ELSE errs' = [errs EXCEPT ![r] = {1}] /\ UNCHANGED <<sent, faults>>
     /\ UNCHANGED <<configs, loaded, mgrVars, callVars, copy, lone, gone, starts>>

AnswerTest(r) ==
  /\ job[r] = "tested" /\ job' = [job EXCEPT ![r] = "idle"]
  /\ copy' = [copy EXCEPT ![r] = <<>>] /\ Forget(r)
  /\ UNCHANGED <<configs, loaded, mgrVars, callVars, lone, starts, faults>>

(***************************************************************************)
(* A crash takes the map, the timers and every thread; start-up ignores an *)
(* error of its read of the rows.                                          *)
(***************************************************************************)

Restart ==
  /\ Fault
  /\ \/ loaded' = AtStart(configs) /\ lone' = TRUE
     \/ loaded' = AtStart(<<>>) /\ lone' = FALSE
  /\ held' = {} /\ timers' = {} /\ age' = [e \in Events |-> TTL]
  /\ pc' = [c \in Callers |-> "idle"] /\ snap' = [c \in Callers |-> Empty]
  /\ event' = [c \in Callers |-> AnEvent] /\ at' = [c \in Callers |-> 0]
  /\ job' = [r \in Requests |-> "idle"] /\ copy' = [r \in Requests |-> <<>>]
  /\ sent' = [x \in Callers \cup Requests |-> <<>>]
  /\ errs' = [x \in Callers \cup Requests |-> {}] /\ gone' = {}
  /\ UNCHANGED <<configs, starts>>

Dispatch(c) == Arm(c) \/ Snapshot(c) \/ Send(c) \/ Return(c)

Edit(r) ==
  \/ \E s \in Settings : Create(r, s)
  \/ \E k \in DOMAIN configs : Delete(r, k) \/ \E s \in Settings : Update(r, k, s)

Serve(r) == ListRows(r) \/ ListFails(r) \/ Reload(r) \/ SendTest(r) \/ AnswerTest(r)

Next ==
  \/ \E c \in Callers : Dispatch(c) \/ \E e \in Events : Claim(c, e)
  \/ \E t \in timers : Expire(t)
  \/ \E x \in Clients \cup Requests : Disconnect(x)
  \/ Tick \/ Restart
  \/ \E r \in Requests : Edit(r) \/ Serve(r) \/ \E k \in DOMAIN configs : ReadForTest(r, k)

Spec == Init /\ [][Next]_vars

\* The callers' threads run, the clock advances and the runtime fires its
\* timers.
FairSpec ==
  /\ Spec
  /\ \A c \in Callers : WF_vars(Dispatch(c))
  /\ \A e \in Events : WF_vars(Expire(<<e, 0>>))
  /\ WF_vars(Tick)

(***************************************************************************)
(* Properties.                                                             *)
(***************************************************************************)

PCs  == {"idle", "arm", "copy", "send"}
Jobs == {"idle", "list", "load", "test", "tested"}

RowsOK ==
  /\ \A k \in DOMAIN configs : configs[k].cfg \in Settings
  /\ \A i \in DOMAIN loaded.channels : loaded.channels[i] \in Settings

ManagerOK ==
  /\ held \subseteq Events /\ timers \subseteq Events \X (0..TTL)
  /\ age \in [Events -> 0..TTL]
  /\ pc \in [Callers -> PCs] /\ event \in [Callers -> Events]
  /\ at \in [Callers -> Nat]
  /\ job \in [Requests -> Jobs]
  /\ starts \in 0..MaxStarts /\ faults \in 0..MaxFaults

WiresOK ==
  /\ errs \in [Callers \cup Requests -> SUBSET Nat]
  /\ gone \subseteq Clients \cup Requests /\ lone \in BOOLEAN

\* Every variable has its type; the rows and the channels hold settings.
TypeOK == RowsOK /\ ManagerOK /\ WiresOK

\* Why the window is kept: an event in the map has one timer, which ends
\* no earlier than TTL after the event was let through, or a caller that is
\* about to start it; an event that is not in the map is old enough.
WindowInv ==
  /\ \A t \in timers : t[1] \in held /\ age[t[1]] + t[2] >= TTL
  /\ \A e \in Events \ held : age[e] = TTL
  /\ \A c \in Callers : pc[c] = "arm" =>
       event[c] \in held /\ \A t \in timers : t[1] # event[c]
  /\ \A t, u \in timers : t[1] = u[1] => t = u
  /\ \A c, d \in Callers : (pc[c] = "arm" /\ pc[d] = "arm" /\ event[c] = event[d]) => c = d

\* In one life of the controller an event is let through at most once in
\* TTL, however its callers interleave and whenever its timers run: a
\* timer of one window never shortens the next.
WindowKept ==
  [][\A c \in Callers :
       pc[c] = "idle" /\ pc'[c] = "arm" => age[event'[c]] = TTL]_vars

\* No event is suppressed for ever: its window closes, again and again.
WindowCloses == \A e \in Events : []<>(e \notin held)

\* Notify comes back only when every channel of its copy that wants the
\* event got its own request, signed if it has a secret, or has its error in
\* what Notify returns, and no other channel got one: neither a failure nor
\* a client that leaves keeps a channel from being tried without a trace,
\* and no filter slips to another channel.  A test goes to the row it names,
\* whatever its filter, or is answered with an error.
Wanted(s, type) ==
  [to |-> s.url, type |-> type,
   auth |-> IF ~s.secret \/ s.kind = "slack" THEN "none"
            ELSE CASE s.kind = "webhook"  -> "header"
                   [] s.kind = "dingtalk" -> "query"
                   [] OTHER               -> "body"]
Wants(s, type) == s.events = {} \/ type \in s.events
Due(channels, type, failed) ==
  LET due == Subsequence(channels, {i \in DOMAIN channels \ failed : Wants(channels[i], type)})
  IN [i \in DOMAIN due |-> Wanted(due[i], type)]
NotifyAnswered(c) ==
  /\ \A i \in errs[c] : i \in DOMAIN snap[c].channels /\ Wants(snap[c].channels[i], event[c].type)
  /\ \E failed \in SUBSET errs[c] : sent[c] = Due(snap[c].channels, event[c].type, failed)
TestAnswered(r) ==
  LET s == copy[r][1].cfg
  IN \/ s.kind \in Kinds /\ sent[r] = <<Wanted(s, "test")>>
     \/ sent[r] = <<>> /\ errs[r] # {}
SentOrReported ==
  [][faults' = faults =>
       /\ \A c \in Callers : pc[c] = "send" /\ pc'[c] = "idle" => NotifyAnswered(c)
       /\ \A r \in Requests : job[r] = "tested" /\ job'[r] = "idle" => TestAnswered(r)]_vars

\* The channels are those a reading of the rows gives now; with no row, they
\* may be the flags'.
InEffect ==
  loaded = Built(configs) \/ (configs = <<>> /\ loaded = AtStart(<<>>))

\* Changes of the rows take effect at once ("DB 配置变更后立即生效",
\* manager.go): whenever no edit is being served and no read has failed.
ChangesTakeEffect == (NoEdit /\ faults = 0) => InEffect

\* An edit that meets no other takes effect by the time it is answered,
\* unless its own reading of the rows failed: whatever channels earlier
\* edits left, by overlapping or by failing.
LoneEditsTakeEffect == (NoEdit /\ lone) => InEffect
=============================================================================
