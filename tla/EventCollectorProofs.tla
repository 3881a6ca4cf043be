------------------------- MODULE EventCollectorProofs -------------------------
(***************************************************************************)
(* Proofs about EventCollector and EventQueries, for any events, sizes and *)
(* failures: what is on its way for an event is in the order of its        *)
(* occurrences, so no row falls back; and for any tables: the pages of a   *)
(* listing are what it selects.                                            *)
(***************************************************************************)
EXTENDS EventQueries, FiniteSetTheorems, TLAPS

Change == [uid : Events, version : Nat, born : Nat, last : Nat]

\* Everything that a sequence holds of an event occurred by its version v,
AtMost(s, e, v) == \A k \in 1..Len(s) : s[k].uid = e => s[k].version <= v

\* and a sequence holds them in their order.
Ordered(s) ==
  \A j, k \in 1..Len(s) : j < k /\ s[j].uid = s[k].uid => s[j].version <= s[k].version

InTable(t, e, v)   == t[e] # NoRow => t[e].version <= v
InPending(p, e, v) == \A i \in p : i.uid = e => i.version <= v

\* From the list to the table nothing is newer.
Ahead(p, q, b, t, e, v) ==
  InTable(t, e, v) /\ AtMost(b, e, v) /\ AtMost(q, e, v) /\ InPending(p, e, v)

FlowTypes ==
  /\ now \in Nat
  /\ version \in [Events -> Nat] /\ born \in [Events -> Nat] /\ last \in [Events -> Nat]
  /\ here \subseteq Events
  /\ log \in Seq(Change) /\ at \in 0..Len(log)
  /\ pending \subseteq Item /\ queue \in Seq(Item) /\ buf \in Seq(Item)
  /\ rows \in [Events -> Item \cup {NoRow}]
  /\ watcher = "watch" => pending = {}
  /\ batcher = "flush" => buf # <<>>

\* What is behind is newer: in the cluster than anywhere, in the log past the
\* watcher's place and in the list than in the channel, there than in the
\* buffer, there than in the table.
InFlow(w, n, p, q, b, t, v, g) ==
  /\ \A e \in Events : Ahead(p, q, b, t, e, v[e]) /\ AtMost(g, e, v[e])
  /\ Ordered(b) /\ Ordered(q) /\ Ordered(g)
  /\ \A k \in 1..Len(b) : InTable(t, b[k].uid, b[k].version)
  /\ \A k \in 1..Len(q) :
       InTable(t, q[k].uid, q[k].version) /\ AtMost(b, q[k].uid, q[k].version)
  /\ \A i \in p : Ahead(p, q, b, t, i.uid, i.version)
  /\ w \in {"send", "watch"} =>
       \A k \in (n + 1)..Len(g) : Ahead(p, q, b, t, g[k].uid, g[k].version)

FlowInv == FlowTypes /\ InFlow(watcher, at, pending, queue, buf, rows, version, log)

(***************************************************************************)
(* Sequences.                                                              *)
(***************************************************************************)
LEMMA AppendAtMost ==
  ASSUME NEW S, NEW s \in Seq(S), NEW i \in S, NEW e, NEW v,
         AtMost(s, e, v), i.uid = e => i.version <= v
  PROVE  AtMost(Append(s, i), e, v)
<1>1. /\ Len(Append(s, i)) = Len(s) + 1 /\ Len(s) \in Nat
      /\ \A k \in 1..Len(s) : Append(s, i)[k] = s[k]
      /\ Append(s, i)[Len(s) + 1] = i
  OBVIOUS
<1>2. \A k \in 1..(Len(s) + 1) : k \in 1..Len(s) \/ k = Len(s) + 1 BY <1>1
<1> QED BY <1>1, <1>2 DEF AtMost

LEMMA AppendOrdered ==
  ASSUME NEW S, NEW s \in Seq(S), NEW i \in S, Ordered(s), AtMost(s, i.uid, i.version)
  PROVE  Ordered(Append(s, i))
<1>1. /\ Len(Append(s, i)) = Len(s) + 1 /\ Len(s) \in Nat
      /\ \A k \in 1..Len(s) : Append(s, i)[k] = s[k]
      /\ Append(s, i)[Len(s) + 1] = i
  OBVIOUS
<1>2. \A k \in 1..(Len(s) + 1) : k \in 1..Len(s) \/ k = Len(s) + 1 BY <1>1
<1>3. \A j, k \in 1..(Len(s) + 1) : j < k => j \in 1..Len(s) BY <1>1
<1> QED BY <1>1, <1>2, <1>3 DEF AtMost, Ordered

\* The rest of a sequence is in order, behind its head.
LEMMA TailBehind ==
  ASSUME NEW S, NEW s \in Seq(S), s # <<>>
  PROVE  /\ Tail(s) \in Seq(S) /\ Len(Tail(s)) = Len(s) - 1 /\ Head(s) = s[1] /\ 1 \in 1..Len(s)
         /\ \A k \in 1..Len(Tail(s)) : k + 1 \in 1..Len(s) /\ Tail(s)[k] = s[k + 1]
         /\ Ordered(s) => /\ Ordered(Tail(s))
                          /\ \A k \in 1..Len(Tail(s)) :
                               Tail(s)[k].uid = Head(s).uid => Head(s).version <= Tail(s)[k].version
         /\ \A e, v : AtMost(s, e, v) =>
              AtMost(Tail(s), e, v) /\ (Head(s).uid = e => Head(s).version <= v)
<1>1. /\ Tail(s) \in Seq(S) /\ Len(Tail(s)) = Len(s) - 1 /\ Head(s) = s[1]
      /\ Len(s) \in Nat /\ Len(s) > 0
      /\ \A k \in 1..Len(Tail(s)) : Tail(s)[k] = s[k + 1]
  OBVIOUS
<1>2. 1 \in 1..Len(s) /\ \A k \in 1..Len(Tail(s)) : k + 1 \in 1..Len(s) /\ 1 < k + 1 BY <1>1
<1>3. ASSUME Ordered(s) PROVE Ordered(Tail(s))
  <2> SUFFICES ASSUME NEW j \in 1..Len(Tail(s)), NEW k \in 1..Len(Tail(s)), j < k,
                      Tail(s)[j].uid = Tail(s)[k].uid
               PROVE  Tail(s)[j].version <= Tail(s)[k].version
    BY DEF Ordered
  <2>1. j + 1 < k + 1 BY <1>1
  <2> QED BY <2>1, <1>1, <1>2, <1>3 DEF Ordered
<1>4. ASSUME Ordered(s)
      PROVE  \A k \in 1..Len(Tail(s)) :
               Tail(s)[k].uid = Head(s).uid => Head(s).version <= Tail(s)[k].version
  BY <1>1, <1>2, <1>4 DEF Ordered
<1>5. ASSUME NEW e, NEW v, AtMost(s, e, v)
      PROVE  AtMost(Tail(s), e, v) /\ (Head(s).uid = e => Head(s).version <= v)
  BY <1>1, <1>2, <1>5 DEF AtMost
<1> QED BY <1>1, <1>2, <1>3, <1>4, <1>5

LEMMA UpsertedVersion ==
  ASSUME NEW i \in Item, NEW row \in Item \cup {NoRow}
  PROVE  Upserted(row, i) \in Item /\ Upserted(row, i).version = i.version
BY DEF Upserted, Item

LEMMA ARow == ASSUME NEW i \in Item PROVE i # NoRow /\ i.uid \in Events /\ i.version \in Nat
BY DEF Item, NoRow

LEMMA FlowInit == Init => FlowInv
BY DEF Init, FlowInv, FlowTypes, InFlow, Ahead, InTable, InPending, AtMost, Ordered

(***************************************************************************)
(* The steps.                                                              *)
(***************************************************************************)
LEMMA VersionsAreNumbers ==
  ASSUME FlowTypes
  PROVE  /\ \A k \in 1..Len(buf) : buf[k] \in Item
         /\ \A k \in 1..Len(queue) : queue[k] \in Item
         /\ \A k \in 1..Len(log) : log[k] \in Change
         /\ \A e \in Events : rows[e] # NoRow => rows[e] \in Item
BY DEF FlowTypes

\* Nothing in the flow moves.
LEMMA Frame ==
  ASSUME FlowInv, UNCHANGED <<version, born, last, log, queue, buf, rows, pending, at>>,
         now' \in Nat, here' \subseteq Events, batcher' = "flush" => buf # <<>>,
         watcher' = "watch" => pending = {},
         watcher' \in {"send", "watch"} => watcher \in {"send", "watch"}
  PROVE  FlowInv'
<1>1. FlowTypes' BY DEF FlowInv, FlowTypes
<1>2. InFlow(watcher', at', pending', queue', buf', rows', version', log')
  BY DEF FlowInv, InFlow
<1> QED BY <1>1, <1>2 DEF FlowInv

LEMMA Newer ==
  ASSUME FlowInv, NEW e \in Events, NEW v \in Nat, NEW w \in Nat, v <= w,
         Ahead(pending, queue, buf, rows, e, v)
  PROVE  Ahead(pending, queue, buf, rows, e, w)
<1>0. FlowTypes BY DEF FlowInv
<1>1. InTable(rows, e, w) BY <1>0, VersionsAreNumbers, ARow DEF Ahead, InTable
<1>2. AtMost(buf, e, w) BY <1>0, VersionsAreNumbers, ARow DEF Ahead, AtMost
<1>3. AtMost(queue, e, w) BY <1>0, VersionsAreNumbers, ARow DEF Ahead, AtMost
<1>4. InPending(pending, e, w) BY <1>0, ARow DEF Ahead, InPending, FlowTypes
<1> QED BY <1>1, <1>2, <1>3, <1>4 DEF Ahead

LEMMA OccursKeeps == ASSUME FlowInv, NEW e \in Events, Occurs(e) PROVE FlowInv'
<1> DEFINE c == [uid |-> e, version |-> version[e] + 1, born |-> born'[e], last |-> now]
           A(f, v) == Ahead(pending, queue, buf, rows, f, v)
<1>1. /\ version' = [version EXCEPT ![e] = @ + 1]
      /\ born' = [born EXCEPT ![e] = IF version[e] = 0 THEN now ELSE @]
      /\ last' = [last EXCEPT ![e] = now] /\ here' = here \cup {e}
      /\ log' = Append(log, c)
      /\ UNCHANGED <<now, watcher, pending, at, queue, batcher, buf, rows>>
  BY DEF Occurs, watchVars, batchVars
<1>2. FlowTypes BY DEF FlowInv
<1>3. /\ version' \in [Events -> Nat] /\ version'[e] = version[e] + 1
      /\ \A f \in Events : f # e => version'[f] = version[f]
  BY <1>1, <1>2 DEF FlowTypes
<1>4. born' \in [Events -> Nat] BY <1>1, <1>2 DEF FlowTypes
<1>5. last' \in [Events -> Nat] BY <1>1, <1>2 DEF FlowTypes
<1>6. c \in Change BY <1>2, <1>4 DEF FlowTypes, Change
<1>7. c.uid = e /\ c.version = version[e] + 1 OBVIOUS
<1> HIDE DEF c
<1>8. /\ log' \in Seq(Change) /\ Len(log') = Len(log) + 1 /\ Len(log) \in Nat
      /\ \A k \in 1..Len(log) : log'[k] = log[k]
      /\ log'[Len(log) + 1] = c
  BY <1>1, <1>2, <1>6 DEF FlowTypes
<1>9. FlowTypes' BY <1>1, <1>2, <1>3, <1>4, <1>5, <1>8 DEF FlowTypes
<1>10. \A f \in Events : A(f, version[f]) /\ AtMost(log, f, version[f])
  BY DEF FlowInv, InFlow
<1>11. version[e] \in Nat /\ version[e] + 1 \in Nat /\ version[e] <= version[e] + 1
  BY <1>2 DEF FlowTypes
<1>12. A(e, version[e] + 1) BY <1>10, <1>11, Newer
<1>13. \A f \in Events : A(f, version'[f]) BY <1>3, <1>10, <1>12
<1>14. \A f \in Events : AtMost(log, f, version'[f])
  <2> TAKE f \in Events
  <2>2. CASE f # e BY <2>2, <1>3, <1>10
  <2>3. CASE f = e
    <3>1. \A k \in 1..Len(log) : log[k].version \in Nat BY <1>2, VersionsAreNumbers DEF Change
    <3> QED BY <2>3, <3>1, <1>3, <1>10, <1>11 DEF AtMost
  <2> QED BY <2>2, <2>3
<1>15. \A f \in Events : AtMost(log', f, version'[f])
  <2> TAKE f \in Events
  <2>1. c.uid = f => c.version <= version'[f] BY <1>3, <1>7, <1>11
  <2> QED BY <1>1, <1>2, <1>6, <1>14, <2>1, AppendAtMost DEF FlowTypes
<1>16. AtMost(log, c.uid, c.version) BY <1>3, <1>7, <1>14
<1>17. Ordered(log') BY <1>1, <1>2, <1>6, <1>16, AppendOrdered DEF FlowInv, InFlow, FlowTypes
<1>18. ASSUME watcher \in {"send", "watch"}, NEW k \in (at + 1)..Len(log')
       PROVE  A(log'[k].uid, log'[k].version)
  <2>0. at \in Nat BY <1>2, <1>8 DEF FlowTypes
  <2>1. CASE k = Len(log) + 1 BY <2>1, <1>7, <1>8, <1>12
  <2>2. CASE k # Len(log) + 1
    <3>1. k \in (at + 1)..Len(log) /\ k \in 1..Len(log) BY <2>0, <2>2, <1>8, <1>18
    <3> QED BY <3>1, <1>8, <1>18 DEF FlowInv, InFlow
  <2> QED BY <2>1, <2>2
<1>19. InFlow(watcher, at, pending, queue, buf, rows, version', log')
  BY <1>13, <1>15, <1>17, <1>18 DEF FlowInv, InFlow
<1> QED BY <1>1, <1>9, <1>19 DEF FlowInv

LEMMA ListKeeps == ASSUME FlowInv, ListEvents PROVE FlowInv'
<1>1. CASE watcher' = "pause"
  <2>1. UNCHANGED <<version, born, last, log, queue, buf, rows, pending, at, now, here, batcher>>
    BY <1>1 DEF ListEvents, apiVars, batchVars
  <2> QED BY <1>1, <2>1, Frame DEF FlowInv, FlowTypes
<1>2. CASE watcher' = "send"
  <2>1. /\ pending' = {Current(e) : e \in here} /\ at' = Len(log)
        /\ UNCHANGED <<version, born, last, log, queue, buf, rows, now, here, batcher>>
    BY <1>2 DEF ListEvents, apiVars, batchVars
  <2>2. FlowTypes BY DEF FlowInv
  <2>3. \A e \in here : Current(e).uid = e /\ Current(e).version = version[e] /\ Current(e) \in Item
    BY <2>2 DEF Current, kubeEventToStore, Item, FlowTypes
  <2>4. Len(log) \in Nat BY <2>2 DEF FlowTypes
  <2>5. FlowTypes' BY <1>2, <2>1, <2>2, <2>3, <2>4 DEF FlowTypes
  <2>6. \A i \in pending' : i.uid \in Events /\ i.version = version[i.uid]
    BY <2>1, <2>2, <2>3 DEF FlowTypes
  <2>7. \A e \in Events : InPending(pending', e, version[e])
    BY <2>2, <2>6 DEF FlowTypes, InPending
  <2>8. \A e \in Events : Ahead(pending', queue, buf, rows, e, version[e])
    BY <2>7 DEF FlowInv, InFlow, Ahead
  <2>9. \A i \in pending' : Ahead(pending', queue, buf, rows, i.uid, i.version)
    BY <2>6, <2>8
  <2>10. \A k \in (Len(log) + 1)..Len(log) : FALSE BY <2>4
  <2>11. InFlow(watcher', at', pending', queue, buf, rows, version, log)
    BY <2>1, <2>8, <2>9, <2>10 DEF FlowInv, InFlow
  <2> QED BY <2>1, <2>5, <2>11 DEF FlowInv
<1> QED BY <1>1, <1>2 DEF ListEvents

\* An item joins the channel that nothing in front of it is newer than, and
\* that is newer than nothing behind it.
LEMMA JoinKeeps ==
  ASSUME FlowInv, NEW i \in Item, NEW p \in SUBSET pending, NEW n \in Nat, n >= at,
         Ahead(pending, queue, buf, rows, i.uid, i.version),
         \A e \in Events : i.uid = e => i.version <= version[e],
         \A j \in p : i.uid = j.uid => i.version <= j.version,
         watcher \in {"send", "watch"} =>
           \A k \in (n + 1)..Len(log) : i.uid = log[k].uid => i.version <= log[k].version
  PROVE  InFlow(watcher, n, p, Append(queue, i), buf, rows, version, log)
<1> DEFINE q == Append(queue, i)
<1>1. queue \in Seq(Item) /\ at \in Nat /\ Len(log) \in Nat BY DEF FlowInv, FlowTypes
<1>2. ASSUME NEW e, NEW v, Ahead(pending, queue, buf, rows, e, v), i.uid = e => i.version <= v
      PROVE  Ahead(p, q, buf, rows, e, v)
  <2>1. AtMost(q, e, v) BY <1>1, <1>2, AppendAtMost DEF Ahead
  <2> QED BY <1>2, <2>1 DEF Ahead, InPending
<1>3. Ordered(q) BY <1>1, AppendOrdered DEF FlowInv, InFlow, Ahead
<1>4. \A k \in 1..Len(q) : InTable(rows, q[k].uid, q[k].version) /\ AtMost(buf, q[k].uid, q[k].version)
  <2>1. /\ Len(q) = Len(queue) + 1 /\ Len(queue) \in Nat /\ q[Len(queue) + 1] = i
        /\ \A k \in 1..Len(queue) : q[k] = queue[k]
    BY <1>1
  <2>2. \A k \in 1..Len(q) : k \in 1..Len(queue) \/ k = Len(queue) + 1 BY <2>1
  <2> QED BY <2>1, <2>2 DEF FlowInv, InFlow, Ahead
<1>5. \A k \in (n + 1)..Len(log) : k \in (at + 1)..Len(log) BY <1>1
<1> HIDE DEF q
<1>6. \A e \in Events : Ahead(p, q, buf, rows, e, version[e]) BY <1>2 DEF FlowInv, InFlow
<1>7. \A j \in p : Ahead(p, q, buf, rows, j.uid, j.version) BY <1>2 DEF FlowInv, InFlow
<1>8. watcher \in {"send", "watch"} =>
        \A k \in (n + 1)..Len(log) : Ahead(p, q, buf, rows, log[k].uid, log[k].version)
  BY <1>2, <1>5 DEF FlowInv, InFlow
<1>9. InFlow(watcher, n, p, q, buf, rows, version, log)
  BY <1>3, <1>4, <1>6, <1>7, <1>8 DEF FlowInv, InFlow
<1> QED BY <1>9 DEF q

LEMMA SendListedKeeps == ASSUME FlowInv, SendListed PROVE FlowInv'
<1>1. PICK i \in pending : pending' = pending \ {i} /\ queue' = Append(queue, i)
  BY DEF SendListed
<1>2. watcher = "send"
      /\ UNCHANGED <<version, born, last, log, buf, rows, at, watcher, now, here, batcher>>
  BY DEF SendListed, apiVars, batchVars
<1>3. FlowTypes BY DEF FlowInv
<1>4. i \in Item /\ at \in Nat /\ at >= at BY <1>3 DEF FlowTypes
<1>5. FlowTypes' BY <1>1, <1>2, <1>3, <1>4 DEF FlowTypes
<1>6. Ahead(pending, queue, buf, rows, i.uid, i.version) BY DEF FlowInv, InFlow
<1>7. \A e \in Events : i.uid = e => i.version <= version[e]
  BY DEF FlowInv, InFlow, Ahead, InPending
<1>8. \A j \in pending' : i.uid = j.uid => i.version <= j.version
  BY <1>1 DEF FlowInv, InFlow, Ahead, InPending
<1>9. \A k \in (at + 1)..Len(log) : i.uid = log[k].uid => i.version <= log[k].version
  BY <1>2 DEF FlowInv, InFlow, Ahead, InPending
<1>10. InFlow(watcher, at, pending', queue', buf, rows, version, log)
  <2>1. pending' \in SUBSET pending BY <1>1
  <2> QED BY <1>1, <1>4, <1>6, <1>7, <1>8, <1>9, <2>1, JoinKeeps
<1> QED BY <1>2, <1>5, <1>10 DEF FlowInv

LEMMA SendWatchedKeeps == ASSUME FlowInv, SendWatched PROVE FlowInv'
<1> DEFINE c == log[at + 1]
           i == kubeEventToStore(c.uid, c.version, c.born, c.last)
<1>1. /\ watcher = "watch" /\ at < Len(log) /\ queue' = Append(queue, i) /\ at' = at + 1
      /\ UNCHANGED <<version, born, last, log, buf, rows, pending, watcher, now, here, batcher>>
  BY DEF SendWatched, apiVars, batchVars
<1>2. FlowTypes BY DEF FlowInv
<1>3. /\ at \in Nat /\ Len(log) \in Nat /\ at + 1 \in 1..Len(log) /\ at + 1 \in (at + 1)..Len(log)
      /\ at + 1 >= at /\ at + 1 \in Nat
  BY <1>1, <1>2 DEF FlowTypes
<1>4. c \in Change BY <1>2, <1>3, VersionsAreNumbers
<1>5. i \in Item /\ i.uid = c.uid /\ i.version = c.version
  BY <1>4 DEF kubeEventToStore, Item, Change
<1> HIDE DEF i
<1>6. FlowTypes' BY <1>1, <1>2, <1>3, <1>5 DEF FlowTypes
<1>7. Ahead(pending, queue, buf, rows, i.uid, i.version)
  BY <1>1, <1>3, <1>5 DEF FlowInv, InFlow
<1>8. \A e \in Events : i.uid = e => i.version <= version[e]
  BY <1>3, <1>5 DEF FlowInv, InFlow, AtMost
<1>9. pending = {} BY <1>1, <1>2 DEF FlowTypes
<1>10. \A k \in (at + 1 + 1)..Len(log) : i.uid = log[k].uid => i.version <= log[k].version
  <2>1. \A k \in (at + 1 + 1)..Len(log) : k \in 1..Len(log) /\ at + 1 < k BY <1>3
  <2> QED BY <2>1, <1>3, <1>5 DEF FlowInv, InFlow, Ordered
<1>11. InFlow(watcher, at + 1, pending, Append(queue, i), buf, rows, version, log)
  <2> HIDE DEF c
  <2> QED BY <1>3, <1>5, <1>7, <1>8, <1>9, <1>10, JoinKeeps
<1> QED BY <1>1, <1>6, <1>11 DEF FlowInv

LEMMA TakeKeeps == ASSUME FlowInv, Take PROVE FlowInv'
<1> DEFINE h == Head(queue)
<1>1. /\ queue # <<>> /\ buf' = Append(buf, h) /\ queue' = Tail(queue)
      /\ UNCHANGED <<version, born, last, log, rows, pending, at, watcher, now, here>>
  BY DEF Take, apiVars, watchVars
<1>2. FlowTypes BY DEF FlowInv
<1>3. /\ queue' \in Seq(Item) /\ h = queue[1] /\ 1 \in 1..Len(queue)
      /\ Len(queue') = Len(queue) - 1
      /\ \A k \in 1..Len(queue') : k + 1 \in 1..Len(queue) /\ queue'[k] = queue[k + 1]
      /\ Ordered(queue')
      /\ \A k \in 1..Len(queue') : queue'[k].uid = h.uid => h.version <= queue'[k].version
      /\ \A e, v : AtMost(queue, e, v) =>
           AtMost(queue', e, v) /\ (h.uid = e => h.version <= v)
  BY <1>1, <1>2, TailBehind DEF FlowInv, InFlow, FlowTypes
<1>4. h \in Item /\ buf \in Seq(Item) BY <1>2, <1>3, VersionsAreNumbers DEF FlowTypes
<1> HIDE DEF h
<1>5. /\ buf' \in Seq(Item) /\ Len(buf') = Len(buf) + 1 /\ Len(buf) \in Nat /\ buf' # <<>>
      /\ buf'[Len(buf) + 1] = h /\ \A k \in 1..Len(buf) : buf'[k] = buf[k]
  BY <1>1, <1>4
<1>6. FlowTypes' BY <1>1, <1>2, <1>3, <1>5 DEF FlowTypes
<1>7. ASSUME NEW e, NEW v, Ahead(pending, queue, buf, rows, e, v)
      PROVE  Ahead(pending, queue', buf', rows, e, v)
  <2>1. AtMost(buf', e, v) BY <1>1, <1>3, <1>4, <1>7, AppendAtMost DEF Ahead
  <2> QED BY <1>3, <1>7, <2>1 DEF Ahead
<1>8. InTable(rows, h.uid, h.version) /\ AtMost(buf, h.uid, h.version)
  BY <1>3 DEF FlowInv, InFlow
<1>9. Ordered(buf') BY <1>1, <1>4, <1>8, AppendOrdered DEF FlowInv, InFlow
<1>10. \A k \in 1..Len(buf') : InTable(rows, buf'[k].uid, buf'[k].version)
  <2>1. \A k \in 1..Len(buf') : k \in 1..Len(buf) \/ k = Len(buf) + 1 BY <1>5
  <2> QED BY <1>5, <1>8, <2>1 DEF FlowInv, InFlow
<1>11. ASSUME NEW k \in 1..Len(queue')
       PROVE  InTable(rows, queue'[k].uid, queue'[k].version)
              /\ AtMost(buf', queue'[k].uid, queue'[k].version)
  <2>1. InTable(rows, queue'[k].uid, queue'[k].version) /\ AtMost(buf, queue'[k].uid, queue'[k].version)
    BY <1>3, <1>11 DEF FlowInv, InFlow
  <2>2. AtMost(buf', queue'[k].uid, queue'[k].version)
    BY <1>1, <1>3, <1>4, <1>11, <2>1, AppendAtMost
  <2> QED BY <2>1, <2>2
<1>12. \A e \in Events : Ahead(pending, queue', buf', rows, e, version[e])
  BY <1>7 DEF FlowInv, InFlow
<1>13. \A i \in pending : Ahead(pending, queue', buf', rows, i.uid, i.version)
  BY <1>7 DEF FlowInv, InFlow
<1>14. watcher \in {"send", "watch"} =>
         \A k \in (at + 1)..Len(log) : Ahead(pending, queue', buf', rows, log[k].uid, log[k].version)
  BY <1>7 DEF FlowInv, InFlow
<1>15. InFlow(watcher, at, pending, queue', buf', rows, version, log)
  BY <1>3, <1>9, <1>10, <1>11, <1>12, <1>13, <1>14 DEF FlowInv, InFlow
<1> QED BY <1>1, <1>6, <1>15 DEF FlowInv

\* The table takes no row that is newer than what is behind it.
LEMMA TableKeeps ==
  ASSUME FlowInv, NEW b \in Seq(Item), NEW t,
         Ordered(b), \A k \in 1..Len(b) : InTable(t, b[k].uid, b[k].version),
         \A e \in Events, v \in Nat :
           InTable(rows, e, v) /\ AtMost(buf, e, v) => InTable(t, e, v) /\ AtMost(b, e, v)
  PROVE  InFlow(watcher, at, pending, queue, b, t, version, log)
<1>1. FlowTypes BY DEF FlowInv
<1>2. ASSUME NEW e \in Events, NEW v \in Nat, Ahead(pending, queue, buf, rows, e, v)
      PROVE  Ahead(pending, queue, b, t, e, v)
  BY <1>2 DEF Ahead
<1>3. \A e \in Events : Ahead(pending, queue, b, t, e, version[e])
  BY <1>1, <1>2 DEF FlowInv, InFlow, FlowTypes
<1>4. \A k \in 1..Len(queue) : InTable(t, queue[k].uid, queue[k].version)
                               /\ AtMost(b, queue[k].uid, queue[k].version)
  BY <1>1, VersionsAreNumbers, ARow DEF FlowInv, InFlow
<1>5. \A i \in pending : Ahead(pending, queue, b, t, i.uid, i.version)
  BY <1>1, <1>2, ARow DEF FlowInv, InFlow, FlowTypes
<1>6. ASSUME watcher \in {"send", "watch"}, NEW k \in (at + 1)..Len(log)
      PROVE  Ahead(pending, queue, b, t, log[k].uid, log[k].version)
  <2>1. k \in 1..Len(log) BY <1>1 DEF FlowTypes
  <2>2. log[k].uid \in Events /\ log[k].version \in Nat
    BY <1>1, <2>1, VersionsAreNumbers DEF Change
  <2>3. Ahead(pending, queue, buf, rows, log[k].uid, log[k].version) BY <1>6 DEF FlowInv, InFlow
  <2> QED BY <1>2, <2>2, <2>3
<1> QED BY <1>3, <1>4, <1>5, <1>6 DEF FlowInv, InFlow

LEMMA UpsertKeeps ==
  ASSUME FlowInv, UpsertEvent
  PROVE  FlowInv' /\ \A e \in Events : rows'[e] = rows[e] \/ InTable(rows, e, rows'[e].version)
<1> DEFINE h == Head(buf)
<1>1. /\ buf' = Tail(buf) /\ batcher = "flush" /\ (batcher' = "flush" => buf' # <<>>)
      /\ rows' = [rows EXCEPT ![h.uid] = Upserted(@, h)] \/ rows' = rows
      /\ UNCHANGED <<version, born, last, log, queue, pending, at, watcher, now, here>>
  BY DEF UpsertEvent, apiVars, watchVars
<1>2. FlowTypes /\ buf # <<>> BY <1>1 DEF FlowInv, FlowTypes
<1>3. /\ buf' \in Seq(Item) /\ h = buf[1] /\ 1 \in 1..Len(buf)
      /\ Len(buf') = Len(buf) - 1
      /\ \A k \in 1..Len(buf') : k + 1 \in 1..Len(buf) /\ buf'[k] = buf[k + 1]
      /\ Ordered(buf')
      /\ \A k \in 1..Len(buf') : buf'[k].uid = h.uid => h.version <= buf'[k].version
      /\ \A e, v : AtMost(buf, e, v) =>
           AtMost(buf', e, v) /\ (h.uid = e => h.version <= v)
  BY <1>1, <1>2, TailBehind DEF FlowInv, InFlow, FlowTypes
<1>4. h \in Item /\ h.uid \in Events BY <1>2, <1>3, VersionsAreNumbers, ARow
<1>5. InTable(rows, h.uid, h.version) BY <1>3 DEF FlowInv, InFlow
<1> HIDE DEF h
<1>6. /\ rows' \in [Events -> Item \cup {NoRow}]
      /\ \A e \in Events : rows'[e] = rows[e] \/ (e = h.uid /\ rows'[e].version = h.version)
  <2>1. CASE rows' = rows BY <2>1, <1>2 DEF FlowTypes
  <2>2. CASE rows' = [rows EXCEPT ![h.uid] = Upserted(@, h)]
    <3>1. Upserted(rows[h.uid], h) \in Item /\ Upserted(rows[h.uid], h).version = h.version
      BY <1>2, <1>4, UpsertedVersion DEF FlowTypes
    <3> QED BY <2>2, <3>1, <1>2, <1>4 DEF FlowTypes
  <2> QED BY <1>1, <2>1, <2>2
<1>7. FlowTypes' BY <1>1, <1>2, <1>3, <1>6 DEF FlowTypes
<1>8. \A k \in 1..Len(buf') : InTable(rows', buf'[k].uid, buf'[k].version)
  <2> TAKE k \in 1..Len(buf')
  <2>1. buf'[k].uid \in Events BY <1>2, <1>3, VersionsAreNumbers, ARow
  <2>2. InTable(rows, buf'[k].uid, buf'[k].version) BY <1>3 DEF FlowInv, InFlow
  <2> QED BY <2>1, <2>2, <1>3, <1>6 DEF InTable
<1>9. \A e \in Events, v \in Nat :
        InTable(rows, e, v) /\ AtMost(buf, e, v) => InTable(rows', e, v) /\ AtMost(buf', e, v)
  BY <1>3, <1>6 DEF InTable
<1>10. InFlow(watcher, at, pending, queue, buf', rows', version, log)
  BY <1>3, <1>8, <1>9, TableKeeps
<1>11. FlowInv' BY <1>1, <1>7, <1>10 DEF FlowInv
<1> QED BY <1>5, <1>6, <1>11

LEMMA PurgeKeeps ==
  ASSUME FlowInv, PurgeOldEvents
  PROVE  FlowInv' /\ \A e \in Events : rows'[e] = rows[e] \/ rows'[e] = NoRow
<1>1. /\ rows' = [e \in Events |-> IF rows[e] # NoRow /\ Old(rows[e]) THEN NoRow ELSE rows[e]]
      /\ UNCHANGED <<version, born, last, log, queue, pending, at, watcher, now, here, batcher, buf>>
  BY DEF PurgeOldEvents, apiVars, watchVars, batchVars
<1>2. FlowTypes BY DEF FlowInv
<1>3. /\ rows' \in [Events -> Item \cup {NoRow}]
      /\ \A e \in Events : rows'[e] = rows[e] \/ rows'[e] = NoRow
  BY <1>1, <1>2 DEF FlowTypes
<1>4. FlowTypes' BY <1>1, <1>2, <1>3 DEF FlowTypes
<1>5. \A e \in Events : \A v : InTable(rows, e, v) => InTable(rows', e, v) BY <1>3 DEF InTable
<1>6. buf \in Seq(Item) /\ Ordered(buf) BY <1>2 DEF FlowInv, InFlow, FlowTypes
<1>7. \A k \in 1..Len(buf) : InTable(rows', buf[k].uid, buf[k].version)
  BY <1>2, <1>5, VersionsAreNumbers, ARow DEF FlowInv, InFlow
<1>8. InFlow(watcher, at, pending, queue, buf, rows', version, log)
  BY <1>5, <1>6, <1>7, TableKeeps
<1> QED BY <1>1, <1>3, <1>4, <1>8 DEF FlowInv

LEMMA RestartKeeps == ASSUME FlowInv, Restart PROVE FlowInv'
<1>1. /\ watcher' = "list" /\ pending' = {} /\ at' = 0 /\ queue' = <<>> /\ batcher' = "take"
      /\ buf' = <<>> /\ UNCHANGED <<now, version, born, last, log, here, rows>>
  BY DEF Restart, apiVars
<1>2. FlowTypes BY DEF FlowInv
<1>3. FlowTypes' BY <1>1, <1>2 DEF FlowTypes
<1>4. /\ \A e, v : AtMost(<<>>, e, v) /\ InPending({}, e, v)
      /\ Ordered(<<>>) /\ \A k \in 1..Len(<<>>) : FALSE
  BY DEF AtMost, InPending, Ordered
<1>5. InFlow("list", 0, {}, <<>>, <<>>, rows, version, log)
  BY <1>4 DEF FlowInv, InFlow, Ahead
<1> QED BY <1>1, <1>3, <1>5 DEF FlowInv

\* The steps that move nothing.
LEMMA StillKeeps ==
  ASSUME FlowInv,
         \/ Tick \/ \E e \in Events : Expires(e)
         \/ Watch \/ WatchCloses \/ Retry \/ FlushTick
  PROVE  FlowInv' /\ rows' = rows
<1>1. FlowTypes BY DEF FlowInv
<1>2. CASE Tick BY <1>1, <1>2, Frame DEF Tick, apiVars, watchVars, batchVars, FlowTypes
<1>3. ASSUME NEW e \in Events, Expires(e) PROVE FlowInv' /\ rows' = rows
  BY <1>1, <1>3, Frame DEF Expires, watchVars, batchVars, FlowTypes
<1>4. CASE Watch BY <1>1, <1>4, Frame DEF Watch, apiVars, batchVars, FlowTypes
<1>5. CASE WatchCloses BY <1>1, <1>5, Frame DEF WatchCloses, apiVars, batchVars, FlowTypes
<1>6. CASE Retry BY <1>1, <1>6, Frame DEF Retry, apiVars, batchVars, FlowTypes
<1>7. CASE FlushTick BY <1>1, <1>7, Frame DEF FlushTick, apiVars, watchVars, FlowTypes
<1> QED BY <1>2, <1>3, <1>4, <1>5, <1>6, <1>7

\* No row is replaced by an older one.
Forward ==
  \A e \in Events :
    rows[e] # NoRow /\ rows'[e] # NoRow => rows'[e].version >= rows[e].version

LEMMA FlowStep == ASSUME FlowInv, [Next]_vars PROVE FlowInv' /\ Forward
<1>0. FlowTypes BY DEF FlowInv
<1>1. ASSUME rows' = rows PROVE Forward
  BY <1>0, <1>1, VersionsAreNumbers, ARow DEF Forward
<1>2. CASE UNCHANGED vars
  <2>1. FlowInv'
    BY <1>0, <1>2, Frame DEF vars, apiVars, watchVars, batchVars, FlowTypes
  <2> QED BY <1>1, <1>2, <2>1 DEF vars
<1>3. ASSUME NEW e \in Events, Occurs(e) PROVE FlowInv' /\ Forward
  BY <1>1, <1>3, OccursKeeps DEF Occurs
<1>4. CASE ListEvents BY <1>1, <1>4, ListKeeps DEF ListEvents
<1>5. CASE SendListed BY <1>1, <1>5, SendListedKeeps DEF SendListed
<1>6. CASE SendWatched BY <1>1, <1>6, SendWatchedKeeps DEF SendWatched
<1>7. CASE Take BY <1>1, <1>7, TakeKeeps DEF Take
<1>8. CASE UpsertEvent
  <2>1. ASSUME NEW e \in Events, rows[e] # NoRow, rows'[e] # NoRow
        PROVE  rows'[e].version >= rows[e].version
    <3>1. /\ rows[e].version \in Nat /\ rows'[e].version \in Nat
      <4>1. FlowTypes' BY <1>8, UpsertKeeps DEF FlowInv
      <4>2. rows[e] \in Item /\ rows'[e] \in Item BY <1>0, <4>1, <2>1 DEF FlowTypes
      <4> QED BY <4>2, ARow
    <3> QED BY <1>8, <2>1, <3>1, UpsertKeeps DEF InTable
  <2> QED BY <1>8, <2>1, UpsertKeeps DEF Forward
<1>9. CASE PurgeOldEvents
  <2>1. \A e \in Events : rows[e] # NoRow => rows[e].version \in Nat
    BY <1>0, VersionsAreNumbers, ARow
  <2> QED BY <1>9, <2>1, PurgeKeeps DEF Forward
<1>10. CASE Restart BY <1>1, <1>10, RestartKeeps DEF Restart
<1>11. CASE Tick \/ (\E e \in Events : Expires(e)) \/ Watch \/ WatchCloses \/ Retry \/ FlushTick
  BY <1>1, <1>11, StillKeeps
<1> QED BY <1>2, <1>3, <1>4, <1>5, <1>6, <1>7, <1>8, <1>9, <1>10, <1>11 DEF Next, Watcher, Batcher

\* What is on its way for an event - listed, in the channel, in the buffer -
\* is never newer than what is behind it.
THEOREM FlowInvariance == Spec => []FlowInv
<1>1. FlowInv /\ [Next]_vars => FlowInv' BY FlowStep
<1> QED BY FlowInit, <1>1, PTL DEF Spec

\* A row is never overwritten by an older occurrence of its event: not from
\* the list of a watch that broke, not from a buffer, not after a restart.
THEOREM NoRowFallsBack == Spec => RowsNeverFallBack
<1>1. FlowInv /\ [Next]_vars => [Forward]_vars BY FlowStep
<1>2. Spec => [][Forward]_vars BY <1>1, FlowInvariance, PTL DEF Spec
<1> QED BY <1>2 DEF RowsNeverFallBack, Forward

(***************************************************************************)
(* Types and sizes.                                                        *)
(***************************************************************************)

\* What TypeOK says beyond FlowTypes.  A version is bounded by the length of
\* the log; a batcher that takes has room for one more.
SizesOK ==
  /\ now \in 0..MaxNow
  /\ \A e \in Events : version[e] <= Len(log)
  /\ Len(log) <= MaxChanges
  /\ \A k \in 1..Len(log) : log[k].version \in 1..MaxChanges
  /\ watcher \in {"list", "send", "watch", "pause"} /\ batcher \in {"take", "flush"}
  /\ Len(queue) <= Capacity /\ Len(buf) <= BatchSize
  /\ batcher = "take" => Len(buf) < BatchSize
  /\ \A e \in Events : rows[e] # NoRow => rows[e].uid = e
  /\ crashes \in 0..MaxCrashes /\ faults \in 0..MaxFaults

LEMMA FaultCounted ==
  ASSUME faults \in 0..MaxFaults, Fault \/ NoFault PROVE faults' \in 0..MaxFaults
BY CollectorBoundAssumption DEF Fault, NoFault

LEMMA SizesInit == Init => SizesOK
BY CollectorBoundAssumption, QueueAssumption DEF Init, SizesOK

LEMMA SizesStep == ASSUME FlowTypes, SizesOK, [Next]_vars PROVE SizesOK'
<1>0. /\ MaxNow \in Nat /\ MaxChanges \in Nat /\ MaxCrashes \in Nat
      /\ Capacity \in Nat \ {0} /\ BatchSize \in Nat \ {0}
  BY CollectorBoundAssumption, QueueAssumption
<1>1. CASE Tick BY <1>0, <1>1 DEF Tick, apiVars, watchVars, batchVars, SizesOK
<1>2. ASSUME NEW e \in Events, Occurs(e) PROVE SizesOK'
  <2>1. /\ Len(log) < MaxChanges /\ Len(log) \in Nat /\ Len(log') = Len(log) + 1
        /\ \A k \in 1..Len(log) : log'[k] = log[k]
        /\ log'[Len(log) + 1].version = version[e] + 1
        /\ version \in [Events -> Nat] /\ version' = [version EXCEPT ![e] = @ + 1]
        /\ UNCHANGED <<now, watcher, queue, batcher, buf, rows, crashes, faults>>
    BY <1>2 DEF Occurs, FlowTypes, watchVars, batchVars
  <2>2. version[e] \in Nat /\ version[e] <= Len(log) BY <2>1 DEF SizesOK
  <2>3. \A f \in Events : version'[f] <= Len(log')
    <3> TAKE f \in Events
    <3>1. version[f] \in Nat /\ version[f] <= Len(log) BY <2>1 DEF SizesOK
    <3>2. version'[f] <= version[f] + 1 BY <2>1, <3>1
    <3> QED BY <2>1, <3>1, <3>2
  <2>4. \A k \in 1..Len(log') : log'[k].version \in 1..MaxChanges
    <3> TAKE k \in 1..Len(log')
    <3>1. CASE k = Len(log) + 1 BY <1>0, <2>1, <2>2, <3>1
    <3>2. CASE k # Len(log) + 1
      <4>1. k \in 1..Len(log) BY <2>1, <3>2
      <4> QED BY <2>1, <4>1 DEF SizesOK
    <3> QED BY <3>1, <3>2
  <2> QED BY <1>0, <2>1, <2>3, <2>4 DEF SizesOK
<1>3. CASE (\E e \in Events : Expires(e)) \/ WatchCloses \/ Retry \/ FlushTick
  BY <1>3 DEF Expires, WatchCloses, Retry, FlushTick, apiVars, watchVars, batchVars, SizesOK
<1>4. CASE ListEvents \/ Watch
  <2>1. faults' \in 0..MaxFaults BY <1>4, FaultCounted DEF ListEvents, Watch, SizesOK
  <2> QED BY <1>4, <2>1 DEF ListEvents, Watch, apiVars, batchVars, SizesOK
<1>5. CASE SendListed \/ SendWatched
  <2>1. /\ Len(queue) < Capacity /\ Len(queue) \in Nat /\ \E i : queue' = Append(queue, i)
        /\ watcher \in {"send", "watch"} /\ watcher' = watcher
        /\ UNCHANGED <<now, version, log, batcher, buf, rows, crashes, faults>>
    BY <1>5 DEF SendListed, SendWatched, apiVars, batchVars, FlowTypes
  <2>2. Len(queue') = Len(queue) + 1 BY <2>1 DEF FlowTypes
  <2> QED BY <1>0, <2>1, <2>2 DEF SizesOK
<1>6. CASE Take
  <2>1. /\ batcher = "take" /\ queue \in Seq(Item) /\ queue # <<>> /\ buf \in Seq(Item)
        /\ buf' = Append(buf, Head(queue)) /\ queue' = Tail(queue)
        /\ batcher' = (IF Len(buf') >= BatchSize THEN "flush" ELSE "take")
        /\ UNCHANGED <<now, version, log, watcher, rows, crashes, faults>>
    BY <1>6 DEF Take, apiVars, watchVars, FlowTypes
  <2>2. Len(buf') = Len(buf) + 1 /\ Len(buf) \in Nat BY <2>1
  <2>3. Len(queue') = Len(queue) - 1 /\ Len(queue) \in Nat BY <2>1
  <2> QED BY <1>0, <2>1, <2>2, <2>3 DEF SizesOK
<1>7. CASE UpsertEvent
  <2>1. faults' \in 0..MaxFaults BY <1>7, FaultCounted DEF UpsertEvent, SizesOK
  <2>2. /\ batcher = "flush" /\ buf \in Seq(Item) /\ buf # <<>> /\ buf' = Tail(buf)
        /\ batcher' = (IF buf' = <<>> THEN "take" ELSE "flush")
        /\ UNCHANGED <<now, version, log, watcher, queue, crashes>>
    BY <1>7 DEF UpsertEvent, apiVars, watchVars, FlowTypes
  <2>3. Len(buf') = Len(buf) - 1 /\ Len(buf) \in Nat BY <2>2
  <2>5. buf' = <<>> => Len(buf') = 0 OBVIOUS
  <2>4. \A e \in Events : rows'[e] # NoRow => rows'[e].uid = e
    <3> TAKE e \in Events
    <3>1. rows[e] # NoRow => rows[e].uid = e BY DEF SizesOK
    <3>2. rows \in [Events -> Item \cup {NoRow}] /\ Head(buf) \in Item
      BY <2>2 DEF FlowTypes
    <3>3. Upserted(rows[Head(buf).uid], Head(buf)).uid = Head(buf).uid
      BY <3>2 DEF Upserted, Item
    <3>4. \/ rows' = rows
          \/ rows' = [rows EXCEPT ![Head(buf).uid] = Upserted(@, Head(buf))]
      BY <1>7 DEF UpsertEvent
    <3> QED BY <3>1, <3>2, <3>3, <3>4
  <2> QED BY <1>0, <2>1, <2>2, <2>3, <2>4, <2>5 DEF SizesOK
<1>8. CASE PurgeOldEvents
  BY <1>8 DEF PurgeOldEvents, apiVars, watchVars, batchVars, SizesOK
<1>9. CASE Restart
  <2>1. Len(<<>>) = 0 OBVIOUS
  <2> QED BY <1>0, <1>9, <2>1 DEF Restart, apiVars, SizesOK
<1>10. CASE UNCHANGED vars BY <1>10 DEF vars, apiVars, watchVars, batchVars, SizesOK
<1> QED BY <1>1, <1>2, <1>3, <1>4, <1>5, <1>6, <1>7, <1>8, <1>9, <1>10 DEF Next, Watcher, Batcher

\* Every variable has its type (TypeOK): the channel and the buffer never
\* hold more than they may, and a row is that of its event.
THEOREM CollectorTypeCorrect == Spec => []TypeOK
<1>1. FlowInv /\ SizesOK => TypeOK
  <2> SUFFICES ASSUME FlowTypes, SizesOK PROVE TypeOK BY DEF FlowInv
  <2>1. version \in [Events -> 0..MaxChanges]
    <3>1. \A e \in Events : version[e] \in 0..MaxChanges
      <4> TAKE e \in Events
      <4>1. version[e] \in Nat /\ Len(log) \in Nat /\ version[e] <= Len(log)
        BY DEF FlowTypes, SizesOK
      <4> QED BY <4>1, CollectorBoundAssumption DEF SizesOK
    <3> QED BY <3>1 DEF FlowTypes
  <2>2. \A k \in DOMAIN log : log[k].uid \in Events /\ log[k].version \in 1..MaxChanges
    <3>1. DOMAIN log = 1..Len(log) /\ \A k \in 1..Len(log) : log[k] \in Change BY DEF FlowTypes
    <3>2. \A c \in Change : c.uid \in Events BY DEF Change
    <3> QED BY <3>1, <3>2 DEF SizesOK
  <2>3. \A e \in Events : rows[e] = NoRow \/ (rows[e] \in Item /\ rows[e].uid = e)
    BY DEF FlowTypes, SizesOK
  <2> QED BY <2>1, <2>2, <2>3 DEF FlowTypes, SizesOK, TypeOK
<1>2. FlowInv /\ SizesOK /\ [Next]_vars => SizesOK' BY SizesStep DEF FlowInv
<1> QED BY <1>1, <1>2, SizesInit, FlowInvariance, PTL DEF Spec
(***************************************************************************)
(* Listings.                                                               *)
(***************************************************************************)

StrictOrder(K, order) ==
  /\ \A i \in K : <<i, i>> \notin order
  /\ \A i, j \in K : i # j => <<i, j>> \in order \/ <<j, i>> \in order
  /\ \A i, j, k \in K : <<i, j>> \in order /\ <<j, k>> \in order => <<i, k>> \in order

\* A strict total order puts every element of a finite set at a place of its
\* own, and so into a sequence.
LEMMA Ordering ==
  ASSUME NEW K, IsFiniteSet(K), NEW order, StrictOrder(K, order)
  PROVE  /\ Cardinality(K) \in Nat
         /\ InOrder(K, order) \in [1..Cardinality(K) -> K]
         /\ \A i \in K : \E n \in 1..Cardinality(K) : InOrder(K, order)[n] = i
         /\ \A m, n \in 1..Cardinality(K) :
              m < n => <<InOrder(K, order)[m], InOrder(K, order)[n]>> \in order
         /\ \A n \in 1..Cardinality(K) : Place(K, order, InOrder(K, order)[n]) = n
         /\ \A i, j \in K : Place(K, order, i) = Place(K, order, j) => i = j
<1> DEFINE Upto(i) == {j \in K : j = i \/ <<j, i>> \in order}
           N == Cardinality(K)
           place == [i \in K |-> Cardinality(Upto(i))]
           p == InOrder(K, order)
<1>1. N \in Nat /\ IsFiniteSet(1..N) /\ Cardinality(1..N) = N
  BY FS_CardinalityType, FS_Interval
<1>2. ASSUME NEW i \in K PROVE IsFiniteSet(Upto(i)) /\ place[i] \in 1..N
  <2>1. Upto(i) \in SUBSET K /\ i \in Upto(i) OBVIOUS
  <2> HIDE DEF Upto
  <2>2. IsFiniteSet(Upto(i)) /\ Cardinality(Upto(i)) <= N BY <2>1, FS_Subset
  <2>3. Cardinality(Upto(i)) \in Nat /\ Cardinality(Upto(i)) # 0
    BY <2>1, <2>2, FS_CardinalityType, FS_EmptySet
  <2> QED BY <1>1, <2>2, <2>3
<1>3. ASSUME NEW i \in K, NEW j \in K, <<i, j>> \in order PROVE place[i] < place[j]
  <2>1. Upto(i) \in SUBSET Upto(j) BY <1>3 DEF StrictOrder
  <2>2. j \in Upto(j) /\ j \notin Upto(i) BY <1>3 DEF StrictOrder
  <2>3. IsFiniteSet(Upto(j)) /\ IsFiniteSet(Upto(i)) BY <1>2
  <2> HIDE DEF Upto
  <2>4. Cardinality(Upto(i)) <= Cardinality(Upto(j)) /\ Cardinality(Upto(i)) # Cardinality(Upto(j))
    BY <2>1, <2>2, <2>3, FS_Subset
  <2> QED BY <2>3, <2>4, FS_CardinalityType
<1>4. place \in Injection(K, 1..N)
  <2>1. place \in [K -> 1..N] BY <1>2
  <2> HIDE DEF place
  <2>2. ASSUME NEW i \in K, NEW j \in K, place[i] = place[j] PROVE i = j
    <3>1. \A k \in 1..N : k \in Nat BY <1>1
    <3>2. place[i] \in Nat BY <2>1, <3>1
    <3>3. ~(place[i] < place[i]) BY <3>2
    <3>4. i # j => <<i, j>> \in order \/ <<j, i>> \in order BY DEF StrictOrder
    <3> QED BY <1>3, <2>2, <3>3, <3>4
  <2> QED BY <2>1, <2>2 DEF Injection, IsInjective
<1> HIDE DEF place
<1>5. place \in Surjection(K, 1..N) BY <1>1, <1>4, FS_Injection
<1>6. ASSUME NEW n \in 1..N PROVE p[n] \in K /\ place[p[n]] = n
  <2>1. \E i \in K : place[i] = n BY <1>5 DEF Surjection
  <2>2. p[n] = CHOOSE i \in K : Cardinality(Upto(i)) = n BY DEF InOrder, Place
  <2>3. \A i \in K : place[i] = Cardinality(Upto(i)) BY DEF place
  <2> HIDE DEF Upto, p
  <2>4. \E i \in K : Cardinality(Upto(i)) = n BY <2>1, <2>3
  <2>5. p[n] \in K /\ Cardinality(Upto(p[n])) = n BY <2>2, <2>4
  <2> QED BY <2>3, <2>5
<1>7. p \in [1..N -> K]
  <2>1. p = [n \in 1..N |-> p[n]] BY DEF InOrder
  <2> HIDE DEF p
  <2> QED BY <1>6, <2>1
<1> HIDE DEF p, N, Upto
<1>8. \A i \in K : \E n \in 1..N : p[n] = i
  <2> TAKE i \in K
  <2>1. place[i] \in 1..N BY <1>2
  <2>2. p[place[i]] \in K /\ place[p[place[i]]] = place[i] BY <1>6, <2>1
  <2>3. p[place[i]] = i BY <1>4, <2>2 DEF Injection, IsInjective
  <2> QED BY <2>1, <2>3
<1>9. ASSUME NEW m \in 1..N, NEW n \in 1..N, m < n PROVE <<p[m], p[n]>> \in order
  <2>1. p[m] \in K /\ p[n] \in K /\ place[p[m]] = m /\ place[p[n]] = n BY <1>6
  <2>2. m \in Nat /\ n \in Nat BY <1>1
  <2>3. p[m] # p[n] BY <1>9, <2>1, <2>2
  <2>4. <<p[n], p[m]>> \notin order
    <3> SUFFICES ASSUME <<p[n], p[m]>> \in order PROVE FALSE OBVIOUS
    <3>1. place[p[n]] < place[p[m]] BY <1>3, <2>1
    <3> QED BY <1>9, <2>1, <2>2, <3>1
  <2> QED BY <2>1, <2>3, <2>4 DEF StrictOrder
<1>10. \A i \in K : Place(K, order, i) = place[i] BY DEF Place, place, Upto
<1>11. \A n \in 1..N : Place(K, order, p[n]) = n BY <1>6, <1>10
<1>12. \A i, j \in K : Place(K, order, i) = Place(K, order, j) => i = j
  BY <1>4, <1>10 DEF Injection, IsInjective
<1> QED BY <1>1, <1>7, <1>8, <1>9, <1>11, <1>12 DEF p, N

\* What SortedRows needs of a table and the column it is sorted by.
Sortable(T, col) == Numbered(T) /\ \A r \in T : r[col] \in Int

\* Sorted rows are the rows, each at one place, in the order asked for.
LEMMA SortedRows ==
  ASSUME NEW T, NEW col, Sortable(T, col), NEW desc \in BOOLEAN
  PROVE  /\ Cardinality(T) \in Nat /\ Sorted(T, col, desc) \in Seq(T)
         /\ Len(Sorted(T, col, desc)) = Cardinality(T)
         /\ \A r \in T : \E i \in 1..Cardinality(T) : Sorted(T, col, desc)[i] = r
         /\ \A i, j \in 1..Cardinality(T) : i < j =>
              Before(Sorted(T, col, desc)[i], Sorted(T, col, desc)[j], col, desc)
<1> DEFINE order == Ranking(T, col, desc)
<1>1. \A i, j \in T : <<i, j>> \in order <=> Before(i, j, col, desc) BY DEF Ranking
<1>2. /\ IsFiniteSet(T)
      /\ \A r \in T : Tie[r.uid] \in Int
      /\ \A r, s \in T : Tie[r.uid] = Tie[s.uid] => r = s
      /\ \A r \in T : r[col] \in Int
  BY DEF Sortable, Numbered
<1> HIDE DEF order
<1>3. \A i \in T : ~Before(i, i, col, desc) BY <1>2 DEF Before
<1>4. \A i, j \in T : i # j => Before(i, j, col, desc) \/ Before(j, i, col, desc)
  BY <1>2 DEF Before
<1>5. \A i, j, k \in T :
        Before(i, j, col, desc) /\ Before(j, k, col, desc) => Before(i, k, col, desc)
  BY <1>2 DEF Before
<1>6. StrictOrder(T, order) BY <1>1, <1>3, <1>4, <1>5 DEF StrictOrder
<1>7. Sorted(T, col, desc) = InOrder(T, order) BY DEF Sorted, order
<1>8. /\ Cardinality(T) \in Nat /\ InOrder(T, order) \in [1..Cardinality(T) -> T]
      /\ \A i \in T : \E n \in 1..Cardinality(T) : InOrder(T, order)[n] = i
      /\ \A m, n \in 1..Cardinality(T) :
           m < n => <<InOrder(T, order)[m], InOrder(T, order)[n]>> \in order
  BY <1>2, <1>6, Ordering
<1> DEFINE all == InOrder(T, order)
<1> HIDE DEF all
<1>9. all \in Seq(T) /\ Len(all) = Cardinality(T) BY <1>8 DEF all
<1>10. \A i, j \in 1..Cardinality(T) : i < j => Before(all[i], all[j], col, desc)
  BY <1>1, <1>8 DEF all
<1> QED BY <1>7, <1>8, <1>9, <1>10 DEF all

Sliced(T, all, offset, limit) ==
  /\ Slice(all, offset, limit) \in Seq(T)
  /\ DOMAIN Slice(all, offset, limit) = {k \in 1..limit : offset + k <= Len(all)}
  /\ \A k \in DOMAIN Slice(all, offset, limit) :
       Slice(all, offset, limit)[k] = all[offset + k]

LEMMA SliceOf ==
  ASSUME NEW T, NEW all \in Seq(T), NEW offset \in Nat, NEW limit \in Nat
  PROVE  Sliced(T, all, offset, limit)
<1> DEFINE end == Least(offset + limit, Len(all))
<1>1. end \in Nat /\ end <= Len(all) /\ Len(all) \in Nat BY DEF Least
<1>2. Slice(all, offset, limit) = SubSeq(all, offset + 1, end) BY DEF Slice
<1>3. SubSeq(all, offset + 1, end) =
        [k \in 1..(IF offset + 1 <= end THEN end - offset ELSE 0) |-> all[offset + k]]
  BY <1>1
<1>4. 1..(IF offset + 1 <= end THEN end - offset ELSE 0)
        = {k \in 1..limit : offset + k <= Len(all)}
  BY <1>1 DEF Least
<1>5. \A k \in {j \in 1..limit : offset + j <= Len(all)} : all[offset + k] \in T
  BY <1>1
<1> DEFINE D == {k \in 1..limit : offset + k <= Len(all)}
           s == Slice(all, offset, limit)
<1>6. s = [k \in D |-> all[offset + k]] BY ONLY <1>2, <1>3, <1>4
<1>7. s \in Seq(T)
  <2> DEFINE m == IF offset + 1 <= end THEN end - offset ELSE 0
  <2>1. m \in Nat BY <1>1
  <2>2. D = 1..m BY <1>4
  <2>3. \A k \in D : all[offset + k] \in T BY <1>5
  <2> HIDE DEF D, m, s
  <2> QED BY ONLY <1>6, <2>1, <2>2, <2>3
<1>8. DOMAIN s = D /\ \A k \in D : s[k] = all[offset + k]
  <2> HIDE DEF D, s
  <2> QED BY ONLY <1>6
<1> QED BY ONLY <1>7, <1>8 DEF Sliced

\* Pages of one size neither overlap nor leave a gap.
LEMMA PagesTile ==
  ASSUME NEW size \in Nat \ {0}, NEW n \in Nat
  PROVE  /\ \A p \in Nat \ {0} : (p - 1) * size \in Nat
         /\ \A p, q \in Nat \ {0} : p < q => (p - 1) * size + size <= (q - 1) * size
         /\ \A i \in 1..(n * size) :
              \E p \in 1..n : \E k \in 1..size : i = (p - 1) * size + k
<1>1. \A p \in Nat \ {0} : (p - 1) * size \in Nat
  <2> TAKE p \in Nat \ {0}
  <2>1. p - 1 \in Nat OBVIOUS
  <2> QED BY <2>1
<1>2. \A p, q \in Nat \ {0} : p < q => (p - 1) * size + size <= (q - 1) * size
  <2> SUFFICES ASSUME NEW p \in Nat \ {0}, NEW q \in Nat \ {0}, p < q
               PROVE  (p - 1) * size + size <= (q - 1) * size
    OBVIOUS
  <2>1. PICK d \in Nat : q - 1 = p + d
    <3>1. q - 1 - p \in Nat OBVIOUS
    <3> QED BY <3>1
  <2>2. (q - 1) * size = (p - 1) * size + size + d * size BY <2>1
  <2>3. d * size \in Nat OBVIOUS
  <2> QED BY <1>1, <2>2, <2>3
<1>3. ASSUME NEW i \in 1..(n * size)
      PROVE  \E p \in 1..n : \E k \in 1..size : i = (p - 1) * size + k
  <2> DEFINE d == (i - 1) \div size
             m == (i - 1) % size
  <2>1. n * size \in Nat /\ i - 1 \in Nat OBVIOUS
  <2>2. d \in Nat /\ m \in 0..(size - 1) /\ i - 1 = d * size + m BY <2>1
  <2> HIDE DEF d, m
  <2>3. d < n
    <3> SUFFICES ASSUME n <= d PROVE FALSE BY <2>2
    <3>1. PICK e \in Nat : d = n + e
      <4>1. d - n \in Nat BY <2>2
      <4> QED BY <2>2, <4>1
    <3>2. d * size = n * size + e * size BY <3>1
    <3>3. e * size \in Nat OBVIOUS
    <3> QED BY <2>1, <2>2, <3>2, <3>3
  <2>4. d + 1 \in 1..n /\ m + 1 \in 1..size /\ i = ((d + 1) - 1) * size + (m + 1)
    BY <2>2, <2>3
  <2> QED BY <2>4
<1> QED BY <1>1, <1>2, <1>3

\* The answers are slices one after the other, of rows that fit in them.
InSlices(answers, T, col, desc, size, n) ==
  /\ size \in Nat \ {0} /\ n \in Nat /\ Cardinality(T) <= n * size
  /\ DOMAIN answers = 1..n
  /\ \A p \in 1..n :
       /\ DOMAIN answers[p] = DOMAIN Slice(Sorted(T, col, desc), (p - 1) * size, size)
       /\ \A k \in DOMAIN answers[p] :
            answers[p][k].uid = Slice(Sorted(T, col, desc), (p - 1) * size, size)[k].uid

\* Answers that are, by their uids, slices of one size, one after the other.
LEMMA SlicesCover ==
  ASSUME NEW T, NEW col, Sortable(T, col), NEW desc \in BOOLEAN, NEW size, NEW n, NEW answers,
         InSlices(answers, T, col, desc, size, n)
  PROVE  Covers(answers, T, col, desc)
<1> USE DEF InSlices
<1> DEFINE all == Sorted(T, col, desc)
           N == Cardinality(T)
<1>1. /\ N \in Nat /\ all \in Seq(T) /\ Len(all) = N
      /\ \A r \in T : \E i \in 1..N : all[i] = r
      /\ \A i, j \in 1..N : i < j => Before(all[i], all[j], col, desc)
  BY SortedRows
<1> HIDE DEF all, N
<1>2. /\ \A p \in 1..n : (p - 1) * size \in Nat
      /\ \A p, q \in 1..n : p < q => (p - 1) * size + size <= (q - 1) * size
      /\ \A i \in 1..(n * size) :
           \E p \in 1..n : \E k \in 1..size : i = (p - 1) * size + k
  <2>1. /\ \A p \in Nat \ {0} : (p - 1) * size \in Nat
        /\ \A p, q \in Nat \ {0} : p < q => (p - 1) * size + size <= (q - 1) * size
        /\ \A i \in 1..(n * size) :
             \E p \in 1..n : \E k \in 1..size : i = (p - 1) * size + k
    BY PagesTile
  <2>2. \A p \in 1..n : p \in Nat \ {0} OBVIOUS
  <2> QED BY <2>1, <2>2
<1>3. ASSUME NEW p \in 1..n
      PROVE  /\ DOMAIN answers[p] = {k \in 1..size : (p - 1) * size + k <= N}
             /\ \A k \in DOMAIN answers[p] :
                  /\ (p - 1) * size + k \in 1..N
                  /\ answers[p][k].uid = all[(p - 1) * size + k].uid
  <2> DEFINE o == (p - 1) * size
  <2>0. size \in Nat /\ o \in Nat BY <1>2
  <2>1. /\ DOMAIN answers[p] = DOMAIN Slice(all, o, size)
        /\ \A k \in DOMAIN answers[p] : answers[p][k].uid = Slice(all, o, size)[k].uid
    BY DEF all
  <2> HIDE DEF o
  <2>2. /\ DOMAIN Slice(all, o, size) = {k \in 1..size : o + k <= N}
        /\ \A k \in DOMAIN Slice(all, o, size) : Slice(all, o, size)[k] = all[o + k]
    <3>1. all \in Seq(T) /\ o \in Nat /\ size \in Nat BY <1>1, <2>0
    <3>2. Sliced(T, all, o, size) BY <3>1, SliceOf
    <3> QED BY <1>1, <3>2 DEF Sliced
  <2>3. \A k \in DOMAIN answers[p] : o + k \in 1..N
    BY <1>1, <2>0, <2>1, <2>2
  <2>4. /\ DOMAIN answers[p] = {k \in 1..size : o + k <= N}
        /\ \A k \in DOMAIN answers[p] : o + k \in 1..N /\ answers[p][k].uid = all[o + k].uid
    BY <2>1, <2>2, <2>3
  <2> QED BY <2>4 DEF o
<1>4. \A r, s \in T : r.uid = s.uid => r = s BY DEF Sortable, Numbered
<1>5. \A p \in DOMAIN answers : \A k \in DOMAIN answers[p] :
        \E r \in T : answers[p][k].uid = r.uid
  <2> TAKE p \in DOMAIN answers
  <2> TAKE k \in DOMAIN answers[p]
  <2> DEFINE i == (p - 1) * size + k
  <2>1. i \in 1..N /\ answers[p][k].uid = all[i].uid BY <1>3
  <2> HIDE DEF i
  <2>2. all[i] \in T BY ONLY <1>1, <2>1
  <2> QED BY ONLY <2>1, <2>2
<1>6. \A r \in T :
        \E p \in DOMAIN answers : \E k \in DOMAIN answers[p] : answers[p][k].uid = r.uid
  <2> TAKE r \in T
  <2>1. PICK i \in 1..N : all[i] = r BY <1>1
  <2>2. i \in 1..(n * size)
    <3>1. n * size \in Nat OBVIOUS
    <3> QED BY <1>1, <3>1 DEF N
  <2>3. PICK p \in 1..n, k \in 1..size : i = (p - 1) * size + k BY <1>2, <2>2
  <2>4. (p - 1) * size + k <= N BY <1>1, <2>3
  <2>5. k \in DOMAIN answers[p] BY <1>3, <2>4
  <2>6. answers[p][k].uid = all[(p - 1) * size + k].uid BY <1>3, <2>5
  <2>7. answers[p][k].uid = r.uid BY ONLY <2>1, <2>3, <2>6
  <2>8. p \in DOMAIN answers OBVIOUS
  <2> QED BY ONLY <2>5, <2>7, <2>8
<1>7. ASSUME NEW p \in 1..n, NEW q \in 1..n, NEW k \in DOMAIN answers[p], NEW l \in DOMAIN answers[q],
             p < q \/ (p = q /\ k < l), NEW r \in T, NEW s \in T,
             answers[p][k].uid = r.uid, answers[q][l].uid = s.uid
      PROVE  r # s /\ IF desc THEN r[col] >= s[col] ELSE r[col] <= s[col]
  <2> DEFINE i == (p - 1) * size + k
             j == (q - 1) * size + l
  <2>1. i \in 1..N /\ j \in 1..N /\ answers[p][k].uid = all[i].uid /\ answers[q][l].uid = all[j].uid
    BY <1>3
  <2>2. all[i] \in T /\ all[j] \in T
    <3> HIDE DEF i, j
    <3> QED BY ONLY <1>1, <2>1
  <2>3. r = all[i] /\ s = all[j]
    <3> HIDE DEF i, j
    <3> QED BY ONLY <1>4, <1>7, <2>1, <2>2, r \in T, s \in T
  <2>4. i < j
    <3> DEFINE a == (p - 1) * size
               b == (q - 1) * size
    <3>1. k \in 1..size /\ l \in 1..size BY <1>3
    <3>2. a \in Nat /\ b \in Nat /\ i = a + k /\ j = b + l BY <1>2
    <3>3. CASE p < q
      <4>1. a + size <= b BY <1>2, <3>3
      <4> HIDE DEF a, b, i, j
      <4> QED BY <3>1, <3>2, <4>1
    <3>4. CASE p = q /\ k < l
      <4>1. a = b BY <3>4
      <4> HIDE DEF a, b, i, j
      <4> QED BY <3>1, <3>2, <3>4, <4>1
    <3> QED BY <1>7, <3>3, <3>4
  <2> HIDE DEF i, j
  <2>5. Before(r, s, col, desc) BY <1>1, <2>1, <2>3, <2>4
  <2>6. r[col] \in Int /\ s[col] \in Int /\ Tie[r.uid] \in Int /\ Tie[s.uid] \in Int
    BY DEF Sortable, Numbered
  <2> QED BY <2>5, <2>6 DEF Before
<1>8. \A p, q \in DOMAIN answers :
        \A k \in DOMAIN answers[p], l \in DOMAIN answers[q] : (p < q \/ (p = q /\ k < l)) =>
          \A r, s \in T : answers[p][k].uid = r.uid /\ answers[q][l].uid = s.uid =>
            r # s /\ IF desc THEN r[col] >= s[col] ELSE r[col] <= s[col]
  <2> TAKE p, q \in DOMAIN answers
  <2> TAKE k \in DOMAIN answers[p], l \in DOMAIN answers[q]
  <2> HAVE p < q \/ (p = q /\ k < l)
  <2> TAKE r, s \in T
  <2> HAVE answers[p][k].uid = r.uid /\ answers[q][l].uid = s.uid
  <2>1. p \in 1..n /\ q \in 1..n OBVIOUS
  <2>2. p < q \/ (p = q /\ k < l) OBVIOUS
  <2> QED BY ONLY <1>7, <2>1, <2>2, k \in DOMAIN answers[p], l \in DOMAIN answers[q],
                  r \in T, s \in T, answers[p][k].uid = r.uid, answers[q][l].uid = s.uid
<1> QED BY <1>5, <1>6, <1>8 DEF Covers

\* The answers are those to page 1, 2, ..., n of a size.
InPages(answers, T, col, desc, size, n) ==
  /\ size \in Nat \ {0} /\ n \in Nat /\ Cardinality(T) <= n
  /\ DOMAIN answers = 1..n
  /\ \A p \in 1..n :
       LET items == PageOf(T, col, desc, p, size).items
       IN DOMAIN answers[p] = DOMAIN items
          /\ \A k \in DOMAIN items : answers[p][k].uid = items[k].uid

\* Page after page, whatever page size is asked for.
LEMMA EveryPage ==
  ASSUME NEW T, NEW col, Sortable(T, col), NEW desc \in BOOLEAN, NEW size, NEW n, NEW answers,
         InPages(answers, T, col, desc, size, n)
  PROVE  Covers(answers, T, col, desc)
<1> USE DEF InPages
<1> DEFINE s == Least(Positive(size, 20), 100)
<1>1. s \in Nat \ {0} BY DEF Least, Positive
<1>2. ASSUME NEW p \in 1..n
      PROVE  PageOf(T, col, desc, p, size).items = Slice(Sorted(T, col, desc), (p - 1) * s, s)
  <2>1. Positive(p, 1) = p BY DEF Positive
  <2> QED BY <2>1 DEF PageOf
<1>3. Cardinality(T) <= n * s
  <2>1. Cardinality(T) \in Nat BY SortedRows
  <2> HIDE DEF s
  <2>2. n <= n * s
    <3>1. s - 1 \in Nat BY <1>1
    <3>2. n * (s - 1) \in Nat BY <3>1
    <3>3. n * s = n * (s - 1) + n BY <1>1
    <3> QED BY <3>2, <3>3
  <2>3. n * s \in Nat BY <1>1
  <2> QED BY <2>1, <2>2, <2>3
<1> HIDE DEF s
<1>4. \A p \in 1..n :
        /\ DOMAIN answers[p] = DOMAIN Slice(Sorted(T, col, desc), (p - 1) * s, s)
        /\ \A k \in DOMAIN answers[p] :
             answers[p][k].uid = Slice(Sorted(T, col, desc), (p - 1) * s, s)[k].uid
  BY <1>2
<1>5. InSlices(answers, T, col, desc, s, n) BY <1>1, <1>3, <1>4 DEF InSlices
<1> QED BY <1>5, SlicesCover

LEMMA Subtables ==
  ASSUME NEW T, NEW col, Sortable(T, col), NEW S \in SUBSET T
  PROVE  Sortable(S, col) /\ Cardinality(S) <= Cardinality(T) /\ Cardinality(T) \in Nat
<1>1. IsFiniteSet(T) BY DEF Sortable, Numbered
<1>2. IsFiniteSet(S) /\ Cardinality(S) <= Cardinality(T) /\ Cardinality(T) \in Nat
  BY <1>1, FS_Subset, FS_CardinalityType
<1> QED BY <1>2 DEF Sortable, Numbered

\* The rows of some events can be sorted, and are no more than the events.
LEMMA MatchingRows ==
  ASSUME TypeOK, NEW opts, opts.uids \in SUBSET Events
  PROVE  /\ Sortable(Matching(opts), "last")
         /\ Cardinality(Matching(opts)) <= Cardinality(Events) /\ Cardinality(Events) \in Nat
<1> DEFINE F == {f \in opts.uids :
                   rows[f] # NoRow /\ (opts.since > 0 => rows[f].last + opts.since >= now)}
           M == {rows[e] : e \in F}
<1>1. F \in SUBSET Events OBVIOUS
<1>2. \A e \in F : rows[e] \in Item /\ rows[e].uid = e BY DEF TypeOK
<1>3. Matching(opts) = M BY DEF Matching
<1> HIDE DEF F
<1>4. IsFiniteSet(F) /\ Cardinality(F) <= Cardinality(Events) /\ Cardinality(Events) \in Nat
  BY <1>1, EventsAssumption, FS_Subset, FS_CardinalityType
<1>5. IsFiniteSet(M) /\ Cardinality(M) <= Cardinality(F)
  <2> DEFINE row == [e \in F |-> rows[e]]
  <2>1. row \in Surjection(F, M) BY DEF Surjection
  <2> HIDE DEF row, M
  <2> QED BY <1>4, <2>1, FS_Surjection
<1>6. Cardinality(M) \in Nat /\ Cardinality(F) \in Nat BY <1>4, <1>5, FS_CardinalityType
<1>7. \A r \in M : r.uid \in Events /\ r = rows[r.uid] /\ r["last"] \in Int
  BY <1>1, <1>2 DEF Item
<1>8. Numbered(M) BY <1>5, <1>7, EventsAssumption DEF Numbered
<1> QED BY <1>3, <1>4, <1>5, <1>6, <1>7, <1>8 DEF Sortable

(***************************************************************************)
(* The three listings.                                                     *)
(***************************************************************************)

LEMMA EventPages == ASSUME TypeOK PROVE EventPagesCover
<1> SUFFICES ASSUME NEW uids \in SUBSET Events, NEW since \in {0, 1}, NEW size \in {1, 2, 200}
             PROVE
               LET opts    == [uids |-> uids, since |-> since]
                   Page(p) == handleAPIEvents(opts, p, size, Unset)
                   pages   == [p \in 1..Cardinality(Events) |-> Page(p).items]
               IN /\ Covers(pages, Matching(opts), "last", TRUE)
                  /\ \A p \in DOMAIN pages : Page(p).total = Cardinality(Matching(opts))
                  /\ Cardinality(Events) <= 100 =>
                       Covers(<<handleAPIEvents(opts, Unset, Unset, Unset)>>, Matching(opts), "last", TRUE)
  BY DEF EventPagesCover
<1> DEFINE opts    == [uids |-> uids, since |-> since]
           n       == Cardinality(Events)
           Page(p) == handleAPIEvents(opts, p, size, Unset)
           pages   == [p \in 1..n |-> Page(p).items]
           M       == Matching(opts)
           whole   == <<handleAPIEvents(opts, Unset, Unset, Unset)>>
<1>1. Sortable(M, "last") /\ Cardinality(M) <= n /\ n \in Nat BY MatchingRows
<1>2. ASSUME NEW p \in 1..n PROVE Page(p) = PageOf(M, "last", TRUE, p, size)
  <2>1. p # Unset BY UnsetAssumption
  <2> QED BY <2>1 DEF handleAPIEvents, ListEventsPaginated
<1>3. Covers(pages, M, "last", TRUE)
  <2>1. DOMAIN pages = 1..n /\ \A p \in 1..n : pages[p] = PageOf(M, "last", TRUE, p, size).items
    BY <1>2
  <2>2. size \in Nat \ {0} OBVIOUS
  <2> HIDE DEF pages, M, n
  <2> DEFINE desc == TRUE
  <2>3. InPages(pages, M, "last", desc, size, n) BY <1>1, <2>1, <2>2 DEF InPages
  <2>4. desc \in BOOLEAN OBVIOUS
  <2> HIDE DEF desc
  <2>5. Covers(pages, M, "last", desc) BY <1>1, <2>3, <2>4, EveryPage
  <2> QED BY <2>5 DEF desc
<1>4. \A p \in DOMAIN pages : Page(p).total = Cardinality(M)
  <2> SUFFICES ASSUME NEW p \in 1..n PROVE Page(p).total = Cardinality(M) OBVIOUS
  <2>1. PageOf(M, "last", TRUE, p, size).total = Cardinality(M)
    <3> HIDE DEF M
    <3> QED BY DEF PageOf
  <2> QED BY <1>2, <2>1
<1>5. ASSUME n <= 100 PROVE Covers(whole, M, "last", TRUE)
  <2>1. Unset \notin 1..500 /\ 100 \in 1..500 BY UnsetAssumption
  <2>2. handleAPIEvents(opts, Unset, Unset, Unset) = Slice(Sorted(M, "last", TRUE), 0, 100)
    BY <2>1 DEF handleAPIEvents, ListEventRows
  <2>3. DOMAIN whole = 1..1 /\ whole[1] = Slice(Sorted(M, "last", TRUE), 0, 100) BY <2>2
  <2>4. \A p \in 1..1 : p = 1 /\ (p - 1) * 100 = 0 OBVIOUS
  <2> HIDE DEF whole, M
  <2>5. Cardinality(M) \in Nat BY <1>1, SortedRows
  <2>6. Cardinality(M) <= 1 * 100 BY <1>1, <1>5, <2>5
  <2>7. \A p \in 1..1 :
          /\ DOMAIN whole[p] = DOMAIN Slice(Sorted(M, "last", TRUE), (p - 1) * 100, 100)
          /\ \A k \in DOMAIN whole[p] :
               whole[p][k].uid = Slice(Sorted(M, "last", TRUE), (p - 1) * 100, 100)[k].uid
    BY <2>3, <2>4
  <2>8. 100 \in Nat \ {0} /\ 1 \in Nat OBVIOUS
  <2> DEFINE desc == TRUE
  <2>9. InSlices(whole, M, "last", desc, 100, 1) BY <2>3, <2>6, <2>7, <2>8 DEF InSlices
  <2>10. desc \in BOOLEAN OBVIOUS
  <2> HIDE DEF desc
  <2>11. Covers(whole, M, "last", desc) BY <1>1, <2>9, <2>10, SlicesCover
  <2> QED BY <2>11 DEF desc
<1> QED BY <1>3, <1>4, <1>5

\* The names of the CRs change neither the order of the rows nor their uids.
LEMMA NamesKeepRows ==
  ASSUME NEW table, NEW crs
  PROVE  /\ DOMAIN WithNames(table, crs) = DOMAIN table
         /\ \A k \in DOMAIN table : WithNames(table, crs)[k].uid = table[k].uid
BY DEF WithNames

\* What a query selects, and in which order, is a matter of four fields.
LEMMA SameSelection ==
  ASSUME NEW q, NEW r, r.cluster = q.cluster, r.filters = q.filters,
         r.sortBy = q.sortBy, r.sortOrder = q.sortOrder
  PROVE  /\ OfCluster(Runs, r) = OfCluster(Runs, q) /\ OfCluster(Fixes, r) = OfCluster(Fixes, q)
         /\ MatchingRuns(r) = MatchingRuns(q) /\ MatchingFixes(r) = MatchingFixes(q)
         /\ RunColumn(r) = RunColumn(q) /\ FixColumn(r) = FixColumn(q)
         /\ Descending(r) = Descending(q)
<1>1. OfCluster(Runs, r) = OfCluster(Runs, q) /\ OfCluster(Fixes, r) = OfCluster(Fixes, q)
  BY DEF OfCluster
<1>2. MatchingRuns(r) = MatchingRuns(q) BY <1>1 DEF MatchingRuns
<1>3. MatchingFixes(r) = MatchingFixes(q) BY <1>1 DEF MatchingFixes
<1>4. RunColumn(r) = RunColumn(q) /\ FixColumn(r) = FixColumn(q) BY DEF RunColumn, FixColumn
<1>5. Descending(r) = Descending(q) BY DEF Descending
<1> QED BY <1>1, <1>2, <1>3, <1>4, <1>5

\* The bounds of the parameters let these sizes and every offset through.
LEMMA LimitAndOffset ==
  ASSUME NEW q, NEW size \in {1, 2, 200}, NEW p \in Nat \ {0},
         q.limit = size, q.offset = (p - 1) * size
  PROVE  Limit(q) = size /\ Offset(q) = (p - 1) * size
<1>1. size \in Nat \ {0} /\ size < 500 OBVIOUS
<1>2. (p - 1) * size \in Nat OBVIOUS
<1> QED BY <1>1, <1>2 DEF Limit, Offset, Least, Positive

LEMMA FixPages == FixPagesCover
<1> SUFFICES ASSUME NEW cluster \in ClustersOf(Fixes),
                    NEW phase \in {Unset} \cup {r.phase : r \in Fixes},
                    NEW sortBy \in {Unset, "phase"}, NEW order \in {Unset, "asc"},
                    NEW size \in {1, 2, 200}
             PROVE
               LET q        == Query(cluster, phase, sortBy, order)
                   Items(p) == handleAPIFixes(p).items
                   Total(p) == handleAPIFixes(p).total
                   n        == Cardinality(Fixes)
               IN /\ Covers(ByPage(q, n, size, Items), MatchingFixes(q), FixColumn(q), Descending(q))
                  /\ \A p \in 1..n : ByPage(q, n, size, Total)[p] = Cardinality(MatchingFixes(q))
                  /\ Covers(ByOffset(q, n, size, handleAPIFixes), OfCluster(Fixes, q), "created", TRUE)
  BY DEF FixPagesCover
<1> DEFINE q        == Query(cluster, phase, sortBy, order)
           Items(p) == handleAPIFixes(p).items
           Total(p) == handleAPIFixes(p).total
           n        == Cardinality(Fixes)
           M        == MatchingFixes(q)
           C        == OfCluster(Fixes, q)
           desc     == Descending(q)
           pages    == ByPage(q, n, size, Items)
           totals   == ByPage(q, n, size, Total)
           slices   == ByOffset(q, n, size, handleAPIFixes)
           Paged(p) == [q EXCEPT !.page = p, !.pageSize = size]
           Cut(p)   == [q EXCEPT !.limit = size, !.offset = (p - 1) * size]
<1>1. FixColumn(q) \in {"created", "updated", "phase"} /\ desc \in BOOLEAN
  BY DEF FixColumn, Descending
<1>2. C \in SUBSET Fixes /\ M \in SUBSET Fixes BY DEF OfCluster, MatchingFixes
<1>3. Sortable(Fixes, FixColumn(q)) /\ Sortable(Fixes, "created")
  BY <1>1, FixesAssumption DEF Sortable
<1>4. Sortable(M, FixColumn(q)) /\ Sortable(C, "created")
      /\ Cardinality(M) <= n /\ Cardinality(C) <= n /\ n \in Nat
  BY <1>2, <1>3, Subtables
<1>5. size \in Nat \ {0} OBVIOUS
<1>6. ASSUME NEW p \in 1..n
      PROVE  /\ pages[p] = WithNames(PageOf(M, FixColumn(q), desc, p, size).items, FixCRs)
             /\ totals[p] = Cardinality(M)
  <2>1. /\ pages[p] = handleAPIFixes(Paged(p)).items
        /\ totals[p] = handleAPIFixes(Paged(p)).total
    BY DEF ByPage
  <2>2. /\ Paged(p).page = p /\ Paged(p).pageSize = size
        /\ Paged(p).cluster = q.cluster /\ Paged(p).filters = q.filters
        /\ Paged(p).sortBy = q.sortBy /\ Paged(p).sortOrder = q.sortOrder
    BY DEF Query
  <2>3. p # Unset BY UnsetAssumption
  <2> HIDE DEF Paged, q, pages, totals
  <2>4. ListFixesPaginated(Paged(p)) = PageOf(M, FixColumn(q), desc, p, size)
    BY <2>2, SameSelection DEF ListFixesPaginated
  <2> QED BY <2>1, <2>2, <2>3, <2>4 DEF handleAPIFixes, PageOf
<1>7. ASSUME NEW p \in 1..n
      PROVE  slices[p] = WithNames(Slice(Sorted(C, "created", TRUE), (p - 1) * size, size), FixCRs)
  <2>1. slices[p] = handleAPIFixes(Cut(p)) BY DEF ByOffset
  <2>2. /\ Cut(p).page = Unset /\ Cut(p).limit = size /\ Cut(p).offset = (p - 1) * size
        /\ Cut(p).cluster = q.cluster
    BY DEF Query
  <2>4. OfCluster(Fixes, Cut(p)) = C BY <2>2 DEF OfCluster
  <2> HIDE DEF Cut, q, C, slices
  <2>3. Limit(Cut(p)) = size /\ Offset(Cut(p)) = (p - 1) * size BY <2>2, LimitAndOffset
  <2> QED BY <2>1, <2>2, <2>3, <2>4 DEF handleAPIFixes, ListFixes
<1>8. DOMAIN pages = 1..n /\ DOMAIN slices = 1..n BY DEF ByPage, ByOffset
<1> HIDE DEF q, n, M, C, desc, pages, totals, slices, Paged, Cut
<1>9. Covers(pages, M, FixColumn(q), desc)
  <2>1. InPages(pages, M, FixColumn(q), desc, size, n)
    BY <1>4, <1>5, <1>6, <1>8, NamesKeepRows DEF InPages
  <2> QED BY <1>1, <1>4, <2>1, EveryPage
<1>10. Covers(slices, C, "created", TRUE)
  <2> DEFINE down == TRUE
  <2>1. down \in BOOLEAN /\ \A p \in 1..n :
          slices[p] = WithNames(Slice(Sorted(C, "created", down), (p - 1) * size, size), FixCRs)
    BY <1>7
  <2> HIDE DEF down
  <2>2. Cardinality(C) \in Nat BY <1>4, <2>1, SortedRows
  <2>3. Cardinality(C) <= n * size BY <1>4, <2>2
  <2>4. InSlices(slices, C, "created", down, size, n)
    BY <1>4, <1>5, <1>8, <2>1, <2>3, NamesKeepRows DEF InSlices
  <2>5. Covers(slices, C, "created", down) BY <1>4, <2>1, <2>4, SlicesCover
  <2> QED BY <2>5 DEF down
<1> QED BY <1>6, <1>9, <1>10 DEF q, n, M, C, desc, pages, totals, slices

NoUidTwice(T, s) == s \in Seq(T) /\ \A k, l \in 1..Len(s) : s[k].uid = s[l].uid => k = l

\* No uid twice in an answer, and every scheduled CR by its name.
EveryTemplate(answer) ==
  /\ \A k, l \in DOMAIN answer : answer[k].uid = answer[l].uid => k = l
  /\ \A c \in RunCRs : c.scheduled =>
       \E k \in DOMAIN answer : answer[k] = [uid |-> c.uid, name |-> c.name]

\* The scheduled CRs that have no row among the items come after them, each
\* once; those that have one bear their name there.
LEMMA MergedTemplates ==
  ASSUME NEW T, NEW table, NoUidTwice(T, table)
  PROVE  EveryTemplate(mergeScheduledTemplates(WithNames(table, RunCRs)))
<1> DEFINE items == WithNames(table, RunCRs)
           m     == Len(table)
           new   == {c \in RunCRs : c.scheduled /\ \A k \in DOMAIN items : items[k].uid # c.uid}
           order == {pair \in new \X new : Tie[pair[1].uid] < Tie[pair[2].uid]}
           N     == Cardinality(new)
           all   == InOrder(new, order)
           more  == [k \in DOMAIN all |-> [uid |-> all[k].uid, name |-> all[k].name]]
           merged == items \o more
           V     == {items[k] : k \in 1..m} \cup {more[k] : k \in 1..N}
<1>0. table \in Seq(T) /\ \A k, l \in 1..m : table[k].uid = table[l].uid => k = l
  BY DEF NoUidTwice
<1>1. /\ m \in Nat /\ DOMAIN items = 1..m
      /\ \A k \in 1..m : items[k] = [uid |-> table[k].uid, name |-> NameOf(table[k].uid, RunCRs)]
      /\ items = [k \in 1..m |-> items[k]]
  BY <1>0 DEF WithNames
<1>2. merged = mergeScheduledTemplates(items) BY DEF mergeScheduledTemplates
<1>3. /\ \A c \in new : c \in RunCRs /\ c.scheduled /\ \A k \in 1..m : items[k].uid # c.uid
      /\ \A c \in RunCRs : c.scheduled /\ c \notin new => \E k \in 1..m : items[k].uid = c.uid
  BY <1>1
<1> HIDE DEF items
<1>4. /\ IsFiniteSet(RunCRs) /\ \A c \in RunCRs : Tie[c.uid] \in Int
      /\ \A c, d \in RunCRs : Tie[c.uid] = Tie[d.uid] => c = d
  BY CRsAssumption DEF Numbered
<1>5. \A c, d \in new : <<c, d>> \in order <=> Tie[c.uid] < Tie[d.uid] OBVIOUS
<1>6. new \in SUBSET RunCRs OBVIOUS
<1> HIDE DEF new, order
<1>7. IsFiniteSet(new) BY <1>4, <1>6, FS_Subset
<1>8. StrictOrder(new, order)
  <2>1. \A c \in new : <<c, c>> \notin order BY <1>4, <1>5, <1>6
  <2>2. \A c, d \in new : c # d => <<c, d>> \in order \/ <<d, c>> \in order
    BY <1>4, <1>5, <1>6
  <2>3. \A c, d, e \in new : <<c, d>> \in order /\ <<d, e>> \in order => <<c, e>> \in order
    BY <1>4, <1>5, <1>6
  <2> QED BY <2>1, <2>2, <2>3 DEF StrictOrder
<1>9. /\ N \in Nat /\ all \in [1..N -> new]
      /\ \A c \in new : \E k \in 1..N : all[k] = c
      /\ \A k, l \in 1..N : k < l => <<all[k], all[l]>> \in order
  BY <1>7, <1>8, Ordering
<1> HIDE DEF all, N
<1>10. /\ more \in [1..N -> V] /\ items \in [1..m -> V]
       /\ \A k \in 1..N : more[k] = [uid |-> all[k].uid, name |-> all[k].name]
  <2>1. DOMAIN all = 1..N BY <1>9
  <2>2. more \in [1..N -> V] BY <2>1
  <2>3. items \in [1..m -> V]
    <3> HIDE DEF more
    <3> QED BY <1>1
  <2> QED BY <2>1, <2>2, <2>3
<1> HIDE DEF V, more, m
<1>11. items \in Seq(V) /\ more \in Seq(V) /\ Len(items) = m /\ Len(more) = N
  BY <1>1, <1>9, <1>10
<1>12. /\ DOMAIN merged = 1..(m + N)
       /\ \A k \in 1..(m + N) : merged[k] = IF k <= m THEN items[k] ELSE more[k - m]
  BY <1>11, <1>1, <1>9
<1> HIDE DEF merged
<1>13. \A k, l \in 1..N : all[k].uid = all[l].uid => k = l
  <2> SUFFICES ASSUME NEW k \in 1..N, NEW l \in 1..N, all[k].uid = all[l].uid, k # l PROVE FALSE
    OBVIOUS
  <2>1. k < l \/ l < k BY <1>9
  <2>2. all[k] \in new /\ all[l] \in new BY <1>9
  <2>3. all[k] = all[l] BY <1>4, <1>6, <2>2
  <2> QED BY <1>8, <1>9, <2>1, <2>2, <2>3 DEF StrictOrder
<1>14. ASSUME NEW k \in 1..(m + N), NEW l \in 1..(m + N), merged[k].uid = merged[l].uid
       PROVE  k = l
  <2>1. ASSUME NEW i \in 1..(m + N)
        PROVE  IF i \in 1..m THEN merged[i] = items[i]
               ELSE i - m \in 1..N /\ merged[i] = more[i - m]
    <3>1. i \in Int /\ 1 <= i /\ i <= m + N BY <1>1, <1>9
    <3>2. (i \in 1..m <=> i <= m) /\ (i > m => i - m \in 1..N) BY <1>1, <1>9, <3>1
    <3> QED BY <1>1, <1>12, <3>1, <3>2
  <2>2. CASE k \in 1..m /\ l \in 1..m
    <3>1. merged[k] = items[k] /\ merged[l] = items[l] BY <1>1, <2>1, <2>2
    <3>2. table[k].uid = table[l].uid BY <1>1, <1>14, <2>2, <3>1
    <3> QED BY <1>0, <2>2, <3>2
  <2>3. CASE k \in 1..m /\ l \notin 1..m
    <3>1. merged[k] = items[k] /\ merged[l] = more[l - m] /\ l - m \in 1..N
      BY <1>1, <2>1, <2>3
    <3>2. all[l - m] \in new /\ merged[l].uid = all[l - m].uid BY <1>9, <1>10, <3>1
    <3> QED BY <1>3, <1>14, <2>3, <3>1, <3>2
  <2>4. CASE k \notin 1..m /\ l \in 1..m
    <3>1. merged[l] = items[l] /\ merged[k] = more[k - m] /\ k - m \in 1..N
      BY <1>1, <2>1, <2>4
    <3>2. all[k - m] \in new /\ merged[k].uid = all[k - m].uid BY <1>9, <1>10, <3>1
    <3> QED BY <1>3, <1>14, <2>4, <3>1, <3>2
  <2>5. CASE k \notin 1..m /\ l \notin 1..m
    <3>1. /\ merged[k] = more[k - m] /\ k - m \in 1..N
          /\ merged[l] = more[l - m] /\ l - m \in 1..N
      BY <2>1, <2>5
    <3>2. merged[k].uid = all[k - m].uid /\ merged[l].uid = all[l - m].uid BY <1>10, <3>1
    <3>3. k - m = l - m BY <1>13, <1>14, <3>1, <3>2
    <3> QED BY <1>1, <1>9, <3>3
  <2> QED BY <2>2, <2>3, <2>4, <2>5
<1>15. ASSUME NEW c \in RunCRs, c.scheduled
       PROVE  \E k \in 1..(m + N) : merged[k] = [uid |-> c.uid, name |-> c.name]
  <2>1. CASE c \in new
    <3>1. PICK k \in 1..N : all[k] = c BY <1>9, <2>1
    <3>2. k + m \in 1..(m + N) /\ ~(k + m <= m) /\ (k + m) - m = k BY <1>1, <1>9
    <3>3. merged[k + m] = more[k] BY <1>12, <3>2
    <3> QED BY <1>10, <3>1, <3>2, <3>3
  <2>2. CASE c \notin new
    <3>1. PICK k \in 1..m : items[k].uid = c.uid BY <1>3, <1>15, <2>2
    <3>2. k \in 1..(m + N) /\ k <= m BY <1>1, <1>9
    <3>3. NameOf(c.uid, RunCRs) = c.name
      <4>1. \A d \in RunCRs : d.uid = c.uid => d = c BY <1>4
      <4> QED BY <4>1 DEF NameOf
    <3>4. items[k] = [uid |-> c.uid, name |-> c.name] BY <1>1, <3>1, <3>3
    <3> QED BY <1>12, <3>2, <3>4
  <2> QED BY <2>1, <2>2
<1> QED BY <1>2, <1>12, <1>14, <1>15 DEF items, EveryTemplate

LEMMA SliceUids ==
  ASSUME NEW T, NEW col, Sortable(T, col), NEW desc \in BOOLEAN,
         NEW offset \in Nat, NEW limit \in Nat
  PROVE  NoUidTwice(T, Slice(Sorted(T, col, desc), offset, limit))
<1> DEFINE all == Sorted(T, col, desc)
           s   == Slice(all, offset, limit)
           N   == Cardinality(T)
<1>1. /\ N \in Nat /\ all \in Seq(T) /\ Len(all) = N
      /\ \A i, j \in 1..N : i < j => Before(all[i], all[j], col, desc)
  BY SortedRows
<1> HIDE DEF all, N
<1>2. Sliced(T, all, offset, limit) BY <1>1, SliceOf
<1>3. /\ s \in Seq(T) /\ \A k \in 1..Len(s) : offset + k \in 1..N /\ s[k] = all[offset + k]
  <2>1. /\ s \in Seq(T) /\ DOMAIN s = {k \in 1..limit : offset + k <= N}
        /\ \A k \in DOMAIN s : s[k] = all[offset + k]
    BY <1>1, <1>2 DEF Sliced
  <2> HIDE DEF s
  <2>4. s \in Seq(T) BY <2>1
  <2>2. DOMAIN s = 1..Len(s) BY ONLY <2>4
  <2>3. \A k \in DOMAIN s : offset + k \in 1..N BY <1>1, <2>1
  <2> QED BY <2>1, <2>2, <2>3
<1> HIDE DEF s
<1>4. \A i, j \in 1..N : all[i].uid = all[j].uid => i = j
  <2> SUFFICES ASSUME NEW i \in 1..N, NEW j \in 1..N, i < j, all[i].uid = all[j].uid
               PROVE  FALSE
    BY <1>1
  <2>1. all[i] \in T /\ all[j] \in T BY <1>1
  <2>2. Before(all[i], all[j], col, desc) BY <1>1
  <2>3. all[i] = all[j] BY <2>1 DEF Sortable, Numbered
  <2>4. all[j][col] \in Int /\ Tie[all[j].uid] \in Int BY <2>1 DEF Sortable, Numbered
  <2> QED BY <2>2, <2>3, <2>4 DEF Before
<1>5. \A k, l \in 1..Len(s) : s[k].uid = s[l].uid => k = l
  <2> TAKE k, l \in 1..Len(s)
  <2>1. offset + k = offset + l <=> k = l
    <3>1. k \in Int /\ l \in Int /\ offset \in Int BY <1>3
    <3> QED BY ONLY <3>1
  <2>2. /\ offset + k \in 1..N /\ s[k] = all[offset + k]
        /\ offset + l \in 1..N /\ s[l] = all[offset + l]
    BY ONLY <1>3, k \in 1..Len(s), l \in 1..Len(s)
  <2>3. s[k].uid = s[l].uid => offset + k = offset + l BY ONLY <1>4, <2>2
  <2> QED BY ONLY <2>1, <2>3
<1> QED BY <1>3, <1>5 DEF NoUidTwice, s, all

LEMMA RunPages == RunPagesCover
<1> SUFFICES ASSUME NEW cluster \in ClustersOf(Runs),
                    NEW status \in {Unset} \cup {r.status : r \in Runs},
                    NEW sortBy \in {Unset, "status"}, NEW order \in {Unset, "asc"},
                    NEW size \in {1, 2, 200}
             PROVE
               LET q        == Query(cluster, status, sortBy, order)
                   Items(p) == handleAPIRuns(p).items
                   Total(p) == handleAPIRuns(p).total
                   n        == Cardinality(Runs)
                   answers  == ByOffset(q, n, size, handleAPIRuns)
               IN /\ Covers(ByPage(q, n, size, Items), MatchingRuns(q), RunColumn(q), Descending(q))
                  /\ \A p \in 1..n : ByPage(q, n, size, Total)[p] = Cardinality(MatchingRuns(q))
                  /\ Covers(ByOffset(q, n, size, ListRuns), OfCluster(Runs, q), "created", TRUE)
                  /\ \A p \in 1..n :
                       /\ \A k, l \in DOMAIN answers[p] : answers[p][k].uid = answers[p][l].uid => k = l
                       /\ \A c \in RunCRs : c.scheduled =>
                            \E k \in DOMAIN answers[p] : answers[p][k] = [uid |-> c.uid, name |-> c.name]
  BY DEF RunPagesCover
<1> DEFINE q        == Query(cluster, status, sortBy, order)
           Items(p) == handleAPIRuns(p).items
           Total(p) == handleAPIRuns(p).total
           n        == Cardinality(Runs)
           M        == MatchingRuns(q)
           C        == OfCluster(Runs, q)
           desc     == Descending(q)
           pages    == ByPage(q, n, size, Items)
           totals   == ByPage(q, n, size, Total)
           slices   == ByOffset(q, n, size, ListRuns)
           answers  == ByOffset(q, n, size, handleAPIRuns)
           Paged(p) == [q EXCEPT !.page = p, !.pageSize = size]
           Cut(p)   == [q EXCEPT !.limit = size, !.offset = (p - 1) * size]
<1>1. RunColumn(q) \in {"created", "status"} /\ desc \in BOOLEAN
  BY DEF RunColumn, Descending
<1>2. C \in SUBSET Runs /\ M \in SUBSET Runs BY DEF OfCluster, MatchingRuns
<1>3. Sortable(Runs, RunColumn(q)) /\ Sortable(Runs, "created")
  BY <1>1, RunsAssumption DEF Sortable
<1>4. Sortable(M, RunColumn(q)) /\ Sortable(C, "created")
      /\ Cardinality(M) <= n /\ Cardinality(C) <= n /\ n \in Nat
  BY <1>2, <1>3, Subtables
<1>5. size \in Nat \ {0} OBVIOUS
<1>6. ASSUME NEW p \in 1..n
      PROVE  /\ pages[p] = WithNames(PageOf(M, RunColumn(q), desc, p, size).items, RunCRs)
             /\ totals[p] = Cardinality(M)
  <2>1. /\ pages[p] = handleAPIRuns(Paged(p)).items
        /\ totals[p] = handleAPIRuns(Paged(p)).total
    BY DEF ByPage
  <2>2. /\ Paged(p).page = p /\ Paged(p).pageSize = size
        /\ Paged(p).cluster = q.cluster /\ Paged(p).filters = q.filters
        /\ Paged(p).sortBy = q.sortBy /\ Paged(p).sortOrder = q.sortOrder
    BY DEF Query
  <2>3. p # Unset BY UnsetAssumption
  <2> HIDE DEF Paged, q, pages, totals
  <2>4. ListRunsPaginated(Paged(p)) = PageOf(M, RunColumn(q), desc, p, size)
    BY <2>2, SameSelection DEF ListRunsPaginated
  <2> QED BY <2>1, <2>2, <2>3, <2>4 DEF handleAPIRuns, PageOf
<1>7. ASSUME NEW p \in 1..n
      PROVE  /\ slices[p] = Slice(Sorted(C, "created", TRUE), (p - 1) * size, size)
             /\ answers[p] = mergeScheduledTemplates(WithNames(slices[p], RunCRs))
             /\ (p - 1) * size \in Nat
  <2>1. slices[p] = ListRuns(Cut(p)) /\ answers[p] = handleAPIRuns(Cut(p)) BY DEF ByOffset
  <2>2. /\ Cut(p).page = Unset /\ Cut(p).limit = size /\ Cut(p).offset = (p - 1) * size
        /\ Cut(p).cluster = q.cluster
    BY DEF Query
  <2>4. OfCluster(Runs, Cut(p)) = C BY <2>2 DEF OfCluster
  <2>5. (p - 1) * size \in Nat OBVIOUS
  <2> HIDE DEF Cut, q, C, slices, answers
  <2>3. Limit(Cut(p)) = size /\ Offset(Cut(p)) = (p - 1) * size BY <2>2, LimitAndOffset
  <2>6. slices[p] = Slice(Sorted(C, "created", TRUE), (p - 1) * size, size)
    BY <2>1, <2>3, <2>4 DEF ListRuns
  <2>7. answers[p] = mergeScheduledTemplates(WithNames(slices[p], RunCRs))
    BY <2>1, <2>2 DEF handleAPIRuns
  <2> QED BY <2>5, <2>6, <2>7
<1>8. DOMAIN pages = 1..n /\ DOMAIN slices = 1..n BY DEF ByPage, ByOffset
<1> HIDE DEF q, n, M, C, desc, pages, totals, slices, answers, Paged, Cut
<1>9. Covers(pages, M, RunColumn(q), desc)
  <2>1. InPages(pages, M, RunColumn(q), desc, size, n)
    BY <1>4, <1>5, <1>6, <1>8, NamesKeepRows DEF InPages
  <2> QED BY <1>1, <1>4, <2>1, EveryPage
<1>10. Covers(slices, C, "created", TRUE)
  <2> DEFINE down == TRUE
  <2>1. down \in BOOLEAN /\ \A p \in 1..n :
          slices[p] = Slice(Sorted(C, "created", down), (p - 1) * size, size)
    BY <1>7
  <2> HIDE DEF down
  <2>2. Cardinality(C) \in Nat BY <1>4, <2>1, SortedRows
  <2>3. Cardinality(C) <= n * size BY <1>4, <2>2
  <2>4. InSlices(slices, C, "created", down, size, n)
    BY <1>4, <1>5, <1>8, <2>1, <2>3 DEF InSlices
  <2>5. Covers(slices, C, "created", down) BY <1>4, <2>1, <2>4, SlicesCover
  <2> QED BY <2>5 DEF down
<1>11. ASSUME NEW p \in 1..n
       PROVE  /\ \A k, l \in DOMAIN answers[p] : answers[p][k].uid = answers[p][l].uid => k = l
              /\ \A c \in RunCRs : c.scheduled =>
                   \E k \in DOMAIN answers[p] : answers[p][k] = [uid |-> c.uid, name |-> c.name]
  <2> DEFINE down == TRUE
  <2>1. down \in BOOLEAN /\ slices[p] = Slice(Sorted(C, "created", down), (p - 1) * size, size)
    BY <1>7
  <2> HIDE DEF down
  <2>2. NoUidTwice(C, slices[p])
    <3> DEFINE o == (p - 1) * size
    <3>1. size \in Nat /\ o \in Nat /\ slices[p] = Slice(Sorted(C, "created", down), o, size)
      BY <1>5, <1>7, <2>1
    <3> HIDE DEF o
    <3>2. NoUidTwice(C, Slice(Sorted(C, "created", down), o, size))
      BY <1>4, <2>1, <3>1, SliceUids
    <3> QED BY <3>1, <3>2
  <2>3. EveryTemplate(mergeScheduledTemplates(WithNames(slices[p], RunCRs)))
    BY <2>2, MergedTemplates
  <2>4. answers[p] = mergeScheduledTemplates(WithNames(slices[p], RunCRs)) BY <1>7
  <2>5. EveryTemplate(answers[p]) BY ONLY <2>3, <2>4
  <2> QED BY <2>5 DEF EveryTemplate
<1> QED BY <1>6, <1>9, <1>10, <1>11 DEF q, n, M, C, desc, pages, totals, slices, answers


\* What the pages of a listing answer is what the query selects: every row,
\* none twice, in order, however the table was filled, and for any runs,
\* fixes and CRs (PagesCover).
THEOREM PagesAreComplete == Spec => []PagesCover
<1>1. TypeOK => PagesCover BY EventPages, RunPages, FixPages DEF PagesCover
<1> QED BY <1>1, CollectorTypeCorrect, PTL
=============================================================================
