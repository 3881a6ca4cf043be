---------------------------- MODULE EventCollector ----------------------------
(***************************************************************************)
(* The collector of Warning events (internal/collector): the event objects *)
(* of the API server and the watch over them, the watcher goroutine, the   *)
(* bounded channel, the batcher goroutine that upserts into the events     *)
(* table, the purge of old rows, and a controller that dies and restarts.  *)
(*                                                                         *)
(* An event object recurs: each time its version grows.  A version never   *)
(* changes what was said of an earlier one, so an item on its way is the   *)
(* record that kubeEventToStore makes of one version.                      *)
(***************************************************************************)
EXTENDS Naturals, Sequences

CONSTANTS
  Events,      \* UIDs
  NewStyle,    \* those without lastTimestamp and count (events.k8s.io/v1)
  Capacity,    \* of the channel
  BatchSize,   \* EventBatchSize
  Retention,   \* RetentionDays, in ticks
  MaxNow,      \* bound: the clock
  MaxChanges,  \* bound: occurrences of all events
  MaxCrashes,  \* bound: restarts of the controller
  MaxFaults    \* bound: failed calls

ASSUME NewStyleAssumption == NewStyle \subseteq Events
ASSUME QueueAssumption == Capacity \in Nat \ {0} /\ BatchSize \in Nat \ {0} /\ Retention \in Nat
ASSUME CollectorBoundAssumption ==
  MaxNow \in Nat /\ MaxChanges \in Nat /\ MaxCrashes \in Nat /\ MaxFaults \in Nat

VARIABLES
  now,
  version, born, last,  \* the API server: occurrences of an event (0: none yet),
                        \* when it was created and when it occurred last,
  here, log,            \* whether the object is still there, and the changes
                        \* in the order of their resourceVersions
  watcher, pending, at, \* the watcher: place, the listed items it has to send,
                        \* the resourceVersion it has watched up to
  queue,                \* the channel
  batcher, buf,         \* the batcher: place, buffer
  rows,                 \* the table: the items stored last
  crashes, faults

apiVars   == <<version, born, last, here, log>>
watchVars == <<watcher, pending, at>>
batchVars == <<batcher, buf>>
vars == <<now, apiVars, watchVars, queue, batchVars, rows, crashes, faults>>

Fault   == faults < MaxFaults /\ faults' = faults + 1
NoFault == UNCHANGED faults

Item == [uid : Events, version : Nat, count : Nat, first : Nat, last : Nat]
NoRow == [uid |-> "none"]

Init ==
  /\ now = 0
  /\ version = [e \in Events |-> 0] /\ born = [e \in Events |-> 0]
  /\ last = [e \in Events |-> 0] /\ here = {} /\ log = <<>>
  /\ watcher = "list" /\ pending = {} /\ at = 0
  /\ queue = <<>> /\ batcher = "take" /\ buf = <<>>
  /\ rows = [e \in Events |-> NoRow]
  /\ crashes = 0 /\ faults = 0

(***************************************************************************)
(* The cluster.                                                            *)
(***************************************************************************)

Tick ==
  /\ now < MaxNow /\ now' = now + 1
  /\ UNCHANGED <<apiVars, watchVars, queue, batchVars, rows, crashes, faults>>

Occurs(e) ==
  /\ Len(log) < MaxChanges /\ (version[e] = 0 \/ e \in here)
  /\ version' = [version EXCEPT ![e] = @ + 1]
  /\ born' = [born EXCEPT ![e] = IF version[e] = 0 THEN now ELSE @]
  /\ last' = [last EXCEPT ![e] = now] /\ here' = here \cup {e}
  /\ log' = Append(log, [uid |-> e, version |-> version[e] + 1, born |-> born'[e], last |-> now])
  /\ UNCHANGED <<now, watchVars, queue, batchVars, rows, crashes, faults>>

\* The API server forgets an event; the watch's Deleted is ignored.
Expires(e) ==
  /\ e \in here /\ here' = here \ {e}
  /\ UNCHANGED <<now, version, born, last, log, watchVars, queue, batchVars, rows, crashes, faults>>

\* An event without lastTimestamp counts nothing and is as old as its object.
kubeEventToStore(e, v, b, l) ==
  [uid |-> e, version |-> v, first |-> b,
   count |-> IF e \in NewStyle THEN 0 ELSE v,
   last  |-> IF e \in NewStyle THEN b ELSE l]

Current(e) == kubeEventToStore(e, version[e], born[e], last[e])

(***************************************************************************)
(* watchEvents: list, send, watch from the list's resourceVersion.         *)
(***************************************************************************)

ListedButNotNoted ==   \* mutant: watched from the version of an earlier list
  /\ watcher = "list"
  /\ \/ /\ pending' = {Current(e) : e \in here} /\ at' = at
        /\ watcher' = "send" /\ NoFault
     \/ watcher' = "pause" /\ UNCHANGED <<pending, at>> /\ Fault
  /\ UNCHANGED <<now, apiVars, queue, batchVars, rows, crashes>>

ListEvents ==
  /\ watcher = "list"
  /\ \/ /\ pending' = {Current(e) : e \in here} /\ at' = Len(log)
        /\ watcher' = "send" /\ NoFault
     \/ watcher' = "pause" /\ UNCHANGED <<pending, at>> /\ Fault
  /\ UNCHANGED <<now, apiVars, queue, batchVars, rows, crashes>>

SendListed ==
  /\ watcher = "send" /\ Len(queue) < Capacity
  /\ \E i \in pending : pending' = pending \ {i} /\ queue' = Append(queue, i)
  /\ UNCHANGED <<now, apiVars, watcher, at, batchVars, rows, crashes, faults>>

Watch ==
  /\ watcher = "send" /\ pending = {}
  /\ \/ watcher' = "watch" /\ NoFault
     \/ watcher' = "pause" /\ Fault
  /\ UNCHANGED <<now, apiVars, pending, at, queue, batchVars, rows, crashes>>

\* Added and Modified, in the order of the log; a full channel makes the
\* watcher wait.
SendWatched ==
  /\ watcher = "watch" /\ at < Len(log) /\ Len(queue) < Capacity
  /\ LET c == log[at + 1]
     IN queue' = Append(queue, kubeEventToStore(c.uid, c.version, c.born, c.last))
  /\ at' = at + 1
  /\ UNCHANGED <<now, apiVars, watcher, pending, batchVars, rows, crashes, faults>>

\* The API server closes every watch in the end; an Error event counts as
\* such.  The list comes at once, after a failed call in 5 s.
Resumed ==   \* mutant: a closed watch is opened again without a list
  /\ watcher = "watch" /\ watcher' = "send"
  /\ UNCHANGED <<now, apiVars, pending, at, queue, batchVars, rows, crashes, faults>>

WatchCloses ==
  /\ watcher = "watch" /\ watcher' = "list"
  /\ UNCHANGED <<now, apiVars, pending, at, queue, batchVars, rows, crashes, faults>>

Retry ==
  /\ watcher = "pause" /\ watcher' = "list"
  /\ UNCHANGED <<now, apiVars, pending, at, queue, batchVars, rows, crashes, faults>>

(***************************************************************************)
(* runBatcher, and the flush it is given: one upsert after the other, a    *)
(* failed one is skipped.                                                  *)
(***************************************************************************)

TakeOneMore ==   \* mutant: > instead of >=
  /\ batcher = "take" /\ queue # <<>>
  /\ buf' = Append(buf, Head(queue)) /\ queue' = Tail(queue)
  /\ batcher' = (IF Len(buf') > BatchSize THEN "flush" ELSE "take")
  /\ UNCHANGED <<now, apiVars, watchVars, rows, crashes, faults>>

Take ==
  /\ batcher = "take" /\ queue # <<>>
  /\ buf' = Append(buf, Head(queue)) /\ queue' = Tail(queue)
  /\ batcher' = (IF Len(buf') >= BatchSize THEN "flush" ELSE "take")
  /\ UNCHANGED <<now, apiVars, watchVars, rows, crashes, faults>>

FlushTick ==
  /\ batcher = "take" /\ buf # <<>> /\ batcher' = "flush"
  /\ UNCHANGED <<now, apiVars, watchVars, queue, buf, rows, crashes, faults>>

\* A conflict on the uid keeps the row's first_time and reason.
Upserted(row, i) == IF row = NoRow THEN i ELSE [i EXCEPT !.first = row.first]

UpsertEvent ==
  /\ batcher = "flush" /\ buf' = Tail(buf)
  /\ batcher' = (IF buf' = <<>> THEN "take" ELSE "flush")
  /\ \/ rows' = [rows EXCEPT ![Head(buf).uid] = Upserted(@, Head(buf))] /\ NoFault
     \/ rows' = rows /\ Fault
  /\ UNCHANGED <<now, apiVars, watchVars, queue, crashes>>

(***************************************************************************)
(* The purge, and the end of the process.                                  *)
(***************************************************************************)

Old(row) == row.last + Retention < now

PurgeOldEvents ==
  /\ \E e \in Events : rows[e] # NoRow /\ Old(rows[e])
  /\ rows' = [e \in Events |-> IF rows[e] # NoRow /\ Old(rows[e]) THEN NoRow ELSE rows[e]]
  /\ UNCHANGED <<now, apiVars, watchVars, queue, batchVars, crashes, faults>>

\* At a shutdown the batcher flushes with the cancelled context: every
\* upsert fails, as if the process had been killed.
Restart ==
  /\ crashes < MaxCrashes /\ crashes' = crashes + 1
  /\ watcher' = "list" /\ pending' = {} /\ at' = 0
  /\ queue' = <<>> /\ batcher' = "take" /\ buf' = <<>>
  /\ UNCHANGED <<now, apiVars, rows, faults>>

Watcher == ListEvents \/ SendListed \/ Watch \/ SendWatched \/ Retry
Batcher == Take \/ FlushTick \/ UpsertEvent

Next ==
  \/ Tick \/ \E e \in Events : Occurs(e) \/ Expires(e)
  \/ Watcher \/ WatchCloses \/ Batcher
  \/ PurgeOldEvents \/ Restart

Spec == Init /\ [][Next]_vars

\* Both goroutines run on, the batcher's ticker ticks, and the API server
\* closes a watch after some time (its --min-request-timeout).
FairSpec ==
  /\ Spec
  /\ WF_vars(Watcher) /\ WF_vars(WatchCloses) /\ WF_vars(Batcher)

(***************************************************************************)
(* Properties.                                                             *)
(***************************************************************************)

\* Every variable has its type.
TypeOK ==
  /\ now \in 0..MaxNow
  /\ version \in [Events -> 0..MaxChanges]
  /\ born \in [Events -> Nat] /\ last \in [Events -> Nat] /\ here \subseteq Events
  /\ \A k \in DOMAIN log : log[k].uid \in Events /\ log[k].version \in 1..MaxChanges
  /\ watcher \in {"list", "send", "watch", "pause"}
  /\ pending \subseteq Item /\ at \in Nat
  /\ queue \in Seq(Item) /\ Len(queue) <= Capacity
  /\ batcher \in {"take", "flush"} /\ buf \in Seq(Item) /\ Len(buf) <= BatchSize
  /\ \A e \in Events : rows[e] = NoRow \/ (rows[e] \in Item /\ rows[e].uid = e)
  /\ crashes \in 0..MaxCrashes /\ faults \in 0..MaxFaults

\* A row is never overwritten by an older occurrence: not by one that was
\* on its way when a list brought a newer, not by one that waits in a
\* buffer, not after a restart.
RowsNeverFallBack ==
  [][\A e \in Events :
       rows[e] # NoRow /\ rows'[e] # NoRow => rows'[e].version >= rows[e].version]_vars

\* Every occurrence gets into the table, itself or by a later one, if its
\* event does not expire first; what failed, or was lost with a buffer, the
\* next list brings.  An event that reports itself older than the retention
\* may be purged instead.
OccurrencesStored ==
  \A e \in Events, v \in 1..MaxChanges :
    (version[e] >= v) ~>
      \/ rows[e] # NoRow /\ rows[e].version >= v
      \/ e \notin here
      \/ Old(Current(e))
=============================================================================
