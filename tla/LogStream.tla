------------------------------ MODULE LogStream ------------------------------
(***************************************************************************)
(* The log of one run: the agent's pod that writes it, the reconciler that *)
(* stores it in run_logs once the run has ended (collectPodLogs), and one  *)
(* GET /api/runs/{id}/logs, followed or not, answered from the pod or from *)
(* the store (logs_handler.go).  Readers do not disturb each other, so one *)
(* stands for all.                                                         *)
(***************************************************************************)
EXTENDS Naturals, Sequences

CONSTANTS
  Lines,      \* what the agent writes: a sequence of raw lines
  MaxOthers,  \* bound: rows other runs put in run_logs meanwhile
  MaxFaults   \* bound: failed API calls, failed queries and cut connections

\* A raw line: is it JSON, with a message, a type, a timestamp, data; is it
\* longer than the 1 MB a Scanner takes.
Raw == [json : BOOLEAN, message : BOOLEAN, type : BOOLEAN, time : BOOLEAN,
        data : BOOLEAN, long : BOOLEAN]

ASSUME LinesAssumption == Lines \in Seq(Raw)
ASSUME LogBoundAssumption == MaxOthers \in Nat /\ MaxFaults \in Nat

VARIABLES
  pod, written,  \* the agent's pod, and how many lines it has written
  cr, row,       \* the DiagnosticRun in the cache, and its row
  stored, nextId, others,  \* run_logs: this run's rows, the next id
  col, limit, taken,  \* the collector: place, lines its stream holds, lines read
  pc, follow, holds, got, lastID, empty,  \* the reader: place, what it asked for,
                      \* lines of an answer at once, entries sent, and its poll state
  how,           \* how the answer ended: all at once, the pod's log at its
                 \* end, the store's with "done", or cut off
  faults

podVars  == <<pod, written>>
runVars  == <<cr, row>>
logVars  == <<stored, nextId, others>>
colVars  == <<col, limit, taken>>
readVars == <<pc, follow, holds, got, lastID, empty, how>>
vars == <<podVars, runVars, logVars, colVars, readVars, faults>>

Fault   == faults < MaxFaults /\ faults' = faults + 1
NoFault == UNCHANGED faults

Init ==
  /\ pod = "absent" /\ written = 0
  /\ cr = TRUE /\ row = "Running"
  /\ stored = <<>> /\ nextId = 1 /\ others = 0
  /\ col = "idle" /\ limit = 0 /\ taken = 0
  /\ pc = "idle" /\ follow = FALSE /\ holds = 0 /\ got = <<>> /\ lastID = 0 /\ empty = 0
  /\ how = "none"
  /\ faults = 0

\* A Scanner stops in front of a line that is too long.
Readable(n) == n < Len(Lines) /\ ~Lines[n + 1].long

(***************************************************************************)
(* What a line becomes, as the reconciler and as the handler parse it.     *)
(***************************************************************************)

StoredEntryAsIs(k) ==   \* mutant: no default for a missing type
  LET raw == Lines[k]
      own == raw.json /\ raw.message
  IN [line    |-> k,
      message |-> IF own THEN "own" ELSE "line",
      data    |-> IF own /\ raw.data THEN "own" ELSE "none",
      type    |-> IF ~own THEN "info" ELSE IF raw.type THEN "own" ELSE "",
      time    |-> IF own /\ raw.time THEN "own" ELSE "now"]

StoredEntry(k) ==
  LET raw == Lines[k]
      own == raw.json /\ raw.message
  IN [line    |-> k,
      message |-> IF own THEN "own" ELSE "line",
      data    |-> IF own /\ raw.data THEN "own" ELSE "none",
      type    |-> IF own /\ raw.type THEN "own" ELSE "info",
      time    |-> IF own /\ raw.time THEN "own" ELSE "now"]

LiveEntry(k) ==
  LET raw  == Lines[k]
      own  == raw.json /\ raw.message
      type == IF ~own THEN "info" ELSE IF raw.type THEN "own" ELSE ""
      time == IF ~own THEN "now" ELSE IF raw.time THEN "own" ELSE ""
  IN [line    |-> k,
      message |-> IF own THEN "own" ELSE "line",
      data    |-> IF own /\ raw.data THEN "own" ELSE "none",
      type    |-> IF type = "" THEN "info" ELSE type,
      time    |-> IF time = "" THEN "now" ELSE time]

(***************************************************************************)
(* The pod, the CR, and the tables.                                        *)
(***************************************************************************)

PodStep(from, to) ==
  /\ pod \in from /\ pod' = to
  /\ UNCHANGED <<written, runVars, logVars, colVars, readVars, faults>>

PodStarts == PodStep({"absent"}, "up")
PodEnds   == PodStep({"up"}, "ended")
PodGone   == PodStep({"up", "ended"}, "gone")

PodWrites ==
  /\ pod = "up" /\ written < Len(Lines) /\ written' = written + 1
  /\ UNCHANGED <<pod, runVars, logVars, colVars, readVars, faults>>

DeleteCR ==
  /\ cr /\ cr' = FALSE
  /\ UNCHANGED <<podVars, row, logVars, colVars, readVars, faults>>

\* DeleteRuns: the logs, then the row, in one transaction.
EraseRun ==
  /\ ~cr /\ row # "erased" /\ row' = "erased" /\ stored' = <<>>
  /\ UNCHANGED <<podVars, cr, nextId, others, colVars, readVars, faults>>

OtherAppends ==
  /\ others < MaxOthers /\ others' = others + 1 /\ nextId' = nextId + 1
  /\ UNCHANGED <<podVars, runVars, stored, colVars, readVars, faults>>

(***************************************************************************)
(* The reconciler ends the run: the row, then the log.  It may have timed  *)
(* out, so the pod may still be writing.                                   *)
(***************************************************************************)

\* The error of the row's update is ignored.
EndRun ==
  /\ col = "idle" /\ cr /\ col' = "list"
  /\ \/ row' = (IF row = "Running" THEN "Ended" ELSE row) /\ NoFault
     \/ row' = row /\ Fault
  /\ UNCHANGED <<podVars, cr, logVars, limit, taken, readVars>>

\* The pods of the Job, then the stream of each: no pod, no log.  Without
\* follow the stream holds what is written by now.
OpenLog ==
  /\ col = "list"
  /\ \/ /\ pod \in {"up", "ended"}
        /\ col' = "store" /\ limit' = written /\ NoFault
     \/ /\ pod \in {"absent", "gone"}
        /\ col' = "done" /\ UNCHANGED limit /\ NoFault
     \/ col' = "done" /\ UNCHANGED limit /\ Fault
  /\ UNCHANGED <<podVars, runVars, logVars, taken, readVars>>

AppendRunLog ==
  /\ col = "store" /\ taken < limit /\ Readable(taken)
  /\ row # "erased"   \* the foreign key
  /\ stored' = Append(stored, [id |-> nextId, entry |-> StoredEntry(taken + 1)])
  /\ nextId' = nextId + 1 /\ taken' = taken + 1
  /\ UNCHANGED <<podVars, runVars, others, col, limit, readVars, faults>>

AppendFails ==
  /\ col = "store" /\ taken < limit /\ Readable(taken)
  /\ IF row = "erased" THEN NoFault ELSE Fault
  /\ col' = "done"
  /\ UNCHANGED <<podVars, runVars, logVars, limit, taken, readVars>>

StreamRead ==
  /\ col = "store" /\ ~(taken < limit /\ Readable(taken))
  /\ col' = "done"
  /\ UNCHANGED <<podVars, runVars, logVars, limit, taken, readVars, faults>>

(***************************************************************************)
(* The request.                                                            *)
(***************************************************************************)

Request(f) ==
  /\ pc = "idle" /\ pc' = "decide" /\ follow' = f
  /\ UNCHANGED <<podVars, runVars, logVars, colVars, holds, got, lastID, empty, how, faults>>

\* shouldStreamFromPod: a row that is missing or cannot be read sends the
\* reader to the pod.
Decide ==
  /\ pc = "decide"
  /\ \/ pc' = (IF row = "Ended" THEN "stored" ELSE "find") /\ NoFault
     \/ pc' = "find" /\ Fault
  /\ UNCHANGED <<podVars, runVars, logVars, colVars, follow, holds, got, lastID, empty, how>>

\* findAgentPod, then the stream of the pod found.
FindPod ==
  /\ pc = "find"
  /\ \/ pc' = (IF cr /\ pod \in {"up", "ended"} THEN "open" ELSE "stored") /\ NoFault
     \/ pc' = "stored" /\ Fault
  /\ UNCHANGED <<podVars, runVars, logVars, colVars, follow, holds, got, lastID, empty, how>>

OpenPod ==
  /\ pc = "open"
  /\ \/ /\ pod \in {"up", "ended"} /\ NoFault
        /\ pc' = (IF follow THEN "live" ELSE "buffer") /\ holds' = written
     \/ /\ pod = "gone" /\ NoFault /\ pc' = "stored" /\ UNCHANGED holds
     \/ /\ Fault /\ pc' = "stored" /\ UNCHANGED holds
  /\ UNCHANGED <<podVars, runVars, logVars, colVars, follow, got, lastID, empty, how>>

Close(way) ==
  /\ pc' = "closed" /\ how' = way
  /\ UNCHANGED <<podVars, runVars, logVars, colVars, follow, holds, lastID, empty>>

\* Without follow: the buffer as it was, in one answer.
AnswerBuffer ==
  /\ pc = "buffer"
  /\ \E n \in 0..holds :
       /\ \A k \in 0..(n - 1) : Readable(k)
       /\ n = holds \/ ~Readable(n)
       /\ got' = [k \in 1..n |-> LiveEntry(k)]
  /\ Close("json") /\ NoFault

SendLive ==
  /\ pc = "live" /\ Len(got) < written /\ Readable(Len(got))
  /\ got' = Append(got, LiveEntry(Len(got) + 1))
  /\ UNCHANGED <<podVars, runVars, logVars, colVars, pc, follow, holds, lastID, empty, how, faults>>

\* The stream ended, whatever ended it: the pod, a line too long, the
\* connection to the kubelet.
LiveDone ==
  /\ pc = "live" /\ UNCHANGED got /\ Close("eof")
  /\ \/ pod = "ended" /\ Len(got) = written /\ NoFault
     \/ pod = "gone" /\ NoFault
     \/ Len(got) < written /\ ~Readable(Len(got)) /\ NoFault
     \/ Fault

Entries(list) == [k \in DOMAIN list |-> list[k].entry]

\* The rows with a greater id.  Ids grow (AUTOINCREMENT), so they are the
\* rows behind some n.
NewerThan(id) ==
  LET n == CHOOSE m \in 0..Len(stored) :
             \A k \in DOMAIN stored : stored[k].id > id <=> k > m
  IN SubSeq(stored, n + 1, Len(stored))

AnswerStored ==
  /\ pc = "stored" /\ ~follow
  /\ \/ got' = Entries(NewerThan(0)) /\ NoFault
     \/ got' = <<>> /\ Fault
  /\ Close("json")

StartPolling ==
  /\ pc = "stored" /\ follow /\ pc' = "poll"
  /\ UNCHANGED <<podVars, runVars, logVars, colVars, follow, holds, got, lastID, empty, how, faults>>

\* One tick: the rows after the last one sent,
PollAgain ==   \* mutant: lastID stays where it was
  LET new == NewerThan(lastID)
  IN /\ pc = "poll"
     /\ got' = got \o Entries(new)
     /\ pc' = (IF new = <<>> THEN "quiet" ELSE "news")
     /\ UNCHANGED <<podVars, runVars, logVars, colVars, follow, holds, lastID, empty, how, faults>>

Poll ==
  LET new == NewerThan(lastID)
  IN /\ pc = "poll"
     /\ got' = got \o Entries(new)
     /\ lastID' = IF new = <<>> THEN lastID ELSE new[Len(new)].id
     /\ pc' = (IF new = <<>> THEN "quiet" ELSE "news")
     /\ UNCHANGED <<podVars, runVars, logVars, colVars, follow, holds, empty, how, faults>>

PollFails ==
  /\ pc = "poll" /\ Fault /\ UNCHANGED got /\ Close("cut")

\* then the row: after two silent ticks in a row of an ended run, done.
CountForgotten ==   \* mutant: the count is a variable of the loop's body
  LET silent == IF pc = "quiet" THEN 1 ELSE 0
  IN /\ pc \in {"quiet", "news"} /\ row = "Ended" /\ NoFault
     /\ empty' = silent
     /\ IF silent >= 2 THEN pc' = "closed" /\ how' = "done"
                       ELSE pc' = "poll" /\ UNCHANGED how
     /\ UNCHANGED <<podVars, runVars, logVars, colVars, follow, holds, got, lastID>>

CheckRow ==
  LET silent == IF pc = "quiet" THEN empty + 1 ELSE 0
  IN /\ pc \in {"quiet", "news"} /\ row = "Ended" /\ NoFault
     /\ empty' = silent
     /\ IF silent >= 2 THEN pc' = "closed" /\ how' = "done"
                       ELSE pc' = "poll" /\ UNCHANGED how
     /\ UNCHANGED <<podVars, runVars, logVars, colVars, follow, holds, got, lastID>>

RowNotEnded ==
  /\ pc \in {"quiet", "news"} /\ pc' = "poll"
  /\ IF row # "Ended" THEN NoFault ELSE Fault
  /\ UNCHANGED <<podVars, runVars, logVars, colVars, follow, holds, got, lastID, empty, how>>

Disconnect ==
  /\ pc \notin {"idle", "closed"} /\ UNCHANGED got /\ Close("cut") /\ Fault

\* The controller: collector and request go, and no later reconcile looks
\* at a run that has ended.
Crash ==
  /\ Fault
  /\ col' = (IF col = "idle" THEN "idle" ELSE "done")
  /\ IF pc \in {"idle", "closed"} THEN UNCHANGED <<pc, how>> ELSE pc' = "closed" /\ how' = "cut"
  /\ UNCHANGED <<podVars, runVars, logVars, limit, taken, follow, holds, got, lastID, empty>>

Collector == OpenLog \/ AppendRunLog \/ AppendFails \/ StreamRead

Reader ==
  \/ Decide \/ FindPod \/ OpenPod \/ AnswerBuffer \/ SendLive \/ LiveDone
  \/ AnswerStored \/ StartPolling \/ Poll \/ PollFails \/ CheckRow \/ RowNotEnded

Next ==
  \/ PodStarts \/ PodWrites \/ PodEnds \/ PodGone
  \/ DeleteCR \/ EraseRun \/ OtherAppends
  \/ EndRun \/ Collector
  \/ \E f \in BOOLEAN : Request(f)
  \/ Reader \/ Disconnect \/ Crash

Spec == Init /\ [][Next]_vars

\* The collector and the handler run on; pods, users and clients owe nothing.
FairSpec == Spec /\ WF_vars(Collector) /\ WF_vars(Reader)

(***************************************************************************)
(* Properties.                                                             *)
(***************************************************************************)

Entry == [line : Nat, message : {"own", "line"}, data : {"own", "none"},
          type : {"own", "info"}, time : {"own", "now"}]

\* Every variable has its type.
TypeOK ==
  /\ pod \in {"absent", "up", "ended", "gone"} /\ written \in 0..Len(Lines)
  /\ cr \in BOOLEAN /\ row \in {"Running", "Ended", "erased"}
  /\ stored \in Seq([id : Nat, entry : Entry]) /\ nextId \in Nat /\ others \in 0..MaxOthers
  /\ col \in {"idle", "list", "store", "done"} /\ limit \in 0..Len(Lines) /\ taken \in 0..Len(Lines)
  /\ pc \in {"idle", "decide", "find", "open", "live", "buffer", "stored", "poll", "quiet",
             "news", "closed"}
  /\ follow \in BOOLEAN /\ holds \in 0..Len(Lines)
  /\ got \in Seq(Entry) /\ lastID \in Nat /\ empty \in Nat
  /\ how \in {"none", "json", "eof", "done", "cut"} /\ faults \in 0..MaxFaults

\* However a reader gets the log - live, at once, or poll by poll while it
\* is being stored among other runs' rows - its k-th entry is the k-th line
\* the pod wrote, and says what the stored one says.
SameLog ==
  /\ \A k \in DOMAIN got : got[k].line = k
  /\ \A k \in DOMAIN stored : stored[k].entry.line = k
  /\ \A k \in DOMAIN got \cap DOMAIN stored : got[k] = stored[k].entry

\* A reader that follows is let go: by the end of the pod's log, or, once
\* the row says the run has ended, by "done"; unless the row is erased.
FollowerReleased ==
  \/ pc = "live" /\ pod \in {"ended", "gone"}
  \/ pc \in {"stored", "poll", "quiet", "news"} /\ row = "Ended"
  ~> pc = "closed" \/ row = "erased"
=============================================================================
