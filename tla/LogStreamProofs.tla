---------------------------- MODULE LogStreamProofs ----------------------------
(***************************************************************************)
(* Proofs about LogStream, for every log and every number of other rows    *)
(* and failures: all ways to read a log give the same one.                 *)
(***************************************************************************)
EXTENDS LogStream, TLAPS

\* The two parsers agree on every line.
LEMMA SameEntry == ASSUME NEW k PROVE LiveEntry(k) = StoredEntry(k)
BY DEF LiveEntry, StoredEntry

Parsed == {StoredEntry(k) : k \in Nat}
StoredRow == [id : Nat, entry : Parsed]
Polling == {"poll", "quiet", "news"}
Before  == {"idle", "decide", "find", "open", "buffer", "stored"}

\* The rows of the run: the lines taken so far, by growing ids, or none once
\* it is erased.
TableInv ==
  /\ stored \in Seq(StoredRow)
  /\ nextId \in Nat \ {0} /\ taken \in Nat
  /\ row = "erased" => stored = <<>>
  /\ row # "erased" => Len(stored) = taken
  /\ \A k \in 1..Len(stored) : stored[k].entry = StoredEntry(k)
  /\ \A k \in 1..Len(stored) : stored[k].id > 0 /\ stored[k].id < nextId
  /\ \A j, k \in 1..Len(stored) : j < k => stored[j].id < stored[k].id

\* What a reader has: the first entries, and, while it polls, lastID is the
\* id of the last of them.
ReaderInv ==
  /\ got \in Seq(Parsed) /\ lastID \in Nat /\ holds \in Nat /\ written \in Nat
  /\ \A k \in 1..Len(got) : got[k] = StoredEntry(k)
  /\ pc \in Before => got = <<>> /\ lastID = 0
  /\ pc \in Polling /\ row # "erased" =>
       /\ Len(got) <= Len(stored)
       /\ got = <<>> => lastID = 0
       /\ got # <<>> => lastID = stored[Len(got)].id

LogInv == TableInv /\ ReaderInv

\* A read of the table gives what the reader has not got.
LEMMA NewerRows ==
  ASSUME TableInv, NEW n \in 0..Len(stored), NEW id \in Nat,
         n = 0 => id = 0, n > 0 => id = stored[n].id
  PROVE  NewerThan(id) = SubSeq(stored, n + 1, Len(stored))
<1>1. \A k \in DOMAIN stored : stored[k].id > id <=> k > n
  <2> SUFFICES ASSUME NEW k \in 1..Len(stored) PROVE stored[k].id > id <=> k > n
    BY DEF TableInv
  <2>0. stored[k] \in StoredRow BY DEF TableInv
  <2>1. stored[k].id \in Nat /\ stored[k].id > 0 BY <2>0 DEF TableInv, StoredRow
  <2>2. CASE n = 0 BY <2>1, <2>2
  <2>3. CASE n > 0
    <3>1. n \in 1..Len(stored) /\ stored[n] \in StoredRow BY <2>3 DEF TableInv
    <3>2. k > n => stored[n].id < stored[k].id BY <3>1 DEF TableInv
    <3>3. k < n => stored[k].id < stored[n].id BY <3>1 DEF TableInv
    <3> QED BY <2>1, <2>3, <3>1, <3>2, <3>3 DEF StoredRow
  <2> QED BY <2>2, <2>3
<1>2. \A m \in 0..Len(stored) :
        (\A k \in DOMAIN stored : stored[k].id > id <=> k > m) => m = n
  <2> SUFFICES ASSUME NEW m \in 0..Len(stored), m # n,
                      \A k \in DOMAIN stored : stored[k].id > id <=> k > m
               PROVE  FALSE
    OBVIOUS
  <2>1. \A k \in 1..Len(stored) : k > m <=> k > n BY <1>1 DEF TableInv
  <2>2. Len(stored) \in Nat BY DEF TableInv
  <2>3. CASE m < n BY <2>1, <2>2, <2>3
  <2>4. CASE n < m BY <2>1, <2>2, <2>4
  <2> QED BY <2>2, <2>3, <2>4
<1>3. (CHOOSE m \in 0..Len(stored) : \A k \in DOMAIN stored : stored[k].id > id <=> k > m) = n
  BY <1>1, <1>2
<1> QED BY <1>3 DEF NewerThan

LEMMA LogInit == Init => LogInv
BY DEF Init, LogInv, TableInv, ReaderInv, Before, Polling

\* The reader goes from one place to the next.
LEMMA ReaderMoves ==
  ASSUME LogInv, UNCHANGED <<stored, nextId, taken, row, got, lastID>>,
         holds' \in Nat, written' \in Nat,
         pc' \in Before => pc \in Before,
         pc' \in Polling => pc \in Polling \cup {"stored"}
  PROVE  LogInv'
<1>1. TableInv' BY DEF LogInv, TableInv
<1>2. pc = "stored" => got = <<>> /\ lastID = 0 BY DEF LogInv, ReaderInv, Before
<1>3. Len(stored) \in Nat /\ Len(<<>>) = 0 BY DEF LogInv, TableInv
<1>4. ReaderInv' BY <1>2, <1>3 DEF LogInv, ReaderInv
<1> QED BY <1>1, <1>4 DEF LogInv

\* The run ends, is erased, or other runs' rows take ids.
LEMMA TableMoves ==
  ASSUME LogInv,
         \/ EndRun \/ EraseRun \/ OtherAppends
  PROVE  LogInv'
<1> USE DEF LogInv
<1>1. UNCHANGED readVars /\ UNCHANGED written /\ UNCHANGED taken
  BY DEF EndRun, EraseRun, OtherAppends, podVars, colVars
<1>2. CASE EndRun
  <2>1. UNCHANGED <<stored, nextId>> /\ (row' = "erased" <=> row = "erased")
    BY <1>2 DEF EndRun, logVars
  <2>2. TableInv' BY <1>1, <2>1 DEF TableInv
  <2> QED BY <1>1, <2>1, <2>2 DEF ReaderInv, readVars
<1>3. CASE EraseRun
  <2>1. row' = "erased" /\ stored' = <<>> /\ UNCHANGED nextId BY <1>3 DEF EraseRun
  <2>2. stored' \in Seq(StoredRow) /\ Len(stored') = 0 BY <2>1
  <2>3. TableInv' BY <1>1, <2>1, <2>2 DEF TableInv
  <2> QED BY <1>1, <2>1, <2>3 DEF ReaderInv, readVars
<1>4. CASE OtherAppends
  <2>1. nextId' = nextId + 1 /\ UNCHANGED <<stored, row>> BY <1>4 DEF OtherAppends, runVars
  <2>2. \A k \in 1..Len(stored) : stored[k].id > 0 /\ stored[k].id < nextId + 1
    <3> TAKE k \in 1..Len(stored)
    <3>1. stored[k] \in StoredRow BY DEF TableInv
    <3>2. stored[k].id \in Nat BY <3>1 DEF StoredRow
    <3> QED BY <3>2 DEF TableInv
  <2>3. TableInv' BY <1>1, <2>1, <2>2 DEF TableInv
  <2> QED BY <1>1, <2>1, <2>3 DEF ReaderInv, readVars
<1> QED BY <1>2, <1>3, <1>4

LEMMA AppendKeeps == ASSUME LogInv, AppendRunLog PROVE LogInv'
<1> USE DEF LogInv
<1> DEFINE new == [id |-> nextId, entry |-> StoredEntry(taken + 1)]
<1>1. /\ row # "erased" /\ stored' = Append(stored, new)
      /\ nextId' = nextId + 1 /\ taken' = taken + 1
      /\ UNCHANGED <<written, row, got, lastID, pc, holds>>
  BY DEF AppendRunLog, podVars, runVars, readVars
<1>2. taken + 1 \in Nat /\ nextId \in Nat BY DEF TableInv
<1>3. new \in StoredRow BY <1>2 DEF StoredRow, Parsed
<1>4. Len(stored) = taken /\ stored \in Seq(StoredRow) BY <1>1 DEF TableInv
<1> HIDE DEF new
<1>5. /\ stored' \in Seq(StoredRow) /\ Len(stored') = taken + 1
      /\ \A k \in 1..taken : stored'[k] = stored[k]
      /\ stored'[taken + 1] = new
  BY <1>1, <1>2, <1>3, <1>4
<1>6. \A k \in 1..(taken + 1) : k \in 1..taken \/ k = taken + 1 BY DEF TableInv
<1>7. \A k \in 1..taken : stored[k].id \in Nat
  <2> TAKE k \in 1..taken
  <2>1. stored[k] \in StoredRow BY <1>4
  <2> QED BY <2>1 DEF StoredRow
<1>8. new.id = nextId /\ new.entry = StoredEntry(taken + 1) BY DEF new
<1>9. \A k \in 1..taken : /\ stored[k].entry = StoredEntry(k)
                          /\ stored[k].id > 0 /\ stored[k].id < nextId
  BY <1>4 DEF TableInv
<1>10. TableInv'
  <2>1. \A k \in 1..Len(stored') : stored'[k].entry = StoredEntry(k)
    BY <1>5, <1>6, <1>8, <1>9
  <2>2. \A k \in 1..Len(stored') : stored'[k].id > 0 /\ stored'[k].id < nextId'
    BY <1>1, <1>2, <1>5, <1>6, <1>7, <1>8, <1>9 DEF TableInv
  <2>3. \A j, k \in 1..Len(stored') : j < k => stored'[j].id < stored'[k].id
    <3> SUFFICES ASSUME NEW j \in 1..(taken + 1), NEW k \in 1..(taken + 1), j < k
                 PROVE  stored'[j].id < stored'[k].id
      BY <1>5
    <3>1. j \in 1..taken BY <1>2 DEF TableInv
    <3>2. CASE k = taken + 1 BY <3>1, <3>2, <1>5, <1>8, <1>9
    <3>3. CASE k \in 1..taken BY <3>1, <3>3, <1>4, <1>5 DEF TableInv
    <3> QED BY <3>2, <3>3, <1>6
  <2>4. nextId' \in Nat \ {0} /\ taken' \in Nat BY <1>1, <1>2
  <2> QED BY <1>1, <1>5, <2>1, <2>2, <2>3, <2>4 DEF TableInv
<1>11. ReaderInv'
  <2> SUFFICES ASSUME pc \in Polling
               PROVE  /\ Len(got) <= Len(stored')
                      /\ got # <<>> => lastID = stored'[Len(got)].id
    BY <1>1 DEF ReaderInv
  <2>1. Len(got) <= taken /\ Len(got) \in Nat BY <1>1, <1>4 DEF ReaderInv
  <2>2. got # <<>> => Len(got) \in 1..taken BY <2>1, <1>2 DEF ReaderInv
  <2> QED BY <2>1, <2>2, <1>1, <1>2, <1>5 DEF ReaderInv
<1> QED BY <1>10, <1>11

\* One tick sends what has been stored since.
LEMMA PollKeeps == ASSUME LogInv, Poll PROVE LogInv'
<1> USE DEF LogInv
<1> DEFINE new == NewerThan(lastID)
           n == Len(got)
<1>1. /\ pc = "poll" /\ got' = got \o Entries(new)
      /\ lastID' = (IF new = <<>> THEN lastID ELSE new[Len(new)].id)
      /\ pc' = (IF new = <<>> THEN "quiet" ELSE "news")
      /\ UNCHANGED <<written, row, stored, nextId, taken, holds>>
  BY DEF Poll, podVars, runVars, logVars, colVars
<1>2. TableInv' BY <1>1 DEF TableInv
<1>3. stored \in Seq(StoredRow) /\ got \in Seq(Parsed) BY DEF TableInv, ReaderInv
<1>4. CASE row = "erased"
  <2>1. stored = <<>> BY <1>4 DEF TableInv
  <2>2. new = <<>> BY <2>1 DEF NewerThan
  <2>3. Entries(new) = <<>> BY <2>2 DEF Entries
  <2>4. got' = got BY <2>3, <1>1, <1>3
  <2> QED BY <2>2, <2>4, <1>1, <1>2, <1>4 DEF ReaderInv, Before
<1>5. CASE row # "erased"
  <2>1. n \in 0..Len(stored) /\ (n = 0 => lastID = 0) /\ (n > 0 => lastID = stored[n].id)
    BY <1>1, <1>3, <1>5 DEF ReaderInv, Polling
  <2>2. new = SubSeq(stored, n + 1, Len(stored)) BY <2>1, NewerRows DEF ReaderInv
  <2>3. Len(new) = Len(stored) - n /\ \A k \in 1..Len(new) : new[k] = stored[n + k]
    BY <2>1, <2>2, <1>3
  <2> HIDE DEF new
  <2>4. new \in Seq(StoredRow) BY <2>1, <2>2, <1>3
  <2>5. /\ Entries(new) \in Seq(Parsed) /\ Len(Entries(new)) = Len(new)
        /\ \A k \in 1..Len(new) : Entries(new)[k] = new[k].entry
    <3>1. \A k \in 1..Len(new) : new[k] \in StoredRow BY <2>4
    <3>2. \A k \in 1..Len(new) : new[k].entry \in Parsed BY <3>1 DEF StoredRow
    <3> QED BY <2>4, <3>2 DEF Entries
  <2>6. /\ got' \in Seq(Parsed) /\ Len(got') = Len(stored)
        /\ \A k \in 1..n : got'[k] = got[k]
        /\ \A k \in (n + 1)..Len(stored) : got'[k] = Entries(new)[k - n]
    <3> DEFINE e == Entries(new)
    <3>1. e \in Seq(Parsed) /\ Len(e) = Len(stored) - n BY <2>3, <2>5
    <3>2. got' = got \o e BY <1>1
    <3> HIDE DEF e
    <3>3. Len(stored) \in Nat /\ n \in Nat /\ n <= Len(stored) BY <1>3, <2>1
    <3>4. e = Entries(new) BY DEF e
    <3>5. /\ got' \in Seq(Parsed) /\ Len(got') = n + Len(e)
          /\ \A k \in 1..(n + Len(e)) : got'[k] = IF k <= n THEN got[k] ELSE e[k - n]
      BY <3>1, <3>2, <1>3
    <3> QED BY <3>1, <3>3, <3>4, <3>5
  <2>7. \A k \in 1..Len(got') : got'[k] = StoredEntry(k)
    <3> TAKE k \in 1..Len(got')
    <3>1. CASE k <= n BY <3>1, <2>1, <2>6 DEF ReaderInv
    <3>2. CASE k > n
      <4>1. k - n \in 1..Len(new) /\ n + (k - n) = k BY <3>2, <2>1, <2>3, <2>6
      <4>2. k \in (n + 1)..Len(stored) BY <3>2, <2>1, <2>6
      <4>3. got'[k] = Entries(new)[k - n] BY <2>6, <4>2
      <4>4. Entries(new)[k - n] = new[k - n].entry BY <2>5, <4>1
      <4>5. new[k - n] = stored[k] BY <2>3, <4>1
      <4>6. got'[k] = stored[k].entry BY <4>3, <4>4, <4>5
      <4> QED BY <4>6, <2>6 DEF TableInv
    <3> QED BY <3>1, <3>2, <2>1
  <2>8. CASE new = <<>>
    <3>1. n = Len(stored) /\ lastID' = lastID BY <2>8, <2>1, <2>3, <1>1
    <3>2. Len(got') = Len(got) /\ got \in Seq(Parsed) /\ got' \in Seq(Parsed)
      BY <3>1, <2>6, <1>3
    <3>3. got' = <<>> <=> got = <<>>
      <4>1. got = <<>> <=> Len(got) = 0 BY <3>2
      <4>2. got' = <<>> <=> Len(got') = 0 BY <3>2
      <4> QED BY <4>1, <4>2, <3>2
    <3> QED BY <3>1, <3>3, <2>1, <2>6, <2>7, <1>1, <1>2 DEF ReaderInv, Polling, Before
  <2>9. CASE new # <<>>
    <3>1. Len(new) > 0 /\ Len(new) \in Nat BY <2>9, <2>4
    <3>2. new[Len(new)] = stored[Len(stored)] BY <3>1, <2>1, <2>3
    <3>3. lastID' = stored[Len(got')].id BY <3>2, <2>9, <2>6, <1>1
    <3>4. stored[Len(stored)] \in StoredRow BY <3>1, <2>1, <2>3, <1>3
    <3>5. lastID' \in Nat BY <3>3, <3>4, <2>6 DEF StoredRow
    <3>6. got' # <<>> BY <3>1, <2>1, <2>3, <2>6
    <3> QED BY <3>3, <3>5, <3>6, <2>6, <2>7, <2>9, <1>1, <1>2 DEF ReaderInv, Before
  <2> QED BY <2>8, <2>9
<1> QED BY <1>4, <1>5

\* The steps that end an answer, and the ones that send a live line.
LEMMA AnswersKeep ==
  ASSUME LogInv, \/ AnswerBuffer \/ AnswerStored \/ SendLive
  PROVE  LogInv'
<1> USE DEF LogInv
<1>1. UNCHANGED <<written, row, stored, nextId, taken, lastID, holds>>
  BY DEF AnswerBuffer, AnswerStored, SendLive, Close, podVars, runVars, logVars, colVars
<1>2. TableInv' BY <1>1 DEF TableInv
<1>3. pc' \notin Before \cup Polling
  BY DEF AnswerBuffer, AnswerStored, SendLive, Close, Before, Polling
<1>4. got' \in Seq(Parsed) /\ \A k \in 1..Len(got') : got'[k] = StoredEntry(k)
  <2>1. CASE AnswerBuffer
    <3>1. PICK n \in 0..holds : got' = [k \in 1..n |-> LiveEntry(k)] BY <2>1 DEF AnswerBuffer
    <3>2. n \in Nat BY DEF ReaderInv
    <3>3. got' = [k \in 1..n |-> StoredEntry(k)] BY <3>1, SameEntry
    <3>4. \A k \in 1..n : StoredEntry(k) \in Parsed BY DEF Parsed
    <3> QED BY <3>2, <3>3, <3>4
  <2>2. CASE AnswerStored
    <3>1. CASE got' = <<>> BY <3>1
    <3>2. CASE got' = Entries(NewerThan(0))
      <4>1. NewerThan(0) = SubSeq(stored, 1, Len(stored)) BY NewerRows DEF TableInv
      <4>2. /\ Len(NewerThan(0)) = Len(stored) /\ NewerThan(0) \in Seq(StoredRow)
            /\ \A k \in 1..Len(stored) : NewerThan(0)[k] = stored[k]
        BY <4>1 DEF TableInv
      <4>3. got' = [k \in 1..Len(stored) |-> stored[k].entry] BY <3>2, <4>2 DEF Entries
      <4>4. \A k \in 1..Len(stored) : stored[k].entry = StoredEntry(k) /\ StoredEntry(k) \in Parsed
        BY DEF TableInv, Parsed
      <4>5. Len(stored) \in Nat BY DEF TableInv
      <4> QED BY <4>3, <4>4, <4>5
    <3> QED BY <2>2, <3>1, <3>2 DEF AnswerStored
  <2>3. CASE SendLive
    <3>1. got' = Append(got, StoredEntry(Len(got) + 1)) BY <2>3, SameEntry DEF SendLive
    <3>2. Len(got) \in Nat /\ got \in Seq(Parsed) BY DEF ReaderInv
    <3>3. StoredEntry(Len(got) + 1) \in Parsed BY <3>2 DEF Parsed
    <3> QED BY <3>1, <3>2, <3>3 DEF ReaderInv
  <2> QED BY <2>1, <2>2, <2>3
<1> QED BY <1>1, <1>2, <1>3, <1>4 DEF ReaderInv

LEMMA LogStep == LogInv /\ [Next]_vars => LogInv'
<1> SUFFICES ASSUME LogInv, [Next]_vars PROVE LogInv' OBVIOUS
<1>0. holds \in Nat /\ written \in Nat BY DEF LogInv, ReaderInv
<1>1. CASE PodStarts \/ PodEnds \/ PodGone \/ PodWrites \/ DeleteCR
  <2>1. /\ UNCHANGED <<stored, nextId, taken, row, got, lastID, holds, pc>>
        /\ written' \in Nat
    BY <1>0, <1>1 DEF PodStarts, PodEnds, PodGone, PodStep, PodWrites, DeleteCR, podVars, runVars,
                      logVars, colVars, readVars
  <2> QED BY <2>1, <1>0, ReaderMoves
<1>2. CASE EraseRun \/ OtherAppends \/ EndRun BY <1>2, TableMoves
<1>3. CASE OpenLog \/ AppendFails \/ StreamRead
  <2>1. UNCHANGED <<stored, nextId, taken, row, got, lastID, holds, pc, written>>
    BY <1>3 DEF OpenLog, AppendFails, StreamRead, podVars, runVars, logVars, readVars
  <2> QED BY <2>1, <1>0, ReaderMoves
<1>4. CASE AppendRunLog BY <1>4, AppendKeeps
<1>5. CASE (\E f \in BOOLEAN : Request(f)) \/ Decide \/ FindPod \/ StartPolling \/ OpenPod
  <2>1. /\ UNCHANGED <<stored, nextId, taken, row, got, lastID, written>>
        /\ holds' \in {holds, written} /\ pc \in Before
        /\ pc' \in Polling => pc = "stored"
    BY <1>5 DEF Request, Decide, FindPod, StartPolling, OpenPod, podVars, runVars, logVars,
                colVars, Before, Polling
  <2> QED BY <2>1, <1>0, ReaderMoves
<1>6. CASE LiveDone \/ PollFails \/ CheckRow \/ RowNotEnded \/ Disconnect
  <2>1. /\ UNCHANGED <<stored, nextId, taken, row, got, lastID, holds, written>>
        /\ pc' \notin Before
        /\ pc' \in Polling => pc \in Polling
    BY <1>6 DEF LiveDone, PollFails, CheckRow, RowNotEnded, Disconnect, Close, podVars, runVars,
                logVars, colVars, Before, Polling
  <2> QED BY <2>1, <1>0, ReaderMoves
<1>7. CASE Poll BY <1>7, PollKeeps
<1>8. CASE AnswerBuffer \/ AnswerStored \/ SendLive BY <1>8, AnswersKeep
<1>9. CASE Crash
  <2>1. /\ UNCHANGED <<stored, nextId, taken, row, got, lastID, holds, written>>
        /\ pc' \in {pc, "closed"}
    BY <1>9 DEF Crash, podVars, runVars, logVars
  <2> QED BY <2>1, <1>0, ReaderMoves DEF Before, Polling
<1>10. CASE UNCHANGED vars
  <2>1. UNCHANGED <<stored, nextId, taken, row, got, lastID, holds, written, pc>>
    BY <1>10 DEF vars, podVars, runVars, logVars, colVars, readVars
  <2> QED BY <2>1, <1>0, ReaderMoves
<1> QED BY <1>1, <1>2, <1>3, <1>4, <1>5, <1>6, <1>7, <1>8, <1>9, <1>10 DEF Next, Collector, Reader

\* For every log, whatever else is written, fails or is erased meanwhile:
\* live, at once and poll by poll are the same log (SameLog).
THEOREM OneLog == Spec => []SameLog
<1>1. LogInv => SameLog
  <2> SUFFICES ASSUME LogInv PROVE SameLog OBVIOUS
  <2>1. DOMAIN got = 1..Len(got) /\ DOMAIN stored = 1..Len(stored)
    BY DEF LogInv, TableInv, ReaderInv
  <2>2. \A k \in DOMAIN got : got[k] = StoredEntry(k) BY <2>1 DEF LogInv, ReaderInv
  <2>3. \A k \in DOMAIN stored : stored[k].entry = StoredEntry(k) BY <2>1 DEF LogInv, TableInv
  <2>4. \A k : StoredEntry(k).line = k BY DEF StoredEntry
  <2> QED BY <2>2, <2>3, <2>4 DEF SameLog
<1> QED BY <1>1, LogInit, LogStep, PTL DEF Spec

(***************************************************************************)
(* Types.                                                                  *)
(***************************************************************************)

\* What TypeOK says beyond LogInv.
PlacesOK ==
  /\ pod \in {"absent", "up", "ended", "gone"} /\ written \in 0..Len(Lines)
  /\ cr \in BOOLEAN /\ row \in {"Running", "Ended", "erased"} /\ others \in 0..MaxOthers
  /\ col \in {"idle", "list", "store", "done"} /\ limit \in 0..Len(Lines) /\ taken \in 0..Len(Lines)
  /\ pc \in Before \cup Polling \cup {"live", "closed"}
  /\ follow \in BOOLEAN /\ holds \in 0..Len(Lines) /\ empty \in Nat
  /\ how \in {"none", "json", "eof", "done", "cut"} /\ faults \in 0..MaxFaults

\* A fault is only counted below the bound.
LEMMA FaultCounted ==
  ASSUME faults \in 0..MaxFaults, Fault \/ NoFault PROVE faults' \in 0..MaxFaults
BY LogBoundAssumption DEF Fault, NoFault

LEMMA PlacesStep == ASSUME PlacesOK, [Next]_vars PROVE PlacesOK'
<1>0. Len(Lines) \in Nat /\ MaxOthers \in Nat BY LinesAssumption, LogBoundAssumption
<1>1. CASE PodStarts \/ PodEnds \/ PodGone \/ PodWrites
  BY <1>0, <1>1, SMTT(30) DEF PodStarts, PodEnds, PodGone, PodStep, PodWrites, runVars, logVars, colVars,
                    readVars, PlacesOK
<1>8. CASE DeleteCR \/ EraseRun \/ OtherAppends
  <2>1. cr' \in BOOLEAN BY <1>8, Zenon DEF DeleteCR, EraseRun, OtherAppends, runVars, PlacesOK
  <2> QED BY <1>0, <1>8, <2>1, SMTT(30) DEF DeleteCR, EraseRun, OtherAppends, podVars, runVars, logVars, colVars, readVars,
             PlacesOK
<1>2. CASE EndRun \/ OpenLog \/ AppendRunLog \/ AppendFails \/ StreamRead
  <2>1. faults' \in 0..MaxFaults
    BY <1>2, FaultCounted DEF EndRun, OpenLog, AppendRunLog, AppendFails, StreamRead, NoFault, PlacesOK
  <2> QED BY <1>0, <1>2, <2>1, SMTT(30) DEF EndRun, OpenLog, AppendRunLog, AppendFails, StreamRead, podVars,
             runVars, logVars, readVars, PlacesOK
<1>3. CASE (\E f \in BOOLEAN : Request(f)) \/ Decide \/ FindPod \/ OpenPod \/ StartPolling
  <2>1. faults' \in 0..MaxFaults
    BY <1>3, FaultCounted DEF Request, Decide, FindPod, OpenPod, StartPolling, NoFault, PlacesOK
  <2> QED BY <1>0, <1>3, <2>1, SMTT(30) DEF Request, Decide, FindPod, OpenPod, StartPolling, podVars,
             runVars, logVars, colVars, PlacesOK, Before, Polling
<1>4. CASE AnswerBuffer \/ SendLive \/ LiveDone \/ AnswerStored \/ PollFails \/ Disconnect
  <2>1. faults' \in 0..MaxFaults
    BY <1>4, FaultCounted DEF AnswerBuffer, SendLive, LiveDone, AnswerStored, PollFails, Disconnect,
         NoFault, PlacesOK
  <2> QED BY <1>4, <2>1, SMTT(30) DEF AnswerBuffer, SendLive, LiveDone, AnswerStored, PollFails, Disconnect,
             Close, podVars, runVars, logVars, colVars, PlacesOK
<1>5. CASE Poll \/ CheckRow \/ RowNotEnded
  <2>1. faults' \in 0..MaxFaults
    BY <1>5, FaultCounted DEF Poll, CheckRow, RowNotEnded, NoFault, PlacesOK
  <2> QED BY <1>5, <2>1, SMTT(30) DEF Poll, CheckRow, RowNotEnded, podVars, runVars, logVars, colVars,
             PlacesOK, Polling
<1>6. CASE Crash
  <2>1. faults' \in 0..MaxFaults BY <1>6, FaultCounted DEF Crash, PlacesOK
  <2> QED BY <1>6, <2>1 DEF Crash, podVars, runVars, logVars, PlacesOK
<1>7. CASE UNCHANGED vars
  BY <1>7 DEF vars, podVars, runVars, logVars, colVars, readVars, PlacesOK
<1> QED BY <1>1, <1>2, <1>3, <1>4, <1>5, <1>6, <1>7, <1>8 DEF Next, Collector, Reader

LEMMA LargerSeq ==
  ASSUME NEW S, NEW T, S \subseteq T, NEW s \in Seq(S) PROVE s \in Seq(T)
<1>1. Len(s) \in Nat /\ s \in [1..Len(s) -> S] OBVIOUS
<1>2. s \in [1..Len(s) -> T] BY <1>1
<1> QED BY <1>1, <1>2

\* Every variable has its type (TypeOK): no reader and no collector gets
\* past the log's end, and an entry is one the API can send.
THEOREM LogTypeCorrect == Spec => []TypeOK
<1>1. Init => PlacesOK
  <2>1. Len(Lines) \in Nat /\ MaxOthers \in Nat /\ MaxFaults \in Nat
    BY LinesAssumption, LogBoundAssumption
  <2>2. Init => cr \in BOOLEAN /\ follow \in BOOLEAN BY Zenon DEF Init
  <2> QED BY <2>1, <2>2 DEF Init, PlacesOK, Before, Polling
<1>2. LogInv /\ PlacesOK => TypeOK
  <2> SUFFICES ASSUME LogInv, PlacesOK PROVE TypeOK OBVIOUS
  <2>1. Parsed \subseteq Entry BY DEF Parsed, StoredEntry, Entry
  <2>2. StoredRow \subseteq [id : Nat, entry : Entry] BY <2>1 DEF StoredRow
  <2>3. stored \in Seq(StoredRow) /\ got \in Seq(Parsed) BY DEF LogInv, TableInv, ReaderInv
  <2>4. stored \in Seq([id : Nat, entry : Entry]) BY <2>2, <2>3, LargerSeq
  <2>5. got \in Seq(Entry) BY <2>1, <2>3, LargerSeq
  <2> QED BY <2>4, <2>5 DEF LogInv, TableInv, ReaderInv, PlacesOK, TypeOK, Before, Polling
<1> QED BY <1>1, <1>2, LogInit, LogStep, PlacesStep, PTL DEF Spec
=============================================================================
