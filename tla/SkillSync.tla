------------------------------- MODULE SkillSync -------------------------------
(***************************************************************************)
(* The table of skills, kept by three writers: the start-up load of the    *)
(* built-in files (main.go), the reconciler of DiagnosticSkills, and the   *)
(* users who apply, post and delete those.  The table is keyed by a name;  *)
(* the CRs have a namespace too.                                           *)
(***************************************************************************)
EXTENDS Naturals, Sequences

CONSTANTS
  CRs, Names, NameOf,  \* keys of DiagnosticSkills, and the name in each
  Files,       \* the .md files: a sequence of [front, name]: is there a front
               \* matter, and the name it gives
  Specs,       \* what a user may write: [enabled, priority]
  None,        \* no CR, no row, no name, no priority
  MaxEdits, MaxCrashes, MaxFaults  \* bounds

Spec0 == [enabled : BOOLEAN, priority : Nat \cup {None}]
File  == [front : BOOLEAN, name : Names \cup {None}]
Row   == [source : {"cr", "builtin"}, enabled : BOOLEAN, priority : Nat]

ASSUME KeysAssumption == NameOf \in [CRs -> Names] /\ None \notin CRs \cup Names \cup Nat
ASSUME FilesAssumption == Files \in Seq(File)
ASSUME SpecsAssumption == Specs \subseteq Spec0 /\ None \notin Spec0 \cup Row
ASSUME SkillBoundAssumption == MaxEdits \in Nat /\ MaxCrashes \in Nat /\ MaxFaults \in Nat

VARIABLES
  cr, cache,   \* the API server's CRs and the informer's
  news,        \* CRs of whose last changes the informer has not heard
  rows,        \* the skills table
  queue,       \* keys to reconcile
  pc, at,      \* the process: down, loading file "at", or its one worker's place
  req, seen,   \* the worker's request, and the row it is about to write
  orphans,     \* history: names whose row outlived its CR: it was deleted while
               \* the controller was down, or the clean-up failed
  erased,      \* history: names whose CR's row was erased since the start
  edits, crashes, faults

memory  == <<cache, queue, pc, at, req, seen>>
bounds  == <<edits, crashes, faults>>
vars == <<cr, news, rows, memory, orphans, erased, bounds>>

Of(n) == {k \in CRs : NameOf[k] = n}
Live(n) == {k \in Of(n) : cr[k] # None}
FromCR(n) == rows[n] # None /\ rows[n].source = "cr"
Up == pc \notin {"down", "load"}

Fault   == faults < MaxFaults /\ faults' = faults + 1 /\ UNCHANGED <<edits, crashes>>
NoFault == UNCHANGED bounds

Init ==
  /\ cr = [k \in CRs |-> None] /\ cache = [k \in CRs |-> None]
  /\ news = {} /\ rows = [n \in Names |-> None]
  /\ queue = {} /\ pc = "down" /\ at = 1 /\ req = None /\ seen = None
  /\ orphans = {} /\ erased = {}
  /\ edits = 0 /\ crashes = 0 /\ faults = 0

(***************************************************************************)
(* The users.                                                              *)
(***************************************************************************)
Written(k, s) ==
  /\ edits < MaxEdits /\ edits' = edits + 1
  /\ cr[k] # s /\ cr' = [cr EXCEPT ![k] = s] /\ news' = news \cup {k}
  /\ UNCHANGED <<rows, memory, orphans, erased, crashes, faults>>

Apply(k, s) == Written(k, s)

\* POST /api/skills only creates, and takes priority 0 for none.
Post(k, s) ==
  /\ Up /\ cr[k] = None
  /\ Written(k, [s EXCEPT !.priority = IF s.priority \in {0, None} THEN 100 ELSE s.priority])

DeleteCR(k) == Written(k, None)

(***************************************************************************)
(* Start-up: the files, one row each, then the manager and its caches.     *)
(***************************************************************************)
parseSkillMD(f) ==
  IF f.front /\ f.name # None
  THEN [source |-> "builtin", enabled |-> TRUE, priority |-> 100]
  ELSE None

Restart ==
  /\ pc = "down"
  /\ pc' = "load" /\ at' = 1 /\ erased' = {}
  /\ UNCHANGED <<cr, news, rows, cache, queue, req, seen, orphans>> /\ NoFault

UpsertSkill(n, row) ==
  /\ rows' = [rows EXCEPT ![n] = row]
  /\ orphans' = orphans \ {n} /\ erased' = erased \ {n}

\* A mutant for SyncedAtLast: a broken file ends the start-up.
LoadOrExit ==
  /\ pc = "load" /\ at <= Len(Files)
  /\ LET row == parseSkillMD(Files[at])
     IN IF row = None
        THEN pc' = "down" /\ UNCHANGED <<at, rows, orphans, erased>>
        ELSE UpsertSkill(Files[at].name, row) /\ at' = at + 1 /\ pc' = pc
  /\ UNCHANGED <<cr, news, cache, queue, req, seen>> /\ NoFault

\* A file without front matter or name is passed over.
LoadBuiltin ==
  /\ pc = "load" /\ at <= Len(Files)
  /\ LET row == parseSkillMD(Files[at])
     IN IF row = None THEN UNCHANGED <<rows, orphans, erased>>
                      ELSE UpsertSkill(Files[at].name, row)
  /\ at' = at + 1
  /\ UNCHANGED <<cr, news, cache, queue, pc, req, seen>> /\ NoFault

\* A failed upsert ends the process.
LoadFails ==
  /\ pc = "load" /\ at <= Len(Files) /\ parseSkillMD(Files[at]) # None
  /\ pc' = "down" /\ Fault
  /\ UNCHANGED <<cr, news, rows, cache, queue, at, req, seen, orphans, erased>>

\* The first list puts every CR in the queue, and no CR that is gone.
StartManager ==
  /\ pc = "load" /\ at > Len(Files)
  /\ pc' = "idle" /\ cache' = cr /\ news' = {} /\ queue' = {k \in CRs : cr[k] # None}
  /\ orphans' = orphans \cup {n \in Names : FromCR(n) /\ Live(n) = {}}
  /\ UNCHANGED <<cr, rows, at, req, seen, erased>> /\ NoFault

Crash ==
  /\ pc # "down" /\ crashes < MaxCrashes /\ crashes' = crashes + 1
  /\ pc' = "down" /\ queue' = {} /\ cache' = [k \in CRs |-> None]
  /\ req' = None /\ seen' = None
  /\ UNCHANGED <<cr, news, rows, at, orphans, erased, edits, faults>>

(***************************************************************************)
(* The reconciler: one worker.                                             *)
(***************************************************************************)
Deliver(k) ==
  /\ Up /\ k \in news
  /\ news' = news \ {k} /\ cache' = [cache EXCEPT ![k] = cr[k]] /\ queue' = queue \cup {k}
  /\ UNCHANGED <<cr, rows, pc, at, req, seen, orphans, erased>> /\ NoFault

Synthesised(s) ==
  [source |-> "cr", enabled |-> s.enabled,
   priority |-> IF s.priority = None THEN 100 ELSE s.priority]

Get(k) ==
  /\ pc = "idle" /\ k \in queue
  /\ queue' = queue \ {k} /\ req' = k
  /\ IF cache[k] # None
     THEN pc' = "upsert" /\ seen' = Synthesised(cache[k])
     ELSE pc' = "lookup" /\ seen' = None
  /\ UNCHANGED <<cr, news, rows, cache, at, orphans, erased>> /\ NoFault

Upsert ==
  /\ pc = "upsert" /\ pc' = "idle"
  /\ UpsertSkill(NameOf[req], seen)
  /\ UNCHANGED <<cr, news, cache, queue, at, req, seen>> /\ NoFault

UpsertFails ==
  /\ pc = "upsert" /\ pc' = "idle" /\ Fault
  /\ queue' = queue \cup {req}
  /\ UNCHANGED <<cr, news, rows, cache, at, req, seen, orphans, erased>>

\* A mutant for RowsTrue: whatever the row's source.
GetSkillOfAny ==
  /\ pc = "lookup"
  /\ pc' = IF rows[NameOf[req]] # None THEN "erase" ELSE "idle"
  /\ UNCHANGED <<cr, news, rows, cache, queue, at, req, seen, orphans, erased>> /\ NoFault

GetSkill ==
  /\ pc = "lookup"
  /\ pc' = IF FromCR(NameOf[req]) THEN "erase" ELSE "idle"
  /\ UNCHANGED <<cr, news, rows, cache, queue, at, req, seen, orphans, erased>> /\ NoFault

DeleteSkill ==
  /\ pc = "erase" /\ pc' = "idle"
  /\ rows' = [rows EXCEPT ![NameOf[req]] = None]
  /\ erased' = IF FromCR(NameOf[req]) THEN erased \cup {NameOf[req]} ELSE erased
  /\ orphans' = orphans \ {NameOf[req]}
  /\ UNCHANGED <<cr, news, cache, queue, at, req, seen>> /\ NoFault

\* Either call may fail, and neither is made again.
CleanUpFails ==
  /\ pc \in {"lookup", "erase"} /\ pc' = "idle" /\ Fault
  /\ orphans' = IF FromCR(NameOf[req]) THEN orphans \cup {NameOf[req]} ELSE orphans
  /\ UNCHANGED <<cr, news, rows, cache, queue, at, req, seen, erased>>

Start == Restart \/ LoadBuiltin \/ LoadFails \/ StartManager
Reconcile ==
  \/ \E k \in CRs : Get(k)
  \/ Upsert \/ UpsertFails \/ GetSkill \/ DeleteSkill \/ CleanUpFails
Users ==
  \E k \in CRs : DeleteCR(k) \/ \E s \in Specs : Apply(k, s) \/ Post(k, s)

Next == Users \/ Start \/ Crash \/ (\E k \in CRs : Deliver(k)) \/ Reconcile

Spec == Init /\ [][Next]_vars

\* The process is started again, its informer lags but catches up, and its
\* worker goes on; users and failures come as they like.
FairSpec ==
  /\ Spec
  /\ WF_vars(Start) /\ WF_vars(\E k \in CRs : Deliver(k)) /\ WF_vars(Reconcile)

-----------------------------------------------------------------------------
(***************************************************************************)
(* Properties.                                                             *)
(***************************************************************************)
PCs == {"down", "load", "idle", "upsert", "lookup", "erase"}
Busy == {"upsert", "lookup", "erase"}

\* Every variable keeps its type, and a request is being worked on exactly
\* in the places where the reconciler has one.
TypeOK ==
  /\ cr \in [CRs -> Spec0 \cup {None}] /\ cache \in [CRs -> Spec0 \cup {None}]
  /\ rows \in [Names -> Row \cup {None}]
  /\ news \subseteq CRs /\ queue \subseteq CRs /\ pc \in PCs /\ at \in Nat \ {0}
  /\ req \in CRs \cup {None} /\ seen \in Row \cup {None}
  /\ pc \in Busy => req \in CRs
  /\ pc = "upsert" => seen \in Row
  /\ orphans \subseteq Names /\ erased \subseteq Names
  /\ edits \in Nat /\ crashes \in Nat /\ faults \in Nat

\* Nothing is on its way for a CR: no event, no request.
Pending(k) == k \in queue \cup news \/ (pc \in Busy /\ req = k)
Settled(n) == Up /\ \A k \in Of(n) : ~Pending(k)

Builtins ==
  {n \in Names : \E i \in DOMAIN Files : parseSkillMD(Files[i]) # None /\ Files[i].name = n}

\* When nothing is on its way for a name, a run gets what the CRs say: the
\* row is that of a CR of the name, or is missing because another of its
\* namespaces was deleted; without a CR no CR's row is left, except an
\* orphan, and a built-in skill is missing only because a CR had taken its
\* row (skill_reconciler.go:20-23).
RowsTrue ==
  \A n \in Names : Settled(n) =>
    /\ FromCR(n) => n \in orphans \/ \E k \in Live(n) : rows[n] = Synthesised(cr[k])
    /\ \A k \in Live(n) : FromCR(n) \/ (rows[n] = None /\ \E j \in Of(n) : j # k)
    /\ rows[n] = None /\ n \in Builtins => n \in erased

\* A CR that alone has its name decides the row in the end, whatever the
\* start-up load wrote over it and whichever calls failed.
SyncedAtLast ==
  \A k \in CRs : Of(NameOf[k]) = {k} =>
    <>[](cr[k] # None => rows[NameOf[k]] = Synthesised(cr[k]))
\* The inductive invariant of the proofs in SkillSyncProofs.

\* The files already read have their rows.
LoadedSoFar ==
  pc = "load" =>
    \A i \in DOMAIN Files : i < at /\ parseSkillMD(Files[i]) # None => rows[Files[i].name] # None

\* What the informer has heard of, its cache has.
CacheCurrent == Up => \A k \in CRs \ news : cache[k] = cr[k]

\* What the worker holds is the cache's, unless it is asked again.
WorkerCurrent ==
  /\ pc = "upsert" => seen.source = "cr" /\
       (req \in queue \/ (cache[req] # None /\ seen = Synthesised(cache[req])))
  /\ pc \in {"lookup", "erase"} => req \in queue \/ cache[req] = None
  /\ pc = "erase" => FromCR(NameOf[req])

\* The three kinds of row: a built-in, none, a CR's.
BuiltinYields ==
  Up => \A k \in CRs : cr[k] # None /\ rows[NameOf[k]] # None /\ ~FromCR(NameOf[k]) => Pending(k)

MissingKnown ==
  Up => /\ \A n \in Builtins : rows[n] = None => n \in erased
        /\ \A k \in CRs : cr[k] # None /\ rows[NameOf[k]] = None =>
             Pending(k) \/ \E j \in Of(NameOf[k]) : j # k

CRRowsTrue ==
  Up => \A n \in Names : FromCR(n) =>
          \/ n \in orphans
          \/ \E k \in Live(n) : rows[n] = Synthesised(cr[k])
          \/ \E k \in Of(n) : Pending(k)

SkillInv == TypeOK /\ LoadedSoFar /\ CacheCurrent /\ WorkerCurrent
            /\ BuiltinYields /\ MissingKnown /\ CRRowsTrue
=============================================================================
