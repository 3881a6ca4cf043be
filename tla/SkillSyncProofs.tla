---------------------------- MODULE SkillSyncProofs ----------------------------
(***************************************************************************)
(* Proofs about SkillSync, for any CRs, names, files and bounds: what the  *)
(* table says once nothing is on its way.                                  *)
(***************************************************************************)
EXTENDS SkillSync, TLAPS

LEMMA SynthesisedRow ==
  ASSUME NEW s \in Spec0
  PROVE  Synthesised(s) \in Row /\ Synthesised(s) # None /\ Synthesised(s).source = "cr"
<1>1. (IF s.priority = None THEN 100 ELSE s.priority) \in Nat BY DEF Spec0
<1>2. s.enabled \in BOOLEAN BY DEF Spec0
<1>3. Synthesised(s) \in Row BY <1>1, <1>2 DEF Synthesised, Row
<1>4. Synthesised(s).source = "cr" BY DEF Synthesised
<1> QED BY <1>3, <1>4, SpecsAssumption

\* What a file's row is like.
LEMMA ParsedRow ==
  ASSUME NEW i \in DOMAIN Files, parseSkillMD(Files[i]) # None
  PROVE  /\ parseSkillMD(Files[i]) \in Row /\ parseSkillMD(Files[i]).source # "cr"
         /\ Files[i].name \in Names
<1>1. Files[i] \in File BY FilesAssumption
<1>2. Files[i].name \in Names BY <1>1 DEF File, parseSkillMD
<1>3. parseSkillMD(Files[i]) = [source |-> "builtin", enabled |-> TRUE, priority |-> 100]
  BY DEF parseSkillMD
<1>4. [source |-> "builtin", enabled |-> TRUE, priority |-> 100] \in Row BY DEF Row
<1> QED BY <1>2, <1>3, <1>4

LEMMA SkillInit == Init => SkillInv
BY SkillBoundAssumption
   DEF Init, SkillInv, TypeOK, PCs, Busy, Up, LoadedSoFar, CacheCurrent, WorkerCurrent,
       BuiltinYields, MissingKnown, CRRowsTrue

\* A change of a CR is news, whatever its row is.
LEMMA WrittenKeeps ==
  ASSUME SkillInv, NEW k \in CRs, NEW s \in Spec0 \cup {None}, Written(k, s)
  PROVE  SkillInv'
<1> USE DEF SkillInv
<1>1. /\ cr' = [cr EXCEPT ![k] = s] /\ news' = news \cup {k} /\ edits' = edits + 1
      /\ UNCHANGED <<rows, cache, queue, pc, at, req, seen, orphans, erased, crashes, faults>>
  BY DEF Written, memory
<1>2. cr' \in [CRs -> Spec0 \cup {None}] BY <1>1 DEF TypeOK
<1>3. \A j \in CRs : j # k => cr'[j] = cr[j] BY <1>1 DEF TypeOK
<1>4. \A j \in CRs : Pending(j) => Pending(j)' BY <1>1 DEF Pending
<1>5. Pending(k)' BY <1>1 DEF Pending
<1>6. \A n : FromCR(n)' <=> FromCR(n) BY <1>1 DEF FromCR
<1>7. TypeOK'
  <2>1. edits' \in Nat BY <1>1 DEF TypeOK
  <2> QED BY <1>1, <1>2, <2>1 DEF TypeOK
<1>8. LoadedSoFar' BY <1>1 DEF LoadedSoFar
<1>9. CacheCurrent' BY <1>1, <1>3 DEF CacheCurrent, Up
<1>10. WorkerCurrent' BY <1>1, <1>6 DEF WorkerCurrent
<1>11. BuiltinYields' BY <1>1, <1>3, <1>4, <1>5, <1>6 DEF BuiltinYields, Up
<1>12. MissingKnown' BY <1>1, <1>3, <1>4, <1>5 DEF MissingKnown, Up
<1>13. CRRowsTrue'
  <2> SUFFICES ASSUME Up', NEW n \in Names, FromCR(n)'
               PROVE  \/ n \in orphans'
                      \/ \E j \in Live(n)' : rows'[n] = Synthesised(cr'[j])
                      \/ \E j \in Of(n) : Pending(j)'
    BY DEF CRRowsTrue
  <2>1. \/ n \in orphans
        \/ \E j \in Live(n) : rows[n] = Synthesised(cr[j])
        \/ \E j \in Of(n) : Pending(j)
    BY <1>1, <1>6 DEF CRRowsTrue, Up
  <2>2. CASE \E j \in Live(n) : rows[n] = Synthesised(cr[j])
    <3> PICK j \in Live(n) : rows[n] = Synthesised(cr[j]) BY <2>2
    <3>1. CASE j = k BY <3>1, <1>5 DEF Live, Of
    <3>2. CASE j # k BY <3>2, <1>1, <1>3 DEF Live, Of
    <3> QED BY <3>1, <3>2
  <2> QED BY <2>1, <2>2, <1>1, <1>4 DEF Of
<1> QED BY <1>7, <1>8, <1>9, <1>10, <1>11, <1>12, <1>13

\* Outside the running manager only the files' rows matter.
LEMMA DownKeeps ==
  ASSUME SkillInv, Restart \/ LoadFails \/ Crash
  PROVE  SkillInv'
<1> USE DEF SkillInv
<1>1. TypeOK'
  <2>1. CASE Restart BY <2>1 DEF Restart, NoFault, bounds, TypeOK, PCs, Busy
  <2>2. CASE LoadFails
    <3>1. faults' \in Nat BY <2>2 DEF LoadFails, Fault, TypeOK
    <3> QED BY <2>2, <3>1 DEF LoadFails, Fault, TypeOK, PCs, Busy
  <2>3. CASE Crash
    <3>1. crashes' \in Nat BY <2>3 DEF Crash, TypeOK
    <3>2. cache' \in [CRs -> Spec0 \cup {None}] BY <2>3 DEF Crash
    <3> QED BY <2>3, <3>1, <3>2 DEF Crash, TypeOK, PCs, Busy
  <2> QED BY <2>1, <2>2, <2>3
<1>2. ~Up' /\ pc' \notin {"upsert", "lookup", "erase"}
  BY DEF Restart, LoadFails, Crash, Up
<1>3. LoadedSoFar'
  <2>1. pc' = "load" => at' = 1 BY DEF Restart, LoadFails, Crash
  <2>2. \A i \in DOMAIN Files : ~(i < 1) BY FilesAssumption
  <2> QED BY <2>1, <2>2 DEF LoadedSoFar
<1> QED BY <1>1, <1>2, <1>3
    DEF CacheCurrent, WorkerCurrent, BuiltinYields, MissingKnown, CRRowsTrue

LEMMA LoadBuiltinKeeps == ASSUME SkillInv, LoadBuiltin PROVE SkillInv'
<1> USE DEF SkillInv
<1> DEFINE row == parseSkillMD(Files[at])
           n == Files[at].name
<1>1. /\ pc = "load" /\ pc' = "load" /\ at' = at + 1 /\ at <= Len(Files) /\ at \in DOMAIN Files
      /\ UNCHANGED <<cr, news, cache, queue, req, seen, edits, crashes, faults>>
  BY FilesAssumption DEF LoadBuiltin, NoFault, bounds, TypeOK
<1>2. CASE row = None
  <2>1. UNCHANGED <<rows, orphans, erased>> BY <1>2 DEF LoadBuiltin
  <2>2. at' \in Nat \ {0} BY <1>1 DEF TypeOK
  <2>3. TypeOK' BY <1>1, <2>1, <2>2 DEF TypeOK, Busy
  <2>4. \A i \in DOMAIN Files : i < at + 1 => i < at \/ i = at
    BY FilesAssumption DEF TypeOK
  <2>5. LoadedSoFar' BY <1>1, <1>2, <2>1, <2>4 DEF LoadedSoFar
  <2> QED BY <1>1, <2>3, <2>5
      DEF Up, CacheCurrent, WorkerCurrent, BuiltinYields, MissingKnown, CRRowsTrue
<1>3. CASE row # None
  <2>1. n \in Names /\ row \in Row BY <1>1, <1>3, ParsedRow
  <2>2. /\ rows' = [rows EXCEPT ![n] = row]
        /\ orphans' = orphans \ {n} /\ erased' = erased \ {n}
    BY <1>3 DEF LoadBuiltin, UpsertSkill
  <2>3. at' \in Nat \ {0} BY <1>1 DEF TypeOK
  <2>4. rows' \in [Names -> Row \cup {None}] BY <2>1, <2>2 DEF TypeOK
  <2>5. TypeOK' BY <1>1, <2>2, <2>3, <2>4 DEF TypeOK, Busy
  <2>6. \A i \in DOMAIN Files : i < at + 1 => i < at \/ i = at
    BY FilesAssumption DEF TypeOK
  <2>7. \A m \in Names : rows[m] # None => rows'[m] # None
    BY <1>3, <2>1, <2>2 DEF TypeOK
  <2>8. rows'[n] # None BY <1>3, <2>1, <2>2 DEF TypeOK
  <2>9. LoadedSoFar'
    <3> SUFFICES ASSUME NEW i \in DOMAIN Files, i < at + 1, parseSkillMD(Files[i]) # None
                 PROVE  rows'[Files[i].name] # None
      BY <1>1 DEF LoadedSoFar
    <3>1. Files[i].name \in Names BY ParsedRow
    <3>2. CASE i = at BY <3>2, <2>8
    <3>3. CASE i < at BY <3>1, <3>3, <1>1, <2>7 DEF LoadedSoFar
    <3> QED BY <2>6, <3>2, <3>3
  <2> QED BY <1>1, <2>5, <2>9
      DEF Up, CacheCurrent, WorkerCurrent, BuiltinYields, MissingKnown, CRRowsTrue
<1> QED BY <1>2, <1>3

\* The first list makes every living CR pending and every other CR's row an
\* orphan.
LEMMA StartManagerKeeps == ASSUME SkillInv, StartManager PROVE SkillInv'
<1> USE DEF SkillInv
<1>1. /\ pc = "load" /\ at > Len(Files) /\ pc' = "idle" /\ cache' = cr /\ news' = {}
      /\ queue' = {k \in CRs : cr[k] # None}
      /\ orphans' = orphans \cup {n \in Names : FromCR(n) /\ Live(n) = {}}
      /\ UNCHANGED <<cr, rows, at, req, seen, erased, edits, crashes, faults>>
  BY DEF StartManager, NoFault, bounds
<1>2. TypeOK' BY <1>1 DEF TypeOK, PCs, Busy
<1>3. \A k \in CRs : cr[k] # None => Pending(k)' BY <1>1 DEF Pending
<1>4. BuiltinYields' BY <1>1, <1>3 DEF BuiltinYields
<1>5. MissingKnown'
  <2>1. ASSUME NEW n \in Builtins PROVE rows[n] # None
    <3> PICK i \in DOMAIN Files : parseSkillMD(Files[i]) # None /\ Files[i].name = n
      BY DEF Builtins
    <3>1. i < at BY <1>1, FilesAssumption DEF TypeOK
    <3> QED BY <3>1, <1>1 DEF LoadedSoFar
  <2> QED BY <2>1, <1>1, <1>3 DEF MissingKnown
<1>6. CRRowsTrue'
  <2> SUFFICES ASSUME NEW n \in Names, FromCR(n)', n \notin orphans'
               PROVE  \E k \in Of(n) : Pending(k)'
    BY DEF CRRowsTrue
  <2>1. FromCR(n) BY <1>1 DEF FromCR
  <2>2. Live(n) # {} BY <2>1, <1>1
  <2>3. PICK k \in Of(n) : cr[k] # None BY <2>2 DEF Live
  <2> QED BY <2>3, <1>3 DEF Of
<1> QED BY <1>1, <1>2, <1>4, <1>5, <1>6 DEF LoadedSoFar, CacheCurrent, WorkerCurrent

\* What is pending stays so while the rows and the CRs stay as they are.
LEMMA TableKept ==
  ASSUME SkillInv, Up, UNCHANGED <<cr, rows, orphans, erased>>,
         \A k \in CRs : Pending(k) => Pending(k)'
  PROVE  BuiltinYields' /\ MissingKnown' /\ CRRowsTrue'
<1> USE DEF SkillInv
<1>1. \A n : (FromCR(n)' <=> FromCR(n)) /\ Live(n)' = Live(n) BY DEF FromCR, Live
<1>2. BuiltinYields' BY <1>1 DEF BuiltinYields
<1>3. MissingKnown' BY DEF MissingKnown
<1>4. CRRowsTrue'
  <2> SUFFICES ASSUME NEW n \in Names, FromCR(n), n \notin orphans,
                      ~\E k \in Live(n) : rows[n] = Synthesised(cr[k])
               PROVE  \E k \in Of(n) : Pending(k)'
    BY <1>1 DEF CRRowsTrue
  <2>1. PICK k \in Of(n) : Pending(k) BY DEF CRRowsTrue
  <2> QED BY <2>1 DEF Of
<1> QED BY <1>2, <1>3, <1>4

LEMMA DeliverKeeps == ASSUME SkillInv, NEW k \in CRs, Deliver(k) PROVE SkillInv'
<1> USE DEF SkillInv
<1>1. /\ Up /\ news' = news \ {k} /\ queue' = queue \cup {k}
      /\ cache' = [cache EXCEPT ![k] = cr[k]]
      /\ UNCHANGED <<cr, rows, pc, at, req, seen, orphans, erased, edits, crashes, faults>>
  BY DEF Deliver, NoFault, bounds
<1>2. cache'[k] = cr[k] /\ \A j \in CRs : j # k => cache'[j] = cache[j] BY <1>1 DEF TypeOK
<1>3. cache' \in [CRs -> Spec0 \cup {None}] BY <1>1 DEF TypeOK
<1>4. TypeOK' BY <1>1, <1>3 DEF TypeOK
<1>5. CacheCurrent' BY <1>1, <1>2 DEF CacheCurrent, Up
<1>6. WorkerCurrent'
  <2>1. pc \in Busy => req \in CRs BY DEF TypeOK
  <2>2. \A n : FromCR(n)' <=> FromCR(n) BY <1>1 DEF FromCR
  <2>3. CASE req = k BY <2>2, <2>3, <1>1 DEF WorkerCurrent
  <2>4. CASE req # k BY <2>1, <2>2, <2>4, <1>1, <1>2 DEF WorkerCurrent, Busy
  <2> QED BY <2>3, <2>4
<1>7. \A j \in CRs : Pending(j) => Pending(j)' BY <1>1 DEF Pending
<1> QED BY <1>1, <1>4, <1>5, <1>6, <1>7, TableKept DEF LoadedSoFar, Up

LEMMA GetKeeps == ASSUME SkillInv, NEW k \in CRs, Get(k) PROVE SkillInv'
<1> USE DEF SkillInv
<1>1. /\ pc = "idle" /\ k \in queue /\ queue' = queue \ {k} /\ req' = k
      /\ UNCHANGED <<cr, news, rows, cache, at, orphans, erased, edits, crashes, faults>>
  BY DEF Get, NoFault, bounds
<1>2. Up /\ pc' \in {"upsert", "lookup"} BY <1>1 DEF Get, Up
<1>3. \A j \in CRs : Pending(j) => Pending(j)' BY <1>1, <1>2 DEF Pending, Busy
<1>4. CASE cache[k] # None
  <2>1. pc' = "upsert" /\ seen' = Synthesised(cache[k]) BY <1>4 DEF Get
  <2>2. cache[k] \in Spec0 BY <1>4 DEF TypeOK
  <2>3. seen' \in Row /\ seen'.source = "cr" BY <2>1, <2>2, SynthesisedRow
  <2>4. TypeOK' BY <1>1, <2>1, <2>3 DEF TypeOK, PCs
  <2>5. WorkerCurrent' BY <1>1, <1>4, <2>1, <2>3 DEF WorkerCurrent
  <2> QED BY <1>1, <1>2, <1>3, <2>1, <2>4, <2>5, TableKept DEF LoadedSoFar, CacheCurrent, Up
<1>5. CASE cache[k] = None
  <2>1. pc' = "lookup" /\ seen' = None BY <1>5 DEF Get
  <2>2. TypeOK' BY <1>1, <2>1 DEF TypeOK, PCs
  <2>3. WorkerCurrent' BY <1>1, <1>5, <2>1 DEF WorkerCurrent
  <2> QED BY <1>1, <1>2, <1>3, <2>1, <2>2, <2>3, TableKept DEF LoadedSoFar, CacheCurrent, Up
<1> QED BY <1>4, <1>5

LEMMA UpsertFailsKeeps == ASSUME SkillInv, UpsertFails PROVE SkillInv'
<1> USE DEF SkillInv
<1>1. /\ pc = "upsert" /\ pc' = "idle" /\ queue' = queue \cup {req} /\ faults' = faults + 1
      /\ UNCHANGED <<cr, news, rows, cache, at, req, seen, orphans, erased, edits, crashes>>
  BY DEF UpsertFails, Fault
<1>2. req \in CRs BY <1>1 DEF TypeOK, Busy
<1>3. faults' \in Nat BY <1>1 DEF TypeOK
<1>4. TypeOK' BY <1>1, <1>2, <1>3 DEF TypeOK, PCs, Busy
<1>5. \A j \in CRs : Pending(j) => Pending(j)' BY <1>1 DEF Pending
<1>6. Up BY <1>1 DEF Up
<1> QED BY <1>1, <1>4, <1>5, <1>6, TableKept DEF LoadedSoFar, CacheCurrent, WorkerCurrent, Up

\* The worker is done with a CR that was gone: whoever else was pending
\* still is, and if this one is not, it is gone indeed.
LEMMA Released ==
  ASSUME SkillInv, pc \in {"lookup", "erase"}, pc' = "idle",
         UNCHANGED <<cr, news, cache, queue, at, req, seen>>
  PROVE  /\ req \in CRs /\ Up
         /\ \A j \in CRs : j # req /\ Pending(j) => Pending(j)'
         /\ Pending(req)' \/ cr[req] = None
         /\ LoadedSoFar' /\ CacheCurrent' /\ WorkerCurrent'
<1> USE DEF SkillInv
<1>1. req \in CRs BY DEF TypeOK, Busy
<1>2. Up BY DEF Up
<1>3. \A j \in CRs : j # req /\ Pending(j) => Pending(j)' BY DEF Pending
<1>4. req \in queue \cup news => Pending(req)' BY DEF Pending
<1>5. req \notin queue \cup news => cr[req] = None
  BY <1>1, <1>2 DEF WorkerCurrent, CacheCurrent
<1>6. CacheCurrent' BY <1>2 DEF CacheCurrent
<1> QED BY <1>1, <1>2, <1>3, <1>4, <1>5, <1>6 DEF LoadedSoFar, WorkerCurrent

\* Rows that stay as they are when the worker leaves a CR that is gone.
LEMMA LeftAlone ==
  ASSUME SkillInv, pc \in {"lookup", "erase"}, pc' = "idle",
         UNCHANGED <<cr, news, rows, cache, queue, at, req, seen, erased>>,
         orphans \subseteq orphans', FromCR(NameOf[req]) => NameOf[req] \in orphans'
  PROVE  BuiltinYields' /\ MissingKnown' /\ CRRowsTrue'
<1> USE DEF SkillInv
<1>1. /\ req \in CRs /\ Up
      /\ \A j \in CRs : j # req /\ Pending(j) => Pending(j)'
      /\ Pending(req)' \/ cr[req] = None
  BY Released
<1>2. \A n : (FromCR(n)' <=> FromCR(n)) /\ Live(n)' = Live(n) BY DEF FromCR, Live
<1>3. BuiltinYields' BY <1>1, <1>2 DEF BuiltinYields
<1>4. MissingKnown' BY <1>1 DEF MissingKnown
<1>5. CRRowsTrue'
  <2> SUFFICES ASSUME NEW n \in Names, FromCR(n), n \notin orphans',
                      ~\E k \in Live(n) : rows[n] = Synthesised(cr[k])
               PROVE  \E k \in Of(n) : Pending(k)'
    BY <1>2 DEF CRRowsTrue
  <2>1. PICK k \in Of(n) : Pending(k) BY <1>1 DEF CRRowsTrue
  <2>2. k # req BY DEF Of
  <2> QED BY <2>1, <2>2, <1>1 DEF Of
<1> QED BY <1>3, <1>4, <1>5

LEMMA GetSkillKeeps == ASSUME SkillInv, GetSkill PROVE SkillInv'
<1> USE DEF SkillInv
<1>1. /\ pc = "lookup"
      /\ UNCHANGED <<cr, news, rows, cache, queue, at, req, seen, orphans, erased,
                     edits, crashes, faults>>
  BY DEF GetSkill, NoFault, bounds
<1>2. req \in CRs BY <1>1 DEF TypeOK, Busy
<1>3. CASE FromCR(NameOf[req])
  <2>1. pc' = "erase" BY <1>3 DEF GetSkill
  <2>2. TypeOK' BY <1>1, <1>2, <2>1 DEF TypeOK, PCs
  <2>3. WorkerCurrent' BY <1>1, <1>3, <2>1 DEF WorkerCurrent, FromCR
  <2>4. \A j \in CRs : Pending(j) => Pending(j)' BY <1>1, <2>1 DEF Pending, Busy
  <2> QED BY <1>1, <2>1, <2>2, <2>3, <2>4, TableKept DEF LoadedSoFar, CacheCurrent, Up
<1>4. CASE ~FromCR(NameOf[req])
  <2>1. pc' = "idle" BY <1>4 DEF GetSkill
  <2>2. TypeOK' BY <1>1, <2>1 DEF TypeOK, PCs, Busy
  <2>3. BuiltinYields' /\ MissingKnown' /\ CRRowsTrue' BY <1>1, <1>4, <2>1, LeftAlone
  <2> QED BY <1>1, <2>1, <2>2, <2>3, Released
<1> QED BY <1>3, <1>4

LEMMA CleanUpFailsKeeps == ASSUME SkillInv, CleanUpFails PROVE SkillInv'
<1> USE DEF SkillInv
<1>1. /\ pc \in {"lookup", "erase"} /\ pc' = "idle" /\ faults' = faults + 1
      /\ orphans' = IF FromCR(NameOf[req]) THEN orphans \cup {NameOf[req]} ELSE orphans
      /\ UNCHANGED <<cr, news, rows, cache, queue, at, req, seen, erased, edits, crashes>>
  BY DEF CleanUpFails, Fault
<1>2. NameOf[req] \in Names BY <1>1, Released, KeysAssumption
<1>3. faults' \in Nat BY <1>1 DEF TypeOK
<1>4. TypeOK' BY <1>1, <1>2, <1>3 DEF TypeOK, PCs, Busy
<1>5. BuiltinYields' /\ MissingKnown' /\ CRRowsTrue' BY <1>1, LeftAlone
<1> QED BY <1>1, <1>4, <1>5, Released

LEMMA DeleteSkillKeeps == ASSUME SkillInv, DeleteSkill PROVE SkillInv'
<1> USE DEF SkillInv
<1> DEFINE n == NameOf[req]
<1>1. /\ pc = "erase" /\ pc' = "idle" /\ rows' = [rows EXCEPT ![n] = None]
      /\ erased' = (IF FromCR(n) THEN erased \cup {n} ELSE erased) /\ orphans' = orphans \ {n}
      /\ UNCHANGED <<cr, news, cache, queue, at, req, seen, edits, crashes, faults>>
  BY DEF DeleteSkill, NoFault, bounds
<1>2. /\ req \in CRs /\ Up
      /\ \A j \in CRs : j # req /\ Pending(j) => Pending(j)'
      /\ Pending(req)' \/ cr[req] = None
  BY <1>1, Released
<1>3. n \in Names BY <1>2, KeysAssumption
<1>4. FromCR(n) BY <1>1 DEF WorkerCurrent
<1>5. erased' = erased \cup {n} BY <1>1, <1>4
<1>6. rows'[n] = None /\ \A m \in Names : m # n => rows'[m] = rows[m] BY <1>1, <1>3 DEF TypeOK
<1>7. rows' \in [Names -> Row \cup {None}] BY <1>1 DEF TypeOK
<1>8. TypeOK' BY <1>1, <1>3, <1>5, <1>7 DEF TypeOK, PCs, Busy
<1>9. \A k \in CRs : NameOf[k] \in Names /\ (NameOf[k] # n => k # req) BY KeysAssumption
<1>10. BuiltinYields'
  <2> SUFFICES ASSUME NEW k \in CRs, cr[k] # None, rows'[NameOf[k]] # None, ~FromCR(NameOf[k])'
               PROVE  Pending(k)'
    BY <1>1 DEF BuiltinYields
  <2>1. NameOf[k] # n /\ rows'[NameOf[k]] = rows[NameOf[k]] BY <1>6, <1>9
  <2>2. ~FromCR(NameOf[k]) BY <2>1 DEF FromCR
  <2> QED BY <2>1, <2>2, <1>2, <1>9 DEF BuiltinYields
<1>11. MissingKnown'
  <2>1. \A m \in Builtins : rows'[m] = None => m \in erased'
    BY <1>2, <1>5, <1>6 DEF MissingKnown, Builtins
  <2>2. ASSUME NEW k \in CRs, cr[k] # None, rows'[NameOf[k]] = None
        PROVE  Pending(k)' \/ \E j \in Of(NameOf[k]) : j # k
    <3>1. CASE k = req BY <3>1, <2>2, <1>1, <1>2 DEF Pending
    <3>2. CASE NameOf[k] = n /\ k # req BY <3>2, <1>2 DEF Of
    <3>3. CASE NameOf[k] # n BY <3>3, <2>2, <1>2, <1>6, <1>9 DEF MissingKnown
    <3> QED BY <3>1, <3>2, <3>3
  <2> QED BY <2>1, <2>2, <1>1 DEF MissingKnown
<1>12. CRRowsTrue'
  <2> SUFFICES ASSUME NEW m \in Names, FromCR(m)', m \notin orphans',
                      ~\E k \in Live(m)' : rows'[m] = Synthesised(cr'[k])
               PROVE  \E k \in Of(m) : Pending(k)'
    BY DEF CRRowsTrue
  <2>1. m # n BY <1>6 DEF FromCR
  <2>2. FromCR(m) BY <2>1, <1>6 DEF FromCR
  <2>3. ~\E k \in Live(m) : rows[m] = Synthesised(cr[k]) BY <2>1, <1>1, <1>6 DEF Live
  <2>4. PICK k \in Of(m) : Pending(k) BY <2>1, <2>2, <2>3, <1>1, <1>2 DEF CRRowsTrue
  <2>5. k \in CRs /\ k # req BY <2>1 DEF Of
  <2> QED BY <2>4, <2>5, <1>2
<1> QED BY <1>1, <1>8, <1>10, <1>11, <1>12, Released

LEMMA UpsertKeeps == ASSUME SkillInv, Upsert PROVE SkillInv'
<1> USE DEF SkillInv
<1> DEFINE n == NameOf[req]
<1>1. /\ pc = "upsert" /\ pc' = "idle" /\ rows' = [rows EXCEPT ![n] = seen]
      /\ orphans' = orphans \ {n} /\ erased' = erased \ {n}
      /\ UNCHANGED <<cr, news, cache, queue, at, req, seen, edits, crashes, faults>>
  BY DEF Upsert, UpsertSkill, NoFault, bounds
<1>2. req \in CRs /\ Up BY <1>1 DEF TypeOK, Busy, Up
<1>3. n \in Names /\ \A k \in CRs : NameOf[k] \in Names /\ (NameOf[k] # n => k # req)
  BY <1>2, KeysAssumption
<1>4. seen \in Row /\ seen # None /\ seen.source = "cr"
  BY <1>1, SpecsAssumption DEF TypeOK, WorkerCurrent
<1>5. rows'[n] = seen /\ \A m \in Names : m # n => rows'[m] = rows[m] BY <1>1, <1>3 DEF TypeOK
<1>6. rows' \in [Names -> Row \cup {None}] BY <1>1, <1>4 DEF TypeOK
<1>7. TypeOK' BY <1>1, <1>6 DEF TypeOK, PCs, Busy
<1>8. \A k \in CRs : k # req /\ Pending(k) => Pending(k)' BY <1>1 DEF Pending
<1>9. /\ rows'[n] # None /\ rows'[n].source = "cr"
      /\ \A m \in Names : m # n => (FromCR(m)' <=> FromCR(m))
  BY <1>4, <1>5 DEF FromCR
<1>10. BuiltinYields'
  <2> SUFFICES ASSUME NEW k \in CRs, cr[k] # None, rows'[NameOf[k]] # None,
                      rows'[NameOf[k]].source # "cr"
               PROVE  Pending(k)'
    BY <1>1 DEF BuiltinYields, FromCR
  <2>1. NameOf[k] # n /\ rows'[NameOf[k]] = rows[NameOf[k]] BY <1>3, <1>5, <1>9
  <2>2. ~FromCR(NameOf[k]) BY <2>1 DEF FromCR
  <2> QED BY <2>1, <2>2, <1>2, <1>3, <1>8 DEF BuiltinYields
<1>11. MissingKnown'
  <2>1. \A m \in Builtins : rows'[m] = None => m \in erased'
    BY <1>1, <1>2, <1>4, <1>5 DEF MissingKnown, Builtins
  <2>2. ASSUME NEW k \in CRs, cr[k] # None, rows'[NameOf[k]] = None
        PROVE  Pending(k)' \/ \E j \in Of(NameOf[k]) : j # k
    <3>1. NameOf[k] # n BY <2>2, <1>4, <1>5
    <3> QED BY <3>1, <2>2, <1>2, <1>3, <1>5, <1>8 DEF MissingKnown
  <2> QED BY <2>1, <2>2, <1>1 DEF MissingKnown
<1>12. CRRowsTrue'
  <2> SUFFICES ASSUME NEW m \in Names, FromCR(m)', m \notin orphans',
                      ~\E k \in Live(m)' : rows'[m] = Synthesised(cr'[k])
               PROVE  \E k \in Of(m) : Pending(k)'
    BY DEF CRRowsTrue
  <2>1. CASE m = n
    <3>1. req \in Of(n) BY <1>2 DEF Of
    <3>2. CASE req \in queue \cup news BY <2>1, <3>1, <3>2, <1>1 DEF Pending
    <3>3. CASE req \notin queue \cup news
      <4>1. cache[req] # None /\ seen = Synthesised(cache[req]) /\ cache[req] = cr[req]
        BY <3>3, <1>1, <1>2 DEF WorkerCurrent, CacheCurrent
      <4>2. req \in Live(n)' BY <3>1, <4>1, <1>1 DEF Live
      <4> QED BY <2>1, <4>1, <4>2, <1>1, <1>5
    <3> QED BY <3>2, <3>3
  <2>2. CASE m # n
    <3>1. FromCR(m) BY <2>2, <1>9
    <3>2. ~\E k \in Live(m) : rows[m] = Synthesised(cr[k]) BY <2>2, <1>1, <1>5 DEF Live
    <3>3. PICK k \in Of(m) : Pending(k) BY <2>2, <3>1, <3>2, <1>1, <1>2 DEF CRRowsTrue
    <3>4. k \in CRs /\ k # req BY <2>2 DEF Of
    <3> QED BY <3>3, <3>4, <1>8
  <2> QED BY <2>1, <2>2
<1>13. CacheCurrent' BY <1>1, <1>2 DEF CacheCurrent
<1> QED BY <1>1, <1>7, <1>10, <1>11, <1>12, <1>13 DEF LoadedSoFar, WorkerCurrent

LEMMA SkillStep == SkillInv /\ [Next]_vars => SkillInv'
<1> SUFFICES ASSUME SkillInv, [Next]_vars PROVE SkillInv' OBVIOUS
<1>1. ASSUME NEW k \in CRs, DeleteCR(k) PROVE SkillInv' BY <1>1, WrittenKeeps DEF DeleteCR
<1>2. ASSUME NEW k \in CRs, NEW s \in Specs, Apply(k, s) PROVE SkillInv'
  BY <1>2, WrittenKeeps, SpecsAssumption DEF Apply
<1>3. ASSUME NEW k \in CRs, NEW s \in Specs, Post(k, s) PROVE SkillInv'
  <2> DEFINE p == IF s.priority \in {0, None} THEN 100 ELSE s.priority
  <2>1. s \in Spec0 BY SpecsAssumption
  <2>2. p \in Nat \cup {None} BY <2>1 DEF Spec0
  <2>3. [s EXCEPT !.priority = p] \in Spec0 BY <2>1, <2>2 DEF Spec0
  <2> QED BY <1>3, <2>3, WrittenKeeps DEF Post
<1>4. CASE Start
  BY <1>4, DownKeeps, LoadBuiltinKeeps, StartManagerKeeps DEF Start
<1>5. CASE Crash BY <1>5, DownKeeps
<1>6. CASE \E k \in CRs : Deliver(k) BY <1>6, DeliverKeeps
<1>7. CASE Reconcile
  BY <1>7, GetKeeps, UpsertKeeps, UpsertFailsKeeps, GetSkillKeeps, DeleteSkillKeeps,
     CleanUpFailsKeeps DEF Reconcile
<1>8. CASE UNCHANGED vars
  BY <1>8 DEF vars, memory, bounds, SkillInv, TypeOK, LoadedSoFar, CacheCurrent, WorkerCurrent,
              BuiltinYields, MissingKnown, CRRowsTrue, Up, FromCR, Live, Pending
<1> QED BY <1>1, <1>2, <1>3, <1>4, <1>5, <1>6, <1>7, <1>8 DEF Next, Users

\* The inductive invariant behind RowsTrue.
THEOREM SkillInvariance == Spec => []SkillInv
<1> QED BY SkillInit, SkillStep, PTL DEF Spec

\* For any CRs in any namespaces, any files and any failures: when nothing
\* is on its way for a name, its row is what its CRs say (RowsTrue).
THEOREM TableTellsTheTruth == Spec => []RowsTrue
<1>1. SkillInv => RowsTrue
  <2> SUFFICES ASSUME SkillInv, NEW n \in Names, Settled(n)
               PROVE  /\ FromCR(n) => n \in orphans \/ \E k \in Live(n) : rows[n] = Synthesised(cr[k])
                      /\ \A k \in Live(n) :
                           FromCR(n) \/ (rows[n] = None /\ \E j \in Of(n) : j # k)
                      /\ rows[n] = None /\ n \in Builtins => n \in erased
    BY DEF RowsTrue
  <2> USE DEF SkillInv
  <2>1. Up /\ \A k \in Of(n) : ~Pending(k) BY DEF Settled
  <2>2. FromCR(n) => n \in orphans \/ \E k \in Live(n) : rows[n] = Synthesised(cr[k])
    BY <2>1 DEF CRRowsTrue
  <2>3. ASSUME NEW k \in Live(n) PROVE FromCR(n) \/ (rows[n] = None /\ \E j \in Of(n) : j # k)
    <3>1. k \in CRs /\ cr[k] # None /\ NameOf[k] = n /\ ~Pending(k) BY <2>1 DEF Live, Of
    <3> QED BY <3>1, <2>1 DEF BuiltinYields, MissingKnown
  <2> QED BY <2>1, <2>2, <2>3 DEF MissingKnown
<1> QED BY <1>1, SkillInvariance, PTL
=============================================================================
