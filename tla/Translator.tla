------------------------------ MODULE Translator ------------------------------
(***************************************************************************)
(* What the translator (translator.go) compiles a run into: the skills in  *)
(* the ConfigMap and in the Job's environment, and the chain of models.    *)
(* The rest of the manifests does not depend on the run.                   *)
(***************************************************************************)
EXTENDS Selection

\* ListSkills: the rows by priority, those of the same in the table's order.
ByPriority(rows) ==
  {pair \in (DOMAIN rows) \X (DOMAIN rows) :
     LET s == rows[pair[1]]
         t == rows[pair[2]]
     IN s.priority < t.priority \/ (s.priority = t.priority /\ pair[1] < pair[2])}

ListSkills(rows) == Picked(rows, DOMAIN rows, ByPriority(rows))

\* ListEnabled: those of them that are enabled.
ListEnabled(rows) ==
  LET all == ListSkills(rows)
  IN Subsequence(all, {i \in DOMAIN all : all[i].enabled})

\* No names: every skill; otherwise those of the names that there are, in
\* the order of the names.
Named(skills, n) == {i \in DOMAIN skills : skills[i].name = n}

selectSkills(skills, names) ==
  LET found == Subsequence(names, {k \in DOMAIN names : Named(skills, names[k]) # {}})
  IN IF names = <<>> THEN skills
     ELSE [k \in DOMAIN found |-> skills[CHOOSE i \in Named(skills, found[k]) : TRUE]]

\* The keys of the ConfigMap's data, without ".md".
buildConfigMap(skills) == {skills[k].name : k \in DOMAIN skills}

\* The primary, then the fallbacks in their order; one that cannot be
\* fetched is skipped.
resolveModelChain(fetched, ref, fallbacks) ==
  <<ref>> \o Subsequence(fallbacks, {i \in DOMAIN fallbacks : fallbacks[i] \in fetched})

\* A mutant for AsAsked: every endpoint has the primary's retries.
PrimarysRetries(chain, specs) ==
  [count |-> Len(chain),
   model |-> [i \in 0..(Len(chain) - 1) |->
                [name |-> chain[i + 1], retries |-> specs[chain[1]].retries]],
   first |-> chain[1]]

\* MODEL_COUNT and MODEL_<i>_*, counted from 0, and the single model that
\* older images read.
buildChainEnv(chain, specs) ==
  [count |-> Len(chain),
   model |-> [i \in 0..(Len(chain) - 1) |->
                [name |-> chain[i + 1], retries |-> specs[chain[i + 1]].retries]],
   first |-> chain[1]]

\* What buildJob puts in the agent's environment.
buildJob(skills, chain, specs) ==
  [skills |-> [k \in DOMAIN skills |-> skills[k].name], chain |-> buildChainEnv(chain, specs)]
=============================================================================
