--------------------------------- MODULE Agent ---------------------------------
(***************************************************************************)
(* One agent, from the compilation of its run to the end of its process:   *)
(* the Job and the ConfigMap, the turns of the orchestrator, the retries   *)
(* and fallbacks of the model chain, the findings posted to the controller *)
(* and the counters flushed to it (agent-runtime/runtime).                 *)
(*                                                                         *)
(* The model, the network and the cluster answer as they like.             *)
(***************************************************************************)
EXTENDS Translator, Integers

CONSTANTS
  Names,           \* names of skills
  Rows,            \* the skills in the store, as records [name, enabled, priority]
  Wanted,          \* spec.skills
  ModelConfigRef, Fallbacks,  \* spec.modelConfigRef, spec.fallbackModelConfigRefs
  Specs,           \* what each ModelConfig says: a function to records [retries]
  Leftover,        \* the skills in a ConfigMap that an earlier run of this
                   \* name may have left: nothing deletes one
  MaxTurns,        \* MAX_TURNS
  ContinueLimit,   \* MAX_TOKENS_CONTINUE_LIMIT
  OnMaxTokens,     \* MAX_TOKENS_BEHAVIOR
  MaxRetries,      \* MAX_RETRIES of the reporter
  MaxFindings      \* bound: findings of one run

Models == DOMAIN Specs
Counters == {"retry", "fallback", "exhausted"}

ASSUME SkillsAssumption ==
  /\ Rows \in Seq([name : Names, enabled : BOOLEAN, priority : Int])
  /\ Wanted \in Seq(Names) /\ Leftover \subseteq Names
ASSUME ModelsAssumption ==
  /\ ModelConfigRef \in Models /\ Fallbacks \in Seq(Models)
  /\ \A m \in Models : Specs[m].retries \in Nat
ASSUME TurnsAssumption ==
  /\ MaxTurns \in Nat \ {0} /\ ContinueLimit \in Nat /\ OnMaxTokens \in {"continue", "fail"}
  /\ MaxRetries \in Nat /\ MaxFindings \in Nat

VARIABLES
  keyed,          \* the ModelConfigs whose Secret has the key
  bundle,         \* the ConfigMap of the run's name: whose it is, and its skills
  job,            \* the agent's environment
  pc, exit,       \* place, and how the process ended
  skills, chain,  \* what the agent loaded: skills and endpoints
  turn, ep, attempt, reply, cut,  \* the orchestrator's loop and the chain's two loops
  found, next, tries,  \* findings gathered, the one being posted, posts that failed
  buffer, counted,     \* LLM events in the agent, and the controller's counters
  stored,         \* the controller's table: how often each finding is in it
  calls, broken,  \* history: calls per endpoint this turn, endpoints whose stream broke off
  posts, lost     \* history: posts of each finding, stored ones not answered

inputs   == <<keyed, bundle, job>>
loaded   == <<skills, chain>>
loops    == <<turn, ep, attempt, reply, cut>>
posting  == <<next, tries, stored, posts, lost>>
counting == <<buffer, counted>>
history  == <<calls, broken>>
vars == <<inputs, pc, exit, loaded, loops, found, posting, counting, history>>

None  == [count |-> 0]
NoReply == [stop |-> "none", text |-> "none"]
Findings == 1..MaxFindings

Init ==
  /\ keyed \in SUBSET Models
  /\ bundle \in {[of |-> "nobody", skills |-> {}], [of |-> "earlier", skills |-> Leftover]}
  /\ job = None /\ pc = "compile" /\ exit = "none"
  /\ skills = <<>> /\ chain = <<>>
  /\ turn = 1 /\ ep = 1 /\ attempt = 1 /\ reply = NoReply /\ cut = 0
  /\ found = 0 /\ next = 1 /\ tries = 0
  /\ buffer = [t \in Counters |-> 0] /\ counted = [t \in Counters |-> 0]
  /\ stored = [f \in Findings |-> 0]
  /\ calls = <<>> /\ broken = {}
  /\ posts = [f \in Findings |-> 0] /\ lost = [f \in Findings |-> 0]

(***************************************************************************)
(* The cluster.                                                            *)
(***************************************************************************)

Exit(how) == pc' = "exited" /\ exit' = how

\* The pod is evicted or deleted; no other is started (backoffLimit 0).
Kill ==
  /\ pc \notin {"compile", "exited"} /\ Exit("killed")
  /\ UNCHANGED <<inputs, loaded, loops, found, posting, counting, history>>

(***************************************************************************)
(* Compile, then the creation of what it returned: a ConfigMap that exists *)
(* already counts as created.                                              *)
(***************************************************************************)

Selected == selectSkills(ListEnabled(Rows), Wanted)

CreatedBundle ==
  IF bundle.of = "nobody"
    THEN [of |-> "run", skills |-> buildConfigMap(Selected)] ELSE bundle

Compile ==
  /\ pc = "compile" /\ Selected # <<>>
  /\ \E fetched \in SUBSET Models :   \* those that exist and whose Get succeeds
       /\ ModelConfigRef \in fetched
       /\ job' = buildJob(Selected, resolveModelChain(fetched, ModelConfigRef, Fallbacks), Specs)
  /\ bundle' = CreatedBundle
  /\ pc' = "start"
  /\ UNCHANGED <<keyed, exit, loaded, loops, found, posting, counting, history>>

\* No skill, or no primary: the run fails and there is no agent.
CompileFails ==
  /\ pc = "compile" /\ Exit("no job")
  /\ UNCHANGED <<inputs, loaded, loops, found, posting, counting, history>>

(***************************************************************************)
(* main and run_agent.                                                     *)
(***************************************************************************)

load_skills(names) == Subsequence(names, {k \in DOMAIN names : names[k] \in bundle.skills})

from_env(env) == [i \in 1..env.count |-> env.model[i - 1]]

Untouched == [i \in 1..job.chain.count |-> 0]

\* The kubelet starts the container only when every key is there.
HasKeys == \A i \in DOMAIN job.chain.model : job.chain.model[i].name \in keyed

Start ==
  /\ pc = "start" /\ HasKeys
  /\ skills' = load_skills(job.skills) /\ chain' = from_env(job.chain)
  /\ calls' = Untouched
  /\ IF skills' = <<>> THEN Exit("no skills") ELSE pc' = "call" /\ UNCHANGED exit
  /\ UNCHANGED <<inputs, loops, found, posting, counting, broken>>

\* extract_findings: a line that is not well-formed is dropped.
Extracted(text) == IF text = "finding" THEN 1 ELSE 0

\* After a turn: the next one, or the findings.
NextTurn(on) ==
  /\ IF on /\ turn < MaxTurns THEN pc' = "call" /\ turn' = turn + 1
                               ELSE pc' = "post" /\ UNCHANGED turn
  /\ ep' = 1 /\ attempt' = 1 /\ calls' = Untouched /\ broken' = {}

\* A mutant for the run's property: a stop reason that is not handled.
OtherStopForgotten ==
  LET again == cut + 1 < ContinueLimit /\ OnMaxTokens = "continue"
  IN /\ pc = "read" /\ reply' = NoReply
     /\ found' = found + Extracted(reply.text)
     /\ \/ /\ reply.text = "none" \/ reply.stop = "end_turn"
           /\ NextTurn(FALSE) /\ UNCHANGED cut
        \/ /\ reply.text # "none" /\ reply.stop = "tool_use"
           /\ NextTurn(TRUE) /\ cut' = 0
        \/ /\ reply.text # "none" /\ reply.stop = "max_tokens"
           /\ NextTurn(again) /\ cut' = IF OnMaxTokens = "continue" THEN cut + 1 ELSE cut
     /\ UNCHANGED <<inputs, exit, loaded, posting, counting>>

\* What the reply says next: tools to call, too many tokens, or an end.
ReadReply ==
  LET again == cut + 1 < ContinueLimit /\ OnMaxTokens = "continue"
  IN /\ pc = "read" /\ reply' = NoReply
     /\ found' = found + Extracted(reply.text)
     /\ \/ /\ reply.text = "none" \/ reply.stop \in {"end_turn", "other"}
           /\ NextTurn(FALSE) /\ UNCHANGED cut
        \/ /\ reply.text # "none" /\ reply.stop = "tool_use"
           /\ NextTurn(TRUE) /\ cut' = 0
        \/ /\ reply.text # "none" /\ reply.stop = "max_tokens"
           /\ NextTurn(again) /\ cut' = IF OnMaxTokens = "continue" THEN cut + 1 ELSE cut
     /\ UNCHANGED <<inputs, exit, loaded, posting, counting>>

(***************************************************************************)
(* ModelChain.invoke.                                                      *)
(***************************************************************************)

Called == calls' = [calls EXCEPT ![ep] = @ + 1]
Record(t) == buffer' = [buffer EXCEPT ![t] = @ + 1]

\* A reply without content, with a finding, with text that holds none or
\* a malformed one, or with one whose enum is not even a string, which
\* extract_findings trips over.
Answered(stop, text) ==
  /\ pc = "call" /\ Called /\ UNCHANGED broken
  /\ (text = "finding" => found < MaxFindings)
  /\ IF text = "odd"
       THEN Exit("failed") /\ UNCHANGED reply
       ELSE pc' = "read" /\ reply' = [stop |-> stop, text |-> text] /\ UNCHANGED exit
  /\ UNCHANGED <<inputs, loaded, turn, ep, attempt, cut, found, posting, counting>>

\* The stream ended without its last event: not again on this endpoint.
StreamBroken ==
  /\ pc = "call" /\ Called /\ broken' = broken \cup {ep}
  /\ IF ep < Len(chain)
       THEN Record("fallback") /\ ep' = ep + 1 /\ attempt' = 1 /\ UNCHANGED <<pc, exit>>
       ELSE /\ buffer' = [buffer EXCEPT !["fallback"] = @ + 1, !["exhausted"] = @ + 1]
            /\ Exit("exhausted") /\ UNCHANGED <<ep, attempt>>
  /\ UNCHANGED <<inputs, loaded, turn, reply, cut, found, posting, counted>>

\* A status of 4xx, or an error of httpx that nobody catches (ReadError).
Refused ==
  /\ pc = "call" /\ Called /\ Exit("failed")
  /\ UNCHANGED <<inputs, loaded, loops, found, posting, counting, broken>>

\* Mutants for the run's properties: one retry more, and none at all.
OneRetryMore ==
  /\ pc = "call" /\ Called
  /\ \/ /\ attempt <= 1 + chain[ep].retries
        /\ Record("retry") /\ attempt' = attempt + 1 /\ UNCHANGED <<ep, pc, exit>>
     \/ /\ attempt > 1 + chain[ep].retries /\ ep < Len(chain)
        /\ Record("fallback") /\ ep' = ep + 1 /\ attempt' = 1 /\ UNCHANGED <<pc, exit>>
     \/ /\ attempt > 1 + chain[ep].retries /\ ep = Len(chain)
        /\ Record("exhausted") /\ Exit("exhausted") /\ UNCHANGED <<ep, attempt>>
  /\ UNCHANGED <<inputs, loaded, turn, reply, cut, found, posting, counted, broken>>

FallbackAtOnce ==
  /\ pc = "call" /\ Called
  /\ \/ /\ ep < Len(chain)
        /\ Record("fallback") /\ ep' = ep + 1 /\ attempt' = 1 /\ UNCHANGED <<pc, exit>>
     \/ /\ ep = Len(chain)
        /\ Record("exhausted") /\ Exit("exhausted") /\ UNCHANGED <<ep, attempt>>
  /\ UNCHANGED <<inputs, loaded, turn, reply, cut, found, posting, counted, broken>>

\* 429, 5xx, a timeout, no connection, one cut within a message.
Transient ==
  /\ pc = "call" /\ Called
  /\ \/ /\ attempt < 1 + chain[ep].retries
        /\ Record("retry") /\ attempt' = attempt + 1 /\ UNCHANGED <<ep, pc, exit>>
     \/ /\ attempt = 1 + chain[ep].retries /\ ep < Len(chain)
        /\ Record("fallback") /\ ep' = ep + 1 /\ attempt' = 1 /\ UNCHANGED <<pc, exit>>
     \/ /\ attempt = 1 + chain[ep].retries /\ ep = Len(chain)
        /\ Record("exhausted") /\ Exit("exhausted") /\ UNCHANGED <<ep, attempt>>
  /\ UNCHANGED <<inputs, loaded, turn, reply, cut, found, posting, counted, broken>>

(***************************************************************************)
(* The reporter, and the controller's end of it.                           *)
(***************************************************************************)

\* CreateFinding inserts under a fresh id, if the run's row is there.
Inserted(f) == stored' = [stored EXCEPT ![f] = @ + 1]

Posted(f) == pc = "post" /\ f = next /\ f <= found /\ posts' = [posts EXCEPT ![f] = @ + 1]

PostAnswered(f) ==
  /\ Posted(f) /\ Inserted(f) /\ next' = next + 1 /\ tries' = 0
  /\ UNCHANGED <<inputs, pc, exit, loaded, loops, found, lost, counting, history>>

\* A mutant for the run's property: given up before the last retry.
GivenUpEarly(f) ==
  /\ Posted(f)
  /\ \/ UNCHANGED <<stored, lost>>
     \/ Inserted(f) /\ lost' = [lost EXCEPT ![f] = @ + 1]
  /\ IF tries + 1 < MaxRetries THEN tries' = tries + 1 /\ UNCHANGED next
                               ELSE tries' = 0 /\ next' = next + 1
  /\ UNCHANGED <<inputs, pc, exit, loaded, loops, found, counting, history>>

\* Refused, not delivered, or stored and answered too late (10 s).
PostFails(f) ==
  /\ Posted(f)
  /\ \/ UNCHANGED <<stored, lost>>
     \/ Inserted(f) /\ lost' = [lost EXCEPT ![f] = @ + 1]
  /\ IF tries < MaxRetries THEN tries' = tries + 1 /\ UNCHANGED next
                           ELSE tries' = 0 /\ next' = next + 1
  /\ UNCHANGED <<inputs, pc, exit, loaded, loops, found, counting, history>>

recordLLMEvents == [t \in Counters |-> counted[t] + buffer[t]]

\* The counters in one POST, whose failure is only logged.
Flush ==
  /\ pc = "post" /\ next > found /\ Exit("ok")
  /\ counted' \in {counted, recordLLMEvents}
  /\ buffer' = [t \in Counters |-> 0]
  /\ UNCHANGED <<inputs, loaded, loops, found, posting, history>>

Invoke ==
  \/ \E stop \in {"end_turn", "tool_use", "max_tokens", "other"},
        text \in {"none", "text", "finding", "odd"} : Answered(stop, text)
  \/ StreamBroken \/ Refused \/ Transient

Report == \E f \in Findings : PostAnswered(f) \/ PostFails(f)

Process == Start \/ Invoke \/ ReadReply \/ Report \/ Flush

Next ==
  \/ Compile \/ CompileFails \/ Process \/ Kill

Spec == Init /\ [][Next]_vars

\* The kubelet starts what it can, and the process runs; every call of it
\* has a timeout.
FairSpec == Spec /\ WF_vars(Process)

(***************************************************************************)
(* Properties.                                                             *)
(***************************************************************************)

\* Every variable has its type.
TypeOK ==
  /\ keyed \subseteq Models
  /\ bundle.of \in {"nobody", "earlier", "run"}
  /\ pc \in {"compile", "start", "call", "read", "post", "exited"}
  /\ exit \in {"none", "no job", "no skills", "failed", "exhausted", "killed", "ok"}
  /\ (exit = "none") = (pc # "exited")
  /\ turn \in 1..MaxTurns /\ cut \in 0..MaxTurns
  /\ (pc = "call" => ep \in DOMAIN chain /\ attempt \in 1..(1 + chain[ep].retries))
  /\ found \in 0..MaxFindings /\ next \in 1..(MaxFindings + 1) /\ tries \in 0..MaxRetries
  /\ buffer \in [Counters -> Nat] /\ counted \in [Counters -> Nat]
  /\ stored \in [Findings -> 0..(MaxRetries + 1)]

\* Within a turn the chain is worked off in order: no endpoint gets more
\* calls than it has retries for, none is called before those in front of
\* it failed for good, and only a chain tried to its end is given up.
FallbackInOrder ==
  LET Spent(i) == calls[i] = 1 + chain[i].retries \/ i \in broken
  IN /\ \A i \in DOMAIN calls :
          /\ calls[i] <= 1 + chain[i].retries
          /\ i < ep => Spent(i)
          /\ i > ep => calls[i] = 0
     /\ exit = "exhausted" => \A i \in DOMAIN chain : Spent(i)

\* A finding is stored at most once more often than its answers got lost;
\* an agent that ends well has every finding stored, or gave it up after
\* the last retry; one that fails has reported none, and counted none of
\* its retries and fallbacks: an exhausted chain is never counted.
FindingsAccounted ==
  /\ \A f \in Findings : stored[f] <= 1 + lost[f]
  /\ exit = "ok" => \A f \in 1..found : stored[f] > 0 \/ posts[f] = MaxRetries + 1
  /\ exit \in {"failed", "exhausted"} =>
       (\A f \in Findings : stored[f] = 0) /\ \A t \in Counters : counted[t] = 0
  /\ counted["exhausted"] = 0

\* The agent works with what the run asked for: its skills by name, or all
\* enabled ones by priority, unless a ConfigMap was in the way; and the
\* primary first, then fallbacks in their order, each with its own retries.
AsAsked ==
  pc \in {"call", "read", "post"} =>
    /\ bundle.of = "run" =>
         /\ \A k \in DOMAIN skills : \E s \in DOMAIN Rows : Rows[s].name = skills[k] /\ Rows[s].enabled
         /\ \A s \in DOMAIN Rows :
              (Rows[s].enabled /\ (Wanted = <<>> \/ \E w \in DOMAIN Wanted : Wanted[w] = Rows[s].name)) =>
                 \E k \in DOMAIN skills : skills[k] = Rows[s].name
    /\ chain[1].name = ModelConfigRef
    /\ \A i \in DOMAIN chain : chain[i].retries = Specs[chain[i].name].retries
    /\ \E place \in [2..Len(chain) -> DOMAIN Fallbacks] :
         /\ \A i \in 2..Len(chain) : Fallbacks[place[i]] = chain[i].name
         /\ \A i, j \in 2..Len(chain) : i < j => place[i] < place[j]

\* An agent ends, whatever the models answer; it waits for nothing but a
\* key of its chain's Secrets - a fallback's as well as the primary's.
AgentEnds == (pc = "start") ~> (pc = "exited" \/ (pc = "start" /\ ~HasKeys))
=============================================================================
