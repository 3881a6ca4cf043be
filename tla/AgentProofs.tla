------------------------------ MODULE AgentProofs ------------------------------
(***************************************************************************)
(* Proofs about Agent, for any models, turns, retries and findings.        *)
(***************************************************************************)
EXTENDS Agent, FiniteSetTheorems, TLAPS

(***************************************************************************)
(* The findings and the counters.                                          *)
(***************************************************************************)
PostTypes ==
  /\ found \in 0..MaxFindings /\ next \in 1..(found + 1) /\ tries \in 0..MaxRetries
  /\ stored \in [Findings -> Nat] /\ lost \in [Findings -> Nat] /\ posts \in [Findings -> Nat]
  /\ buffer \in [Counters -> Nat] /\ counted \in [Counters -> Nat]
  /\ reply.text = "finding" => found < MaxFindings

\* What is behind next is done with, next was posted as often as it failed,
\* and nothing else was posted.
PostsInv ==
  \A f \in Findings :
    /\ f < next => stored[f] <= lost[f] + 1 /\ (stored[f] > 0 \/ posts[f] = MaxRetries + 1)
    /\ f >= next => stored[f] <= lost[f]
    /\ f = next => posts[f] = tries
    /\ f > next => posts[f] = 0

\* Until the findings are posted the controller has heard of nothing.
Silent == (\A f \in Findings : stored[f] = 0) /\ \A t \in Counters : counted[t] = 0

PlaceInv ==
  /\ pc \notin {"post", "exited"} \/ exit \in {"failed", "exhausted"} => Silent
  /\ pc # "exited" => exit = "none"
  /\ exit = "ok" => next = found + 1
  /\ counted["exhausted"] = 0 /\ (pc # "exited" => buffer["exhausted"] = 0)

FindInv == PostTypes /\ PostsInv /\ PlaceInv

LEMMA ACount == "exhausted" \in Counters /\ "retry" \in Counters /\ "fallback" \in Counters
BY DEF Counters

LEMMA FindInit == Init => FindInv
<1> SUFFICES ASSUME Init PROVE FindInv OBVIOUS
<1>1. MaxFindings \in Nat /\ MaxRetries \in Nat BY TurnsAssumption
<1>2. PostTypes BY <1>1 DEF Init, PostTypes, NoReply
<1>3. PostsInv BY <1>1 DEF Init, PostsInv, Findings
<1>4. PlaceInv BY <1>1, ACount DEF Init, PlaceInv, Silent
<1> QED BY <1>2, <1>3, <1>4 DEF FindInv

LEMMA FoundGrows ==
  ASSUME PostTypes, UNCHANGED <<next, tries, stored, lost, posts, counted>>,
         buffer' \in [Counters -> Nat],
         found' = found \/ (found' = found + 1 /\ found < MaxFindings),
         reply'.text = "finding" => found' < MaxFindings
  PROVE  PostTypes'
<1>1. MaxFindings \in Nat BY TurnsAssumption
<1>2. found \in Nat /\ found <= MaxFindings /\ next \in Nat /\ 1 <= next /\ next <= found + 1
  BY <1>1 DEF PostTypes
<1>3. found' \in 0..MaxFindings /\ next' \in 1..(found' + 1) BY <1>1, <1>2
<1> QED BY <1>3 DEF PostTypes

\* Nothing is posted; the counters go on in the agent.
LEMMA Working ==
  ASSUME FindInv, UNCHANGED posting, counted' = counted, buffer' \in [Counters -> Nat],
         pc # "exited",
         found' = found \/ (found' = found + 1 /\ found < MaxFindings),
         reply'.text = "finding" => found' < MaxFindings,
         \/ pc' # "exited" /\ exit' = exit /\ buffer'["exhausted"] = 0
            /\ (pc = "post" => pc' = "post")
         \/ /\ pc' = "exited"
            /\ exit' \in {"failed", "exhausted", "killed", "no job", "no skills"}
            /\ exit' = "failed" \/ exit' = "exhausted" => pc # "post"
  PROVE  FindInv'
<1>1. MaxFindings \in Nat /\ MaxRetries \in Nat BY TurnsAssumption
<1>2. /\ next' = next /\ tries' = tries /\ stored' = stored /\ posts' = posts /\ lost' = lost
  BY DEF posting
<1>3. PostTypes' BY <1>2, FoundGrows DEF FindInv
<1>4. PostsInv' BY <1>2 DEF FindInv, PostsInv
<1>5. PlaceInv' BY <1>2 DEF FindInv, PlaceInv, Silent
<1> QED BY <1>3, <1>4, <1>5 DEF FindInv

LEMMA CallsKeep == ASSUME FindInv, Invoke PROVE FindInv'
<1>0. MaxFindings \in Nat BY TurnsAssumption
<1>1. PostTypes /\ PlaceInv BY DEF FindInv
<1>2. ASSUME NEW stop, NEW text, Answered(stop, text) PROVE FindInv'
  <2>1. /\ UNCHANGED posting /\ counted' = counted /\ buffer' = buffer /\ pc = "call"
        /\ found' = found
        /\ reply' = reply \/ (reply' = [stop |-> stop, text |-> text] /\ (text = "finding" => found < MaxFindings))
        /\ \/ pc' = "exited" /\ exit' = "failed"
           \/ pc' = "read" /\ exit' = exit
    BY <1>2 DEF Answered, Exit, counting
  <2>2. reply'.text = "finding" => found' < MaxFindings BY <1>1, <2>1 DEF PostTypes
  <2> QED BY <1>1, <2>1, <2>2, Working DEF PostTypes, PlaceInv
<1>3. CASE StreamBroken
  <2>1. /\ UNCHANGED posting /\ counted' = counted /\ pc = "call" /\ found' = found /\ reply' = reply
        /\ \/ buffer' = [buffer EXCEPT !["fallback"] = @ + 1] /\ pc' = pc /\ exit' = exit
           \/ /\ buffer' = [buffer EXCEPT !["fallback"] = @ + 1, !["exhausted"] = @ + 1]
              /\ pc' = "exited" /\ exit' = "exhausted"
    BY <1>3 DEF StreamBroken, Record, Exit
  <2>2. /\ buffer' \in [Counters -> Nat]
        /\ pc' = pc => buffer'["exhausted"] = buffer["exhausted"]
    BY <1>1, <2>1, ACount DEF PostTypes
  <2> QED BY <1>1, <2>1, <2>2, Working DEF PostTypes, PlaceInv
<1>4. CASE Refused
  <2>1. /\ UNCHANGED posting /\ counted' = counted /\ buffer' = buffer /\ pc = "call"
        /\ found' = found /\ reply' = reply /\ pc' = "exited" /\ exit' = "failed"
    BY <1>4 DEF Refused, Exit, counting, loops
  <2> QED BY <1>1, <2>1, Working DEF PostTypes
<1>5. CASE Transient
  <2>1. /\ UNCHANGED posting /\ counted' = counted /\ pc = "call" /\ found' = found /\ reply' = reply
        /\ \/ /\ buffer' = [buffer EXCEPT !["retry"] = @ + 1] /\ pc' = pc /\ exit' = exit
           \/ /\ buffer' = [buffer EXCEPT !["fallback"] = @ + 1] /\ pc' = pc /\ exit' = exit
           \/ /\ buffer' = [buffer EXCEPT !["exhausted"] = @ + 1]
              /\ pc' = "exited" /\ exit' = "exhausted"
    BY <1>5 DEF Transient, Record, Exit
  <2>2. /\ buffer' \in [Counters -> Nat]
        /\ pc' = pc => buffer'["exhausted"] = buffer["exhausted"]
    BY <1>1, <2>1, ACount DEF PostTypes
  <2> QED BY <1>1, <2>1, <2>2, Working DEF PostTypes, PlaceInv
<1> QED BY <1>2, <1>3, <1>4, <1>5 DEF Invoke

LEMMA TurnsKeep ==
  ASSUME FindInv, Compile \/ CompileFails \/ Start \/ ReadReply \/ Kill PROVE FindInv'
<1>0. MaxFindings \in Nat BY TurnsAssumption
<1>1. PostTypes /\ PlaceInv BY DEF FindInv
<1>2. CASE Compile \/ CompileFails \/ Start \/ Kill
  <2>1. /\ UNCHANGED posting /\ counted' = counted /\ buffer' = buffer /\ pc # "exited"
        /\ found' = found /\ reply' = reply
        /\ \/ pc' \in {"start", "call"} /\ pc # "post" /\ exit' = exit
           \/ pc' = "exited" /\ exit' \in {"no job", "no skills", "killed"}
    BY <1>2 DEF Compile, CompileFails, Start, Kill, Exit, counting, loops
  <2> QED BY <1>1, <2>1, Working DEF PostTypes, PlaceInv
<1>3. CASE ReadReply
  <2>1. /\ UNCHANGED posting /\ counted' = counted /\ buffer' = buffer /\ pc = "read"
        /\ exit' = exit /\ pc' \in {"call", "post"}
        /\ found' = found + Extracted(reply.text) /\ reply' = NoReply
    BY <1>3 DEF ReadReply, NextTurn, counting
  <2>2. reply'.text # "finding" BY <2>1 DEF NoReply
  <2>3. found' = found \/ (found' = found + 1 /\ found < MaxFindings)
    BY <1>0, <1>1, <2>1 DEF Extracted, PostTypes
  <2> QED BY <1>1, <2>1, <2>2, <2>3, Working DEF PostTypes, PlaceInv
<1> QED BY <1>2, <1>3

LEMMA PostsKeep ==
  ASSUME FindInv, NEW f \in Findings, PostAnswered(f) \/ PostFails(f) PROVE FindInv'
<1>0. /\ MaxFindings \in Nat /\ MaxRetries \in Nat BY TurnsAssumption
<1>1. PostTypes /\ PostsInv /\ PlaceInv BY DEF FindInv
<1>2. /\ pc = "post" /\ f = next /\ f <= found /\ posts' = [posts EXCEPT ![f] = @ + 1]
      /\ pc' = pc /\ exit' = exit /\ found' = found /\ buffer' = buffer /\ counted' = counted
      /\ reply' = reply
      /\ \/ /\ stored' = [stored EXCEPT ![f] = @ + 1] /\ lost' = lost
            /\ next' = next + 1 /\ tries' = 0
         \/ /\ \/ stored' = stored /\ lost' = lost
               \/ stored' = [stored EXCEPT ![f] = @ + 1] /\ lost' = [lost EXCEPT ![f] = @ + 1]
            /\ \/ tries < MaxRetries /\ tries' = tries + 1 /\ next' = next
               \/ ~(tries < MaxRetries) /\ tries' = 0 /\ next' = next + 1
  BY DEF PostAnswered, PostFails, Posted, Inserted, counting, loops
<1>3. f \in Nat /\ next \in Nat /\ found \in Nat /\ tries \in Nat /\ tries <= MaxRetries
      /\ \A g \in Findings : g \in Nat
  BY <1>0, <1>1 DEF PostTypes, Findings
<1>4. /\ stored' \in [Findings -> Nat] /\ lost' \in [Findings -> Nat] /\ posts' \in [Findings -> Nat]
      /\ posts'[f] = posts[f] + 1
      /\ \A g \in Findings : g # f =>
           stored'[g] = stored[g] /\ lost'[g] = lost[g] /\ posts'[g] = posts[g]
      /\ \/ stored'[f] = stored[f] /\ lost'[f] = lost[f]
         \/ stored'[f] = stored[f] + 1 /\ lost'[f] = lost[f] + 1
         \/ stored'[f] = stored[f] + 1 /\ lost'[f] = lost[f] /\ next' = next + 1
      /\ next' = next + 1 => stored'[f] = stored[f] + 1 \/ tries = MaxRetries
  BY <1>1, <1>2, <1>3, <1>0 DEF PostTypes
<1>5. PostTypes' BY <1>0, <1>1, <1>2, <1>3, <1>4 DEF PostTypes
<1>6. PostsInv'
  <2> SUFFICES ASSUME NEW g \in Findings
               PROVE /\ g < next' => stored'[g] <= lost'[g] + 1 /\ (stored'[g] > 0 \/ posts'[g] = MaxRetries + 1)
                     /\ g >= next' => stored'[g] <= lost'[g]
                     /\ g = next' => posts'[g] = tries'
                     /\ g > next' => posts'[g] = 0
    BY DEF PostsInv
  <2>1. /\ stored[g] \in Nat /\ lost[g] \in Nat /\ posts[g] \in Nat /\ g \in Nat
        /\ stored'[g] \in Nat /\ lost'[g] \in Nat /\ posts'[g] \in Nat
    BY <1>1, <1>3, <1>4 DEF PostTypes
  <2>2. CASE g # f
    <3>1. stored'[g] = stored[g] /\ lost'[g] = lost[g] /\ posts'[g] = posts[g] BY <1>4, <2>2
    <3>2. /\ g < next => stored[g] <= lost[g] + 1 /\ (stored[g] > 0 \/ posts[g] = MaxRetries + 1)
          /\ g >= next => stored[g] <= lost[g]
          /\ g > next => posts[g] = 0
      BY <1>1 DEF PostsInv
    <3> QED BY <1>2, <1>3, <2>1, <2>2, <3>1, <3>2
  <2>3. CASE g = f
    <3>1. stored[g] <= lost[g] /\ posts[g] = tries BY <1>1, <1>2, <1>3, <2>3 DEF PostsInv
    <3> QED BY <1>0, <1>2, <1>3, <1>4, <2>1, <2>3, <3>1
  <2> QED BY <2>2, <2>3
<1>7. PlaceInv' BY <1>1, <1>2 DEF PlaceInv, Silent
<1> QED BY <1>5, <1>6, <1>7 DEF FindInv

LEMMA FlushKeeps == ASSUME FindInv, Flush PROVE FindInv'
<1>0. MaxFindings \in Nat BY TurnsAssumption
<1>1. PostTypes /\ PostsInv /\ PlaceInv BY DEF FindInv
<1>2. /\ pc = "post" /\ next > found /\ pc' = "exited" /\ exit' = "ok"
      /\ counted' \in {counted, recordLLMEvents} /\ buffer' = [t \in Counters |-> 0]
      /\ found' = found /\ reply' = reply
      /\ next' = next /\ tries' = tries /\ stored' = stored /\ posts' = posts /\ lost' = lost
  BY DEF Flush, Exit, loops, posting
<1>3. counted' \in [Counters -> Nat] /\ counted'["exhausted"] = 0
  BY <1>1, <1>2, ACount DEF recordLLMEvents, PostTypes, PlaceInv
<1>4. PostTypes' BY <1>1, <1>2, <1>3 DEF PostTypes
<1>5. PostsInv' BY <1>1, <1>2 DEF PostsInv
<1>6. next = found + 1 BY <1>0, <1>1, <1>2 DEF PostTypes
<1>7. PlaceInv' BY <1>1, <1>2, <1>3, <1>6 DEF PlaceInv, Silent
<1> QED BY <1>4, <1>5, <1>7 DEF FindInv

LEMMA FindStep == FindInv /\ [Next]_vars => FindInv'
<1> SUFFICES ASSUME FindInv, [Next]_vars PROVE FindInv' OBVIOUS
<1>1. CASE UNCHANGED vars
  BY <1>1 DEF vars, loops, posting, counting, FindInv, PostTypes, PostsInv, PlaceInv, Silent
<1>2. CASE Next
  BY <1>2, CallsKeep, TurnsKeep, PostsKeep, FlushKeeps DEF Next, Process, Report
<1> QED BY <1>1, <1>2

\* Whatever the model and the network answer: a finding is in the table at
\* most once more often than answers were lost, an agent that ends well gave
\* none up before its last retry, and one that fails has reported nothing.
THEOREM FindingsAddUp == Spec => []FindingsAccounted
<1>1. FindInv => FindingsAccounted
  <2> SUFFICES ASSUME FindInv PROVE FindingsAccounted OBVIOUS
  <2>0. MaxFindings \in Nat BY TurnsAssumption
  <2>1. PostTypes /\ PostsInv /\ PlaceInv BY DEF FindInv
  <2>2. \A f \in Findings : stored[f] <= 1 + lost[f]
    <3> TAKE f \in Findings
    <3>1. stored[f] \in Nat /\ lost[f] \in Nat /\ next \in Nat /\ f \in Nat
      BY <2>0, <2>1 DEF PostTypes, Findings
    <3> QED BY <2>1, <3>1 DEF PostsInv
  <2>3. ASSUME exit = "ok", NEW f \in 1..found
        PROVE  stored[f] > 0 \/ posts[f] = MaxRetries + 1
    <3>1. f \in Findings /\ f < next BY <2>0, <2>1, <2>3 DEF PostTypes, PlaceInv, Findings
    <3> QED BY <2>1, <3>1 DEF PostsInv
  <2> QED BY <2>1, <2>2, <2>3 DEF PlaceInv, Silent, FindingsAccounted
<1> QED BY <1>1, FindInit, FindStep, PTL DEF Spec

(***************************************************************************)
(* Selection.                                                              *)
(***************************************************************************)

StrictOrder(K, order) ==
  /\ \A i \in K : <<i, i>> \notin order
  /\ \A i, j \in K : i # j => <<i, j>> \in order \/ <<j, i>> \in order
  /\ \A i, j, k \in K : <<i, j>> \in order /\ <<j, k>> \in order => <<i, k>> \in order

\* A strict total order puts every element of a finite set at a place of its
\* own, and so into a sequence.
LEMMA Ordering ==
  ASSUME NEW K, IsFiniteSet(K), NEW order, StrictOrder(K, order)
  PROVE  /\ Cardinality(K) \in Nat
         /\ InOrder(K, order) \in [1..Cardinality(K) -> K]
         /\ \A i \in K : \E n \in 1..Cardinality(K) : InOrder(K, order)[n] = i
         /\ \A m, n \in 1..Cardinality(K) :
              m < n => <<InOrder(K, order)[m], InOrder(K, order)[n]>> \in order
<1> DEFINE Upto(i) == {j \in K : j = i \/ <<j, i>> \in order}
           N == Cardinality(K)
           place == [i \in K |-> Cardinality(Upto(i))]
           p == InOrder(K, order)
<1>1. N \in Nat /\ IsFiniteSet(1..N) /\ Cardinality(1..N) = N
  BY FS_CardinalityType, FS_Interval
<1>2. ASSUME NEW i \in K PROVE IsFiniteSet(Upto(i)) /\ place[i] \in 1..N
  <2>1. Upto(i) \in SUBSET K /\ i \in Upto(i) OBVIOUS
  <2> HIDE DEF Upto
  <2>2. IsFiniteSet(Upto(i)) /\ Cardinality(Upto(i)) <= N BY <2>1, FS_Subset
  <2>3. Cardinality(Upto(i)) \in Nat /\ Cardinality(Upto(i)) # 0
    BY <2>1, <2>2, FS_CardinalityType, FS_EmptySet
  <2> QED BY <1>1, <2>2, <2>3
<1>3. ASSUME NEW i \in K, NEW j \in K, <<i, j>> \in order PROVE place[i] < place[j]
  <2>1. Upto(i) \in SUBSET Upto(j) BY <1>3 DEF StrictOrder
  <2>2. j \in Upto(j) /\ j \notin Upto(i) BY <1>3 DEF StrictOrder
  <2>3. IsFiniteSet(Upto(j)) /\ IsFiniteSet(Upto(i)) BY <1>2
  <2> HIDE DEF Upto
  <2>4. Cardinality(Upto(i)) <= Cardinality(Upto(j)) /\ Cardinality(Upto(i)) # Cardinality(Upto(j))
    BY <2>1, <2>2, <2>3, FS_Subset
  <2> QED BY <2>3, <2>4, FS_CardinalityType
<1>4. place \in Injection(K, 1..N)
  <2>1. place \in [K -> 1..N] BY <1>2
  <2> HIDE DEF place
  <2>2. ASSUME NEW i \in K, NEW j \in K, place[i] = place[j] PROVE i = j
    <3>1. \A k \in 1..N : k \in Nat BY <1>1
    <3>2. place[i] \in Nat BY <2>1, <3>1
    <3>3. ~(place[i] < place[i]) BY <3>2
    <3>4. i # j => <<i, j>> \in order \/ <<j, i>> \in order BY DEF StrictOrder
    <3> QED BY <1>3, <2>2, <3>3, <3>4
  <2> QED BY <2>1, <2>2 DEF Injection, IsInjective
<1> HIDE DEF place
<1>5. place \in Surjection(K, 1..N) BY <1>1, <1>4, FS_Injection
<1>6. ASSUME NEW n \in 1..N PROVE p[n] \in K /\ place[p[n]] = n
  <2>1. \E i \in K : place[i] = n BY <1>5 DEF Surjection
  <2>2. p[n] = CHOOSE i \in K : Cardinality(Upto(i)) = n BY DEF InOrder, Place
  <2>3. \A i \in K : place[i] = Cardinality(Upto(i)) BY DEF place
  <2> HIDE DEF Upto, p
  <2>4. \E i \in K : Cardinality(Upto(i)) = n BY <2>1, <2>3
  <2>5. p[n] \in K /\ Cardinality(Upto(p[n])) = n BY <2>2, <2>4
  <2> QED BY <2>3, <2>5
<1>7. p \in [1..N -> K]
  <2>1. p = [n \in 1..N |-> p[n]] BY DEF InOrder
  <2> HIDE DEF p
  <2> QED BY <1>6, <2>1
<1> HIDE DEF p, N, Upto
<1>8. \A i \in K : \E n \in 1..N : p[n] = i
  <2> TAKE i \in K
  <2>1. place[i] \in 1..N BY <1>2
  <2>2. p[place[i]] \in K /\ place[p[place[i]]] = place[i] BY <1>6, <2>1
  <2>3. p[place[i]] = i BY <1>4, <2>2 DEF Injection, IsInjective
  <2> QED BY <2>1, <2>3
<1>9. ASSUME NEW m \in 1..N, NEW n \in 1..N, m < n PROVE <<p[m], p[n]>> \in order
  <2>1. p[m] \in K /\ p[n] \in K /\ place[p[m]] = m /\ place[p[n]] = n BY <1>6
  <2>2. m \in Nat /\ n \in Nat BY <1>1
  <2>3. p[m] # p[n] BY <1>9, <2>1, <2>2
  <2>4. <<p[n], p[m]>> \notin order
    <3> SUFFICES ASSUME <<p[n], p[m]>> \in order PROVE FALSE OBVIOUS
    <3>1. place[p[n]] < place[p[m]] BY <1>3, <2>1
    <3> QED BY <1>9, <2>1, <2>2, <3>1
  <2> QED BY <2>1, <2>3, <2>4 DEF StrictOrder
<1> QED BY <1>1, <1>7, <1>8, <1>9 DEF p, N

\* A subsequence has the elements of its indices, in their order, and no
\* other.
LEMMA SubsequenceOf ==
  ASSUME NEW S, NEW s \in Seq(S), NEW K \in SUBSET (1..Len(s))
  PROVE  /\ Subsequence(s, K) \in Seq(S)
         /\ \E p \in [1..Len(Subsequence(s, K)) -> K] :
              /\ \A n \in 1..Len(Subsequence(s, K)) : Subsequence(s, K)[n] = s[p[n]]
              /\ \A i \in K : \E n \in 1..Len(Subsequence(s, K)) : p[n] = i
              /\ \A m, n \in 1..Len(Subsequence(s, K)) : m < n => p[m] < p[n]
<1>1. Len(s) \in Nat /\ s \in [1..Len(s) -> S] OBVIOUS
<1>2. IsFiniteSet(K) /\ K \subseteq Nat
  <2>1. 0 \in Int /\ 1 \in Int /\ Len(s) \in Int BY <1>1
  <2>2. IsFiniteSet(1..Len(s)) BY <2>1, FS_Interval
  <2>3. IsFiniteSet(K) BY <2>2, FS_Subset
  <2> QED BY <1>1, <2>3
<1> DEFINE order == Upward(K)
           p == InOrder(K, order)
<1>3. \A i, j \in K : <<i, j>> \in order <=> i < j BY <1>2 DEF Upward
<1> HIDE DEF order
<1>4. StrictOrder(K, order)
  <2>1. \A i, j, k \in K : i < j /\ j < k => i < k BY <1>2
  <2>2. \A i, j \in K : ~(i < i) /\ (i # j => i < j \/ j < i) BY <1>2
  <2> QED BY <1>3, <2>1, <2>2 DEF StrictOrder
<1>5. /\ Cardinality(K) \in Nat /\ p \in [1..Cardinality(K) -> K]
      /\ \A i \in K : \E n \in 1..Cardinality(K) : p[n] = i
      /\ \A m, n \in 1..Cardinality(K) : m < n => <<p[m], p[n]>> \in order
  BY <1>2, <1>4, Ordering
<1>6. Subsequence(s, K) = [n \in 1..Cardinality(K) |-> s[p[n]]]
  BY DEF Subsequence, Picked, order
<1> HIDE DEF p
<1>7. \A n \in 1..Cardinality(K) : s[p[n]] \in S BY <1>1, <1>5
<1>8. Subsequence(s, K) \in Seq(S) /\ Len(Subsequence(s, K)) = Cardinality(K) BY <1>5, <1>6, <1>7
<1>9. \A m, n \in 1..Cardinality(K) : m < n => p[m] < p[n] BY <1>3, <1>5
<1> QED BY <1>5, <1>6, <1>8, <1>9

(***************************************************************************)
(* The chain.                                                              *)
(***************************************************************************)
Endpoint == [name : Models, retries : Nat]

GoodJob ==
  /\ job.chain.count \in Nat \ {0}
  /\ \A i \in 0..(job.chain.count - 1) : job.chain.model[i] \in Endpoint

Unloaded ==
  /\ pc \in {"compile", "start", "exited"} /\ exit # "exhausted"
  /\ pc # "exited" => exit = "none"
  /\ calls = <<>> /\ ep = 1 /\ attempt = 1
  /\ pc = "start" => GoodJob

LoadedTypes ==
  /\ chain \in Seq(Endpoint) /\ Len(chain) > 0 /\ job.chain.count = Len(chain)
  /\ calls \in [1..Len(chain) -> Nat]
  /\ ep \in 1..Len(chain) /\ attempt \in Nat

\* An endpoint is spent after its last retry, or when its stream broke off.
Spent(i) == calls[i] = 1 + chain[i].retries \/ i \in broken

Loaded ==
  /\ LoadedTypes /\ pc \in {"call", "read", "post", "exited"}
  /\ \A i \in 1..Len(chain) :
       /\ calls[i] <= 1 + chain[i].retries
       /\ i < ep => Spent(i)
       /\ i > ep => calls[i] = 0
       /\ pc = "call" /\ i = ep => calls[i] + 1 = attempt /\ attempt <= 1 + chain[i].retries
       /\ exit = "exhausted" => Spent(i)
  /\ pc # "exited" => exit = "none"

ChainInv == Unloaded \/ Loaded

LEMMA EndpointsOf ==
  ASSUME NEW c \in Seq(Endpoint)
  PROVE  Len(c) \in Nat /\ \A i \in 1..Len(c) : c[i].retries \in Nat
<1>1. \A e \in Endpoint : e.retries \in Nat BY DEF Endpoint
<1>2. Len(c) \in Nat /\ \A i \in 1..Len(c) : c[i] \in Endpoint OBVIOUS
<1> QED BY <1>1, <1>2

\* Whichever ModelConfigs can be fetched, the compiled chain is a sequence of
\* some of them, and not empty.
LEMMA ChainIsASequence ==
  ASSUME NEW fetched
  PROVE  resolveModelChain(fetched, ModelConfigRef, Fallbacks) \in Seq(Models) \ {<<>>}
<1> DEFINE K == {i \in DOMAIN Fallbacks : Fallbacks[i] \in fetched}
<1>1. Fallbacks \in Seq(Models) /\ ModelConfigRef \in Models BY ModelsAssumption
<1>2. K \in SUBSET (1..Len(Fallbacks)) BY <1>1
<1> HIDE DEF K
<1>3. Subsequence(Fallbacks, K) \in Seq(Models) BY <1>1, <1>2, SubsequenceOf
<1>4. resolveModelChain(fetched, ModelConfigRef, Fallbacks) = <<ModelConfigRef>> \o Subsequence(Fallbacks, K)
  BY DEF resolveModelChain, K
<1>5. \A q \in Seq(Models) : <<ModelConfigRef>> \o q \in Seq(Models) /\ Len(<<ModelConfigRef>> \o q) = 1 + Len(q)
  BY <1>1
<1>6. Len(Subsequence(Fallbacks, K)) \in Nat BY <1>3
<1> QED BY <1>3, <1>4, <1>5, <1>6

LEMMA CompiledChain ==
  ASSUME Compile PROVE GoodJob'
<1>1. PICK fetched \in SUBSET Models :
        job' = buildJob(Selected, resolveModelChain(fetched, ModelConfigRef, Fallbacks), Specs)
  BY DEF Compile
<1> DEFINE c == resolveModelChain(fetched, ModelConfigRef, Fallbacks)
<1>2. c \in Seq(Models) /\ c # <<>> BY ChainIsASequence
<1> HIDE DEF c
<1>3. Len(c) \in Nat \ {0} /\ \A i \in 0..(Len(c) - 1) : c[i + 1] \in Models BY <1>2
<1>4. job'.chain = buildChainEnv(c, Specs) BY <1>1 DEF buildJob, c
<1>5. /\ job'.chain.count = Len(c)
      /\ \A i \in 0..(Len(c) - 1) :
           job'.chain.model[i] = [name |-> c[i + 1], retries |-> Specs[c[i + 1]].retries]
  BY <1>4 DEF buildChainEnv
<1>6. \A i \in 0..(Len(c) - 1) : job'.chain.model[i] \in Endpoint
  <2>1. \A m \in Models : [name |-> m, retries |-> Specs[m].retries] \in Endpoint
    BY ModelsAssumption DEF Endpoint
  <2> QED BY <2>1, <1>3, <1>5
<1> QED BY <1>3, <1>5, <1>6 DEF GoodJob

\* A turn begins with a chain that nobody called.
LEMMA TurnBegins ==
  ASSUME chain \in Seq(Endpoint), Len(chain) > 0, job.chain.count = Len(chain),
         chain' = chain, job' = job,
         calls' = Untouched, ep' = 1, attempt' = 1, exit' = "none",
         pc' \in {"call", "post"}
  PROVE  Loaded'
<1>1. Len(chain) \in Nat /\ \A i \in 1..Len(chain) : chain[i].retries \in Nat
  BY EndpointsOf
<1>2. calls' = [i \in 1..Len(chain) |-> 0] BY DEF Untouched
<1>3. LoadedTypes' BY <1>1, <1>2 DEF LoadedTypes
<1> QED BY <1>1, <1>2, <1>3 DEF Loaded, Spent

LEMMA StartKeeps == ASSUME Unloaded, Start PROVE ChainInv'
<1>1. /\ pc = "start" /\ chain' = from_env(job.chain) /\ calls' = Untouched
      /\ job' = job /\ ep' = ep /\ attempt' = attempt
  BY DEF Start, inputs, loops
<1>2. GoodJob BY <1>1 DEF Unloaded
<1> DEFINE n == job.chain.count
<1>3. /\ n \in Nat /\ n > 0 /\ \A i \in 1..n : i - 1 \in 0..(n - 1) BY <1>2 DEF GoodJob
<1>4. chain' = [i \in 1..n |-> job.chain.model[i - 1]] BY <1>1 DEF from_env
<1>5. \A i \in 1..n : job.chain.model[i - 1] \in Endpoint BY <1>2, <1>3 DEF GoodJob
<1> HIDE DEF n
<1>6. chain' \in Seq(Endpoint) /\ Len(chain') = n BY <1>3, <1>4, <1>5
<1>7. job'.chain.count = n BY <1>1 DEF n
<1>8. calls' = [i \in 1..n |-> 0] BY <1>1 DEF Untouched, n
<1>9. LoadedTypes' BY <1>1, <1>3, <1>6, <1>7, <1>8 DEF LoadedTypes, Unloaded
<1>10. /\ pc' \in {"call", "exited"} /\ exit' \in {exit, "no skills"}
       /\ pc' # "exited" => exit' = exit
  BY DEF Start, Exit
<1>11. \A i \in 1..n : chain'[i].retries \in Nat BY <1>6, EndpointsOf
<1>12. exit = "none" /\ ep' = 1 /\ attempt' = 1 BY <1>1 DEF Unloaded
<1>13. \A i \in 1..n :
         /\ calls'[i] = 0 /\ ~(i < 1) /\ 0 <= 1 + chain'[i].retries /\ 1 <= 1 + chain'[i].retries
         /\ 0 + 1 = 1
  BY <1>3, <1>8, <1>11
<1>14. Loaded' BY <1>6, <1>9, <1>10, <1>12, <1>13 DEF Loaded
<1> QED BY <1>14 DEF ChainInv

\* One call more for the endpoint whose turn it is: what it was for shows in
\* where the chain goes on.
LEMMA CallsGoOn ==
  ASSUME Loaded, pc = "call", chain' = chain, job' = job, Called,
         \/ /\ pc' \in {"read", "exited"} /\ exit' # "exhausted"
            /\ (pc' = "read" => exit' = exit) /\ ep' = ep /\ attempt' = attempt /\ broken' = broken
         \/ /\ pc' = pc /\ exit' = exit /\ ep' = ep /\ attempt' = attempt + 1 /\ broken' = broken
            /\ attempt < 1 + chain[ep].retries
         \/ /\ broken' = broken \cup {ep} \/ (broken' = broken /\ attempt = 1 + chain[ep].retries)
            /\ \/ /\ ep < Len(chain) /\ ep' = ep + 1 /\ attempt' = 1 /\ pc' = pc /\ exit' = exit
               \/ /\ ~(ep < Len(chain)) /\ ep' = ep /\ attempt' = attempt
                  /\ pc' = "exited" /\ exit' = "exhausted"
  PROVE  Loaded'
<1>1. LoadedTypes BY DEF Loaded
<1>2. /\ Len(chain) \in Nat /\ ep \in Nat /\ 1 <= ep /\ ep <= Len(chain) /\ attempt \in Nat
      /\ \A i \in 1..Len(chain) : chain[i].retries \in Nat /\ calls[i] \in Nat
  BY <1>1, EndpointsOf DEF LoadedTypes
<1>3. /\ calls' \in [1..Len(chain) -> Nat] /\ calls'[ep] = calls[ep] + 1
      /\ \A i \in 1..Len(chain) : i # ep => calls'[i] = calls[i]
  BY <1>1, <1>2 DEF Called, LoadedTypes
<1>4. ep' \in 1..Len(chain) /\ attempt' \in Nat BY <1>2
<1>5. LoadedTypes' BY <1>1, <1>3, <1>4 DEF LoadedTypes
<1>6. calls[ep] + 1 = attempt /\ attempt <= 1 + chain[ep].retries BY <1>2 DEF Loaded
<1>7. calls'[ep] = attempt BY <1>3, <1>6
<1>8. ASSUME NEW i \in 1..Len(chain)
      PROVE  /\ i < ep => Spent(i)
             /\ i > ep => calls[i] = 0
             /\ calls[i] <= 1 + chain[i].retries
  BY DEF Loaded
<1>9. \A i \in 1..Len(chain) : i # ep /\ Spent(i) => Spent(i)'
  <2> TAKE i \in 1..Len(chain)
  <2>1. i \in broken => i \in broken' OBVIOUS
  <2> QED BY <1>3, <2>1 DEF Spent
<1>10. exit = "none" BY DEF Loaded
<1>11. ASSUME NEW i \in 1..Len(chain), i = ep,
              broken' = broken \cup {ep} \/ attempt = 1 + chain[ep].retries
       PROVE  Spent(i)'
  BY <1>7, <1>11 DEF Spent
<1>12. ASSUME NEW i \in 1..Len(chain)
       PROVE  /\ calls'[i] <= 1 + chain[i].retries
              /\ i < ep' => Spent(i)'
              /\ i > ep' => calls'[i] = 0
              /\ pc' = "call" /\ i = ep' =>
                   calls'[i] + 1 = attempt' /\ attempt' <= 1 + chain[i].retries
              /\ exit' = "exhausted" => Spent(i)'
  <2>0. i \in Nat /\ i <= Len(chain) /\ chain[i].retries \in Nat /\ calls[i] \in Nat BY <1>2
  <2>1. CASE i # ep
    <3>1. calls'[i] = calls[i] BY <1>3, <2>1
    <3>2. i < ep \/ i > ep BY <1>2, <2>0, <2>1
    <3>3. CASE i < ep
      <4>1. Spent(i)' BY <1>8, <1>9, <2>1, <3>3
      <4>2. ~(i > ep') /\ i # ep' BY <1>2, <2>0, <3>3
      <4> QED BY <4>1, <4>2, <3>1, <1>8
    <3>4. CASE i > ep
      <4>1. calls'[i] = 0 BY <1>8, <3>1, <3>4
      <4>2. ~(i < ep') BY <1>2, <2>0, <3>4
      <4>3. exit' # "exhausted" BY <1>2, <1>10, <2>0, <3>4
      <4>4. pc' = "call" /\ i = ep' => attempt' = 1 BY <1>2, <2>0, <3>4
      <4> QED BY <4>1, <4>2, <4>3, <4>4, <2>0
    <3> QED BY <3>2, <3>3, <3>4
  <2>2. CASE i = ep
    <3>1. calls'[i] = attempt /\ calls'[i] <= 1 + chain[i].retries BY <1>6, <1>7, <2>2
    <3>2. ~(i > ep') BY <1>2, <2>2
    <3>3. i < ep' => Spent(i)'
      <4>1. ASSUME i < ep'
            PROVE  broken' = broken \cup {ep} \/ attempt = 1 + chain[ep].retries
        BY <4>1, <1>2, <2>2
      <4> QED BY <4>1, <1>11, <2>2
    <3>4. exit' = "exhausted" => Spent(i)'
      <4>1. ASSUME exit' = "exhausted"
            PROVE  broken' = broken \cup {ep} \/ attempt = 1 + chain[ep].retries
        BY <4>1, <1>10
      <4> QED BY <4>1, <1>11, <2>2
    <3>5. pc' = "call" /\ i = ep' =>
            calls'[i] + 1 = attempt' /\ attempt' <= 1 + chain[i].retries
      <4>1. ASSUME pc' = "call", i = ep'
            PROVE  attempt' = attempt + 1 /\ attempt < 1 + chain[ep].retries
        BY <4>1, <1>2, <2>2
      <4> QED BY <4>1, <1>2, <2>0, <2>2, <3>1
    <3> QED BY <3>1, <3>2, <3>3, <3>4, <3>5
  <2> QED BY <2>1, <2>2
<1>13. pc' \in {"call", "read", "exited"} /\ (pc' # "exited" => exit' = "none") BY <1>10
<1> QED BY <1>5, <1>12, <1>13 DEF Loaded

LEMMA InvokeKeeps == ASSUME Loaded, Invoke PROVE Loaded'
<1>1. ASSUME NEW stop, NEW text, Answered(stop, text) PROVE Loaded'
  <2>1. /\ pc = "call" /\ chain' = chain /\ job' = job /\ Called
        /\ ep' = ep /\ attempt' = attempt /\ broken' = broken
        /\ \/ pc' = "exited" /\ exit' = "failed"
           \/ pc' = "read" /\ exit' = exit
    BY <1>1 DEF Answered, Exit, inputs, loaded
  <2>2. exit' # "exhausted" BY <2>1 DEF Loaded
  <2>3. pc' \in {"read", "exited"} /\ (pc' = "read" => exit' = exit) BY <2>1
  <2> QED BY <2>1, <2>2, <2>3, CallsGoOn
<1>2. CASE StreamBroken
  <2>1. /\ pc = "call" /\ chain' = chain /\ job' = job /\ Called /\ broken' = broken \cup {ep}
        /\ \/ /\ ep < Len(chain) /\ ep' = ep + 1 /\ attempt' = 1 /\ pc' = pc /\ exit' = exit
           \/ /\ ~(ep < Len(chain)) /\ ep' = ep /\ attempt' = attempt
              /\ pc' = "exited" /\ exit' = "exhausted"
    BY <1>2 DEF StreamBroken, Exit, inputs, loaded
  <2> QED BY <2>1, CallsGoOn
<1>3. CASE Refused
  <2>1. /\ pc = "call" /\ chain' = chain /\ job' = job /\ Called
        /\ ep' = ep /\ attempt' = attempt /\ broken' = broken
        /\ pc' = "exited" /\ exit' = "failed"
    BY <1>3 DEF Refused, Exit, inputs, loaded, loops
  <2> QED BY <2>1, CallsGoOn
<1>4. CASE Transient
  <2>1. ep = Len(chain) => ~(ep < Len(chain))
    BY DEF Loaded, LoadedTypes
  <2>2. /\ pc = "call" /\ chain' = chain /\ job' = job /\ Called /\ broken' = broken
        /\ \/ /\ attempt < 1 + chain[ep].retries /\ attempt' = attempt + 1
              /\ ep' = ep /\ pc' = pc /\ exit' = exit
           \/ /\ attempt = 1 + chain[ep].retries /\ ep < Len(chain)
              /\ ep' = ep + 1 /\ attempt' = 1 /\ pc' = pc /\ exit' = exit
           \/ /\ attempt = 1 + chain[ep].retries /\ ~(ep < Len(chain))
              /\ ep' = ep /\ attempt' = attempt /\ pc' = "exited" /\ exit' = "exhausted"
    BY <1>4, <2>1 DEF Transient, Exit, inputs, loaded
  <2> QED BY <2>2, CallsGoOn
<1> QED BY <1>1, <1>2, <1>3, <1>4 DEF Invoke

LEMMA ReadKeeps == ASSUME Loaded, ReadReply PROVE Loaded'
<1>1. /\ chain' = chain /\ job' = job /\ exit' = exit /\ pc = "read" /\ calls' = Untouched
      /\ ep' = 1 /\ attempt' = 1 /\ pc' \in {"call", "post"}
  BY DEF ReadReply, NextTurn, inputs, loaded
<1>2. exit' = "none" BY <1>1 DEF Loaded
<1> QED BY <1>1, <1>2, TurnBegins DEF Loaded, LoadedTypes

\* The chain rests.
LEMMA Resting ==
  ASSUME Loaded, UNCHANGED <<chain, job, calls, ep, attempt, broken>>,
         \/ pc' = pc /\ exit' = exit
         \/ pc' = "exited" /\ exit' \in {"ok", "killed"}
  PROVE  Loaded'
<1>1. LoadedTypes' BY DEF Loaded, LoadedTypes
<1>2. \A i \in 1..Len(chain) : Spent(i)' <=> Spent(i) BY DEF Spent
<1> QED BY <1>1, <1>2 DEF Loaded

LEMMA LoadedStep == ASSUME Loaded, Next PROVE Loaded'
<1>1. pc \in {"call", "read", "post", "exited"} BY DEF Loaded
<1>2. CASE Invoke BY <1>2, InvokeKeeps
<1>3. CASE ReadReply BY <1>3, ReadKeeps
<1>4. CASE Report \/ Flush \/ Kill
  <2>1. /\ UNCHANGED <<chain, job, calls, ep, attempt, broken>>
        /\ \/ pc' = pc /\ exit' = exit
           \/ pc' = "exited" /\ exit' \in {"ok", "killed"}
    BY <1>4 DEF Report, PostAnswered, PostFails, Flush, Kill, Exit, inputs, loaded, loops, history
  <2> QED BY <2>1, Resting
<1> QED BY <1>1, <1>2, <1>3, <1>4 DEF Next, Process, Compile, CompileFails, Start, Exit

LEMMA UnloadedStep == ASSUME Unloaded, Next PROVE ChainInv'
<1>1. pc \in {"compile", "start", "exited"} BY DEF Unloaded
<1>2. CASE Start BY <1>2, StartKeeps
<1>3. CASE Compile
  <2>1. /\ pc = "compile" /\ pc' = "start" /\ exit' = exit /\ UNCHANGED <<calls, ep, attempt>>
    BY <1>3 DEF Compile, loops, history
  <2> QED BY <1>3, <2>1, CompiledChain DEF ChainInv, Unloaded
<1>4. CASE CompileFails \/ Kill
  <2>1. /\ pc' = "exited" /\ exit' \in {"no job", "killed"} /\ UNCHANGED <<calls, ep, attempt>>
    BY <1>4 DEF CompileFails, Kill, Exit, loops, history
  <2> QED BY <2>1 DEF ChainInv, Unloaded
<1> QED
  BY <1>1, <1>2, <1>3, <1>4
  DEF Next, Process, Invoke, Answered, StreamBroken, Refused, Transient, ReadReply, Report,
      PostAnswered, PostFails, Posted, Flush

LEMMA ChainStep == ASSUME ChainInv, [Next]_vars PROVE ChainInv'
<1>1. CASE UNCHANGED vars
  <2>1. UNCHANGED <<chain, job, calls, ep, attempt, broken, pc, exit>>
    BY <1>1 DEF vars, inputs, loaded, loops, history
  <2>2. CASE Loaded BY <2>1, <2>2, Resting DEF ChainInv
  <2>3. CASE Unloaded BY <2>1, <2>3 DEF ChainInv, Unloaded, GoodJob
  <2> QED BY <2>2, <2>3 DEF ChainInv
<1>2. CASE Next BY <1>2, LoadedStep, UnloadedStep DEF ChainInv
<1> QED BY <1>1, <1>2

\* For any chain and any retries, whatever the models answer: no endpoint is
\* called more often than it may be, or before its turn, and a chain is not
\* given up while one of its endpoints was not.
THEOREM NoFallbackTooSoon == Spec => []FallbackInOrder
<1>1. Init => ChainInv BY DEF Init, ChainInv, Unloaded
<1>2. ChainInv /\ [Next]_vars => ChainInv' BY ChainStep
<1>3. ChainInv => FallbackInOrder
  <2>1. CASE Unloaded BY <2>1 DEF Unloaded, FallbackInOrder
  <2>2. CASE Loaded
    <3>1. DOMAIN calls = 1..Len(chain) /\ DOMAIN chain = 1..Len(chain)
      BY <2>2 DEF Loaded, LoadedTypes
    <3> QED BY <2>2, <3>1 DEF Loaded, Spent, FallbackInOrder
  <2> QED BY <2>1, <2>2 DEF ChainInv
<1> QED BY <1>1, <1>2, <1>3, PTL DEF Spec

(***************************************************************************)
(* What the agent works with.                                              *)
(***************************************************************************)
Skill == [name : Names, enabled : BOOLEAN, priority : Int]

IsEnabled(s) == Rows[s].enabled
IsWanted(s)  == Wanted = <<>> \/ \E w \in DOMAIN Wanted : Wanted[w] = Rows[s].name

\* The table's order is one: every row is listed, and nothing else.
LEMMA ListedSkills ==
  /\ ListSkills(Rows) \in Seq(Skill)
  /\ \A n \in DOMAIN ListSkills(Rows) : \E s \in DOMAIN Rows : ListSkills(Rows)[n] = Rows[s]
  /\ \A s \in DOMAIN Rows : \E n \in DOMAIN ListSkills(Rows) : ListSkills(Rows)[n] = Rows[s]
<1> DEFINE K == DOMAIN Rows
           order == ByPriority(Rows)
           p == InOrder(K, order)
<1>1. Rows \in Seq(Skill) /\ K = 1..Len(Rows) /\ Len(Rows) \in Nat
  BY SkillsAssumption DEF Skill
<1>2. IsFiniteSet(K)
  <2>1. 1 \in Int /\ Len(Rows) \in Int BY <1>1
  <2>2. IsFiniteSet(1..Len(Rows)) BY <2>1, FS_Interval
  <2> QED BY <1>1, <2>2
<1>3. \A i \in K : Rows[i] \in Skill /\ Rows[i].priority \in Int /\ i \in Nat
  <2>1. \A s \in Skill : s.priority \in Int BY DEF Skill
  <2> QED BY <1>1, <2>1
<1>4. \A i, j \in K : <<i, j>> \in order <=>
        Rows[i].priority < Rows[j].priority \/ (Rows[i].priority = Rows[j].priority /\ i < j)
  BY DEF ByPriority
<1> HIDE DEF K, order
<1>5. StrictOrder(K, order)
  <2>1. ASSUME NEW i \in K PROVE <<i, i>> \notin order BY <1>3, <1>4
  <2>2. ASSUME NEW i \in K, NEW j \in K, i # j PROVE <<i, j>> \in order \/ <<j, i>> \in order
    BY <1>3, <1>4, <2>2
  <2>3. ASSUME NEW i \in K, NEW j \in K, NEW k \in K, <<i, j>> \in order, <<j, k>> \in order
        PROVE  <<i, k>> \in order
    <3>1. /\ Rows[i].priority \in Int /\ Rows[j].priority \in Int /\ Rows[k].priority \in Int
          /\ i \in Nat /\ j \in Nat /\ k \in Nat
      BY <1>3
    <3> QED BY <1>4, <2>3, <3>1
  <2> QED BY <2>1, <2>2, <2>3 DEF StrictOrder
<1>6. /\ Cardinality(K) \in Nat /\ p \in [1..Cardinality(K) -> K]
      /\ \A i \in K : \E n \in 1..Cardinality(K) : p[n] = i
  BY <1>2, <1>5, Ordering
<1>7. ListSkills(Rows) = [n \in 1..Cardinality(K) |-> Rows[p[n]]]
  BY DEF ListSkills, Picked, K, order
<1> HIDE DEF p
<1>8. \A n \in 1..Cardinality(K) : Rows[p[n]] \in Skill BY <1>3, <1>6
<1>9. ListSkills(Rows) \in Seq(Skill) /\ DOMAIN ListSkills(Rows) = 1..Cardinality(K)
  BY <1>6, <1>7, <1>8
<1>10. \A n \in DOMAIN ListSkills(Rows) : \E s \in DOMAIN Rows : ListSkills(Rows)[n] = Rows[s]
  BY <1>6, <1>7 DEF K
<1>11. \A s \in DOMAIN Rows : \E n \in DOMAIN ListSkills(Rows) : ListSkills(Rows)[n] = Rows[s]
  BY <1>6, <1>7 DEF K
<1> QED BY <1>9, <1>10, <1>11

\* The skills that go to the agent are enabled ones, all that are wanted
\* among them.
LEMMA EnabledSkills ==
  /\ ListEnabled(Rows) \in Seq(Skill)
  /\ \A k \in DOMAIN ListEnabled(Rows) :
       \E s \in DOMAIN Rows : ListEnabled(Rows)[k] = Rows[s] /\ IsEnabled(s)
  /\ \A s \in DOMAIN Rows : IsEnabled(s) =>
       \E k \in DOMAIN ListEnabled(Rows) : ListEnabled(Rows)[k] = Rows[s]
<1> DEFINE all == ListSkills(Rows)
           K == {i \in DOMAIN all : all[i].enabled}
           E == Subsequence(all, K)
<1>1. all \in Seq(Skill) BY ListedSkills
<1>2. K \in SUBSET (1..Len(all)) BY <1>1
<1>3. \A i \in K : i \in DOMAIN all /\ all[i].enabled OBVIOUS
<1>4. \A i \in DOMAIN all : all[i].enabled => i \in K OBVIOUS
<1>5. ListEnabled(Rows) = E BY DEF ListEnabled
<1>6. /\ \A n \in DOMAIN all : \E s \in DOMAIN Rows : all[n] = Rows[s]
      /\ \A s \in DOMAIN Rows : \E n \in DOMAIN all : all[n] = Rows[s]
  BY ListedSkills
<1> HIDE DEF all, K
<1>7. E \in Seq(Skill) BY <1>1, <1>2, SubsequenceOf
<1>8. PICK p \in [1..Len(E) -> K] :
        /\ \A n \in 1..Len(E) : E[n] = all[p[n]]
        /\ \A i \in K : \E n \in 1..Len(E) : p[n] = i
  BY <1>1, <1>2, SubsequenceOf
<1> HIDE DEF E
<1>9. DOMAIN E = 1..Len(E) BY <1>7
<1>10. ASSUME NEW k \in DOMAIN E PROVE \E s \in DOMAIN Rows : E[k] = Rows[s] /\ IsEnabled(s)
  <2>1. p[k] \in K /\ E[k] = all[p[k]] BY <1>8, <1>9
  <2>2. p[k] \in DOMAIN all /\ all[p[k]].enabled BY <1>3, <2>1
  <2>3. PICK s \in DOMAIN Rows : all[p[k]] = Rows[s] BY <1>6, <2>2
  <2>4. Rows[s].enabled BY <2>2, <2>3
  <2> QED BY <2>1, <2>3, <2>4 DEF IsEnabled
<1>11. ASSUME NEW s \in DOMAIN Rows, IsEnabled(s) PROVE \E k \in DOMAIN E : E[k] = Rows[s]
  <2>1. PICK i \in DOMAIN all : all[i] = Rows[s] BY <1>6
  <2>2. i \in K BY <1>4, <1>11, <2>1 DEF IsEnabled
  <2>3. PICK n \in 1..Len(E) : p[n] = i BY <1>8, <2>2
  <2> QED BY <1>8, <1>9, <2>1, <2>3
<1> QED BY <1>5, <1>7, <1>10, <1>11

LEMMA SelectedSkills ==
  /\ Selected \in Seq(Skill)
  /\ \A k \in DOMAIN Selected : \E s \in DOMAIN Rows : Selected[k].name = Rows[s].name /\ IsEnabled(s)
  /\ \A s \in DOMAIN Rows : IsEnabled(s) /\ IsWanted(s) =>
       \E k \in DOMAIN Selected : Selected[k].name = Rows[s].name
<1> DEFINE E == ListEnabled(Rows)
<1>1. /\ E \in Seq(Skill)
      /\ \A k \in DOMAIN E : \E s \in DOMAIN Rows : E[k] = Rows[s] /\ IsEnabled(s)
      /\ \A s \in DOMAIN Rows : IsEnabled(s) => \E k \in DOMAIN E : E[k] = Rows[s]
  BY EnabledSkills
<1>2. Selected = selectSkills(E, Wanted) BY DEF Selected
<1> HIDE DEF E
<1>3. CASE Wanted = <<>>
  <2>1. Selected = E BY <1>2, <1>3 DEF selectSkills
  <2> QED BY <1>1, <2>1
<1>4. CASE Wanted # <<>>
  <2> DEFINE K == {k \in DOMAIN Wanted : Named(E, Wanted[k]) # {}}
             F == Subsequence(Wanted, K)
  <2>1. Wanted \in Seq(Names) BY SkillsAssumption
  <2>2. K \in SUBSET (1..Len(Wanted)) BY <2>1
  <2>3. \A k \in K : k \in DOMAIN Wanted /\ Named(E, Wanted[k]) # {} OBVIOUS
  <2>4. \A k \in DOMAIN Wanted : Named(E, Wanted[k]) # {} => k \in K OBVIOUS
  <2>5. Selected = [k \in DOMAIN F |-> E[CHOOSE i \in Named(E, F[k]) : TRUE]]
    BY <1>2, <1>4 DEF selectSkills
  <2> HIDE DEF K
  <2>6. F \in Seq(Names) BY <2>1, <2>2, SubsequenceOf
  <2>7. PICK p \in [1..Len(F) -> K] :
          /\ \A n \in 1..Len(F) : F[n] = Wanted[p[n]]
          /\ \A i \in K : \E n \in 1..Len(F) : p[n] = i
    BY <2>1, <2>2, SubsequenceOf
  <2> HIDE DEF F
  <2>8. DOMAIN F = 1..Len(F) /\ Len(F) \in Nat BY <2>6
  <2>9. ASSUME NEW k \in DOMAIN F
        PROVE  \E i \in DOMAIN E : Selected[k] = E[i] /\ E[i].name = F[k]
    <3>1. Named(E, F[k]) # {} BY <2>3, <2>7, <2>8
    <3>2. (CHOOSE i \in Named(E, F[k]) : TRUE) \in Named(E, F[k]) BY <3>1
    <3>3. Selected[k] = E[CHOOSE i \in Named(E, F[k]) : TRUE] BY <2>5
    <3> QED BY <3>2, <3>3 DEF Named
  <2>10. \A k \in DOMAIN F : Selected[k] \in Skill
    <3>1. \A i \in DOMAIN E : E[i] \in Skill BY <1>1
    <3> QED BY <2>9, <3>1
  <2>11. DOMAIN Selected = 1..Len(F) /\ Selected \in Seq(Skill) BY <2>5, <2>8, <2>10
  <2>12. ASSUME NEW k \in DOMAIN Selected
         PROVE  \E s \in DOMAIN Rows : Selected[k].name = Rows[s].name /\ IsEnabled(s)
    <3>1. PICK i \in DOMAIN E : Selected[k] = E[i] BY <2>8, <2>9, <2>11
    <3>2. PICK s \in DOMAIN Rows : E[i] = Rows[s] /\ IsEnabled(s) BY <1>1
    <3> QED BY <3>1, <3>2
  <2>13. ASSUME NEW s \in DOMAIN Rows, IsEnabled(s), IsWanted(s)
         PROVE  \E k \in DOMAIN Selected : Selected[k].name = Rows[s].name
    <3>1. PICK w \in DOMAIN Wanted : Wanted[w] = Rows[s].name BY <1>4, <2>13 DEF IsWanted
    <3>2. PICK i \in DOMAIN E : E[i] = Rows[s] BY <1>1, <2>13
    <3>3. i \in Named(E, Wanted[w]) BY <3>1, <3>2 DEF Named
    <3>4. w \in K BY <2>4, <3>3
    <3>5. PICK n \in 1..Len(F) : p[n] = w BY <2>7, <3>4
    <3>6. F[n] = Rows[s].name BY <2>7, <3>1, <3>5
    <3> QED BY <2>8, <2>9, <2>11, <3>6
  <2> QED BY <2>11, <2>12, <2>13
<1> QED BY <1>3, <1>4

\* AsAsked says two things: what the skills are, and what the chain is.
SkillsAsAsked(got) ==
  /\ \A k \in DOMAIN got : \E s \in DOMAIN Rows : Rows[s].name = got[k] /\ IsEnabled(s)
  /\ \A s \in DOMAIN Rows : IsEnabled(s) /\ IsWanted(s) => \E k \in DOMAIN got : got[k] = Rows[s].name

ChainAsAsked(got) ==
  /\ got[1].name = ModelConfigRef
  /\ \A i \in DOMAIN got : got[i].retries = Specs[got[i].name].retries
  /\ \E place \in [2..Len(got) -> DOMAIN Fallbacks] :
       /\ \A i \in 2..Len(got) : Fallbacks[place[i]] = got[i].name
       /\ \A i, j \in 2..Len(got) : i < j => place[i] < place[j]

AreSelected(names) ==
  /\ names \in Seq(Names) /\ DOMAIN names = DOMAIN Selected
  /\ \A k \in DOMAIN Selected : names[k] = Selected[k].name

LEMMA SelectedNames == AreSelected([k \in DOMAIN Selected |-> Selected[k].name])
<1>1. Selected \in Seq(Skill) BY SelectedSkills
<1>2. DOMAIN Selected = 1..Len(Selected) /\ Len(Selected) \in Nat
      /\ \A k \in DOMAIN Selected : Selected[k].name \in Names
  <2>1. \A s \in Skill : s.name \in Names BY DEF Skill
  <2> QED BY <1>1, <2>1
<1> QED BY <1>2 DEF AreSelected

\* A ConfigMap of this run loses none of its skills.
LEMMA LoadedSkills ==
  ASSUME NEW names, AreSelected(names),
         bundle.skills = buildConfigMap(Selected)
  PROVE  SkillsAsAsked(load_skills(names))
<1> DEFINE K == {k \in DOMAIN names : names[k] \in bundle.skills}
           F == Subsequence(names, K)
<1>1. /\ Selected \in Seq(Skill)
      /\ \A k \in DOMAIN Selected : \E s \in DOMAIN Rows : Selected[k].name = Rows[s].name /\ IsEnabled(s)
      /\ \A s \in DOMAIN Rows : IsEnabled(s) /\ IsWanted(s) =>
           \E k \in DOMAIN Selected : Selected[k].name = Rows[s].name
  BY SelectedSkills
<1>3. names \in Seq(Names) /\ DOMAIN names = DOMAIN Selected
      /\ \A k \in DOMAIN Selected : names[k] = Selected[k].name
  BY DEF AreSelected
<1>4. K = DOMAIN names BY <1>3 DEF buildConfigMap
<1>5. load_skills(names) = F BY DEF load_skills
<1> HIDE DEF K
<1>6. K \in SUBSET (1..Len(names)) BY <1>3, <1>4
<1>12. names \in Seq(Names) BY <1>3
<1>7. F \in Seq(Names) BY <1>6, <1>12, SubsequenceOf
<1>8. PICK p \in [1..Len(F) -> K] :
        /\ \A n \in 1..Len(F) : F[n] = names[p[n]]
        /\ \A i \in K : \E n \in 1..Len(F) : p[n] = i
  BY <1>6, <1>12, SubsequenceOf
<1> HIDE DEF F
<1>9. DOMAIN F = 1..Len(F) BY <1>7
<1>10. ASSUME NEW k \in DOMAIN F
       PROVE  \E s \in DOMAIN Rows : Rows[s].name = F[k] /\ IsEnabled(s)
  <2>1. p[k] \in DOMAIN Selected /\ F[k] = Selected[p[k]].name BY <1>3, <1>4, <1>8, <1>9
  <2> QED BY <1>1, <2>1
<1>11. ASSUME NEW s \in DOMAIN Rows, IsEnabled(s), IsWanted(s)
       PROVE  \E k \in DOMAIN F : F[k] = Rows[s].name
  <2>1. PICK i \in DOMAIN Selected : Selected[i].name = Rows[s].name BY <1>1, <1>11
  <2>2. PICK n \in 1..Len(F) : p[n] = i BY <1>3, <1>4, <1>8, <2>1
  <2>3. n \in DOMAIN F /\ F[n] = names[i] BY <1>8, <1>9, <2>2
  <2> QED BY <1>3, <2>1, <2>3
<1> QED BY <1>5, <1>10, <1>11 DEF SkillsAsAsked

\* What the agent makes of its environment is the compiled chain.
LEMMA LoadedChain ==
  ASSUME NEW fetched
  PROVE  ChainAsAsked(from_env(buildChainEnv(
           resolveModelChain(fetched, ModelConfigRef, Fallbacks), Specs)))
<1> DEFINE K == {i \in DOMAIN Fallbacks : Fallbacks[i] \in fetched}
           F == Subsequence(Fallbacks, K)
           c == resolveModelChain(fetched, ModelConfigRef, Fallbacks)
           got == from_env(buildChainEnv(c, Specs))
<1>1. Fallbacks \in Seq(Models) /\ ModelConfigRef \in Models BY ModelsAssumption
<1>2. K \in SUBSET (1..Len(Fallbacks)) /\ DOMAIN Fallbacks = 1..Len(Fallbacks) BY <1>1
<1>3. c = <<ModelConfigRef>> \o F BY DEF resolveModelChain
<1>4. got = [i \in 1..Len(c) |-> [name |-> c[(i - 1) + 1], retries |-> Specs[c[(i - 1) + 1]].retries]]
  <2>1. buildChainEnv(c, Specs).count = Len(c) BY DEF buildChainEnv
  <2>2. buildChainEnv(c, Specs).model =
          [i \in 0..(Len(c) - 1) |-> [name |-> c[i + 1], retries |-> Specs[c[i + 1]].retries]]
    BY DEF buildChainEnv
  <2>3. Len(c) \in Nat BY ChainIsASequence
  <2> HIDE DEF c
  <2>4. \A i \in 1..Len(c) : i - 1 \in 0..(Len(c) - 1) BY <2>3
  <2>5. \A i \in 1..Len(c) : buildChainEnv(c, Specs).model[i - 1] =
          [name |-> c[(i - 1) + 1], retries |-> Specs[c[(i - 1) + 1]].retries]
    BY <2>2, <2>4
  <2> QED BY <2>1, <2>5 DEF from_env
<1> HIDE DEF K, c, got
<1>5. F \in Seq(Models) BY <1>1, <1>2, SubsequenceOf
<1>6. PICK p \in [1..Len(F) -> K] :
        /\ \A n \in 1..Len(F) : F[n] = Fallbacks[p[n]]
        /\ \A m, n \in 1..Len(F) : m < n => p[m] < p[n]
  BY <1>1, <1>2, SubsequenceOf
<1> HIDE DEF F
<1>7. /\ Len(F) \in Nat /\ Len(c) = 1 + Len(F) /\ c[1] = ModelConfigRef
      /\ \A i \in 2..Len(c) : i - 1 \in 1..Len(F) /\ c[i] = F[i - 1]
  <2>1. Len(F) \in Nat /\ <<ModelConfigRef>> \in Seq(Models) BY <1>1, <1>5
  <2>2. Len(c) = 1 + Len(F) BY <1>3, <1>5, <2>1
  <2>3. c[1] = ModelConfigRef BY <1>3, <1>5, <2>1
  <2>4. \A i \in 2..Len(c) : i - 1 \in 1..Len(F) /\ c[i] = F[i - 1]
    BY <1>3, <1>5, <2>1, <2>2
  <2> QED BY <2>1, <2>2, <2>3, <2>4
<1>8. /\ got = [i \in 1..Len(c) |-> [name |-> c[i], retries |-> Specs[c[i]].retries]]
  BY <1>4, <1>7
<1>9. /\ DOMAIN got = 1..Len(c) /\ Len(got) = Len(c)
      /\ \A i \in 1..Len(c) : got[i].name = c[i] /\ got[i].retries = Specs[c[i]].retries
  BY <1>7, <1>8
<1>10. got[1].name = ModelConfigRef BY <1>7, <1>9
<1>11. \A i \in DOMAIN got : got[i].retries = Specs[got[i].name].retries BY <1>9
<1> DEFINE place == [i \in 2..Len(got) |-> p[i - 1]]
<1>12. place \in [2..Len(got) -> DOMAIN Fallbacks]
  BY <1>2, <1>6, <1>7, <1>9
<1>13. \A i \in 2..Len(got) : Fallbacks[place[i]] = got[i].name
  <2> TAKE i \in 2..Len(got)
  <2>1. i - 1 \in 1..Len(F) /\ c[i] = F[i - 1] /\ i \in 1..Len(c) BY <1>7, <1>9
  <2> QED BY <1>6, <1>9, <2>1
<1>14. \A i, j \in 2..Len(got) : i < j => place[i] < place[j]
  <2> TAKE i, j \in 2..Len(got)
  <2>1. i - 1 \in 1..Len(F) /\ j - 1 \in 1..Len(F) /\ (i < j => i - 1 < j - 1) BY <1>7, <1>9
  <2> QED BY <1>6, <2>1
<1> HIDE DEF place
<1> QED BY <1>10, <1>11, <1>12, <1>13, <1>14 DEF ChainAsAsked, got, c

\* A ConfigMap of this run holds what was selected; a Job that waits for its
\* keys, what was compiled.
AskedInv ==
  /\ pc = "compile" => bundle.of # "run"
  /\ bundle.of = "run" => bundle.skills = buildConfigMap(Selected)
  /\ pc = "start" => \E fetched \in SUBSET Models :
       job = buildJob(Selected, resolveModelChain(fetched, ModelConfigRef, Fallbacks), Specs)
  /\ pc \in {"call", "read", "post"} =>
       (bundle.of = "run" => SkillsAsAsked(skills)) /\ ChainAsAsked(chain)

LEMMA AskedStep == ASSUME AskedInv, [Next]_vars PROVE AskedInv'
<1>1. CASE Compile
  <2>1. /\ pc = "compile" /\ pc' = "start" /\ bundle' = CreatedBundle
        /\ \E fetched \in SUBSET Models :
             job' = buildJob(Selected, resolveModelChain(fetched, ModelConfigRef, Fallbacks), Specs)
    BY <1>1 DEF Compile
  <2>2. bundle'.of = "run" => bundle'.skills = buildConfigMap(Selected)
    BY <2>1 DEF AskedInv, CreatedBundle
  <2> QED BY <2>1, <2>2 DEF AskedInv
<1>2. CASE Start
  <2>1. /\ pc = "start" /\ pc' \in {"call", "exited"} /\ bundle' = bundle /\ job' = job
        /\ skills' = load_skills(job.skills) /\ chain' = from_env(job.chain)
    BY <1>2 DEF Start, Exit, inputs
  <2>2. PICK fetched \in SUBSET Models :
          job = buildJob(Selected, resolveModelChain(fetched, ModelConfigRef, Fallbacks), Specs)
    BY <2>1 DEF AskedInv
  <2>3. /\ job.skills = [k \in DOMAIN Selected |-> Selected[k].name]
        /\ job.chain = buildChainEnv(resolveModelChain(fetched, ModelConfigRef, Fallbacks), Specs)
    BY <2>2 DEF buildJob
  <2>4. ChainAsAsked(chain') BY <2>1, <2>3, LoadedChain
  <2>5. bundle.of = "run" => bundle.skills = buildConfigMap(Selected) BY DEF AskedInv
  <2>6. bundle.of = "run" => SkillsAsAsked(skills') BY <2>1, <2>3, <2>5, SelectedNames, LoadedSkills
  <2> QED BY <2>1, <2>4, <2>5, <2>6 DEF AskedInv
<1>3. CASE CompileFails \/ Kill \/ Invoke \/ ReadReply \/ Report \/ Flush \/ UNCHANGED vars
  <2>1. /\ UNCHANGED <<bundle, job, skills, chain>>
        /\ pc' = pc \/ pc' = "exited" \/ (pc \in {"call", "read", "post"} /\ pc' \in {"call", "read", "post"})
    BY <1>3 DEF CompileFails, Kill, Invoke, Answered, StreamBroken, Refused, Transient, ReadReply,
                NextTurn, Report, PostAnswered, PostFails, Flush, Exit, inputs, loaded, vars
  <2> QED BY <2>1 DEF AskedInv
<1> QED BY <1>1, <1>2, <1>3 DEF Next, Process

\* Whatever skills, models and ConfigMaps there are: an agent at work has the
\* run's skills, unless a ConfigMap was in the way, and the primary first,
\* then fallbacks in their order, each with its own retries (AsAsked).
THEOREM WorksAsAsked == Spec => []AsAsked
<1>1. Init => AskedInv BY DEF Init, AskedInv
<1>2. AskedInv /\ [Next]_vars => AskedInv' BY AskedStep
<1>3. AskedInv => AsAsked BY DEF AskedInv, AsAsked, SkillsAsAsked, ChainAsAsked, IsEnabled, IsWanted
<1> QED BY <1>1, <1>2, <1>3, PTL DEF Spec

(***************************************************************************)
(* Types.                                                                  *)
(***************************************************************************)

\* A finding is stored by its posts only, and a post fails at most once more
\* often than it is tried again.
PostsBounded ==
  \A f \in Findings :
    /\ stored[f] <= posts[f]
    /\ f < next => posts[f] <= MaxRetries + 1

\* A turn that is under way was cut off less often than there were turns.
TurnsInv ==
  /\ keyed \subseteq Models /\ bundle.of \in {"nobody", "earlier", "run"}
  /\ pc \in {"compile", "start", "call", "read", "post", "exited"}
  /\ exit \in {"none", "no job", "no skills", "failed", "exhausted", "killed", "ok"}
  /\ exit = "none" <=> pc # "exited"
  /\ turn \in 1..MaxTurns /\ cut \in Nat /\ cut <= turn
  /\ pc \in {"compile", "start", "call", "read"} => cut < turn

LEMMA TurnsStep == ASSUME TurnsInv, [Next]_vars PROVE TurnsInv'
<1>0. MaxTurns \in Nat \ {0} BY TurnsAssumption
<1>1. CASE Compile
  BY <1>1 DEF Compile, CreatedBundle, loops, TurnsInv
<1>2. CASE CompileFails \/ Kill \/ Start \/ Report \/ Flush
  <2>1. /\ UNCHANGED <<keyed, bundle, turn, cut>>
        /\ \/ pc' = pc /\ exit' = exit
           \/ pc' = "call" /\ pc = "start" /\ exit' = exit
           \/ pc' = "exited" /\ exit' \in {"no job", "no skills", "killed", "ok"}
    BY <1>2 DEF CompileFails, Kill, Start, Report, PostAnswered, PostFails, Flush, Exit, inputs, loops
  <2> QED BY <2>1 DEF TurnsInv
<1>3. CASE Invoke
  <2>1. /\ UNCHANGED <<keyed, bundle, turn, cut>> /\ pc = "call"
        /\ \/ pc' \in {"call", "read"} /\ exit' = exit
           \/ pc' = "exited" /\ exit' \in {"failed", "exhausted"}
    BY <1>3 DEF Invoke, Answered, StreamBroken, Refused, Transient, Exit, inputs, loops
  <2> QED BY <2>1 DEF TurnsInv
<1>4. CASE ReadReply
  <2>1. /\ UNCHANGED <<keyed, bundle, exit>> /\ pc = "read"
        /\ cut' \in {0, cut, cut + 1}
        /\ \/ pc' = "call" /\ turn < MaxTurns /\ turn' = turn + 1
           \/ pc' = "post" /\ turn' = turn
    BY <1>4 DEF ReadReply, NextTurn, inputs
  <2>2. cut \in Nat /\ turn \in Nat /\ 1 <= turn /\ cut < turn BY <1>0, <2>1 DEF TurnsInv
  <2>3. cut' \in Nat /\ cut' <= turn BY <2>1, <2>2
  <2>4. turn' \in 1..MaxTurns /\ cut' <= turn' /\ (pc' # "post" => cut' < turn')
    BY <1>0, <2>1, <2>2, <2>3 DEF TurnsInv
  <2> QED BY <2>1, <2>3, <2>4 DEF TurnsInv
<1>5. CASE UNCHANGED vars BY <1>5 DEF vars, inputs, loops, TurnsInv
<1> QED BY <1>1, <1>2, <1>3, <1>4, <1>5 DEF Next, Process

LEMMA BoundedStep == ASSUME FindInv, PostsBounded, [Next]_vars PROVE PostsBounded'
<1>0. MaxFindings \in Nat /\ MaxRetries \in Nat BY TurnsAssumption
<1>1. CASE UNCHANGED <<stored, posts, next>> BY <1>1 DEF PostsBounded
<1>2. ASSUME NEW f \in Findings, PostAnswered(f) \/ PostFails(f) PROVE PostsBounded'
  <2>1. /\ f = next /\ posts' = [posts EXCEPT ![f] = @ + 1]
        /\ stored' = stored \/ stored' = [stored EXCEPT ![f] = @ + 1]
        /\ next' \in {next, next + 1}
    BY <1>2 DEF PostAnswered, PostFails, Posted, Inserted
  <2>2. /\ next \in Nat /\ tries \in Nat /\ tries <= MaxRetries /\ posts[f] = tries
        /\ stored \in [Findings -> Nat] /\ posts \in [Findings -> Nat]
    BY <1>0, <2>1 DEF FindInv, PostTypes, PostsInv
  <2> SUFFICES ASSUME NEW g \in Findings
               PROVE  /\ stored'[g] <= posts'[g]
                      /\ g < next' => posts'[g] <= MaxRetries + 1
    BY DEF PostsBounded
  <2>3. /\ stored[g] \in Nat /\ posts[g] \in Nat /\ stored[g] <= posts[g]
        /\ g < next => posts[g] <= MaxRetries + 1
    BY <2>2 DEF PostsBounded
  <2>4. g \in Nat BY <1>0 DEF Findings
  <2>5. CASE g = f
    <3>1. posts'[g] = tries + 1 /\ stored'[g] \in {stored[g], stored[g] + 1}
      BY <2>1, <2>2, <2>5
    <3> QED BY <1>0, <2>2, <2>3, <2>5, <3>1
  <2>6. CASE g # f
    <3>1. posts'[g] = posts[g] /\ stored'[g] = stored[g] BY <2>1, <2>2, <2>6
    <3>2. g < next' => g < next BY <2>1, <2>2, <2>4, <2>6
    <3> QED BY <2>3, <3>1, <3>2
  <2> QED BY <2>5, <2>6
<1>3. CASE Compile \/ CompileFails \/ Kill \/ Start \/ Invoke \/ ReadReply \/ Flush \/ UNCHANGED vars
  <2>1. UNCHANGED <<stored, posts, next>>
    BY <1>3 DEF Compile, CompileFails, Kill, Start, Invoke, Answered, StreamBroken, Refused,
                Transient, ReadReply, Flush, posting, vars
  <2> QED BY <1>1, <2>1
<1> QED BY <1>2, <1>3 DEF Next, Process, Report

\* Every variable has its type (TypeOK): no call goes past an endpoint's last
\* retry, and no finding is stored more often than it may be posted.
THEOREM AgentTypeCorrect == Spec => []TypeOK
<1>1. Init => TurnsInv /\ PostsBounded
  <2> SUFFICES ASSUME Init PROVE TurnsInv /\ PostsBounded OBVIOUS
  <2>1. MaxTurns \in Nat \ {0} /\ MaxRetries \in Nat BY TurnsAssumption
  <2>2. TurnsInv BY <2>1 DEF Init, TurnsInv
  <2>3. PostsBounded BY <2>1 DEF Init, PostsBounded
  <2> QED BY <2>2, <2>3
<1>2. TurnsInv /\ [Next]_vars => TurnsInv' BY TurnsStep
<1>3. FindInv /\ PostsBounded /\ [Next]_vars => PostsBounded' BY BoundedStep
<1>4. ChainInv /\ [Next]_vars => ChainInv' BY ChainStep
<1>5. Init => ChainInv BY DEF Init, ChainInv, Unloaded
<1>6. FindInv /\ PostsBounded /\ TurnsInv /\ ChainInv => TypeOK
  <2> SUFFICES ASSUME FindInv, PostsBounded, TurnsInv, ChainInv PROVE TypeOK OBVIOUS
  <2>0. /\ MaxFindings \in Nat /\ MaxRetries \in Nat /\ MaxTurns \in Nat BY TurnsAssumption
  <2>1. PostTypes /\ PostsInv BY DEF FindInv
  <2>2. ASSUME NEW f \in Findings PROVE stored[f] \in 0..(MaxRetries + 1)
    <3>1. /\ stored[f] \in Nat /\ posts[f] \in Nat /\ stored[f] <= posts[f]
          /\ f \in Nat /\ next \in Nat /\ tries \in Nat /\ tries <= MaxRetries
      BY <2>0, <2>1 DEF PostTypes, PostsBounded, Findings
    <3>2. posts[f] <= MaxRetries + 1
      <4>1. CASE f < next BY <4>1 DEF PostsBounded
      <4>2. CASE f = next BY <2>0, <2>1, <3>1, <4>2 DEF PostsInv
      <4>3. CASE f > next BY <2>0, <2>1, <3>1, <4>3 DEF PostsInv
      <4> QED BY <3>1, <4>1, <4>2, <4>3
    <3> QED BY <2>0, <3>1, <3>2
  <2>3. stored \in [Findings -> 0..(MaxRetries + 1)] BY <2>1, <2>2 DEF PostTypes
  <2>4. next \in 1..(MaxFindings + 1) BY <2>0, <2>1 DEF PostTypes
  <2>5. pc = "call" => ep \in DOMAIN chain /\ attempt \in 1..(1 + chain[ep].retries)
    <3> SUFFICES ASSUME pc = "call" PROVE ep \in DOMAIN chain /\ attempt \in 1..(1 + chain[ep].retries)
      OBVIOUS
    <3>1. Loaded /\ LoadedTypes BY DEF ChainInv, Unloaded, Loaded
    <3>2. /\ ep \in 1..Len(chain) /\ DOMAIN chain = 1..Len(chain) /\ calls[ep] \in Nat
          /\ chain[ep].retries \in Nat /\ attempt \in Nat
      BY <3>1, EndpointsOf DEF LoadedTypes
    <3>3. calls[ep] + 1 = attempt /\ attempt <= 1 + chain[ep].retries BY <3>1, <3>2 DEF Loaded
    <3> QED BY <3>2, <3>3
  <2>6. cut \in 0..MaxTurns
    <3>1. cut \in Nat /\ turn \in 1..MaxTurns /\ cut <= turn BY DEF TurnsInv
    <3> QED BY <2>0, <3>1
  <2> QED BY <2>1, <2>3, <2>4, <2>5, <2>6 DEF TurnsInv, PostTypes, TypeOK
<1> QED BY <1>1, <1>2, <1>3, <1>4, <1>5, <1>6, FindInit, FindStep, PTL DEF Spec
=============================================================================
