----------------------------- MODULE RunContract -----------------------------
(***************************************************************************)
(* What a DiagnosticRun promises to someone who watches the CR and reads   *)
(* the notifications: the lifecycle of docs/crd-user-guide.md, an ending   *)
(* that stays as it was reported, and one announcement of it.              *)
(***************************************************************************)
EXTENDS Naturals

CONSTANTS Runs, Reports   \* Reports: the numbers of findings a CR may summarise

VARIABLES phase, reported, notified

cvars == <<phase, reported, notified>>

Init ==
  /\ phase = [r \in Runs |-> "Absent"]
  /\ reported = [r \in Runs |-> 0]
  /\ notified = [r \in Runs |-> 0]

Submit(r) ==
  /\ phase[r] = "Absent"
  /\ phase' = [phase EXCEPT ![r] = "Pending"]
  /\ UNCHANGED <<reported, notified>>

Start(r) ==
  /\ phase[r] = "Pending"
  /\ phase' = [phase EXCEPT ![r] = "Running"]
  /\ UNCHANGED <<reported, notified>>

End(r) ==
  /\ phase[r] \in {"Pending", "Running"}
  /\ \E p \in {"Succeeded", "Failed"} : phase' = [phase EXCEPT ![r] = p]
  /\ \E n \in Reports : reported' = [reported EXCEPT ![r] = n]
  /\ UNCHANGED notified

Remove(r) ==
  /\ phase[r] \in {"Pending", "Running", "Succeeded", "Failed"}
  /\ phase' = [phase EXCEPT ![r] = "Gone"]
  /\ UNCHANGED <<reported, notified>>

\* The announcement may trail the ending, even past the CR's deletion.
Announce(r) ==
  /\ phase[r] \in {"Succeeded", "Failed", "Gone"}
  /\ notified[r] = 0
  /\ notified' = [notified EXCEPT ![r] = 1]
  /\ UNCHANGED <<phase, reported>>

Next == \E r \in Runs : Submit(r) \/ Start(r) \/ End(r) \/ Remove(r) \/ Announce(r)

Spec == Init /\ [][Next]_cvars
=============================================================================
