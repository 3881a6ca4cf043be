---------------------------- MODULE FixContract -----------------------------
(***************************************************************************)
(* What a DiagnosticFix promises to someone who watches the CR and the     *)
(* target: a patch needs an approval of its own, only the controller turns *)
(* Approved into an outcome, and it reports success for what it patched.   *)
(***************************************************************************)
EXTENDS Naturals

VARIABLES
  phase,     \* the CR's status.phase
  permits,   \* approvals claimed whose patch was not sent yet
  attempts,  \* patches sent
  effect     \* whether the latest of them took effect

fvars == <<phase, permits, attempts, effect>>

Undecided == {"New", "PendingApproval", "DryRunComplete"}
Outcomes  == {"Succeeded", "Failed", "RolledBack"}
Present   == Undecided \cup Outcomes \cup {"Approved", "Applying"}

Init == phase = "Absent" /\ permits = 0 /\ attempts = 0 /\ effect = "none"

Submit ==
  /\ phase = "Absent" /\ phase' = "New"
  /\ UNCHANGED <<permits, attempts, effect>>

Settle ==
  /\ phase = "New" /\ phase' \in {"PendingApproval", "DryRunComplete"}
  /\ UNCHANGED <<permits, attempts, effect>>

Approve ==
  /\ phase \in Present /\ phase' = "Approved"
  /\ UNCHANGED <<permits, attempts, effect>>

Reject ==
  /\ phase \in Present /\ phase' = "Failed"
  /\ UNCHANGED <<permits, attempts, effect>>

Claim ==
  /\ phase = "Approved" /\ phase' = "Applying"
  /\ permits = 0 /\ permits' = 1
  /\ UNCHANGED <<attempts, effect>>

\* The permit is spent on one patch,
Patch ==
  /\ permits = 1 /\ permits' = 0
  /\ attempts' = attempts + 1
  /\ effect' \in {"none", "landed"}
  /\ UNCHANGED phase

\* or lost: with the controller, or because there is nothing to patch.
Lapse ==
  /\ permits = 1 /\ permits' = 0
  /\ UNCHANGED <<phase, attempts, effect>>

Conclude ==
  /\ phase = "Applying" /\ permits = 0
  /\ \/ phase' = "Succeeded" /\ effect = "landed"
     \/ phase' = "RolledBack" /\ effect = "none"
  /\ UNCHANGED <<permits, attempts, effect>>

Remove ==
  /\ phase \in Present /\ phase' = "Gone"
  /\ UNCHANGED <<permits, attempts, effect>>

Next ==
  \/ Submit \/ Settle \/ Approve \/ Reject \/ Claim
  \/ Patch \/ Lapse \/ Conclude \/ Remove

Spec == Init /\ [][Next]_fvars
=============================================================================
