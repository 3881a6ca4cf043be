--------------------------- MODULE MCDiagnosticRun ---------------------------
(***************************************************************************)
(* Instances of DiagnosticRun for TLC.                                     *)
(***************************************************************************)
EXTENDS DiagnosticRun, TLC

CONSTANTS u1, u2, s1, s2

\* One run, its Job where the reconciler looks for it.
OneName == u1 :> s1

\* Two UIDs of one name: the run was deleted and created again, its Job in
\* the same cluster as before,
SameName == u1 :> s1 @@ u2 :> s1

\* or in another one.
Moved == u1 :> s1 @@ u2 :> s2
=============================================================================
