--------------------------- MODULE MCDiagnosticFix ---------------------------
(***************************************************************************)
(* Instances of DiagnosticFix for TLC.                                     *)
(***************************************************************************)
EXTENDS DiagnosticFix, TLC

CONSTANTS q1, q2

\* The requests differ only in what they ask.
SameRequests == Permutations({q1, q2})
=============================================================================
