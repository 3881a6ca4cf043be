---------------------------- MODULE MCScheduledRun ----------------------------
(***************************************************************************)
(* Instances of ScheduledRun for TLC.                                      *)
(***************************************************************************)
EXTENDS ScheduledRun

\* Users may delete the first child.
FirstChild == {1}
=============================================================================
