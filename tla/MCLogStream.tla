----------------------------- MODULE MCLogStream -----------------------------
(***************************************************************************)
(* Instances of LogStream for TLC.                                         *)
(***************************************************************************)
EXTENDS LogStream

Text  == [json |-> FALSE, message |-> FALSE, type |-> FALSE, time |-> FALSE,
          data |-> FALSE, long |-> FALSE]
Full  == [json |-> TRUE, message |-> TRUE, type |-> TRUE, time |-> TRUE,
          data |-> TRUE, long |-> FALSE]
Bare  == [Full EXCEPT !.type = FALSE, !.time = FALSE, !.data = FALSE]
Blank == [Full EXCEPT !.message = FALSE]
Huge  == [Full EXCEPT !.long = TRUE]

FiveLines == <<Text, Bare, Blank, Huge, Full>>
=============================================================================
