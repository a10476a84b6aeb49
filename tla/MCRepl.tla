-------------------------------- MODULE MCRepl --------------------------------
(* What is typed: every input of up to three lines, at a terminal or on a     *)
(* pipe.                                                                      *)
EXTENDS ReplProperties

Lines == {"one", "two", "blank", "quit", "disconnect", "reconnect", "shell"}
UpToThree == UNION {[1..n -> Lines] : n \in 0..3}
==============================================================================
