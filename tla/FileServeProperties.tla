------------------------- MODULE FileServeProperties -------------------------
(* What is claimed of the transfer of a staged file. *)
EXTENDS FileServe

\* If no other file is staged during its paste, what a program on the server
\* pastes is the staged file, whole and in order, and it never comes away
\* empty-handed (session.rs:1413-1422).
PastedIntact ==
  pasted.sure /\ pasted.name # 0 =>
    /\ ~pasted.failed
    /\ pasted.len = sizes[pasted.name]
    /\ \A p \in pasted.pieces : p.file = pasted.name /\ p.at = p.put

\* Every paste comes to an end, in a chain and in the REPL, however requests and
\* stagings cross; only two things leave the program waiting for ever: a panic
\* over a shorter file (session.rs:1420), and a line to the REPL, typed or
\* piped, that comes while an answer of the paste is being written
\* (rdpdo.rs:2220, 2322). There is one paste at a time, so it is this one's.
PasteFinishes == phase # "idle" ~> phase = "idle" \/ crashed \/ dropped

------------------------------------------------------------------------------
(* What comments and documentation say and the code does not do. *)

\* src/session.rs:1286: file contents requests are handled automatically in
\* dispatch_outputs.
NeverPanics == ~crashed
==============================================================================
