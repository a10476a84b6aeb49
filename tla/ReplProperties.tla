---------------------------- MODULE ReplProperties ----------------------------
(* What is claimed of the REPL. *)
EXTENDS Repl

\* How much the l-th line typed is to run: its commands or, at a terminal, the
\* program behind its "!"; nothing at the end of the file.
AllOf(l) == CASE l > Len(typed) -> 0
              [] l <= Len(typed) /\ mode = "interactive" /\ typed[l] = "shell" -> 1
              [] OTHER -> Commands(typed[l])

\* A line that ends the REPL: at a terminal only.
Quits(l) == mode = "interactive" /\ l <= Len(typed) /\ typed[l] = "quit"

\* The REPL ends with the input, with the first "quit" at a terminal, and on a
\* pipe with a lost peer.
EndsAsAsked ==
  /\ \A l \in 1..taken : Quits(l) => l = taken /\ pc = "ended"
  /\ pc = "ended" => taken > Len(typed) \/ Quits(taken) \/ (mode = "piped" /\ peerGone)

\* What ran k-th was the first command of its line, behind those of lines before,
\* or the next one after a success.
Follows(k) ==
  \/ ran[k].command = 1 /\ (k = 1 \/ ran[k - 1].line < ran[k].line)
  \/ /\ k > 1 /\ ran[k - 1].ok
     /\ ran[k].line = ran[k - 1].line /\ ran[k].command = ran[k - 1].command + 1

\* Line l has run up to its last command or its first failure.
Through(l) ==
  \/ AllOf(l) = 0
  \/ \E k \in DOMAIN ran : ran[k].line = l /\ (ran[k].command = AllOf(l) \/ ~ran[k].ok)

\* Every line that was taken has run from its first command up to its first
\* failure or its last command, each once, in the order typed, whatever is
\* dropped, disconnected, reconnected or lost meanwhile; and nothing else has.
\* The REPL ends with the input, with a lost peer on a pipe, and with the first
\* "quit" at a terminal. The help has "quit" and "!" for session mode, piped or
\* not (help.rs:1251-1255); on a pipe a "!" runs no program, a "quit" ends
\* nothing, and what follows it is run (rdpdo.rs:2207-2248, 2319-2463, 2523-2562).
RunsWhatWasTyped ==
  /\ \A k \in DOMAIN ran :
       /\ ran[k].line \in 1..taken /\ ran[k].command \in 1..AllOf(ran[k].line)
       /\ Follows(k)
  /\ \A l \in 1..taken : l < taken \/ pc \notin {"command", "shell"} => Through(l)
  /\ EndsAsAsked

\* Nothing but the peer ends a reactivation that a command or the wait after a
\* reconnect is in.
Stalled == pc \in {"command", "frame"} /\ pump = "reactivating"

\* Once the end of the input has been read the REPL ends, also with a server
\* that stalls within a reactivation while no command runs (rdpdo.rs:2216-2226,
\* 2321-2332).
ReplEnds == read > Len(typed) ~> pc = "ended" \/ Stalled

\* A peer that is gone is noticed, also one that goes within a reactivation,
\* which ends in an error the loop ignores (rdpdo.rs:2221, session.rs:304-308).
PeerLossNoticed == server = "gone" ~> peerGone \/ pc = "ended" \/ server # "gone"
==============================================================================
