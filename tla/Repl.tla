--------------------------------- MODULE Repl ---------------------------------
(* The session command of src/rdpdo.rs: the loop that waits for a line and    *)
(* reads the connection meanwhile, piped or interactive, the dispatch of a    *)
(* line, disconnect and reconnect. run_for is dropped wherever it waits when  *)
(* a line comes, also within a reactivation (src/session.rs:433-506).         *)
EXTENDS Naturals, Sequences

CONSTANTS Inputs,          \* what users type: sequences of lines
          Deactivations    \* bound: deactivations by the server

ASSUME ReplAssumption == Inputs \subseteq Seq(STRING) /\ Deactivations \in Nat

VARIABLES
  mode,                    \* "piped" or "interactive"
  typed,                   \* the lines, an end of file after them
  read, taken,             \* how many the reader has read, and the loop has taken
  pc,                      \* where the loop is
  at,                      \* the command of the line that runs
  pump,                    \* run_for and the like: "off", "reading", "reactivating"
  peerGone,                \* peer_disconnected
  server, notice,          \* the peer; its Deactivate All, unread
  deactivations,
  ran                      \* history: the commands and programs that have run

line == <<mode, typed, read, taken>>
link == <<peerGone, server, notice, deactivations>>
replVars == <<line, pc, at, pump, link, ran>>

ReplInit ==
  /\ mode \in {"piped", "interactive"} /\ typed \in Inputs
  /\ read = 0 /\ taken = 0 /\ at = 0 /\ ran = <<>>
  /\ pc = IF mode = "piped" THEN "head" ELSE "select"
  /\ pump = "off" /\ peerGone = FALSE
  /\ server = "active" /\ notice = FALSE /\ deactivations = 0

\* How many commands the parser finds in a line. A line that is blank, a comment
\* or does not parse has none, nor has one that only the interactive loop knows:
\* on a pipe "quit" and "!" are errors of the parser.
Commands(l) == CASE l = "one" -> 1 [] l = "two" -> 2 [] OTHER -> 0

Again == IF mode = "piped" THEN "head" ELSE "select"

------------------------------------------------------------------------------
(* Reading lines. *)

\* On a pipe the next line is read when the one before has been dispatched; at
\* a terminal a thread reads on into a channel without bound.
Reads ==
  /\ read <= Len(typed) /\ pc # "ended"
  /\ mode = "piped" => pc = "select" /\ read = taken
  /\ read' = read + 1
  /\ UNCHANGED <<mode, typed, taken, pc, at, pump, link, ran>>

\* The piped loop looks for its peer before it waits.
LoopHead ==
  /\ pc = "head" /\ pc' = IF peerGone THEN "ended" ELSE "select"
  /\ UNCHANGED <<line, at, pump, link, ran>>

\* A line wins over the connection, wherever run_for waits.
MutReady == read > taken /\ pump # "reactivating"
Ready == read > taken

Takes == pc = "select" /\ Ready /\ taken' = taken + 1 /\ pump' = "off"
Line == typed[taken + 1]
AtEnd == taken = Len(typed)
Directive(l) == mode = "interactive" /\ ~AtEnd /\ Line = l

TakeEnd ==
  /\ Takes /\ (AtEnd \/ Directive("quit"))
  /\ pc' = "ended"
  /\ UNCHANGED <<mode, typed, read, at, link, ran>>

\* Only the flag is set; the connection stays.
TakeDisconnect ==
  /\ Takes /\ Directive("disconnect")
  /\ peerGone' = TRUE
  /\ UNCHANGED <<mode, typed, read, pc, at, server, notice, deactivations, ran>>

TakeReconnect ==
  /\ Takes /\ Directive("reconnect") /\ pc' = "reconnect"
  /\ UNCHANGED <<mode, typed, read, at, link, ran>>

TakeShell ==
  /\ Takes /\ Directive("shell") /\ pc' = "shell" /\ at' = 1
  /\ UNCHANGED <<mode, typed, read, link, ran>>

TakeCommands ==
  /\ Takes /\ ~AtEnd /\ Commands(Line) > 0
  /\ pc' = "command" /\ at' = 1
  /\ UNCHANGED <<mode, typed, read, link, ran>>

TakeNothing ==
  /\ Takes /\ ~AtEnd /\ Commands(Line) = 0
  /\ mode = "interactive" => Line \notin {"quit", "disconnect", "reconnect", "shell"}
  /\ pc' = Again
  /\ UNCHANGED <<mode, typed, read, at, link, ran>>

------------------------------------------------------------------------------
(* Dispatching a line: the first failure ends it. *)

MutGoesOn(ok) == at < Commands(typed[taken])
GoesOn(ok) == ok /\ at < Commands(typed[taken])

Ends(ok) ==
  /\ ran' = Append(ran, [line |-> taken, command |-> at, ok |-> ok])
  /\ pump' = "off"
  /\ IF GoesOn(ok) THEN at' = at + 1 /\ pc' = pc ELSE at' = 0 /\ pc' = Again
  /\ UNCHANGED line

CommandEnds ==
  /\ pc = "command" /\ pump # "reactivating"
  /\ \E ok \in BOOLEAN : Ends(ok)
  /\ UNCHANGED link

\* How the program of a "!" ends is reported and does not matter further.
ShellEnds ==
  /\ pc = "shell" /\ Ends(TRUE)
  /\ UNCHANGED link

\* The new session takes the place of the old one, which is shut down, and
\* waits for its first frame.
Reconnects ==
  /\ pc = "reconnect" /\ pc' = "frame"
  /\ peerGone' = FALSE /\ server' = "active" /\ notice' = FALSE
  /\ UNCHANGED <<line, at, pump, deactivations, ran>>

\* The old session stays as it is.
ReconnectFails ==
  /\ pc = "reconnect" /\ pc' = "select"
  /\ UNCHANGED <<line, at, pump, link, ran>>

FrameWaitEnds ==
  /\ pc = "frame" /\ pump # "reactivating"
  /\ pc' = "select" /\ pump' = "off"
  /\ UNCHANGED <<line, at, link, ran>>

------------------------------------------------------------------------------
(* Reading the connection: 200 ms at a time while no line is there, for as    *)
(* long as they like in commands and in the wait for the first frame.         *)

PumpStarts ==
  /\ pc \in {"select", "command", "frame"} /\ pump = "off"
  /\ pc = "select" => ~Ready
  /\ pump' = "reading"
  /\ UNCHANGED <<line, pc, at, link, ran>>

\* After 200 ms, or with an error that the loop ignores: what the server sends
\* within an activation that was cut off belongs to no session.
RunForEnds ==
  /\ pc = "select" /\ pump = "reading"
  /\ pump' = "off" /\ pc' = IF mode = "piped" /\ peerGone THEN "ended" ELSE pc
  /\ UNCHANGED <<line, at, link, ran>>

MutLost == peerGone
Lost == TRUE

\* The piped loop returns at once.
ReadFails ==
  /\ pump = "reading" /\ server = "gone" /\ peerGone' = Lost
  /\ pump' = "off"
  /\ pc' = CASE pc = "select" /\ mode = "piped" /\ peerGone' -> "ended"
             [] pc = "frame" -> "select"
             [] OTHER -> pc
  /\ UNCHANGED <<line, at, server, notice, deactivations, ran>>

Deactivated ==
  /\ pump = "reading" /\ server = "deactivated" /\ notice
  /\ pump' = "reactivating" /\ notice' = FALSE
  /\ UNCHANGED <<line, pc, at, peerGone, server, deactivations, ran>>

Reactivated ==
  /\ pump = "reactivating" /\ server = "deactivated"
  /\ pump' = "reading" /\ server' = "active"
  /\ UNCHANGED <<line, pc, at, peerGone, notice, deactivations, ran>>

\* The error fails a command; it does not tell that the peer is gone.
ReactivationFails ==
  /\ pump = "reactivating" /\ server = "gone"
  /\ IF pc = "command" THEN Ends(FALSE)
     ELSE pump' = "off" /\ pc' = "select" /\ UNCHANGED <<line, at, ran>>
  /\ UNCHANGED link

ServerDeactivates ==
  /\ server = "active" /\ deactivations < Deactivations
  /\ server' = "deactivated" /\ notice' = TRUE /\ deactivations' = deactivations + 1
  /\ UNCHANGED <<line, pc, at, pump, peerGone, ran>>

ServerLeaves ==
  /\ server # "gone" /\ pc # "ended" /\ server' = "gone"
  /\ UNCHANGED <<line, pc, at, pump, peerGone, notice, deactivations, ran>>

------------------------------------------------------------------------------
Take ==
  \/ TakeEnd \/ TakeDisconnect \/ TakeReconnect \/ TakeShell
  \/ TakeCommands \/ TakeNothing
Resume == CommandEnds \/ ShellEnds \/ Reconnects \/ ReconnectFails \/ FrameWaitEnds
Pump == PumpStarts \/ RunForEnds \/ ReadFails \/ Deactivated \/ ReactivationFails
Server == Reactivated \/ ServerDeactivates \/ ServerLeaves
Ended == pc = "ended" /\ UNCHANGED replVars

ReplNext == Reads \/ LoopHead \/ Take \/ Resume \/ Pump \/ Server \/ Ended

ReplSpec == ReplInit /\ [][ReplNext]_replVars

\* The loop is scheduled, commands and programs end once nothing holds them
\* up, and a connection that is closed is read. The server may stall.
ReplFairSpec ==
  /\ ReplSpec /\ WF_replVars(LoopHead) /\ WF_replVars(Take) /\ WF_replVars(Resume)
  /\ WF_replVars(PumpStarts) /\ SF_replVars(ReadFails) /\ WF_replVars(ReactivationFails)
==============================================================================
