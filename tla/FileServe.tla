------------------------------ MODULE FileServe ------------------------------
(* clipboard-send-file once the file is staged: the file list and contents    *)
(* the session answers from dispatch_outputs while a program on the server    *)
(* pastes, and what happens when another file is staged meanwhile.            *)
(*                                                                            *)
(* A file is the number of the clipboard-send-file that staged it. What the   *)
(* server fetches next depends on what it has, so the only races are between  *)
(* its requests under way and the next staging. In a REPL, on a pipe or at a  *)
(* terminal, a line may also drop an answer while it is being written.        *)
EXTENDS Integers, Sequences

CONSTANTS Files,    \* bound: files staged, in this order
          Sizes,    \* the sizes they may have
          Ranges    \* the lengths the server asks for

ASSUME FileServeAssumption ==
  Files \in Nat /\ Sizes \subseteq Nat /\ Ranges \subseteq Nat \ {0}

VARIABLES
  staged, sizes,          \* pending_file_send; the length of each file's data
  listRequested, request, \* file_list_data_requested, file_contents_request
  crashed,                \* the arithmetic or the slice in the check panicked
  toServer, toClient,
  offer,                  \* the server: the file announced last
  phase, name, total, have, pieces,   \* its paste under way
  restaged, pasted,       \* history: a staging during the paste; its outcome;
  dropped                 \* an answer was lost to a line of the REPL

server == <<offer, phase, name, total, have, pieces>>
client == <<staged, sizes, listRequested, request, crashed>>
ghost  == <<restaged, pasted, dropped>>
vars   == <<client, toServer, toClient, server, ghost>>

Req(k, at, n) == [kind |-> k, at |-> at, len |-> n]
NoRequest == Req("none", 0, 0)
Msg(k, f, at, n) == [kind |-> k, file |-> f, at |-> at, len |-> n]
Lesser(a, b) == IF a <= b THEN a ELSE b
Idle == [name |-> 0, len |-> 0, pieces |-> {}, sure |-> FALSE, failed |-> FALSE]

Init ==
  /\ staged = 0 /\ sizes \in [1..Files -> Sizes]
  /\ listRequested = FALSE /\ request = NoRequest /\ crashed = FALSE
  /\ toServer = <<>> /\ toClient = <<>> /\ offer = 0
  /\ phase = "idle" /\ name = 0 /\ total = 0 /\ have = 0 /\ pieces = {}
  /\ restaged = FALSE /\ pasted = Idle /\ dropped = FALSE

------------------------------------------------------------------------------
(* The session. *)

MutFree == ~crashed
\* Between two PDUs, with nothing left to answer.
Free == ~crashed /\ ~listRequested /\ request = NoRequest

SendClipboardFile ==
  /\ Free /\ staged < Files
  /\ staged' = staged + 1
  /\ listRequested' = FALSE /\ request' = NoRequest
  /\ toServer' = Append(toServer, Msg("offer", staged + 1, 0, 0))
  /\ restaged' = TRUE
  /\ UNCHANGED <<sizes, crashed, toClient, server, pasted, dropped>>

Incoming(kinds) ==
  /\ Free /\ toClient # <<>> /\ Head(toClient).kind \in kinds
  /\ toClient' = Tail(toClient)

OnFormatDataRequest ==
  /\ Incoming({"list"})
  /\ listRequested' = TRUE
  /\ UNCHANGED <<staged, sizes, request, crashed, toServer, server, ghost>>

OnFileContentsRequest ==
  /\ Incoming({"size", "range"})
  /\ request' = Head(toClient)
  /\ UNCHANGED <<staged, sizes, listRequested, crashed, toServer, server, ghost>>

\* The request is taken before the answer is written: both loops of the REPL
\* drop `run_for`, and with it the answer, when a line comes in between.
Answer(m) ==
  \/ toServer' = Append(toServer, m) /\ UNCHANGED dropped
  \/ UNCHANGED toServer /\ dropped' = TRUE

CheckFileListDataRequest ==
  /\ listRequested /\ listRequested' = FALSE
  /\ Answer(Msg("list", staged, 0, sizes[staged]))
  /\ UNCHANGED <<staged, sizes, request, crashed, toClient, server, restaged, pasted>>

MutPiece(at, n) == Msg("data", staged, 0, n)
\* pending.data[offset..offset + len]
Piece(at, n) == Msg("data", staged, at, n)

\* requested_size.min(pending.data.len() - offset)
Fits(at, n) == Lesser(n, sizes[staged] - at)

\* An offset past the end of the data underflows: the process panics.
CheckFileContentsRequest ==
  /\ request # NoRequest /\ request' = NoRequest
  /\ LET at == request.at
     IN  \/ /\ request.kind = "size"
            /\ Answer(Msg("size", staged, 0, sizes[staged]))
            /\ UNCHANGED crashed
         \/ /\ request.kind = "range" /\ at <= sizes[staged]
            /\ Answer(Piece(at, Fits(at, request.len)))
            /\ UNCHANGED crashed
         \/ /\ request.kind = "range" /\ at > sizes[staged]
            /\ crashed' = TRUE /\ UNCHANGED <<toServer, dropped>>
  /\ UNCHANGED <<staged, sizes, listRequested, toClient, server, restaged, pasted>>

------------------------------------------------------------------------------
(* The server: list, size, then pieces in order until it has it all. *)

ServerTake(kinds) ==
  /\ toServer # <<>> /\ Head(toServer).kind \in kinds
  /\ toServer' = Tail(toServer)

Ask(k, at, n) == toClient' = Append(toClient, Req(k, at, n))

ServerTakesOffer ==
  /\ ServerTake({"offer"})
  /\ offer' = Head(toServer).file
  /\ UNCHANGED <<client, toClient, phase, name, total, have, pieces, ghost>>

ServerPaste ==
  /\ phase = "idle" /\ offer # 0
  /\ phase' = "list" /\ Ask("list", 0, 0)
  /\ name' = 0 /\ total' = 0 /\ have' = 0 /\ pieces' = {}
  /\ restaged' = (\E i \in DOMAIN toServer : toServer[i].kind = "offer")
  /\ pasted' = Idle
  /\ UNCHANGED <<client, toServer, offer, dropped>>

ServerTakesList ==
  /\ ServerTake({"list"})
  /\ phase' = "size" /\ name' = Head(toServer).file
  /\ Ask("size", 0, 8)
  /\ UNCHANGED <<client, offer, total, have, pieces, ghost>>

Conclude(len, got, bad) ==
  /\ phase' = "idle"
  /\ pasted' = [name |-> name, len |-> len, pieces |-> got, sure |-> ~restaged,
                failed |-> bad]
  /\ UNCHANGED toClient

ServerTakesSize ==
  /\ ServerTake({"size"})
  /\ total' = Head(toServer).len
  /\ IF total' = 0 THEN Conclude(0, {}, FALSE)
     ELSE /\ phase' = "data" /\ UNCHANGED pasted
          /\ \E n \in Ranges : Ask("range", 0, n)
  /\ UNCHANGED <<client, offer, name, have, pieces, restaged, dropped>>

\* No data where some was asked for is a failure of the paste.
ServerTakesData ==
  /\ ServerTake({"data"})
  /\ LET m == Head(toServer)
         got == pieces \cup {[file |-> m.file, at |-> m.at, put |-> have]}
     IN  /\ have' = have + m.len
         /\ pieces' = got
         /\ IF m.len = 0 THEN Conclude(have, pieces, TRUE)
            ELSE IF have' >= total THEN Conclude(have', got, FALSE)
            ELSE /\ \E n \in Ranges : Ask("range", have', n)
                 /\ UNCHANGED <<phase, pasted>>
  /\ UNCHANGED <<client, offer, name, total, restaged, dropped>>

------------------------------------------------------------------------------
Receive == OnFormatDataRequest \/ OnFileContentsRequest
Check == CheckFileListDataRequest \/ CheckFileContentsRequest
ServerReads ==
  ServerTakesOffer \/ ServerTakesList \/ ServerTakesSize \/ ServerTakesData

Next == SendClipboardFile \/ Receive \/ Check \/ ServerReads \/ ServerPaste

Spec == Init /\ [][Next]_vars

\* The session reads and answers, and the server reads; nobody has to stage or
\* to paste.
FairSpec == Spec /\ WF_vars(Receive) /\ WF_vars(Check) /\ WF_vars(ServerReads)
==============================================================================
