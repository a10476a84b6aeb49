------------------------------ MODULE Clipboard ------------------------------
(* The shared clipboard: the callbacks of src/clipboard.rs, which only leave  *)
(* notes in ClipboardState, and the session functions of src/session.rs that  *)
(* act on them, against a server that copies and pastes when it likes.        *)
(*                                                                            *)
(* A PDU is read, its callback runs and the checks at the end of              *)
(* dispatch_outputs answer what it asked for, all before the next read; only  *)
(* a REPL, on a pipe or at a terminal, can drop that work half way. A text is *)
(* the number of the set-clipboard, or of the server's copy, it came from; 0  *)
(* is no text.                                                                *)
EXTENDS Naturals, Sequences

CONSTANTS Texts,    \* bound: set-clipboard commands
          Copies,   \* bound: copies made on the server
          Queue     \* bound: messages under way when a command starts

ASSUME ClipboardAssumption == Texts \in Nat /\ Copies \in Nat /\ Queue \in Nat

VARIABLES
  chan,          \* CliprdrClient: "init" until the server acknowledges a list
  pendingSend,   \* pending_send: the text we serve, or 0
  staged,        \* pending_file_send.is_some()
  requested,     \* format_list_requested, data_requested, file_list_data_requested
  received,      \* received_data: a text of the server's, or 0
  pc,            \* the command the session is in; "idle" is any that reads on
  toServer, toClient,          \* the channel, in order
  offer, asking, copies,       \* the server: what it believes is on offer, the
                               \* paste it waits for, copies it made
  texts,                       \* set-clipboard commands so far
  raced, late, floor, got, pasted, spurious, dropped   \* history;
                               \* dropped: the answers a line to the REPL lost

net    == <<toServer, toClient>>
server == <<offer, asking, copies>>
ghost  == <<raced, late, floor, got, pasted, spurious, dropped>>
vars   == <<chan, pendingSend, staged, requested, received, pc, net,
            server, texts, ghost>>

Msg(k, n) == [kind |-> k, v |-> n]
Lists == {"textList", "fileList", "emptyList"}
ToServerKinds == Lists \cup {"ack", "askText", "text", "file"}
ToClientKinds == {"monitorReady", "list", "ack", "askText", "askFile", "text"}

\* The server has sent MonitorReady when the session starts.
Init ==
  /\ chan = "init" /\ pendingSend = 0 /\ staged = FALSE /\ requested = {}
  /\ received = 0 /\ pc = "idle"
  /\ toServer = <<>> /\ toClient = <<Msg("monitorReady", 0)>>
  /\ offer = Msg("none", 0) /\ asking = Msg("none", 0) /\ copies = 0 /\ texts = 0
  /\ raced = FALSE /\ late = FALSE /\ floor = 0 /\ got = 0
  /\ pasted = [want |-> 0, got |-> 0, done |-> FALSE]
  /\ spurious = FALSE /\ dropped = {}

Carries(q, kinds) == \E i \in DOMAIN q : q[i].kind \in kinds

\* initiate_copy: announce a format list; history: it may cross the server's.
Announce(k, n) ==
  /\ toServer' = Append(toServer, Msg(k, n))
  /\ raced' = (raced \/ Carries(toClient, {"list"}))

------------------------------------------------------------------------------
(* Reading a PDU: the callbacks. *)

MutPumping == {"idle", "set", "send", "get", "settle", "wait"}
\* The states whose code reads the connection, run_while during exec among them.
Pumping == {"idle", "set", "send", "get", "settle", "wait", "exec"}

\* What the last PDU asked for is answered before the next is read; and
\* get_clipboard looks for its answer before it reads on.
Incoming(k) ==
  /\ pc \in Pumping /\ requested = {}
  /\ ~(pc = "wait" /\ received # 0)
  /\ toClient # <<>> /\ Head(toClient).kind = k
  /\ toClient' = Tail(toClient)

OnRequestFormatList ==
  /\ Incoming("monitorReady")
  /\ requested' = requested \cup {"formatList"}
  /\ UNCHANGED <<chan, pendingSend, staged, received, pc, toServer,
                 server, texts, ghost>>

OnReady ==
  /\ Incoming("ack")
  /\ chan' = "ready"
  /\ UNCHANGED <<pendingSend, staged, requested, received, pc, toServer,
                 server, texts, ghost>>

MutDisown == pendingSend' = 0 /\ staged' = FALSE
\* The server's copy ends our ownership of the text, not of the staged file.
Disown == pendingSend' = 0 /\ UNCHANGED staged

OnRemoteCopy ==
  /\ Incoming("list")
  /\ Disown
  /\ toServer' = Append(toServer, Msg("ack", 0))
  /\ UNCHANGED <<chan, requested, received, pc, server, texts, ghost>>

OnFormatDataRequest ==
  /\ \/ Incoming("askText") /\ requested' = requested \cup {"text"}
     \/ Incoming("askFile") /\ requested' = requested \cup {"fileList"}
  /\ UNCHANGED <<chan, pendingSend, staged, received, pc, toServer,
                 server, texts, ghost>>

\* An error response leaves no trace.
OnFormatDataResponse ==
  /\ Incoming("text")
  /\ received' = IF Head(toClient).v = 0 THEN received ELSE Head(toClient).v
  /\ UNCHANGED <<chan, pendingSend, staged, requested, pc, toServer,
                 server, texts, ghost>>

------------------------------------------------------------------------------
(* The checks at the end of dispatch_outputs. *)

MutAdvertise ==
  IF pendingSend # 0 THEN Announce("textList", pendingSend)
                     ELSE UNCHANGED <<toServer, raced>>
MutWithdraw == Announce("emptyList", 0)
\* An empty list completes the handshake; a text already set is announced again.
Advertise ==
  IF pendingSend # 0 THEN Announce("textList", pendingSend)
                     ELSE Announce("emptyList", 0)

CheckFormatListRequest ==
  /\ "formatList" \in requested
  /\ requested' = requested \ {"formatList"}
  /\ Advertise
  /\ UNCHANGED <<chan, pendingSend, staged, received, pc, toClient,
                 server, texts, late, floor, got, pasted, spurious, dropped>>

MutKeepText == pendingSend' = 0
\* pending_send.clone(): later pastes of the same copy are served as well.
KeepText == UNCHANGED pendingSend

MutTextAnswer ==
  IF pendingSend = 0 THEN toServer ELSE Append(toServer, Msg("text", pendingSend))
\* The text, or an error response when we no longer own one.
TextAnswer == Append(toServer, Msg("text", pendingSend))

CheckClipboardDataRequest ==
  /\ "text" \in requested
  /\ requested' = requested \ {"text"}
  /\ toServer' = TextAnswer
  /\ KeepText
  /\ UNCHANGED <<chan, staged, received, pc, toClient, server, texts,
                 ghost>>

\* Without a staged file the error ends whatever command was reading.
CheckFileListDataRequest ==
  /\ "fileList" \in requested
  /\ requested' = requested \ {"fileList"}
  /\ toServer' = IF staged THEN Append(toServer, Msg("file", 0)) ELSE toServer
  /\ pc' = IF staged THEN pc ELSE "idle"
  /\ spurious' = (spurious \/ ~staged)
  /\ UNCHANGED <<chan, pendingSend, staged, received, toClient, server,
                 texts, raced, late, floor, got, pasted, dropped>>

\* Both loops of the REPL drop `run_for` when a line arrives, typed or piped:
\* the flag is cleared already, the answer never written.
DropFuture ==
  /\ pc = "idle" /\ requested # {}
  /\ requested' = {}
  /\ dropped' = dropped \cup requested
  /\ UNCHANGED <<chan, pendingSend, staged, received, pc, net, server, texts,
                 raced, late, floor, got, pasted, spurious>>

------------------------------------------------------------------------------
(* The commands. *)

\* The previous command is over, and there is room for what this one sends.
Free == pc = "idle" /\ requested = {} /\ Len(toServer) + Len(toClient) <= Queue

MutStore(n) == pendingSend' = IF pendingSend = 0 THEN n ELSE pendingSend
\* The newest text replaces what was pending.
Store(n) == pendingSend' = n

SetClipboard ==
  /\ Free /\ texts < Texts
  /\ texts' = texts + 1
  /\ Store(texts + 1)
  /\ Announce("textList", texts + 1)
  /\ pc' = "set"
  /\ UNCHANGED <<chan, staged, requested, received, toClient, server,
                 late, floor, got, pasted, spurious, dropped>>

\* Clears the requests for the file it replaces (none is pending here).
SendClipboardFile ==
  /\ Free
  /\ staged' = TRUE
  /\ requested' = requested \ {"fileList"}
  /\ Announce("fileList", 0)
  /\ pc' = "send"
  /\ UNCHANGED <<chan, pendingSend, received, toClient, server, texts,
                 late, floor, got, pasted, spurious, dropped>>

\* The 500 ms after an announcement are over.
OfferDone ==
  /\ pc \in {"set", "send"} /\ requested = {}
  /\ pc' = "idle"
  /\ UNCHANGED <<chan, pendingSend, staged, requested, received, net,
                 server, texts, ghost>>

MutForget == UNCHANGED received
\* received_data = None: what an earlier get left behind is not this one's.
Forget == received' = 0

GetClipboard ==
  /\ Free
  /\ Forget
  /\ pc' = "get"
  /\ floor' = copies /\ got' = 0
  /\ UNCHANGED <<chan, pendingSend, staged, requested, net, server,
                 texts, raced, late, pasted, spurious, dropped>>

\* First 200 ms, then 300 ms, to let the handshake complete.
GetSettle ==
  /\ pc = "get" /\ requested = {}
  /\ pc' = "settle"
  /\ UNCHANGED <<chan, pendingSend, staged, requested, received, net,
                 server, texts, ghost>>

\* initiate_paste yields nothing while the channel is not ready.
GetPaste ==
  /\ pc = "settle" /\ requested = {}
  /\ IF chan = "ready"
     THEN toServer' = Append(toServer, Msg("askText", 0)) /\ pc' = "wait"
     ELSE UNCHANGED toServer /\ pc' = "idle"
  /\ UNCHANGED <<chan, pendingSend, staged, requested, received,
                 toClient, server, texts, ghost>>

GetReturn ==
  /\ pc = "wait" /\ requested = {} /\ received # 0
  /\ got' = received
  /\ pc' = "idle"
  /\ UNCHANGED <<chan, pendingSend, staged, requested, received, net,
                 server, texts, raced, late, floor, pasted, spurious, dropped>>

\* Nothing within the timeout; the answer may still come.
GetTimeout ==
  /\ pc = "wait" /\ requested = {} /\ received = 0
  /\ pc' = "idle" /\ late' = TRUE
  /\ UNCHANGED <<chan, pendingSend, staged, requested, received, net,
                 server, texts, raced, floor, got, pasted, spurious, dropped>>

\* `exec` runs a remote program; one that pastes ends when its paste does.
Exec ==
  /\ Free
  /\ pc' = "exec"
  /\ UNCHANGED <<chan, pendingSend, staged, requested, received, net,
                 server, texts, ghost>>

ExecDone ==
  /\ pc = "exec" /\ requested = {} /\ asking.kind = "none"
  /\ pc' = "idle"
  /\ UNCHANGED <<chan, pendingSend, staged, requested, received, net,
                 server, texts, ghost>>

------------------------------------------------------------------------------
(* The server, as the client has to expect it. *)

client == <<chan, pendingSend, staged, requested, received, pc>>

ServerTake(kinds) ==
  /\ toServer # <<>> /\ Head(toServer).kind \in kinds
  /\ toServer' = Tail(toServer)

ServerTakesList ==
  /\ ServerTake(Lists)
  /\ offer' = Head(toServer)
  /\ toClient' = Append(toClient, Msg("ack", 0))
  /\ UNCHANGED <<client, asking, copies, texts, ghost>>

ServerTakesAck ==
  /\ ServerTake({"ack"})
  /\ UNCHANGED <<client, toClient, server, texts, ghost>>

ServerAnswers ==
  /\ ServerTake({"askText"})
  /\ toClient' = Append(toClient, Msg("text", IF offer.kind = "own" THEN copies ELSE 0))
  /\ UNCHANGED <<client, server, texts, ghost>>

ServerPasted ==
  /\ ServerTake({"text", "file"})
  /\ asking' = Msg("none", 0)
  /\ pasted' = [want |-> asking.v, got |-> Head(toServer).v, done |-> TRUE]
  /\ UNCHANGED <<client, toClient, offer, copies, texts, raced, late, floor, got,
                 spurious, dropped>>

\* Something is copied on the server, once the handshake is through.
ServerCopy ==
  /\ copies < Copies /\ offer.kind # "none"
  /\ copies' = copies + 1
  /\ offer' = Msg("own", 0)
  /\ toClient' = Append(toClient, Msg("list", 0))
  /\ raced' = (raced \/ Carries(toServer, Lists))
  /\ UNCHANGED <<client, toServer, asking, texts, late, floor, got, pasted,
                 spurious, dropped>>

\* A program on the server pastes what the client offered.
ServerPaste ==
  /\ asking.kind = "none" /\ offer.kind \in {"textList", "fileList"}
  /\ asking' = offer
  /\ toClient' = Append(toClient,
       Msg(IF offer.kind = "textList" THEN "askText" ELSE "askFile", 0))
  /\ pasted' = [want |-> 0, got |-> 0, done |-> FALSE]
  /\ UNCHANGED <<client, toServer, offer, copies, texts, raced, late, floor, got,
                 spurious, dropped>>

------------------------------------------------------------------------------
Receive ==
  \/ OnRequestFormatList \/ OnReady \/ OnRemoteCopy \/ OnFormatDataRequest
  \/ OnFormatDataResponse

Check ==
  \/ CheckFormatListRequest \/ CheckClipboardDataRequest
  \/ CheckFileListDataRequest

Command == SetClipboard \/ SendClipboardFile \/ GetClipboard \/ Exec

Elapse ==
  \/ OfferDone \/ GetSettle \/ GetPaste \/ GetReturn \/ GetTimeout \/ ExecDone

ServerReads == ServerTakesList \/ ServerTakesAck \/ ServerAnswers \/ ServerPasted

Next ==
  \/ Receive \/ Check \/ Command \/ Elapse \/ DropFuture
  \/ ServerReads \/ ServerCopy \/ ServerPaste

Spec == Init /\ [][Next]_vars

\* The client reads what arrives and answers it, its windows end, and the
\* server reads what it is sent. The program `exec` runs ends although others
\* go on pasting, hence SF. Nobody has to copy, paste or start a command.
FairSpec ==
  /\ Spec /\ SF_vars(ExecDone)
  /\ WF_vars(Receive) /\ WF_vars(Check) /\ WF_vars(Elapse) /\ WF_vars(ServerReads)
==============================================================================
