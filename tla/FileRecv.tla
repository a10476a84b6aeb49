------------------------------ MODULE FileRecv -------------------------------
(* clipboard-recv-file: recv_clipboard_file and request_file_contents_wait of *)
(* src/session.rs with the callbacks that fill their two slots, against a     *)
(* server that answers late, in short pieces, and whose user copies on.       *)
(*                                                                            *)
(* Lengths are scaled down: Chunk stands for 64 KiB, Wrap for 2^32 and Eight  *)
(* for the eight bytes of a size response, by which a response is classified. *)
(* File 0 is a copy on the server that is not a file. A response to an        *)
(* earlier, abandoned request is late; nothing in it says so, as the stream   *)
(* ids are constant.                                                          *)
EXTENDS Integers, Sequences

CONSTANTS Files,    \* bound: files copied on the server, in this order
          Sizes,    \* the sizes they may have
          Chunk, Wrap, Eight,
          Memory,   \* the longest buffer that can be reserved
          Queue     \* bound: messages under way when a command starts

ASSUME FileRecvAssumption ==
  /\ Files \in Nat /\ Sizes \subseteq Nat /\ Queue \in Nat
  /\ Memory \in Nat
  /\ Chunk \in Nat \ {0} /\ Wrap \in Nat /\ Chunk < Wrap /\ Eight \in Nat \ {0}

VARIABLES
  pc,                       \* "idle", what the command waits for, or "crashed"
  offered,                  \* remote_file_list_format_id.is_some()
  list,                     \* received_file_list: the file it names, or None
  slot,                     \* received_file_contents
  size, offset, held, asked,   \* locals of recv_clipboard_file, held being the
                               \* length of all_data; the last request
  toServer, toClient,
  cur, copied, sizes,       \* the server: the file on its clipboard; copies made
  failure,                  \* why the last command failed, and at which answer
  clean, changed, late, saved   \* history of the transfer; the last file saved

net    == <<toServer, toClient>>
locals == <<size, offset, held, asked>>
server == <<cur, copied, sizes>>
ghost  == <<failure, clean, changed, late, saved>>
vars   == <<pc, offered, list, slot, locals, net, server, ghost>>

None == 0
\* A list that arrived and names no file.
NoFiles == -1
\* A reply as it is read: its kind, the file it is about, and for contents what
\* it really holds, from which position, and how many bytes.
Reply(k, f, holds, at, n) ==
  [kind |-> k, file |-> f, holds |-> holds, at |-> at, len |-> n]
Empty == Reply("none", 0, "nothing", 0, 0)
Lesser(a, b) == IF a <= b THEN a ELSE b
Failure(why, answer, rest) == [why |-> why, answer |-> answer, rest |-> rest]

Init ==
  /\ pc = "idle" /\ offered = FALSE /\ list = None /\ slot = Empty
  /\ size = 0 /\ offset = 0 /\ held = 0 /\ asked = 0
  /\ toServer = <<>> /\ toClient = <<>>
  /\ cur = 0 /\ copied = 0 /\ sizes \in [1..Files -> Sizes]
  /\ failure = Failure("none", Empty, 0) /\ clean = TRUE /\ changed = FALSE /\ late = FALSE
  /\ saved = [name |-> 0, len |-> 0, clean |-> TRUE, sure |-> FALSE]

Ask(what, at, n) == Append(toServer, [what |-> what, at |-> at, len |-> n])

\* The command is over, with the answer it read last and what was to come.
End(how, why, rest) ==
  /\ pc' = how /\ failure' = Failure(why, slot, rest)
  /\ size' = 0 /\ offset' = 0 /\ held' = 0 /\ asked' = 0

Return(why) == End("idle", why, size - offset)

------------------------------------------------------------------------------
(* The callbacks: any code that reads the connection runs them. *)

\* A waiting command takes what it waits for before it reads on.
Pumps ==
  /\ ~(pc = "list" /\ list # None)
  /\ ~(pc \in {"size", "data"} /\ slot # Empty)

Incoming(kinds) ==
  /\ Pumps
  /\ toClient # <<>> /\ Head(toClient).kind \in kinds
  /\ toClient' = Tail(toClient)

OnRemoteCopy ==
  /\ Incoming({"copy"})
  /\ offered' = (Head(toClient).file # 0)
  /\ UNCHANGED <<pc, list, slot, locals, toServer, server, ghost>>

\* A list that is not awaited is taken for text; an error leaves no trace.
OnFormatDataResponse ==
  /\ Incoming({"list"})
  /\ list' = IF list = None /\ Head(toClient).file # None THEN Head(toClient).file
             ELSE list
  /\ UNCHANGED <<pc, offered, slot, locals, toServer, server, ghost>>

MutClassify(m) == [m EXCEPT !.kind = IF m.len = Eight THEN "size" ELSE "data"]
\* Only the length tells an error from a size from data.
Classify(m) ==
  [m EXCEPT !.kind = IF m.len = 0 THEN "error"
                     ELSE IF m.len = Eight THEN "size" ELSE "data"]

OnFileContentsResponse ==
  /\ Incoming({"contents"})
  /\ slot' = Classify(Head(toClient))
  /\ UNCHANGED <<pc, offered, list, locals, toServer, server, ghost>>

------------------------------------------------------------------------------
(* The command. *)

\* Nothing on offer is an error at once; else ask for the list of files.
RecvClipboardFile ==
  /\ pc = "idle" /\ Len(toServer) + Len(toClient) < Queue
  /\ IF offered
     THEN /\ pc' = "list" /\ list' = None /\ failure' = Failure("none", Empty, 0)
          /\ toServer' = Ask("list", 0, 0)
          /\ UNCHANGED locals
     ELSE Return("refused") /\ UNCHANGED <<list, toServer>>
  /\ changed' = FALSE /\ clean' = TRUE
  /\ UNCHANGED <<offered, slot, toClient, server, late, saved>>

MutFresh == slot
\* received_file_contents, taken by the previous request and cleared anew.
Fresh == Empty

\* The file list is there: ask for the size of its first file, if it has one.
AskSize ==
  /\ pc = "list" /\ list # None
  /\ \/ /\ list = NoFiles /\ Return("empty")
        /\ UNCHANGED <<slot, toServer>>
     \/ /\ list # NoFiles
        /\ pc' = "size" /\ slot' = Fresh
        /\ toServer' = Ask("size", 0, 8)
        /\ UNCHANGED <<locals, failure>>
  /\ UNCHANGED <<offered, list, toClient, server, clean, changed, late, saved>>

\* chunk_size.min(remaining_bytes as u32)
Request(rest) == Lesser(Chunk, rest % Wrap)

\* The head of `while offset < size`: ask for the next piece, or write the file,
\* which may fail.
Continue(n, at, have) ==
  IF at < n
  THEN /\ pc' = "data" /\ slot' = Fresh
       /\ size' = n /\ offset' = at /\ held' = have /\ asked' = Request(n - at)
       /\ toServer' = Ask("data", at, Request(n - at))
       /\ UNCHANGED <<failure, saved>>
  ELSE /\ slot' = Empty
       /\ \/ /\ Return("none")
             /\ saved' = [name |-> list, len |-> have, clean |-> clean',
                          sure |-> ~changed /\ ~late]
          \/ Return("unwritten") /\ UNCHANGED saved
       /\ UNCHANGED toServer

Reject(why) ==
  /\ Return(why) /\ slot' = Empty
  /\ UNCHANGED <<toServer, clean, saved>>

\* Vec::with_capacity ends the program where so much cannot be reserved.
Reserve(n) ==
  IF n <= Memory THEN Continue(n, 0, 0)
  ELSE End("crashed", "memory", n) /\ slot' = Empty /\ UNCHANGED <<toServer, saved>>

\* Data of the length of a size may spell any number.
TakeSize ==
  /\ pc = "size" /\ slot # Empty
  /\ \/ /\ slot.kind = "size" /\ clean' = TRUE
        /\ \E n \in IF slot.holds = "size" THEN {sizes[slot.file]}
                    ELSE Sizes \cup {Memory + 1} : Reserve(n)
     \/ slot.kind # "size" /\ Reject("misread")
  /\ UNCHANGED <<offered, list, toClient, server, changed, late>>

MutAdvance(n) == asked
\* offset += data.len()
Advance(n) == n

TakeData ==
  /\ pc = "data" /\ slot # Empty
  /\ IF slot.kind = "data"
     THEN /\ clean' = (clean /\ slot.holds = "data" /\ slot.file = list
                        /\ slot.at = held)
          /\ Continue(size, offset + Advance(slot.len), held + slot.len)
     ELSE Reject(IF slot.kind = "error" THEN "error" ELSE "misread")
  /\ UNCHANGED <<offered, list, toClient, server, changed, late>>

\* The timeout of one request; the server may also have gone.
GiveUp ==
  /\ \/ pc = "list" /\ list = None
     \/ pc \in {"size", "data"} /\ slot = Empty
  /\ Return("timeout") /\ late' = TRUE
  /\ UNCHANGED <<offered, list, slot, net, server, clean, changed, saved>>

------------------------------------------------------------------------------
(* The server, as the client has to expect it. *)

\* Its user copies the next file, or something that is not a file.
ServerCopy ==
  /\ copied < Files
  /\ copied' = copied + 1
  /\ cur' \in {0, copied + 1}
  /\ toClient' = Append(toClient, Reply("copy", cur', "nothing", 0, 0))
  /\ changed' = (changed \/ pc # "idle")
  /\ UNCHANGED <<pc, offered, list, slot, locals, toServer, sizes, failure, clean,
                 late, saved>>

\* The list of its files; where it has none, an error or a list without any.
Names(q) ==
  /\ q.what = "list"
  /\ \E f \in {cur} \cup (IF cur = 0 THEN {NoFiles} ELSE {}) :
       toClient' = Append(toClient, Reply("list", f, "nothing", 0, 0))

Contents(holds, at, n) ==
  toClient' = Append(toClient, Reply("contents", cur, holds, at, n))

\* A range is answered by as much as was asked for, or less; where there is
\* nothing, by an error without data.
ServerAnswer ==
  /\ toServer # <<>> /\ toServer' = Tail(toServer)
  /\ LET q == Head(toServer)
         left == IF cur = 0 THEN 0 ELSE sizes[cur] - q.at
     IN  \/ Names(q)
         \/ q.what = "size" /\ cur # 0 /\ Contents("size", 0, Eight)
         \/ q.what = "data" /\ \E n \in 1..Lesser(q.len, left) : Contents("data", q.at, n)
         \/ q.what = "size" /\ cur = 0 /\ Contents("nothing", 0, 0)
         \/ q.what = "data" /\ Lesser(q.len, left) <= 0 /\ Contents("nothing", 0, 0)
  /\ UNCHANGED <<pc, offered, list, slot, locals, server, ghost>>

------------------------------------------------------------------------------
Receive == OnRemoteCopy \/ OnFormatDataResponse \/ OnFileContentsResponse

Step == AskSize \/ TakeSize \/ TakeData

Next ==
  \/ Receive \/ RecvClipboardFile \/ Step \/ GiveUp
  \/ ServerCopy \/ ServerAnswer

Spec == Init /\ [][Next]_vars

\* The client runs on until it waits, and its timeouts end each wait. The
\* server may be silent.
FairSpec == Spec /\ WF_vars(Step) /\ WF_vars(GiveUp)
==============================================================================
