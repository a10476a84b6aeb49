------------------------- MODULE FileRecvProperties --------------------------
(* What is claimed of clipboard-recv-file. *)
EXTENDS FileRecv

\* A file that is saved is the one on the server's clipboard, whole and in
\* order, whatever the pieces it came in, if nothing was copied during the
\* transfer and no earlier request was abandoned (session.rs:1564-1584).
SavedIntact ==
  saved.name # 0 /\ saved.sure => saved.clean /\ saved.len = sizes[saved.name]

\* A transfer never stops for lack of an answer, nor goes on for ever: an
\* empty answer ends it, and so does a size that cannot be reserved.
RecvFinishes == pc \in {"list", "size", "data"} ~> pc \in {"idle", "crashed"}

\* Why a transfer fails that no copy and no abandoned request disturbs, of a
\* file that is there: because a piece of it had exactly eight bytes, which is
\* read as a size (clipboard.rs:235); because 4 GiB, or a multiple, were still
\* to come, of which none are asked for (session.rs:1566); or because the file
\* is longer than what can be reserved (session.rs:1560). No answer is read for
\* a request it was not sent for, so that nothing else can be misread.
FailsForCause ==
  ~changed /\ ~late =>
    /\ failure.why = "misread" => failure.answer.holds = "data" /\ failure.answer.len = Eight
    /\ failure.why = "error" => failure.rest % Wrap = 0 /\ failure.rest > 0
    /\ failure.why = "memory" => failure.rest = sizes[failure.answer.file]
==============================================================================
