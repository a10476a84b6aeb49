------------------------- MODULE ClipboardProperties -------------------------
(* What is claimed of the shared clipboard. *)
EXTENDS Clipboard

\* Every paste of a text the server took from us gets a text, the second as
\* well as the first, unless announcements crossed on the way (session.rs:1203).
PasteServed == pasted.done /\ pasted.want # 0 /\ ~raced => pasted.got # 0

\* A paste never brings a text older than the one the server was offered when
\* it asked, however offers, requests and handshakes cross.
NoStalePaste == pasted.done /\ pasted.got # 0 => pasted.got >= pasted.want

\* get-clipboard returns what the server had at the time or later, unless an
\* earlier get gave up on an answer that then came late.
GetCurrent == got # 0 /\ ~late => got >= floor

\* No request of a well-behaved server makes an unrelated command fail: the
\* file it may still ask for stays staged, even after copies of its own.
NoSpuriousError == ~spurious

\* A text that was set is never withdrawn by the handshake: whether the server's
\* request for a list comes before or after it, the server holds the empty list
\* of the answer only while the announcement of the text is still under way
\* (session.rs:1164). Of a staged file this does not hold: its offer is replaced
\* by the empty list when the request is read late.
OfferKeepsText ==
  pendingSend # 0 /\ offer.kind \in {"none", "emptyList"} =>
    Carries(toServer, {"textList", "fileList"})

\* The handshake completes whatever commands surround it; the one thing that can
\* keep it from completing is a line to the REPL that drops its own answer.
HandshakeCompletes == <>(chan = "ready" \/ "formatList" \in dropped)

\* A program on the server that pastes is always answered, in a chain and in the
\* REPL; the one thing that leaves it waiting is a line, typed or piped, that
\* comes while this very answer is being written (rdpdo.rs:2220, 2322).
PasteAnswered ==
  asking.kind # "none" ~> (asking.kind = "none" \/ dropped \cap {"text", "fileList"} # {})

\* exec and the paste inside it never wait on each other (session.rs:321-326),
\* unless the answer to an earlier paste was dropped by a line to the REPL.
ExecFinishes == pc = "exec" ~> (pc # "exec" \/ dropped \cap {"text", "fileList"} # {})
==============================================================================
