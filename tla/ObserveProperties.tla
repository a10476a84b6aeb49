-------------------------- MODULE ObserveProperties ---------------------------
(* What is claimed of the commands that look at the screen. *)
EXTENDS Observe

Ending(c, how) == pc = "idle" /\ outcome = [of |-> c, how |-> how]

\* wait-change (and the wait for the first frame) tells the truth: it succeeds
\* only over something drawn since it began, and gives up only if no bitmap
\* update and no EGFX bitmap was (session.rs:354-392).
ChangeEarned ==
  /\ Ending("change", "ok") => drew # {}
  /\ Ending("change", "failed") => drew \cap {"bitmap", "gfx"} = {}

\* What wait-still says, however updates and the deadline interleave. It heeds
\* bitmap updates and nothing else (session.rs:711), although help.rs:568 says
\* that it monitors EGFX frames: it succeeds after the whole period without a
\* bitmap update, and if what is shown did change within the period, then the
\* EGFX channel or a reactivation changed it; and it is a bitmap update that
\* makes it give up, if its timeout is not shorter than the period.
StillEarned ==
  /\ Ending("still", "ok") =>
       /\ since.bitmap >= Stillness
       /\ since.shown >= Stillness \/ since.other < Stillness
  /\ Ending("still", "failed") /\ (\A t \in Timeouts : Stillness <= t) =>
       "bitmap" \in drew \/ peerDown

\* A picture that stays on the screen for more than one polling step up to the
\* end is not missed: expect and waitfor do not fail over it, whatever arrives
\* in between (rdpdo.rs:549-594, 600-640).
LongEnoughIsSeen ==
  Ending("expect", "failed") \/ Ending("waitfor", "failed") => onTarget <= Poll

\* What is saved is what was drawn last, by whichever pipeline, also after a
\* reactivation moved the server from one to the other; the exception is an
\* EGFX framebuffer that only fills and surface copies have drawn on.
SavedIsNewest ==
  (Ending("capture", "ok") \/ Ending("shot", "ok")) /\ (hasGfx \/ framebuffer = 0)
    => Shown = newest

\* Every wait ends, with a server that stalls, floods or leaves, unless the
\* server stalls within a reactivation.
WaitsEnd == pc # "idle" ~> pc = "idle" \/ reacting

==============================================================================
