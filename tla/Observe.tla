------------------------------- MODULE Observe --------------------------------
(* Reading the connection for the sake of the picture: run_for, wait_for_frame *)
(* and wait_still of src/session.rs, the reactivation inside dispatch_outputs, *)
(* and the commands that look: pause, wait-change, wait-still, expect, waitfor,*)
(* capture (src/rdpdo.rs) and shot (src/rdpsee.rs).                            *)
(*                                                                            *)
(* A picture is a member of Pictures, 0 a blank framebuffer. There are two    *)
(* framebuffers, one written by bitmap updates, one by the EGFX channel. Time *)
(* passes in ticks of one polling step while a command waits; what arrives    *)
(* within a tick is read before the tick ends, or in a later one.             *)
EXTENDS Integers, Sequences

CONSTANTS Pictures,   \* what the server may draw
          Target,     \* the picture that expect, waitfor match
          Timeouts,   \* the timeouts a command may have
          Poll, Stillness, Settle,   \* of expect and waitfor, wait-still, shot
          Draws,      \* bound: drawings, resets and reactivations
          Queue       \* bound: PDUs under way

ASSUME ObserveAssumption ==
  /\ Target \in Pictures /\ Pictures \subseteq Nat \ {0} /\ Timeouts \subseteq Nat \ {0}
  /\ {Poll, Stillness, Settle} \subseteq Nat \ {0} /\ {Draws, Queue} \subseteq Nat

VARIABLES
  updates, gfxFrames,     \* metrics.graphics_updates, egfx_frame_count
  hasGfx,                 \* egfx_has_content
  image, framebuffer,     \* what they show
  peerDown, reacting,     \* peer_disconnected; inside the reactivation loop
  pc, left, window, quiet, base,   \* the command; time left, time left of an
                          \* inner run_for, since the last update; frames before
  outcome,                \* how the last command ended
  stream, pipe, closed, drawn,     \* PDUs under way; the server's side
  newest, drew, since, onTarget    \* history

frames == <<updates, gfxFrames>>
screen == <<hasGfx, image, framebuffer>>
timing == <<left, window, quiet, base>>
server == <<stream, pipe, closed, drawn>>
ghost  == <<newest, drew, since, onTarget>>
vars   == <<frames, screen, peerDown, reacting, pc, timing, outcome, server, ghost>>

Pdu(k, p) == [kind |-> k, pic |-> p]
Inner == {"run", "expectRun", "waitforRun", "shotRun", "shotSettle"}
Waiting == Inner \cup {"change", "still"}

\* history: the time since a bitmap update, since the EGFX channel or a
\* reactivation changed a framebuffer, and since what is shown changed
Just == [bitmap |-> 0, other |-> 0, shown |-> 0]

Init ==
  /\ updates = 0 /\ gfxFrames = 0 /\ hasGfx = FALSE /\ image = 0 /\ framebuffer = 0
  /\ peerDown = FALSE /\ reacting = FALSE
  /\ pc = "idle" /\ left = 0 /\ window = 0 /\ quiet = 0 /\ base = 0
  /\ outcome = [of |-> "none", how |-> "none"]
  /\ stream = <<>> /\ pipe = "bitmap" /\ closed = FALSE /\ drawn = 0
  /\ newest = 0 /\ drew = {} /\ since = Just /\ onTarget = 0

MutFrameCount == updates
FrameCount == updates + gfxFrames
HasContent == hasGfx \/ updates > 0
\* current_frame: the EGFX framebuffer as soon as it counts as drawn on.
Shown == IF hasGfx THEN framebuffer ELSE image

------------------------------------------------------------------------------
(* Commands start. *)

Begin(c) == pc = "idle" /\ pc' = c /\ outcome' = [of |-> c, how |-> "none"]
Unread == UNCHANGED <<frames, screen, peerDown, reacting, server, newest>>

\* history: nothing drawn, and no time gone by, since the command started
Afresh == drew' = {} /\ since' = Just /\ onTarget' = 0

\* Everything that waits computes its deadline and notes what it starts from.
Start ==
  /\ \E c \in {"run", "change", "still", "expect", "waitfor", "shot"} : Begin(c)
  /\ left' \in Timeouts
  /\ window' = IF pc' = "run" THEN left' ELSE 0
  /\ quiet' = 0 /\ base' = FrameCount
  /\ Afresh
  /\ Unread

\* The command returns, and its locals are gone.
Finish(how) ==
  /\ pc' = "idle" /\ outcome' = [outcome EXCEPT !.how = how]
  /\ left' = 0 /\ window' = 0 /\ quiet' = 0

\* capture saves what is shown, but is refused while no frame was counted.
Capture ==
  /\ pc = "idle"
  /\ outcome' = [of |-> "capture", how |-> IF FrameCount = 0 THEN "refused" ELSE "ok"]
  /\ UNCHANGED <<pc, timing, drew, since, onTarget>> /\ Unread

------------------------------------------------------------------------------
(* Between two reads: the heads of the loops. *)

Quietly == UNCHANGED <<base, ghost>> /\ Unread
GoTo(next) == pc' = next /\ UNCHANGED <<outcome, left, window, quiet>>

\* run_for returns to its caller.
RunEnds ==
  /\ pc \in {"run", "expectRun", "shotRun"} /\ window = 0 /\ ~reacting
  /\ \/ pc = "run" /\ Finish("ok")
     \/ pc = "expectRun" /\ GoTo("expect")
     \/ pc = "shotRun" /\ GoTo("shot")
  /\ Quietly

MutPollFor(n) == window' = left
PollFor(n) == window' = n

MutPump(run, n) == pc' = run /\ PollFor(n) /\ left' \in Timeouts /\ UNCHANGED <<outcome, quiet>>
\* Read for n more, and be back then.
Pump(run, n) == pc' = run /\ PollFor(n) /\ UNCHANGED <<outcome, left, quiet>>

\* expect gives up at its deadline before it compares.
ExpectHead ==
  /\ pc = "expect"
  /\ \/ left = 0 /\ Finish("failed")
     \/ left > 0 /\ Shown = Target /\ Finish("ok")
     \/ left > 0 /\ Shown # Target /\ Pump("expectRun", Poll)
  /\ Quietly

\* waitfor reads first and compares afterwards, whatever time it is then.
WaitforHead ==
  /\ pc = "waitfor"
  /\ \/ left = 0 /\ Finish("failed")
     \/ left > 0 /\ Pump("waitforRun", Poll)
  /\ Quietly

WaitforCompares ==
  /\ pc = "waitforRun" /\ window = 0 /\ ~reacting
  /\ IF Shown = Target THEN Finish("ok") ELSE GoTo("waitfor")
  /\ Quietly

\* wait_for_frame, of wait-change and of the first frame of a session.
ChangeHead ==
  /\ pc = "change" /\ ~reacting
  /\ \/ FrameCount > base /\ Finish("ok")
     \/ FrameCount <= base /\ left = 0 /\ Finish("failed")
  /\ Quietly

StillHead ==
  /\ pc = "still" /\ ~reacting
  /\ \/ quiet >= Stillness /\ Finish("ok")
     \/ quiet < Stillness /\ left = 0 /\ Finish("failed")
  /\ Quietly

\* shot waits for content, then a little longer, and saves what is there.
ShotHead ==
  /\ pc = "shot"
  /\ IF HasContent \/ left = 0 THEN Pump("shotSettle", Settle) ELSE Pump("shotRun", 1)
  /\ Quietly

ShotSaves ==
  /\ pc = "shotSettle" /\ window = 0 /\ ~reacting
  /\ Finish("ok")
  /\ Quietly

------------------------------------------------------------------------------
(* Reading. *)

\* The loop's conditions are looked at before the next read.
Reads ==
  /\ pc \in Waiting /\ ~reacting
  /\ pc \in Inner => window > 0
  /\ pc = "change" => left > 0 /\ FrameCount <= base
  /\ pc = "still" => left > 0 /\ quiet < Stillness

Incoming(k) ==
  /\ Reads /\ stream # <<>> /\ Head(stream).kind = k
  /\ stream' = Tail(stream)
  /\ UNCHANGED <<pipe, closed, drawn, peerDown, pc, left, window, base, outcome>>

MutSettles == quiet' = quiet
\* had_graphics: a bitmap update starts the stillness over.
Settles == quiet' = 0

\* history: a framebuffer was changed, and p drawn
Touched(via) ==
  since' = [since EXCEPT ![via] = 0, !.shown = IF Shown' = Shown THEN since.shown ELSE 0]

Drawn(via, p) ==
  /\ newest' = p /\ drew' = drew \cup {Head(stream).kind}
  /\ Touched(via)
  /\ onTarget' = IF Shown' = Target THEN onTarget ELSE 0

OnGraphicsUpdate ==
  /\ Incoming("bitmap")
  /\ updates' = updates + 1 /\ image' = Head(stream).pic
  /\ Settles
  /\ UNCHANGED <<gfxFrames, hasGfx, framebuffer, reacting>>
  /\ Drawn("bitmap", Head(stream).pic)

\* EGFX draws in callbacks, while the PDU is processed.
OnBitmapUpdated ==
  /\ Incoming("gfx")
  /\ gfxFrames' = gfxFrames + 1 /\ hasGfx' = TRUE /\ framebuffer' = Head(stream).pic
  /\ UNCHANGED <<updates, image, reacting, quiet>>
  /\ Drawn("other", Head(stream).pic)

\* RemoteFX is content, but not a frame.
OnRemoteFx ==
  /\ Incoming("rfx")
  /\ hasGfx' = TRUE /\ framebuffer' = Head(stream).pic
  /\ UNCHANGED <<frames, image, reacting, quiet>>
  /\ Drawn("other", Head(stream).pic)

\* A fill or a copy between surfaces is neither.
OnSolidFill ==
  /\ Incoming("fill")
  /\ framebuffer' = Head(stream).pic
  /\ UNCHANGED <<frames, hasGfx, image, reacting, quiet>>
  /\ Drawn("other", Head(stream).pic)

OnResetGraphics ==
  /\ Incoming("reset")
  /\ framebuffer' = 0
  /\ UNCHANGED <<frames, hasGfx, image, reacting, quiet, drew>>
  /\ Touched("other")
  /\ newest' = Shown' /\ onTarget' = 0

OnDeactivateAll ==
  /\ Incoming("deactivate")
  /\ reacting' = TRUE
  /\ UNCHANGED <<frames, screen, quiet, ghost>>

MutForgetGfx == UNCHANGED hasGfx
\* egfx_has_content.store(false)
ForgetGfx == hasGfx' = FALSE

\* The end of the reactivation: both framebuffers are new.
OnActivated ==
  /\ reacting /\ stream # <<>> /\ Head(stream).kind = "activated"
  /\ stream' = Tail(stream) /\ reacting' = FALSE
  /\ image' = 0 /\ framebuffer' = 0
  /\ ForgetGfx
  /\ Touched("other")
  /\ newest' = 0 /\ onTarget' = 0
  /\ UNCHANGED <<frames, peerDown, pc, timing, outcome, pipe, closed, drawn, drew>>

Ended == closed /\ stream = <<>>

\* A read fails: the loop ends, and with it wait_for_frame and wait_still.
PeerDisconnected ==
  /\ Reads /\ Ended
  /\ peerDown' = TRUE
  /\ IF pc \in Inner
     THEN window' = 0 /\ UNCHANGED <<pc, outcome, left, quiet>>
     ELSE Finish("failed")
  /\ UNCHANGED <<frames, screen, reacting, base, server, ghost>>

\* The reactivation fails, which fails the command.
ReactivationFails ==
  /\ reacting /\ Ended
  /\ reacting' = FALSE
  /\ Finish("error")
  /\ UNCHANGED <<frames, screen, peerDown, base, server, ghost>>

------------------------------------------------------------------------------
(* Time and the server. *)

\* saturating_duration_since
Less(n) == IF n = 0 THEN 0 ELSE n - 1
Cap == Stillness + Poll + 1   \* bound: longer times are not told apart
More(n) == IF n < Cap THEN n + 1 ELSE n

\* A deadline that has passed is acted on before more time goes by, except
\* that nothing interrupts a reactivation.
Tick ==
  /\ reacting \/ Reads
  /\ left' = Less(left) /\ window' = Less(window) /\ quiet' = More(quiet)
  /\ since' = [via \in DOMAIN since |-> More(since[via])]
  /\ onTarget' = IF Shown = Target /\ ~reacting THEN More(onTarget) ELSE 0
  /\ UNCHANGED <<frames, screen, peerDown, reacting, pc, base, outcome, server,
                 newest, drew>>

\* A server on the EGFX channel stays there until the next reactivation.
Via(k) == IF k = "bitmap" THEN "bitmap" ELSE "gfx"

ServerDraws ==
  /\ ~closed /\ drawn < Draws /\ Len(stream) < Queue
  /\ \E k \in {"bitmap", "gfx", "rfx", "fill", "reset"}, p \in Pictures :
       /\ pipe \in {"bitmap", Via(k)}
       /\ pipe' = Via(k)
       /\ stream' = Append(stream, Pdu(k, p))
  /\ drawn' = drawn + 1
  /\ UNCHANGED <<frames, screen, peerDown, reacting, pc, timing, outcome, closed, ghost>>

ServerDeactivates ==
  /\ ~closed /\ pipe # "none" /\ drawn < Draws /\ Len(stream) < Queue
  /\ pipe' = "none" /\ drawn' = drawn + 1
  /\ stream' = Append(stream, Pdu("deactivate", 0))
  /\ UNCHANGED <<frames, screen, peerDown, reacting, pc, timing, outcome, closed, ghost>>

ServerActivates ==
  /\ ~closed /\ pipe = "none" /\ Len(stream) < Queue
  /\ pipe' = "bitmap"
  /\ stream' = Append(stream, Pdu("activated", 0))
  /\ UNCHANGED <<frames, screen, peerDown, reacting, pc, timing, outcome, closed,
                 drawn, ghost>>

ServerCloses ==
  /\ ~closed /\ closed' = TRUE
  /\ UNCHANGED <<frames, screen, peerDown, reacting, pc, timing, outcome, stream,
                 pipe, drawn, ghost>>

------------------------------------------------------------------------------
Proceed ==
  \/ RunEnds \/ ExpectHead \/ WaitforHead \/ WaitforCompares \/ ChangeHead
  \/ StillHead \/ ShotHead \/ ShotSaves

Receive ==
  \/ OnGraphicsUpdate \/ OnBitmapUpdated \/ OnRemoteFx \/ OnSolidFill
  \/ OnResetGraphics \/ OnDeactivateAll \/ OnActivated
  \/ PeerDisconnected \/ ReactivationFails

Server == ServerDraws \/ ServerDeactivates \/ ServerActivates \/ ServerCloses

Next == Start \/ Capture \/ Proceed \/ Receive \/ Tick \/ Server

Spec == Init /\ [][Next]_vars

\* The client runs on and reads what is there. Time also passes for a polling
\* loop that spins because every read fails, hence SF. The server may stall, in
\* the middle of a reactivation as well.
FairSpec == Spec /\ WF_vars(Proceed) /\ WF_vars(Receive) /\ SF_vars(Tick)
==============================================================================
