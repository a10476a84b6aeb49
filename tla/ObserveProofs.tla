---------------------------- MODULE ObserveProofs -----------------------------
(***************************************************************************)
(* Proofs about the commands that look at the screen, for every sequence   *)
(* of drawings, resets and reactivations and every timeout.                *)
(***************************************************************************)
EXTENDS ObserveProperties, TLAPS

USE ObserveAssumption

Drawing == {"gfx", "rfx", "fill", "reset"}
Pdus ==
  [kind : Drawing \cup {"bitmap"}, pic : Pictures]
    \cup [kind : {"deactivate", "activated"}, pic : {0}]

------------------------------------------------------------------------------
(* What is shown is the newest picture. *)

ShowsNewest == hasGfx \/ framebuffer = 0 => Shown = newest

\* Between a drawing of the EGFX channel and a bitmap update behind it there is a
\* reactivation, in the stream or in what was read of it.
Separated ==
  /\ \A i, j \in DOMAIN stream :
       j < i /\ stream[j].kind \in Drawing /\ stream[i].kind = "bitmap"
         => \E k \in DOMAIN stream : j < k /\ k < i /\ stream[k].kind = "activated"
  /\ \A i \in DOMAIN stream :
       hasGfx /\ stream[i].kind = "bitmap"
         => \E k \in DOMAIN stream : k < i /\ stream[k].kind = "activated"
  /\ \A j \in DOMAIN stream :
       pipe = "bitmap" /\ stream[j].kind \in Drawing
         => \E k \in DOMAIN stream : j < k /\ stream[k].kind = "activated"
  /\ pipe = "bitmap" /\ hasGfx => \E k \in DOMAIN stream : stream[k].kind = "activated"

View ==
  /\ stream \in Seq(Pdus) /\ pipe \in {"bitmap", "gfx", "none"}
  /\ ShowsNewest
  /\ Separated

view == <<hasGfx, image, framebuffer, newest, stream, pipe>>

LEMMA ViewInit == Init => View
BY DEF Init, View, ShowsNewest, Separated, Shown

\* Steps that touch neither the picture nor the stream.
LEMMA ViewStutters == View /\ UNCHANGED view => View'
BY DEF View, view, ShowsNewest, Separated, Shown

\* Reading the head of the stream.
LEMMA ViewTail ==
  ASSUME View, stream # <<>>, stream' = Tail(stream), pipe' = pipe,
         hasGfx' => Head(stream).kind # "activated",
         hasGfx' => hasGfx \/ Head(stream).kind \in Drawing
  PROVE  Separated' /\ stream' \in Seq(Pdus)
<1>1. /\ stream' \in Seq(Pdus) /\ Len(stream) \in Nat \ {0}
      /\ DOMAIN stream = 1..Len(stream) /\ DOMAIN stream' = 1..Len(stream) - 1
      /\ \A i \in DOMAIN stream' : stream'[i] = stream[i + 1]
      /\ Head(stream) = stream[1] /\ 1 \in DOMAIN stream
  BY DEF View
<1>2. \A i \in DOMAIN stream' : i + 1 \in DOMAIN stream /\ i + 1 > 1
  BY <1>1
<1>3. ASSUME NEW k \in DOMAIN stream, k # 1
      PROVE  k - 1 \in DOMAIN stream' /\ stream'[k - 1] = stream[k]
  BY <1>1, <1>3
<1>4. ASSUME NEW i \in DOMAIN stream', NEW j \in DOMAIN stream',
             j < i, stream'[j].kind \in Drawing, stream'[i].kind = "bitmap"
      PROVE  \E k \in DOMAIN stream' : j < k /\ k < i /\ stream'[k].kind = "activated"
  <2>1. PICK k \in DOMAIN stream : j + 1 < k /\ k < i + 1 /\ stream[k].kind = "activated"
    <3>1. i + 1 \in DOMAIN stream /\ j + 1 \in DOMAIN stream /\ j + 1 < i + 1
      BY <1>1, <1>2, <1>4
    <3>2. stream[j + 1].kind \in Drawing /\ stream[i + 1].kind = "bitmap"
      BY <1>1, <1>4
    <3>3. \A a, b \in DOMAIN stream :
            a < b /\ stream[a].kind \in Drawing /\ stream[b].kind = "bitmap"
              => \E k \in DOMAIN stream : a < k /\ k < b /\ stream[k].kind = "activated"
      BY DEF View, Separated
    <3> HIDE DEF Drawing
    <3> QED BY <3>1, <3>2, <3>3
  <2>2. k - 1 \in DOMAIN stream' /\ stream'[k - 1] = stream[k] /\ j < k - 1 /\ k - 1 < i
    BY <1>1, <1>3, <2>1
  <2> QED BY <2>1, <2>2
<1>5. ASSUME NEW i \in DOMAIN stream', hasGfx', stream'[i].kind = "bitmap"
      PROVE  \E k \in DOMAIN stream' : k < i /\ stream'[k].kind = "activated"
  <2>1. PICK k \in DOMAIN stream : k < i + 1 /\ k # 1 /\ stream[k].kind = "activated"
    BY <1>1, <1>2, <1>5 DEF View, Separated
  <2>2. k - 1 \in DOMAIN stream' /\ stream'[k - 1] = stream[k] /\ k - 1 < i
    BY <1>1, <1>3, <2>1
  <2> QED BY <2>1, <2>2
<1>6. ASSUME NEW j \in DOMAIN stream', pipe' = "bitmap", stream'[j].kind \in Drawing
      PROVE  \E k \in DOMAIN stream' : j < k /\ stream'[k].kind = "activated"
  <2>1. PICK k \in DOMAIN stream : j + 1 < k /\ stream[k].kind = "activated"
    BY <1>1, <1>2, <1>6 DEF View, Separated
  <2>2. k - 1 \in DOMAIN stream' /\ stream'[k - 1] = stream[k] /\ j < k - 1
    BY <1>1, <1>3, <2>1
  <2> QED BY <2>1, <2>2
<1>7. ASSUME pipe' = "bitmap", hasGfx'
      PROVE  \E k \in DOMAIN stream' : stream'[k].kind = "activated"
  <2>1. PICK k \in DOMAIN stream : k # 1 /\ stream[k].kind = "activated"
    BY <1>1, <1>7 DEF View, Separated
  <2> QED BY <1>3, <2>1
<1> QED BY <1>1, <1>4, <1>5, <1>6, <1>7 DEF Separated

LEMMA ViewReceives == View /\ Receive => View'
<1> SUFFICES ASSUME View, Receive PROVE View'
  OBVIOUS
<1>1. CASE OnGraphicsUpdate
  <2>1. /\ stream # <<>> /\ Head(stream).kind = "bitmap" /\ stream' = Tail(stream)
        /\ image' = Head(stream).pic /\ newest' = Head(stream).pic
        /\ UNCHANGED <<hasGfx, framebuffer, pipe>>
    BY <1>1 DEF OnGraphicsUpdate, Incoming, Drawn
  <2>2. Separated' /\ stream' \in Seq(Pdus)
    BY <2>1, ViewTail
  <2>3. ~hasGfx
    <3>1. 1 \in DOMAIN stream /\ stream[1].kind = "bitmap" /\ DOMAIN stream = 1..Len(stream)
      BY <2>1 DEF View
    <3> QED BY <3>1 DEF View, Separated
  <2> QED BY <2>1, <2>2, <2>3 DEF View, ShowsNewest, Shown
<1>2. CASE OnBitmapUpdated
  <2>1. /\ stream # <<>> /\ Head(stream).kind = "gfx" /\ stream' = Tail(stream)
        /\ hasGfx' /\ framebuffer' = Head(stream).pic /\ newest' = Head(stream).pic
        /\ UNCHANGED <<image, pipe>>
    BY <1>2 DEF OnBitmapUpdated, Incoming, Drawn
  <2>2. Separated' /\ stream' \in Seq(Pdus)
    BY <2>1, ViewTail DEF Drawing
  <2> QED BY <2>1, <2>2 DEF View, ShowsNewest, Shown
<1>3. CASE OnRemoteFx
  <2>1. /\ stream # <<>> /\ Head(stream).kind = "rfx" /\ stream' = Tail(stream)
        /\ hasGfx' /\ framebuffer' = Head(stream).pic /\ newest' = Head(stream).pic
        /\ UNCHANGED <<image, pipe>>
    BY <1>3 DEF OnRemoteFx, Incoming, Drawn
  <2>2. Separated' /\ stream' \in Seq(Pdus)
    BY <2>1, ViewTail DEF Drawing
  <2> QED BY <2>1, <2>2 DEF View, ShowsNewest, Shown
<1>4. CASE OnSolidFill
  <2>1. /\ stream # <<>> /\ Head(stream).kind = "fill" /\ stream' = Tail(stream)
        /\ framebuffer' = Head(stream).pic /\ newest' = Head(stream).pic
        /\ UNCHANGED <<hasGfx, image, pipe>>
    BY <1>4 DEF OnSolidFill, Incoming, Drawn
  <2>2. Separated' /\ stream' \in Seq(Pdus)
    BY <2>1, ViewTail DEF Drawing
  <2>3. Head(stream) \in Pdus
    BY <2>1 DEF View
  <2>4. Head(stream).pic # 0
    BY <2>1, <2>3 DEF Pdus
  <2> QED BY <2>1, <2>2, <2>4 DEF View, ShowsNewest, Shown
<1>5. CASE OnResetGraphics
  <2>1. /\ stream # <<>> /\ Head(stream).kind = "reset" /\ stream' = Tail(stream)
        /\ newest' = Shown' /\ UNCHANGED <<hasGfx, pipe>>
    BY <1>5 DEF OnResetGraphics, Incoming
  <2>2. Separated' /\ stream' \in Seq(Pdus)
    BY <2>1, ViewTail DEF Drawing
  <2>3. ShowsNewest'
    BY <2>1 DEF ShowsNewest
  <2>4. pipe' \in {"bitmap", "gfx", "none"}
    BY <2>1 DEF View
  <2> QED BY <2>2, <2>3, <2>4 DEF View
<1>6. CASE OnDeactivateAll
  <2>1. /\ stream # <<>> /\ Head(stream).kind = "deactivate" /\ stream' = Tail(stream)
        /\ UNCHANGED <<hasGfx, image, framebuffer, newest, pipe>>
    BY <1>6 DEF OnDeactivateAll, Incoming, screen, ghost
  <2>2. Separated' /\ stream' \in Seq(Pdus)
    BY <2>1, ViewTail DEF Drawing
  <2> QED BY <2>1, <2>2 DEF View, ShowsNewest, Shown
<1>7. CASE OnActivated
  <2>1. /\ stream # <<>> /\ stream' = Tail(stream) /\ hasGfx' = FALSE
        /\ image' = 0 /\ framebuffer' = 0 /\ newest' = 0 /\ UNCHANGED pipe
        /\ Head(stream).kind = "activated"
    BY <1>7 DEF OnActivated, ForgetGfx
  <2>2. ShowsNewest'
    BY <2>1 DEF ShowsNewest, Shown
  <2>3. Separated' /\ stream' \in Seq(Pdus)
    BY <2>1, ViewTail
  <2> QED BY <2>1, <2>2, <2>3 DEF View
<1>8. CASE PeerDisconnected \/ ReactivationFails
  <2>1. UNCHANGED view
    BY <1>8 DEF PeerDisconnected, ReactivationFails, screen, server, ghost, view
  <2> QED BY <2>1, ViewStutters
<1> QED BY <1>1, <1>2, <1>3, <1>4, <1>5, <1>6, <1>7, <1>8 DEF Receive

\* What the server sends: a bitmap update only if no drawing of the EGFX channel,
\* read or unread, is without a reactivation behind it.
LEMMA ViewSends ==
  ASSUME View, NEW m \in Pdus, stream' = Append(stream, m),
         pipe' \in {"bitmap", "gfx", "none"}, hasGfx' => hasGfx,
         m.kind = "bitmap" => pipe = "bitmap",
         pipe' = "bitmap" => m.kind = "activated" \/ (pipe = "bitmap" /\ m.kind = "bitmap")
  PROVE  Separated' /\ stream' \in Seq(Pdus)
<1>1. /\ stream' \in Seq(Pdus) /\ Len(stream) \in Nat
      /\ DOMAIN stream = 1..Len(stream) /\ DOMAIN stream' = 1..Len(stream) + 1
      /\ \A i \in DOMAIN stream : stream'[i] = stream[i]
      /\ stream'[Len(stream) + 1] = m
  BY DEF View
<1>2. DOMAIN stream \subseteq DOMAIN stream' /\ Len(stream) + 1 \in DOMAIN stream'
  BY <1>1
<1>3. \A i \in DOMAIN stream' : i # Len(stream) + 1 => i \in DOMAIN stream /\ i < Len(stream) + 1
  BY <1>1
<1>4. ASSUME NEW i \in DOMAIN stream', NEW j \in DOMAIN stream',
             j < i, stream'[j].kind \in Drawing, stream'[i].kind = "bitmap"
      PROVE  \E k \in DOMAIN stream' : j < k /\ k < i /\ stream'[k].kind = "activated"
  <2>1. j \in DOMAIN stream /\ stream[j].kind \in Drawing
    BY <1>1, <1>4
  <2>2. CASE i \in DOMAIN stream
    BY <1>1, <1>2, <1>4, <2>1, <2>2 DEF View, Separated
  <2>3. CASE i = Len(stream) + 1
    <3>1. PICK k \in DOMAIN stream : j < k /\ stream[k].kind = "activated"
      BY <1>1, <1>4, <2>1, <2>3 DEF View, Separated
    <3> QED BY <1>1, <1>2, <1>3, <2>3, <3>1
  <2> QED BY <1>3, <2>2, <2>3
<1>5. ASSUME NEW i \in DOMAIN stream', hasGfx', stream'[i].kind = "bitmap"
      PROVE  \E k \in DOMAIN stream' : k < i /\ stream'[k].kind = "activated"
  <2>1. CASE i \in DOMAIN stream
    BY <1>1, <1>2, <1>5, <2>1 DEF View, Separated
  <2>2. CASE i = Len(stream) + 1
    <3>1. PICK k \in DOMAIN stream : stream[k].kind = "activated"
      BY <1>1, <1>5, <2>2 DEF View, Separated
    <3> QED BY <1>1, <1>2, <2>2, <3>1
  <2> QED BY <1>3, <2>1, <2>2
<1>6. ASSUME NEW j \in DOMAIN stream', pipe' = "bitmap", stream'[j].kind \in Drawing
      PROVE  \E k \in DOMAIN stream' : j < k /\ stream'[k].kind = "activated"
  <2>1. j # Len(stream) + 1
    BY <1>1, <1>6 DEF Drawing
  <2>2. j \in DOMAIN stream /\ j < Len(stream) + 1 /\ stream[j].kind \in Drawing
    BY <1>1, <1>3, <1>6, <2>1
  <2>3. CASE m.kind = "activated"
    BY <1>1, <1>2, <2>2, <2>3
  <2>4. CASE pipe = "bitmap" /\ m.kind = "bitmap"
    BY <1>1, <1>2, <2>2, <2>4 DEF View, Separated
  <2> QED BY <1>6, <2>3, <2>4
<1>7. ASSUME pipe' = "bitmap", hasGfx'
      PROVE  \E k \in DOMAIN stream' : stream'[k].kind = "activated"
  <2>1. CASE m.kind = "activated"
    BY <1>1, <1>2, <2>1
  <2>2. CASE pipe = "bitmap" /\ m.kind = "bitmap"
    BY <1>1, <1>2, <1>7, <2>2 DEF View, Separated
  <2> QED BY <1>7, <2>1, <2>2
<1>8. Separated'
  BY <1>4, <1>5, <1>6, <1>7 DEF Separated
<1> QED BY <1>1, <1>8

LEMMA ViewServed == View /\ Server => View'
<1> SUFFICES ASSUME View, Server PROVE View'
  OBVIOUS
<1>1. CASE ServerDraws
  <2>1. PICK k \in {"bitmap", "gfx", "rfx", "fill", "reset"}, p \in Pictures :
          /\ pipe \in {"bitmap", Via(k)} /\ pipe' = Via(k)
          /\ stream' = Append(stream, Pdu(k, p))
    BY <1>1 DEF ServerDraws
  <2>2. UNCHANGED <<hasGfx, image, framebuffer, newest>>
    BY <1>1 DEF ServerDraws, screen, ghost
  <2>3. Pdu(k, p) \in Pdus /\ Pdu(k, p).kind = k
    BY DEF Pdu, Pdus, Drawing
  <2>4. /\ pipe' \in {"bitmap", "gfx", "none"}
        /\ k = "bitmap" => pipe = "bitmap"
        /\ pipe' = "bitmap" => pipe = "bitmap" /\ k = "bitmap"
    BY <2>1 DEF Via
  <2>5. Separated' /\ stream' \in Seq(Pdus)
    BY <2>1, <2>2, <2>3, <2>4, ViewSends
  <2>6. ShowsNewest'
    BY <2>2 DEF View, ShowsNewest, Shown
  <2> QED BY <2>4, <2>5, <2>6 DEF View
<1>2. CASE ServerDeactivates
  <2>1. /\ pipe' = "none" /\ stream' = Append(stream, Pdu("deactivate", 0))
        /\ UNCHANGED <<hasGfx, image, framebuffer, newest>>
    BY <1>2 DEF ServerDeactivates, screen, ghost
  <2>2. Pdu("deactivate", 0) \in Pdus /\ Pdu("deactivate", 0).kind = "deactivate"
    BY DEF Pdu, Pdus
  <2>3. Separated' /\ stream' \in Seq(Pdus)
    BY <2>1, <2>2, ViewSends
  <2> QED BY <2>1, <2>3 DEF View, ShowsNewest, Shown
<1>3. CASE ServerActivates
  <2>1. /\ pipe' = "bitmap" /\ stream' = Append(stream, Pdu("activated", 0))
        /\ UNCHANGED <<hasGfx, image, framebuffer, newest>>
    BY <1>3 DEF ServerActivates, screen, ghost
  <2>2. Pdu("activated", 0) \in Pdus /\ Pdu("activated", 0).kind = "activated"
    BY DEF Pdu, Pdus
  <2>3. Separated' /\ stream' \in Seq(Pdus)
    BY <2>1, <2>2, ViewSends
  <2> QED BY <2>1, <2>3 DEF View, ShowsNewest, Shown
<1>4. CASE ServerCloses
  BY <1>4, ViewStutters DEF ServerCloses, screen, ghost, view
<1> QED BY <1>1, <1>2, <1>3, <1>4 DEF Server

\* Commands start, end and wait without touching the picture.
LEMMA ViewWaits ==
  Start \/ Capture \/ Proceed \/ Tick \/ UNCHANGED vars => UNCHANGED view
<1>1. Start \/ Capture => UNCHANGED view
  BY DEF Start, Capture, Unread, screen, server, view
<1>2. Quietly => UNCHANGED view
  BY DEF Quietly, Unread, screen, server, view
<1>3. Proceed => Quietly
  BY DEF Proceed, RunEnds, ExpectHead, WaitforHead, WaitforCompares, ChangeHead,
         StillHead, ShotHead, ShotSaves
<1>4. Tick => UNCHANGED view
  BY DEF Tick, screen, server, view
<1>5. UNCHANGED vars => UNCHANGED view
  BY DEF vars, screen, server, ghost, view
<1> QED BY <1>1, <1>2, <1>3, <1>4, <1>5

LEMMA ViewHolds == Spec => []View
<1>1. View /\ [Next]_vars => View'
  BY ViewReceives, ViewServed, ViewWaits, ViewStutters DEF Next
<1> QED BY ViewInit, <1>1, PTL DEF Spec

\* What capture and shot save is the picture drawn last, by whichever pipeline,
\* whatever was drawn, deactivated and activated before (rdpdo.rs:946-983,
\* rdpsee.rs:145-192, session.rs:541-555).
THEOREM SavedAlwaysNewest == Spec => []SavedIsNewest
<1>1. View => SavedIsNewest
  BY DEF View, ShowsNewest, SavedIsNewest
<1> QED BY <1>1, ViewHolds, PTL

------------------------------------------------------------------------------
(* What the waits know. *)

Commands == {"run", "change", "still", "expect", "waitfor", "shot"}
Endings == [of : Commands \cup {"none", "capture"},
            how : {"none", "ok", "failed", "refused", "error"}]

Clocks == {"bitmap", "other", "shown"}

Types ==
  /\ updates \in Nat /\ gfxFrames \in Nat /\ base \in Nat /\ quiet \in Nat
  /\ since \in [Clocks -> Nat] /\ left \in Nat
  /\ reacting \in BOOLEAN
  /\ pc \in Waiting \cup {"idle", "expect", "waitfor", "shot"}
  /\ outcome \in Endings

\* The outcome belongs to the command that waits, or waited last.
Own ==
  /\ pc \in {"still", "change"} => outcome.of = pc
  /\ outcome.of \in {"still", "change"} => pc \in {"idle", outcome.of}
  /\ reacting => pc \in Waiting

\* The local that wait_still keeps is never ahead of the bitmap updates.
Calm == pc = "still" => quiet <= since.bitmap

\* What is shown changes only when something changed a framebuffer.
Moved == since.bitmap <= since.shown \/ since.other <= since.shown

\* As long as no bitmap update came, there is time enough left for the period.
Patient ==
  pc = "still" /\ (\A t \in Timeouts : Stillness <= t) /\ "bitmap" \notin drew =>
    quiet + left >= Stillness

\* The frame counter tells wait_for_frame what was drawn since it began.
Counted ==
  pc = "change" =>
    /\ base <= FrameCount
    /\ FrameCount > base => drew # {}
    /\ FrameCount <= base => drew \cap {"bitmap", "gfx"} = {}

Waits == Types /\ Own /\ Calm /\ Moved /\ Patient /\ Counted /\ StillEarned /\ ChangeEarned

LEMMA WaitsInit == Init => Waits
<1> SUFFICES ASSUME Init PROVE Waits
  OBVIOUS
<1>1. outcome.of = "none" /\ outcome \in Endings /\ pc = "idle" /\ ~reacting
  BY DEF Init, Endings
<1>2. /\ since \in [Clocks -> Nat] /\ left \in Nat /\ Moved
      /\ reacting \in BOOLEAN
  <2>1. since \in [Clocks -> Nat] /\ left \in Nat /\ Moved
    BY DEF Init, Just, Clocks, Moved
  <2>2. reacting = FALSE
    BY DEF Init
  <2> QED BY <2>1, <2>2
<1>3. updates \in Nat /\ gfxFrames \in Nat /\ base \in Nat /\ quiet \in Nat
  BY DEF Init
<1>4. Types
  BY <1>1, <1>2, <1>3 DEF Types
<1>5. Own /\ Calm /\ Patient /\ Counted
  BY <1>1 DEF Own, Calm, Patient, Counted
<1>6. StillEarned /\ ChangeEarned
  <2>1. \A c, h : outcome = [of |-> c, how |-> h] => outcome.of = c
    OBVIOUS
  <2> QED BY <1>1, <2>1 DEF StillEarned, ChangeEarned, Ending
<1> QED BY <1>2, <1>4, <1>5, <1>6 DEF Waits

waits == <<frames, base, quiet, left, since, drew, reacting, pc, outcome>>

LEMMA WaitsStutter == Waits /\ UNCHANGED waits /\ (peerDown => peerDown') => Waits'
<1> SUFFICES ASSUME Waits, UNCHANGED waits, peerDown => peerDown' PROVE Waits'
  OBVIOUS
<1>1. Types' /\ Own' /\ Calm' /\ Moved' /\ Patient' /\ Counted'
  BY DEF waits, frames, Waits, Types, Own, Calm, Moved, Patient, Counted, FrameCount
<1>2. StillEarned' /\ ChangeEarned'
  BY DEF waits, Waits, StillEarned, ChangeEarned, Ending
<1> QED BY <1>1, <1>2 DEF Waits

\* A change of a framebuffer.
LEMMA Touches ==
  ASSUME Types, NEW via \in {"bitmap", "other"}, Touched(via)
  PROVE  /\ since' \in [Clocks -> Nat] /\ Moved'
         /\ via = "other" => since'.bitmap = since.bitmap
<1> DEFINE n == IF Shown' = Shown THEN since.shown ELSE 0
<1>1. since \in [Clocks -> Nat] /\ since' = [since EXCEPT ![via] = 0, !.shown = n]
  BY DEF Types, Touched
<1>2. n \in Nat /\ (n = since.shown \/ n = 0)
  BY <1>1 DEF Clocks
<1> HIDE DEF n
<1>3. since' \in [Clocks -> Nat] /\ since'.shown = n /\ since'[via] = 0
  BY <1>1, <1>2 DEF Clocks
<1>4. via = "other" => since'.bitmap = since.bitmap
  BY <1>1 DEF Clocks
<1>5. Moved'
  BY <1>2, <1>3 DEF Moved
<1> QED BY <1>3, <1>4, <1>5

\* Time: both clocks go on together.
LEMMA MoreTogether ==
  ASSUME NEW m \in Nat, NEW n \in Nat, m <= n
  PROVE  More(m) \in Nat /\ More(n) \in Nat /\ More(m) <= More(n)
BY DEF More, Cap

LEMMA WaitsTick == Waits /\ Tick => Waits'
<1> SUFFICES ASSUME Waits, Tick PROVE Waits'
  OBVIOUS
<1>1. /\ quiet' = More(quiet) /\ since' = [via \in DOMAIN since |-> More(since[via])]
      /\ UNCHANGED <<updates, gfxFrames, base, drew, reacting, pc, outcome>>
      /\ pc \in Waiting /\ left' = Less(left)
  BY DEF Tick, Waits, Own, Reads, frames
<1>2. /\ quiet' \in Nat /\ since' \in [Clocks -> Nat] /\ Moved'
      /\ quiet <= since.bitmap => quiet' <= since'.bitmap
  <2>1. \A n \in Nat : More(n) \in Nat
    BY MoreTogether
  <2>2. \A c \in Clocks : since[c] \in Nat /\ since'[c] = More(since[c])
    BY <1>1 DEF Waits, Types
  <2>3. since' \in [Clocks -> Nat] /\ quiet' \in Nat
    BY <1>1, <2>1 DEF Waits, Types
  <2> QED BY <1>1, <2>2, <2>3, MoreTogether DEF Waits, Types, Moved, Clocks
<1>p. Patient' /\ left' \in Nat
  <2>1. left \in Nat /\ quiet \in Nat /\ Stillness \in Nat /\ Poll \in Nat
    BY ObserveAssumption DEF Waits, Types
  <2>2. left' \in Nat
    BY <1>1, <2>1 DEF Less
  <2>3. quiet + left >= Stillness => quiet' + left' >= Stillness
    BY <1>1, <2>1 DEF Less, More, Cap
  <2> QED BY <1>1, <2>2, <2>3 DEF Waits, Patient
<1>3. Types' /\ Own' /\ Calm' /\ Counted'
  BY <1>1, <1>2, <1>p DEF Waits, Types, Own, Calm, Counted, FrameCount
<1>4. pc' # "idle"
  BY <1>1 DEF Waiting, Inner
<1> QED BY <1>2, <1>p, <1>3, <1>4 DEF Waits, StillEarned, ChangeEarned, Ending

LEMMA WaitsStart == Waits /\ (Start \/ Capture) => Waits'
<1>1. ASSUME Waits, Start PROVE Waits'
  <2>1. PICK c \in Commands : Begin(c)
    BY <1>1 DEF Start, Commands
  <2>2. /\ pc' = c /\ outcome' = [of |-> c, how |-> "none"]
        /\ quiet' = 0 /\ base' = FrameCount /\ drew' = {}
        /\ since' = Just /\ left' \in Timeouts
        /\ UNCHANGED <<updates, gfxFrames, reacting>> /\ pc = "idle"
    BY <1>1, <2>1 DEF Start, Begin, Afresh, Unread, frames
  <2>3. ~reacting
    BY <1>1, <2>2 DEF Waits, Own, Waiting, Inner
  <2>4. Types'
    <3>1. left' \in Nat /\ since' \in [Clocks -> Nat]
      BY <2>2, ObserveAssumption DEF Just, Clocks
    <3> QED BY <1>1, <2>1, <2>2, <2>3, <3>1
            DEF Waits, Types, FrameCount, Endings, Commands, Waiting, Inner
  <2>5. Own' /\ Calm' /\ Moved' /\ Patient' /\ Counted' /\ StillEarned' /\ ChangeEarned'
    <3>1. pc' # "idle"
      BY <2>1, <2>2 DEF Commands
    <3>2. FrameCount' = FrameCount /\ FrameCount \in Nat
      BY <1>1, <2>2 DEF Waits, Types, FrameCount
    <3>3. Own'
      BY <2>2, <2>3 DEF Own
    <3>4. Calm' /\ Counted'
      BY <2>2, <3>2 DEF Calm, Counted, Just
    <3>5. Moved' /\ Patient'
      BY <2>2, ObserveAssumption DEF Moved, Patient, Just
    <3> QED BY <3>1, <3>3, <3>4, <3>5 DEF StillEarned, ChangeEarned, Ending
  <2> QED BY <2>4, <2>5 DEF Waits
<1>2. ASSUME Waits, Capture PROVE Waits'
  <2>1. /\ outcome'.of = "capture" /\ outcome' \in Endings /\ pc = "idle"
        /\ UNCHANGED <<updates, gfxFrames, base, quiet, left, since, drew, reacting, pc>>
    BY <1>2 DEF Capture, Endings, Unread, frames, timing
  <2>2. outcome'.of \notin {"still", "change"}
    BY <2>1
  <2>3. Types' /\ Own' /\ Calm' /\ Moved' /\ Patient' /\ Counted'
    BY <1>2, <2>1, <2>2 DEF Waits, Types, Own, Calm, Moved, Patient, Counted
  <2>4. StillEarned' /\ ChangeEarned'
    <3>1. \A c, h : outcome' = [of |-> c, how |-> h] => outcome'.of = c
      OBVIOUS
    <3> QED BY <2>2, <3>1 DEF StillEarned, ChangeEarned, Ending
  <2> QED BY <2>3, <2>4 DEF Waits
<1> QED BY <1>1, <1>2

\* A command that neither still nor change is goes on or ends.
LEMMA OthersGoOn ==
  ASSUME Waits, pc \notin {"still", "change", "idle"}, reacting' \in BOOLEAN,
         reacting' => pc' \in Waiting, pc' \notin {"still", "change"},
         pc' \in Waiting \cup {"idle", "expect", "waitfor", "shot"},
         outcome' \in Endings, outcome'.of = outcome.of, quiet' \in Nat, left' \in Nat,
         UNCHANGED <<updates, gfxFrames, base, since>>
  PROVE  Waits'
<1>1. outcome'.of \notin {"still", "change"}
  BY DEF Waits, Own
<1>2. Types'
  BY DEF Waits, Types
<1>3. Own' /\ Calm' /\ Moved' /\ Patient' /\ Counted'
  BY <1>1 DEF Waits, Own, Calm, Moved, Patient, Counted
<1>4. StillEarned' /\ ChangeEarned'
  <2>1. \A c, h : outcome' = [of |-> c, how |-> h] => outcome'.of = c
    OBVIOUS
  <2> QED BY <1>1, <2>1 DEF StillEarned, ChangeEarned, Ending
<1> QED BY <1>2, <1>3, <1>4 DEF Waits

\* How an ended command is told: of keeps its value.
LEMMA Finished ==
  ASSUME Types, NEW how \in {"none", "ok", "failed", "refused", "error"}, Finish(how)
  PROVE  /\ outcome' \in Endings /\ outcome'.of = outcome.of /\ outcome'.how = how
         /\ pc' = "idle" /\ quiet' = 0 /\ left' = 0
BY DEF Types, Finish, Endings

LEMMA WaitsProceed == Waits /\ Proceed => Waits'
<1> SUFFICES ASSUME Waits, Proceed PROVE Waits'
  OBVIOUS
<1>1. Types
  BY DEF Waits
<1>2. Quietly /\ UNCHANGED <<updates, gfxFrames, base, since, drew, reacting>> /\ Moved'
  BY DEF Proceed, RunEnds, ExpectHead, WaitforHead, WaitforCompares, ChangeHead,
         StillHead, ShotHead, ShotSaves, Quietly, Unread, frames, ghost, Waits, Moved
<1>3. CASE ChangeHead
  <2>1. PICK how \in {"ok", "failed"} :
          /\ Finish(how)
          /\ how = "ok" => FrameCount > base
          /\ how = "failed" => FrameCount <= base
    BY <1>3 DEF ChangeHead
  <2>2. /\ pc = "change" /\ ~reacting /\ pc' = "idle" /\ quiet' = 0 /\ left' = 0
        /\ outcome' \in Endings /\ outcome'.of = "change" /\ outcome'.how = how
    BY <1>1, <1>3, <2>1, Finished DEF ChangeHead, Waits, Own
  <2>3. Types' /\ Own' /\ Calm' /\ Patient' /\ Counted'
    <3>1. reacting' \in BOOLEAN /\ ~reacting'
      BY <1>1, <1>2, <2>2 DEF Types
    <3> QED BY <1>1, <1>2, <2>2, <3>1 DEF Types, Own, Calm, Patient, Counted
  <2>4. how = "ok" => drew' # {}
    BY <1>2, <2>1, <2>2 DEF Waits, Counted
  <2>5. how = "failed" => drew' \cap {"bitmap", "gfx"} = {}
    BY <1>2, <2>1, <2>2 DEF Waits, Counted
  <2>6. StillEarned' /\ ChangeEarned'
    <3>1. \A c, h : outcome' = [of |-> c, how |-> h] => outcome'.of = c /\ outcome'.how = h
      OBVIOUS
    <3> QED BY <2>2, <2>4, <2>5, <3>1 DEF StillEarned, ChangeEarned, Ending
  <2> QED BY <1>2, <2>3, <2>6 DEF Waits
<1>4. CASE StillHead
  <2>1. PICK how \in {"ok", "failed"} :
          /\ Finish(how)
          /\ how = "ok" => quiet >= Stillness
          /\ how = "failed" => quiet < Stillness /\ left = 0
    BY <1>4 DEF StillHead
  <2>2. /\ pc = "still" /\ ~reacting /\ pc' = "idle" /\ quiet' = 0 /\ left' = 0
        /\ outcome' \in Endings /\ outcome'.of = "still" /\ outcome'.how = how
    BY <1>1, <1>4, <2>1, Finished DEF StillHead, Waits, Own
  <2>3. Types' /\ Own' /\ Calm' /\ Patient' /\ Counted'
    <3>1. reacting' \in BOOLEAN /\ ~reacting'
      BY <1>1, <1>2, <2>2 DEF Types
    <3> QED BY <1>1, <1>2, <2>2, <3>1 DEF Types, Own, Calm, Patient, Counted
  <2>4. how = "ok" => since'.bitmap >= Stillness
    <3>1. since.bitmap \in Nat /\ quiet \in Nat /\ Stillness \in Nat
      BY <1>1, ObserveAssumption DEF Types, Clocks
    <3> QED BY <1>2, <2>1, <2>2, <3>1 DEF Waits, Calm
  <2>m. how = "ok" => since'.shown >= Stillness \/ since'.other < Stillness
    <3>1. /\ since.bitmap \in Nat /\ since.other \in Nat /\ since.shown \in Nat
          /\ Stillness \in Nat /\ since' = since
      BY <1>1, <1>2, ObserveAssumption DEF Types, Clocks
    <3> QED BY <1>2, <2>4, <3>1 DEF Moved
  <2>p. how = "failed" /\ (\A t \in Timeouts : Stillness <= t) => "bitmap" \in drew'
    <3>1. quiet \in Nat /\ Stillness \in Nat
      BY <1>1, ObserveAssumption DEF Types
    <3> QED BY <1>2, <2>1, <2>2, <3>1 DEF Waits, Patient
  <2>5. StillEarned' /\ ChangeEarned'
    <3>1. \A c, h : outcome' = [of |-> c, how |-> h] => outcome'.of = c /\ outcome'.how = h
      OBVIOUS
    <3> QED BY <2>2, <2>4, <2>m, <2>p, <3>1 DEF StillEarned, ChangeEarned, Ending
  <2> QED BY <1>2, <2>3, <2>5 DEF Waits
<1>5. CASE RunEnds \/ ExpectHead \/ WaitforHead \/ WaitforCompares \/ ShotHead \/ ShotSaves
  <2>1. pc \notin {"still", "change", "idle"} /\ (reacting => pc = "shot")
    <3>1. reacting => pc \in Waiting
      BY DEF Waits, Own
    <3> QED BY <1>5, <3>1 DEF RunEnds, ExpectHead, WaitforHead, WaitforCompares, ShotHead,
                              ShotSaves, Waiting, Inner
  <2>2. ~reacting
    BY <2>1 DEF Waits, Own, Waiting, Inner
  <2>3. \/ \E how \in {"ok", "failed"} : Finish(how)
        \/ /\ pc' \in Inner \cup {"expect", "waitfor", "shot"}
           /\ UNCHANGED <<outcome, quiet, left>>
    BY <1>5 DEF RunEnds, ExpectHead, WaitforHead, WaitforCompares, ShotHead, ShotSaves,
                GoTo, Pump, Inner
  <2>4. CASE \E how \in {"ok", "failed"} : Finish(how)
    <3>1. /\ pc' = "idle" /\ quiet' = 0 /\ left' = 0
          /\ outcome' \in Endings /\ outcome'.of = outcome.of
      BY <1>1, <2>4, Finished
    <3> QED BY <1>1, <1>2, <2>1, <2>2, <3>1, OthersGoOn DEF Types
  <2>5. CASE /\ pc' \in Inner \cup {"expect", "waitfor", "shot"}
             /\ UNCHANGED <<outcome, quiet, left>>
    <3>1. /\ pc' \notin {"still", "change"}
          /\ pc' \in Waiting \cup {"idle", "expect", "waitfor", "shot"}
      BY <2>5 DEF Waiting, Inner
    <3> QED BY <1>1, <1>2, <2>1, <2>2, <2>5, <3>1, OthersGoOn DEF Types
  <2> QED BY <2>3, <2>4, <2>5
<1> QED BY <1>3, <1>4, <1>5 DEF Proceed

LEMMA WaitsReceive == Waits /\ Receive => Waits'
<1> SUFFICES ASSUME Waits, Receive PROVE Waits'
  OBVIOUS
<1>1. Types
  BY DEF Waits
<1>2. ASSUME NEW k, NEW via \in {"bitmap", "other"}, NEW p, Incoming(k), Drawn(via, p),
             UNCHANGED reacting, updates' \in Nat, gfxFrames' \in Nat, FrameCount' \in Nat,
             \/ k \in {"bitmap", "gfx"} /\ FrameCount' > FrameCount
             \/ k \in {"rfx", "fill"} /\ FrameCount' = FrameCount,
             \/ via = "bitmap" /\ k = "bitmap" /\ quiet' = 0
             \/ via = "other" /\ quiet' = quiet
      PROVE  Waits'
  <2>1. /\ pc \in Waiting /\ ~reacting /\ UNCHANGED <<pc, base, outcome, left>>
        /\ drew' = drew \cup {k} /\ Touched(via)
    BY <1>2 DEF Incoming, Reads, Drawn
  <2>t. /\ since' \in [Clocks -> Nat] /\ Moved'
        /\ via = "other" => since'.bitmap = since.bitmap
    BY <1>1, <2>1, Touches
  <2>2. Types'
    <3>1. since' \in [Clocks -> Nat] /\ quiet' \in Nat
      BY <1>1, <1>2, <2>t DEF Types
    <3> QED BY <1>1, <1>2, <2>1, <3>1 DEF Types
  <2>3. Own'
    BY <1>2, <2>1 DEF Waits, Own
  <2>4. Calm' /\ Patient'
    <3>1. since'.bitmap \in Nat
      BY <2>t DEF Clocks
    <3>2. Calm'
      BY <1>1, <1>2, <2>1, <2>t, <3>1 DEF Waits, Calm, Types
    <3>3. Patient'
      BY <1>2, <2>1 DEF Waits, Patient
    <3> QED BY <3>2, <3>3
  <2>5. Counted'
    <3> SUFFICES ASSUME pc' = "change"
                 PROVE  /\ base' <= FrameCount'
                        /\ FrameCount' > base' => drew' # {}
                        /\ FrameCount' <= base' => drew' \cap {"bitmap", "gfx"} = {}
      BY DEF Counted
    <3>1. base \in Nat /\ FrameCount \in Nat /\ FrameCount' \in Nat
      <4>1. base \in Nat /\ updates \in Nat /\ gfxFrames \in Nat
        BY <1>1 DEF Types
      <4>2. FrameCount \in Nat
        BY <4>1 DEF FrameCount
      <4> QED BY <1>2, <4>1, <4>2
    <3>2. /\ base <= FrameCount
          /\ FrameCount <= base => drew \cap {"bitmap", "gfx"} = {}
      BY <2>1 DEF Waits, Counted
    <3>3. CASE k \in {"bitmap", "gfx"} /\ FrameCount' > FrameCount
      BY <2>1, <3>1, <3>2, <3>3
    <3>4. CASE k \in {"rfx", "fill"} /\ FrameCount' = FrameCount
      BY <2>1, <3>1, <3>2, <3>4
    <3> QED BY <1>2, <3>3, <3>4
  <2>6. pc' # "idle"
    BY <2>1 DEF Waiting, Inner
  <2> QED BY <2>t, <2>2, <2>3, <2>4, <2>5, <2>6 DEF Waits, StillEarned, ChangeEarned, Ending
<1>3. CASE OnGraphicsUpdate
  <2>1. /\ Incoming("bitmap") /\ Drawn("bitmap", Head(stream).pic) /\ UNCHANGED reacting
        /\ updates' = updates + 1 /\ gfxFrames' = gfxFrames /\ quiet' = 0
    BY <1>3 DEF OnGraphicsUpdate, Settles
  <2> QED BY <1>1, <1>2, <2>1 DEF Types, FrameCount
<1>4. CASE OnBitmapUpdated
  <2>1. /\ Incoming("gfx") /\ Drawn("other", Head(stream).pic) /\ UNCHANGED reacting
        /\ updates' = updates /\ gfxFrames' = gfxFrames + 1 /\ quiet' = quiet
    BY <1>4 DEF OnBitmapUpdated
  <2> QED BY <1>1, <1>2, <2>1 DEF Types, FrameCount
<1>5. CASE OnRemoteFx
  <2>1. /\ Incoming("rfx") /\ Drawn("other", Head(stream).pic) /\ UNCHANGED reacting
        /\ updates' = updates /\ gfxFrames' = gfxFrames /\ quiet' = quiet
    BY <1>5 DEF OnRemoteFx, frames
  <2> QED BY <1>1, <1>2, <2>1 DEF Types, FrameCount
<1>6. CASE OnSolidFill
  <2>1. /\ Incoming("fill") /\ Drawn("other", Head(stream).pic) /\ UNCHANGED reacting
        /\ updates' = updates /\ gfxFrames' = gfxFrames /\ quiet' = quiet
    BY <1>6 DEF OnSolidFill, frames
  <2> QED BY <1>1, <1>2, <2>1 DEF Types, FrameCount
<1>8. ASSUME pc \in Waiting, reacting' \in BOOLEAN, since' = since \/ Touched("other"),
             UNCHANGED <<updates, gfxFrames, base, quiet, left, drew, pc, outcome>>
      PROVE  Waits'
  <2>0. since' \in [Clocks -> Nat] /\ Moved' /\ since'.bitmap = since.bitmap
    <3>1. CASE since' = since
      BY <3>1 DEF Waits, Types, Moved
    <3>2. CASE Touched("other")
      BY <1>1, <3>2, Touches
    <3> QED BY <1>8, <3>1, <3>2
  <2>1. Types' /\ Own' /\ Calm' /\ Patient' /\ Counted'
    BY <1>8, <2>0 DEF Waits, Types, Own, Calm, Patient, Counted, FrameCount
  <2>2. pc' # "idle"
    BY <1>8 DEF Waiting, Inner
  <2> QED BY <2>0, <2>1, <2>2 DEF Waits, StillEarned, ChangeEarned, Ending
<1>7. CASE OnResetGraphics
  <2>1. /\ pc \in Waiting /\ UNCHANGED reacting /\ Touched("other")
        /\ UNCHANGED <<updates, gfxFrames, base, quiet, left, drew, pc, outcome>>
    BY <1>7 DEF OnResetGraphics, Incoming, Reads, frames
  <2> QED BY <1>1, <1>8, <2>1 DEF Types
<1>9. CASE OnDeactivateAll
  <2>1. /\ pc \in Waiting /\ reacting' = TRUE /\ since' = since
        /\ UNCHANGED <<updates, gfxFrames, base, quiet, left, drew, pc, outcome>>
    BY <1>9 DEF OnDeactivateAll, Incoming, Reads, frames, ghost
  <2> QED BY <1>8, <2>1
<1>10. CASE OnActivated
  <2>1. /\ pc \in Waiting /\ reacting' = FALSE /\ Touched("other")
        /\ UNCHANGED <<updates, gfxFrames, base, quiet, left, drew, pc, outcome>>
    BY <1>10 DEF OnActivated, frames, timing, Waits, Own
  <2> QED BY <1>8, <2>1
<1>11. CASE PeerDisconnected
  <2>1. /\ pc \in Waiting /\ ~reacting
        /\ UNCHANGED <<updates, gfxFrames, base, since, drew, reacting>>
        /\ pc = "change" => FrameCount <= base
    BY <1>11 DEF PeerDisconnected, Reads, frames, ghost
  <2>2. CASE pc \in Inner
    <3>1. UNCHANGED waits /\ peerDown'
      BY <1>11, <2>1, <2>2 DEF PeerDisconnected, waits, frames
    <3> QED BY <3>1, WaitsStutter
  <2>3. CASE pc \in {"change", "still"}
    <3>1. Finish("failed")
      BY <1>11, <2>3 DEF PeerDisconnected, Inner
    <3>2. /\ pc' = "idle" /\ quiet' = 0 /\ left' = 0 /\ outcome' \in Endings
          /\ outcome'.of = pc /\ outcome'.how = "failed"
      <4>1. outcome.of = pc
        BY <2>3 DEF Waits, Own
      <4> QED BY <1>1, <3>1, <4>1, Finished
    <3>3. Types' /\ Own' /\ Calm' /\ Moved' /\ Patient' /\ Counted'
      BY <1>1, <2>1, <2>3, <3>2 DEF Waits, Types, Own, Calm, Moved, Patient, Counted
    <3>6. peerDown'
      BY <1>11 DEF PeerDisconnected
    <3>4. pc = "change" => drew' \cap {"bitmap", "gfx"} = {}
      BY <2>1 DEF Waits, Counted
    <3>5. StillEarned' /\ ChangeEarned'
      <4>1. \A c, h : outcome' = [of |-> c, how |-> h] => outcome'.of = c /\ outcome'.how = h
        OBVIOUS
      <4> QED BY <3>2, <3>4, <3>6, <4>1 DEF StillEarned, ChangeEarned, Ending
    <3> QED BY <3>3, <3>5 DEF Waits
  <2> QED BY <2>1, <2>2, <2>3 DEF Waiting
<1>12. CASE ReactivationFails
  <2>1. /\ Finish("error") /\ reacting' = FALSE
        /\ UNCHANGED <<updates, gfxFrames, base, since, drew>>
    BY <1>12 DEF ReactivationFails, frames, ghost
  <2>2. /\ pc' = "idle" /\ quiet' = 0 /\ left' = 0 /\ outcome' \in Endings
        /\ outcome'.of = outcome.of /\ outcome'.how = "error"
    BY <1>1, <2>1, Finished
  <2>3. Types'
    BY <1>1, <2>1, <2>2 DEF Types
  <2>4. Own' /\ Calm' /\ Moved' /\ Patient' /\ Counted'
    BY <2>1, <2>2 DEF Waits, Own, Calm, Moved, Patient, Counted
  <2>5. StillEarned' /\ ChangeEarned'
    <3>1. \A c, h : outcome' = [of |-> c, how |-> h] => outcome'.how = h
      OBVIOUS
    <3> QED BY <2>2, <3>1 DEF StillEarned, ChangeEarned, Ending
  <2> QED BY <2>3, <2>4, <2>5 DEF Waits
<1> QED BY <1>3, <1>4, <1>5, <1>6, <1>7, <1>9, <1>10, <1>11, <1>12 DEF Receive

LEMMA WaitsHold == Spec => []Waits
<1>1. Server \/ UNCHANGED vars => UNCHANGED waits /\ UNCHANGED peerDown
  BY DEF Server, ServerDraws, ServerDeactivates, ServerActivates, ServerCloses,
         frames, timing, ghost, vars, waits
<1>2. Waits /\ [Next]_vars => Waits'
  BY <1>1, WaitsStutter, WaitsStart, WaitsProceed, WaitsReceive, WaitsTick DEF Next
<1> QED BY WaitsInit, <1>2, PTL DEF Spec

\* wait-change succeeds only over something drawn since it began and gives up
\* only if no frame was counted, for every server (session.rs:354-392).
THEOREM ChangeAlwaysEarned == Spec => []ChangeEarned
<1>1. Waits => ChangeEarned
  BY DEF Waits
<1> QED BY <1>1, WaitsHold, PTL

\* wait-still heeds bitmap updates and nothing else (session.rs:676-723): for
\* every server, timeout and period, a success means a whole period without one,
\* over which only the EGFX channel or a reactivation can have changed what is
\* shown, and it gives up over bitmap updates alone.
THEOREM StillAlwaysEarned == Spec => []StillEarned
<1>1. Waits => StillEarned
  BY DEF Waits
<1> QED BY <1>1, WaitsHold, PTL

------------------------------------------------------------------------------
(* What expect and waitfor see. The time the picture has been there and the   *)
(* time left of the polling step never exceed one step together.              *)

Sight ==
  /\ window \in Nat /\ left \in Nat /\ onTarget \in Nat
  /\ Shown # Target => onTarget = 0
  /\ pc = "expectRun" => onTarget + window <= Poll
  /\ pc = "expect" => onTarget <= Poll
  /\ pc = "waitfor" => onTarget = 0
  /\ LongEnoughIsSeen

sight == <<screen, pc, left, window, onTarget, outcome>>

LEMMA SightInit == Init => Sight
<1> SUFFICES ASSUME Init PROVE Sight
  OBVIOUS
<1>1. window = 0 /\ left = 0 /\ onTarget = 0 /\ pc = "idle"
  BY DEF Init
<1> QED BY <1>1 DEF Sight, LongEnoughIsSeen

LEMMA SightStutters == Sight /\ UNCHANGED sight => Sight'
BY DEF sight, screen, Sight, Shown, LongEnoughIsSeen, Ending

\* Two spans that lie within a step, when one of them shortens for the other.
LEMMA StepShared ==
  ASSUME NEW a \in Nat, NEW b \in Nat, NEW p \in Nat, a + b <= p,
         NEW c \in Nat, NEW d \in Nat,
         (c <= a /\ d <= b) \/ (c <= a + 1 /\ d = b - 1)
  PROVE  c + d <= p
OBVIOUS

\* A failure over a picture that was there is that of another command, or
\* came in time.
LEMMA Unfailed ==
  ASSUME \/ pc' # "idle" \/ outcome'.how # "failed" \/ onTarget' <= Poll
         \/ outcome'.of \notin {"expect", "waitfor"}
  PROVE  LongEnoughIsSeen'
<1>1. \A c, h : outcome' = [of |-> c, how |-> h] => outcome'.of = c /\ outcome'.how = h
  OBVIOUS
<1> QED BY <1>1 DEF LongEnoughIsSeen, Ending

LEMMA SightStarts == Sight /\ (Start \/ Capture) => Sight'
<1>1. ASSUME Sight, Start PROVE Sight'
  <2>1. /\ pc' \in {"run", "change", "still", "expect", "waitfor", "shot"}
        /\ left' \in Timeouts /\ window' \in {left', 0} /\ onTarget' = 0
        /\ UNCHANGED screen
    BY <1>1 DEF Start, Begin, Afresh, Unread
  <2>2. left' \in Nat /\ window' \in Nat /\ Poll \in Nat
    BY <2>1
  <2>3. LongEnoughIsSeen'
    BY <2>1, Unfailed
  <2>4. onTarget' \in Nat /\ onTarget' <= Poll
    BY <2>1, <2>2
  <2> QED BY <2>1, <2>2, <2>3, <2>4 DEF Sight
<1>2. ASSUME Sight, Capture PROVE Sight'
  <2>1. outcome'.of = "capture" /\ UNCHANGED <<screen, pc, left, window, onTarget>>
    BY <1>2 DEF Capture, Unread, timing
  <2>2. LongEnoughIsSeen'
    BY <2>1, Unfailed
  <2> QED BY <1>2, <2>1, <2>2 DEF Sight, Shown, screen
<1> QED BY <1>1, <1>2

\* One command goes on to the next loop, or ends.
LEMMA SightProceeds == Waits /\ Sight /\ Proceed => Sight'
<1> SUFFICES ASSUME Waits, Sight, Proceed PROVE Sight'
  OBVIOUS
<1>1. Types /\ UNCHANGED <<screen, onTarget>> /\ Shown' = Shown
  BY DEF Waits, Proceed, RunEnds, ExpectHead, WaitforHead, WaitforCompares, ChangeHead,
         StillHead, ShotHead, ShotSaves, Quietly, Unread, ghost, screen, Shown
<1>2. /\ Poll \in Nat /\ Settle \in Nat
      /\ window \in Nat /\ left \in Nat /\ onTarget \in Nat
      /\ Shown # Target => onTarget = 0
  BY DEF Sight
\* Ending, with a result that is not a failure of these two, or in time.
<1>3. ASSUME NEW how \in {"ok", "failed"}, Finish(how),
             how = "ok" \/ pc \in {"change", "still"} \/ onTarget <= Poll
      PROVE  Sight'
  <2>1. /\ pc' = "idle" /\ left' = 0 /\ window' = 0 /\ outcome'.how = how
        /\ outcome'.of = outcome.of
    BY <1>1, <1>3, Finished DEF Finish
  <2>2. pc \in {"change", "still"} => outcome.of = pc
    BY DEF Waits, Own
  <2>3. LongEnoughIsSeen'
    BY <1>1, <1>3, <2>1, <2>2, Unfailed
  <2> QED BY <1>1, <1>2, <2>1, <2>3 DEF Sight
<1>4. ASSUME NEW next \in {"expect", "shot", "waitfor"}, GoTo(next),
             next = "expect" => onTarget <= Poll, next = "waitfor" => onTarget = 0
      PROVE  Sight'
  <2>1. pc' = next /\ UNCHANGED <<left, window>>
    BY <1>4 DEF GoTo
  <2>2. LongEnoughIsSeen'
    BY <2>1, Unfailed
  <2> QED BY <1>1, <1>2, <1>4, <2>1, <2>2 DEF Sight
<1>5. ASSUME NEW run \in Inner, NEW n \in Nat, Pump(run, n),
             run = "expectRun" => onTarget = 0 /\ n = Poll
      PROVE  Sight'
  <2>1. pc' = run /\ window' = n /\ UNCHANGED left
    BY <1>5 DEF Pump, PollFor
  <2>2. LongEnoughIsSeen'
    BY <2>1, Unfailed DEF Inner
  <2>3. pc' \notin {"expect", "waitfor"}
    BY <2>1 DEF Inner
  <2>4. pc' = "expectRun" => onTarget' + window' <= Poll
    BY <1>1, <1>2, <1>5, <2>1
  <2> QED BY <1>1, <1>2, <2>1, <2>2, <2>3, <2>4 DEF Sight
<1>6. CASE RunEnds
  <2>1. CASE pc = "run" /\ Finish("ok")
    BY <1>3, <2>1
  <2>2. CASE pc = "expectRun" /\ GoTo("expect")
    <3>1. onTarget + window <= Poll
      BY <2>2 DEF Sight
    <3>2. onTarget <= Poll
      BY <1>2, <3>1
    <3> QED BY <1>4, <2>2, <3>2
  <2>3. CASE pc = "shotRun" /\ GoTo("shot")
    BY <1>4, <2>3
  <2> QED BY <1>6, <2>1, <2>2, <2>3 DEF RunEnds
<1>7. CASE ExpectHead
  <2>1. onTarget <= Poll
    BY <1>7 DEF ExpectHead, Sight
  <2>2. CASE Finish("failed") \/ Finish("ok")
    BY <1>3, <2>1, <2>2
  <2>3. CASE Shown # Target /\ Pump("expectRun", Poll)
    BY <1>2, <1>5, <2>3 DEF Inner
  <2> QED BY <1>7, <2>2, <2>3 DEF ExpectHead
<1>8. CASE WaitforHead
  <2>1. onTarget <= Poll
    BY <1>2, <1>8 DEF WaitforHead, Sight
  <2>2. CASE Finish("failed")
    BY <1>3, <2>1, <2>2
  <2>3. CASE Pump("waitforRun", Poll)
    BY <1>2, <1>5, <2>3 DEF Inner
  <2> QED BY <1>8, <2>2, <2>3 DEF WaitforHead
<1>9. CASE WaitforCompares
  <2>1. CASE Finish("ok")
    BY <1>3, <2>1
  <2>2. CASE Shown # Target /\ GoTo("waitfor")
    BY <1>2, <1>4, <2>2
  <2> QED BY <1>9, <2>1, <2>2 DEF WaitforCompares
<1>10. CASE ChangeHead \/ StillHead
  BY <1>3, <1>10 DEF ChangeHead, StillHead
<1>11. CASE ShotHead
  BY <1>2, <1>5, <1>11 DEF ShotHead, Inner
<1>12. CASE ShotSaves
  BY <1>3, <1>12 DEF ShotSaves
<1> QED BY <1>6, <1>7, <1>8, <1>9, <1>10, <1>11, <1>12 DEF Proceed

\* What arrives: a picture that goes takes its time with it.
LEMMA SightReceives == Waits /\ Sight /\ Receive => Sight'
<1> SUFFICES ASSUME Waits, Sight, Receive PROVE Sight'
  OBVIOUS
<1>1. Types /\ Poll \in Nat /\ window \in Nat /\ left \in Nat /\ onTarget \in Nat
  BY DEF Waits, Sight
\* A drawing, or the end of one: the command goes on.
<1>2. ASSUME pc \in Waiting, UNCHANGED <<pc, left, window>>, onTarget' \in {onTarget, 0},
             Shown' # Target => onTarget' = 0
      PROVE  Sight'
  <2>1. pc' \notin {"idle", "expect", "waitfor"}
    BY <1>2 DEF Waiting, Inner
  <2>2. LongEnoughIsSeen'
    BY <2>1, Unfailed
  <2>3. pc' = "expectRun" => onTarget' + window' <= Poll
    <3>1. pc = "expectRun" => onTarget + window <= Poll
      BY DEF Sight
    <3>2. onTarget' \in Nat /\ window' \in Nat /\ onTarget' <= onTarget /\ window' <= window
      BY <1>1, <1>2
    <3> QED BY <1>1, <1>2, <3>1, <3>2, StepShared
  <2>4. onTarget' \in Nat
    BY <1>1, <1>2
  <2> QED BY <1>1, <1>2, <2>1, <2>2, <2>3, <2>4 DEF Sight
<1>3. CASE OnGraphicsUpdate \/ OnBitmapUpdated \/ OnRemoteFx \/ OnSolidFill \/ OnResetGraphics
  <2>1. pc \in Waiting /\ UNCHANGED <<pc, left, window>>
    BY <1>3 DEF OnGraphicsUpdate, OnBitmapUpdated, OnRemoteFx, OnSolidFill, OnResetGraphics,
                Incoming, Reads
  <2>2. \/ onTarget' = IF Shown' = Target THEN onTarget ELSE 0
        \/ onTarget' = 0
    BY <1>3 DEF OnGraphicsUpdate, OnBitmapUpdated, OnRemoteFx, OnSolidFill, OnResetGraphics,
                Drawn
  <2> QED BY <1>2, <2>1, <2>2
<1>4. CASE OnDeactivateAll
  <2>1. pc \in Waiting /\ UNCHANGED <<pc, left, window, onTarget, screen>>
    BY <1>4 DEF OnDeactivateAll, Incoming, Reads, ghost
  <2>2. Shown' # Target => onTarget' = 0
    BY <2>1 DEF Sight, Shown, screen
  <2> QED BY <1>2, <2>1, <2>2
<1>5. CASE OnActivated
  <2>1. pc \in Waiting /\ UNCHANGED <<pc, left, window>> /\ onTarget' = 0
    BY <1>5 DEF OnActivated, timing, Waits, Own
  <2> QED BY <1>2, <2>1
<1>6. CASE PeerDisconnected
  <2>1. pc \in Waiting /\ UNCHANGED <<onTarget, screen>> /\ Shown' = Shown
    BY <1>6 DEF PeerDisconnected, Reads, ghost, screen, Shown
  <2>2. CASE pc \in Inner
    <3>1. window' = 0 /\ UNCHANGED <<pc, left>>
      BY <1>6, <2>2 DEF PeerDisconnected
    <3>2. pc' \notin {"idle", "expect", "waitfor"}
      BY <2>2, <3>1 DEF Inner
    <3>3. LongEnoughIsSeen'
      BY <3>2, Unfailed
    <3>4. pc' = "expectRun" => onTarget' + window' <= Poll
      <4>1. pc = "expectRun" => onTarget + window <= Poll
        BY DEF Sight
      <4> QED BY <1>1, <2>1, <3>1, <4>1
    <3> QED BY <1>1, <2>1, <3>1, <3>2, <3>3, <3>4 DEF Sight
  <2>3. CASE pc \in {"change", "still"}
    <3>1. Finish("failed")
      BY <1>6, <2>3 DEF PeerDisconnected, Inner
    <3>2. pc' = "idle" /\ left' = 0 /\ window' = 0 /\ outcome'.of = outcome.of
      BY <1>1, <3>1, Finished DEF Finish
    <3>3. outcome.of = pc
      BY <2>3 DEF Waits, Own
    <3>4. LongEnoughIsSeen'
      BY <2>3, <3>2, <3>3, Unfailed
    <3> QED BY <1>1, <2>1, <3>2, <3>4 DEF Sight
  <2> QED BY <2>1, <2>2, <2>3 DEF Waiting
<1>7. CASE ReactivationFails
  <2>1. Finish("error") /\ UNCHANGED <<onTarget, screen>> /\ Shown' = Shown
    BY <1>7 DEF ReactivationFails, ghost, screen, Shown
  <2>2. pc' = "idle" /\ left' = 0 /\ window' = 0 /\ outcome'.how = "error"
    BY <1>1, <2>1, Finished DEF Finish
  <2>3. LongEnoughIsSeen'
    BY <2>2, Unfailed
  <2> QED BY <1>1, <2>1, <2>2, <2>3 DEF Sight
<1> QED BY <1>3, <1>4, <1>5, <1>6, <1>7 DEF Receive

\* Time: what the picture gains, the polling step loses.
LEMMA SightTick == Waits /\ Sight /\ Tick => Sight'
<1> SUFFICES ASSUME Waits, Sight, Tick PROVE Sight'
  OBVIOUS
<1>1. /\ pc \in Waiting /\ UNCHANGED <<pc, screen>> /\ Shown' = Shown
      /\ window' = Less(window) /\ left' = Less(left)
      /\ onTarget' = IF Shown = Target /\ ~reacting THEN More(onTarget) ELSE 0
      /\ ~reacting /\ pc \in Inner => window > 0
  BY DEF Tick, Reads, Waits, Own, screen, Shown
<1>2. Poll \in Nat /\ Stillness \in Nat /\ window \in Nat /\ left \in Nat /\ onTarget \in Nat
  BY DEF Sight
<1>3. /\ window' \in Nat /\ left' \in Nat /\ onTarget' \in Nat /\ window' <= window
      /\ onTarget' <= onTarget + 1
  BY <1>1, <1>2 DEF Less, More, Cap
<1>4. pc = "expectRun" => onTarget' + window' <= Poll
  <2> SUFFICES ASSUME pc = "expectRun" PROVE onTarget' + window' <= Poll
    OBVIOUS
  <2>1. onTarget + window <= Poll
    BY DEF Sight
  <2>2. CASE reacting
    <3>1. onTarget' = 0
      BY <1>1, <2>2
    <3>2. onTarget' <= onTarget
      BY <1>2, <3>1
    <3> QED BY <1>2, <1>3, <2>1, <3>2, StepShared
  <2>3. CASE ~reacting
    <3>1. window > 0
      BY <1>1, <2>3 DEF Inner
    <3>2. window' = window - 1
      BY <1>1, <1>2, <3>1 DEF Less
    <3> QED BY <1>2, <1>3, <2>1, <3>2, StepShared
  <2> QED BY <2>2, <2>3
<1>5. pc' \notin {"idle", "expect", "waitfor"}
  BY <1>1 DEF Waiting, Inner
<1>6. LongEnoughIsSeen'
  BY <1>5, Unfailed
<1> QED BY <1>1, <1>3, <1>4, <1>5, <1>6 DEF Sight

\* expect and waitfor do not fail over a picture that was on the screen for
\* more than one polling step up to the end: for every polling step, timeout
\* and server (rdpdo.rs:549-594, 600-640).
THEOREM LongEnoughAlwaysSeen == Spec => []LongEnoughIsSeen
<1>1. Server \/ UNCHANGED vars => UNCHANGED sight
  BY DEF Server, ServerDraws, ServerDeactivates, ServerActivates, ServerCloses,
         screen, timing, ghost, vars, sight
<1>2. Waits /\ Sight /\ [Next]_vars => Sight'
  BY <1>1, SightStutters, SightStarts, SightProceeds, SightReceives, SightTick DEF Next
<1>3. Sight => LongEnoughIsSeen
  BY DEF Sight
<1> QED BY SightInit, WaitsHold, <1>2, <1>3, PTL DEF Spec
==============================================================================
