---------------------------- MODULE InputProperties ----------------------------
(* What the input commands promise (rdpdo.rs, session.rs, input.rs).        *)
EXTENDS Input

Idle == phase = "idle" /\ up

\* No gesture leaves anything down behind its back.  Between two commands the
\* server holds no button, and only keys that a keydown, or a hold that failed
\* before its key-up, put down and that have not been let go since; and what the
\* injector believes held is held.  The server may hold a key more than that only
\* if its key-up was among the events of a command cut short.
NothingSticks ==
    Idle =>
      /\ srv.buttons = {} /\ db.buttons = {}
      /\ srv.keys \subseteq ghost.kept
      /\ db.keys \subseteq srv.keys
      /\ srv.keys \ db.keys \subseteq ghost.stranded

-------------------------------------------------------------------------------
\* What a command asks for, said without the injector: the keys that go down, each
\* under which, where in the text or the combination they come from; and the
\* buttons with the places where they go down and come up.

Typed(text) ==
    LET key(ch) == [on |-> Layout[ch].key, with |-> IF Layout[ch].shift THEN {LSHIFT} ELSE {}]
    IN  [i \in {j \in DOMAIN text : text[j] \in DOMAIN Layout} |-> key(text[i])]

Pressed(c) ==
    LET a == ParseKeySpec(c.spec)
        n == Len(a.modifiers)
    IN  CASE c.do = "type"    -> Typed(c.text)
          [] c.do = "utype"   -> [i \in DOMAIN c.text |-> [on |-> Unicode(c.text[i]), with |-> {}]]
          [] c.do = "key"     -> [i \in 1..(n + 1) |->
                                    [on |-> IF i <= n THEN a.modifiers[i] ELSE a.key,
                                     with |-> {a.modifiers[j] : j \in 1..(i - 1)}]]
          [] c.do = "keydown" -> <<[on |-> a.key, with |-> {}]>>
          [] OTHER            -> <<>>

Pushed(c) ==
    LET button(b, p) == [on |-> b, at |-> Target(p)]
    IN  CASE c.do = "click"       -> <<button(c.button, c.to)>>
          [] c.do = "doubleclick" -> <<button("left", c.to), button("left", c.to)>>
          [] c.do = "drag"        -> <<button("left", c.from)>>
          [] OTHER                -> <<>>

LetUp(c) == IF c.do = "drag" THEN <<[on |-> "left", at |-> Target(c.to)]>> ELSE Pushed(c)

Turned(c) == IF c.do = "scroll" THEN [i \in 1..c.notches |-> c.direction] ELSE <<>>

\* The keys that a gesture presses, the shift of a capital among them.
Touched(c) == UNION {{Pressed(c)[i].on} \cup Pressed(c)[i].with : i \in DOMAIN Pressed(c)}

\* The shift of a capital letter is left out.
Of(do) == {n \in DOMAIN made : made[n].do = do}
Strokes == {n \in Of("press") : ~(cmd.do = "type" /\ made[n].on = LSHIFT)}

\* What is asked for arrived, all of it once and in order, as the events `hits`
\* and no others.
InOrder(where, hits) ==
    /\ \A i, j \in DOMAIN where : i < j => where[i] < where[j]
    /\ hits = {where[i] : i \in DOMAIN where}

\* The keys that went down or up before event n.
Moved(n) == {made[m].on : m \in {j \in Of("press") \cup Of("release") : j < n}}

\* A key goes down under the modifiers asked for, and besides them under what was
\* down when the command began and the command itself has not touched so far.
Under(asked, n) ==
    /\ made[n].on = asked.on
    /\ log[n].under \ {asked.on} = (asked.with \cup (ghost.before \ Moved(n))) \ {asked.on}

\* Where the pointer is sent first counts as arrived only if it was sent: a
\* session believes that the pointer starts at 0.
AtPlace(asked, n) ==
    made[n].on = asked.on /\ (log[n].at = asked.at \/ (log[n].at = Unknown /\ asked.at = 0))

\* What is down once the command is done.  A gesture lets go of all that it pressed,
\* also of what a keydown had put down before; a keyup lets go of its key, but for
\* one whose key-up an earlier command made and lost, which it takes to be up.
LeftDown(c) ==
    LET k == ParseKeySpec(c.spec).key
    IN  CASE c.do = "keydown" -> ghost.before \cup {k}
          [] c.do = "keyup"   -> ghost.before \ ({k} \ ghost.stranded)
          [] OTHER            -> ghost.before \ Touched(c)

\* The command is done: its keys went down under the modifiers it names; its buttons
\* at the places it names, after the correction; the wheel as often as it says; and
\* what is down is what it leaves down.
DoneAsAsked ==
    /\ AllSent /\ Len(log) = sent
    /\ \E where \in [DOMAIN Pressed(cmd) -> DOMAIN log] :
         InOrder(where, Strokes) /\ \A i \in DOMAIN where : Under(Pressed(cmd)[i], where[i])
    /\ \E where \in [DOMAIN Pushed(cmd) -> DOMAIN log] :
         InOrder(where, Of("push")) /\ \A i \in DOMAIN where : AtPlace(Pushed(cmd)[i], where[i])
    /\ \E where \in [DOMAIN LetUp(cmd) -> DOMAIN log] :
         InOrder(where, Of("let")) /\ \A i \in DOMAIN where : AtPlace(LetUp(cmd)[i], where[i])
    /\ \E where \in [DOMAIN Turned(cmd) -> DOMAIN log] :
         InOrder(where, Of("turn")) /\ \A i \in DOMAIN where : made[where[i]].on = Turned(cmd)[i]
    /\ srv.keys = LeftDown(cmd)

\* A command that succeeds presses and pushes on the server what it says, in that
\* order, all of it once and nothing else, and leaves every key alone that it does
\* not press.  A key that it does press is up afterwards: typing a capital lets go
\* of a shift that is held, and typing a letter of that letter, although a key
\* "stays pressed until an explicit keyup" (help.rs:167-168); and what follows in the
\* same text is typed without it.
ArrivesAsAsked ==
    Idle /\ outcome = "ok" /\ cmd.do # "calibrate" => DoneAsAsked

\* Every cell of a grid is measured at the marker of its first click, where the page
\* draws that apart from what was green before and no click late: the clicks before
\* a cell's own are not in the baseline (calibrate.rs 115-150).  The marker of the
\* cell's own click counts in a grid of one cell only, although the grid "measures
\* where each landed" (calibrate-clicks.md:10-11).
MeasuredAtFirst(ps) == \A i \in DOMAIN ps : ps[i].actual = ps[1].target + Shift

GridMeasured ==
    Idle /\ outcome = "ok" /\ cmd.do = "calibrate" /\ page.prompt =>
      LET first == points[1].target + Shift
      IN  first \in 0..(Width - 1) /\ (\A b \in page.baseline : ~Near(first, b)) =>
            MeasuredAtFirst(points)

\* How far the targets are from the first, one after the other summed up.
Spread(ps) ==
    LET sum[n \in 0..Len(ps)] ==
          IF n = 0 THEN 0 ELSE sum[n - 1] + (ps[n].target - ps[1].target)
    IN  sum[Len(ps)]

\* Under such a profile a click of a later session lands where it is asked to, but
\* for the mean distance of the targets from the first one, to the next pixel and as
\* far as the desktop reaches: with a grid of one cell just there, with the default
\* grid off by what its middle is from its first cell, although "a click at 500,300
\* lands at 500,300" (calibrate-clicks.md:37-38).  The sign of the error, its mean,
\* the rounding and the clamp of calibrate.rs and session.rs fit together.
ClickLands ==
    Idle /\ outcome = "ok" /\ cmd.do \in {"click", "doubleclick"}
         /\ profile.points # <<>> /\ MeasuredAtFirst(profile.points)
         /\ offset = [sum |-> profile.sum, over |-> profile.over] =>
      LET p == ResolvePosition(cmd.to)
          n == Len(profile.points)
          d == Spread(profile.points)
          Half(x) == 0 - n <= 2 * x /\ 2 * x <= n
      IN  n * (p - Shift) + d \in 0..(n * (Width - 1)) =>
            \A k \in Of("push") :
              log[k].at = Unknown \/ Half(n * (log[k].at + Shift - p) - d)
===============================================================================
