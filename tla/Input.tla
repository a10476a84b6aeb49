--------------------------------- MODULE Input ---------------------------------
(***************************************************************************)
(* The input commands: session.rs 842-971 over the injector of input.rs,   *)
(* with the arms of rdpdo.rs dispatch_command_inner that call it and the   *)
(* calibration grid.  A command is a list of steps: generate the events of *)
(* a gesture (all of them, before the first is sent) and send them, or     *)
(* wait while the server is heard.  A write or a wait may fail, and the    *)
(* command is then over while the session goes on.                         *)
(***************************************************************************)
EXTENDS Injector, Calibration

CONSTANTS
    Commands,       \* the commands a chain may hold
    Shift,          \* how far the server puts a click from where it was sent
    Green,          \* places that look like a marker before any click
    MaxCommands,    \* bound: commands of a behaviour, a calibration counting as two
    MaxSessions     \* bound: sessions, one after the other

ASSUME ShiftAssumption == Shift \in Int

\* A position as parse_command reads it, and the commands with what they are given.
Position == [form : {"pixel", "percent", "center", "first", "last"}, n : Nat]
Keyboard ==
    [do : {"type", "utype"}, text : Seq(STRING)]
    \cup [do : {"key"}, spec : Seq(STRING) \ {<<>>}, hold : BOOLEAN]
    \cup [do : {"keydown", "keyup"}, spec : Seq(STRING) \ {<<>>}]
Mouse ==
    [do : {"mouse-hide"}] \cup [do : {"move", "doubleclick"}, to : Position]
    \cup [do : {"click"}, to : Position, button : STRING]
    \cup [do : {"drag"}, from : Position, to : Position]
    \cup [do : {"scroll"}, direction : STRING, notches : Nat]
    \cup [do : {"calibrate"}, cols : Nat \ {0}, deploy : BOOLEAN, shell : Seq(STRING)]

ASSUME CommandsAssumption == Commands \subseteq Keyboard \cup Mouse

VARIABLES
    db,         \* what the injector believes the server has
    srv,        \* what the server has
    up,         \* the connection carries what is written
    offset,     \* calibration_offset
    profile,    \* the profile on disk
    cmd,        \* the command under way or last done
    pos,        \* the step of it under way
    next,       \* the operation of that step to apply next: which batch, which of it
    made, sent, \* the events generated for it, an end after each batch; how many are sent
    phase,      \* "idle" | "step" | "pump": between commands, in a step, in the pause after a batch
    outcome,    \* "none" | "ok" | "failed": how the last command ended
    page,       \* the calibration page: clicks it got, markers it has drawn, the baseline;
                \* history: whether the grid found every click drawn whenever it looked
    points,     \* what the grid has measured
    log,        \* what was held, and where the pointer was, when each of them got there
    ghost,      \* keys held when the command began, put down to stay, and let go in what was never sent
    count       \* commands and sessions so far

progress == <<pos, next>>
events == <<made, sent>>
command == <<cmd, progress, events, phase, outcome>>
vars == <<db, srv, up, offset, profile, command, page, points, log, ghost, count>>

NoCommand == [do |-> "nothing"]
NoProfile == [sum |-> 0, over |-> 0, points |-> <<>>]

\* Where the server's pointer is before it is first moved.
Unknown == 0 - 1

Generating(gesture) == [step |-> "generate", gesture |-> gesture, pumped |-> FALSE]
GeneratingPumped(gesture) == [step |-> "generate", gesture |-> gesture, pumped |-> TRUE]
Waiting == [step |-> "wait"]

-------------------------------------------------------------------------------
\* The steps of each command.

\* send_text, send_unicode_text and send_password: a pause after every batch.
Typing(gesture) == <<GeneratingPumped(gesture), Waiting>>

\* send_key_combo, and send_key_combo_held, which makes the key-up events after
\* the wait.
KeySteps(c) ==
    LET a == ParseKeySpec(c.spec)
    IN  IF c.hold
        THEN <<Generating(<<ComboDown(a)>>), Waiting, Generating(<<ComboUp(a)>>), Waiting>>
        ELSE <<Generating(<<Combo(a)>>), Waiting>>

HeldKeys(c) ==
    LET a == ParseKeySpec(c.spec) IN IF c.hold THEN ToSet(a.modifiers) \cup {a.key} ELSE {}

Target(p) == CalibratePosition(ResolvePosition(p), offset)

MutClickSteps(p, clicks) ==
    <<Generating(<<clicks>>), Generating(<< <<MoveTo(Target(p))>> >>), Waiting>>

ClickSteps(p, clicks) ==
    <<Generating(<< <<MoveTo(Target(p))>> >>), Generating(<<clicks>>), Waiting>>

MutDragSteps(c) == <<GeneratingPumped(MouseDrag(Target(c.from), Target(c.to))), Waiting>>

\* send_drag and send_scroll sleep between their batches and hear nothing.
DragSteps(c) == <<Generating(MouseDrag(Target(c.from), Target(c.to))), Waiting>>

\* deploy_via_clipboard.
Deploy(c) ==
    IF c.deploy
    THEN <<Waiting, GeneratingPumped(TypeText(c.shell)),
           Generating(<<Combo(ParseKeySpec(<<"enter">>))>>), Waiting,
           [step |-> "open"],
           Generating(<<Combo(ParseKeySpec(<<"f11">>))>>), Waiting>>
    ELSE <<>>

\* A point of run_calibration_grid: its target is clicked as it is, without the
\* correction of a profile loaded before.
PointStep(t, k) ==
    CASE k = 1 -> Generating(<< <<MoveTo(t)>> >>)
      [] k = 2 -> Generating(<<MouseClick("left")>>)
      [] k = 3 -> Waiting
      [] k = 4 -> [step |-> "measure", target |-> t]

PointSteps(targets) ==
    [i \in 1..(4 * Len(targets)) |-> PointStep(targets[(i + 3) \div 4], 1 + ((i - 1) % 4))]

GridSteps(c) ==
    Deploy(c) \o <<[step |-> "baseline"]>> \o PointSteps(GridTargets(c.cols)) \o <<[step |-> "save"]>>

Program(c) ==
    CASE c.do = "type"        -> Typing(TypeText(c.text))
      [] c.do = "utype"       -> Typing(TypeUnicode(c.text))
      [] c.do = "key"         -> KeySteps(c)
      [] c.do = "keydown"     -> <<Generating(<< <<Press(ParseKeySpec(c.spec).key)>> >>)>>
      [] c.do = "keyup"       -> <<Generating(<< <<Release(ParseKeySpec(c.spec).key)>> >>)>>
      [] c.do = "move"        -> <<Generating(<< <<MoveTo(Target(c.to))>> >>)>>
      [] c.do = "click"       -> ClickSteps(c.to, MouseClick(c.button))
      [] c.do = "doubleclick" -> ClickSteps(c.to, MouseClick("left") \o MouseClick("left"))
      [] c.do = "drag"        -> DragSteps(c)
      [] c.do = "scroll"      -> <<Generating(Scroll(c.direction, c.notches)), Waiting>>
      [] c.do = "mouse-hide"  -> <<Generating(<< <<MoveTo(MaxU16)>> >>), Waiting>>
      [] c.do = "calibrate"   -> GridSteps(c)

\* The errors that come before anything is sent.
Refused(c) ==
    CASE c.do = "key"                   -> ~KeySpecOk(c.spec)
      [] c.do \in {"keydown", "keyup"}  -> ~KeySpecOk(c.spec) \/ Len(c.spec) > 1
      [] c.do \in {"move", "click", "doubleclick"} -> ~Resolvable(c.to)
      [] c.do = "drag"                  -> ~Resolvable(c.from) \/ ~Resolvable(c.to)
      [] c.do = "scroll"                -> c.direction \notin {"up", "down"}
      [] OTHER                          -> FALSE

-------------------------------------------------------------------------------
\* The server: what an event does there, and what the page notes of a click.

Landed(p) == {p + Shift} \cap (0..(Width - 1))

Noted(e) ==
    IF e.do = "push" /\ e.on = "left" /\ page.open /\ srv.at # Unknown
    THEN [page EXCEPT !.clicks = @ \cup Landed(srv.at)] ELSE page

Ghosts(e) ==
    CASE e.do = "press" /\ cmd.do = "keydown" -> [ghost EXCEPT !.kept = @ \cup {e.on}]
      [] e.do = "release" -> [ghost EXCEPT !.kept = @ \ {e.on}, !.stranded = @ \ {e.on}]
      [] OTHER -> ghost

Arrives(e) ==
    /\ srv' = After(srv, e)
    /\ log' = Append(log, [under |-> srv.keys, at |-> srv.at])
    /\ page' = Noted(e)
    /\ ghost' = Ghosts(e)

-------------------------------------------------------------------------------
First == [batch |-> 1, op |-> 1]
AtStart(step) == pos' = step /\ next' = First

Init ==
    /\ db = Untouched(0)
    /\ srv = Untouched(Unknown)
    /\ up = TRUE
    /\ offset = NoOffset
    /\ profile = NoProfile
    /\ cmd = NoCommand /\ pos = 1 /\ next = First /\ made = <<>> /\ sent = 0
    /\ phase = "idle" /\ outcome = "none"
    /\ \E open \in BOOLEAN :
         page = [open |-> open, clicks |-> {}, drawn |-> {}, baseline |-> {}, prompt |-> FALSE]
    /\ points = <<>>
    /\ log = <<>>
    /\ ghost = [before |-> {}, kept |-> {}, stranded |-> {}]
    /\ count = [commands |-> 0, sessions |-> 1]

Weight(c) == IF c.do = "calibrate" THEN 2 ELSE 1

\* dispatch_command: a command begins, or is refused before it sends anything.
Begin(c) ==
    /\ phase = "idle" /\ up /\ count.commands + Weight(c) <= MaxCommands
    /\ count' = [count EXCEPT !.commands = @ + Weight(c)]
    /\ cmd' = c
    /\ log' = <<>>
    /\ points' = <<>>
    /\ ghost' = [ghost EXCEPT !.before = srv.keys]
    /\ IF Refused(c) THEN outcome' = "failed" /\ UNCHANGED phase
                      ELSE outcome' = "none" /\ phase' = "step"
    /\ AtStart(1) /\ made' = <<>> /\ sent' = 0
    /\ UNCHANGED <<db, srv, up, offset, profile, page>>

Here == Program(cmd)[pos]
AtStep(kind) == phase = "step" /\ pos \in DOMAIN Program(cmd) /\ Here.step = kind
Onward == AtStart(pos + 1)

Making == AtStep("generate") /\ next.batch <= Len(Here.gesture)
Made == AtStep("generate") /\ next.batch > Len(Here.gesture)
Batch == Here.gesture[next.batch]

End == [do |-> "end"]

\* Events remember the operation they were made of, so that what arrives can be
\* told apart.
Event(op) == [do |-> op.do, on |-> op.on, of |-> next]

\* What an operation adds to the events, with the end of the batch after its last.
LastOfBatch == next.op = Len(Batch)
FollowingBatch == [batch |-> next.batch + 1, op |-> 1]
Added(op) ==
    LET new == Events(db, op)
    IN  [i \in DOMAIN new |-> Event(new[i])] \o (IF LastOfBatch THEN <<End>> ELSE <<>>)

\* The injector makes the events of a whole gesture, one operation after the
\* other, before it sends any.
Generate ==
    /\ Making /\ Batch # <<>>
    /\ LET op == Batch[next.op]
       IN  db' = After(db, op) /\ made' = made \o Added(op)
    /\ next' = IF LastOfBatch THEN FollowingBatch ELSE [next EXCEPT !.op = @ + 1]
    /\ UNCHANGED <<srv, up, offset, profile, cmd, pos, sent, phase, outcome, page, points, log, ghost, count>>

LeaveOut ==
    /\ Making /\ Batch = <<>>
    /\ next' = FollowingBatch
    /\ UNCHANGED <<db, srv, up, offset, profile, cmd, pos, events, phase, outcome, page, points, log, ghost, count>>

AllSent == sent = Len(made)
Sending == Made /\ ~AllSent
Upcoming == made[sent + 1]

\* What is written reaches the server event by event, or is lost with the connection.
Send ==
    /\ Sending /\ Upcoming # End
    /\ IF up THEN Arrives(Upcoming) ELSE UNCHANGED <<srv, log, page, ghost>>
    /\ sent' = sent + 1
    /\ UNCHANGED <<db, up, offset, profile, cmd, progress, made, phase, outcome, points, count>>

\* A batch is written; a pause may follow.
Written ==
    /\ Sending /\ Upcoming = End
    /\ log' = Append(log, [under |-> srv.keys, at |-> srv.at])
    /\ sent' = sent + 1
    /\ phase' = IF Here.pumped THEN "pump" ELSE "step"
    /\ UNCHANGED <<db, srv, up, offset, profile, cmd, progress, made, outcome, page, points, ghost, count>>

StepDone ==
    /\ Made /\ AllSent
    /\ Onward
    /\ UNCHANGED <<db, srv, up, offset, profile, cmd, events, phase, outcome, page, points, log, ghost, count>>

Unsent(do) == {made[i].on : i \in {j \in (sent + 1)..Len(made) : made[j].do = do}}

\* An error leaves the command where it is: what was generated and not sent is
\* dropped, what the injector believes stays.
Fail ==
    /\ outcome' = "failed" /\ phase' = "idle" /\ made' = SubSeq(made, 1, sent)
    /\ ghost' = [ghost EXCEPT
         !.kept = IF cmd.do = "key" THEN @ \cup (srv.keys \cap HeldKeys(cmd)) ELSE @,
         !.stranded = @ \cup Unsent("release")]
    /\ UNCHANGED <<db, srv, offset, profile, cmd, progress, sent, page, points, log, count>>

\* process_pending and run_for: the server is heard, the page may get to draw.
Hear ==
    /\ \E drawn \in {page.drawn, page.clicks} : page' = [page EXCEPT !.drawn = drawn]
    /\ UNCHANGED <<db, srv, up, offset, profile, cmd, events, outcome, points, log, ghost, count>>

Pump == phase = "pump" /\ phase' = "step" /\ Hear /\ UNCHANGED progress

AwaitServer == AtStep("wait") /\ Onward /\ Hear /\ UNCHANGED phase

\* A PDU of the server makes no sense, or a write fails.
HearFails == (phase = "pump" \/ AtStep("wait")) /\ Fail /\ UNCHANGED up
WriteFails == Sending /\ Upcoming # End /\ ~up /\ Fail /\ UNCHANGED up

ServerGoes ==
    /\ up /\ phase # "idle"
    /\ up' = FALSE
    /\ UNCHANGED <<db, srv, offset, profile, command, page, points, log, ghost, count>>

-------------------------------------------------------------------------------
\* calibrate.

\* The clusters a look at the frame finds, and whether no click is yet to be drawn.
Seen == Green \cup (IF page.open THEN page.drawn ELSE {})
Prompt == page.open /\ page.drawn = page.clicks

OpenPage ==
    /\ AtStep("open")
    /\ page' = [page EXCEPT !.open = TRUE, !.clicks = {}, !.drawn = {}]
    /\ Onward
    /\ UNCHANGED <<db, srv, up, offset, profile, cmd, events, phase, outcome, points, log, ghost, count>>

TakeBaseline ==
    /\ AtStep("baseline")
    /\ page' = [page EXCEPT !.baseline = Seen, !.prompt = Prompt]
    /\ Onward
    /\ UNCHANGED <<db, srv, up, offset, profile, cmd, events, phase, outcome, points, log, ghost, count>>

Measure ==
    /\ AtStep("measure")
    /\ LET t == Here.target
       IN  points' = Append(points, [target |-> t, actual |-> Measured(t, Seen, page.baseline)])
    /\ page' = [page EXCEPT !.prompt = @ /\ Prompt]
    /\ Onward
    /\ UNCHANGED <<db, srv, up, offset, profile, cmd, events, phase, outcome, log, ghost, count>>

\* The profile is built and saved.
SaveProfile ==
    /\ AtStep("save")
    /\ LET mean == ComputeCorrection(points)
       IN  profile' = [sum |-> mean.sum, over |-> mean.over, points |-> points]
    /\ Onward
    /\ UNCHANGED <<db, srv, up, offset, cmd, events, phase, outcome, page, points, log, ghost, count>>

-------------------------------------------------------------------------------
Finish ==
    /\ phase = "step" /\ pos > Len(Program(cmd))
    /\ phase' = "idle" /\ outcome' = "ok"
    /\ UNCHANGED <<db, srv, up, offset, profile, cmd, progress, events, page, points, log, ghost, count>>

\* Another rdpdo, with --calibration if there is a profile to load, or without.
NewSession ==
    /\ phase = "idle" /\ count.sessions < MaxSessions
    /\ count' = [count EXCEPT !.sessions = @ + 1]
    /\ \/ profile # NoProfile /\ offset' = [sum |-> profile.sum, over |-> profile.over]
       \/ offset' = NoOffset
    /\ db' = Untouched(0) /\ srv' = Untouched(Unknown) /\ up' = TRUE
    /\ cmd' = NoCommand /\ AtStart(1) /\ made' = <<>> /\ sent' = 0 /\ outcome' = "none"
    /\ points' = <<>> /\ log' = <<>>
    /\ ghost' = [before |-> {}, kept |-> {}, stranded |-> {}]
    /\ UNCHANGED <<profile, phase, page>>

Next ==
    \/ \E c \in Commands : Begin(c)
    \/ Generate \/ LeaveOut \/ Send \/ Written \/ StepDone
    \/ Pump \/ AwaitServer \/ Finish
    \/ HearFails \/ WriteFails \/ ServerGoes
    \/ OpenPage \/ TakeBaseline \/ Measure \/ SaveProfile
    \/ NewSession

Spec == Init /\ [][Next]_vars
===============================================================================
