# lamco-rdp-tools in TLA+

A verification project for `rdpdo` and `rdpsee`, the headless RDP tools under
`src/src/`. `rdpdo` connects to an RDP server, runs a chain of commands against
the remote desktop (type, click, capture, expect, clipboard, files, scripts) and
reports the result as an exit status and a JUnit file. `rdpsee` probes servers.

All paths below are under `src/src/` unless they start with `docs/` or `doc/`.

## The system

One tokio task runs a chain; the protocol libraries (`ironrdp-*`) call back into
the code from inside that task, while a PDU is processed. There are no threads
that share state in the sense of a data race. What is concurrent is the server,
the user behind it, the clock, and futures that are dropped where they wait.

| Component | State | Operations | Meets the others through |
|---|---|---|---|
| Chain runner (`rdpdo.rs` `run_cli`, `run`, `record_command`) | position, pending modifiers, attempts, soft failures, test cases, recorder, the error it stopped on | offline chain, connect, modifiers, dispatch with retries, scripts, report, shutdown, the overall timeout | awaits commands; reads `peer_disconnected` |
| Session pump (`session.rs` `run_for`, `run_while`, `process_for`, `wait_for_frame`, `wait_still`, `dispatch_outputs`) | framebuffer, frame counters, `peer_disconnected`, the framed connection | read a PDU, dispatch its outputs, reactivate, answer the clipboard | runs the callbacks of the clipboard, graphics and audio handlers |
| Graphics (`gfx.rs`) | framebuffer, surfaces, mappings, content flag, frame counter | create, delete, map, draw, fill, copy, reset | shares framebuffer, flag and counter with the session |
| Clipboard (`clipboard.rs`, `session.rs` 980-1460) | pending text, staged file, request flags, what was received | announce, ask, answer, the CLIPRDR handshake | callbacks leave notes that `dispatch_outputs` acts on |
| File transfer (`session.rs` 1282-1686) | two reception slots; the staged file and the request for it | receive in pieces, serve ranges | same channel as the clipboard |
| REPL (`rdpdo.rs` 2163-2562) | the session or none, the line being read | read a line while reading the connection, dispatch, reconnect | drops the pump's future when a line comes |
| Input (`session.rs` 750-971, `input.rs`) | keys and buttons that are down, pointer position | key, type, click, drag, scroll | writes to the connection |
| Audio (`audio.rs`) | format, samples, recording flag | format change, wave, record, assert | callbacks |
| Recorder and scripts (`recorder.rs`, `script.rs`) | events with their times; variables | record, load, convert, tokenize, substitute | the chain runner |
| Probe (`probe.rs`, `rdpsee.rs`, `cert.rs`) | one report per target | negotiate per protocol, scan many, verdict | its own connections |
| Connection (`connection.rs`) | the connector | connect, TLS, CredSSP, channels | yields the session |
| Coordinates, calibration (`coords.rs`, `calibrate.rs`) | offset | parse and resolve positions | input commands |
| Images (`matching.rs`, `pixel.rs`, `needle.rs`, `capture.rs`), reports, fingerprints, help, command line | none | pure functions, files | commands |

What makes it correct, and what is hard about it:

* Chain runner: commands run in order, once each or as often as the chain
  grants; modifiers bind to the command after them; exit status and report say
  what happened. Hard: the many ways out of the loop (soft and hard failures,
  a lost peer, errors between attempts, the timeout that drops `run` anywhere).
* Clipboard: what is pasted is what was offered, what is read is current, nobody
  waits for ever. Hard: announcements of both sides cross on the wire; flags
  set in a callback are acted on later; late answers; dropped futures.
* File transfer: what is saved or pasted is the file, whole. Hard: short and
  late answers, sizes told from data by their length, another file or copy in
  the middle, 32-bit casts.
* Waits and captures: a wait says what it found, and ends; a capture shows what
  was drawn last. Hard: two drawing pipelines with two framebuffers, counters
  and flags that do not move together, reactivation in the middle of a wait.
* Graphics: the composited picture is what the surfaces show. Hard: state of
  surfaces and framebuffer that must agree over legal sequences of PDUs, buffer
  arithmetic at the edges.
* Probe and scan: rows and verdict are true of the servers. Hard: probes that end
  in any order, servers that stall, timers nested in timers.
* REPL: what is typed runs, and it ends. Hard: a line drops whatever the session
  was doing; a reader that runs ahead; a session replaced in the middle.
* Input: nothing stays pressed, clicks land where they are asked to. Hard: a
  command may fail between any two writes, and what the injector believes held
  and what the server holds then part; corrections are measured by one command
  and used by others.
* Audio: what is captured is what was played meanwhile, labelled as what it is.
  Hard: one buffer and one measurement shared by commands that fail half way.
* Recorder and scripts: what is recorded, converted and run is what was done.
  Hard: four formats (command line, recording, script, profile) that quote,
  print and read the same commands each in their own way.

`PROJECT.json` lists, per component, what is modelled, and under `hazards` each
of these hard spots at its line with the properties that cover it.

## Modules

| Module | Models | Run |
|---|---|---|
| `ChainSyntax` | chains as `cli.rs` parses them, and what modifiers mean to a reader | |
| `Chain` | `run_cli`, `run`, the script loops, recording, report, timeout | `chain` |
| `ChainContract` | exit status and verdicts from outside: `docs/reference/exit-codes.md`, and the program's two departures from it as actions of their own | refinement in `chain` |
| `ChainProperties`, `ChainProofs` | claims about the runner; their proofs | |
| `Clipboard`, `ClipboardProperties`, `ClipboardProofs` | text both ways, the handshake, staged files up to their list, `exec`, dropped futures | `clipboard` |
| `FileRecv`, `FileRecvProperties`, `FileRecvProofs` | `recv_clipboard_file`, `request_file_contents_wait` and the callbacks that fill their slots | `file_recv` |
| `FileServe`, `FileServeProperties`, `FileServeProofs` | answering a server that fetches a staged file | `file_serve` |
| `Observe`, `ObserveProperties`, `ObserveProofs` | the pump as the waiting and looking commands see it | `observe` |
| `Screen`, `ScreenProperties` | the callbacks of `gfx.rs` on flat buffers | `screen` |
| `Canvas` | what they draw, on coordinates | refinement in `screen` |
| `Scan`, `ScanProperties`, `CommandProofs` | `probe`, `scan_many`, the verdict and the overall timeout of `rdpsee scan` | `scan` |
| `Repl`, `ReplProperties`, `CommandProofs` | both loops of the session command, dispatch of a line, disconnect, reconnect | `repl` |
| `Injector` | `input.rs`: the events every gesture becomes | `input` |
| `Calibration` | positions, the grid, the correction (`coords.rs`, `calibrate.rs`) | `input` |
| `Input`, `InputProperties`, `InputProofs` | the input commands over both, failures included | `input` |
| `Audio`, `AudioProperties`, `AudioProofs` | the sound handler, `audio-capture`, `audio-assert-playing` | `audio` |
| `Grammar` | `parse_commands`: tokens into commands | `replay` |
| `Script` | recording, conversion, tokenizer, variables, profiles | `replay` |
| `Replay`, `ReplayProperties` | a chain is recorded, and played or converted and run | `replay` |

`XProperties` states what is claimed of `X`, `XProofs` proves it for every value
of the constants; `CommandProofs` does so for `Scan` and `Repl`, which share nothing. `MC*` modules hold what the configurations cannot say; each
`MC*.cfg` gives the constants their values. An operator `MutX` before `X` is a slip of the kind a
programmer makes there; it serves to show that a property would notice.

How state and actions correspond to the code:

* **Chain.** A step is the code between two awaits, or one command. `pc` is the
  place in `run`: `top` the head of the loop, `dispatch` an attempt, `pause` the
  500 ms between attempts, `judge` the match on the last result, `report` and
  `shutdown` what follows the loop. What a command does is reduced to how it
  resolves and whether it found the peer gone. `tries` and `verdict` are history.
* **Clipboard.** A PDU's callback is one action (`On...`), each check at the end
  of `dispatch_outputs` another (`Check...`); guards make the answer come before
  the next read, and only `DropFuture` can come in between: a line to the REPL,
  typed or piped, drops `run_for` after the flag is cleared and before the answer
  is written. `dropped` is history: which answers were lost so. A
  text is the number of the copy it came from, so "older" is "smaller".
  `raced` and `late` remember that announcements crossed, or that a
  get-clipboard gave up; the properties say what holds apart from that.
* **FileRecv.** `pc` is what the command waits for, `slot` is
  `received_file_contents`. Chunk, wrap-around and the eight bytes by which a
  size response is recognised are scaled down; `Memory` stands for what the
  allocator gives. `failure` is history: why a command failed, and at which answer.
* **FileServe.** `crashed` records that `check_file_contents_request` would
  underflow or slice out of bounds, which ends the process. `DropFuture` loses the
  answer to a request that a line to the REPL comes in on, as in `Clipboard`.
* **Observe.** A picture is a number, 0 is blank. `image` is the framebuffer of
  bitmap updates, `framebuffer` that of EGFX, `hasGfx` the content flag; time is
  counted in polling steps and passes only while a command waits.
* **Screen.** One callback is one step: it runs to its end while a PDU is
  processed. A pixel is one cell of a flat function with a row length, so that
  strides, offsets and the test against the end of the buffer are those of the
  code. `pdu` is history, from which `Canvas` draws. RemoteFX goes to the
  framebuffer and not to the surface, as in the code, and its decoded data is a
  piece of the scratch image with that image's row length (`DataForRect`). The
  refinement mapping
  reads a buffer as a function of coordinates.
* **Scan.** `task[i]` is where the probe of target i waits, `left[i]` what is
  left of the timer it waits under, `overall` that of `run_cli`. Time passes in
  ticks, once nothing that is due is left to do; timers due in the same tick
  fire in any order. `truth` is history: how each server really behaved.
* **Repl.** `pc` is where the loop is: `head` (the piped loop looks for its
  peer), `select`, `command`, `shell`, `reconnect`, `frame` (the wait after a
  reconnect). `pump` is what `run_for`, or a command's own reading, is doing.
  `Takes` drops it, whatever it is doing. A command is reduced to whether it
  succeeds and whether it gets stuck or lost while reading. `notice` is a
  Deactivate All that nobody has read.
* **Input.** A command is a list of steps, as its arm in `dispatch_command_inner`
  and the `send_...` functions string them together: generate the events of a
  gesture, send them, wait. `Generate` applies one operation to the injector (this
  is where it changes its mind about what is held) and appends its events to
  `made`, with a mark at the end of each batch; `LeaveOut` passes over a character
  that has no scancode. Only when the whole gesture is made does `Send` write its
  events one by one, up to `sent`, and `Written` ends a batch. `db` is what the injector believes, `srv` what the
  server holds; `phase = "pump"` is the reading between two batches, which may
  fail and end the command with the session alive. The screen has one axis.
  `log` and `ghost` are history: what reached the server, which keys were put
  down to stay, what was down before the command, which key-ups were generated and
  never sent. An event carries the
  operation it was made of (`of`), which no guard reads.
* **Audio.** `state` is `AudioState`. A tick is 100 ms, a wave some ticks of one
  loudness. `heard` and `first` are history: the waves since the command began,
  and when the first of the session came.
* **Grammar, Script, Replay.** Text is a sequence of atoms: words, numbers, and
  the characters that some reader on the way treats specially (space, tab,
  newline, quote, backslash, braces, `#`). A verb is a list of slots; the order in
  which `parse_commands` looks at tokens is kept. `ran` is what the chain
  dispatched, `recording` what is on disk, `replayed` what playing or running it
  dispatched, with times. Numbers are cut to the width the parser casts them to
  (`Cut`: `as u8`, `as u32`), flags and layouts are refused as `parse_commands`
  refuses them (`Accepts`, `Layouts`), and `--quick` is the grid it stands for.

## Runs

| Run | Shows | Bounds |
|---|---|---|
| `chain` | order, binding of modifiers, verdicts, report, recording, graceful end, termination, refinement of `ChainContract` | all chains of up to 3 commands of 6 kinds, and 7 longer ones in which modifiers pile up, dangle or precede a session |
| `clipboard` | which text a paste and a get return; no text is withdrawn; no spurious error; handshake, pastes and `exec` end but for answers a line to the REPL drops | 2 texts, 2 server copies, 1 message under way when a command starts |
| `file_recv` | what is saved is whole; what a transfer fails for; transfers end | 2 files of 6 sizes around chunk, wrap-around and memory, 2 messages |
| `file_serve` | what is pasted is whole, pastes succeed and end but for an answer a line to the REPL drops | 3 files of 4 sizes, ranges of 2 lengths |
| `serve_shorter_file` | (violation) a shorter file staged meanwhile panics | 2 files |
| `observe` | what waits say is so, and what `wait-still` does not see; they miss nothing that stays, and end; captures are current | 2 pictures, 3 drawings or reactivations, timeout 3, poll 2, stillness 2 |
| `screen` | framebuffer and surfaces show what `Canvas` draws | 2 surfaces of 2x2, an output of 3x2, origins (2,0) and (1,1), 2 drawings of any kind, any number of other callbacks |
| `scan` | rows in order and complete; the verdict is true of the servers; the scan ends | 3 targets, 2 at a time, timeout of 2 ticks, 6 kinds of answer, every set of expectations |
| `repl` | what was typed runs, in order, once; what ends it at a terminal and on a pipe; the REPL ends; a lost peer is noticed | every input of up to 3 lines of 7 kinds, both modes, 2 deactivations |
| `input` | nothing sticks, whatever fails; a command that succeeds did what it says and leaves down what it says; what a grid measures, and where clicks of a later session land for it | 21 commands, 3 in a row, 2 sessions, 10 columns, grids of one and two cells, a server that puts clicks one column to the right |
| `audio` | what is captured is what was played meanwhile, its label is right where it can be, sound is not made up | the 6 formats, 7 ticks, window 2, a clock that wraps at 9 and one that does not get there |
| `replay` | which commands a played recording repeats, how changed and when; what the converted script and the login profiles keep | every command line of up to 2 of 46 pieces, speeds 1 and 2, pauses of 0 and 3 |

Why the bounds are enough: each hazard needs few actors. Crossing announcements
need one of each side, staleness needs a second text or copy, a misbound
modifier two commands; three of everything adds interleavings of the same
pairs. The sizes of files lie below, at and above one and two chunks and the
wrap-around. Three drawings suffice for one by each pipeline and a
reactivation. In `screen`, two drawings suffice for one to depend on another (a
copy of what was drawn); the output is wider than a surface, so strides differ;
one origin puts a surface across the right edge, the other across the lower. In
`scan`, the second chunk starts when part of the
overall timeout has gone. In `repl`, a line before, in and after each directive.
In `input`, three commands are one that fails, one that meets what it left, and
one that lets go; the second session uses the profile the first one wrote, and
one column that looks like a marker from the start is what the baseline is for.
Two cells are the fewest in which a click after the first is measured at the
marker of the first, and their mean is not a whole number of pixels; grids of any
size are left to `ClicksAlwaysLand`. In `audio`,
the waves before, within and after the window fit into seven ticks. In `replay`,
commands are printed and read one at a time, so the second piece is there to be
swallowed by the first, or to come too early. `U32` is scaled down, since TLC's
integers end where a `u32` does.

`screen` identifies states that differ in `pdu` alone (`VIEW`): no guard reads
it. The refinement compares a step's two states and the `pdu` of the second,
which TLC checks for every step it generates, whether or not the state reached
is new. Surfaces are interchangeable (`SYMMETRY`); no liveness is checked there.

Deadlock is checked except in seven runs. `input`, `audio` and `replay`
stop where their bounds are used up. In `clipboard`, an `exec` may wait for
ever for a paste whose answer a line to the REPL dropped; the overall timeout, which
is part of `Chain`, ends it. In `file_serve` and `serve_shorter_file` a panic stops
the process and a dropped answer the paste, in `file_recv` a size that cannot be
reserved stops the process.

### Fairness

* `Chain`: weak fairness of `Synchronous` (code that does not await runs on) and
  of `Timeout` (the clock runs on). That a command ever returns is not assumed.
* `Clipboard`: weak fairness of reading, of answering and of the ends of windows
  (`tokio::time`), and of the server reading its channel; strong fairness of
  `ExecDone`, since the program that `exec` runs ends whenever its own paste is
  answered, although others go on pasting. Nobody has to copy, paste or start a
  command.
* `FileRecv`: weak fairness of `Step` and `GiveUp` (timeouts). The server may be
  silent.
* `FileServe`: weak fairness of the session and of the server's reading.
* `Observe`: weak fairness of the loops and of reading what is there; strong
  fairness of `Tick`, since a polling loop whose reads all fail spins without
  ever waiting and time passes nevertheless. The server may stall at any time,
  also in the middle of a reactivation, which nothing in the code bounds; hence
  the exception in `WaitsEnd`.
* `Scan`: weak fairness of the scheduler (`StartChunk`, `Collect`, `Verdict`), of
  the timers (`TimesOut`, `OverallTimeout`) and of time. No server has to answer.
* `Repl`: weak fairness of the loop, of the end of commands, of connecting and
  of shell commands, none of which the REPL bounds by itself; strong fairness of
  reading a closed connection, since `run_for` starts over every 200 ms. The
  user need not type and the server may stall, also within a reactivation:
  hence `Stalled` in `ReplEnds`.
* `Input`, `Audio` and `Replay` claim nothing about progress and assume nothing.

## Proofs

`ChainProofs` proves for every set of chains, whatever their length and whatever
the scripts in them, from no assumption but `Chains \subseteq Seq(Token)`:

* `TypeCorrect`: `Spec => []TypeOK`. `TypeOK` alone is not inductive: that `pos`
  stays within the chain needs to know at which places of `run` there is a
  current command (`AtPosition`); `Typed` is both.
* `ModifiersAlwaysBind`: `Spec => []ModifiersBind`. The invariant `BindInv` adds
  what the pending flags mean at the head of the loop (`InForce`: they are those
  of the modifiers just read). The lemmas on `Window` say how the reader's
  meaning of a modifier moves along the chain.
* `CommandsRunInOrder`: `Spec => InOrder`, from `Progress`: before `pos`
  everything has passed or failed softly, at and after it nothing is concluded
  unless the loop has stopped on it.
* `ChainEndsGracefully`: `Spec => []EndsGracefully`, from `Ending`: what is on
  disk and closed at each place after the loop.
* `RunnerImplementsContract`: `Spec => ImplementsContract`: the initial state
  maps to an initial state of `ChainContract`, `Judge` and `OfflineStep` to
  `Conclude`, the ends of the run to the action for each, and everything else to
  a step that changes nothing but whether the server is there. An end with 0
  before the chain is through maps to `CutShort`, a failing pause to
  `FailInPause`, and no other step needs them: the two departures from
  `exit-codes.md` are there exactly where the program departs. `Standing` and
  `Counting` say where a connect, a session or a pause can fail.
* `VerdictsAlwaysEarned`: `Spec => []VerdictsEarned`. A verdict counts dispatches,
  so `Counting` follows them through the retry loop: at each place of `run`, how
  `tries` of the current command stands to `attempt` and `attempts`, and that no
  command ahead was dispatched. With `BindInv` the attempts are those granted.
* `ReportAlwaysFaithful`: `Spec => []ReportFaithful`, from `Cases` and `Softs`: the
  test cases are those of the concluded commands, in order. That the one added
  next comes last is in `Progress`: nothing at or after `pos` is concluded.
* `RecordingAlwaysFaithful`: `Spec => []RecordingFaithful`, from `Recording`: at the
  head of the loop nothing at `pos` or after is recorded; while a command is
  at work it is recorded already, so that a retry must not record it again.
* `RunAlwaysAccounted`: `Spec => []RunAccounted`, from `ChainEndsGracefully`,
  `ReportAlwaysFaithful` and `RecordingAlwaysFaithful`.

`ClipboardProofs` proves for any number of texts, copies, pastes and commands, and
channels of any length. `TypeOK` apart, each claim has an invariant of its own:

* `NeverSpurious`: `Spec => []NoSpuriousError`, from `FileStays`: while no file is
  staged, none was announced, asked for, or is about to be. A staged file stays
  through copies of the server.
* `NeverStale`: `Spec => []NoStalePaste`, from `Matched` (a paste has at most one
  question or answer under way, of the kind it asked for) and `Fresh` (what lies
  on the channels or in the flags is no older than what the paste was offered,
  and no newer than the last copy).
* `AlwaysServed`: `Spec => []PasteServed`, from `Owned`: unless announcements have
  crossed, both sides agree on whose the clipboard is. While an announcement of
  the server is under way, its own offer stands and none of ours is on its way
  to undo it (`LastWord`); its questions come before that announcement
  (`AsksFirst`); and once we have no pending text, nothing under way or noted
  down takes the clipboard for ours (`NotOurs`).
* `AlwaysCurrent`: `Spec => []GetCurrent`, from `OneGet` and `Current`: unless an
  earlier get gave up, at most one request for the server's text or answer to one
  is under way, only while a get waits, and the answer is not older than the
  server's text was when the get began.
* `NeverWithdrawn`: `Spec => []OfferKeepsText`, from `Offered`: an empty list that
  the handshake sends while a text is pending is followed on the channel by the
  announcement of the text (`LastingSent`, `LastingTaken`).

`FileRecvProofs` proves for any number and sizes of files, any chunk, and any number
of transfers, from `FileRecvAssumption`:

* `AlwaysForCause`: `Spec => []FailsForCause`: a transfer that nothing disturbs
  fails for one of three causes only, and each is named by what was answered and
  what was still to come. From `OneRequest`: until a request is
  abandoned, exactly one question or reply is under way while the command waits
  and none otherwise (`Single`), and it belongs to the question (`Matching`). The
  stream ids do not say so; only that there is one at a time does. `CauseStep`
  follows the cause through every end of the command.
* `AlwaysIntact`: `Spec => []SavedIntact`, from `Calm`: if nothing was copied either,
  what is under way is about the file on the server's clipboard, and the pieces
  so far are a beginning of it, as far as `offset` says (`UpToHere`).

`FileServeProofs` proves for every number and size of files, every length the
server may ask for and channels of any length, from `FileServeAssumption`:

* `PastedAlwaysIntact`: `Spec => []PastedIntact`. The claim speaks of the end of a
  paste; the invariant says what holds in the middle. `OneAtATime` is its core:
  a paste has exactly one message under way, a request on the channel, one
  noted down by a callback, or the answer, and it is the one the paste waits
  for. `Announced` keeps the last offer in step with the staged file,
  `Undisturbed` says that what was received is a beginning of the file.

`ObserveProofs` proves for every stream of drawings, deactivations and
activations, of any length, and every timeout, from `ObserveAssumption`:

* `SavedAlwaysNewest`: `Spec => []SavedIsNewest`. The content flag alone does not
  tell which framebuffer was drawn last; `Separated` adds that a bitmap update
  never follows an EGFX drawing, read or unread, without a reactivation between
  them, which is where the flag is cleared.
* `ChangeAlwaysEarned`, `StillAlwaysEarned`: `Spec => []ChangeEarned` and
  `Spec => []StillEarned`. `Counted` and `Calm` tie the locals of the two loops (the
  count at the start, the time since the last update) to what was drawn, and
  `Own` says that an outcome belongs to the command that waited. That a change
  within the period is the EGFX channel's or a reactivation's is carried along as
  three times: since the last bitmap update, since anything else drew, since what is
  shown changed.
* `LongEnoughAlwaysSeen`: `Spec => []LongEnoughIsSeen`, from `Sight`: the time that the
  picture has been on the screen and what is left of the polling step are
  together no more than one step, at every place of the loops.

`CommandProofs` proves, of the scan, for any number of targets, any chunk size and
any timeouts, from `ScanAssumption`:

* `VerdictAlwaysSound` and `RowsAlwaysInOrder`: every row a probe can return is true
  of its server (`RowsTrue`), a true row meets the expectation exactly if the
  server has what is expected (`MeetsIsHas`), and collected rows are those of a
  beginning of the targets (`InTurn`, `RowsFaithful`), whatever order the probes of
  a chunk end in.

And of the session command, for every input, of any length, piped or typed, and
any number of deactivations, from `ReplAssumption`:

* `RunsAlwaysWhatWasTyped`: `Spec => []RunsWhatWasTyped`. `AtHand` says what is missing
  while a command runs: the commands of its line before it are the last that ran
  and went well, or none of the line has run. All other steps are `Apart`.

`InputProofs` proves for every set of commands, layout, table of key names, desktop,
shift of the server and number of sessions, from `LayoutAssumption` (no character
is typed by the shift key alone), `CommandsAssumption` (what `parse_command` can
return), `ShiftAssumption` and `WidthAssumption`:

* `TypesAreCorrect`: `Spec => []TypeOK`.
* `NothingEverSticks`: `Spec => []NothingSticks`. The claim speaks of the server
  between two commands; while one runs, what the server has is a mixture of what
  was there before and the part of the gesture that got through, and what the
  injector believes is ahead of both. The invariant is therefore about the whole
  way between them: a *course* is the list of the pictures the server has and will
  have, event by event, from the start of the command to the last event made
  (`Course`). While the connection is up there is one that is
  * `Clean`: its last picture is the injector's but for keys stranded earlier; at
    the end of every batch no button is held (a drag apart, which waits for nothing
    between its batches), no key but those put down to stay and those of a
    combination, and what the injector believes held is held or still owed (`Owed`:
    let go later in the batch being made, or by the second half of a hold);
  * `Level`: where a pause may end the command, the pointer is where the injector
    believes it, or was never moved.

  That a failure leaves nothing held then rests on which waits can fail: a gesture
  that moves or holds across batches (drag, hold) must not pause between
  them, and `DragSteps` and `KeySteps` are checked for just that (`StepOk`). The
  Database's own corrections (a held key let go before it is pressed again,
  repetitions left out) are `GrowsBy`.
* `AlwaysArrivesAsAsked`: `Spec => []ArrivesAsAsked`, presses, releases and what is
  left down. The course is also `Faithful`:
  the events made are those of the operations passed, in their order, none of a
  kind that is asked for twice or left out (`InStep`), each under the keys and at
  the place it is meant for (`AsWanted`). `GestureFor` and the lemmas from
  `TypePressed` to `AllButtons` say where in the gesture of each command stands what
  `Pressed`, `Pushed`, `LetUp` and `Turned` ask for, for texts, combinations and
  notches of any length; `AllArrived` joins the two. What the server has down once
  all is sent is what was down before, but for the keys the gesture touched:
  `LeftAlone` says that no event of a gesture is about another key.
* `ClicksAlwaysLand`: `Spec => []ClickLands`, from the above and `Trusting`: a profile is
  saved only after a point was measured (`SavedAfterMeasuring`, since a grid ends
  with a measurement). If all its points are measured at the first click's marker,
  as `GridMeasured` says they are, their errors sum up to the server's shift less
  the distance of each target from the first (`ErrorsOfFirst`), and the correction
  takes away the mean of that, rounded to the next pixel (`CorrectionUndoes`). So
  the theorem holds of grids of any size, and says by how much the clicks are off.

TLC, with the invariants of these proofs added to `input`, found
them to hold as well.

`AudioProofs` proves for every list of formats, window, wrap-around and clock, from
`RatesAssumption`, `WaveAssumption` and `ClockAssumption`:

* `TypeCorrect`: `Spec => []TypeOK`. What is not obvious is that the nearest format
  exists: `NatMin` gives every nonempty set of naturals a least element.
* `CaptureAlwaysOwn`: `Spec => []CaptureIsOwn`, from `OwnWhileRunning`: while a command
  runs, what is recorded is what it heard, also when the command before it
  returned early and left the recording on.
* `MeasuredAlwaysRight`: `Spec => []MeasuredRight`. `Measuring` carries the measurement
  along: without a pause the bytes are the rate times the time since the first
  wave (`Counted`), a settled format has the rate of the server until its clock
  wraps (`Settled`), and a recorded wave that came late enough finds it settled
  (`InTime`). `NearestFormatRight` turns the count into the rate, `ElapsedRight`
  and `DivMonotone` deal with timestamps that wrap. That sound which is audible
  has a loud wave is `TotalBound`, an induction over the recorded waves.

### Induction

The induction theorems of the library take an operator as a parameter and cannot
be used. Two lemmas of `AudioProofs` stand in for them where an induction is
needed (one of `InputProofs` does the work of both): `NatMin`, since the initial segments of the naturals are finite sets, on
which the strict subset is well founded, and `UpTo`, induction over the set of
numbers for which a claim holds. `SumsExist` uses it to show that a recursive
function of sums exists, `TotalBound` to compare two sums, `ErrorsOfFirst` to add
the errors of a grid. The other proofs need no induction but that over
steps: their invariants speak of positions. That is why `Input` makes its events one
operation at a time, as `input.rs` does, and not by a fold over a gesture.

### What stays with TLC

* Liveness: `Terminates`, `HandshakeCompletes`, `PasteAnswered`, `ExecFinishes`,
  `RecvFinishes`, `PasteFinishes`, `WaitsEnd`, `ScanEnds`, `ReplEnds`, `PeerLossNoticed`:
  with fairness and ENABLED out of the prover's reach.
* `ImplementsCanvas`: cells of flat buffers, addressed by products and quotients of
  variables, and fills and copies that fold over lists of rectangles.
* `GridMeasured`: which marker is found is a minimum over what the page shows.
* `ReplaysAsRecorded`, `PlainTextSurvives`: computed by printing, tokenizing and parsing
  commands of any length with recursive operators, of which the prover sees
  nothing, and whose results only an induction over the text could give.
* `NeverPanics` is violated.

## Disagreements met

Kept as a run, and quoted under `findings`: a panic over a shorter file.

Where the code departs from what is said of it in another way, the property of the
passing run states what the code does, exactly, and names the line it departs
from: it would fail if the code did more, or less, than that.

| Departure | Stated by |
|---|---|
| exit status 0 for a chain that the server cut short (`exit-codes.md:34`), failure over an error between the attempts of a soft command (`exit-codes.md:40-44`) | `CutShort` and `FailInPause` of `ChainContract` |
| `wait-still` does not hear EGFX frames (`help.rs:568`) | `StillEarned` |
| rows that stick out wrap, RemoteFX loses its rows (`gfx.rs:265`) | `Canvas` |
| on a pipe `quit` ends nothing and `!` runs nothing (`help.rs:1251-1255`) | `EndsAsAsked`, `AllOf` in `RunsWhatWasTyped` |
| a gesture lets go of a key that a `keydown` put down, and a `keyup` does nothing for one stranded before (`help.rs:167-168`) | `LeftDown` in `ArrivesAsAsked` |
| every cell of a grid is measured at the first marker, and later clicks are off by the mean distance of the targets from the first (`calibrate-clicks.md:10-11, 37-38`) | `GridMeasured`, `ClickLands` |
| a play takes the time of its commands twice (`help.rs:1003`), loses options, and ends at a `calibrate` or `timelapse` (`record-replay.md:67-69`) | `ReplaysAsRecorded` |
| any eight bytes of data are taken for a size (`clipboard.rs:235`) | `FailsForCause` |

More was met on the way:

* Chain: an error in the pause between two attempts loses the JUnit report;
  `soft` inside a script file does nothing; a recording drops modifiers.
* Clipboard: the late answer to a get-clipboard that gave up is taken by the
  next one (`session.rs:1066`; `GetCurrent` says what holds instead); a text
  copied on the server while ours is being announced leaves both sides
  believing they own the clipboard; a staged file is offered again only by
  another command, and its offer is withdrawn by a late handshake; a line to the
  REPL, typed or piped, loses a clipboard or file answer under way, and the program
  on the server that asked goes on waiting.
* Files: an announced size is reserved before anything has come
  (`session.rs:1560`); a copy on the server during a
  transfer makes `clipboard-recv-file` save a mixture of two files, and a file
  staged during a paste does the same on the server.
* Waits: `capture`
  refuses a screen that RemoteFX alone has drawn as blank
  (`rdpdo.rs:419`); `rdpsee shot`, which asks for content, saves it.
* Graphics: fills and copies do not set the content flag, which the comment at
  `session.rs:644` does not say; a reset keeps it over a blank framebuffer;
  RemoteFX is not written to the surface, so a later copy from it is stale.
* Scan: a target that drops packets can end the scan with exit status 1 and no
  row (`rdpsee.rs:308`; `docs/reference/exit-codes.md:19-20` lists it as
  unreachable); what follows the header of an answer is read without a timeout
  (`probe.rs:277`); an unknown word in `--expect` is found after the scan, and
  only with `--ci`; `docs/how-to/scan-subnet-ci.md:43` speaks of reachable hosts
  where every target has to pass.
* REPL: a line that comes during a reactivation drops it for good, and the
  server goes on waiting for the client (`rdpdo.rs:2220`, `2322`); when
  the peer is gone the rest of a pipe is skipped and the command succeeds;
  `disconnect` only sets a flag, and commands after it still reach the server;
  `reconnect` drops the calibration offset; `retry` and `soft` do nothing.
* Input: a failing `--hold-ms` leaves its keys down (`session.rs:866`), and a `type`
  cut short leaves the injector believing in a key-up that was never sent; `key !`
  presses `1` without shift.
* Calibration: a marker that is not found counts as a click
  that landed exactly; the help names `--deploy` methods that the code refuses.
* Audio: `help.rs:737` speaks of windows of 250 ms, but the mean is taken over
  everything since the command began, so silence drowns a late sound; a pause
  of the server or the wrap of its clock before the rate is measured labels a
  capture with a wrong format, and 22050 Hz stereo cannot be told from 44100 Hz
  mono; a capture of silence succeeds with an empty file once any wave came.
* Recorder: `docs/how-to/record-replay.md:28-29` calls recording and script
  interchangeable, which a `calibrate` or `timelapse` is not; the options of needles, tags, directories, labels, profiles, `--verify` and the
  tolerances of `find-color` and `baseline check` are not recorded; a tolerance
  above 100 is divided by 100 twice; passwords are recorded as asterisks.
* Scripts: a quote in an argument is written with a backslash that the tokenizer
  does not know (`recorder.rs:128`), empty arguments, tabs and newlines are not
  quoted at all, and `{width}` in recorded text is replaced;
  `timelapse x --count` without a number indexes past the end of the command line.
* Login: `{domain}` is typed as it stands, since no domain is ever passed; profiles do
  not quote the password, which the script reader may split, and resolve it a
  second time.

## Not modelled

* Connecting (`connection.rs`): a fixed sequence of library calls (TLS, CredSSP,
  capabilities) without choice or retry. The models start at its result.
* Matching of images, needles, checksums and colours, and what a PNG holds: numeric
  work on images without state.
* Reports and fingerprints: formatting and hashing. What goes into the JUnit
  report is part of `Chain`.
* The texts of the help (`help.rs`), the reading of options before the commands, PDUs,
  certificates, TLS, the external provisioning command, paths and file names.
* `audio-verify` and the bytes of a WAV file; regions, the second axis and the error
  figures of a calibration profile; the dimensions of a frame, which `pixel` and
  regions read (`rdpdo.rs:985`).
* The polling commands that repeat the loop of `expect` or `waitfor` with another
  test; variables of the REPL.

## Plan

Every safety invariant that a run checks is proved, but for those of `replay`,
`GridMeasured` and the refinement of `screen`. To come, in this order:

1. `Screen`: that a blit within the width of its buffer changes the cells of its
   rectangle and no others, and from it the refinement of `Canvas`.
2. `Repl` composed with `Chain` (`LeaveSession`): the session command as one step.
3. The invariants of the clipboard's handshake and of `exec` that the liveness
   properties rest on, as far as they are safety.
4. `Script`: the tokenizer as a step for each character, so that `PlainTextSurvives`
   can be proved as `ArrivesAsAsked` is.
