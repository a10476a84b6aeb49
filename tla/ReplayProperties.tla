--------------------------- MODULE ReplayProperties ---------------------------
(* What recordings, scripts and profiles promise (recorder.rs, script.rs,   *)
(* provision.rs, rdpdo.rs).                                                 *)
EXTENDS Replay

\* The recorder leaves these out, so a replay runs with their defaults.
Forgotten(slot, value) ==
    CASE slot.kind = "flags" -> [f \in DOMAIN value |-> Absent]
      [] slot.kind = "pair"  -> Absent
      [] slot.kind = "share" -> NormalizeTolerance(value)
      [] OTHER               -> value

\* A command as the recording gives it back.
AsRecorded(c) ==
    LET plain == [c EXCEPT !.args = [i \in DOMAIN @ |-> Forgotten(Slots[c.verb][i], @[i])]]
    IN  CASE c.verb = "type-password" -> [plain EXCEPT !.args[1] = Redacted]
          [] c.verb \in {"login", "unlock"} -> [plain EXCEPT !.args[2] = Redacted]
          [] c.verb = "find-color" -> [plain EXCEPT !.args = <<@[1], Absent, 30 * One, 3 * One>>]
          [] c.verb = "baseline check" -> [plain EXCEPT !.args[2] = 9500]
          [] OTHER -> plain

\* What is recorded of these is not a command: the words of their flags are left
\* out, and what remains is in error.
Unreadable(c) == c.verb \in {"calibrate", "timelapse"}

Kept == SelectSeq(ran, LAMBDA c : c.verb \notin NotRecorded)

\* The commands replayed so far are the first of those recorded, as the recording
\* gives them back.
ReplayedKept ==
    /\ Len(replayed) <= Len(Kept)
    /\ \A i \in DOMAIN replayed : replayed[i].command = AsRecorded(Kept[i])

\* When the i-th command would begin if those before it took no time: the times
\* between the recorded commands, at the speed the recording is played at.
Between(i) ==
    MapThenSumSet(LAMBDA k : (recording[k].t - (IF k = 1 THEN 0 ELSE recording[k - 1].t)) \div speed, 1..i)

\* How long the commands replayed before the i-th have taken.
Taken(i) == MapThenSumSet(LAMBDA k : Takes(replayed[k].command), 1..(i - 1))

\* A recording that is played runs the commands of the chain, in order and once
\* each: exactly what AsRecorded makes of each, up to the first calibrate or
\* timelapse, and there, and only there, the play ends in an error.  Each begins
\* when the recorded times between commands and the commands before it have passed.
\*   This is what the code does, not what is said of it.  help.rs:1003 promises the
\* "original timing", but the times between commands already hold what the commands took:
\* a play takes that time twice (`pause 2` comes to 4 s).  record-replay.md:67-69
\* promises "the same actions", but options are forgotten, tolerances above 1 are
\* divided again, and a calibrate or a timelapse ends the play.
ReplaysAsRecorded ==
    phase = "play" =>
      /\ ReplayedKept
      /\ \A i \in DOMAIN replayed : ~Unreadable(Kept[i])
      /\ \A i \in DOMAIN replayed : replayed[i].at = Between(i) + Taken(i)
      /\ ended = "done" => Len(replayed) = Len(Kept)
      /\ ended = "error" => event = Len(replayed) + 1 /\ Unreadable(Kept[event])

-------------------------------------------------------------------------------
\* Text that a line carries unchanged.
Plain(text) == text # <<>> /\ \A a \in {"tab", "nl", "quote", "open"} : ~Has(text, a)
OneWord(text) == Plain(text) /\ ~Has(text, "sp")

\* A converted script runs the same commands as the recording, if all that was
\* recorded is plain text; it is refused as a whole exactly if it holds a calibrate
\* or a timelapse.  (record-replay.md:28-29 calls the two interchangeable.)
ConvertsFaithfully ==
    phase = "script" /\ (\A i \in DOMAIN recording : \A j \in DOMAIN recording[i].tokens :
                           Plain(recording[i].tokens[j])) =>
      /\ ReplayedKept
      /\ ended = "done" => Len(replayed) = Len(Kept)
      /\ ended # "lost" => (ended = "error") = \E i \in DOMAIN Kept : Unreadable(Kept[i])
      /\ ended = "error" => replayed = <<>>

\* The commands of the profile as it is written, with the values put in their
\* places after it was read.
Meant(given, verb) ==
    LET place(arg) == IF arg = Placeholder("username") THEN given.username
                      ELSE IF arg = Placeholder("password") THEN given.password ELSE arg
        written == ParseLines(Wanted(Profile[verb])).commands
    IN  [i \in DOMAIN written |->
           IF written[i].verb \in {"type", "type-password"}
           THEN [written[i] EXCEPT !.args[1] = place(@)] ELSE written[i]]

\* login and unlock type what they were given, if it is plain text and the
\* password, which the profiles do not quote, is one word.
LoginAsGiven ==
    login.done /\ Plain(login.given.username) /\ OneWord(login.given.password) =>
      login.ok /\ login.commands = Meant(login.given, login.verb)

\* Text without the characters that scripts give a meaning to comes through them.
PlainTextSurvives == ConvertsFaithfully /\ LoginAsGiven
===============================================================================
