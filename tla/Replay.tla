-------------------------------- MODULE Replay --------------------------------
(***************************************************************************)
(* A chain is parsed, run and recorded; then the recording is played, or   *)
(* converted to a script that is run (rdpdo.rs dispatch_command_inner, the *)
(* arms Play, Run, BootSequence, Login and Unlock; main's arm Convert).    *)
(***************************************************************************)
EXTENDS Script

CONSTANTS
    Inputs,         \* the pieces a command line is put together from
    MaxInputs,      \* bound: pieces of a command line
    Profile,        \* verb -> the text of the profile that login and unlock run
    Passwords,      \* what resolve_password may find
    Speeds,         \* the speeds a recording is played at
    Takes(_),       \* ticks a command takes
    Thinking        \* ticks that pass before a command

ASSUME SpeedAssumption == Speeds \subseteq Nat \ {0}

VARIABLES
    phase,      \* "chain" | "stopped" | "play" | "script"
    todo,       \* the commands of the chain, or of the script, still to dispatch
    ran,        \* the commands the chain has dispatched
    recording,  \* the events on disk
    now,        \* the time in the run under way
    speed,      \* of the play under way
    event,      \* the event the play has come to
    replayed,   \* the commands play or run dispatched, with the time each began
    ended,      \* "" | "done" | "error" | "lost": how the replay ended
    login       \* the last login or unlock: what it was given, what it dispatches

vars == <<phase, todo, ran, recording, now, speed, event, replayed, ended, login>>

NoLogin == [done |-> FALSE]

Init ==
    /\ \E n \in 1..MaxInputs : \E parts \in [1..n -> Inputs] :
         LET parsed == ParseCommands(FlattenSeq([i \in 1..n |-> parts[i]]))
         IN  parsed.ok /\ todo = parsed.commands
    /\ phase = "chain"
    /\ ran = <<>> /\ recording = <<>> /\ replayed = <<>>
    /\ now = 0 /\ speed = 1 /\ event = 1 /\ ended = "" /\ login = NoLogin

\* login and unlock run a profile with what they were given put into its text:
\* the password once it is resolved, and, for login, the user's name.  The command
\* line never gives a domain.
Placeholders(verb) ==
    IF verb = "login" THEN {<<"username", "password">>, <<"password", "username">>}
                      ELSE {<<"password">>}

Expand(c) ==
    IF c.verb \in {"login", "unlock"}
    THEN \E password \in Passwords, names \in Placeholders(c.verb) :
           LET values == [username |-> c.args[1], password |-> password]
           IN  login' = [done |-> TRUE, verb |-> c.verb, given |-> values]
                        @@ ProfileCommands(Profile[c.verb], names, values)
    ELSE UNCHANGED login

\* The chain records a command just before it runs it.
Dispatch ==
    /\ phase = "chain" /\ todo # <<>>
    /\ \E wait \in Thinking :
         LET c == todo[1] start == now + wait
         IN  /\ recording' = IF c.verb \in NotRecorded THEN recording
                             ELSE Append(recording, Event(c, start))
             /\ now' = start + Takes(c)
    /\ ran' = Append(ran, todo[1])
    /\ Expand(todo[1])
    /\ todo' = Tail(todo)
    /\ UNCHANGED <<phase, speed, event, replayed, ended>>

\* The chain ends, or is stopped: every event is flushed as it is written.
Stop ==
    /\ phase = "chain"
    /\ phase' = "stopped" /\ todo' = <<>> /\ now' = 0
    /\ UNCHANGED <<ran, recording, speed, event, replayed, ended, login>>

-------------------------------------------------------------------------------
\* A recording without events is refused.
Play(s) ==
    /\ phase = "stopped" /\ recording # <<>>
    /\ phase' = "play" /\ speed' = s
    /\ UNCHANGED <<todo, ran, recording, now, event, replayed, ended, login>>

LastT == IF event = 1 THEN 0 ELSE recording[event - 1].t

\* What is waited before an event: the time from the event before it.
Delay == (recording[event].t - LastT) \div speed

\* What an event says is dispatched, or the play ends in its error.
Replays(parsed, start) ==
    IF parsed.ok
    THEN /\ replayed' = replayed \o [i \in DOMAIN parsed.commands |->
                                      [command |-> parsed.commands[i], at |-> start]]
         /\ now' = start + FoldLeft(LAMBDA t, c : t + Takes(c), 0, parsed.commands)
         /\ event' = event + 1
         /\ UNCHANGED ended
    ELSE /\ ended' = "error"
         /\ now' = start
         /\ UNCHANGED <<replayed, event>>

\* The next event: wait, parse its tokens, dispatch what they say.
PlayEvent ==
    /\ phase = "play" /\ ended = "" /\ event <= Len(recording)
    /\ Replays(ParseCommands(recording[event].tokens), now + Delay)
    /\ UNCHANGED <<phase, todo, ran, recording, speed, login>>

PlayEnds ==
    /\ phase = "play" /\ ended = "" /\ event > Len(recording)
    /\ ended' = "done"
    /\ UNCHANGED <<phase, todo, ran, recording, now, speed, event, replayed, login>>

Runs(parsed) ==
    IF parsed.ok THEN todo' = parsed.commands /\ UNCHANGED ended
                 ELSE ended' = "error" /\ UNCHANGED todo

\* convert, then run: the script is parsed to its end before anything of it is
\* dispatched.
RunConverted ==
    /\ phase = "stopped" /\ recording # <<>>
    /\ Runs(ParseScript(ConvertToScript(recording)))
    /\ phase' = "script"
    /\ UNCHANGED <<ran, recording, now, speed, event, replayed, login>>

RunCommand ==
    /\ phase = "script" /\ ended = "" /\ todo # <<>>
    /\ replayed' = Append(replayed, [command |-> todo[1], at |-> now])
    /\ now' = now + Takes(todo[1])
    /\ todo' = Tail(todo)
    /\ UNCHANGED <<phase, ran, recording, speed, event, ended, login>>

RunEnds ==
    /\ phase = "script" /\ ended = "" /\ todo = <<>>
    /\ ended' = "done"
    /\ UNCHANGED <<phase, todo, ran, recording, now, speed, event, replayed, login>>

\* The server goes, which the loop looks for before every event and command, or
\* a command fails, which ends it at once.
Abandon ==
    /\ phase \in {"play", "script"} /\ ended = ""
    /\ ended' = "lost"
    /\ UNCHANGED <<phase, todo, ran, recording, now, speed, event, replayed, login>>

Next ==
    \/ Dispatch \/ Stop
    \/ \E s \in Speeds : Play(s)
    \/ PlayEvent \/ PlayEnds
    \/ RunConverted \/ RunCommand \/ RunEnds
    \/ Abandon

Spec == Init /\ [][Next]_vars
===============================================================================
