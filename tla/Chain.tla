-------------------------------- MODULE Chain --------------------------------
(* The command chain runner: `run_cli` and `run` of src/rdpdo.rs, the script  *)
(* loops of `dispatch_command_inner`, and what they leave behind: the exit    *)
(* status, the JUnit report and the recording.                                *)
(*                                                                            *)
(* One task runs the chain, so a step here is the code between two awaits, or *)
(* one command. What a command does is abstracted to how its future resolves  *)
(* and whether it found the connection closed (`peer_disconnected`, which     *)
(* only code that reads the connection can set). An operator named Mut... is a *)
(* slip in the operator after it; it is there to show that a property fails.  *)
EXTENDS ChainSyntax

CONSTANT Chains   \* the chains considered

ASSUME ChainsAssumption == Chains \subseteq Seq(Token)

VARIABLES
  chain, cli,            \* parsed once; cli.junit and cli.record are the flags
  pc, pos, inner,        \* where `run` is; position in the chain, in a script
  pendingRetry, pendingSoft,           \* set by a modifier, taken by a command
  attempt, attempts, isSoft, lastErr,  \* the command at pos
  peerDown,              \* session.peer_disconnected()
  chainError,            \* "none", or the error the loop stopped on
  softFailures, testcases, recorded,   \* accumulated in the loop
  junitFile, closed,     \* the report as written; session.shutdown() was called
  result,                \* what `run` (or the timeout around it) resolved to
  tries, verdict         \* history: dispatches and outcome of each position

loop   == <<pendingRetry, pendingSoft>>
cmd    == <<attempt, attempts, isSoft, lastErr>>
output == <<softFailures, testcases, recorded, junitFile, closed>>
ghost  == <<tries, verdict>>
vars   == <<chain, cli, pc, pos, inner, loop, cmd, peerDown, chainError,
            output, result, ghost>>

Errors == {"connect", "command", "session", "pause", "record", "junit", "timeout"}
Verdicts == {"none", "pass", "softfail", "fail"}
Cli == [junit : BOOLEAN, record : BOOLEAN]

Init ==
  /\ chain \in Chains /\ cli \in Cli
  /\ pc = "start" /\ pos = 1 /\ inner = 0
  /\ pendingRetry = 0 /\ pendingSoft = FALSE
  /\ attempt = 0 /\ attempts = 0 /\ isSoft = FALSE /\ lastErr = FALSE
  /\ peerDown = FALSE /\ chainError = "none"
  /\ softFailures = <<>> /\ testcases = <<>> /\ recorded = <<>>
  /\ junitFile = "none" /\ closed = FALSE
  /\ result = "running"
  /\ tries = [i \in 1..Len(chain) |-> 0]
  /\ verdict = [i \in 1..Len(chain) |-> "none"]

ExitCode == IF result = "ok" THEN 0 ELSE 1

Exhausted == pos > Len(chain)
Cur == chain[pos]

\* `return Err(e)` or `?` in `run`: nothing after it is reached.
Return(r) == pc' = "done" /\ result' = r

\* The connection may turn out to be closed while a future reads it.
MayLosePeer == peerDown' \in {peerDown, TRUE}

------------------------------------------------------------------------------
(* Before the loop. *)

Start ==
  /\ pc = "start"
  /\ pc' = IF OfflineOnly(chain) THEN "offline" ELSE "connect"
  /\ UNCHANGED <<chain, cli, pos, inner, loop, cmd, peerDown, chainError,
                 output, result, ghost>>

\* A chain of offline commands only: no connection, no report, no recording.
OfflineEnd ==
  /\ pc = "offline" /\ Exhausted
  /\ Return("ok")
  /\ UNCHANGED <<chain, cli, pos, inner, loop, cmd, peerDown, chainError,
                 output, ghost>>

OfflineStep ==
  /\ pc = "offline" /\ ~Exhausted
  /\ tries' = [tries EXCEPT ![pos] = @ + 1]
  /\ \/ /\ verdict' = [verdict EXCEPT ![pos] = "pass"]
        /\ pos' = pos + 1
        /\ UNCHANGED <<pc, result>>
     \/ /\ verdict' = [verdict EXCEPT ![pos] = "fail"]
        /\ Return("command")
        /\ UNCHANGED pos
  /\ UNCHANGED <<chain, cli, inner, loop, cmd, peerDown, chainError, output>>

\* Connecting, calibration, the first frame, the recorder: any `?` ends the
\* run; waiting for the frame may find the server gone.
Connect ==
  /\ pc = "connect"
  /\ \/ Return("connect") /\ UNCHANGED peerDown
     \/ pc' = "top" /\ MayLosePeer /\ UNCHANGED result
  /\ UNCHANGED <<chain, cli, pos, inner, loop, cmd, chainError, output, ghost>>

------------------------------------------------------------------------------
(* The head of the loop. *)

MutTakeModifiers == pendingRetry' = 0 /\ UNCHANGED pendingSoft
\* std::mem::take on both pending modifiers (and the reset before a session).
TakeModifiers == pendingRetry' = 0 /\ pendingSoft' = FALSE

MutAttemptsExtra == pendingRetry + 1
MutAttemptsUnderflow == pendingRetry - 1
\* retry_count.max(1)
AttemptsAllowed == IF pendingRetry = 0 THEN 1 ELSE pendingRetry

\* The loop is over: the chain is exhausted, or the server was seen to leave.
LeaveLoop ==
  /\ pc = "top"
  /\ Exhausted \/ peerDown
  /\ pc' = "report"
  /\ UNCHANGED <<chain, cli, pos, inner, loop, cmd, peerDown, chainError,
                 output, result, ghost>>

AtCommand == pc = "top" /\ ~Exhausted /\ ~peerDown

TakeModifier ==
  /\ AtCommand /\ IsModifier(Cur)
  /\ IF Cur.op = "retry"
     THEN pendingRetry' = Cur.n /\ UNCHANGED pendingSoft
     ELSE pendingSoft' = TRUE /\ UNCHANGED pendingRetry
  /\ pos' = pos + 1
  /\ UNCHANGED <<chain, cli, pc, inner, cmd, peerDown, chainError, output,
                 result, ghost>>

EnterSession ==
  /\ AtCommand /\ Cur.op = "session"
  /\ TakeModifiers
  /\ pc' = "repl"
  /\ UNCHANGED <<chain, cli, pos, inner, cmd, peerDown, chainError, output,
                 result, ghost>>

\* The REPL ends when its input does. Only its piped form can fail (stdin);
\* its `reconnect` replaces the session by one that is up.
LeaveSession ==
  /\ pc = "repl"
  /\ \/ pc' = "top" /\ pos' = pos + 1 /\ UNCHANGED chainError
     \/ pc' = "report" /\ chainError' = "session" /\ UNCHANGED pos
  /\ peerDown' \in BOOLEAN
  /\ UNCHANGED <<chain, cli, inner, loop, cmd, output, result, ghost>>

Recordable == cli.record /\ Cur.op \notin Unrecorded

Begin ==
  /\ AtCommand /\ pos \in Work(chain)
  /\ TakeModifiers
  /\ isSoft' = pendingSoft
  /\ attempts' = AttemptsAllowed
  /\ attempt' = 1
  /\ lastErr' = FALSE
  /\ \/ /\ pc' = "dispatch"
        /\ recorded' = IF Recordable THEN Append(recorded, pos) ELSE recorded
        /\ UNCHANGED result
     \/ Recordable /\ Return("record") /\ UNCHANGED recorded
  /\ UNCHANGED <<chain, cli, pos, inner, peerDown, chainError, softFailures,
                 testcases, junitFile, closed, ghost>>

------------------------------------------------------------------------------
(* One attempt at the command. *)

\* The match on the dispatched command's result, inside the attempt loop.
Resolve(ok) ==
  /\ lastErr' = ~ok
  /\ inner' = 0
  /\ pc' = IF ~ok /\ attempt < attempts THEN "pause" ELSE "judge"
  /\ UNCHANGED <<chain, cli, pos, loop, attempt, attempts, isSoft, chainError,
                 output, result>>

Dispatch ==
  /\ pc = "dispatch" /\ Cur.op \notin Scripts
  /\ \E ok \in BOOLEAN : Resolve(ok)
  /\ IF Cur.op \in Offline THEN UNCHANGED peerDown ELSE MayLosePeer
  /\ tries' = [tries EXCEPT ![pos] = @ + 1]
  /\ UNCHANGED verdict

\* The file is read and parsed anew on every attempt.
OpenScript ==
  /\ pc = "dispatch" /\ Cur.op \in Scripts
  /\ tries' = [tries EXCEPT ![pos] = @ + 1]
  /\ \/ Resolve(FALSE)
     \/ /\ pc' = "script" /\ inner' = 1
        /\ UNCHANGED <<chain, cli, pos, loop, cmd, chainError, output, result>>
  /\ UNCHANGED <<peerDown, verdict>>

\* Out of commands, or the server left: either way the script is Ok.
CloseScript ==
  /\ pc = "script"
  /\ inner > Len(Cur.body) \/ peerDown
  /\ Resolve(TRUE)
  /\ UNCHANGED <<peerDown, ghost>>

\* A modifier or `session` in a file reaches the arm that does nothing; only
\* `play` keeps the time between two events, which reads the connection.
ScriptStep ==
  /\ pc = "script" /\ inner <= Len(Cur.body) /\ ~peerDown
  /\ LET real == Cur.body[inner] = "exec" \/ Cur.op = "play"
     IN  /\ IF real THEN MayLosePeer ELSE UNCHANGED peerDown
         /\ \/ /\ inner' = inner + 1
               /\ UNCHANGED <<chain, cli, pc, pos, loop, cmd, chainError,
                              output, result>>
            \/ real /\ Resolve(FALSE)
  /\ UNCHANGED ghost

\* session.run_for(500ms).await? between attempts: a session error here leaves
\* `run` at once, past the report and the disconnect.
Pause ==
  /\ pc = "pause"
  /\ \/ Return("pause") /\ UNCHANGED <<peerDown, attempt>>
     \/ /\ pc' = "dispatch" /\ attempt' = attempt + 1
        /\ MayLosePeer /\ UNCHANGED result
  /\ UNCHANGED <<chain, cli, pos, inner, loop, attempts, isSoft, lastErr,
                 chainError, output, ghost>>

MutStop == chainError' = "command" /\ pc' = "top" /\ pos' = pos + 1
\* A hard failure breaks out of the loop, which still reports and disconnects.
Stop == chainError' = "command" /\ pc' = "report" /\ UNCHANGED pos

MutTestcase == [pos |-> pos, ok |-> isSoft \/ ~lastErr]
Testcase == [pos |-> pos, ok |-> ~lastErr]

\* After the last attempt: the verdict, its test case, and whether to go on.
Judge ==
  /\ pc = "judge"
  /\ LET v == IF ~lastErr THEN "pass" ELSE IF isSoft THEN "softfail" ELSE "fail"
     IN  /\ verdict' = [verdict EXCEPT ![pos] = v]
         /\ IF v = "fail"
            THEN Stop
            ELSE pc' = "top" /\ pos' = pos + 1 /\ UNCHANGED chainError
         /\ softFailures' = IF v = "softfail" THEN Append(softFailures, pos)
                            ELSE softFailures
         /\ testcases' = IF cli.junit THEN Append(testcases, Testcase) ELSE testcases
  /\ UNCHANGED <<chain, cli, inner, loop, cmd, peerDown, recorded, junitFile,
                 closed, result, tries>>

------------------------------------------------------------------------------
(* After the loop. *)

WritesReport == cli.junit

Report ==
  /\ pc = "report"
  /\ \/ /\ pc' = "shutdown"
        /\ junitFile' = IF WritesReport THEN "written" ELSE junitFile
        /\ UNCHANGED result
     \/ WritesReport /\ Return("junit") /\ UNCHANGED junitFile
  /\ UNCHANGED <<chain, cli, pos, inner, loop, cmd, peerDown, chainError,
                 softFailures, testcases, recorded, closed, ghost>>

MutOutcome == IF chainError = "none" \/ softFailures # <<>> THEN "ok" ELSE chainError
Outcome == IF chainError = "none" THEN "ok" ELSE chainError

Shutdown ==
  /\ pc = "shutdown"
  /\ closed' = TRUE
  /\ Return(Outcome)
  /\ UNCHANGED <<chain, cli, pos, inner, loop, cmd, peerDown, chainError,
                 softFailures, testcases, recorded, junitFile, ghost>>

MutAwaitPoints == {"connect", "dispatch", "script", "pause", "shutdown"}
\* tokio::time::timeout drops `run` wherever it awaits; nothing else runs.
AwaitPoints == {"connect", "repl", "dispatch", "script", "pause", "shutdown"}

Timeout ==
  /\ pc \in AwaitPoints
  /\ Return("timeout")
  /\ UNCHANGED <<chain, cli, pos, inner, loop, cmd, peerDown, chainError,
                 output, ghost>>

------------------------------------------------------------------------------
Synchronous ==
  \/ Start \/ OfflineEnd \/ OfflineStep \/ LeaveLoop \/ TakeModifier
  \/ EnterSession \/ Begin \/ Judge \/ Report

Awaiting ==
  \/ Connect \/ LeaveSession \/ Dispatch \/ OpenScript \/ CloseScript
  \/ ScriptStep \/ Pause \/ Shutdown

Done == pc = "done" /\ UNCHANGED vars   \* process::exit

Next == Synchronous \/ Awaiting \/ Timeout \/ Done

Spec == Init /\ [][Next]_vars

\* Code between awaits runs to the next await, and the clock runs on. That an
\* awaited command, or a user at the REPL, ever comes back is not assumed.
FairSpec == Spec /\ WF_vars(Synchronous) /\ WF_vars(Timeout)
==============================================================================
