---------------------------- MODULE ChainContract ----------------------------
(* A rdpdo chain seen from outside: the verdicts of its commands and the exit *)
(* status, exactly as the program decides them. `Conclude`, `Succeed`,        *)
(* `FailByCommand` and `FailOutside` are what docs/reference/exit-codes.md    *)
(* says. The two ways in which the program departs from that document are     *)
(* actions of their own, `CutShort` and `FailInPause`, so that nothing else   *)
(* of the document is given up for them.                                      *)
EXTENDS ChainSyntax

CONSTANT Chains

VARIABLES chain,    \* the parsed chain
          verdict,  \* how each position concluded
          lost,     \* the server has been seen to have gone away
          result    \* "running", or what decided the exit status

cvars == <<chain, verdict, lost, result>>

CInit ==
  /\ chain \in Chains
  /\ verdict = [i \in 1..Len(chain) |-> "none"]
  /\ lost = FALSE
  /\ result = "running"

NoFailure == \A i \in Work(chain) : verdict[i] # "fail"
AllConcluded == \A i \in Work(chain) : verdict[i] # "none"
NothingYet == \A i \in Work(chain) : verdict[i] = "none"

\* Position i is where the chain stands.
Current(i) == \A j \in Work(chain) : verdict[j] # "none" <=> j < i

\* Position i concludes: every command before it has, and none failed hard.
Conclude(i, v) ==
  /\ result = "running" /\ NoFailure
  /\ Current(i)
  /\ v = "softfail" => SoftAt(chain, i)
  /\ v = "fail" => ~SoftAt(chain, i)
  /\ verdict' = [verdict EXCEPT ![i] = v]
  /\ result' \in {result} \cup IF v = "fail" THEN {"command"} ELSE {}
  /\ UNCHANGED chain

\* "0 when every command succeeds", a soft failure counting as success
\* (exit-codes.md:34, 40-42).
Succeed ==
  /\ result = "running" /\ NoFailure /\ AllConcluded
  /\ result' = "ok"
  /\ UNCHANGED <<chain, verdict>>

\* "1 when any command fails" (exit-codes.md:35).
FailByCommand ==
  /\ result = "running" /\ ~NoFailure
  /\ result' = "command"
  /\ UNCHANGED <<chain, verdict>>

\* The other ways to end with 1: the connection cannot be established, before
\* anything was done; the overall timeout, at any time; a file that cannot be
\* written; a `session` whose input cannot be read.
FailOutside ==
  /\ result = "running"
  /\ \/ result' = "connect" /\ NothingYet
     \/ result' = "timeout"
     \/ result' = "record" /\ NoFailure /\ \E i \in Work(chain) : Current(i)
     \/ result' = "junit"
     \/ result' = "session" /\ NoFailure
          /\ \E i \in 1..Len(chain) : chain[i].op = "session" /\ Current(i)
  /\ UNCHANGED <<chain, verdict>>

\* Departure from exit-codes.md:34 and rdpdo.1:308-309: once the server is seen
\* to be gone the rest of the chain is skipped, and the status is 0 although
\* the commands in it never ran (rdpdo.rs:148-151).
CutShort ==
  /\ result = "running" /\ NoFailure
  /\ lost /\ ~AllConcluded
  /\ result' = "ok"
  /\ UNCHANGED <<chain, verdict>>

\* Departure from exit-codes.md:40-44: an error in the pause between two
\* attempts ends the chain, whether or not the command is soft and though
\* attempts are left (rdpdo.rs:199). Only a command with a retry has a pause.
FailInPause ==
  /\ result = "running" /\ NoFailure
  /\ \E i \in Work(chain) :
       /\ Current(i)
       /\ \E j \in 1..Len(chain) : chain[j].n > 1 /\ RetryBinds(chain, i, chain[j].n)
  /\ result' = "pause"
  /\ UNCHANGED <<chain, verdict>>

\* Time passes, or the server comes, goes, or is replaced by a reconnect.
Idle == result = "running" /\ UNCHANGED <<chain, verdict, result>>

CNext ==
  /\ lost' \in BOOLEAN
  /\ \/ \E i \in Work(chain), v \in {"pass", "softfail", "fail"} : Conclude(i, v)
     \/ Succeed \/ FailByCommand \/ FailOutside
     \/ CutShort \/ FailInPause
     \/ Idle

CSpec == CInit /\ [][CNext]_cvars
==============================================================================
