--------------------------- MODULE ChainProperties ---------------------------
(* What is claimed of the chain runner. *)
EXTENDS Chain

\* Every variable keeps its type, and the sequences only name chain positions.
TypeOK ==
  /\ chain \in Chains /\ cli \in Cli
  /\ pc \in AwaitPoints \cup {"start", "offline", "top", "judge", "report", "done"}
  /\ pos \in 1..(Len(chain) + 1) /\ inner \in Nat
  /\ pendingRetry \in Nat /\ pendingSoft \in BOOLEAN
  /\ attempt \in Nat /\ attempts \in Nat /\ isSoft \in BOOLEAN /\ lastErr \in BOOLEAN
  /\ peerDown \in BOOLEAN
  /\ chainError \in {"none", "command", "session"}
  /\ softFailures \in Seq(1..Len(chain)) /\ recorded \in Seq(1..Len(chain))
  /\ testcases \in Seq([pos : 1..Len(chain), ok : BOOLEAN])
  /\ junitFile \in {"none", "written"} /\ closed \in BOOLEAN
  /\ result \in {"running", "ok"} \cup Errors
  /\ tries \in [1..Len(chain) -> Nat]
  /\ verdict \in [1..Len(chain) -> Verdicts]

InCommand == pc \in {"dispatch", "script", "pause", "judge"}

\* n is the number of attempts the text of the chain grants position i.
Granted(i, n) ==
  \/ n > 0 /\ RetryBinds(chain, i, n)
  \/ n = 1 /\ RetryBinds(chain, i, 0)

\* The flags of the command at hand are those of the modifiers written directly
\* before it: none leaks past a command or a session, and none is lost on the
\* way (rdpdo.rs:154-177).
ModifiersBind ==
  InCommand => (isSoft <=> SoftAt(chain, pos)) /\ Granted(pos, attempts)

\* A verdict is earned: a failure, soft or not, is only recorded after exactly
\* as many dispatches as the chain grants, a pass after at least one and no
\* more than that, and the failure of a command not marked soft is never a
\* soft one or the other way round.
VerdictsEarned ==
  \A i \in Work(chain) :
    /\ verdict[i] = "pass" =>
         \E n \in {1} \cup {chain[j].n : j \in 1..Len(chain)} :
           Granted(i, n) /\ tries[i] \in 1..n
    /\ verdict[i] \in {"softfail", "fail"} => Granted(i, tries[i])
    /\ verdict[i] = "softfail" => SoftAt(chain, i)
    /\ verdict[i] = "fail" => ~SoftAt(chain, i)

Increasing(s) == \A a, b \in DOMAIN s : a < b => s[a] < s[b]

\* The JUnit report and the soft-failure summary say what happened: one test
\* case per concluded command, in chain order, with its outcome, however often
\* the command was retried.
ReportFaithful ==
  LET named == [k \in DOMAIN testcases |-> testcases[k].pos]
      concluded == {i \in Work(chain) : verdict[i] # "none"}
  IN  /\ cli.junit /\ ~OfflineOnly(chain) =>
           /\ Increasing(named)
           /\ {named[k] : k \in DOMAIN named} = concluded
           /\ \A k \in DOMAIN named : testcases[k].ok = (verdict[named[k]] = "pass")
      /\ Increasing(softFailures)
      /\ {softFailures[k] : k \in DOMAIN softFailures}
           = {i \in concluded : verdict[i] = "softfail"}

\* A recording holds each dispatched command once and in order, retried or not,
\* and nothing that was not reached.
RecordingFaithful ==
  LET named == {recorded[k] : k \in DOMAIN recorded}
      kept == {i \in Work(chain) : chain[i].op \notin Unrecorded}
  IN  /\ Increasing(recorded)
      /\ named \subseteq {i \in kept : i <= pos}
      /\ cli.record /\ ~OfflineOnly(chain) => {i \in kept : tries[i] > 0} \subseteq named

\* When the chain itself decides the exit status, the connection was closed
\* properly and the report asked for is on disk: a failing command never costs
\* the report that is to show it (rdpdo.rs:229-254).
EndsGracefully ==
  result \in {"ok", "command", "session"} /\ ~OfflineOnly(chain) =>
    closed /\ (cli.junit => junitFile = "written")

\* The three things a run leaves behind agree with what it did, whichever way it
\* went: the report with its summary, the recording, and a connection that was
\* closed (rdpdo.rs:179-254).
RunAccounted == ReportFaithful /\ RecordingFaithful /\ EndsGracefully

\* A command is dispatched only while it has no verdict and when every command
\* before it passed or failed softly: none is skipped, none runs after a hard
\* failure, none runs again.
InOrder ==
  [][\A i \in Work(chain) : tries'[i] # tries[i] =>
       /\ verdict[i] = "none"
       /\ \A j \in Work(chain) : j < i => verdict[j] \in {"pass", "softfail"}]_vars

\* Whatever hangs, the process exits: the overall timeout reaches every await.
Terminates == <>(pc = "done")

\* What the exit status stands for: 0 means that every command passed or failed
\* softly, or else that the server was seen to leave and the rest of the chain
\* was skipped; the only error a soft command can end the chain with is one in
\* the pause between its attempts. These two exceptions are not in
\* exit-codes.md (34, 40-44); ChainContract has each as an action of its own,
\* and every other end of a run is one that document describes.
Contract == INSTANCE ChainContract WITH lost <- peerDown
ImplementsContract == Contract!CSpec

==============================================================================
