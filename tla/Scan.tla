--------------------------------- MODULE Scan ---------------------------------
(* rdpsee scan: the probes of src/probe.rs, which run as tasks of their own,  *)
(* scan_many, which starts them in chunks and collects their reports, and the *)
(* verdict of scan_targets under the overall timeout (src/rdpsee.rs).         *)
(*                                                                            *)
(* A single target is probed by scan_targets itself, to the same effect.      *)
(* Targets are numbered in the order given. Time passes in ticks; timers that *)
(* run out in the same tick may fire in any order.                            *)
EXTENDS Integers, Sequences

CONSTANTS Targets,      \* how many there are
          MaxConcurrent, Timeout,
          Answers,      \* how servers answer the negotiation
          Capabilities  \* what --expect may name

ASSUME ScanAssumption ==
  /\ Targets \in Nat \ {0} /\ MaxConcurrent \in Nat \ {0} /\ Timeout \in Nat \ {0}
  /\ Capabilities \subseteq {"reachable", "tls", "nla", "egfx", "misspelt"}
  /\ Answers \subseteq {"hybrid-egfx", "hybrid", "ssl-egfx", "standard",
                         "needs-hybrid", "refuses-ssl"}

VARIABLES
  expected,       \* the capabilities of --expect, {} without --ci
  task, left,     \* each probe: where it is, and how long its timer still runs
  report,         \* what each probe returned
  chunk,          \* scan_many: the last target of the chunk under way
  reports,        \* collected so far
  overall,        \* what is left of the overall timeout
  result,         \* "running", or how the process ends
  truth           \* history: how each server really behaved

vars == <<expected, task, left, report, chunk, reports, overall, result, truth>>

All == 1..Targets
Report(i, reachable, security, nla, egfx) ==
  [server |-> i, reachable |-> reachable, security |-> security, nla |-> nla, egfx |-> egfx]
NoReport == Report(0, FALSE, "none", FALSE, FALSE)

Init ==
  /\ expected \in SUBSET Capabilities
  /\ task = [i \in All |-> "new"] /\ left = [i \in All |-> 0]
  /\ report = [i \in All |-> NoReport]
  /\ chunk = 0 /\ reports = <<>> /\ overall = Timeout /\ result = "running"
  /\ truth = [i \in All |-> "unknown"]

Running == result = "running"
Main == <<expected, chunk, reports, overall, result>>

------------------------------------------------------------------------------
(* One probe. *)

\* probe returns; whatever went wrong is a row of its own.
Returns(i, r) ==
  /\ report' = [report EXCEPT ![i] = r]
  /\ task' = [task EXCEPT ![i] = "done"] /\ left' = [left EXCEPT ![i] = 0]

Moves(i, to, timer) ==
  /\ task' = [task EXCEPT ![i] = to] /\ left' = [left EXCEPT ![i] = timer]
  /\ UNCHANGED report

Known(i, what) == truth' = [truth EXCEPT ![i] = what]

Connects(i) ==
  /\ Running /\ task[i] = "connecting"
  /\ Moves(i, "header", Timeout)
  /\ UNCHANGED <<Main, truth>>

\* Refused; the row says so.
Refuses(i) ==
  /\ Running /\ task[i] = "connecting"
  /\ Returns(i, [NoReport EXCEPT !.server = i])
  /\ Known(i, "refuses") /\ UNCHANGED Main

\* The header, within the timeout, of what the server will answer.
Header(i) ==
  /\ Running /\ task[i] = "header"
  /\ Moves(i, "body", 0)
  /\ UNCHANGED <<Main, truth>>

\* Garbage, a closed connection, or silence for too long: not an RDP server.
NotRdp(i) == Report(i, TRUE, "none", FALSE, FALSE)

NoAnswer(i) ==
  /\ Running /\ task[i] \in {"header", "body"}
  /\ Returns(i, NotRdp(i))
  /\ Known(i, "other") /\ UNCHANGED Main

\* The connect and the read of the header have a timeout each; the read of the
\* rest has none.
Timed(i) == task[i] \in {"connecting", "header"}

TimesOut(i) ==
  /\ Running /\ Timed(i) /\ left[i] = 0
  /\ IF task[i] = "connecting"
     THEN Returns(i, [NoReport EXCEPT !.server = i]) /\ Known(i, "drops")
     ELSE Returns(i, NotRdp(i)) /\ Known(i, "silent")
  /\ UNCHANGED Main

\* The confirm: the protocol chosen and its flags, or why the server refuses.
Confirmed(i, a) ==
  CASE a = "hybrid-egfx"  -> Report(i, TRUE, "HYBRID", TRUE, TRUE)
    [] a = "hybrid"       -> Report(i, TRUE, "HYBRID", TRUE, FALSE)
    [] a = "ssl-egfx"     -> Report(i, TRUE, "SSL", FALSE, TRUE)
    [] a = "standard"     -> Report(i, TRUE, "STANDARD_RDP_SECURITY", FALSE, FALSE)
    [] a = "needs-hybrid" -> Report(i, TRUE, "none", TRUE, FALSE)
    [] a = "refuses-ssl"  -> Report(i, TRUE, "none", FALSE, FALSE)

Confirm(i) ==
  /\ Running /\ task[i] = "body"
  /\ \E a \in Answers : Returns(i, Confirmed(i, a)) /\ Known(i, a)
  /\ UNCHANGED Main

------------------------------------------------------------------------------
(* scan_many and scan_targets. *)

ChunkEnd == IF chunk + MaxConcurrent < Targets THEN chunk + MaxConcurrent ELSE Targets

\* The reports of all the targets up to the chunk's end have been collected.
Collected == \A i \in 1..chunk : task[i] = "collected"

StartChunk ==
  /\ Running /\ Collected /\ chunk < Targets
  /\ chunk' = ChunkEnd
  /\ task' = [i \in All |-> IF i \in chunk + 1..chunk' THEN "connecting" ELSE task[i]]
  /\ left' = [i \in All |-> IF i \in chunk + 1..chunk' THEN Timeout ELSE left[i]]
  /\ UNCHANGED <<expected, report, reports, overall, result, truth>>

MutNextHandle(i) == task[i] = "done"
\* The handles are awaited in the order of the targets.
NextHandle(i) == task[i] = "done" /\ \A j \in 1..(i - 1) : task[j] = "collected"

Collect(i) ==
  /\ Running /\ NextHandle(i)
  /\ task' = [task EXCEPT ![i] = "collected"]
  /\ reports' = Append(reports, report[i])
  /\ UNCHANGED <<expected, left, report, chunk, overall, result, truth>>

MutMeets(r) ==
  /\ "reachable" \in expected => r.reachable
  /\ "nla" \in expected => r.nla
  /\ "egfx" \in expected => r.egfx
  /\ "tls" \in expected => r.security # "none"

Meets(r) ==
  /\ "reachable" \in expected => r.reachable
  /\ "nla" \in expected => r.nla
  /\ "egfx" \in expected => r.egfx
  /\ "tls" \in expected => r.security \notin {"none", "STANDARD_RDP_SECURITY"}

\* Rows have been printed when --expect is parsed.
Verdict ==
  /\ Running /\ Collected /\ chunk = Targets
  /\ result' = IF "misspelt" \in expected THEN "misspelt"
               ELSE IF \A k \in DOMAIN reports : Meets(reports[k]) THEN "ok" ELSE "unmet"
  /\ UNCHANGED <<expected, task, left, report, chunk, reports, overall, truth>>

\* The process exits with nothing printed; what is still probed never ends.
\* The timeout covers the whole of the scan, wherever it is suspended.
MutPatience == overall = 0 /\ \A i \in 1..chunk : task[i] = "collected"
Patience == overall = 0

OverallTimeout ==
  /\ Running /\ Patience /\ ~(Collected /\ chunk = Targets)
  /\ result' = "timeout"
  /\ truth' = [i \in All |->
       CASE task[i] = "connecting" -> "drops"
         [] task[i] = "header" -> "silent"
         [] task[i] = "body" -> "stalls"
         [] OTHER -> truth[i]]
  /\ UNCHANGED <<expected, task, left, report, chunk, reports, overall>>

\* A timer that has run out is acted on before time goes on, as is a handle
\* that is ready.
Due(i) == (Timed(i) /\ left[i] = 0) \/ NextHandle(i)

Tick ==
  /\ Running /\ ~Collected /\ overall > 0 /\ \A i \in All : ~Due(i)
  /\ overall' = overall - 1
  /\ left' = [i \in All |-> IF left[i] > 0 THEN left[i] - 1 ELSE 0]
  /\ UNCHANGED <<expected, task, report, chunk, reports, result, truth>>

Probe(i) ==
  Connects(i) \/ Refuses(i) \/ Header(i) \/ NoAnswer(i) \/ Confirm(i) \/ TimesOut(i)

Exited == ~Running /\ UNCHANGED vars

Next ==
  \/ \E i \in All : Probe(i) \/ Collect(i)
  \/ StartChunk \/ Verdict \/ OverallTimeout \/ Tick \/ Exited

Spec == Init /\ [][Next]_vars

\* The process is scheduled and its timers run; a server may never answer.
FairSpec ==
  /\ Spec /\ WF_vars(StartChunk) /\ WF_vars(Verdict) /\ WF_vars(OverallTimeout)
  /\ WF_vars(Tick) /\ \A i \in All : WF_vars(TimesOut(i)) /\ WF_vars(Collect(i))
==============================================================================
