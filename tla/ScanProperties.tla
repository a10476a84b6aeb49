---------------------------- MODULE ScanProperties ----------------------------
(* What is claimed of a scan. *)
EXTENDS Scan

\* What a server that behaves so can do, by the docs
\* (docs/reference/exit-codes.md:18-29).
Has(behaviour) ==
  CASE behaviour = "hybrid-egfx" -> {"reachable", "tls", "nla", "egfx"}
    [] behaviour = "hybrid" -> {"reachable", "tls", "nla"}
    [] behaviour = "ssl-egfx" -> {"reachable", "tls", "egfx"}
    [] behaviour = "needs-hybrid" -> {"reachable", "nla"}
    [] behaviour \in {"standard", "refuses-ssl", "other", "silent", "stalls"} -> {"reachable"}
    [] OTHER -> {}

\* The verdict is true of the servers, not only of the rows: "ok" says that
\* every target has all that was expected, "unmet" that some target has not.
\* No target gets lost between chunks, probes and handles
\* (probe.rs:375-393, rdpsee.rs:385-402).
VerdictSound ==
  /\ result = "ok" => \A i \in All : expected \subseteq Has(truth[i])
  /\ result = "unmet" => \E i \in All : ~(expected \subseteq Has(truth[i]))

\* Whatever order the probes end in, the k-th row is the k-th target's, and a
\* verdict has a row for every target (probe.rs:374 "preserving input order").
RowsInOrder ==
  /\ \A k \in DOMAIN reports : reports[k].server = k
  /\ result \in {"ok", "unmet"} => Len(reports) = Targets

\* A scan ends, though a server may stall after the header of its answer,
\* which no timeout of the probe covers (probe.rs:277, rdpsee.rs:307-320).
ScanEnds == <>(result # "running")

==============================================================================
