----------------------------- MODULE ChainSyntax -----------------------------
(* The command chain a rdpdo invocation was given, after cli.rs parsed it.    *)
(* What a single command does to the remote desktop is abstracted away: a     *)
(* command is one of the few kinds the chain runner tells apart, and a script *)
(* carries the kinds of the commands its file holds.                          *)
EXTENDS Naturals, Sequences

\* "exec": any command that needs the connection; "script": run or
\* boot-sequence, and "play", dispatch the commands of a file; "offline": diff,
\* convert or help, and "verify", audio-verify, need no connection; the others
\* are the commands of the same name.
InnerOps == {"retry", "soft", "session", "exec"}
Scripts == {"script", "play"}
Offline == {"offline", "verify"}
Ops == InnerOps \cup Scripts \cup Offline

\* n is the count of a retry (cli.rs refuses 0), body the file of a script.
Token == {t \in [op : Ops, n : Nat, body : Seq(InnerOps)] :
            /\ t.op = "retry" <=> t.n > 0
            /\ t.op \notin Scripts => t.body = <<>>}

\* record_command has no line for these; it is not asked about the modifiers.
Unrecorded == {"offline", "play"}

IsModifier(t) == t.op \in {"retry", "soft"}

\* The positions that hold a command with an outcome of its own.
Work(c) == {i \in 1..Len(c) : c[i].op \in {"exec"} \cup Scripts \cup Offline}

OfflineOnly(c) == \A i \in 1..Len(c) : c[i].op \in Offline

------------------------------------------------------------------------------
(* What a user who reads the chain left to right expects the modifiers to     *)
(* mean: those that stand directly before a command are that command's.       *)

Window(c, i) == {j \in 1..(i - 1) : \A k \in j..(i - 1) : IsModifier(c[k])}

SoftAt(c, i) == \E j \in Window(c, i) : c[j].op = "soft"

\* n is the retry count that binds to position i: the last one written, or 0.
RetryBinds(c, i, n) ==
  LET retries == {j \in Window(c, i) : c[j].op = "retry"}
  IN  IF retries = {}
      THEN n = 0
      ELSE \E j \in retries : c[j].n = n /\ \A k \in retries : k <= j
==============================================================================
