------------------------------- MODULE MCChain -------------------------------
(* Small chains for TLC; see the README for what they exercise. *)
EXTENDS ChainProperties, SequencesExt

Plain(o)  == [op |-> o, n |-> 0, body |-> <<>>]
Retry(n)  == [op |-> "retry", n |-> n, body |-> <<>>]
Script(b) == [op |-> "script", n |-> 0, body |-> b]
Play(b)   == [op |-> "play", n |-> 0, body |-> b]

\* Every chain of at most three commands of these kinds, and longer ones in
\* which modifiers pile up, repeat, dangle, or stand before a session.
MCChains ==
  LET tokens == {Retry(2), Plain("soft"), Plain("exec"), Plain("session"),
                 Plain("offline"), Script(<<"soft", "exec", "exec">>)}
  IN  SeqOf(tokens, 3) \cup
      { <<Plain("soft"), Retry(3), Retry(2), Plain("exec"), Plain("exec")>>,
        <<Retry(2), Plain("soft"), Script(<<"exec", "retry", "exec">>), Plain("exec")>>,
        <<Retry(2), Plain("soft"), Plain("session"), Plain("exec")>>,
        <<Plain("exec"), Plain("soft"), Plain("exec"), Retry(1), Plain("exec")>>,
        <<Plain("soft"), Plain("exec"), Plain("exec"), Plain("soft"), Retry(2)>>,
        <<Plain("verify"), Retry(2), Play(<<"exec", "exec">>), Plain("verify")>>,
        <<Plain("verify"), Plain("offline")>> }
==============================================================================
