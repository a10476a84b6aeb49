----------------------------- MODULE ChainProofs -----------------------------
(* Proofs about the chain runner, for every set of chains.                    *)
EXTENDS ChainProperties, TLAPS

------------------------------------------------------------------------------
(* What one step along the chain does to the modifiers in force. *)

\* A modifier extends the window of modifiers in force; anything else ends it
\* (the head of the loop in rdpdo.rs, 154-177).
LEMMA WindowStep ==
  ASSUME NEW c \in Seq(Token), NEW i \in 1..Len(c)
  PROVE  Window(c, i + 1) = IF IsModifier(c[i]) THEN Window(c, i) \cup {i} ELSE {}
<1>1. CASE IsModifier(c[i])
  <2>1. ASSUME NEW j \in Window(c, i + 1)
        PROVE  j \in Window(c, i) \cup {i}
    BY <2>1 DEF Window
  <2>2. ASSUME NEW j \in Window(c, i) \cup {i}
        PROVE  j \in Window(c, i + 1)
    <3>1. j \in 1..i
      BY DEF Window
    <3>2. ASSUME NEW k \in j..i PROVE IsModifier(c[k])
      BY <1>1, <3>2 DEF Window
    <3> QED BY <3>1, <3>2 DEF Window
  <2> QED BY <1>1, <2>1, <2>2
<1>2. CASE ~IsModifier(c[i])
  BY <1>2 DEF Window
<1> QED BY <1>1, <1>2

\* No modifier stands before the first command.
LEMMA WindowFirst ==
  ASSUME NEW c \in Seq(Token)
  PROVE  /\ Window(c, 1) = {}
         /\ ~SoftAt(c, 1)
         /\ RetryBinds(c, 1, 0)
BY DEF Window, SoftAt, RetryBinds

\* Softness is carried over modifiers and dropped by everything else.
LEMMA SoftStep ==
  ASSUME NEW c \in Seq(Token), NEW i \in 1..Len(c)
  PROVE  SoftAt(c, i + 1) <=> IsModifier(c[i]) /\ (SoftAt(c, i) \/ c[i].op = "soft")
BY WindowStep DEF SoftAt

\* A retry replaces the count in force, a soft keeps it, a command clears it.
LEMMA RetryStep ==
  ASSUME NEW c \in Seq(Token), NEW i \in 1..Len(c), NEW n \in Nat
  PROVE  /\ c[i].op = "retry" => RetryBinds(c, i + 1, c[i].n)
         /\ c[i].op = "soft" /\ RetryBinds(c, i, n) => RetryBinds(c, i + 1, n)
         /\ ~IsModifier(c[i]) => RetryBinds(c, i + 1, 0)
<1>1. \A j \in Window(c, i) : j \in Nat /\ j < i
  BY DEF Window
<1>2. ASSUME c[i].op = "retry" PROVE RetryBinds(c, i + 1, c[i].n)
  <2> DEFINE retries == {j \in Window(c, i + 1) : c[j].op = "retry"}
  <2>1. Window(c, i + 1) = Window(c, i) \cup {i}
    BY <1>2, WindowStep DEF IsModifier
  <2>2. i \in retries
    BY <1>2, <2>1
  <2>3. \A k \in retries : k <= i
    BY <1>1, <2>1
  <2>4. \E j \in retries : c[j].n = c[i].n /\ \A k \in retries : k <= j
    BY <2>2, <2>3
  <2> QED BY <2>2, <2>4 DEF RetryBinds
<1>3. ASSUME c[i].op = "soft", RetryBinds(c, i, n) PROVE RetryBinds(c, i + 1, n)
  <2>1. {j \in Window(c, i + 1) : c[j].op = "retry"}
          = {j \in Window(c, i) : c[j].op = "retry"}
    BY <1>3, WindowStep DEF IsModifier
  <2> QED BY <1>3, <2>1 DEF RetryBinds
<1>4. ~IsModifier(c[i]) => RetryBinds(c, i + 1, 0)
  BY WindowStep DEF RetryBinds
<1> QED BY <1>2, <1>3, <1>4

\* A chain of offline commands has no soft command.
LEMMA OfflineNotSoft ==
  ASSUME NEW c \in Seq(Token), OfflineOnly(c), NEW i \in 1..Len(c)
  PROVE  ~SoftAt(c, i)
BY DEF OfflineOnly, Offline, SoftAt, Window

------------------------------------------------------------------------------
(* Types. The position is in range where the code indexes the chain. *)

AtPosition ==
  /\ InCommand => pos \in Work(chain)
  /\ pc = "repl" => pos \in 1..Len(chain) /\ Cur.op = "session"

Typed == TypeOK /\ AtPosition

LEMMA ChainFacts ==
  ASSUME TypeOK
  PROVE  /\ chain \in Seq(Token) /\ Len(chain) \in Nat
         /\ \A i \in 1..Len(chain) : chain[i].n \in Nat
         /\ Work(chain) \subseteq 1..Len(chain)
<1>1. chain \in Seq(Token)
  BY ChainsAssumption DEF TypeOK
<1>2. \A i \in 1..Len(chain) : chain[i] \in Token
  BY <1>1
<1> QED BY <1>1, <1>2 DEF Token, Work, Scripts, Offline

LEMMA TypedInit == Init => Typed
<1> SUFFICES ASSUME Init PROVE Typed
  OBVIOUS
<1>1. chain \in Seq(Token) /\ Len(chain) \in Nat
  BY ChainsAssumption DEF Init
<1>2. \A S : <<>> \in Seq(S)
  OBVIOUS
<1>3. tries \in [1..Len(chain) -> Nat] /\ verdict \in [1..Len(chain) -> Verdicts]
  BY <1>1 DEF Init, Verdicts
<1>4. TypeOK
  <2>1. softFailures \in Seq(1..Len(chain)) /\ recorded \in Seq(1..Len(chain))
          /\ testcases \in Seq([pos : 1..Len(chain), ok : BOOLEAN])
    BY <1>2 DEF Init
  <2>2. pos \in 1..(Len(chain) + 1)
    BY <1>1 DEF Init
  <2> QED BY <2>1, <2>2, <1>3 DEF Init, TypeOK
<1>5. AtPosition
  BY DEF Init, AtPosition, InCommand
<1> QED BY <1>4, <1>5 DEF Typed

LEMMA TypedStep == Typed /\ [Next]_vars => Typed'
<1> SUFFICES ASSUME Typed, [Next]_vars
             PROVE  Typed'
  OBVIOUS
<1> USE DEF Typed, TypeOK, AtPosition, InCommand, AwaitPoints, Errors, Cur,
        loop, cmd, output, ghost, Return
<1>a. chain \in Seq(Token) /\ Len(chain) \in Nat
  BY ChainFacts
<1>b. \A i \in 1..Len(chain) : chain[i].n \in Nat
  BY ChainFacts
<1>c. Work(chain) \subseteq 1..Len(chain)
  BY ChainFacts
<1>d. MayLosePeer => peerDown' \in BOOLEAN
  BY DEF MayLosePeer
<1>e. \A ok \in BOOLEAN : lastErr' = ~ok => lastErr' \in BOOLEAN
  BY Zenon
<1>f. \A S : \A q \in Seq(S), e \in S : Append(q, e) \in Seq(S)
  OBVIOUS
<1>g. (~lastErr) \in BOOLEAN
  BY Zenon
<1>1. CASE Start
  BY <1>a, <1>b, <1>c, <1>1 DEF Start
<1>2. CASE OfflineEnd
  BY <1>a, <1>b, <1>c, <1>2 DEF OfflineEnd
<1>3. CASE OfflineStep
  <2>a. softFailures' \in Seq(1..Len(chain')) /\ recorded' \in Seq(1..Len(chain')) /\ testcases' \in Seq([pos : 1..Len(chain'), ok : BOOLEAN])
    BY <1>a, <1>b, <1>c, <1>3 DEF OfflineStep, Exhausted, Verdicts
  <2>0. pos \in 1..Len(chain)
    BY <1>a, <1>3 DEF OfflineStep, Exhausted
  <2>t. tries' \in [1..Len(chain') -> Nat]
    <3>1. chain' = chain /\ tries' = [tries EXCEPT ![pos] = tries[pos] + 1]
      BY <1>3 DEF OfflineStep
    <3>2. tries \in [1..Len(chain) -> Nat]
      OBVIOUS
    <3>3. tries[pos] \in Nat
      BY <2>0, <3>2
    <3> HIDE DEF Typed, TypeOK, AtPosition
    <3> QED BY <2>0, <3>1, <3>2, <3>3
  <2>v. verdict' \in [1..Len(chain') -> Verdicts]
    BY <2>0, <1>3 DEF OfflineStep, Verdicts
  <2>b. tries' \in [1..Len(chain') -> Nat] /\ verdict' \in [1..Len(chain') -> Verdicts]
    BY <2>t, <2>v
  <2>c. pendingSoft' \in BOOLEAN /\ isSoft' \in BOOLEAN /\ lastErr' \in BOOLEAN /\ peerDown' \in BOOLEAN /\ closed' \in BOOLEAN
    BY <1>a, <1>b, <1>c, <1>3 DEF OfflineStep, Exhausted, Verdicts
  <2>1. TypeOK'
    BY <2>a, <2>b, <2>c, <1>a, <1>b, <1>c, <1>3 DEF OfflineStep, Exhausted, Verdicts
  <2>2. AtPosition'
    BY <1>a, <1>b, <1>c, <1>3 DEF OfflineStep, Exhausted, Verdicts
  <2> QED BY <2>1, <2>2
<1>4. CASE Connect
  BY <1>a, <1>b, <1>c, <1>d, <1>e, <1>4 DEF Connect
<1>5. CASE LeaveLoop
  BY <1>a, <1>b, <1>c, <1>5 DEF LeaveLoop
<1>6. CASE TakeModifier
  <2>a. softFailures' \in Seq(1..Len(chain')) /\ recorded' \in Seq(1..Len(chain')) /\ testcases' \in Seq([pos : 1..Len(chain'), ok : BOOLEAN])
    BY <1>a, <1>b, <1>c, <1>6 DEF TakeModifier, AtCommand, Exhausted
  <2>b. tries' \in [1..Len(chain') -> Nat] /\ verdict' \in [1..Len(chain') -> Verdicts]
    BY <1>a, <1>b, <1>c, <1>6 DEF TakeModifier, AtCommand, Exhausted
  <2>c. pendingSoft' \in BOOLEAN /\ isSoft' \in BOOLEAN /\ lastErr' \in BOOLEAN /\ peerDown' \in BOOLEAN /\ closed' \in BOOLEAN
    BY <1>a, <1>b, <1>c, <1>6 DEF TakeModifier, AtCommand, Exhausted
  <2>1. TypeOK'
    BY <2>a, <2>b, <2>c, <1>a, <1>b, <1>c, <1>6 DEF TakeModifier, AtCommand, Exhausted
  <2>2. AtPosition'
    BY <1>a, <1>b, <1>c, <1>6 DEF TakeModifier, AtCommand, Exhausted
  <2> QED BY <2>1, <2>2
<1>7. CASE EnterSession
  <2>1. TypeOK'
    BY <1>a, <1>b, <1>c, <1>7 DEF EnterSession, AtCommand, Exhausted, TakeModifiers, IsModifier
  <2>2. AtPosition'
    BY <1>a, <1>b, <1>c, <1>7 DEF EnterSession, AtCommand, Exhausted, TakeModifiers, IsModifier
  <2> QED BY <2>1, <2>2
<1>8. CASE LeaveSession
  BY <1>a, <1>b, <1>c, <1>8 DEF LeaveSession
<1>9. CASE Begin
  <2>0. pos \in 1..Len(chain)
    BY <1>c, <1>9 DEF Begin
  <2>a. softFailures' \in Seq(1..Len(chain')) /\ recorded' \in Seq(1..Len(chain')) /\ testcases' \in Seq([pos : 1..Len(chain'), ok : BOOLEAN])
    <3>1. recorded' \in {recorded, Append(recorded, pos)}
      BY <1>9 DEF Begin
    <3>2. Append(recorded, pos) \in Seq(1..Len(chain))
      BY <2>0, <1>f
    <3> QED BY <3>1, <3>2, <1>9 DEF Begin
  <2>b. tries' \in [1..Len(chain') -> Nat] /\ verdict' \in [1..Len(chain') -> Verdicts]
    BY <1>a, <1>b, <1>c, <1>9 DEF Begin, AtCommand, Exhausted, TakeModifiers, AttemptsAllowed
  <2>c. pendingSoft' \in BOOLEAN /\ isSoft' \in BOOLEAN /\ lastErr' \in BOOLEAN /\ peerDown' \in BOOLEAN /\ closed' \in BOOLEAN
    BY <1>a, <1>b, <1>c, <1>9 DEF Begin, AtCommand, Exhausted, TakeModifiers, AttemptsAllowed
  <2>1. TypeOK'
    BY <2>a, <2>b, <2>c, <1>a, <1>b, <1>c, <1>9 DEF Begin, AtCommand, Exhausted, TakeModifiers, AttemptsAllowed
  <2>2. AtPosition'
    BY <1>a, <1>b, <1>c, <1>9 DEF Begin, AtCommand, Exhausted, TakeModifiers, AttemptsAllowed
  <2> QED BY <2>1, <2>2
<1>10. CASE Dispatch
  BY <1>a, <1>b, <1>c, <1>d, <1>e, <1>10 DEF Dispatch, Resolve
<1>11. CASE OpenScript
  <2>a. softFailures' \in Seq(1..Len(chain')) /\ recorded' \in Seq(1..Len(chain')) /\ testcases' \in Seq([pos : 1..Len(chain'), ok : BOOLEAN])
    BY <1>a, <1>b, <1>c, <1>11 DEF OpenScript, Resolve
  <2>b. tries' \in [1..Len(chain') -> Nat] /\ verdict' \in [1..Len(chain') -> Verdicts]
    BY <1>a, <1>b, <1>c, <1>11 DEF OpenScript, Resolve
  <2>c. pendingSoft' \in BOOLEAN /\ isSoft' \in BOOLEAN /\ lastErr' \in BOOLEAN /\ peerDown' \in BOOLEAN /\ closed' \in BOOLEAN
    BY <1>a, <1>b, <1>c, <1>11 DEF OpenScript, Resolve
  <2>1. TypeOK'
    BY <2>a, <2>b, <2>c, <1>a, <1>b, <1>c, <1>11 DEF OpenScript, Resolve
  <2>2. AtPosition'
    BY <1>a, <1>b, <1>c, <1>11 DEF OpenScript, Resolve
  <2> QED BY <2>1, <2>2
<1>12. CASE CloseScript
  BY <1>a, <1>b, <1>c, <1>12 DEF CloseScript, Resolve
<1>13. CASE ScriptStep
  <2>a. softFailures' \in Seq(1..Len(chain')) /\ recorded' \in Seq(1..Len(chain')) /\ testcases' \in Seq([pos : 1..Len(chain'), ok : BOOLEAN])
    BY <1>a, <1>b, <1>c, <1>d, <1>e, <1>13 DEF ScriptStep, Resolve
  <2>b. tries' \in [1..Len(chain') -> Nat] /\ verdict' \in [1..Len(chain') -> Verdicts]
    BY <1>a, <1>b, <1>c, <1>d, <1>e, <1>13 DEF ScriptStep, Resolve
  <2>c. pendingSoft' \in BOOLEAN /\ isSoft' \in BOOLEAN /\ lastErr' \in BOOLEAN /\ peerDown' \in BOOLEAN /\ closed' \in BOOLEAN
    BY <1>a, <1>b, <1>c, <1>d, <1>e, <1>13 DEF ScriptStep, Resolve
  <2>d. UNCHANGED <<chain, cli, pos, pendingRetry, attempt, attempts, chainError, junitFile, result>>
    BY <1>13 DEF ScriptStep, Resolve
  <2>e. inner' \in Nat
    BY <1>13 DEF ScriptStep, Resolve
  <2>f. pc' \in {"script", "pause", "judge"}
    BY <1>13 DEF ScriptStep, Resolve
  <2>1. TypeOK'
    BY <2>a, <2>b, <2>c, <2>d, <2>e, <2>f
  <2>2. AtPosition'
    BY <1>a, <1>b, <1>c, <1>d, <1>e, <1>13 DEF ScriptStep, Resolve
  <2> QED BY <2>1, <2>2
<1>14. CASE Pause
  BY <1>a, <1>b, <1>c, <1>d, <1>e, <1>14 DEF Pause
<1>15. CASE Judge
  <2>0. pos \in 1..Len(chain)
    BY <1>c, <1>15 DEF Judge
  <2>t. Testcase \in [pos : 1..Len(chain), ok : BOOLEAN]
    BY <2>0, <1>g DEF Testcase
  <2>a. softFailures' \in Seq(1..Len(chain')) /\ recorded' \in Seq(1..Len(chain')) /\ testcases' \in Seq([pos : 1..Len(chain'), ok : BOOLEAN])
    BY <2>0, <2>t, <1>f, <1>15 DEF Judge
  <2>b. tries' \in [1..Len(chain') -> Nat] /\ verdict' \in [1..Len(chain') -> Verdicts]
    BY <1>a, <1>b, <1>c, <1>15 DEF Judge, Stop, Testcase, Verdicts
  <2>c. pendingSoft' \in BOOLEAN /\ isSoft' \in BOOLEAN /\ lastErr' \in BOOLEAN /\ peerDown' \in BOOLEAN /\ closed' \in BOOLEAN
    BY <1>a, <1>b, <1>c, <1>15 DEF Judge, Stop, Testcase, Verdicts
  <2>1. TypeOK'
    BY <2>a, <2>b, <2>c, <1>a, <1>b, <1>c, <1>15 DEF Judge, Stop, Testcase, Verdicts
  <2>2. AtPosition'
    BY <1>a, <1>b, <1>c, <1>15 DEF Judge, Stop, Testcase, Verdicts
  <2> QED BY <2>1, <2>2
<1>16. CASE Report
  BY <1>a, <1>b, <1>c, <1>16 DEF Report
<1>17. CASE Shutdown
  BY <1>a, <1>b, <1>c, <1>17 DEF Shutdown, Outcome
<1>18. CASE Timeout
  BY <1>a, <1>b, <1>c, <1>18 DEF Timeout
<1>19. CASE UNCHANGED vars
  BY <1>19 DEF vars
<1> QED
  BY <1>1, <1>2, <1>3, <1>4, <1>5, <1>6, <1>7, <1>8, <1>9, <1>10, <1>11, <1>12, <1>13, <1>14, <1>15, <1>16, <1>17, <1>18, <1>19
  DEF Next, Synchronous, Awaiting, Done

\* Every variable keeps its type in every chain.
THEOREM TypeCorrect == Spec => []TypeOK
<1>1. Typed => TypeOK
  BY DEF Typed
<1> QED BY TypedInit, TypedStep, <1>1, PTL DEF Spec

------------------------------------------------------------------------------
(* The modifiers bind to the command they stand before. ModifiersBind is not  *)
(* inductive by itself: it needs what is pending at the head of the loop to   *)
(* be what the text up to there says, and nothing to be pending elsewhere.    *)

InForce ==
  /\ pc \in {"start", "connect", "top"} =>
       (pendingSoft <=> SoftAt(chain, pos)) /\ RetryBinds(chain, pos, pendingRetry)
  /\ InCommand \/ pc = "repl" => ~pendingSoft /\ pendingRetry = 0

BindInv == InForce /\ ModifiersBind

LEMMA BindInit == Init => BindInv
<1> SUFFICES ASSUME Init PROVE BindInv
  OBVIOUS
<1>1. chain \in Seq(Token)
  BY ChainsAssumption DEF Init
<1> QED BY <1>1, WindowFirst DEF Init, BindInv, InForce, ModifiersBind, InCommand

LEMMA BindStep == Typed /\ BindInv /\ [Next]_vars => BindInv'
<1> SUFFICES ASSUME Typed, BindInv, [Next]_vars
             PROVE  BindInv'
  OBVIOUS
<1>a. chain \in Seq(Token)
  BY ChainFacts DEF Typed
<1>b. Len(chain) \in Nat /\ pos \in Nat /\ pos > 0 /\ pendingRetry \in Nat
  BY ChainFacts DEF Typed, TypeOK
<1>c. \A i \in Work(chain) : i \in 1..Len(chain) /\ ~IsModifier(chain[i])
  BY DEF Work, Scripts, Offline, IsModifier
<1> USE DEF BindInv, InForce, ModifiersBind, InCommand
\* A step that moves past a command or a session leaves nothing in force.
<1>d. ASSUME pos \in 1..Len(chain), ~IsModifier(chain[pos]), chain' = chain,
             pos' = pos + 1, pc' = "top", UNCHANGED loop, ~pendingSoft, pendingRetry = 0
      PROVE  BindInv'
  BY <1>d, <1>a, <1>b, SoftStep, RetryStep DEF loop
<1>1. CASE Start \/ Connect
  BY <1>1 DEF Start, Connect, Return, loop, cmd
<1>2. CASE TakeModifier
  <2>1. pos \in 1..Len(chain)
    BY <1>b, <1>2 DEF TakeModifier, AtCommand, Exhausted
  <2>2. pc = "top" /\ pc' = "top" /\ chain' = chain /\ pos' = pos + 1
    BY <1>2 DEF TakeModifier, AtCommand
  <2>3. CASE Cur.op = "retry"
    <3>1. pendingRetry' = chain[pos].n /\ pendingSoft' = pendingSoft
      BY <1>2, <2>3 DEF TakeModifier, Cur
    <3>2. RetryBinds(chain, pos + 1, chain[pos].n)
      BY <1>a, <1>b, <2>1, <2>3, RetryStep DEF Cur
    <3>3. SoftAt(chain, pos + 1) <=> SoftAt(chain, pos)
      BY <1>a, <2>1, <2>3, SoftStep DEF Cur, IsModifier
    <3> QED BY <2>2, <3>1, <3>2, <3>3
  <2>4. CASE Cur.op # "retry"
    <3>1. Cur.op = "soft" /\ pendingRetry' = pendingRetry /\ pendingSoft'
      BY <1>2, <2>4 DEF TakeModifier, IsModifier
    <3>2. RetryBinds(chain, pos + 1, pendingRetry)
      BY <1>a, <1>b, <2>1, <2>2, <3>1, RetryStep DEF Cur
    <3>3. SoftAt(chain, pos + 1)
      BY <1>a, <2>1, <3>1, SoftStep DEF Cur, IsModifier
    <3> QED BY <2>2, <3>1, <3>2, <3>3
  <2> QED BY <2>3, <2>4
<1>3. CASE EnterSession
  BY <1>3 DEF EnterSession, TakeModifiers, cmd
<1>4. CASE LeaveSession
  <2>1. CASE pc' = "top"
    BY <1>d, <1>4, <2>1 DEF LeaveSession, Typed, AtPosition, Cur, loop, IsModifier
  <2>2. CASE pc' = "report"
    BY <2>2
  <2> QED BY <1>4, <2>1, <2>2 DEF LeaveSession
<1>5. CASE Begin
  <2>1. pc = "top" /\ chain' = chain /\ pos' = pos
    BY <1>5 DEF Begin, AtCommand
  <2>2. isSoft' = pendingSoft /\ attempts' = AttemptsAllowed
          /\ ~pendingSoft' /\ pendingRetry' = 0
    BY <1>5 DEF Begin, TakeModifiers
  <2>3. Granted(pos, AttemptsAllowed)
    BY <1>b, <2>1 DEF Granted, AttemptsAllowed
  <2>4. Granted(pos, attempts)'
    BY <2>1, <2>2, <2>3 DEF Granted
  <2>5. isSoft' <=> SoftAt(chain', pos')
    BY <2>1, <2>2
  <2>6. pc' \in {"dispatch", "done"}
    BY <1>5 DEF Begin, Return
  <2> QED BY <2>2, <2>4, <2>5, <2>6
<1>6. CASE Judge
  <2>1. CASE pc' = "top"
    BY <1>c, <1>d, <1>6, <2>1 DEF Judge, Stop, Typed, AtPosition, loop
  <2>2. CASE pc' = "report"
    BY <2>2
  <2> QED BY <1>6, <2>1, <2>2 DEF Judge, Stop
\* Inside a command nothing the invariant speaks of moves.
<1>7. CASE Dispatch \/ OpenScript \/ CloseScript \/ ScriptStep \/ Pause
  <2>1. InCommand /\ UNCHANGED <<chain, pos, pendingRetry, pendingSoft, attempts, isSoft>>
    BY <1>7 DEF Dispatch, OpenScript, CloseScript, ScriptStep, Pause, Resolve, loop, cmd
  <2>2. InCommand' \/ pc' = "done"
    BY <1>7 DEF Dispatch, OpenScript, CloseScript, ScriptStep, Pause, Resolve, Return
  <2> QED BY <2>1, <2>2 DEF Granted
<1>8. CASE OfflineEnd \/ OfflineStep \/ LeaveLoop \/ Report \/ Shutdown \/ Timeout
  <2>1. pc' \in {"offline", "report", "shutdown", "done"}
    BY <1>8 DEF OfflineEnd, OfflineStep, LeaveLoop, Report, Shutdown, Timeout, Return
  <2> QED BY <2>1
<1>9. CASE UNCHANGED vars
  BY <1>9 DEF vars, loop, cmd, Granted
<1> QED
  BY <1>1, <1>2, <1>3, <1>4, <1>5, <1>6, <1>7, <1>8, <1>9
  DEF Next, Synchronous, Awaiting, Done

\* In every chain a command runs under exactly the modifiers written before it.
THEOREM ModifiersAlwaysBind == Spec => []ModifiersBind
<1>1. BindInv => ModifiersBind
  BY DEF BindInv
<1> QED BY TypedInit, TypedStep, BindInit, BindStep, <1>1, PTL DEF Spec

------------------------------------------------------------------------------
(* Commands run in order. The verdicts say where the                          *)
(* runner is: behind pos all is settled without a hard failure, ahead of it   *)
(* nothing has happened, and a hard failure stands at pos and ends the run.   *)

Settled(i) == verdict[i] \in {"pass", "softfail"}

Progress ==
  /\ \A i \in Work(chain) : i < pos => Settled(i)
  /\ \A i \in Work(chain) : i > pos => verdict[i] = "none"
  /\ pos \in Work(chain) =>
       \/ verdict[pos] = "none"
       \/ verdict[pos] = "fail" /\ (chainError = "command" \/ result = "command")
  /\ chainError = "command" => pos \in Work(chain) /\ verdict[pos] = "fail"
  /\ chainError # "none" => pc \in {"report", "shutdown", "done"}
  /\ pc \in {"report", "shutdown"} /\ chainError = "none" => peerDown \/ pos > Len(chain)
  /\ pc = "offline" => OfflineOnly(chain)
  /\ pc = "done" <=> result # "running"

LEMMA ProgressInit == Init => Progress
<1> SUFFICES ASSUME Init PROVE Progress
  OBVIOUS
<1>1. \A i \in Work(chain) : i \in 1..Len(chain) /\ i >= 1
  BY DEF Work, Scripts, Offline
<1>2. Len(chain) \in Nat
  BY ChainsAssumption DEF Init
<1> QED BY <1>1, <1>2 DEF Init, Progress

LEMMA ProgressStep == Typed /\ Progress /\ [Next]_vars => Progress'
<1> SUFFICES ASSUME Typed, Progress, [Next]_vars
             PROVE  Progress'
  OBVIOUS
<1>a. Len(chain) \in Nat /\ pos \in Nat /\ Work(chain) \subseteq 1..Len(chain)
  BY ChainFacts DEF Typed, TypeOK
<1>b. verdict \in [1..Len(chain) -> Verdicts] /\ (InCommand => pos \in Work(chain))
  BY DEF Typed, TypeOK, AtPosition
<1>c. pos \in 1..(Len(chain) + 1)
  BY DEF Typed, TypeOK
<1> USE DEF Progress, Settled, Return, InCommand
<1>1. CASE Start \/ Connect
  BY <1>1 DEF Start, Connect, ghost
<1>2. CASE OfflineEnd
  BY <1>2 DEF OfflineEnd, ghost
<1>3. CASE OfflineStep
  <2>1. pos \in 1..Len(chain) /\ pos \in Work(chain) /\ OfflineOnly(chain)
    BY <1>a, <1>c, <1>3 DEF OfflineStep, Exhausted, OfflineOnly, Work, Scripts, Offline
  <2>2. UNCHANGED <<chain, chainError>> /\ chainError = "none" /\ result = "running"
    BY <1>3 DEF OfflineStep
  <2>3. CASE verdict' = [verdict EXCEPT ![pos] = "pass"] /\ pos' = pos + 1
               /\ UNCHANGED <<pc, result>>
    BY <1>a, <1>b, <1>3, <2>1, <2>2, <2>3 DEF OfflineStep
  <2>4. CASE verdict' = [verdict EXCEPT ![pos] = "fail"] /\ Return("command")
               /\ UNCHANGED pos
    BY <1>a, <1>b, <1>3, <2>1, <2>2, <2>4
  <2> QED BY <1>3, <2>3, <2>4 DEF OfflineStep
<1>4. CASE LeaveLoop
  BY <1>4 DEF LeaveLoop, Exhausted, ghost
<1>5. CASE TakeModifier
  <2>1. pos \notin Work(chain)
    BY <1>5 DEF TakeModifier, IsModifier, Cur, Work, Scripts, Offline
  <2>2. UNCHANGED <<chain, verdict, pc, chainError, result>> /\ pos' = pos + 1 /\ pc = "top"
    BY <1>5 DEF TakeModifier, AtCommand, ghost
  <2> QED BY <1>a, <2>1, <2>2
<1>6. CASE EnterSession \/ Begin
  <2>1. UNCHANGED <<chain, verdict, pos, chainError, peerDown>> /\ pc = "top"
    BY <1>6 DEF EnterSession, Begin, AtCommand, ghost
  <2>2. \/ pc' \in {"repl", "dispatch"} /\ result' = result
        \/ pc' = "done" /\ result' = "record"
    BY <1>6 DEF EnterSession, Begin
  <2> QED BY <2>1, <2>2
<1>7. CASE LeaveSession
  <2>1. pos \notin Work(chain) /\ pos' \in {pos, pos + 1} /\ chainError = "none"
    BY <1>7 DEF LeaveSession, Typed, AtPosition, Cur, Work, Scripts, Offline
  <2>2. UNCHANGED <<chain, verdict, result>> /\ pc = "repl"
    BY <1>7 DEF LeaveSession, ghost
  <2>3. \/ pc' = "top" /\ pos' = pos + 1 /\ chainError' = "none"
        \/ pc' = "report" /\ chainError' = "session" /\ pos' = pos
    BY <1>7, <2>1 DEF LeaveSession
  <2> QED BY <1>a, <2>1, <2>2, <2>3
<1>8. CASE Dispatch \/ OpenScript \/ CloseScript \/ ScriptStep \/ Pause
  <2>1. UNCHANGED <<chain, verdict, pos, chainError>> /\ InCommand
    BY <1>8 DEF Dispatch, OpenScript, CloseScript, ScriptStep, Pause, Resolve, ghost
  <2>2. \/ pc' \in {"dispatch", "script", "pause", "judge"} /\ result' = result
        \/ pc' = "done" /\ result' = "pause"
    BY <1>8 DEF Dispatch, OpenScript, CloseScript, ScriptStep, Pause, Resolve
  <2> QED BY <2>1, <2>2
<1>9. CASE Judge
  <2>1. pos \in Work(chain) /\ chainError = "none" /\ result = "running"
          /\ verdict[pos] = "none"
    BY <1>b, <1>9 DEF Judge
  <2>2. UNCHANGED <<chain, result>>
    BY <1>9 DEF Judge
  <2>3. \/ /\ verdict' = [verdict EXCEPT ![pos] = "fail"]
           /\ chainError' = "command" /\ pc' = "report" /\ pos' = pos
        \/ /\ verdict' = [verdict EXCEPT ![pos] = "pass"]
           /\ chainError' = "none" /\ pc' = "top" /\ pos' = pos + 1
        \/ /\ verdict' = [verdict EXCEPT ![pos] = "softfail"]
           /\ chainError' = "none" /\ pc' = "top" /\ pos' = pos + 1
    BY <1>9, <2>1 DEF Judge, Stop
  <2> QED BY <1>a, <1>b, <2>1, <2>2, <2>3
<1>10. CASE Report \/ Shutdown \/ Timeout
  <2>1. UNCHANGED <<chain, verdict, pos, chainError, peerDown>>
    BY <1>10 DEF Report, Shutdown, Timeout, ghost
  <2>2. CASE pc = "report" /\ pc' = "shutdown" /\ result' = result
    BY <2>1, <2>2
  <2>3. CASE pc' = "done" /\ result' # "running" /\ pc # "done"
    BY <2>1, <2>3
  <2>4. CASE Report
    BY <2>2, <2>3, <2>4 DEF Report
  <2>5. CASE Shutdown
    <3>1. Outcome # "running"
      BY DEF Outcome, Typed, TypeOK
    <3> QED BY <2>3, <2>5, <3>1 DEF Shutdown
  <2>6. CASE Timeout
    BY <2>3, <2>6 DEF Timeout, AwaitPoints
  <2> QED BY <1>10, <2>4, <2>5, <2>6
<1>11. CASE UNCHANGED vars
  BY <1>11 DEF vars, ghost
<1> QED
  BY <1>1, <1>2, <1>3, <1>4, <1>5, <1>6, <1>7, <1>8, <1>9, <1>10, <1>11
  DEF Next, Synchronous, Awaiting, Done

\* In every chain commands run in order, once, and none after a hard failure.
THEOREM CommandsRunInOrder == Spec => InOrder
<1> DEFINE Rule == \A i \in Work(chain) : tries'[i] # tries[i] =>
                     /\ verdict[i] = "none"
                     /\ \A j \in Work(chain) : j < i => Settled(j)
<1>1. ASSUME Typed, Progress, [Next]_vars
      PROVE  Rule \/ UNCHANGED vars
  <2>1. CASE OfflineStep \/ Dispatch \/ OpenScript
    <3>1. tries' = [tries EXCEPT ![pos] = @ + 1]
      BY <2>1 DEF OfflineStep, Dispatch, OpenScript
    <3>2. pos \in Work(chain) /\ verdict[pos] = "none"
      <4>1. CASE OfflineStep
        BY <1>1, <4>1, ChainFacts
        DEF OfflineStep, Exhausted, OfflineOnly, Work, Scripts, Offline, Typed,
            TypeOK, Progress
      <4>2. CASE Dispatch \/ OpenScript
        BY <1>1, <4>2
        DEF Dispatch, OpenScript, Typed, AtPosition, InCommand, Progress
      <4> QED BY <2>1, <4>1, <4>2
    <3>3. \A i \in Work(chain) : tries'[i] # tries[i] => i = pos
      BY <1>1, <3>1 DEF Typed, TypeOK
    <3> QED BY <1>1, <3>2, <3>3 DEF Progress
  <2>2. CASE \/ Start \/ OfflineEnd \/ Connect \/ LeaveLoop \/ TakeModifier
             \/ EnterSession \/ LeaveSession \/ Begin \/ CloseScript \/ ScriptStep
             \/ Pause \/ Judge \/ Report \/ Shutdown \/ Timeout \/ UNCHANGED vars
    <3>1. tries' = tries
      BY <2>2
      DEF Start, OfflineEnd, Connect, LeaveLoop, TakeModifier, EnterSession,
          LeaveSession, Begin, CloseScript, ScriptStep, Pause, Judge, Report,
          Shutdown, Timeout, vars, ghost
    <3> QED BY <3>1
  <2> QED BY <1>1, <2>1, <2>2 DEF Next, Synchronous, Awaiting, Done
<1>2. (Rule \/ UNCHANGED vars) <=>
        [\A i \in Work(chain) : tries'[i] # tries[i] =>
           /\ verdict[i] = "none"
           /\ \A j \in Work(chain) : j < i => verdict[j] \in {"pass", "softfail"}]_vars
  BY DEF Settled
<1> HIDE DEF Rule
<1> QED
  BY <1>1, <1>2, TypedInit, TypedStep, ProgressInit, ProgressStep, PTL DEF Spec, InOrder

\* What the end of a run rests on: the report precedes the shutdown.
Ending ==
  /\ pc = "shutdown" => (cli.junit => junitFile = "written")
  /\ EndsGracefully

LEMMA EndingStep == Progress /\ Ending /\ [Next]_vars => Ending'
<1> SUFFICES ASSUME Progress, Ending, [Next]_vars
             PROVE  Ending'
  OBVIOUS
<1> USE DEF Ending, EndsGracefully, Return
<1>1. CASE OfflineEnd \/ OfflineStep
  <2>1. OfflineOnly(chain) /\ chain' = chain /\ pc' \in {"offline", "done"}
    BY <1>1 DEF Progress, OfflineEnd, OfflineStep
  <2> QED BY <2>1
<1>2. CASE Report
  <2>1. UNCHANGED <<chain, cli, closed>>
    BY <1>2 DEF Report
  <2>2. \/ pc' = "shutdown" /\ result' = result /\ (cli.junit => junitFile' = "written")
        \/ pc' = "done" /\ result' = "junit"
    BY <1>2 DEF Report, WritesReport
  <2>3. result = "running"
    BY <1>2 DEF Report, Progress
  <2> QED BY <2>1, <2>2, <2>3
<1>3. CASE Shutdown
  BY <1>3 DEF Shutdown
<1>4. CASE \/ Start \/ Connect \/ LeaveLoop \/ TakeModifier \/ EnterSession
           \/ LeaveSession \/ Begin \/ Dispatch \/ OpenScript \/ CloseScript
           \/ ScriptStep \/ Pause \/ Judge \/ Timeout
  <2>1. UNCHANGED <<chain, cli, closed, junitFile>>
    BY <1>4
    DEF Start, Connect, LeaveLoop, TakeModifier, EnterSession, LeaveSession, Begin,
        Dispatch, OpenScript, CloseScript, ScriptStep, Resolve, Pause, Judge,
        Timeout, output
  <2>2. pc' # "shutdown" /\ result' \in {result, "connect", "record", "pause", "timeout"}
    <3>1. CASE \/ Start \/ Connect \/ LeaveLoop \/ TakeModifier \/ EnterSession
               \/ LeaveSession \/ Begin \/ Pause \/ Timeout
      BY <3>1 DEF Start, Connect, LeaveLoop, TakeModifier, EnterSession,
                  LeaveSession, Begin, AtCommand, Pause, Timeout
    <3>2. CASE Dispatch \/ OpenScript \/ CloseScript \/ ScriptStep
      BY <3>2 DEF Dispatch, OpenScript, CloseScript, ScriptStep, Resolve
    <3>3. CASE Judge
      BY <3>3 DEF Judge, Stop
    <3> QED BY <1>4, <3>1, <3>2, <3>3
  <2> QED BY <2>1, <2>2
<1>5. CASE UNCHANGED vars
  BY <1>5 DEF vars, output
<1> QED BY <1>1, <1>2, <1>3, <1>4, <1>5 DEF Next, Synchronous, Awaiting, Done

\* In every chain, when the chain decides the exit status the report it was
\* asked for is written and the session closed.
LEMMA ChainEndsGracefully == Spec => []EndsGracefully
<1>1. Init => Ending
  BY DEF Init, Ending, EndsGracefully
<1>2. Ending => EndsGracefully
  BY DEF Ending
<1> QED
  BY <1>1, <1>2, TypedInit, TypedStep, ProgressInit, ProgressStep, EndingStep, PTL DEF Spec

------------------------------------------------------------------------------
(* The verdicts are earned. VerdictsEarned needs the dispatches counted while *)
(* a command is at work, and nothing dispatched ahead of the position.        *)

Counting ==
  /\ \A i \in Work(chain) : i > pos => tries[i] = 0
  /\ pc \in {"start", "offline", "connect", "top"} /\ pos \in Work(chain) => tries[pos] = 0
  /\ InCommand => attempt \in 1..attempts
  /\ InCommand => tries[pos] = IF pc = "dispatch" THEN attempt - 1 ELSE attempt
  /\ pc = "pause" => attempt < attempts
  /\ pc = "judge" /\ lastErr => attempt = attempts

LEMMA CountingInit == Init => Counting
<1> SUFFICES ASSUME Init PROVE Counting
  OBVIOUS
<1>1. \A i \in Work(chain) : tries[i] = 0
  BY DEF Init, Work
<1> QED BY <1>1 DEF Init, Counting, InCommand

LEMMA CountingStep == Typed /\ Typed' /\ BindInv /\ Counting /\ [Next]_vars => Counting'
<1> SUFFICES ASSUME Typed, Typed', BindInv, Counting, [Next]_vars
             PROVE  Counting'
  OBVIOUS
<1>a. Len(chain) \in Nat /\ pos \in 1..(Len(chain) + 1) /\ Work(chain) \subseteq 1..Len(chain)
  BY ChainFacts DEF Typed, TypeOK
<1>b. tries \in [1..Len(chain) -> Nat] /\ attempt \in Nat /\ attempts \in Nat
  BY DEF Typed, TypeOK
<1>c. (InCommand => pos \in Work(chain)) /\ (InCommand' => pos' \in Work(chain'))
  BY DEF Typed, AtPosition
<1> USE DEF Counting, InCommand, Return
<1>1. CASE Start \/ Connect
  BY <1>1 DEF Start, Connect, ghost
<1>2. CASE OfflineEnd \/ LeaveLoop \/ EnterSession \/ Report \/ Shutdown \/ Timeout
  <2>1. UNCHANGED <<chain, pos, tries>>
    BY <1>2 DEF OfflineEnd, LeaveLoop, EnterSession, Report, Shutdown, Timeout, ghost
  <2>2. pc' \in {"done", "report", "repl", "shutdown"}
    BY <1>2 DEF OfflineEnd, LeaveLoop, EnterSession, Report, Shutdown, Timeout
  <2> QED BY <2>1, <2>2
<1>3. CASE OfflineStep
  <2>1. chain' = chain /\ pc = "offline" /\ pc' \in {"offline", "done"}
    BY <1>3 DEF OfflineStep
  <2>2. tries' = [tries EXCEPT ![pos] = tries[pos] + 1]
          /\ (pos' = pos + 1 \/ (pos' = pos /\ pc' = "done"))
    BY <1>3 DEF OfflineStep
  <2>3. \A i \in Work(chain) : i # pos => tries'[i] = tries[i]
    BY <1>a, <1>b, <2>2
  <2>4. \A i \in Work(chain) : i \in Nat
    BY <1>a
  <2>5. ASSUME NEW i \in Work(chain), i > pos PROVE tries'[i] = 0
    BY <1>a, <2>3, <2>4, <2>5
  <2>6. CASE pos' = pos + 1
    <3>1. ASSUME NEW i \in Work(chain), i >= pos + 1 PROVE tries'[i] = 0
      BY <1>a, <2>4, <2>5, <3>1
    <3> QED BY <1>a, <2>1, <2>4, <2>6, <3>1
  <2>7. CASE pos' = pos /\ pc' = "done"
    BY <2>1, <2>5, <2>7
  <2> QED BY <2>2, <2>6, <2>7
<1>4. CASE TakeModifier \/ LeaveSession \/ Judge
  <2>1. UNCHANGED <<chain, tries>>
    BY <1>4 DEF TakeModifier, LeaveSession, Judge, ghost
  <2>2. \/ pc' = "top" /\ pos' = pos + 1
        \/ pc' = "report" /\ pos' = pos
    BY <1>4 DEF TakeModifier, LeaveSession, Judge, Stop, AtCommand
  <2>3. \A i \in Work(chain) : i \in Nat /\ (i >= pos + 1 => tries[i] = 0)
    BY <1>a
  <2> QED BY <1>a, <2>1, <2>2, <2>3
<1>5. CASE Begin
  <2>1. UNCHANGED <<chain, pos, tries>> /\ attempt' = 1 /\ attempts' = AttemptsAllowed
          /\ pos \in Work(chain) /\ pc = "top" /\ pc' \in {"dispatch", "done"}
    BY <1>5 DEF Begin, AtCommand, ghost
  <2>2. AttemptsAllowed \in Nat /\ AttemptsAllowed >= 1
    BY DEF AttemptsAllowed, Typed, TypeOK
  <2> QED BY <2>1, <2>2
<1>6. CASE Dispatch \/ OpenScript
  <2>1. UNCHANGED <<chain, pos, attempt, attempts>> /\ pc = "dispatch"
          /\ tries' = [tries EXCEPT ![pos] = tries[pos] + 1]
    BY <1>6 DEF Dispatch, OpenScript, Resolve, cmd
  <2>2. \/ pc' = "script"
        \/ pc' = "pause" /\ attempt < attempts
        \/ pc' = "judge" /\ (lastErr' => ~(attempt < attempts))
    BY <1>6 DEF Dispatch, OpenScript, Resolve
  <2>3. pos \in Work(chain) /\ tries[pos] = attempt - 1 /\ attempt \in 1..attempts
    BY <1>c, <2>1
  <2>4. tries'[pos] = attempt /\ \A i \in Work(chain) : i > pos => tries'[i] = 0
    BY <1>a, <1>b, <2>1, <2>3
  <2> QED BY <1>b, <2>1, <2>2, <2>3, <2>4
<1>7. CASE CloseScript \/ ScriptStep
  <2>1. UNCHANGED <<chain, pos, attempt, attempts, tries>> /\ pc = "script"
    BY <1>7 DEF CloseScript, ScriptStep, Resolve, cmd, ghost
  <2>2. \/ pc' = "script"
        \/ pc' = "pause" /\ attempt < attempts
        \/ pc' = "judge" /\ (lastErr' => ~(attempt < attempts))
    BY <1>7 DEF CloseScript, ScriptStep, Resolve
  <2> QED BY <1>b, <2>1, <2>2
<1>8. CASE Pause
  <2>1. UNCHANGED <<chain, pos, attempts, tries>> /\ pc = "pause"
    BY <1>8 DEF Pause, ghost
  <2>2. pc' = "done" \/ (pc' = "dispatch" /\ attempt' = attempt + 1)
    BY <1>8 DEF Pause
  <2> QED BY <1>b, <2>1, <2>2
<1>9. CASE UNCHANGED vars
  BY <1>9 DEF vars, ghost, cmd
<1> QED
  BY <1>1, <1>2, <1>3, <1>4, <1>5, <1>6, <1>7, <1>8, <1>9
  DEF Next, Synchronous, Awaiting, Done

\* A count of attempts that the text grants is one or the count of a retry.
LEMMA GrantedCounts ==
  ASSUME chain \in Seq(Token), NEW i \in 1..Len(chain), NEW n \in Nat, Granted(i, n)
  PROVE  n > 0 /\ n \in {1} \cup {chain[j].n : j \in 1..Len(chain)}
<1>1. CASE n = 1
  BY <1>1
<1>2. CASE n > 0 /\ RetryBinds(chain, i, n)
  <2>1. PICK j \in Window(chain, i) : chain[j].n = n
    BY <1>2 DEF RetryBinds
  <2>2. j \in 1..Len(chain)
    BY DEF Window
  <2> QED BY <1>2, <2>1, <2>2
<1> QED BY <1>1, <1>2 DEF Granted

\* A chain of offline commands grants each of them one attempt.
LEMMA OfflineGranted ==
  ASSUME chain \in Seq(Token), OfflineOnly(chain), NEW i \in 1..Len(chain)
  PROVE  Granted(i, 1)
<1>1. {j \in Window(chain, i) : chain[j].op = "retry"} = {}
  BY DEF OfflineOnly, Offline, Window
<1> QED BY <1>1 DEF RetryBinds, Granted

\* The chain and its flags are parsed once.
LEMMA ChainFixed == [Next]_vars => UNCHANGED <<chain, cli>>
<1> SUFFICES ASSUME [Next]_vars PROVE UNCHANGED <<chain, cli>>
  OBVIOUS
<1>1. CASE Synchronous
  BY <1>1 DEF Synchronous, Start, OfflineEnd, OfflineStep, LeaveLoop, TakeModifier,
              EnterSession, Begin, Judge, Report
<1>2. CASE Connect \/ LeaveSession \/ Pause \/ Shutdown \/ Timeout
  BY <1>2 DEF Connect, LeaveSession, Pause, Shutdown, Timeout
<1>3. CASE Dispatch \/ OpenScript \/ CloseScript \/ ScriptStep
  BY <1>3 DEF Dispatch, OpenScript, CloseScript, ScriptStep, Resolve
<1>4. CASE Done \/ UNCHANGED vars
  BY <1>4 DEF Done, vars
<1> QED BY <1>1, <1>2, <1>3, <1>4 DEF Next, Awaiting

\* What VerdictsEarned says of one position.
Earned(i, v, t) ==
  /\ v = "pass" =>
       \E n \in {1} \cup {chain[j].n : j \in 1..Len(chain)} : Granted(i, n) /\ t \in 1..n
  /\ v \in {"softfail", "fail"} => Granted(i, t)
  /\ v = "softfail" => SoftAt(chain, i)
  /\ v = "fail" => ~SoftAt(chain, i)

LEMMA EarnedStep ==
  Typed /\ BindInv /\ Progress /\ Counting /\ VerdictsEarned /\ [Next]_vars => VerdictsEarned'
<1> SUFFICES ASSUME Typed, BindInv, Progress, Counting, VerdictsEarned, [Next]_vars
             PROVE  VerdictsEarned'
  OBVIOUS
<1> SUFFICES ASSUME NEW i \in Work(chain)
             PROVE  chain' = chain /\ Earned(i, verdict'[i], tries'[i])
  <2>1. chain' = chain
    BY ChainFixed
  <2>2. \A k, n : Granted(k, n)' <=> Granted(k, n)
    BY <2>1 DEF Granted
  <2> QED BY <2>1, <2>2 DEF VerdictsEarned, Earned
<1>a. chain \in Seq(Token) /\ Len(chain) \in Nat /\ i \in 1..Len(chain) /\ pos \in Nat
  BY ChainFacts DEF Typed, TypeOK
<1>b. /\ verdict \in [1..Len(chain) -> Verdicts] /\ tries \in [1..Len(chain) -> Nat]
      /\ (InCommand => pos \in Work(chain)) /\ Work(chain) \subseteq 1..Len(chain)
  BY ChainFacts DEF Typed, TypeOK, AtPosition
<1>c. Earned(i, verdict[i], tries[i])
  BY DEF VerdictsEarned, Earned
<1>d. pos \in 1..(Len(chain) + 1)
  BY DEF Typed, TypeOK
\* A step that leaves both histories, or a dispatch before any verdict.
<1>1. CASE UNCHANGED <<chain, verdict, tries>>
  BY <1>1, <1>c
<1>2. CASE Dispatch \/ OpenScript
  <2>1. UNCHANGED <<chain, verdict>> /\ tries' = [tries EXCEPT ![pos] = tries[pos] + 1]
          /\ InCommand
    BY <1>2 DEF Dispatch, OpenScript, Resolve, InCommand
  <2>2. pos \in Work(chain) /\ verdict[pos] = "none"
    BY <1>b, <1>2, <2>1 DEF Progress, Dispatch, OpenScript
  <2>3. CASE i = pos
    BY <2>1, <2>2, <2>3 DEF Earned
  <2>4. CASE i # pos
    BY <1>a, <1>b, <1>c, <2>1, <2>4
  <2> QED BY <2>3, <2>4
<1>3. CASE Judge
  <2>1. UNCHANGED <<chain, tries>> /\ pc = "judge" /\ InCommand /\ pos \in 1..Len(chain)
    BY <1>b, <1>3 DEF Judge, InCommand
  <2>2. CASE i # pos
    <3>1. verdict'[i] = verdict[i]
      BY <1>a, <1>b, <1>3, <2>2 DEF Judge
    <3> QED BY <1>c, <2>1, <3>1
  <2>3. CASE i = pos
    <3>1. /\ Granted(i, attempts) /\ (isSoft <=> SoftAt(chain, i))
          /\ tries[i] = attempt /\ attempt \in 1..attempts /\ attempts \in Nat
          /\ (lastErr => attempt = attempts)
      BY <2>1, <2>3 DEF BindInv, ModifiersBind, Counting, Typed, TypeOK
    <3>2. attempts \in {1} \cup {chain[j].n : j \in 1..Len(chain)}
      BY <1>a, <3>1, GrantedCounts
    <3>3. \/ verdict'[i] = "pass"
          \/ verdict'[i] = "softfail" /\ isSoft /\ lastErr
          \/ verdict'[i] = "fail" /\ ~isSoft /\ lastErr
      BY <1>b, <1>3, <2>1, <2>3 DEF Judge
    <3> QED BY <2>1, <3>1, <3>2, <3>3 DEF Earned
  <2> QED BY <2>2, <2>3
<1>4. CASE OfflineStep
  <2>1. chain' = chain /\ OfflineOnly(chain) /\ pc = "offline" /\ pos \in 1..Len(chain)
    BY <1>a, <1>d, <1>4 DEF OfflineStep, Exhausted, Progress
  <2>2. tries' = [tries EXCEPT ![pos] = tries[pos] + 1]
    BY <1>4 DEF OfflineStep
  <2>3. \E v \in {"pass", "fail"} : verdict' = [verdict EXCEPT ![pos] = v]
    BY <1>4 DEF OfflineStep
  <2>4. CASE i # pos
    <3>1. verdict'[i] = verdict[i] /\ tries'[i] = tries[i]
      BY <1>a, <1>b, <2>2, <2>3, <2>4
    <3> QED BY <1>c, <2>1, <3>1
  <2>5. CASE i = pos
    <3>1. tries'[i] = 1
      BY <1>b, <2>1, <2>2, <2>5 DEF Counting
    <3>2. verdict'[i] \in {"pass", "fail"}
      BY <1>b, <2>1, <2>3, <2>5
    <3>3. Granted(i, 1) /\ ~SoftAt(chain, i)
      BY <1>a, <2>1, OfflineGranted, OfflineNotSoft
    <3> QED BY <2>1, <3>1, <3>2, <3>3 DEF Earned
  <2> QED BY <2>4, <2>5
<1>5. CASE \/ Start \/ OfflineEnd \/ LeaveLoop \/ TakeModifier \/ EnterSession \/ Begin
           \/ Report \/ Connect \/ LeaveSession \/ CloseScript \/ ScriptStep \/ Pause
           \/ Shutdown \/ Timeout
  <2>1. UNCHANGED <<chain, verdict, tries>>
    BY <1>5 DEF Start, OfflineEnd, LeaveLoop, TakeModifier, EnterSession, Begin, Report,
       Connect, LeaveSession, CloseScript, ScriptStep, Resolve, Pause, Shutdown, Timeout, ghost
  <2> QED BY <1>1, <2>1
<1>6. CASE UNCHANGED vars
  BY <1>1, <1>6 DEF vars, ghost
<1> QED
  BY <1>2, <1>3, <1>4, <1>5, <1>6 DEF Next, Synchronous, Awaiting, Done

\* In every chain a failure stands for as many dispatches as the text grants,
\* a pass for at most that many, and it is soft exactly if the text says so.
THEOREM VerdictsAlwaysEarned == Spec => []VerdictsEarned
<1>1. Init => VerdictsEarned
  BY DEF Init, VerdictsEarned, Work
<1> QED
  BY TypedInit, TypedStep, BindInit, BindStep, ProgressInit, ProgressStep, CountingInit,
     CountingStep, EarnedStep, <1>1, PTL DEF Spec

------------------------------------------------------------------------------
(* The report and the recording.                                              *)

Named(s) == {s[k] : k \in DOMAIN s}

\* A list of positions extended by a later one stays in chain order.
LEMMA IncreasingAppend ==
  ASSUME NEW n \in Nat, NEW s, NEW t, NEW e \in Nat,
         DOMAIN s = 1..n, DOMAIN t = 1..(n + 1),
         \A k \in 1..n : s[k] \in Nat /\ s[k] < e /\ t[k] = s[k],
         t[n + 1] = e, Increasing(s)
  PROVE  Increasing(t) /\ Named(t) = Named(s) \cup {e}
<1>1. \A k \in 1..(n + 1) : k \in 1..n \/ k = n + 1
  OBVIOUS
<1>2. ASSUME NEW a \in 1..(n + 1), NEW b \in 1..(n + 1), a < b PROVE t[a] < t[b]
  <2>1. a \in 1..n
    BY <1>2
  <2>2. CASE b = n + 1
    BY <2>1, <2>2
  <2>3. CASE b \in 1..n
    BY <1>2, <2>1, <2>3 DEF Increasing
  <2> QED BY <1>1, <2>2, <2>3
<1>3. \A k \in 1..(n + 1) : t[k] \in {s[j] : j \in 1..n} \cup {e}
  BY <1>1
<1>4. \A j \in 1..n : j \in 1..(n + 1) /\ t[j] = s[j]
  OBVIOUS
<1>5. n + 1 \in 1..(n + 1)
  OBVIOUS
<1> QED BY <1>2, <1>3, <1>4, <1>5 DEF Increasing, Named

Positions == [k \in DOMAIN testcases |-> testcases[k].pos]
SoftlyFailed == {i \in Work(chain) : verdict[i] = "softfail"}

\* ReportFaithful in its parts.
Cases ==
  /\ Increasing(Positions)
  /\ Named(Positions) = {i \in Work(chain) : verdict[i] # "none"}
  /\ \A k \in DOMAIN testcases : testcases[k].ok = (verdict[Positions[k]] = "pass")
Softs == Increasing(softFailures) /\ Named(softFailures) = SoftlyFailed

LEMMA ReportParts ==
  ReportFaithful <=> (cli.junit /\ ~OfflineOnly(chain) => Cases) /\ Softs
<1>1. {i \in {j \in Work(chain) : verdict[j] # "none"} : verdict[i] = "softfail"} = SoftlyFailed
  BY DEF SoftlyFailed
<1>2. DOMAIN Positions = DOMAIN testcases
  BY DEF Positions
<1> QED BY <1>1, <1>2 DEF ReportFaithful, Cases, Softs, Named, Positions

LEMMA ReportStep ==
  Typed /\ Progress /\ ReportFaithful /\ [Next]_vars => ReportFaithful'
<1> SUFFICES ASSUME Typed, Progress, (cli.junit /\ ~OfflineOnly(chain) => Cases), Softs,
                    [Next]_vars
             PROVE  (cli.junit /\ ~OfflineOnly(chain) => Cases)' /\ Softs'
  BY ReportParts, PTL
<1>a. /\ verdict \in [1..Len(chain) -> Verdicts] /\ Work(chain) \subseteq 1..Len(chain)
      /\ softFailures \in Seq(1..Len(chain)) /\ pos \in 1..(Len(chain) + 1)
      /\ testcases \in Seq([pos : 1..Len(chain), ok : BOOLEAN])
      /\ Len(chain) \in Nat /\ (InCommand => pos \in Work(chain))
  BY ChainFacts DEF Typed, TypeOK, AtPosition
<1>b. chain' = chain /\ cli' = cli
  BY ChainFixed
\* A step that touches neither the lists nor the verdicts.
<1>1. CASE UNCHANGED <<verdict, softFailures, testcases>>
  BY <1>b, <1>1 DEF Cases, Softs, Named, Positions, SoftlyFailed
<1>2. CASE Judge
  <2>1. pos \in Work(chain) /\ verdict[pos] = "none"
    BY <1>a, <1>2 DEF Judge, InCommand, Progress
  <2>2. PICK v \in {"pass", "softfail", "fail"} :
          /\ verdict' = [verdict EXCEPT ![pos] = v]
          /\ softFailures' = IF v = "softfail" THEN Append(softFailures, pos) ELSE softFailures
          /\ testcases' = IF cli.junit THEN Append(testcases, Testcase) ELSE testcases
          /\ v = "pass" <=> ~lastErr
    BY <1>2 DEF Judge
  <2>3. \A i \in Work(chain) : i # pos => verdict'[i] = verdict[i]
    BY <1>a, <2>1, <2>2
  <2>4. verdict'[pos] = v
    BY <1>a, <2>1, <2>2
  <2>5. \A i \in Work(chain) : verdict[i] # "none" => i < pos
    BY <1>a, <2>1 DEF Progress
  <2>s. Softs'
    <3>1. CASE v # "softfail"
      <4>1. SoftlyFailed' = SoftlyFailed
        BY <1>b, <2>1, <2>3, <2>4, <3>1 DEF SoftlyFailed
      <4> QED BY <2>2, <3>1, <4>1 DEF Softs, Named
    <3>2. CASE v = "softfail"
      <4>1. SoftlyFailed' = SoftlyFailed \cup {pos}
        BY <1>b, <2>1, <2>3, <2>4, <3>2 DEF SoftlyFailed
      <4>2. \A k \in 1..Len(softFailures) : softFailures[k] \in Nat /\ softFailures[k] < pos
        <5>1. ASSUME NEW k \in 1..Len(softFailures)
              PROVE  softFailures[k] \in SoftlyFailed
          BY <1>a DEF Softs, Named
        <5>2. \A i \in SoftlyFailed : i \in Nat /\ i < pos
          BY <1>a, <2>5 DEF SoftlyFailed
        <5> QED BY <5>1, <5>2
      <4>3. softFailures' = Append(softFailures, pos)
        BY <2>2, <3>2
      <4>4. /\ DOMAIN softFailures = 1..Len(softFailures) /\ Len(softFailures) \in Nat
            /\ DOMAIN softFailures' = 1..(Len(softFailures) + 1)
            /\ softFailures'[Len(softFailures) + 1] = pos
            /\ \A k \in 1..Len(softFailures) : softFailures'[k] = softFailures[k]
        BY <1>a, <4>3
      <4>5. PICK t : t = softFailures'
        OBVIOUS
      <4>6. pos \in Nat /\ Increasing(softFailures)
        BY <1>a DEF Softs
      <4>7. /\ DOMAIN t = 1..(Len(softFailures) + 1)
            /\ t[Len(softFailures) + 1] = pos
            /\ \A k \in 1..Len(softFailures) : t[k] = softFailures[k]
        BY <4>4, <4>5
      <4>8. Increasing(t) /\ Named(t) = Named(softFailures) \cup {pos}
        BY <4>2, <4>4, <4>6, <4>7, IncreasingAppend
      <4> QED BY <4>1, <4>5, <4>8 DEF Softs, Named
    <3> QED BY <3>1, <3>2
  <2>c. ASSUME cli.junit, Cases PROVE Cases'
    <3> DEFINE n == Len(testcases)
    <3>1. testcases' = Append(testcases, Testcase)
      BY <2>2, <2>c
    <3>2. /\ n \in Nat /\ DOMAIN testcases = 1..n
          /\ DOMAIN testcases' = 1..(n + 1)
          /\ testcases'[n + 1] = Testcase
          /\ \A k \in 1..n : testcases'[k] = testcases[k] /\ testcases[k].pos \in Nat
      <4>1. /\ n \in Nat /\ DOMAIN testcases = 1..n
            /\ \A k \in 1..n : testcases[k] \in [pos : 1..Len(chain), ok : BOOLEAN]
        <5> DEFINE S == [pos : 1..Len(chain), ok : BOOLEAN]
        <5>1. testcases \in Seq(S)
          BY <1>a
        <5> HIDE DEF S
        <5>2. n \in Nat /\ DOMAIN testcases = 1..n /\ \A k \in 1..n : testcases[k] \in S
          BY <5>1
        <5> QED BY <5>2 DEF S
      <4>2. \A k \in 1..n : testcases[k].pos \in Nat
        BY <1>a, <4>1
      <4>3. /\ DOMAIN testcases' = 1..(n + 1)
            /\ testcases'[n + 1] = Testcase
            /\ \A k \in 1..n : testcases'[k] = testcases[k]
        <5>1. testcases \in Seq([pos : 1..Len(chain), ok : BOOLEAN])
          BY <1>a
        <5> QED BY <3>1, <5>1
      <4> QED BY <4>1, <4>2, <4>3
    <3> HIDE DEF n
    <3>3. /\ DOMAIN Positions = 1..n /\ DOMAIN Positions' = 1..(n + 1)
          /\ Positions'[n + 1] = pos
          /\ \A k \in 1..n : Positions[k] \in Nat /\ Positions'[k] = Positions[k]
      BY <3>2 DEF Positions, Testcase
    <3>4. \A k \in 1..n : Positions[k] < pos /\ Positions[k] \in Work(chain)
      BY <2>5, <2>c, <3>3 DEF Cases, Named
    <3>5. PICK t : t = Positions'
      OBVIOUS
    <3>9. pos \in Nat /\ n \in Nat /\ Increasing(Positions)
      BY <1>a, <2>c, <3>2 DEF Cases
    <3>10. DOMAIN t = 1..(n + 1) /\ t[n + 1] = pos /\ \A k \in 1..n : t[k] = Positions[k]
      BY <3>3, <3>5
    <3>6. Increasing(t) /\ Named(t) = Named(Positions) \cup {pos}
      BY <3>3, <3>4, <3>9, <3>10, IncreasingAppend
    <3>7. Named(Positions') = {i \in Work(chain) : verdict'[i] # "none"}
      BY <2>1, <2>3, <2>4, <2>c, <3>5, <3>6 DEF Cases
    <3>8. ASSUME NEW k \in 1..(n + 1)
          PROVE  testcases'[k].ok = (verdict'[Positions'[k]] = "pass")
      <4>1. CASE k = n + 1
        <5>1. testcases'[k].ok = (~lastErr)
          BY <3>2, <4>1 DEF Testcase
        <5>2. verdict'[Positions'[k]] = v
          BY <2>4, <3>3, <4>1
        <5> QED BY <2>2, <5>1, <5>2
      <4>2. CASE k \in 1..n
        <5>1. testcases'[k] = testcases[k] /\ Positions'[k] = Positions[k]
          BY <3>2, <3>3, <4>2
        <5>2. verdict'[Positions[k]] = verdict[Positions[k]]
          BY <1>a, <2>3, <3>4, <4>2
        <5>3. testcases[k].ok = (verdict[Positions[k]] = "pass")
          BY <2>c, <3>2, <4>2 DEF Cases
        <5> QED BY <5>1, <5>2, <5>3
      <4> QED BY <3>2, <4>1, <4>2
    <3> QED BY <1>b, <3>2, <3>5, <3>6, <3>7, <3>8 DEF Cases, Named
  <2> QED BY <1>b, <2>s, <2>c
<1>3. CASE OfflineStep
  <2>1. OfflineOnly(chain) /\ softFailures' = softFailures
    BY <1>3 DEF OfflineStep, Progress, output
  <2>2. pos \in Work(chain) /\ verdict[pos] = "none"
    BY <1>a, <1>3, <2>1 DEF OfflineStep, Exhausted, OfflineOnly, Work, Scripts, Offline, Progress
  <2>3. PICK v \in {"pass", "fail"} : verdict' = [verdict EXCEPT ![pos] = v]
    BY <1>3 DEF OfflineStep
  <2>4. SoftlyFailed' = SoftlyFailed
    <3>1. \A i \in Work(chain) : verdict'[i] = "softfail" <=> verdict[i] = "softfail"
      BY <1>a, <2>2, <2>3
    <3> QED BY <1>b, <3>1 DEF SoftlyFailed
  <2> QED BY <1>b, <2>1, <2>4 DEF Softs, Named
<1>4. CASE \/ Start \/ OfflineEnd \/ LeaveLoop \/ TakeModifier \/ EnterSession \/ Begin
           \/ Report \/ Connect \/ LeaveSession \/ CloseScript \/ ScriptStep \/ Pause
           \/ Shutdown \/ Timeout \/ Dispatch \/ OpenScript \/ UNCHANGED vars
  <2>1. UNCHANGED <<verdict, softFailures, testcases>>
    BY <1>4 DEF Start, OfflineEnd, LeaveLoop, TakeModifier, EnterSession, Begin, Report,
       Connect, LeaveSession, CloseScript, ScriptStep, Resolve, Pause, Shutdown, Timeout,
       Dispatch, OpenScript, vars, ghost, output
  <2> QED BY <1>1, <2>1
<1> QED
  BY <1>2, <1>3, <1>4 DEF Next, Synchronous, Awaiting, Done

\* In every chain the report and the list of soft failures name each concluded
\* command once, in order and with its outcome.
LEMMA ReportAlwaysFaithful == Spec => []ReportFaithful
<1>1. Init => ReportFaithful
  BY DEF Init, ReportFaithful, Increasing, Work
<1> QED
  BY TypedInit, TypedStep, ProgressInit, ProgressStep, ReportStep, <1>1, PTL DEF Spec

\* RecordingFaithful needs to know that at the head of the loop nothing at or
\* past the position is recorded yet, and that a command at work is.
Kept == {i \in Work(chain) : chain[i].op \notin Unrecorded}

Recording ==
  /\ Increasing(recorded)
  /\ \A k \in DOMAIN recorded : recorded[k] \in Kept /\ recorded[k] <= pos
  /\ cli.record /\ ~OfflineOnly(chain) => {i \in Kept : tries[i] > 0} \subseteq Named(recorded)
  /\ pc \in {"start", "connect", "top"} => \A k \in DOMAIN recorded : recorded[k] < pos
  /\ InCommand /\ cli.record /\ pos \in Kept => pos \in Named(recorded)

LEMMA RecordingStep == Typed /\ Progress /\ Recording /\ [Next]_vars => Recording'
<1> SUFFICES ASSUME Typed, Progress, Recording, [Next]_vars
             PROVE  Recording'
  OBVIOUS
<1>a. /\ Len(chain) \in Nat /\ pos \in 1..(Len(chain) + 1) /\ Work(chain) \subseteq 1..Len(chain)
      /\ tries \in [1..Len(chain) -> Nat] /\ recorded \in Seq(1..Len(chain))
      /\ (InCommand => pos \in Work(chain))
  BY ChainFacts DEF Typed, TypeOK, AtPosition
<1>b. chain' = chain /\ cli' = cli /\ Kept' = Kept
  BY ChainFixed DEF Kept
<1>c. /\ DOMAIN recorded = 1..Len(recorded) /\ Len(recorded) \in Nat
      /\ \A k \in DOMAIN recorded : recorded[k] \in Nat
  BY <1>a
<1>d. \A i \in Work(chain) : i \in Nat
  BY <1>a
\* A step that neither records nor dispatches, and stays within the command or
\* leaves it behind.
<1>1. ASSUME UNCHANGED <<recorded, tries>>,
             \/ pos' = pos /\ (InCommand' => InCommand)
             \/ pos' = pos + 1 /\ ~InCommand',
             pc' \in {"start", "connect", "top"} =>
               (pc \in {"start", "connect", "top"} /\ pos' = pos) \/ pos' = pos + 1
      PROVE  Recording'
  <2>1. \A k \in DOMAIN recorded : recorded[k] <= pos'
    BY <1>a, <1>c, <1>1 DEF Recording
  <2>2. pc' \in {"start", "connect", "top"} => \A k \in DOMAIN recorded : recorded[k] < pos'
    BY <1>a, <1>c, <1>1 DEF Recording
  <2>3. InCommand' /\ cli.record /\ pos' \in Kept => pos' \in Named(recorded)
    BY <1>1 DEF Recording
  <2> QED BY <1>b, <1>1, <2>1, <2>2, <2>3 DEF Recording, Named
<1>2. CASE TakeModifier \/ LeaveSession \/ Judge
  <2>1. UNCHANGED <<recorded, tries>>
    BY <1>2 DEF TakeModifier, LeaveSession, Judge, output, ghost
  <2>2. \/ pc' = "top" /\ pos' = pos + 1
        \/ pc' = "report" /\ pos' = pos
    BY <1>2 DEF TakeModifier, LeaveSession, Judge, Stop, AtCommand
  <2> QED BY <1>1, <2>1, <2>2 DEF InCommand
<1>3. CASE \/ Start \/ OfflineEnd \/ LeaveLoop \/ EnterSession \/ Report \/ Connect
           \/ Shutdown \/ Timeout
  <2>1. UNCHANGED <<recorded, tries, pos>>
    BY <1>3 DEF Start, OfflineEnd, LeaveLoop, EnterSession, Report, Connect, Shutdown,
       Timeout, output, ghost
  <2>2. /\ pc' \in {"offline", "connect", "done", "report", "repl", "top", "shutdown"}
        /\ pc' \in {"connect", "top"} => pc \in {"start", "connect"}
    BY <1>3 DEF Start, OfflineEnd, LeaveLoop, EnterSession, Report, Connect, Shutdown,
       Timeout, Return
  <2> QED BY <1>1, <2>1, <2>2 DEF InCommand
<1>4. CASE CloseScript \/ ScriptStep \/ Pause
  <2>1. UNCHANGED <<recorded, tries, pos>> /\ InCommand
    BY <1>4 DEF CloseScript, ScriptStep, Pause, Resolve, output, ghost, InCommand
  <2>2. pc' \in {"script", "pause", "judge", "dispatch", "done"}
    BY <1>4 DEF CloseScript, ScriptStep, Pause, Resolve, Return
  <2> QED BY <1>1, <2>1, <2>2
<1>5. CASE Dispatch \/ OpenScript
  <2>1. UNCHANGED <<recorded, pos>> /\ InCommand /\ pc' \in {"script", "pause", "judge"}
    BY <1>5 DEF Dispatch, OpenScript, Resolve, output, InCommand
  <2>2. tries' = [tries EXCEPT ![pos] = tries[pos] + 1]
    BY <1>5 DEF Dispatch, OpenScript
  <2>3. \A i \in Kept : i # pos => tries'[i] = tries[i]
    BY <1>a, <2>2 DEF Kept
  <2>4. cli.record /\ ~OfflineOnly(chain) => {i \in Kept : tries'[i] > 0} \subseteq Named(recorded)
    BY <2>1, <2>3 DEF Recording
  <2>5. \A k \in DOMAIN recorded : recorded[k] \in Kept /\ recorded[k] <= pos
    BY DEF Recording
  <2>6. cli.record /\ pos \in Kept => pos \in Named(recorded)
    BY <2>1 DEF Recording
  <2> QED BY <1>b, <2>1, <2>4, <2>5, <2>6 DEF Recording, Named
<1>6. CASE OfflineStep
  <2>1. UNCHANGED recorded /\ OfflineOnly(chain) /\ pc' \in {"offline", "done"}
          /\ pos' \in {pos, pos + 1}
    BY <1>6 DEF OfflineStep, Progress, output, Return
  <2>2. \A k \in DOMAIN recorded : recorded[k] <= pos'
    BY <1>a, <1>c, <2>1 DEF Recording
  <2> QED BY <1>b, <2>1, <2>2 DEF Recording, Named, InCommand
<1>7. CASE Begin
  <2>1. /\ UNCHANGED <<tries, pos>> /\ pos \in Work(chain) /\ pc = "top"
        /\ pc' \in {"dispatch", "done"}
        /\ \/ recorded' = recorded /\ (pc' = "done" \/ ~Recordable)
           \/ recorded' = Append(recorded, pos) /\ Recordable
    BY <1>7 DEF Begin, AtCommand, ghost, Return
  <2>2. \A k \in DOMAIN recorded : recorded[k] < pos
    BY <2>1 DEF Recording
  <2>3. Recordable <=> cli.record /\ pos \in Kept
    BY <2>1 DEF Recordable, Kept, Cur
  <2>4. CASE recorded' = recorded /\ (pc' = "done" \/ ~Recordable)
    <3>1. InCommand' /\ cli.record => pos \notin Kept
      BY <2>3, <2>4 DEF InCommand
    <3> QED BY <1>b, <2>1, <2>4, <3>1 DEF Recording, Named
  <2>5. CASE recorded' = Append(recorded, pos) /\ Recordable
    <3> DEFINE n == Len(recorded)
    <3>1. /\ DOMAIN recorded' = 1..(n + 1) /\ recorded'[n + 1] = pos
          /\ \A k \in 1..n : recorded'[k] = recorded[k]
      BY <1>a, <2>5
    <3>2. /\ n \in Nat /\ DOMAIN recorded = 1..n
          /\ \A k \in 1..n : recorded[k] \in Nat /\ recorded[k] < pos
      BY <1>c, <2>2
    <3>3. PICK t : t = recorded'
      OBVIOUS
    <3>4. pos \in Nat /\ Increasing(recorded)
      BY <1>a DEF Recording
    <3> HIDE DEF n
    <3>5. DOMAIN t = 1..(n + 1) /\ t[n + 1] = pos /\ \A k \in 1..n : t[k] = recorded[k]
      BY <3>1, <3>3
    <3>6. Increasing(t) /\ Named(t) = Named(recorded) \cup {pos}
      BY <3>2, <3>4, <3>5, IncreasingAppend
    <3>7. \A k \in DOMAIN t : t[k] \in Kept /\ t[k] <= pos
      <4>1. \A k \in 1..(n + 1) : k \in 1..n \/ k = n + 1
        BY <3>2
      <4>2. \A k \in 1..n : t[k] \in Kept /\ t[k] <= pos
        BY <3>2, <3>5 DEF Recording
      <4>3. t[n + 1] \in Kept /\ t[n + 1] <= pos
        BY <2>3, <2>5, <3>4, <3>5
      <4> QED BY <3>5, <4>1, <4>2, <4>3
    <3>8. cli.record /\ ~OfflineOnly(chain) => {i \in Kept : tries[i] > 0} \subseteq Named(t)
      BY <3>6 DEF Recording
    <3> QED BY <1>b, <2>1, <3>3, <3>6, <3>7, <3>8 DEF Recording
  <2> QED BY <2>1, <2>4, <2>5
<1>8. CASE UNCHANGED vars
  BY <1>1, <1>8 DEF vars, output, ghost, InCommand
<1> QED
  BY <1>2, <1>3, <1>4, <1>5, <1>6, <1>7, <1>8 DEF Next, Synchronous, Awaiting, Done

\* In every chain the recording holds what was dispatched, each command once
\* and in order.
LEMMA RecordingAlwaysFaithful == Spec => []RecordingFaithful
<1>1. Init => Recording
  BY DEF Init, Recording, Increasing, Kept, Work, InCommand
<1>2. Recording => RecordingFaithful
  BY DEF Recording, RecordingFaithful, Kept, Named
<1> QED
  BY TypedInit, TypedStep, ProgressInit, ProgressStep, RecordingStep, <1>1, <1>2, PTL DEF Spec

\* In every chain, and however it ends, the report, the list of soft failures and
\* the recording say what was done, and an ordinary end closes the connection.
THEOREM RunAlwaysAccounted == Spec => []RunAccounted
<1>1. ReportFaithful /\ RecordingFaithful /\ EndsGracefully => RunAccounted
  BY DEF RunAccounted
<1> QED
  BY <1>1, ReportAlwaysFaithful, RecordingAlwaysFaithful, ChainEndsGracefully, PTL

------------------------------------------------------------------------------
(* The runner implements the contract. Beyond what is settled behind pos, the *)
(* contract asks where a run may end: connecting fails before anything was    *)
(* done, and a session fails only where the chain says `session`.             *)

Standing ==
  /\ pc \in {"start", "connect"} => pos = 1
  /\ chainError = "session" => pos \in 1..Len(chain) /\ Cur.op = "session"

LEMMA StandingStep == Typed /\ Progress /\ Standing /\ [Next]_vars => Standing'
<1> SUFFICES ASSUME Typed, Progress, Standing, [Next]_vars
             PROVE  Standing'
  OBVIOUS
<1> USE DEF Standing, Return
<1>1. CASE Start
  BY <1>1 DEF Start, Cur
<1>2. CASE LeaveSession
  BY <1>2 DEF LeaveSession, Typed, AtPosition, Cur, Progress
<1>3. CASE \/ TakeModifier \/ EnterSession \/ Begin \/ Dispatch \/ OpenScript
           \/ CloseScript \/ ScriptStep \/ Pause \/ Judge \/ OfflineStep
  <2>1. chainError # "session"
    BY <1>3 DEF TakeModifier, EnterSession, Begin, AtCommand, Dispatch, OpenScript,
       CloseScript, ScriptStep, Pause, Judge, OfflineStep, Progress
  <2>2. chainError' # "session" /\ pc' \notin {"start", "connect"}
    <3>1. CASE TakeModifier \/ EnterSession \/ Begin \/ Pause \/ OfflineStep
      BY <2>1, <3>1 DEF TakeModifier, EnterSession, Begin, AtCommand, Pause, OfflineStep
    <3>2. CASE Dispatch \/ OpenScript \/ CloseScript \/ ScriptStep
      BY <2>1, <3>2 DEF Dispatch, OpenScript, CloseScript, ScriptStep, Resolve
    <3>3. CASE Judge
      BY <2>1, <3>3 DEF Judge, Stop
    <3> QED BY <1>3, <3>1, <3>2, <3>3
  <2> QED BY <2>2
<1>4. CASE OfflineEnd \/ Connect \/ LeaveLoop \/ Report \/ Shutdown \/ Timeout
  <2>1. UNCHANGED <<chain, pos, chainError>> /\ pc' \notin {"start", "connect"}
    BY <1>4 DEF OfflineEnd, Connect, LeaveLoop, Report, Shutdown, Timeout
  <2> QED BY <2>1 DEF Cur
<1>5. CASE UNCHANGED vars
  BY <1>5 DEF vars, Cur
<1> QED BY <1>1, <1>2, <1>3, <1>4, <1>5 DEF Next, Synchronous, Awaiting, Done

\* The contract reads the chain the way the runner's properties do.
LEMMA SameReading ==
  ASSUME NEW c, NEW i
  PROVE  /\ Contract!Work(c) = Work(c) /\ (Contract!SoftAt(c, i) <=> SoftAt(c, i))
         /\ \A n : Contract!RetryBinds(c, i, n) <=> RetryBinds(c, i, n)
<1>1. Contract!Window(c, i) = Window(c, i)
  BY DEF Window, Contract!Window, IsModifier, Contract!IsModifier
<1> QED
  BY <1>1 DEF Work, Contract!Work, SoftAt, Contract!SoftAt, RetryBinds,
     Contract!RetryBinds, Scripts, Contract!Scripts, Offline, Contract!Offline

\* What the contract needs to know of a run that ends, or stands at pos.
LEMMA ContractReady ==
  ASSUME Typed, Progress
  PROVE  /\ chainError = "command" => ~Contract!NoFailure
         /\ result = "running" /\ chainError # "command" => Contract!NoFailure
         /\ pos > Len(chain) => Contract!AllConcluded
         /\ result = "running" /\ chainError # "command" =>
              Contract!Current(pos) /\ (pos = 1 => Contract!NothingYet)
<1>1. /\ \A i \in Work(chain) : i \in Nat /\ i <= Len(chain) /\ i >= 1
      /\ Len(chain) \in Nat /\ pos \in Nat
  BY ChainFacts DEF Typed, TypeOK
<1>2. chainError = "command" => ~Contract!NoFailure
  BY SameReading DEF Progress, Contract!NoFailure
<1>3. ASSUME result = "running", chainError # "command", NEW i \in Work(chain)
      PROVE  verdict[i] # "fail" /\ (verdict[i] # "none" <=> i < pos)
  <2>1. CASE i < pos
    BY <1>3, <2>1 DEF Progress, Settled
  <2>2. CASE i = pos
    BY <1>1, <1>3, <2>2 DEF Progress
  <2>3. CASE i > pos
    BY <1>1, <1>3, <2>3 DEF Progress
  <2> QED BY <1>1, <2>1, <2>2, <2>3
<1>4. ASSUME pos > Len(chain), NEW i \in Work(chain) PROVE verdict[i] # "none"
  BY <1>1, <1>4 DEF Progress, Settled
<1>5. ASSUME result = "running", chainError # "command", pos = 1, NEW i \in Work(chain)
      PROVE  verdict[i] = "none"
  BY <1>1, <1>3, <1>5
<1> QED
  BY <1>2, <1>3, <1>4, <1>5, SameReading
  DEF Contract!NoFailure, Contract!AllConcluded, Contract!Current, Contract!NothingYet

\* Position pos may conclude with v, alone or together with the run.
LEMMA ContractConcludes ==
  ASSUME Typed, Progress, NEW v \in {"pass", "softfail", "fail"},
         pos \in Work(chain), verdict[pos] = "none",
         result = "running", chainError = "none",
         v = "softfail" => SoftAt(chain, pos), v = "fail" => ~SoftAt(chain, pos),
         verdict' = [verdict EXCEPT ![pos] = v], chain' = chain,
         \/ result' = result
         \/ v = "fail" /\ result' = "command",
         peerDown' \in BOOLEAN
  PROVE  Contract!CNext
<1>1. Contract!Current(pos)
  BY ContractReady
<1>2. Contract!NoFailure
  BY ContractReady
<1>3. Contract!Conclude(pos, v)
  BY <1>1, <1>2, SameReading DEF Contract!Conclude
<1> QED BY <1>3, SameReading DEF Contract!CNext

LEMMA ContractStep ==
  Typed /\ Typed' /\ BindInv /\ Progress /\ Counting /\ Standing /\ [Next]_vars
    => [Contract!CNext]_Contract!cvars
<1> SUFFICES ASSUME Typed, Typed', BindInv, Progress, Counting, Standing, [Next]_vars
             PROVE  [Contract!CNext]_Contract!cvars
  OBVIOUS
<1>a. peerDown' \in BOOLEAN
  BY DEF Typed, TypeOK
<1>b. InCommand => pos \in Work(chain) /\ (isSoft <=> SoftAt(chain, pos))
  BY DEF Typed, AtPosition, BindInv, ModifiersBind
<1>c. chain \in Seq(Token) /\ Len(chain) \in Nat /\ pos \in 1..(Len(chain) + 1)
  BY ChainFacts DEF Typed, TypeOK
<1>d. result # "running" => pc = "done"
  BY DEF Progress
\* A step that leaves the chain, the verdicts and a running result is none.
<1>e. ASSUME result = "running", UNCHANGED <<chain, verdict, result>>
      PROVE  Contract!CNext
  BY <1>a, <1>e DEF Contract!CNext, Contract!Idle
\* The ends that are none of a command's are the contract's.
<1>f. ASSUME result = "running", UNCHANGED <<chain, verdict>>,
             \/ result' \in {"timeout", "junit"}
             \/ result' = "connect" /\ pos = 1 /\ chainError # "command"
             \/ result' = "record" /\ pos \in Work(chain) /\ chainError # "command"
             \/ /\ result' = "session" /\ chainError # "command"
                /\ pos \in 1..Len(chain) /\ Cur.op = "session"
      PROVE  Contract!CNext
  <2>1. chainError # "command" =>
          Contract!NoFailure /\ Contract!Current(pos) /\ (pos = 1 => Contract!NothingYet)
    BY <1>f, ContractReady
  <2>2. Contract!FailOutside
    BY <1>f, <2>1, SameReading DEF Contract!FailOutside, Cur
  <2> QED BY <1>a, <2>2 DEF Contract!CNext
<1>1. CASE Start \/ LeaveLoop \/ TakeModifier \/ EnterSession \/ LeaveSession \/ Dispatch
             \/ OpenScript \/ CloseScript \/ ScriptStep
  <2>1. pc # "done" /\ UNCHANGED <<chain, verdict, result>>
    BY <1>1 DEF Start, LeaveLoop, TakeModifier, EnterSession, LeaveSession, Dispatch,
       OpenScript, CloseScript, ScriptStep, AtCommand, Resolve, ghost
  <2> QED BY <1>d, <1>e, <2>1
<1>2. CASE Connect \/ Begin \/ Report \/ Timeout
  <2>1. pc # "done" /\ UNCHANGED <<chain, verdict>>
    BY <1>2 DEF Connect, Begin, Report, Timeout, AwaitPoints, AtCommand, ghost
  <2>2. CASE result' = result
    BY <1>d, <1>e, <2>1, <2>2
  <2>3. CASE Connect /\ result' # result
    <3>1. pos = 1 /\ chainError # "command" /\ result' = "connect"
      BY <2>3 DEF Connect, Return, Standing, Progress
    <3> QED BY <1>d, <1>f, <2>1, <3>1
  <2>4. CASE Begin /\ result' # result
    <3>1. pos \in Work(chain) /\ chainError # "command" /\ result' = "record"
      BY <2>4 DEF Begin, AtCommand, Return, Progress
    <3> QED BY <1>d, <1>f, <2>1, <3>1
  <2>5. CASE (Report \/ Timeout) /\ result' # result
    <3>1. result' \in {"junit", "timeout"}
      BY <2>5 DEF Report, Timeout, Return
    <3> QED BY <1>d, <1>f, <2>1, <3>1
  <2> QED BY <1>2, <2>2, <2>3, <2>4, <2>5
\* Either the next attempt, or the end of the run where a retry is in force.
<1>8. CASE Pause
  <2>1. pc = "pause" /\ UNCHANGED <<chain, verdict>> /\ result = "running"
    BY <1>8, <1>d DEF Pause, ghost
  <2>2. CASE result' = result
    BY <1>e, <2>1, <2>2
  <2>3. CASE result' = "pause"
    <3>1. /\ pos \in Work(chain) /\ chainError # "command"
          /\ attempts \in Nat /\ attempts > 1
      BY <1>b, <2>1 DEF InCommand, Progress, Counting, Typed, TypeOK
    <3>2. RetryBinds(chain, pos, attempts)
      BY <2>1, <3>1 DEF BindInv, ModifiersBind, InCommand, Granted
    <3>3. PICK j \in 1..Len(chain) : chain[j].n = attempts
      <4>1. \A j \in Window(chain, pos) : j \in 1..Len(chain)
        BY <1>c DEF Window
      <4> QED BY <3>1, <3>2, <4>1 DEF RetryBinds
    <3>4. Contract!NoFailure /\ Contract!Current(pos)
      BY <2>1, <3>1, ContractReady
    <3>5. Contract!FailInPause
      BY <2>1, <2>3, <3>1, <3>2, <3>3, <3>4, SameReading DEF Contract!FailInPause
    <3> QED BY <1>a, <3>5 DEF Contract!CNext
  <2> QED BY <1>8, <2>2, <2>3 DEF Pause, Return
<1>3. CASE OfflineEnd
  <2>1. /\ result = "running" /\ result' = "ok" /\ UNCHANGED <<chain, verdict>>
        /\ chainError = "none" /\ pos > Len(chain)
    BY <1>3 DEF OfflineEnd, Return, Exhausted, ghost, Progress
  <2>2. Contract!Succeed
    BY <2>1, ContractReady, SameReading DEF Contract!Succeed
  <2> QED BY <1>a, <2>2 DEF Contract!CNext
<1>4. CASE OfflineStep
  <2>1. /\ pos \in 1..Len(chain) /\ OfflineOnly(chain) /\ result = "running"
        /\ chainError = "none" /\ chain' = chain
    BY <1>c, <1>4 DEF OfflineStep, Exhausted, Progress
  <2>2. pos \in Work(chain) /\ verdict[pos] = "none" /\ ~SoftAt(chain, pos)
    BY <1>c, <2>1, OfflineNotSoft DEF OfflineOnly, Work, Scripts, Offline, Progress
  <2>3. \/ verdict' = [verdict EXCEPT ![pos] = "pass"] /\ result' = result
        \/ verdict' = [verdict EXCEPT ![pos] = "fail"] /\ result' = "command"
    BY <1>4 DEF OfflineStep, Return
  <2>4. CASE verdict' = [verdict EXCEPT ![pos] = "pass"] /\ result' = result
    BY <1>a, <2>1, <2>2, <2>4, ContractConcludes
  <2>5. CASE verdict' = [verdict EXCEPT ![pos] = "fail"] /\ result' = "command"
    BY <1>a, <2>1, <2>2, <2>5, ContractConcludes
  <2> QED BY <2>3, <2>4, <2>5
<1>5. CASE Judge
  <2>1. /\ pos \in Work(chain) /\ (isSoft <=> SoftAt(chain, pos))
        /\ result = "running" /\ chainError = "none" /\ verdict[pos] = "none"
        /\ UNCHANGED <<chain, result>>
    BY <1>b, <1>5 DEF Judge, InCommand, Progress
  <2>2. \/ verdict' = [verdict EXCEPT ![pos] = "pass"]
        \/ verdict' = [verdict EXCEPT ![pos] = "softfail"] /\ isSoft
        \/ verdict' = [verdict EXCEPT ![pos] = "fail"] /\ ~isSoft
    BY <1>5 DEF Judge
  <2>3. CASE verdict' = [verdict EXCEPT ![pos] = "pass"]
    BY <1>a, <2>1, <2>3, ContractConcludes
  <2>4. CASE verdict' = [verdict EXCEPT ![pos] = "softfail"] /\ isSoft
    BY <1>a, <2>1, <2>4, ContractConcludes
  <2>5. CASE verdict' = [verdict EXCEPT ![pos] = "fail"] /\ ~isSoft
    BY <1>a, <2>1, <2>5, ContractConcludes
  <2> QED BY <2>2, <2>3, <2>4, <2>5
<1>6. CASE Shutdown
  <2>1. result = "running" /\ UNCHANGED <<chain, verdict>> /\ pc = "shutdown"
    BY <1>6 DEF Shutdown, ghost, Progress
  <2>2. CASE chainError = "none"
    <3>1. result' = "ok" /\ (peerDown \/ pos > Len(chain))
      BY <1>6, <2>1, <2>2 DEF Shutdown, Return, Outcome, Progress
    <3>2. Contract!NoFailure /\ (pos > Len(chain) => Contract!AllConcluded)
      BY <2>1, <2>2, ContractReady
    <3>3. Contract!Succeed \/ Contract!CutShort
      BY <2>1, <3>1, <3>2 DEF Contract!Succeed, Contract!CutShort
    <3> QED BY <1>a, <3>3 DEF Contract!CNext
  <2>3. CASE chainError = "command"
    <3>1. result' = "command"
      BY <1>6, <2>3 DEF Shutdown, Return, Outcome
    <3>2. Contract!FailByCommand
      BY <2>1, <2>3, <3>1, ContractReady DEF Contract!FailByCommand
    <3> QED BY <1>a, <3>2 DEF Contract!CNext
  <2>4. CASE chainError = "session"
    BY <1>f, <1>6, <2>1, <2>4 DEF Shutdown, Return, Outcome, Standing
  <2> QED BY <2>2, <2>3, <2>4 DEF Typed, TypeOK
<1>7. CASE UNCHANGED vars
  BY <1>7 DEF vars, ghost, Contract!cvars
<1> QED
  BY <1>1, <1>2, <1>3, <1>4, <1>5, <1>6, <1>7, <1>8
  DEF Next, Synchronous, Awaiting, Done

\* For every chain, the exit status is what exit-codes.md says of the verdicts:
\* order, soft failures that do not stop it, a hard failure that does, and 0 only
\* when all commands passed or failed softly; except exactly for a chain cut
\* short by the server (0) and for an error in the pause of a retry (1).
THEOREM RunnerImplementsContract == Spec => ImplementsContract
<1>1. Init => Contract!CInit
  BY DEF Init, Contract!CInit
<1>2. Init => Standing
  BY DEF Init, Standing
<1> QED
  BY TypedInit, TypedStep, BindInit, BindStep, ProgressInit, ProgressStep, CountingInit,
     CountingStep, StandingStep, ContractStep, <1>1, <1>2, PTL
  DEF Spec, ImplementsContract, Contract!CSpec
==============================================================================
