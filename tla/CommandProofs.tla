---------------------------- MODULE CommandProofs ----------------------------
(***************************************************************************)
(* Proofs about two commands that share nothing: rdpsee scan, for every    *)
(* number of targets, every bound on the probes that run at a time and     *)
(* every timeout; and rdpdo session, for every input, piped or typed, of   *)
(* any length, and any number of deactivations.                            *)
(***************************************************************************)
EXTENDS ScanProperties, ReplProperties, TLAPS

------------------------------------------------------------------------------
(* rdpsee scan. *)

Real == {"reachable", "tls", "nla", "egfx"}

\* What a row says the server can do, as --expect reads it.
Shows(r, c) ==
  CASE c = "reachable" -> r.reachable
    [] c = "tls" -> r.security \notin {"none", "STANDARD_RDP_SECURITY"}
    [] c = "nla" -> r.nla
    [] c = "egfx" -> r.egfx

\* A row is true when it says of each capability what the server's behaviour
\* says, and names its own server.
TrueRow(i, r, behaviour) ==
  /\ r.server = i
  /\ \A c \in Real : Shows(r, c) <=> c \in Has(behaviour)

------------------------------------------------------------------------------
(* The rows of one probe. *)

\* Every row a probe returns is true of the server it probed: the confirm, the
\* refused connection, the one that is dropped, garbage and silence.
LEMMA RowsTrue ==
  ASSUME NEW i \in All
  PROVE  /\ \A a \in Answers : TrueRow(i, Confirmed(i, a), a)
         /\ TrueRow(i, [NoReport EXCEPT !.server = i], "refuses")
         /\ TrueRow(i, [NoReport EXCEPT !.server = i], "drops")
         /\ TrueRow(i, NotRdp(i), "other")
         /\ TrueRow(i, NotRdp(i), "silent")
<1>1. ASSUME NEW a \in Answers PROVE TrueRow(i, Confirmed(i, a), a)
  <2> USE DEF TrueRow, Confirmed, Report, Shows, Real, Has
  <2>1. CASE a = "hybrid-egfx"
    BY <2>1
  <2>2. CASE a = "hybrid"
    BY <2>2
  <2>3. CASE a = "ssl-egfx"
    BY <2>3
  <2>4. CASE a = "standard"
    BY <2>4
  <2>5. CASE a = "needs-hybrid"
    BY <2>5
  <2>6. CASE a = "refuses-ssl"
    BY <2>6
  <2> QED BY ScanAssumption, <2>1, <2>2, <2>3, <2>4, <2>5, <2>6
<1>2. /\ TrueRow(i, [NoReport EXCEPT !.server = i], "refuses")
      /\ TrueRow(i, [NoReport EXCEPT !.server = i], "drops")
  BY DEF TrueRow, NoReport, Report, Shows, Real, Has
<1>3. TrueRow(i, NotRdp(i), "other") /\ TrueRow(i, NotRdp(i), "silent")
  BY DEF TrueRow, NotRdp, Report, Shows, Real, Has
<1> QED BY <1>1, <1>2, <1>3

\* A true row meets what is expected exactly when the server has it.
LEMMA MeetsIsHas ==
  ASSUME expected \subseteq Real, NEW i, NEW r, NEW behaviour,
         TrueRow(i, r, behaviour)
  PROVE  Meets(r) <=> expected \subseteq Has(behaviour)
<1>1. Meets(r) <=> \A c \in expected : Shows(r, c)
  BY DEF Meets, Shows, Real
<1>2. (\A c \in expected : Shows(r, c)) <=> \A c \in expected : c \in Has(behaviour)
  BY DEF TrueRow
<1> QED BY <1>1, <1>2

------------------------------------------------------------------------------
(* The invariant. *)

Securities == {"none", "HYBRID", "SSL", "STANDARD_RDP_SECURITY"}
Row == [server : Nat, reachable : BOOLEAN, security : Securities, nla : BOOLEAN, egfx : BOOLEAN]

Types ==
  /\ expected \subseteq Capabilities
  /\ task \in [All -> {"new", "connecting", "header", "body", "done", "collected"}]
  /\ DOMAIN report = All /\ DOMAIN truth = All
  /\ chunk \in 0..Targets
  /\ reports \in Seq(Row)

\* The chunks cover the targets from the first on, and the rows those from the
\* first on whose handle has been awaited.
InTurn ==
  /\ Len(reports) <= chunk
  /\ \A i \in All : task[i] = "new" <=> i > chunk
  /\ \A i \in All : task[i] = "collected" <=> i <= Len(reports)

\* What a probe returned is true of its server, and it is what was collected.
RowsFaithful ==
  /\ \A i \in All : task[i] \in {"done", "collected"} =>
       report[i] \in Row /\ TrueRow(i, report[i], truth[i])
  /\ \A k \in 1..Len(reports) : reports[k] = report[k]

IInv ==
  /\ Types
  /\ Running => InTurn /\ RowsFaithful
  /\ RowsInOrder
  /\ VerdictSound

LEMMA InitHolds == Init => IInv
<1> SUFFICES ASSUME Init PROVE IInv
  OBVIOUS
<1>1. Types
  BY ScanAssumption DEF Init, Types
<1>2. InTurn /\ RowsFaithful
  BY DEF Init, InTurn, RowsFaithful, All
<1>3. RowsInOrder /\ VerdictSound
  BY DEF Init, RowsInOrder, VerdictSound
<1> QED BY <1>1, <1>2, <1>3 DEF IInv

\* A probe that goes on to its next read.
LEMMA MovesKeeps ==
  ASSUME IInv, Running, NEW i \in All, task[i] \in {"connecting", "header", "body"},
         NEW to \in {"header", "body"}, NEW timer, Moves(i, to, timer),
         UNCHANGED <<Main, truth>>
  PROVE  IInv'
<1>1. /\ task' = [task EXCEPT ![i] = to]
      /\ UNCHANGED <<expected, report, chunk, reports, overall, result, truth>>
  BY DEF Moves, Main
<1>2. Types'
  BY <1>1 DEF IInv, Types
<1>3. InTurn'
  BY <1>1 DEF IInv, Types, InTurn
<1>4. RowsFaithful'
  <2>1. \A j \in All : task'[j] \in {"done", "collected"} => task[j] = task'[j]
    BY <1>1 DEF IInv, Types
  <2> QED BY <1>1, <2>1 DEF IInv, RowsFaithful
<1>5. RowsInOrder' /\ VerdictSound'
  BY <1>1 DEF IInv, RowsInOrder, VerdictSound, Running
<1> QED BY <1>2, <1>3, <1>4, <1>5 DEF IInv

\* A probe that returns with a row that is true of its server.
LEMMA ReturnsKeeps ==
  ASSUME IInv, Running, NEW i \in All, task[i] \in {"connecting", "header", "body"},
         NEW r \in Row, NEW behaviour, TrueRow(i, r, behaviour),
         Returns(i, r), Known(i, behaviour), UNCHANGED Main
  PROVE  IInv'
<1>1. /\ task' = [task EXCEPT ![i] = "done"]
      /\ report' = [report EXCEPT ![i] = r]
      /\ truth' = [truth EXCEPT ![i] = behaviour]
      /\ UNCHANGED <<expected, chunk, reports, overall, result>>
  BY DEF Returns, Known, Main
<1>2. Types'
  BY <1>1 DEF IInv, Types
<1>3. InTurn'
  BY <1>1 DEF IInv, Types, InTurn
<1>4. RowsFaithful'
  <2>1. ASSUME NEW j \in All, task'[j] \in {"done", "collected"}
        PROVE  report'[j] \in Row /\ TrueRow(j, report'[j], truth'[j])
    <3>1. CASE j = i
      BY <1>1, <3>1 DEF IInv, Types
    <3>2. CASE j # i
      <4>1. task[j] = task'[j] /\ report'[j] = report[j] /\ truth'[j] = truth[j]
        BY <1>1, <3>2 DEF IInv, Types
      <4> QED BY <2>1, <4>1 DEF IInv, RowsFaithful
    <3> QED BY <3>1, <3>2
  <2>2. \A k \in 1..Len(reports) : k # i
    BY DEF IInv, Types, InTurn, All
  <2>3. \A k \in 1..Len(reports') : reports'[k] = report'[k]
    BY <1>1, <2>2 DEF IInv, Types, InTurn, RowsFaithful
  <2> QED BY <2>1, <2>3 DEF RowsFaithful
<1>5. RowsInOrder' /\ VerdictSound'
  BY <1>1 DEF IInv, RowsInOrder, VerdictSound, Running
<1> QED BY <1>2, <1>3, <1>4, <1>5 DEF IInv

\* Rows are rows.
LEMMA RowType ==
  ASSUME NEW i \in All
  PROVE  /\ \A a \in Answers : Confirmed(i, a) \in Row
         /\ NotRdp(i) \in Row
         /\ [NoReport EXCEPT !.server = i] \in Row
<1>1. ASSUME NEW up \in BOOLEAN, NEW nla \in BOOLEAN, NEW egfx \in BOOLEAN, NEW s \in Securities
      PROVE  Report(i, up, s, nla, egfx) \in Row
  <2>1. i \in Nat
    BY ScanAssumption DEF All
  <2> DEFINE Truth == BOOLEAN
  <2>2. up \in Truth /\ nla \in Truth /\ egfx \in Truth
    OBVIOUS
  <2>3. Row = [server : Nat, reachable : Truth, security : Securities, nla : Truth, egfx : Truth]
    BY DEF Row
  <2>4. s \in Securities
    OBVIOUS
  <2> HIDE DEF Truth
  <2> QED BY <2>1, <2>2, <2>3, <2>4 DEF Report
<1>2. TRUE \in BOOLEAN /\ FALSE \in BOOLEAN
  OBVIOUS
<1>3. /\ "none" \in Securities /\ "HYBRID" \in Securities /\ "SSL" \in Securities
      /\ "STANDARD_RDP_SECURITY" \in Securities
  BY DEF Securities
<1>4. ASSUME NEW a \in Answers PROVE Confirmed(i, a) \in Row
  <2> HIDE DEF Row
  <2>1. \/ Confirmed(i, a) = Report(i, TRUE, "HYBRID", TRUE, TRUE)
        \/ Confirmed(i, a) = Report(i, TRUE, "HYBRID", TRUE, FALSE)
        \/ Confirmed(i, a) = Report(i, TRUE, "SSL", FALSE, TRUE)
        \/ Confirmed(i, a) = Report(i, TRUE, "STANDARD_RDP_SECURITY", FALSE, FALSE)
        \/ Confirmed(i, a) = Report(i, TRUE, "none", TRUE, FALSE)
        \/ Confirmed(i, a) = Report(i, TRUE, "none", FALSE, FALSE)
    BY ScanAssumption DEF Confirmed
  <2> QED BY <1>1, <1>2, <1>3, <2>1, Zenon
<1>5. NotRdp(i) \in Row
  BY <1>1, <1>2, <1>3, Zenon DEF NotRdp
<1>6. [NoReport EXCEPT !.server = i] = Report(i, FALSE, "none", FALSE, FALSE)
  <2> DEFINE no == FALSE
  <2>1. NoReport = Report(0, no, "none", no, no)
    BY DEF NoReport
  <2> HIDE DEF no
  <2>2. [NoReport EXCEPT !.server = i] = Report(i, no, "none", no, no)
    BY <2>1 DEF Report
  <2> QED BY <2>2 DEF no
<1> QED BY <1>1, <1>2, <1>3, <1>4, <1>5, <1>6, Zenon

LEMMA ProbeKeeps ==
  ASSUME IInv, NEW i \in All, Probe(i)
  PROVE  IInv'
<1>1. CASE Connects(i)
  BY <1>1, MovesKeeps DEF Connects
<1>2. CASE Refuses(i)
  BY <1>2, ReturnsKeeps, RowsTrue, RowType DEF Refuses
<1>3. CASE Header(i)
  BY <1>3, MovesKeeps DEF Header
<1>4. CASE NoAnswer(i)
  BY <1>4, ReturnsKeeps, RowsTrue, RowType DEF NoAnswer
<1>5. CASE Confirm(i)
  <2>1. PICK a \in Answers : Returns(i, Confirmed(i, a)) /\ Known(i, a)
    BY <1>5 DEF Confirm
  <2> QED BY <1>5, <2>1, ReturnsKeeps, RowsTrue, RowType DEF Confirm
<1>6. CASE TimesOut(i)
  <2>1. Running /\ Timed(i) /\ UNCHANGED Main
    BY <1>6 DEF TimesOut
  <2>2. CASE task[i] = "connecting"
    <3>1. Returns(i, [NoReport EXCEPT !.server = i]) /\ Known(i, "drops")
      BY <1>6, <2>2 DEF TimesOut
    <3> QED BY <2>1, <2>2, <3>1, ReturnsKeeps, RowsTrue, RowType
  <2>3. CASE task[i] = "header"
    <3>1. Returns(i, NotRdp(i)) /\ Known(i, "silent")
      BY <1>6, <2>3 DEF TimesOut
    <3> QED BY <2>1, <2>3, <3>1, ReturnsKeeps, RowsTrue, RowType
  <2> QED BY <2>1, <2>2, <2>3 DEF Timed
<1> QED BY <1>1, <1>2, <1>3, <1>4, <1>5, <1>6 DEF Probe

------------------------------------------------------------------------------
(* The steps of scan_many and of the process. *)

LEMMA StartChunkKeeps == IInv /\ StartChunk => IInv'
<1> SUFFICES ASSUME IInv, StartChunk PROVE IInv'
  OBVIOUS
<1>1. /\ Running /\ chunk < Targets /\ chunk' = ChunkEnd
      /\ task' = [i \in All |-> IF i \in chunk + 1..chunk' THEN "connecting" ELSE task[i]]
      /\ UNCHANGED <<expected, report, reports, result, truth>>
  BY DEF StartChunk
<1>2. chunk' \in Nat /\ chunk' > chunk /\ chunk' <= Targets
  BY <1>1, ScanAssumption DEF IInv, Types, ChunkEnd
<1>3. Types'
  BY <1>1, <1>2, ScanAssumption DEF IInv, Types
<1>4. \A i \in All : i \in chunk + 1..chunk' <=> i > chunk /\ i <= chunk'
  BY <1>2, ScanAssumption DEF All, IInv, Types
<1>5. InTurn'
  BY <1>1, <1>2, <1>4, ScanAssumption DEF IInv, Types, InTurn, All
<1>6. RowsFaithful'
  BY <1>1 DEF IInv, RowsFaithful
<1>7. RowsInOrder' /\ VerdictSound'
  BY <1>1 DEF IInv, RowsInOrder, VerdictSound, Running
<1> QED BY <1>3, <1>5, <1>6, <1>7 DEF IInv

LEMMA CollectKeeps == \A i \in All : IInv /\ Collect(i) => IInv'
<1> SUFFICES ASSUME NEW i \in All, IInv, Collect(i) PROVE IInv'
  OBVIOUS
<1>1. /\ Running /\ task[i] = "done" /\ \A j \in 1..(i - 1) : task[j] = "collected"
      /\ task' = [task EXCEPT ![i] = "collected"]
      /\ reports' = Append(reports, report[i])
      /\ UNCHANGED <<expected, report, chunk, result, truth>>
  BY DEF Collect, NextHandle
<1>2. InTurn /\ RowsFaithful /\ Types
  BY <1>1 DEF IInv
<1>3. report[i] \in Row /\ report[i].server = i
  BY <1>1, <1>2 DEF RowsFaithful, TrueRow
<1>4. i = Len(reports) + 1
  <2>1. i \in Nat \ {0} /\ i <= Targets /\ Len(reports) \in Nat
    BY <1>2, ScanAssumption DEF All, Types
  <2>2. ~(i <= Len(reports))
    BY <1>1, <1>2 DEF InTurn
  <2>3. ASSUME i > Len(reports) + 1 PROVE FALSE
    <3>1. i - 1 \in All /\ i - 1 \in 1..(i - 1) /\ i - 1 > Len(reports)
      BY <2>1, <2>3, ScanAssumption DEF All
    <3> QED BY <1>1, <1>2, <2>1, <3>1 DEF InTurn
  <2> QED BY <2>1, <2>2, <2>3
<1>5. /\ reports' \in Seq(Row) /\ Len(reports') = i
      /\ \A k \in 1..Len(reports') : reports'[k] = IF k = i THEN report[i] ELSE reports[k]
      /\ DOMAIN reports' = 1..i /\ DOMAIN reports = 1..Len(reports)
  BY <1>1, <1>2, <1>3, <1>4 DEF Types
<1>6. Types'
  BY <1>1, <1>2, <1>5 DEF Types
<1>7. InTurn'
  <2>1. i <= chunk
    BY <1>1, <1>2 DEF InTurn, Types, All
  <2>2. \A j \in All : task'[j] = IF j = i THEN "collected" ELSE task[j]
    BY <1>1, <1>2 DEF Types
  <2> QED BY <1>1, <1>2, <1>4, <1>5, <2>1, <2>2, ScanAssumption DEF InTurn, Types, All
<1>8. RowsFaithful'
  <2>1. \A j \in All : task'[j] \in {"done", "collected"} => task[j] \in {"done", "collected"}
    BY <1>1, <1>2 DEF Types
  <2>2. \A k \in 1..Len(reports') : reports'[k] = report'[k]
    BY <1>1, <1>2, <1>4, <1>5 DEF RowsFaithful, Types
  <2> QED BY <1>1, <1>2, <2>1, <2>2 DEF RowsFaithful
<1>9. RowsInOrder'
  BY <1>1, <1>2, <1>3, <1>4, <1>5 DEF IInv, RowsInOrder, Types, Running
<1>10. VerdictSound'
  BY <1>1 DEF IInv, VerdictSound, Running
<1> QED BY <1>6, <1>7, <1>8, <1>9, <1>10 DEF IInv

LEMMA VerdictKeeps == IInv /\ Verdict => IInv'
<1> SUFFICES ASSUME IInv, Verdict PROVE IInv'
  OBVIOUS
<1>1. /\ Running /\ \A i \in 1..chunk : task[i] = "collected"
      /\ chunk = Targets
      /\ result' = IF "misspelt" \in expected THEN "misspelt"
                   ELSE IF \A k \in DOMAIN reports : Meets(reports[k]) THEN "ok" ELSE "unmet"
      /\ UNCHANGED <<expected, task, report, chunk, reports, truth>>
  BY DEF Verdict, Collected
<1>2. InTurn /\ RowsFaithful /\ Types
  BY <1>1 DEF IInv
<1>3. Len(reports) = Targets /\ DOMAIN reports = All
  <2>1. Targets \in All /\ task[Targets] = "collected"
    BY <1>1, ScanAssumption DEF All
  <2>2. Targets <= Len(reports) /\ Len(reports) <= Targets /\ Len(reports) \in Nat
    BY <1>1, <1>2, <2>1 DEF InTurn, Types
  <2> QED BY <1>2, <2>2, ScanAssumption DEF Types, All
<1>4. ASSUME "misspelt" \notin expected, NEW i \in All
      PROVE  Meets(reports[i]) <=> expected \subseteq Has(truth[i])
  <2>1. expected \subseteq Real
    BY <1>2, <1>4, ScanAssumption DEF Types, Real
  <2>2. reports[i] = report[i] /\ task[i] = "collected"
    BY <1>1, <1>2, <1>3 DEF RowsFaithful, All
  <2>3. TrueRow(i, report[i], truth[i])
    BY <1>2, <2>2 DEF RowsFaithful
  <2> QED BY <2>1, <2>2, <2>3, MeetsIsHas
<1>5. ~Running'
  BY <1>1 DEF Running
<1>6. VerdictSound'
  <2>1. CASE "misspelt" \in expected
    BY <1>1, <2>1 DEF VerdictSound
  <2>2. CASE "misspelt" \notin expected
    BY <1>1, <1>3, <1>4, <2>2 DEF VerdictSound
  <2> QED BY <2>1, <2>2
<1>7. RowsInOrder'
  BY <1>1, <1>3 DEF IInv, RowsInOrder
<1>8. Types'
  BY <1>1, <1>2 DEF Types
<1> QED BY <1>5, <1>6, <1>7, <1>8 DEF IInv

LEMMA StepHolds == IInv /\ [Next]_vars => IInv'
<1> SUFFICES ASSUME IInv, [Next]_vars PROVE IInv'
  OBVIOUS
<1>1. ASSUME NEW i \in All, Probe(i) PROVE IInv'
  BY <1>1, ProbeKeeps
<1>2. ASSUME NEW i \in All, Collect(i) PROVE IInv'
  BY <1>2, CollectKeeps
<1>3. CASE StartChunk
  BY <1>3, StartChunkKeeps
<1>4. CASE Verdict
  BY <1>4, VerdictKeeps
<1>5. CASE OverallTimeout
  <2>1. /\ result' = "timeout" /\ DOMAIN truth' = All
        /\ UNCHANGED <<expected, task, report, chunk, reports>>
    BY <1>5 DEF OverallTimeout
  <2>2. ~Running' /\ VerdictSound' /\ RowsInOrder'
    BY <2>1 DEF IInv, Running, VerdictSound, RowsInOrder
  <2>3. Types'
    BY <2>1 DEF IInv, Types
  <2> QED BY <2>2, <2>3 DEF IInv
<1>6. CASE Tick
  <2>1. UNCHANGED <<expected, task, report, chunk, reports, result, truth>>
    BY <1>6 DEF Tick
  <2> QED BY <2>1 DEF IInv, Types, InTurn, RowsFaithful, RowsInOrder, VerdictSound, Running
<1>7. CASE Exited \/ UNCHANGED vars
  <2>1. UNCHANGED <<expected, task, report, chunk, reports, result, truth>>
    BY <1>7 DEF Exited, vars
  <2> QED BY <2>1 DEF IInv, Types, InTurn, RowsFaithful, RowsInOrder, VerdictSound, Running
<1> QED BY <1>1, <1>2, <1>3, <1>4, <1>5, <1>6, <1>7 DEF Next

LEMMA InvariantHolds == Spec => []IInv
<1> QED BY InitHolds, StepHolds, PTL DEF Spec

\* The exit code of a scan is true of the servers: however many they are, however
\* many are probed at a time and in whatever order they answer or time out
\* (rdpsee.rs 385-402).
THEOREM VerdictAlwaysSound == Spec => []VerdictSound
<1>1. IInv => VerdictSound
  BY DEF IInv
<1> QED BY <1>1, InvariantHolds, PTL

\* The rows come in the order of the targets and none is missing from a verdict
\* (probe.rs 374-393).
THEOREM RowsAlwaysInOrder == Spec => []RowsInOrder
<1>1. IInv => RowsInOrder
  BY DEF IInv
<1> QED BY <1>1, InvariantHolds, PTL

------------------------------------------------------------------------------
(* rdpdo session. *)

------------------------------------------------------------------------------
(* Types. *)

Entry == [line : Nat, command : Nat, ok : BOOLEAN]

\* Of the loop: where it is, and that it has taken no more than was typed and the
\* end of the file. While a command runs, its line was typed and has that command;
\* but in the wait for a line, a command and the wait for a frame nothing reads.
TypeOK ==
  /\ mode \in {"piped", "interactive"}
  /\ typed \in Seq(STRING) /\ taken \in 0..Len(typed) + 1
  /\ ran \in Seq(Entry)
  /\ at \in Nat
  /\ read \in 0..Len(typed) + 1
  /\ pc \in {"head", "select", "command", "shell", "reconnect", "frame", "ended"}
  /\ pc = "command" => taken \in 1..Len(typed) /\ at \in 1..Commands(typed[taken])
  /\ pc = "shell" =>
       mode = "interactive" /\ taken \in 1..Len(typed) /\ typed[taken] = "shell" /\ at = 1
  /\ pc = "head" => mode = "piped"
  /\ pc \in {"head", "shell", "reconnect", "ended"} => pump = "off"

\* A line has no, one or two commands.
LEMMA CommandsType == \A l : Commands(l) \in 0..2
BY DEF Commands

\* And how many is known of every position, from 1 on.
LEMMA AllOfType ==
  ASSUME TypeOK, NEW l \in Nat \ {0}
  PROVE  AllOf(l) \in Nat
<1>1. Commands(typed[l]) \in Nat /\ Len(typed) \in Nat
  BY CommandsType DEF TypeOK
<1> QED BY <1>1 DEF AllOf

LEMMA InitTypes == ReplInit => TypeOK
<1> SUFFICES ASSUME ReplInit PROVE TypeOK
  OBVIOUS
<1>1. typed \in Seq(STRING) /\ Len(typed) \in Nat
  BY ReplAssumption DEF ReplInit
<1>2. /\ ran \in Seq(Entry) /\ pc \in {"head", "select"} /\ at = 0 /\ taken = 0 /\ read = 0
      /\ mode \in {"piped", "interactive"} /\ (pc = "head" => mode = "piped") /\ pump = "off"
  BY DEF ReplInit
<1> QED BY <1>1, <1>2 DEF TypeOK

------------------------------------------------------------------------------
(* The invariant. *)

\* While a command runs, the commands of its line before it are the last that ran,
\* and went well; none has run if it is the first.
AtHand ==
  pc \in {"command", "shell"} =>
    IF at = 1 THEN \A k \in DOMAIN ran : ran[k].line < taken
    ELSE LET last == ran[Len(ran)]
         IN  ran # <<>> /\ last.line = taken /\ last.command = at - 1 /\ last.ok

ReplIInv == TypeOK /\ AtHand /\ RunsWhatWasTyped

\* A step that takes no line and runs no command, and does not come to one. It
\* ends the REPL on a pipe only, whose peer is gone.
Apart ==
  /\ UNCHANGED <<mode, typed, taken, at, ran>>
  /\ pc' \in {"head", "select", "command", "shell", "reconnect", "frame", "ended"}
  /\ pc' = "command" <=> pc = "command"
  /\ pc' = "shell" <=> pc = "shell"
  /\ pc' = "head" => mode = "piped"
  /\ pc' \in {"head", "shell", "reconnect", "ended"} => pump' = "off"
  /\ pc = "ended" => pc' = "ended" /\ (peerGone => peerGone')
  /\ pc # "ended" /\ pc' = "ended" => mode = "piped" /\ peerGone'
  /\ read' \in 0..Len(typed) + 1

LEMMA StepApart == ReplIInv /\ Apart => ReplIInv'
<1> SUFFICES ASSUME ReplIInv, Apart PROVE ReplIInv'
  OBVIOUS
<1>1. TypeOK'
  BY DEF ReplIInv, Apart, TypeOK
<1>2. AtHand'
  BY DEF ReplIInv, Apart, AtHand
<1>3. \A l : AllOf(l)' = AllOf(l) /\ (Through(l)' <=> Through(l))
  BY DEF Apart, AllOf, Through
<1>4. \A k : Follows(k)' <=> Follows(k)
  BY DEF Apart, Follows
<1>5. RunsWhatWasTyped'
  <2>1. EndsAsAsked'
    <3>1. EndsAsAsked
      BY DEF ReplIInv, RunsWhatWasTyped
    <3> QED BY <3>1 DEF EndsAsAsked, Quits, Apart
  <2>2. \A k \in DOMAIN ran :
          /\ ran[k].line \in 1..taken /\ ran[k].command \in 1..AllOf(ran[k].line)
          /\ Follows(k)
    BY DEF ReplIInv, RunsWhatWasTyped
  <2>3. \A l \in 1..taken : l < taken \/ pc' \notin {"command", "shell"} => Through(l)
    BY DEF ReplIInv, Apart, RunsWhatWasTyped
  <2> QED BY <1>3, <1>4, <2>1, <2>2, <2>3 DEF Apart, RunsWhatWasTyped
<1> QED BY <1>1, <1>2, <1>5 DEF ReplIInv

\* Taking a line: those before it are through; it is too, unless it is to run
\* something, of which the first is then at hand.
LEMMA StepTake ==
  ASSUME ReplIInv, pc = "select", read > taken, taken' = taken + 1, pump' = "off",
         UNCHANGED <<mode, typed, read, ran>>,
         \/ /\ AllOf(taken + 1) = 0 /\ at' = at
            /\ pc' \in {"head", "select", "reconnect", "ended"}
            /\ pc' = "head" => mode = "piped"
            /\ pc' = "ended" <=> AtEnd \/ Quits(taken + 1)
         \/ /\ taken < Len(typed) /\ ~Quits(taken + 1) /\ at' = 1
            /\ \/ Commands(typed[taken + 1]) > 0 /\ pc' = "command"
               \/ mode = "interactive" /\ typed[taken + 1] = "shell" /\ pc' = "shell"
  PROVE  ReplIInv'
<1>1. taken \in Nat /\ Len(typed) \in Nat /\ taken + 1 <= Len(typed) + 1
  BY DEF ReplIInv, TypeOK
<1>2. Commands(typed[taken + 1]) \in 0..2
  BY CommandsType
<1>3. TypeOK'
  <2>1. taken' \in 0..Len(typed) + 1
    BY <1>1
  <2>2. /\ pc' = "command" => taken' \in 1..Len(typed) /\ at' \in 1..Commands(typed[taken'])
        /\ pc' = "shell" =>
             /\ mode' = "interactive" /\ taken' \in 1..Len(typed)
             /\ typed'[taken'] = "shell" /\ at' = 1
        /\ pc' = "head" => mode' = "piped"
    BY <1>1, <1>2
  <2>3. at' \in Nat
    BY DEF ReplIInv, TypeOK
  <2> QED BY <2>1, <2>2, <2>3 DEF ReplIInv, TypeOK
<1>4. \A k \in DOMAIN ran : ran[k].line \in 1..taken
  BY DEF ReplIInv, RunsWhatWasTyped
<1>5. AtHand'
  BY <1>1, <1>4 DEF AtHand
<1>6. \A l : AllOf(l)' = AllOf(l) /\ (Through(l)' <=> Through(l))
  BY DEF AllOf, Through
<1>7. \A k : Follows(k)' <=> Follows(k)
  BY DEF Follows
<1>8. ASSUME NEW l \in 1..(taken + 1), l < taken + 1 \/ pc' \notin {"command", "shell"}
      PROVE  Through(l)
  <2>1. CASE l \in 1..taken
    BY <2>1 DEF ReplIInv, RunsWhatWasTyped
  <2>2. CASE l = taken + 1
    BY <1>1, <1>8, <2>2 DEF Through
  <2> QED BY <1>1, <1>8, <2>1, <2>2
<1>9. RunsWhatWasTyped'
  <2>1. \A k \in DOMAIN ran : ran[k].line \in 1..(taken + 1)
    BY <1>1, <1>4
  <2>2. \A k \in DOMAIN ran : ran[k].command \in 1..AllOf(ran[k].line) /\ Follows(k)
    BY DEF ReplIInv, RunsWhatWasTyped
  <2>3. EndsAsAsked'
    <3>1. \A l \in 1..taken : ~Quits(l)
      BY DEF ReplIInv, RunsWhatWasTyped, EndsAsAsked
    <3>2. \A l \in 1..(taken + 1) : l \in 1..taken \/ l = taken + 1
      BY <1>1
    <3>3. \A l \in 1..(taken + 1) : Quits(l) => l = taken + 1 /\ pc' = "ended"
      BY <3>1, <3>2
    <3>4. pc' = "ended" => taken + 1 > Len(typed) \/ Quits(taken + 1)
      BY <1>1 DEF AtEnd
    <3> QED BY <3>3, <3>4 DEF EndsAsAsked, Quits
  <2> QED BY <1>6, <1>7, <1>8, <2>1, <2>2, <2>3 DEF RunsWhatWasTyped
<1> QED BY <1>3, <1>5, <1>9 DEF ReplIInv

\* A command or program that ends, well or not, is behind the one before it, and the
\* line is through if no other follows.
LEMMA StepEnds ==
  ASSUME ReplIInv, pc \in {"command", "shell"}, NEW ok \in BOOLEAN, Ends(ok)
  PROVE  ReplIInv'
<1>0. PICK n \in Nat : n = Len(ran)
  BY DEF ReplIInv, TypeOK
<1> DEFINE e == [line |-> taken, command |-> at, ok |-> ok]
<1>1. /\ typed \in Seq(STRING) /\ taken \in 1..Len(typed) /\ at \in 1..AllOf(taken)
      /\ Len(typed) \in Nat
      /\ AllOf(taken) = IF pc = "shell" THEN 1 ELSE Commands(typed[taken])
  <2>1. typed \in Seq(STRING) /\ taken \in 1..Len(typed) /\ Len(typed) \in Nat
    BY DEF ReplIInv, TypeOK
  <2>2. CASE pc = "shell"
    BY <2>1, <2>2 DEF ReplIInv, TypeOK, AllOf
  <2>3. CASE pc = "command"
    <3>1. at \in 1..Commands(typed[taken])
      BY <2>3 DEF ReplIInv, TypeOK
    <3>2. typed[taken] # "shell"
      BY <3>1 DEF Commands
    <3> QED BY <2>1, <2>3, <3>1, <3>2 DEF AllOf
  <2> QED BY <2>1, <2>2, <2>3
<1>2. AllOf(taken) \in 0..2 /\ (pc = "shell" => Commands(typed[taken]) = 0)
  <2>1. pc = "shell" => Commands(typed[taken]) = 0
    BY DEF ReplIInv, TypeOK, Commands
  <2> QED BY <1>1, <2>1, CommandsType
<1>3. e \in Entry /\ e.line = taken /\ e.command = at /\ e.ok = ok
  BY <1>1 DEF Entry
<1>4. ran' = Append(ran, e) /\ UNCHANGED <<mode, typed, read, taken>> /\ pump' = "off"
      /\ (IF GoesOn(ok) THEN at' = at + 1 /\ pc' = pc ELSE at' = 0 /\ pc' = Again)
  BY DEF Ends, line
<1> HIDE DEF e
<1>5. /\ ran' \in Seq(Entry) /\ n \in Nat /\ DOMAIN ran = 1..n /\ Len(ran') = n + 1
      /\ DOMAIN ran' = 1..(n + 1) /\ ran'[n + 1] = e /\ ran' # <<>>
      /\ \A k \in 1..n : ran'[k] = ran[k]
  BY <1>0, <1>3, <1>4 DEF ReplIInv, TypeOK
<1>6. GoesOn(ok) <=> ok /\ at < AllOf(taken)
  <2>1. CASE pc = "shell"
    BY <1>1, <1>2, <2>1 DEF GoesOn
  <2>2. CASE pc # "shell"
    BY <1>1, <2>2 DEF GoesOn
  <2> QED BY <2>1, <2>2
<1>7. \A k \in 1..n : ran[k] \in Entry
  BY <1>5 DEF ReplIInv, TypeOK
<1>8. TypeOK'
  <2>1. CASE GoesOn(ok)
    <3>1. pc' = "command" /\ at + 1 \in 1..Commands(typed[taken])
      BY <1>1, <1>2, <1>4, <1>6, <2>1
    <3> QED BY <1>1, <1>4, <1>5, <2>1, <3>1 DEF ReplIInv, TypeOK
  <2>2. CASE ~GoesOn(ok)
    BY <1>1, <1>4, <1>5, <2>2 DEF ReplIInv, TypeOK, Again
  <2> QED BY <2>1, <2>2
<1>9. AtHand'
  <2>1. CASE GoesOn(ok)
    <3>1. at' # 1 /\ at' - 1 = at /\ taken' = taken
      BY <1>1, <1>4, <2>1
    <3>2. ran'[Len(ran')] = e
      BY <1>5
    <3> QED BY <1>3, <1>5, <1>6, <2>1, <3>1, <3>2 DEF AtHand
  <2>2. CASE ~GoesOn(ok)
    BY <1>4, <2>2 DEF AtHand, Again
  <2> QED BY <2>1, <2>2
<1>10. \A l : AllOf(l)' = AllOf(l)
  BY <1>4 DEF AllOf
<1>11. ASSUME NEW k \in 1..n PROVE Follows(k)'
  <2>1. Follows(k) /\ k \in Nat
    BY <1>5 DEF ReplIInv, RunsWhatWasTyped
  <2>2. k > 1 => k - 1 \in 1..n
    BY <1>5
  <2>3. k = 1 \/ k > 1
    OBVIOUS
  <2>4. ran'[k] = ran[k] /\ (k > 1 => ran'[k - 1] = ran[k - 1])
    BY <1>5, <2>2
  <2> QED BY <2>1, <2>3, <2>4 DEF Follows
<1>12. Follows(n + 1)'
  <2>1. CASE at = 1
    <3>1. \A k \in 1..n : ran[k].line < taken
      BY <1>5, <2>1 DEF ReplIInv, AtHand
    <3>2. n + 1 = 1 \/ ran'[n + 1 - 1].line < taken
      <4>1. n = 0 \/ n \in 1..n
        BY <1>5
      <4>2. n + 1 - 1 = n
        BY <1>5
      <4> QED BY <1>5, <3>1, <4>1, <4>2
    <3> QED BY <1>3, <1>5, <2>1, <3>2 DEF Follows
  <2>2. CASE at # 1
    <3>1. n # 0 /\ ran[n].line = taken /\ ran[n].command = at - 1 /\ ran[n].ok
      BY <1>0, <1>5, <2>2 DEF ReplIInv, AtHand
    <3>2. n + 1 - 1 = n /\ n \in 1..n /\ n + 1 > 1
      BY <1>5, <3>1
    <3>3. ran'[n + 1 - 1] = ran[n]
      BY <1>5, <3>2
    <3>4. at = at - 1 + 1
      BY <1>1
    <3> QED BY <1>3, <1>5, <3>1, <3>2, <3>3, <3>4 DEF Follows
  <2> QED BY <2>1, <2>2
<1>13. ASSUME NEW l \in 1..taken, l < taken \/ pc' \notin {"command", "shell"}
       PROVE  Through(l)'
  <2>1. CASE l < taken
    <3>1. Through(l)
      BY <2>1 DEF ReplIInv, RunsWhatWasTyped
    <3>2. CASE AllOf(l) = 0
      BY <1>10, <3>2 DEF Through
    <3>3. CASE AllOf(l) # 0
      <4>1. PICK k \in 1..n : ran[k].line = l /\ (ran[k].command = AllOf(l) \/ ~ran[k].ok)
        BY <1>5, <3>1, <3>3 DEF Through
      <4>2. k \in DOMAIN ran' /\ ran'[k] = ran[k]
        BY <1>5
      <4> QED BY <1>10, <4>1, <4>2 DEF Through
    <3> QED BY <3>2, <3>3
  <2>2. CASE ~(l < taken)
    <3>1. l = taken /\ (~ok \/ ~(at < AllOf(taken)))
      BY <1>1, <1>4, <1>6, <1>13, <2>2
    <3>2. ~ok \/ at = AllOf(taken)
      BY <1>1, <1>2, <3>1
    <3>3. n + 1 \in DOMAIN ran'
      BY <1>5
    <3> QED BY <1>3, <1>5, <1>10, <3>1, <3>2, <3>3 DEF Through
  <2> QED BY <2>1, <2>2
<1>14. ASSUME NEW k \in 1..(n + 1)
       PROVE  ran'[k].line \in 1..taken /\ ran'[k].command \in 1..AllOf(ran'[k].line)
  <2>1. CASE k \in 1..n
    BY <1>5, <2>1 DEF ReplIInv, RunsWhatWasTyped
  <2>2. CASE k = n + 1
    BY <1>1, <1>2, <1>3, <1>5, <2>2
  <2> QED BY <1>5, <2>1, <2>2
<1>15. RunsWhatWasTyped'
  <2>1. \A k \in DOMAIN ran' : Follows(k)'
    <3>1. \A k \in 1..(n + 1) : k \in 1..n \/ k = n + 1
      BY <1>5
    <3> QED BY <1>5, <1>11, <1>12, <3>1
  <2>2. \A k \in DOMAIN ran' : ran'[k].line \in 1..taken /\ ran'[k].command \in 1..AllOf(ran'[k].line)
    BY <1>5, <1>14
  <2>3. taken' = taken
    BY <1>4
  <2>4. EndsAsAsked'
    <3>1. \A l \in 1..taken : ~Quits(l)
      BY DEF ReplIInv, RunsWhatWasTyped, EndsAsAsked
    <3>2. pc' # "ended"
      BY <1>4 DEF Again
    <3> QED BY <1>4, <3>1, <3>2 DEF EndsAsAsked, Quits
  <2> QED BY <1>10, <1>13, <2>1, <2>2, <2>3, <2>4 DEF RunsWhatWasTyped
<1> QED BY <1>8, <1>9, <1>15 DEF ReplIInv

LEMMA ReplInitHolds == ReplInit => ReplIInv
<1> SUFFICES ASSUME ReplInit PROVE ReplIInv
  OBVIOUS
<1>1. ran = <<>> /\ taken = 0 /\ pc \notin {"command", "shell", "ended"}
  BY DEF ReplInit
<1>2. AtHand /\ RunsWhatWasTyped
  BY <1>1 DEF AtHand, RunsWhatWasTyped, EndsAsAsked
<1> QED BY <1>2, InitTypes DEF ReplIInv

\* Beyond what was typed there is only the end of the file, and what is neither a
\* command nor a program runs nothing.
LEMMA NoCommands ==
  ASSUME ReplIInv,
         \/ AtEnd
         \/ Commands(Line) = 0 /\ ~Directive("shell")
  PROVE  AllOf(taken + 1) = 0
<1>1. taken \in Nat /\ Len(typed) \in Nat
  BY DEF ReplIInv, TypeOK
<1>2. CASE AtEnd
  BY <1>1, <1>2 DEF AtEnd, AllOf
<1>3. CASE Commands(Line) = 0 /\ ~Directive("shell")
  BY <1>1, <1>3 DEF Line, AllOf, Directive, AtEnd
<1> QED BY <1>2, <1>3

LEMMA ReplStepHolds == ReplIInv /\ [ReplNext]_replVars => ReplIInv'
<1> SUFFICES ASSUME ReplIInv, [ReplNext]_replVars PROVE ReplIInv'
  OBVIOUS
<1>1. TypeOK
  BY DEF ReplIInv
<1>2. CASE Reads
  <2>1. /\ read <= Len(typed) /\ read' = read + 1
        /\ UNCHANGED <<mode, typed, taken, at, ran, pc, pump, peerGone>>
    BY <1>2 DEF Reads, link
  <2>2. read' \in 0..Len(typed) + 1
    BY <1>1, <2>1 DEF TypeOK
  <2>3. Apart
    BY <1>1, <2>1, <2>2 DEF Apart, TypeOK
  <2> QED BY <2>3, StepApart
<1>3. CASE LoopHead
  <2>1. Apart
    BY <1>1, <1>3 DEF LoopHead, line, link, Apart, TypeOK
  <2> QED BY <2>1, StepApart
<1>4. CASE Take
  <2>0. /\ taken \in Nat /\ Len(typed) \in Nat /\ mode \in {"piped", "interactive"}
        /\ taken + 1 <= Len(typed) + 1
    BY <1>1, <1>4 DEF TypeOK, Take, TakeEnd, TakeDisconnect, TakeReconnect, TakeShell,
                      TakeCommands, TakeNothing, Takes, Ready
  <2>1. /\ pc = "select" /\ read > taken /\ taken' = taken + 1 /\ pump' = "off"
        /\ UNCHANGED <<mode, typed, read, ran>>
    BY <1>4 DEF Take, TakeEnd, TakeDisconnect, TakeReconnect, TakeShell, TakeCommands,
                TakeNothing, Takes, Ready
  <2>2. /\ AtEnd <=> ~(taken + 1 <= Len(typed))
        /\ Quits(taken + 1) <=> Directive("quit")
    BY <2>0 DEF AtEnd, Quits, Directive, Line
  <2>3. CASE TakeEnd
    <3>1. at' = at /\ pc' = "ended" /\ (AtEnd \/ Directive("quit"))
      BY <2>3 DEF TakeEnd
    <3>2. AllOf(taken + 1) = 0
      <4>1. Directive("quit") => Commands(Line) = 0 /\ ~Directive("shell")
        BY DEF Directive, Commands
      <4> QED BY <3>1, <4>1, NoCommands
    <3> QED BY <2>1, <2>2, <3>1, <3>2, StepTake
  <2>4. CASE TakeDisconnect \/ TakeReconnect
    <3>1. /\ at' = at /\ pc' \in {"select", "reconnect"}
          /\ Directive("disconnect") \/ Directive("reconnect")
      BY <2>1, <2>4 DEF TakeDisconnect, TakeReconnect
    <3>2. Commands(Line) = 0 /\ ~Directive("shell") /\ ~Directive("quit") /\ ~AtEnd
      BY <3>1 DEF Directive, Commands
    <3> QED BY <2>1, <2>2, <3>1, <3>2, NoCommands, StepTake
  <2>5. CASE TakeShell
    <3>1. pc' = "shell" /\ at' = 1 /\ Directive("shell")
      BY <2>5 DEF TakeShell
    <3>2. mode = "interactive" /\ taken < Len(typed) /\ typed[taken + 1] = "shell"
          /\ ~Directive("quit")
      BY <2>0, <2>2, <3>1 DEF Directive, Line
    <3> QED BY <2>1, <2>2, <3>1, <3>2, StepTake
  <2>6. CASE TakeCommands
    <3>1. ~AtEnd /\ Commands(typed[taken + 1]) > 0 /\ pc' = "command" /\ at' = 1
      BY <2>6 DEF TakeCommands, Line
    <3>2. taken < Len(typed)
      BY <2>0, <2>2, <3>1
    <3>3. ~Directive("quit")
      BY <3>1 DEF Directive, Line, Commands
    <3> QED BY <2>1, <2>2, <3>1, <3>2, <3>3, StepTake
  <2>7. CASE TakeNothing
    <3>1. /\ Commands(Line) = 0 /\ ~AtEnd /\ at' = at /\ pc' \in {"head", "select"}
          /\ pc' = "head" => mode = "piped"
          /\ mode = "interactive" => Line \notin {"quit", "disconnect", "reconnect", "shell"}
      BY <2>7 DEF TakeNothing, Again
    <3>2. ~Directive("shell") /\ ~Directive("quit")
      BY <3>1 DEF Directive
    <3> QED BY <2>1, <2>2, <3>1, <3>2, NoCommands, StepTake
  <2> QED BY <1>4, <2>3, <2>4, <2>5, <2>6, <2>7 DEF Take
<1>5. CASE Resume
  <2>1. CASE CommandEnds \/ ShellEnds
    BY <2>1, StepEnds DEF CommandEnds, ShellEnds
  <2>2. CASE Reconnects \/ ReconnectFails \/ FrameWaitEnds
    <3>1. Apart
      BY <1>1, <2>2 DEF Reconnects, ReconnectFails, FrameWaitEnds, line, link, Apart, TypeOK
    <3> QED BY <3>1, StepApart
  <2> QED BY <1>5, <2>1, <2>2 DEF Resume
<1>6. CASE Pump
  <2>1. CASE PumpStarts \/ RunForEnds \/ Deactivated
    <3>1. Apart
      BY <1>1, <2>1 DEF PumpStarts, RunForEnds, Deactivated, line, link, Apart, TypeOK
    <3> QED BY <3>1, StepApart
  <2>2. CASE ReadFails
    <3>1. UNCHANGED <<mode, typed, taken, at, ran, read>>
      BY <2>2 DEF ReadFails, line
    <3>2. /\ pc' \in {pc, "select", "ended"} /\ peerGone' /\ pump' = "off"
          /\ pc' # pc => pc \in {"select", "frame"}
          /\ pc' # pc /\ pc' = "ended" => mode = "piped"
      BY <2>2 DEF ReadFails, Lost
    <3>3. Apart
      BY <1>1, <2>2, <3>1, <3>2 DEF Apart, TypeOK
    <3> QED BY <3>3, StepApart
  <2>3. CASE ReactivationFails
    <3>1. CASE pc = "command"
      BY <2>3, <3>1, StepEnds DEF ReactivationFails
    <3>2. CASE pc # "command"
      <4>1. Apart
        BY <1>1, <2>3, <3>2 DEF ReactivationFails, line, link, Apart, TypeOK
      <4> QED BY <4>1, StepApart
    <3> QED BY <3>1, <3>2
  <2> QED BY <1>6, <2>1, <2>2, <2>3 DEF Pump
<1>7. CASE Server
  <2>1. Apart
    BY <1>1, <1>7 DEF Server, Reactivated, ServerDeactivates, ServerLeaves, line, link, Apart, TypeOK
  <2> QED BY <2>1, StepApart
<1>8. CASE Ended \/ UNCHANGED replVars
  <2>1. Apart
    BY <1>1, <1>8 DEF Ended, replVars, line, link, Apart, TypeOK
  <2> QED BY <2>1, StepApart
<1> QED BY <1>2, <1>3, <1>4, <1>5, <1>6, <1>7, <1>8 DEF ReplNext

\* Every line that the loop takes is run from its first command up to its last or
\* its first failure, each once and in the order typed, for every input, whatever
\* is dropped, deactivated, disconnected or lost meanwhile (rdpdo.rs 2180-2562).
THEOREM RunsAlwaysWhatWasTyped == ReplSpec => []RunsWhatWasTyped
<1>1. ReplIInv => RunsWhatWasTyped
  BY DEF ReplIInv
<1> QED BY <1>1, ReplInitHolds, ReplStepHolds, PTL DEF ReplSpec
===============================================================================
