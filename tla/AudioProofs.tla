----------------------------- MODULE AudioProofs -----------------------------
(***************************************************************************)
(* Proofs about captured sound, for every list of formats, every length of *)
(* a wave and every clock.                                                 *)
(***************************************************************************)
EXTENDS AudioProperties, FiniteSets, FiniteSetTheorems, WellFoundedInduction, TLAPS

------------------------------------------------------------------------------
(* The naturals. *)

\* Every nonempty set of naturals has a least element: the intervals from 0 to
\* its members are finite sets, on which strict inclusion is well founded.
LEMMA NatMin ==
  ASSUME NEW T \in SUBSET Nat, T # {}
  PROVE  \E x \in T : \A y \in T : x <= y
<1> DEFINE below == {0..x : x \in T}
           R == StrictSubsetOrdering(Nat)
<1>1. below \subseteq FiniteSubsetsOf(Nat)
  <2>1. \A x \in T : IsFiniteSet(0..x)
    BY FS_Interval
  <2> QED BY <2>1 DEF FiniteSubsetsOf
<1>2. below # {}
  OBVIOUS
<1>3. PICK least \in below : \A other \in below : ~(<<other, least>> \in R)
  <2>1. IsWellFoundedOn(R, FiniteSubsetsOf(Nat))
    BY FS_StrictSubsetOrderingWellFounded
  <2> HIDE DEF below, R
  <2> QED BY <1>1, <1>2, <2>1, WFMin
<1>4. PICK x \in T : least = 0..x
  OBVIOUS
<1>5. ASSUME NEW y \in T, y < x PROVE FALSE
  <2>1. 0..y \in below /\ 0..y \subseteq 0..x /\ 0..y # 0..x
    <3>1. 0..y \in below
      OBVIOUS
    <3>2. 0..y \subseteq 0..x
      BY <1>5
    <3>3. x \in 0..x /\ x \notin 0..y
      BY <1>5
    <3> QED BY <3>1, <3>2, <3>3
  <2>2. <<0..y, 0..x>> \in R
    <3>1. 0..y \in SUBSET Nat /\ 0..x \in SUBSET Nat
      OBVIOUS
    <3>2. \A A, B \in SUBSET Nat : A \subseteq B /\ A # B => <<A, B>> \in StrictSubsetOrdering(Nat)
      BY Zenon DEF StrictSubsetOrdering
    <3> HIDE DEF R
    <3>3. <<0..y, 0..x>> \in StrictSubsetOrdering(Nat)
      BY <2>1, <3>1, <3>2, Zenon
    <3> QED BY <3>3 DEF R
  <2> QED BY <1>3, <1>4, <2>1, <2>2
<1>6. \A y \in T : (~(y < x))
  BY <1>5
<1> QED BY <1>6

\* Induction up to n, over the set of those for which it holds.
LEMMA UpTo ==
  ASSUME NEW n \in Nat, NEW S, 0 \in S, \A i \in 1..n : i - 1 \in S => i \in S
  PROVE  \A i \in 0..n : i \in S
<1> DEFINE T == {i \in 0..n : i \notin S}
<1> SUFFICES ASSUME T # {} PROVE FALSE
  OBVIOUS
<1>1. PICK i \in T : \A j \in T : i <= j
  <2>1. T \in SUBSET Nat
    OBVIOUS
  <2> HIDE DEF T
  <2> QED BY <2>1, NatMin
<1>2. i \in 0..n /\ i \notin S /\ i # 0
  OBVIOUS
<1>3. i \in 1..n /\ i - 1 \in 0..n
  BY <1>2
<1>4. i - 1 \notin T
  <2> HIDE DEF T
  <2> QED BY <1>1, <1>2
<1> QED BY <1>2, <1>3, <1>4

-------------------------------------------------------------------------------
(* Sums. *)

\* There are partial sums.
LEMMA SumsExist ==
  ASSUME NEW s \in Seq(Nat)
  PROVE  \E f : f = [i \in 0..Len(s) |-> IF i = 0 THEN 0 ELSE f[i - 1] + s[i]]
<1> DEFINE Ok(n, f) == f[0] = 0 /\ \A i \in 1..n : f[i] = f[i - 1] + s[i]
           Good == {n \in 0..Len(s) : \E f \in [0..n -> Nat] : Ok(n, f)}
<1>1. 0 \in Good
  <2>1. [i \in 0..0 |-> 0] \in [0..0 -> Nat] /\ Ok(0, [i \in 0..0 |-> 0])
    OBVIOUS
  <2>2. 0 \in 0..Len(s)
    OBVIOUS
  <2> QED BY <2>1, <2>2
<1>2. ASSUME NEW n \in 1..Len(s), n - 1 \in Good PROVE n \in Good
  <2>1. PICK f \in [0..(n - 1) -> Nat] : Ok(n - 1, f)
    BY <1>2
  <2> DEFINE g == [i \in 0..n |-> IF i = n THEN f[n - 1] + s[n] ELSE f[i]]
  <2>2. g \in [0..n -> Nat]
    OBVIOUS
  <2>3. Ok(n, g)
    BY <2>1
  <2>4. n \in 0..Len(s)
    OBVIOUS
  <2> QED BY <2>2, <2>3, <2>4
<1>3. Len(s) \in Good
  <2>1. Len(s) \in Nat
    OBVIOUS
  <2> HIDE DEF Good
  <2>2. \A n \in 0..Len(s) : n \in Good
    BY <1>1, <1>2, <2>1, UpTo
  <2> QED BY <2>1, <2>2
<1>4. PICK f \in [0..Len(s) -> Nat] : Ok(Len(s), f)
  BY <1>3
<1>5. f = [i \in 0..Len(s) |-> IF i = 0 THEN 0 ELSE f[i - 1] + s[i]]
  BY <1>4
<1> QED BY <1>5

\* They are the running totals.
LEMMA SumsFacts ==
  ASSUME NEW s \in Seq(Nat)
  PROVE  /\ Sums(s)[0] = 0
         /\ \A i \in 1..Len(s) : Sums(s)[i] = Sums(s)[i - 1] + s[i]
<1>1. Sums(s) = [i \in 0..Len(s) |-> IF i = 0 THEN 0 ELSE Sums(s)[i - 1] + s[i]]
  BY SumsExist DEF Sums
<1> DEFINE f == Sums(s)
<1>2. f = [i \in 0..Len(s) |-> IF i = 0 THEN 0 ELSE f[i - 1] + s[i]]
  BY <1>1
<1> HIDE DEF f
<1>3. f[0] = 0 /\ \A i \in 1..Len(s) : f[i] = f[i - 1] + s[i]
  BY <1>2
<1> QED BY <1>3 DEF f

\* Where each term is at most k times another, the total is.
LEMMA TotalBound ==
  ASSUME NEW s \in Seq(Nat), NEW t \in Seq(Nat), Len(s) = Len(t), NEW k \in Nat,
         \A i \in 1..Len(s) : t[i] <= k * s[i]
  PROVE  Total(s) \in Nat /\ Total(t) \in Nat /\ Total(t) <= k * Total(s)
<1> DEFINE a == Sums(s)
           b == Sums(t)
           n == Len(s)
           Good == {i \in 0..n : a[i] \in Nat /\ b[i] \in Nat /\ b[i] <= k * a[i]}
<1>1. n \in Nat /\ a[0] = 0 /\ b[0] = 0
      /\ \A i \in 1..n : a[i] = a[i - 1] + s[i] /\ b[i] = b[i - 1] + t[i]
  BY SumsFacts
<1>2. \A i \in 1..n : s[i] \in Nat /\ t[i] \in Nat /\ t[i] <= k * s[i]
  OBVIOUS
<1>3. ASSUME NEW x \in Nat, NEW y \in Nat, NEW c \in Nat, NEW d \in Nat, y <= k * x, d <= k * c
      PROVE  y + d <= k * (x + c) /\ x + c \in Nat /\ y + d \in Nat
  <2>1. k * (x + c) = k * x + k * c /\ k * x \in Nat /\ k * c \in Nat
    OBVIOUS
  <2> DEFINE p == k * x
             q == k * c
  <2>2. p \in Nat /\ q \in Nat /\ y <= p /\ d <= q /\ k * (x + c) = p + q
    BY <1>3, <2>1
  <2> HIDE DEF p, q
  <2> QED BY <2>2
<1> HIDE DEF a, b, n
<1>4. 0 \in Good
  <2>1. 0 <= k * 0
    OBVIOUS
  <2> QED BY <1>1, <2>1
<1>5. ASSUME NEW i \in 1..n, i - 1 \in Good PROVE i \in Good
  <2>1. a[i] = a[i - 1] + s[i] /\ b[i] = b[i - 1] + t[i]
    BY <1>1
  <2>2. a[i] \in Nat /\ b[i] \in Nat /\ b[i] <= k * a[i]
    <3>1. a[i - 1] \in Nat /\ b[i - 1] \in Nat /\ b[i - 1] <= k * a[i - 1]
      BY <1>5
    <3>2. s[i] \in Nat /\ t[i] \in Nat /\ t[i] <= k * s[i]
      BY <1>2
    <3>3. /\ b[i - 1] + t[i] <= k * (a[i - 1] + s[i])
          /\ a[i - 1] + s[i] \in Nat /\ b[i - 1] + t[i] \in Nat
      BY <1>3, <3>1, <3>2
    <3> QED BY <2>1, <3>3
  <2> QED BY <1>1, <2>2
<1>6. n \in Good
  <2> HIDE DEF Good
  <2>1. \A i \in 0..n : i \in Good
    BY <1>1, <1>4, <1>5, UpTo
  <2> QED BY <1>1, <2>1
<1>7. a[n] \in Nat /\ b[n] \in Nat /\ b[n] <= k * a[n]
  BY <1>6
<1> QED BY <1>7 DEF Total, a, b, n

-------------------------------------------------------------------------------
(* Choosing the nearest format. *)

USE RatesAssumption, WaveAssumption, ClockAssumption

\* The formats are numbered from 1, and there is one.
LEMMA FormatsNumbered ==
  Formats \subseteq Nat \ {0} /\ 1 \in Formats
<1>1. Len(Rates) \in Nat \ {0} /\ Formats = 1..Len(Rates)
  BY DEF Formats
<1> QED BY <1>1

\* Whatever the formats are off by, one of them is off by least, and one of those
\* comes first: the choice of wave() is always among the supported formats.
LEMMA NearestExists ==
  ASSUME NEW off, \A f \in Formats : off[f] \in Nat
  PROVE  \E f \in Formats : /\ \A g \in Formats : off[f] <= off[g]
                            /\ \A g \in Formats : g < f => off[f] < off[g]
<1> DEFINE Values == {off[f] : f \in Formats}
<1>1. PICK least \in Values : \A v \in Values : least <= v
  <2>1. Values \in SUBSET Nat
    OBVIOUS
  <2>2. Values # {}
    BY FormatsNumbered
  <2> HIDE DEF Values
  <2> QED BY <2>1, <2>2, NatMin
<1> DEFINE Nearest == {f \in Formats : off[f] = least}
<1>2. PICK f \in Nearest : \A g \in Nearest : f <= g
  <2>1. Nearest \in SUBSET Nat
    BY FormatsNumbered
  <2>2. Nearest # {}
    OBVIOUS
  <2> HIDE DEF Nearest
  <2> QED BY <2>1, <2>2, NatMin
<1>3. \A g \in Formats : off[f] <= off[g]
  BY <1>1
<1>4. ASSUME NEW g \in Formats, g < f PROVE off[f] < off[g]
  <2>1. g \in Nat /\ f \in Nat
    BY FormatsNumbered
  <2>2. g \notin Nearest
    BY <1>2, <1>4, <2>1
  <2>3. off[g] # least /\ off[f] = least /\ off[f] <= off[g]
    BY <1>3, <2>2
  <2> QED BY <2>3
<1> QED BY <1>3, <1>4

\* The format wave() settles on is a supported one, and none is nearer.
LEMMA NearestFormatType ==
  ASSUME NEW bytes \in Nat, NEW elapsed \in Nat
  PROVE  /\ NearestFormat(bytes, elapsed) \in Formats
         /\ \A g \in Formats :
              Distance(Rates[NearestFormat(bytes, elapsed)] * elapsed, bytes)
                <= Distance(Rates[g] * elapsed, bytes)
<1> DEFINE off == [f \in Formats |-> Distance(Rates[f] * elapsed, bytes)]
<1>1. \A f \in Formats : off[f] \in Nat
  <2> SUFFICES ASSUME NEW f \in Formats PROVE off[f] \in Nat
    OBVIOUS
  <2>1. Rates[f] \in Nat
    BY DEF Formats
  <2>2. Rates[f] * elapsed \in Nat
    BY <2>1
  <2> HIDE RatesAssumption
  <2>3. off[f] = Distance(Rates[f] * elapsed, bytes)
    OBVIOUS
  <2> QED BY <2>2, <2>3 DEF Distance
<1>2. \E f \in Formats : /\ \A g \in Formats : off[f] <= off[g]
                         /\ \A g \in Formats : g < f => off[f] < off[g]
  <2> HIDE DEF off
  <2> QED BY <1>1, NearestExists
<1>3. \E f \in Formats :
        /\ \A g \in Formats :
             Distance(Rates[f] * elapsed, bytes) <= Distance(Rates[g] * elapsed, bytes)
        /\ \A g \in Formats :
             g < f => Distance(Rates[f] * elapsed, bytes) < Distance(Rates[g] * elapsed, bytes)
  BY <1>2
<1> QED BY <1>3 DEF NearestFormat

\* Where bytes came at the rate of a format for any time at all, the format wave()
\* settles on has that rate.
LEMMA NearestFormatRight ==
  ASSUME NEW p \in Formats, NEW elapsed \in Nat \ {0}
  PROVE  /\ NearestFormat(Rates[p] * elapsed, elapsed) \in Formats
         /\ Rates[NearestFormat(Rates[p] * elapsed, elapsed)] = Rates[p]
<1>1. \A g \in Formats : Rates[g] \in Nat
  BY DEF Formats
<1> DEFINE bytes == Rates[p] * elapsed
           f == NearestFormat(bytes, elapsed)
<1>2. bytes \in Nat
  BY <1>1
<1> HIDE DEF bytes
<1>3. f \in Formats /\ Distance(Rates[f] * elapsed, bytes) <= Distance(Rates[p] * elapsed, bytes)
  BY <1>2, NearestFormatType
<1> HIDE DEF f
<1> HIDE RatesAssumption, WaveAssumption, ClockAssumption
<1>4. ASSUME NEW a \in Nat, NEW b \in Nat, a < b PROVE a * elapsed < b * elapsed
  <2>1. b = a + (b - a) /\ b - a \in Nat \ {0}
    BY <1>4
  <2>2. (a + (b - a)) * elapsed = a * elapsed + (b - a) * elapsed /\ (b - a) * elapsed > 0
    BY <2>1
  <2> DEFINE x == a * elapsed
             y == (b - a) * elapsed
             z == b * elapsed
  <2>3. z = x + y /\ y > 0 /\ x \in Nat /\ y \in Int
    BY <2>1, <2>2
  <2> HIDE DEF x, y, z
  <2>4. x < z
    BY <2>3
  <2> QED BY <2>4 DEF x, z
<1>5. Rates[f] \in Nat /\ Rates[p] \in Nat
  BY <1>1, <1>3
<1>6. Rates[f] * elapsed \in Nat /\ Rates[p] * elapsed \in Nat
  BY <1>5
<1>7. Rates[f] * elapsed = Rates[p] * elapsed
  <2>1. bytes = Rates[p] * elapsed
    BY DEF bytes
  <2>2. ASSUME NEW x \in Nat, NEW y \in Nat, Distance(x, y) <= Distance(y, y) PROVE x = y
    BY <2>2 DEF Distance
  <2> QED BY <1>3, <1>6, <2>1, <2>2
<1>8. (~(Rates[f] < Rates[p])) /\ (~(Rates[p] < Rates[f]))
  BY <1>4, <1>5, <1>6, <1>7
<1>9. Rates[f] = Rates[p]
  BY <1>5, <1>8
<1> QED BY <1>3, <1>9 DEF f, bytes

-------------------------------------------------------------------------------
(* Timestamps. *)

\* A clock is its wraps and its timestamp.
LEMMA DivMod ==
  ASSUME NEW K \in Nat \ {0}, NEW a \in Nat
  PROVE  a = K * (a \div K) + (a % K) /\ a \div K \in Nat /\ a % K \in Nat /\ a % K < K
OBVIOUS

\* A later clock has wrapped as often or more.
LEMMA DivMonotone ==
  ASSUME NEW K \in Nat \ {0}, NEW a \in Nat, NEW b \in Nat, a <= b
  PROVE  a \div K <= b \div K
<1> HIDE RatesAssumption, WaveAssumption, ClockAssumption
<1> DEFINE p == a \div K
           q == b \div K
<1>1. /\ a = K * p + (a % K) /\ b = K * q + (b % K) /\ p \in Nat /\ q \in Nat
      /\ a % K \in Nat /\ b % K \in Nat /\ b % K < K /\ a % K < K
  BY DivMod
<1>2. ASSUME p >= q + 1 PROVE FALSE
  <2> HIDE DEF p, q
  <2>1. K * p >= K * (q + 1) /\ K * (q + 1) = K * q + K
    BY <1>1, <1>2
  <2> QED BY <1>1, <2>1
<1> QED BY <1>1, <1>2

\* Between two clocks that wrapped as often, wave() measures what elapsed.
LEMMA ElapsedRight ==
  ASSUME NEW a \in Nat, NEW b \in Nat, a <= b, a \div TsMod = b \div TsMod
  PROVE  Elapsed(b % TsMod, a % TsMod) = b - a
<1> HIDE RatesAssumption, WaveAssumption
<1> DEFINE p == a \div TsMod
           k == TsMod * p
<1>1. a = k + (a % TsMod) /\ b = k + (b % TsMod) /\ a % TsMod \in Nat /\ b % TsMod \in Nat
  BY DivMod
<1>2. k \in Int
  BY DivMod
<1> HIDE DEF k, p
<1> HIDE ClockAssumption
<1>3. b % TsMod >= a % TsMod /\ (b % TsMod) - (a % TsMod) = b - a
  BY <1>1, <1>2
<1> QED BY <1>1, <1>3 DEF Elapsed

-------------------------------------------------------------------------------
(* AudioState. *)

\* What a wave leaves of AudioState is an AudioState, and its buffer is the wave
\* behind what was recorded (wave()).
LEMMA OnWaveType ==
  ASSUME TypeOK, NEW w \in Wave
  PROVE  /\ OnWave(state, w) \in
              [recording : BOOLEAN, buffer : Seq(Wave), format : Formats \cup {NoFormat},
               firstTs : Nat \cup {NoTs}, bytes : Nat, resolved : BOOLEAN]
         /\ OnWave(state, w).recording = state.recording
         /\ OnWave(state, w).buffer = IF state.recording THEN Append(state.buffer, w)
                                      ELSE state.buffer
         /\ OnWave(state, w).bytes = state.bytes + w.n * Rates[playing]
         /\ OnWave(state, w).format = Resolved(state, w.at % TsMod).format
         /\ OnWave(state, w).firstTs = Resolved(state, w.at % TsMod).firstTs
         /\ OnWave(state, w).resolved = Resolved(state, w.at % TsMod).resolved
<1> DEFINE ts == w.at % TsMod
           t == Resolved(state, ts)
           State == [recording : BOOLEAN, buffer : Seq(Wave), format : Formats \cup {NoFormat},
                     firstTs : Nat \cup {NoTs}, bytes : Nat, resolved : BOOLEAN]
<1>1. ts \in Nat
  <2>1. w.at \in Nat
    BY DEF Wave
  <2> QED BY <2>1
<1>2. state \in State
  BY DEF TypeOK
<1>3. t \in State /\ t.recording = state.recording /\ t.buffer = state.buffer
      /\ t.bytes = state.bytes
  <2> HIDE DEF ts
  <2>1. CASE state.resolved
    BY <1>2, <2>1 DEF Resolved
  <2>2. CASE ~state.resolved /\ state.firstTs = NoTs
    BY <1>1, <1>2, <2>2, FormatsNumbered DEF Resolved
  <2>3. CASE ~state.resolved /\ state.firstTs # NoTs
    <3> DEFINE elapsed == Elapsed(ts, state.firstTs)
    <3>1. elapsed \in Nat
      BY <1>1, <1>2, <2>3 DEF Elapsed
    <3>2. NearestFormat(state.bytes, elapsed) \in Formats
      <4> HIDE DEF elapsed
      <4> QED BY <1>2, <3>1, NearestFormatType
    <3>3. CASE elapsed >= Window
      <4>1. t = [state EXCEPT !.format = NearestFormat(state.bytes, elapsed), !.resolved = TRUE]
        BY <2>3, <3>3 DEF Resolved
      <4> HIDE DEF t, elapsed
      <4> QED BY <1>2, <3>2, <4>1
    <3>4. CASE (~(elapsed >= Window))
      <4>1. t = state
        BY <2>3, <3>4 DEF Resolved
      <4> QED BY <1>2, <4>1
    <3> QED BY <3>3, <3>4
  <2> QED BY <2>1, <2>2, <2>3
<1>4. w.n * Rates[playing] \in Nat
  <2>1. w.n \in Nat
    BY DEF Wave
  <2>2. Rates[playing] \in Nat
    BY DEF TypeOK, Formats
  <2> QED BY <2>1, <2>2
<1>5. OnWave(state, w) = [t EXCEPT !.bytes = @ + w.n * Rates[playing],
                                   !.buffer = IF state.recording THEN Append(@, w) ELSE @]
  BY DEF OnWave
<1> DEFINE grown == w.n * Rates[playing]
<1> HIDE DEF t, grown
<1>6. t.bytes + grown \in Nat /\ Append(t.buffer, w) \in Seq(Wave)
  BY <1>3, <1>4 DEF grown
<1>7. OnWave(state, w) = [t EXCEPT !.bytes = @ + grown,
                                   !.buffer = IF state.recording THEN Append(@, w) ELSE @]
  BY <1>5 DEF grown
<1>8. OnWave(state, w) \in State
  BY <1>2, <1>3, <1>6, <1>7
<1>9. /\ OnWave(state, w).recording = t.recording /\ OnWave(state, w).format = t.format
      /\ OnWave(state, w).firstTs = t.firstTs /\ OnWave(state, w).resolved = t.resolved
      /\ OnWave(state, w).bytes = state.bytes + grown
      /\ OnWave(state, w).buffer = IF state.recording THEN Append(state.buffer, w)
                                   ELSE state.buffer
  BY <1>2, <1>3, <1>7
<1> QED BY <1>3, <1>8, <1>9 DEF grown, t

\* Stopping a recording leaves an AudioState (audio_stop_recording).
LEMMA StoppedType ==
  ASSUME TypeOK
  PROVE  /\ AudioStopRecording(state) \in
              [recording : BOOLEAN, buffer : Seq(Wave), format : Formats \cup {NoFormat},
               firstTs : Nat \cup {NoTs}, bytes : Nat, resolved : BOOLEAN]
         /\ AudioStopRecording(state) = [state EXCEPT !.recording = FALSE, !.buffer = <<>>]
<1> DEFINE off == FALSE
<1>1. off \in BOOLEAN /\ <<>> \in Seq(Wave)
  OBVIOUS
<1> HIDE DEF off
<1>2. AudioStopRecording(state) = [state EXCEPT !.recording = off, !.buffer = <<>>]
  BY DEF AudioStopRecording, off
<1> QED BY <1>1, <1>2 DEF TypeOK, AudioStopRecording

\* Starting one does too (audio_start_recording).
LEMMA StartedType ==
  ASSUME TypeOK
  PROVE  /\ AudioStartRecording(state) \in
              [recording : BOOLEAN, buffer : Seq(Wave), format : Formats \cup {NoFormat},
               firstTs : Nat \cup {NoTs}, bytes : Nat, resolved : BOOLEAN]
         /\ AudioStartRecording(state).recording
         /\ AudioStartRecording(state).buffer = <<>>
<1> DEFINE on == TRUE
<1>1. on \in BOOLEAN /\ <<>> \in Seq(Wave)
  OBVIOUS
<1> HIDE DEF on
<1>2. AudioStartRecording(state) = [state EXCEPT !.recording = on, !.buffer = <<>>]
  BY DEF AudioStartRecording, on
<1>3. AudioStartRecording(state).recording = on /\ AudioStartRecording(state).buffer = <<>>
  BY <1>2 DEF TypeOK
<1> QED BY <1>1, <1>2, <1>3 DEF TypeOK, on

\* No file is a file of no waves and no format.
LEMMA NoFileType == NoFile \in [data : Seq(Wave), format : Formats \cup {NoFormat}]
<1>1. <<>> \in Seq(Wave)
  OBVIOUS
<1> QED BY <1>1 DEF NoFile

-------------------------------------------------------------------------------
(* The invariant. *)

\* The strengthening of CaptureIsOwn: while a command runs it is recording, what
\* is recorded is what it heard, and there is no file yet.
OwnWhileRunning ==
    cmd # "idle" => state.recording /\ state.buffer = heard /\ wav = NoFile

IInv == TypeOK /\ OwnWhileRunning /\ CaptureIsOwn

LEMMA InitHolds == Init => IInv
<1> SUFFICES ASSUME Init PROVE IInv
  OBVIOUS
<1>1. TypeOK
  BY DEF Init, TypeOK, NoFile, NoFormat, NoTs
<1> QED BY <1>1 DEF Init, IInv, OwnWhileRunning, CaptureIsOwn

LEMMA StepHolds == IInv /\ [Next]_vars => IInv'
<1> SUFFICES ASSUME IInv, [Next]_vars PROVE IInv'
  OBVIOUS
<1> USE DEF IInv
<1>1. CASE Pause
  <2>1. TypeOK'
    <3> DEFINE solid == first.solid /\ (first.at = NoTs \/ state.resolved)
    <3>1. first' = [first EXCEPT !.solid = solid]
      BY <1>1 DEF Pause
    <3>2. solid \in BOOLEAN
      BY DEF TypeOK
    <3> HIDE DEF solid
    <3>3. first' \in [at : Nat \cup {NoTs}, solid : BOOLEAN]
      BY <3>1, <3>2 DEF TypeOK
    <3> QED BY <1>1, <3>3 DEF Pause, TypeOK
  <2> QED BY <1>1, <2>1 DEF Pause, OwnWhileRunning, CaptureIsOwn
<1>2. ASSUME NEW n \in Lengths, NEW level \in Levels, WaveArrives(n, level)
      PROVE  IInv'
  <2> DEFINE w == [n |-> n, level |-> level, at |-> clock]
  <2>1. w \in Wave
    BY DEF Wave, TypeOK
  <2>2. /\ state' = OnWave(state, w)
        /\ heard' = IF cmd = "idle" THEN heard ELSE Append(heard, w)
        /\ cmd' = cmd /\ wav' = wav /\ outcome' = outcome /\ playing' = playing
        /\ clock' = clock + n
        /\ first' = IF first.at = NoTs THEN [first EXCEPT !.at = clock] ELSE first
    BY <1>2 DEF WaveArrives
  <2> HIDE DEF w
  <2>3. TypeOK'
    <3>1. state' \in [recording : BOOLEAN, buffer : Seq(Wave), format : Formats \cup {NoFormat},
                      firstTs : Nat \cup {NoTs}, bytes : Nat, resolved : BOOLEAN]
      BY <2>1, <2>2, OnWaveType
    <3>2. heard' \in Seq(Wave) /\ clock' \in Nat
      BY <2>1, <2>2 DEF TypeOK
    <3>3. first' \in [at : Nat \cup {NoTs}, solid : BOOLEAN]
      BY <2>2 DEF TypeOK
    <3> QED BY <2>2, <3>1, <3>2, <3>3 DEF TypeOK
  <2>4. OwnWhileRunning'
    <3>1. /\ state'.recording = state.recording
          /\ state.recording => state'.buffer = Append(state.buffer, w)
      BY <2>1, <2>2, OnWaveType
    <3> QED BY <2>2, <3>1 DEF OwnWhileRunning
  <2>5. CaptureIsOwn'
    BY <2>2 DEF OwnWhileRunning, CaptureIsOwn
  <2> QED BY <2>3, <2>4, <2>5
<1>3. ASSUME NEW c \in {"capture", "assert"}, Begin(c) PROVE IInv'
  <2>1. TypeOK'
    <3>1. /\ state' = AudioStartRecording(state) /\ wav' = NoFile /\ heard' = <<>>
          /\ cmd' \in {"idle", "capture", "assert"} /\ outcome' = "none"
          /\ UNCHANGED <<clock, playing, first>>
      BY <1>3 DEF Begin
    <3>2. heard' \in Seq(Wave)
      BY <3>1
    <3> QED BY <3>1, <3>2, StartedType, NoFileType DEF TypeOK
  <2>2. OwnWhileRunning'
    BY <1>3, StartedType DEF Begin, OwnWhileRunning
  <2> QED BY <1>3, <2>1, <2>2 DEF Begin, CaptureIsOwn
<1>4. CASE CaptureEnds
  <2>1. TypeOK'
    <3>1. wav' = [data |-> state.buffer, format |-> state.format] \/ wav' = NoFile
      BY <1>4 DEF CaptureEnds
    <3>2. wav' \in [data : Seq(Wave), format : Formats \cup {NoFormat}]
      BY <3>1, NoFileType DEF TypeOK
    <3>3. outcome' \in {"none", "ok", "failed"}
      BY <1>4 DEF CaptureEnds
    <3>4. /\ state' = AudioStopRecording(state) /\ cmd' = "idle"
          /\ UNCHANGED <<clock, playing, heard, first>>
      BY <1>4 DEF CaptureEnds
    <3> QED BY <3>2, <3>3, <3>4, StoppedType DEF TypeOK
  <2>2. CaptureIsOwn'
    <3>1. CASE wav' = NoFile
      BY <3>1, <1>4 DEF CaptureEnds, CaptureIsOwn, NoFile
    <3>2. CASE wav' = [data |-> state.buffer, format |-> state.format]
      BY <3>2, <1>4 DEF CaptureEnds, CaptureIsOwn, OwnWhileRunning
    <3> QED BY <1>4, <3>1, <3>2 DEF CaptureEnds
  <2>3. OwnWhileRunning'
    BY <1>4 DEF CaptureEnds, OwnWhileRunning
  <2> QED BY <2>1, <2>2, <2>3
<1>5. CASE AssertDetects
  <2>1. TypeOK'
    <3>1. /\ state' = AudioStopRecording(state) /\ cmd' = "idle"
          /\ outcome' \in {"none", "ok", "failed"}
          /\ UNCHANGED <<clock, playing, wav, heard, first>>
      BY <1>5 DEF AssertDetects
    <3> QED BY <3>1, StoppedType DEF TypeOK
  <2> QED BY <1>5, <2>1 DEF AssertDetects, OwnWhileRunning, CaptureIsOwn
<1>6. CASE AssertGivesUp
  <2>1. TypeOK'
    <3>1. /\ state' = AudioStopRecording(state) /\ cmd' = "idle"
          /\ outcome' \in {"none", "ok", "failed"}
          /\ UNCHANGED <<clock, playing, wav, heard, first>>
      BY <1>6 DEF AssertGivesUp
    <3> QED BY <3>1, StoppedType DEF TypeOK
  <2> QED BY <1>6, <2>1 DEF AssertGivesUp, OwnWhileRunning, CaptureIsOwn
<1>7. CASE HearFails
  <2>1. TypeOK'
    BY <1>7 DEF HearFails, TypeOK
  <2> QED BY <1>7, <2>1 DEF HearFails, OwnWhileRunning, CaptureIsOwn
<1>8. CASE UNCHANGED vars
  BY <1>8 DEF vars, TypeOK, OwnWhileRunning, CaptureIsOwn
<1> QED BY <1>1, <1>2, <1>3, <1>4, <1>5, <1>6, <1>7, <1>8 DEF Next

LEMMA InvariantHolds == Spec => []IInv
<1> QED BY InitHolds, StepHolds, PTL DEF Spec

\* AudioState, the clocks and the recorded waves are what they should be: in
\* particular the format a recording is labelled with is a supported one or none.
THEOREM TypeCorrect == Spec => []TypeOK
<1>1. IInv => TypeOK
  BY DEF IInv
<1> QED BY <1>1, InvariantHolds, PTL

\* A recording that is written holds the waves of its own command, all of them in
\* their order, whatever commands ran or failed before it (rdpdo.rs 1390-1417).
THEOREM CaptureAlwaysOwn == Spec => []CaptureIsOwn
<1>1. IInv => CaptureIsOwn
  BY DEF IInv
<1> QED BY <1>1, InvariantHolds, PTL

-------------------------------------------------------------------------------
(* What a recording is labelled with. *)

\* The server's clock has not wrapped between the first wave and t.
Same(t) == t \div TsMod = first.at \div TsMod

\* A wave at t was late enough to settle the format.
Due(t) == t - first.at >= Window /\ Same(t)

\* The format is one of the rate the server plays at.
Right == state.format \in Formats /\ Rates[state.format] = Rates[playing]

\* The strengthening of LabelRight. Until the format is settled the bytes counted
\* are those of the time since the first wave, if there was no pause; once it is
\* settled it is right, for as long as the clock has not wrapped; and no recording
\* holds a wave late enough to settle the format unless it is settled.
Unheard ==
    first.at = NoTs =>
      /\ state.firstTs = NoTs /\ ~state.resolved /\ state.bytes = 0
      /\ state.buffer = <<>> /\ wav.data = <<>>
Since == first.at # NoTs => first.at <= clock /\ state.firstTs = first.at % TsMod
Counted ==
    first.at # NoTs /\ ~state.resolved /\ first.solid =>
      state.bytes = Rates[playing] * (clock - first.at)
Settled == state.resolved /\ first.solid /\ Same(clock) => Right
InTime ==
    \A i \in DOMAIN state.buffer :
      Due(state.buffer[i].at) => state.resolved /\ (first.solid => Right)

Measuring == Unheard /\ Since /\ Counted /\ Settled /\ InTime

\* Of DetectionEarned: a command that runs has not succeeded yet.
Detected == (cmd # "idle" => outcome = "none") /\ DetectionEarned

MInv == IInv /\ Measuring /\ LabelRight /\ Detected

\* Sound that is audible has a wave above the threshold: if none had, the mean of
\* the squares would not be above it either (rms_amplitude).
LEMMA AudibleLoud ==
  ASSUME NEW waves \in Seq(Wave), Audible(waves)
  PROVE  \E i \in DOMAIN waves : waves[i].level > Threshold
<1> SUFFICES ASSUME \A i \in DOMAIN waves : ~(waves[i].level > Threshold) PROVE FALSE
  OBVIOUS
<1> HIDE RatesAssumption, ClockAssumption
<1> DEFINE s == [i \in DOMAIN waves |-> waves[i].n]
           p == [i \in DOMAIN waves |-> waves[i].n * waves[i].level]
<1>1. \A i \in DOMAIN waves : waves[i] \in Wave
  OBVIOUS
<1>2. \A i \in DOMAIN waves : waves[i].n \in Nat /\ waves[i].level \in Nat
  BY <1>1 DEF Wave
<1>3. Len(waves) \in Nat /\ DOMAIN waves = 1..Len(waves)
  OBVIOUS
<1>4. s \in Seq(Nat) /\ Len(s) = Len(waves)
  BY <1>2, <1>3
<1>5. p \in Seq(Nat) /\ Len(p) = Len(waves)
  <2>1. \A i \in DOMAIN waves : waves[i].n * waves[i].level \in Nat
    BY <1>2
  <2> QED BY <1>3, <2>1
<1>6. \A i \in 1..Len(s) : p[i] <= Threshold * s[i]
  <2>1. ASSUME NEW n \in Nat, NEW level \in Nat, (~(level > Threshold))
        PROVE  n * level <= Threshold * n
    <3>1. Threshold = level + (Threshold - level) /\ Threshold - level \in Nat
      BY <2>1
    <3>2. (level + (Threshold - level)) * n = level * n + (Threshold - level) * n
          /\ (Threshold - level) * n \in Nat /\ level * n \in Nat /\ n * level = level * n
      BY <3>1
    <3> QED BY <3>1, <3>2
  <2>2. ASSUME NEW i \in DOMAIN waves PROVE p[i] <= Threshold * s[i]
    <3>1. waves[i].n \in Nat /\ waves[i].level \in Nat /\ ~(waves[i].level > Threshold)
      BY <1>2
    <3>2. waves[i].n * waves[i].level <= Threshold * waves[i].n
      BY <2>1, <3>1
    <3> QED BY <3>2
  <2> QED BY <1>3, <1>4, <2>2
<1> HIDE DEF s, p
<1>7. Total(s) \in Nat /\ Total(p) \in Nat /\ Total(p) <= Threshold * Total(s)
  BY <1>4, <1>5, <1>6, TotalBound
<1>8. Total(p) > Threshold * Total(s)
  BY DEF Audible, s, p
<1>9. Threshold * Total(s) \in Nat
  BY <1>7
<1> QED BY <1>7, <1>8, <1>9

LEMMA InitMeasuring == Init => MInv
<1> SUFFICES ASSUME Init PROVE MInv
  OBVIOUS
<1>1. IInv
  BY InitHolds
<1>2. Measuring
  BY DEF Init, Measuring, Unheard, Since, Counted, Settled, InTime, NoFile
<1>3. LabelRight /\ Detected
  BY DEF Init, LabelRight, Detected, DetectionEarned
<1> QED BY <1>1, <1>2, <1>3 DEF MInv

\* A step that leaves the measurement alone and records nothing new.
LEMMA StepApart ==
  ASSUME TypeOK, Measuring,
         UNCHANGED <<clock, playing, first>>,
         \/ UNCHANGED state
         \/ state' = AudioStartRecording(state)
         \/ state' = AudioStopRecording(state),
         \/ UNCHANGED wav
         \/ wav' = NoFile
         \/ wav' = [data |-> state.buffer, format |-> state.format]
  PROVE  Measuring'
<1>1. /\ state'.format = state.format /\ state'.firstTs = state.firstTs
      /\ state'.bytes = state.bytes /\ state'.resolved = state.resolved
      /\ state'.buffer = <<>> \/ state'.buffer = state.buffer
  BY DEF TypeOK, AudioStartRecording, AudioStopRecording
<1>2. \A t : (Same(t)' <=> Same(t)) /\ (Due(t)' <=> Due(t))
  BY DEF Same, Due
<1>3. Right' <=> Right
  BY <1>1 DEF Right
<1>4. InTime'
  <2> SUFFICES ASSUME NEW i \in DOMAIN state'.buffer, Due(state'.buffer[i].at)
               PROVE  state'.resolved /\ (first'.solid => Right')
    BY <1>2 DEF InTime
  <2>1. state'.buffer = state.buffer
    BY <1>1
  <2>2. Due(state.buffer[i].at)
    BY <2>1
  <2> QED BY <1>1, <1>3, <2>1, <2>2 DEF Measuring, InTime
<1>5. Unheard'
  <2>1. wav'.data = wav.data \/ wav'.data = <<>> \/ wav'.data = state.buffer
    BY DEF NoFile
  <2> QED BY <1>1, <2>1 DEF Measuring, Unheard
<1>6. Since' /\ Counted'
  BY <1>1 DEF Measuring, Since, Counted
<1>7. Settled'
  BY <1>1, <1>2, <1>3 DEF Measuring, Settled
<1> QED BY <1>4, <1>5, <1>6, <1>7 DEF Measuring

\* What a wave that comes now settles is right, if the server has not paused nor
\* its clock wrapped since the first; and it settles the format if it is late enough.
LEMMA WaveSettles ==
  ASSUME TypeOK, Measuring, first.at # NoTs
  PROVE  LET t == Resolved(state, clock % TsMod)
         IN  /\ Due(clock) => t.resolved
             /\ t.resolved /\ Same(clock) /\ first.solid =>
                  t.format \in Formats /\ Rates[t.format] = Rates[playing]
             /\ t.firstTs = state.firstTs
             /\ state.resolved => t.resolved /\ t.format = state.format
<1> DEFINE t == Resolved(state, clock % TsMod)
<1>1. first.at \in Nat /\ clock \in Nat /\ first.at <= clock
      /\ state.firstTs = first.at % TsMod /\ state.firstTs # NoTs
  <2>1. first.at \in Nat /\ clock \in Nat /\ first.at <= clock
        /\ state.firstTs = first.at % TsMod
    BY DEF TypeOK, Measuring, Since
  <2>2. first.at % TsMod \in Nat
    BY <2>1
  <2> QED BY <2>1, <2>2 DEF NoTs
<1>2. CASE state.resolved
  <2>1. t = state
    BY <1>2 DEF Resolved
  <2>2. Same(clock) /\ first.solid => Right
    BY <1>2 DEF Measuring, Settled
  <2> QED BY <1>2, <2>1, <2>2 DEF Right
<1>3. CASE ~state.resolved
  <2> DEFINE elapsed == Elapsed(clock % TsMod, state.firstTs)
  <2>1. t = IF elapsed >= Window
            THEN [state EXCEPT !.format = NearestFormat(state.bytes, elapsed), !.resolved = TRUE]
            ELSE state
    BY <1>1, <1>3 DEF Resolved
  <2>2. Same(clock) => elapsed = clock - first.at
    BY <1>1, ElapsedRight DEF Same
  <2> HIDE DEF t, elapsed
  <2>3. CASE elapsed >= Window
    <3>1. t.format = NearestFormat(state.bytes, elapsed) /\ t.resolved
          /\ t.firstTs = state.firstTs
      BY <2>1, <2>3 DEF TypeOK
    <3>2. ASSUME Same(clock), first.solid
          PROVE  t.format \in Formats /\ Rates[t.format] = Rates[playing]
      <4>1. elapsed = clock - first.at /\ elapsed \in Nat \ {0}
        BY <1>1, <2>2, <2>3, <3>2
      <4>2. state.bytes = Rates[playing] * elapsed
        BY <1>3, <3>2, <4>1 DEF Measuring, Counted
      <4>3. playing \in Formats
        BY DEF TypeOK
      <4> QED BY <3>1, <4>1, <4>2, <4>3, NearestFormatRight
    <3> QED BY <1>3, <3>1, <3>2 DEF t
  <2>4. CASE (~(elapsed >= Window))
    <3>1. t = state
      BY <2>1, <2>4
    <3>2. ~Due(clock)
      BY <2>2, <2>4 DEF Due
    <3> QED BY <1>3, <3>1, <3>2 DEF t
  <2> QED BY <2>3, <2>4
<1> QED BY <1>2, <1>3

\* A wave keeps the measurement.
LEMMA StepWave ==
  ASSUME TypeOK, Measuring, NEW n \in Lengths, NEW level \in Levels, WaveArrives(n, level)
  PROVE  Measuring'
<1> DEFINE w == [n |-> n, level |-> level, at |-> clock]
           t == Resolved(state, clock % TsMod)
<1>1. w \in Wave /\ w.at = clock /\ w.n = n
  BY DEF Wave, TypeOK
<1>2. /\ state' = OnWave(state, w) /\ clock' = clock + n
      /\ playing' = playing /\ wav' = wav
      /\ first' = IF first.at = NoTs THEN [first EXCEPT !.at = clock] ELSE first
  BY DEF WaveArrives
<1> HIDE DEF w
<1>3. /\ state'.buffer = (IF state.recording THEN Append(state.buffer, w) ELSE state.buffer)
      /\ state'.bytes = state.bytes + n * Rates[playing]
      /\ state'.format = t.format /\ state'.firstTs = t.firstTs /\ state'.resolved = t.resolved
  BY <1>1, <1>2, OnWaveType
<1>4. clock \in Nat /\ n \in Nat /\ clock <= clock' /\ clock' \in Nat /\ clock # NoTs
  BY <1>2 DEF TypeOK, NoTs
<1>5. Rates[playing] \in Nat
  BY DEF TypeOK, Formats
<1>6. ASSUME NEW i \in DOMAIN state'.buffer
      PROVE  state'.buffer[i].at = clock \/ (i \in DOMAIN state.buffer /\ state'.buffer[i] = state.buffer[i])
  <2>1. state.buffer \in Seq(Wave)
    BY DEF TypeOK
  <2>2. CASE state.recording
    <3>1. /\ DOMAIN state.buffer = 1..Len(state.buffer) /\ Len(state.buffer) \in Nat
          /\ DOMAIN Append(state.buffer, w) = 1..Len(state.buffer) + 1
          /\ \A j \in DOMAIN state.buffer : Append(state.buffer, w)[j] = state.buffer[j]
          /\ Append(state.buffer, w)[Len(state.buffer) + 1] = w
      BY <1>1, <2>1
    <3>2. i \in DOMAIN state.buffer \/ i = Len(state.buffer) + 1
      BY <1>3, <1>6, <2>2, <3>1
    <3> QED BY <1>1, <1>3, <2>2, <3>1, <3>2
  <2> QED BY <1>3, <1>6, <2>2
<1>7. CASE first.at = NoTs
  <2>1. /\ state.firstTs = NoTs /\ ~state.resolved /\ state.bytes = 0
        /\ state.buffer = <<>> /\ wav.data = <<>>
    BY <1>7 DEF Measuring, Unheard
  <2>2. first'.at = clock /\ first'.solid = first.solid
    BY <1>2, <1>7 DEF TypeOK
  <2>3. t.resolved = FALSE /\ t.firstTs = clock % TsMod
    <3>1. t = [state EXCEPT !.firstTs = clock % TsMod, !.format = IF @ = NoFormat THEN 1 ELSE @]
      BY <2>1 DEF Resolved
    <3> HIDE DEF t
    <3> QED BY <2>1, <3>1 DEF TypeOK
  <2>4. state'.bytes = Rates[playing] * (clock' - clock)
    <3>1. clock' - clock = n
      BY <1>2, <1>4
    <3>2. n * Rates[playing] = Rates[playing] * n /\ n * Rates[playing] \in Nat
      BY <1>4, <1>5
    <3> QED BY <1>3, <2>1, <3>1, <3>2
  <2>5. \A i \in DOMAIN state'.buffer : state'.buffer[i].at = clock
    BY <1>6, <2>1
  <2>6. InTime'
    <3>1. (~(clock - clock >= Window))
      BY <1>4
    <3> SUFFICES ASSUME NEW i \in DOMAIN state'.buffer
                 PROVE  ~(state'.buffer[i].at - clock >= Window)
      BY <2>2 DEF InTime, Due
    <3> QED BY <2>5, <3>1
  <2>7. Unheard' /\ Since' /\ Counted' /\ Settled'
    BY <1>2, <1>3, <1>4, <2>2, <2>3, <2>4 DEF Unheard, Since, Counted, Settled
  <2> QED BY <2>6, <2>7 DEF Measuring
<1>8. CASE first.at # NoTs
  <2>1. first' = first
    BY <1>2, <1>8
  <2>2. /\ Due(clock) => t.resolved
        /\ t.resolved /\ Same(clock) /\ first.solid =>
             t.format \in Formats /\ Rates[t.format] = Rates[playing]
        /\ t.firstTs = state.firstTs
        /\ state.resolved => t.resolved /\ t.format = state.format
    BY <1>8, WaveSettles
  <2> HIDE DEF t
  <2>3. first.at \in Nat /\ first.at <= clock /\ state.firstTs = first.at % TsMod
    BY <1>8 DEF TypeOK, Measuring, Since
  <2>4. \A x : (Same(x)' <=> Same(x)) /\ (Due(x)' <=> Due(x))
    BY <2>1 DEF Same, Due
  <2>5. Right' <=> t.format \in Formats /\ Rates[t.format] = Rates[playing]
    BY <1>2, <1>3 DEF Right
  <2>6. Unheard' /\ Since'
    BY <1>3, <1>4, <1>8, <2>1, <2>2, <2>3 DEF Unheard, Since
  <2>7. Counted'
    <3> SUFFICES ASSUME ~state'.resolved, first.solid
                 PROVE  state'.bytes = Rates[playing] * (clock' - first.at)
      BY <1>2, <2>1 DEF Counted
    <3>1. ~state.resolved
      BY <1>3, <2>2
    <3>2. state.bytes = Rates[playing] * (clock - first.at)
      BY <1>8, <3>1 DEF Measuring, Counted
    <3> DEFINE r == Rates[playing]
               d == clock - first.at
    <3>3. r \in Nat /\ d \in Nat /\ clock' - first.at = d + n
      <4>1. d \in Nat
        BY <1>4, <2>3
      <4>2. PICK later : later = clock'
        OBVIOUS
      <4>3. later = clock + n
        BY <1>2, <4>2
      <4>4. later - first.at = d + n
        BY <1>4, <2>3, <4>3
      <4> QED BY <1>5, <4>1, <4>2, <4>4
    <3> HIDE DEF r, d
    <3>4. r * (d + n) = r * d + n * r
      BY <1>4, <3>3
    <3> QED BY <1>3, <3>2, <3>3, <3>4 DEF r, d
  <2>8. Settled'
    <3> SUFFICES ASSUME state'.resolved, first.solid, Same(clock')
                 PROVE  t.format \in Formats /\ Rates[t.format] = Rates[playing]
      BY <2>1, <2>5 DEF Settled, Same
    <3>1. Same(clock)
      <4>1. PICK later \in Nat : later = clock'
        BY <1>4
      <4>2. /\ first.at \div TsMod <= clock \div TsMod
            /\ clock \div TsMod <= later \div TsMod
        BY <1>4, <2>3, <4>1, DivMonotone
      <4>3. later \div TsMod = first.at \div TsMod
        BY <4>1 DEF Same
      <4>4. /\ first.at \div TsMod \in Nat /\ clock \div TsMod \in Nat
            /\ later \div TsMod \in Nat
        BY <1>4, <2>3, <4>1, DivMod
      <4> QED BY <4>2, <4>3, <4>4 DEF Same
    <3> QED BY <1>3, <2>2, <3>1
  <2>9. InTime'
    <3> SUFFICES ASSUME NEW i \in DOMAIN state'.buffer, Due(state'.buffer[i].at)
                 PROVE  t.resolved /\ (first.solid => Right')
      BY <1>3, <2>1, <2>4 DEF InTime
    <3>1. CASE state'.buffer[i].at = clock
      BY <2>2, <2>5, <3>1 DEF Due
    <3>2. CASE i \in DOMAIN state.buffer /\ state'.buffer[i] = state.buffer[i]
      <4>1. state.resolved /\ (first.solid => Right)
        BY <3>2 DEF Measuring, InTime
      <4> QED BY <2>2, <2>5, <4>1 DEF Right
    <3> QED BY <1>6, <3>1, <3>2
  <2> QED BY <2>6, <2>7, <2>8, <2>9 DEF Measuring
<1> QED BY <1>7, <1>8

\* So does a pause: it only ends the measurement's validity or time.
LEMMA StepPause ==
  ASSUME TypeOK, Measuring, Pause
  PROVE  Measuring'
<1> DEFINE solid == first.solid /\ (first.at = NoTs \/ state.resolved)
<1>1. /\ clock' = clock + 1 /\ first' = [first EXCEPT !.solid = solid]
      /\ UNCHANGED <<playing, state, cmd, outcome, wav, heard>>
  BY DEF Pause
<1> HIDE DEF solid
<1>2. first'.at = first.at /\ first'.solid = solid
  BY <1>1 DEF TypeOK
<1>3. solid => first.solid /\ (first.at = NoTs \/ state.resolved)
  BY DEF solid
<1>4. clock \in Nat /\ clock <= clock' /\ clock' \in Nat
  BY <1>1 DEF TypeOK
<1>5. \A x : (Same(x)' <=> Same(x)) /\ (Due(x)' <=> Due(x))
  BY <1>2 DEF Same, Due
<1>6. Right' <=> Right
  BY <1>1 DEF Right
<1>7. Unheard' /\ Since' /\ Counted'
  <2>1. Unheard' /\ Counted'
    BY <1>1, <1>2, <1>3 DEF Measuring, Unheard, Counted
  <2>2. Since'
    <3>1. first.at # NoTs => first.at \in Nat /\ first.at <= clock
      BY DEF TypeOK, Measuring, Since
    <3> QED BY <1>1, <1>2, <1>4, <3>1 DEF Measuring, Since
  <2> QED BY <2>1, <2>2
<1>8. Settled'
  <2> SUFFICES ASSUME state.resolved, solid, Same(clock') PROVE Right
    BY <1>1, <1>2, <1>6 DEF Settled, Same
  <2>1. first.at \in Nat /\ first.at <= clock
    BY DEF TypeOK, Measuring, Unheard, Since
  <2>2. PICK later \in Nat : later = clock'
    BY <1>4
  <2>3. /\ first.at \div TsMod <= clock \div TsMod
        /\ clock \div TsMod <= later \div TsMod
    BY <1>4, <2>1, <2>2, DivMonotone
  <2>4. later \div TsMod = first.at \div TsMod
    BY <2>2 DEF Same
  <2>5. /\ first.at \div TsMod \in Nat /\ clock \div TsMod \in Nat
        /\ later \div TsMod \in Nat
    BY <1>4, <2>1, <2>2, DivMod
  <2>6. Same(clock)
    BY <2>3, <2>4, <2>5 DEF Same
  <2> QED BY <1>3, <2>6 DEF Measuring, Settled
<1>9. InTime'
  <2> SUFFICES ASSUME NEW i \in DOMAIN state.buffer, Due(state.buffer[i].at)
               PROVE  state.resolved /\ (solid => Right)
    BY <1>1, <1>2, <1>5, <1>6 DEF InTime
  <2> QED BY <1>3 DEF Measuring, InTime
<1> QED BY <1>7, <1>8, <1>9 DEF Measuring

LEMMA StepMeasuring == MInv /\ [Next]_vars => MInv'
<1> SUFFICES ASSUME MInv, [Next]_vars PROVE MInv'
  OBVIOUS
<1>1. IInv /\ TypeOK /\ OwnWhileRunning /\ Measuring /\ LabelRight /\ Detected
  BY DEF MInv, IInv
<1>2. IInv'
  BY <1>1, StepHolds
<1> SUFFICES Measuring' /\ LabelRight' /\ Detected'
  BY <1>2 DEF MInv
<1>3. ASSUME wav' = wav \/ wav' = NoFile, first'.at = first.at, first'.solid => first.solid,
             playing' = playing
      PROVE  LabelRight'
  BY <1>1, <1>3 DEF LabelRight
<1>4. CASE Pause
  <2>1. first'.at = first.at /\ (first'.solid => first.solid)
    BY <1>1, <1>4 DEF Pause, TypeOK
  <2>2. Detected'
    BY <1>1, <1>4 DEF Pause, Detected, DetectionEarned
  <2>3. wav' = wav /\ playing' = playing
    BY <1>4 DEF Pause
  <2> QED BY <1>1, <1>3, <1>4, <2>1, <2>2, <2>3, StepPause
<1>5. ASSUME NEW n \in Lengths, NEW level \in Levels, WaveArrives(n, level)
      PROVE  Measuring' /\ LabelRight' /\ Detected'
  <2>1. Measuring'
    BY <1>1, <1>5, StepWave
  <2>2. wav' = wav /\ playing' = playing /\ cmd' = cmd /\ outcome' = outcome
        /\ (cmd = "idle" => heard' = heard)
        /\ first' = IF first.at = NoTs THEN [first EXCEPT !.at = clock] ELSE first
    BY <1>5 DEF WaveArrives
  <2>3. LabelRight'
    <3>1. CASE first.at = NoTs
      BY <1>1, <2>2, <3>1 DEF Measuring, Unheard, LabelRight
    <3>2. CASE first.at # NoTs
      BY <1>3, <2>2, <3>2
    <3> QED BY <3>1, <3>2
  <2>4. Detected'
    BY <1>1, <2>2 DEF Detected, DetectionEarned
  <2> QED BY <2>1, <2>3, <2>4
<1>6. ASSUME NEW c \in {"capture", "assert"}, Begin(c)
      PROVE  Measuring' /\ LabelRight' /\ Detected'
  <2>1. /\ state' = AudioStartRecording(state) /\ wav' = NoFile /\ outcome' = "none"
        /\ cmd' # "idle" /\ UNCHANGED <<clock, playing, first>>
    BY <1>6 DEF Begin
  <2>2. Detected'
    BY <2>1 DEF Detected, DetectionEarned
  <2> QED BY <1>1, <1>3, <2>1, <2>2, StepApart
<1>7. CASE CaptureEnds
  <2>1. /\ cmd # "idle" /\ state' = AudioStopRecording(state) /\ cmd' = "idle"
        /\ UNCHANGED <<clock, playing, heard, first>>
    BY <1>7 DEF CaptureEnds
  <2>2. CASE wav' = NoFile /\ outcome' = "failed"
    <3>1. Detected'
      BY <2>1, <2>2 DEF Detected, DetectionEarned
    <3> QED BY <1>1, <1>3, <2>1, <2>2, <3>1, StepApart
  <2>3. CASE /\ state.format # NoFormat
             /\ wav' = [data |-> state.buffer, format |-> state.format]
    <3>1. Measuring'
      BY <1>1, <2>1, <2>3, StepApart
    <3>2. wav' # NoFile
      BY <2>3 DEF NoFile
    <3>3. Detected'
      BY <2>1, <3>2 DEF Detected, DetectionEarned
    <3>4. LabelRight'
      <4> DEFINE b == state.buffer
      <4> SUFFICES ASSUME b # <<>>, Last(b).at - first.at >= Window, first.solid,
                          first.at \div TsMod = Last(b).at \div TsMod
                   PROVE  Rates[state.format] = Rates[playing]
        BY <2>1, <2>3 DEF LabelRight
      <4>1. b \in Seq(Wave)
        BY <1>1 DEF TypeOK
      <4>2. Len(b) \in DOMAIN b /\ Last(b) = b[Len(b)]
        BY <4>1 DEF Last
      <4>3. Due(b[Len(b)].at)
        BY <4>2 DEF Due, Same
      <4> QED BY <1>1, <4>2, <4>3 DEF Measuring, InTime, Right
    <3> QED BY <3>1, <3>3, <3>4
  <2> QED BY <1>7, <2>2, <2>3 DEF CaptureEnds
<1>8. CASE AssertDetects
  <2>1. /\ cmd # "idle" /\ Audible(state.buffer)
        /\ state' = AudioStopRecording(state)
        /\ cmd' = "idle" /\ UNCHANGED <<clock, playing, wav, heard, first>>
    BY <1>8 DEF AssertDetects
  <2>2. state.buffer = heard /\ heard \in Seq(Wave)
    BY <1>1, <2>1 DEF OwnWhileRunning, TypeOK
  <2>3. \E i \in DOMAIN heard : heard[i].level > Threshold
    BY <2>1, <2>2, AudibleLoud
  <2>4. Detected'
    BY <2>1, <2>3 DEF Detected, DetectionEarned
  <2> QED BY <1>1, <1>3, <2>1, <2>4, StepApart
<1>9. CASE AssertGivesUp
  <2>1. /\ state' = AudioStopRecording(state) /\ cmd' = "idle" /\ outcome' = "failed"
        /\ UNCHANGED <<clock, playing, wav, heard, first>>
    BY <1>9 DEF AssertGivesUp
  <2>2. Detected'
    BY <2>1 DEF Detected, DetectionEarned
  <2> QED BY <1>1, <1>3, <2>1, <2>2, StepApart
<1>10. CASE HearFails
  <2>1. /\ cmd' = "idle" /\ outcome' = "failed"
        /\ UNCHANGED <<clock, playing, state, wav, heard, first>>
    BY <1>10 DEF HearFails
  <2>2. Detected'
    BY <2>1 DEF Detected, DetectionEarned
  <2> QED BY <1>1, <1>3, <2>1, <2>2, StepApart
<1>11. CASE UNCHANGED vars
  <2>1. UNCHANGED <<clock, playing, state, cmd, outcome, wav, heard, first>>
    BY <1>11 DEF vars
  <2>2. Detected'
    BY <1>1, <2>1 DEF Detected, DetectionEarned
  <2> QED BY <1>1, <1>3, <2>1, <2>2, StepApart
<1> QED BY <1>4, <1>5, <1>6, <1>7, <1>8, <1>9, <1>10, <1>11 DEF Next

\* A file that audio-capture wrote says the rate the server plays at, whatever the
\* supported rates, the window and the width of the clock, unless the server paused
\* or its clock wrapped while it was measured; and audio-assert-playing succeeds only
\* on sound that came while it ran (audio.rs wave, rms_amplitude; rdpdo.rs 1390-1437).
THEOREM MeasuredAlwaysRight == Spec => []MeasuredRight
<1>1. MInv => MeasuredRight
  BY DEF MInv, Detected, MeasuredRight
<1> QED BY <1>1, InitMeasuring, StepMeasuring, PTL DEF Spec
===============================================================================
