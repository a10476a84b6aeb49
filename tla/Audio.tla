--------------------------------- MODULE Audio ---------------------------------
(***************************************************************************)
(* Capturing the sound of a session: the handler of the sound channel      *)
(* (audio.rs), which the session's pump calls for every wave, and the      *)
(* commands audio-capture and audio-assert-playing (rdpdo.rs 1390-1437).   *)
(* Time is in ticks of 100 ms; a wave is `n` ticks of sound.               *)
(***************************************************************************)
EXTENDS Integers, Sequences, SequencesExt

CONSTANTS
    Rates,      \* bytes per tick of the formats of SUPPORTED_FORMATS, in their order
    Window,     \* ticks after the first wave at which the rate is measured
    TsMod,      \* timestamps wrap here (2^32)
    Lengths,    \* how many ticks a wave may hold
    Levels,     \* how loud it may be: the mean of its squared samples
    Threshold,  \* the square of the amplitude that counts as sound
    Starts,     \* where the server's clock may stand at first
    MaxTicks    \* bound: how far the clock goes

ASSUME RatesAssumption == Rates \in Seq(Nat \ {0}) /\ Rates # <<>>
ASSUME WaveAssumption == Lengths \subseteq Nat /\ Levels \subseteq Nat /\ Threshold \in Nat
ASSUME ClockAssumption ==
    {Window, TsMod} \subseteq Nat \ {0} /\ Starts \subseteq Nat /\ MaxTicks \in Nat

VARIABLES
    clock,      \* the server's audio clock
    playing,    \* the format the server plays in
    state,      \* AudioState
    cmd,        \* "idle" | "capture" | "assert"
    outcome,    \* "none" | "ok" | "failed": how the last command ended
    wav,        \* the file the last audio-capture wrote, or NoFile
    heard,      \* the waves that came since the command began
    first       \* the clock at the first wave, and whether there was no pause from
                \* there to the measurement

vars == <<clock, playing, state, cmd, outcome, wav, heard, first>>

Formats == DOMAIN Rates
NoFormat == 0
NoTs == 0 - 1
NoFile == [data |-> <<>>, format |-> NoFormat]

Wave == [n : Lengths, level : Levels, at : Nat]

-------------------------------------------------------------------------------
\* The arithmetic of wave().

\* u32 saturating_sub.
Elapsed(ts, since) == IF ts < since THEN 0 ELSE ts - since

Distance(a, b) == IF a < b THEN b - a ELSE a - b

\* min_by over the supported formats: the first of those whose rate is nearest to
\* `bytes` in `elapsed`.
NearestFormat(bytes, elapsed) ==
    LET off(f) == Distance(Rates[f] * elapsed, bytes)
    IN  CHOOSE f \in Formats :
          /\ \A g \in Formats : off(f) <= off(g)
          /\ \A g \in Formats : g < f => off(f) < off(g)

\* The format a wave at `ts` leaves behind, and whether it is settled.
Resolved(s, ts) ==
    IF s.resolved THEN s
    ELSE IF s.firstTs = NoTs
    THEN [s EXCEPT !.firstTs = ts, !.format = IF @ = NoFormat THEN 1 ELSE @]
    ELSE LET elapsed == Elapsed(ts, s.firstTs)
         IN  IF elapsed >= Window
             THEN [s EXCEPT !.format = NearestFormat(s.bytes, elapsed), !.resolved = TRUE]
             ELSE s

MutOnWave(s, w) ==
    LET t == Resolved([s EXCEPT !.bytes = @ + w.n * Rates[playing]], w.at % TsMod)
    IN  [t EXCEPT !.buffer = IF s.recording THEN Append(@, w) ELSE @]

\* wave(): the rate is measured over the waves before this one.
OnWave(s, w) ==
    LET t == Resolved(s, w.at % TsMod)
    IN  [t EXCEPT !.bytes = @ + w.n * Rates[playing],
                  !.buffer = IF s.recording THEN Append(@, w) ELSE @]

\* The partial sums of a sequence of numbers, from 0 on.
Sums(s) == LET sum[i \in 0..Len(s)] == IF i = 0 THEN 0 ELSE sum[i - 1] + s[i] IN sum
Total(s) == Sums(s)[Len(s)]

\* rms_amplitude over the whole buffer, compared with the threshold; that of an
\* empty buffer is 0.
Audible(waves) ==
    LET length == Total([i \in DOMAIN waves |-> waves[i].n])
        power  == Total([i \in DOMAIN waves |-> waves[i].n * waves[i].level])
    IN  power > Threshold * length

-------------------------------------------------------------------------------
Init ==
    /\ clock \in Starts
    /\ playing \in Formats
    /\ state = [recording |-> FALSE, buffer |-> <<>>, format |-> NoFormat,
                firstTs |-> NoTs, bytes |-> 0, resolved |-> FALSE]
    /\ cmd = "idle" /\ outcome = "none" /\ wav = NoFile
    /\ heard = <<>>
    /\ first = [at |-> NoTs, solid |-> TRUE]

\* The server plays nothing for a while.
Pause ==
    /\ clock < MaxTicks
    /\ clock' = clock + 1
    /\ first' = [first EXCEPT !.solid = @ /\ (first.at = NoTs \/ state.resolved)]
    /\ UNCHANGED <<playing, state, cmd, outcome, wav, heard>>

\* A wave comes while the connection is read, in these commands or in others.
WaveArrives(n, level) ==
    /\ clock < MaxTicks
    /\ LET w == [n |-> n, level |-> level, at |-> clock]
       IN  /\ state' = OnWave(state, w)
           /\ heard' = IF cmd = "idle" THEN heard ELSE Append(heard, w)
    /\ clock' = clock + n
    /\ first' = IF first.at = NoTs THEN [first EXCEPT !.at = clock] ELSE first
    /\ UNCHANGED <<playing, cmd, outcome, wav>>

MutAudioStartRecording(s) == [s EXCEPT !.recording = TRUE]

AudioStartRecording(s) == [s EXCEPT !.recording = TRUE, !.buffer = <<>>]
AudioStopRecording(s) == [s EXCEPT !.recording = FALSE, !.buffer = <<>>]

Begin(c) ==
    /\ cmd = "idle"
    /\ state' = AudioStartRecording(state)
    /\ cmd' = c /\ outcome' = "none" /\ heard' = <<>> /\ wav' = NoFile
    /\ UNCHANGED <<clock, playing, first>>

\* The duration is over: stop, and write what was recorded unless no wave ever
\* came in this session; or the file cannot be written.
CaptureEnds ==
    /\ cmd = "capture"
    /\ state' = AudioStopRecording(state)
    /\ cmd' = "idle"
    /\ \/ /\ state.format # NoFormat
          /\ wav' = [data |-> state.buffer, format |-> state.format] /\ outcome' = "ok"
       \/ wav' = NoFile /\ outcome' = "failed"
    /\ UNCHANGED <<clock, playing, heard, first>>

\* Every 250 ms the loop looks at what was recorded so far.
AssertDetects ==
    /\ cmd = "assert" /\ Audible(state.buffer)
    /\ state' = AudioStopRecording(state)
    /\ cmd' = "idle" /\ outcome' = "ok"
    /\ UNCHANGED <<clock, playing, wav, heard, first>>

\* The deadline has passed; the last look found nothing.
AssertGivesUp ==
    /\ cmd = "assert" /\ ~Audible(state.buffer)
    /\ state' = AudioStopRecording(state)
    /\ cmd' = "idle" /\ outcome' = "failed"
    /\ UNCHANGED <<clock, playing, wav, heard, first>>

\* run_for fails: the command returns at once and leaves the recording on.
HearFails ==
    /\ cmd # "idle"
    /\ cmd' = "idle" /\ outcome' = "failed"
    /\ UNCHANGED <<clock, playing, state, wav, heard, first>>

Next ==
    \/ Pause
    \/ \E n \in Lengths, level \in Levels : WaveArrives(n, level)
    \/ \E c \in {"capture", "assert"} : Begin(c)
    \/ CaptureEnds \/ AssertDetects \/ AssertGivesUp \/ HearFails

Spec == Init /\ [][Next]_vars
===============================================================================
