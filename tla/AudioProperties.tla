---------------------------- MODULE AudioProperties ----------------------------
(* What the audio commands promise (rdpdo.rs 1390-1437, audio.rs).          *)
EXTENDS Audio

\* The state is what AudioState can hold.
TypeOK ==
    /\ clock \in Nat /\ playing \in Formats
    /\ state \in [recording : BOOLEAN, buffer : Seq(Wave), format : Formats \cup {NoFormat},
                  firstTs : Nat \cup {NoTs}, bytes : Nat, resolved : BOOLEAN]
    /\ cmd \in {"idle", "capture", "assert"} /\ outcome \in {"none", "ok", "failed"}
    /\ wav \in [data : Seq(Wave), format : Formats \cup {NoFormat}]
    /\ heard \in Seq(Wave)
    /\ first \in [at : Nat \cup {NoTs}, solid : BOOLEAN]

\* An audio-capture that succeeds wrote the waves that came while it ran, all of
\* them and in their order: nothing of an earlier recording that an error left on,
\* nothing that came before the command.
CaptureIsOwn == wav # NoFile => wav.data = heard

\* The file says the byte rate the server plays at, once a wave came Window ticks
\* after the first one of the session: unless the server paused between the two,
\* or its clock wrapped, for then the measured rate is not the format's.
LabelRight ==
    /\ wav # NoFile
    /\ wav.data # <<>> /\ Last(wav.data).at - first.at >= Window
    /\ first.solid
    /\ first.at \div TsMod = Last(wav.data).at \div TsMod
    => Rates[wav.format] = Rates[playing]

\* audio-assert-playing succeeds only on sound that came while it ran.
DetectionEarned ==
    cmd = "idle" /\ outcome = "ok" /\ wav = NoFile =>
      \E i \in DOMAIN heard : heard[i].level > Threshold

\* What the commands say of the sound, its format and that there is any, is so.
MeasuredRight == LabelRight /\ DetectionEarned
===============================================================================
