-------------------------------- MODULE MCAudio --------------------------------
(* The six formats of audio.rs (bytes per 100 ms, in units of 30), and two    *)
(* loudnesses: silence, and a sound that silence before it can drown.         *)
EXTENDS AudioProperties
MCRates == <<640, 588, 320, 294, 294, 147>>
===============================================================================
