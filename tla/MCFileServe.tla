----------------------------- MODULE MCFileServe -----------------------------
(* The bounds of the clipboard-send-file runs are in their configurations. *)
EXTENDS FileServeProperties
==============================================================================
