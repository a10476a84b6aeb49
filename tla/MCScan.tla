-------------------------------- MODULE MCScan --------------------------------
(* Three targets, probed two at a time, so that the second chunk starts when  *)
(* part of the overall timeout has gone.                                      *)
EXTENDS ScanProperties
==============================================================================
