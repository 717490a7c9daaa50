--------------------------- MODULE MCMarkerWorker ---------------------------
(* Small instances of MarkerWorker for TLC.                                *)
EXTENDS MarkerWorker
=============================================================================
