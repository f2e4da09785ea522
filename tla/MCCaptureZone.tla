--------------------------- MODULE MCCaptureZone ---------------------------
(* Instances of CaptureZone for TLC. *)
EXTENDS CaptureZone
============================================================================
