------------------------ MODULE MCCapturePipeline ------------------------
(* Instances of CapturePipeline for TLC. *)
EXTENDS CapturePipeline, TLC

CONSTANTS d1, d2

===========================================================================
