---------------------------- MODULE MCFaceTracker ----------------------------
(* Instances of FaceTracker for TLC. *)
EXTENDS FaceTracker
==============================================================================
