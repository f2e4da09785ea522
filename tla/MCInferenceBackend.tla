-------------------------- MODULE MCInferenceBackend --------------------------
(* Instances of InferenceBackend for TLC. *)
EXTENDS InferenceBackend
==============================================================================
