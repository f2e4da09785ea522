--------------------------- MODULE MCFaceStore ---------------------------
(* Instances of FaceStore for TLC. *)
EXTENDS FaceStore, TLC

CONSTANTS h1, h2

OneCamera == [c \in Captures |-> 1]

EveryPair == Captures \X Captures
NewestOnly == {{c \in Captures : c > 1}}

HandlerSymmetry == Permutations(Handlers)
===========================================================================
