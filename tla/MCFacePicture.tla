---------------------------- MODULE MCFacePicture ----------------------------
(* Instances of FacePicture for TLC: strides 2 and 4 on a canvas of 8. *)
EXTENDS FacePicture

\* Heights 4 and 2: one score, one bbox and one key point tensor for each.
Heads2 == {4, 2} \X {2, 8, 20}
\* All of them, then without the boxes of stride 2, then no head at all.
MCLayouts == {Heads2, Heads2 \ {<<4, 8>>}, {<<4, 3>>, <<8, 2>>}}

MCSpots == {<<2, 2, 1, 0>>, <<2, 2, 2, 0>>, <<2, 2, 2, 1>>, <<2, 2, 3, 0>>, <<4, 1, 1, 0>>}

Reach4(l, t, r, b) == [j \in 0..3 |-> <<l, t, r, b>>[j + 1]]
MCReaches == {Reach4(0, 0, 1, 1), Reach4(1, 1, 1, 1)}

MCFrames == {<<8, 8>>, <<12, 11>>, <<4, 12>>}
==============================================================================
