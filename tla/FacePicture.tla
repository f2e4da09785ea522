------------------------------ MODULE FacePicture ------------------------------
(***************************************************************************)
(* What becomes of the faces found in a frame: the detection worker cuts a *)
(* square around each (FaceCropper.crop) and asks the quality gate whether *)
(* the picture is worth storing (QualityEvaluator.evaluate).  Brightness   *)
(* and sharpness of the cut-out are arbitrary; scores are ten-thousandths. *)
(***************************************************************************)
EXTENDS FaceDecode

CONSTANTS
    Padding,        \* face_crop_padding, in percent
    Margin,         \* edge_margin_ratio, in percent
    Dark, Bright,   \* quality_brightness_min, quality_brightness_max
    Blur,           \* quality_blur_threshold
    MinQuality,     \* quality_min_score
    Lights, Sharps  \* what a cut-out may measure

ASSUME PictureAssumption ==
    /\ Padding \in 0..100 /\ Margin \in Nat
    /\ Dark \in Nat /\ Bright \in Nat /\ Dark < Bright /\ Blur \in Nat \ {0}
    /\ MinQuality \in 0..10000
    /\ Lights \subseteq Nat /\ Sharps \subseteq Nat

VARIABLE shots      \* the pictures taken, one for each detection

vars == <<decodeVars, shots>>

Reasons == {"too_small", "partially_outside_frame", "too_dark", "too_bright",
            "blurry", "low_quality_score", "ok"}

TypeOK ==
    /\ DecodeType
    /\ shots \in Seq([crop : Box, light : Lights, sharp : Sharps,
                      score : Int, reason : Reasons])
    /\ Len(shots) <= Len(detections)

Init == DecodeInit /\ shots = <<>>

---------------------------------------------------------------------------
(* FaceCropper.crop *)

CropSide(d) == (Larger(d.w, d.h) * (100 + 2 * Padding)) \div 100

CropUnanchored(d) ==
    LET side == CropSide(d)
        left == Larger(0, Truncated(2 * d.x + d.w - side, 2))
        top == Larger(0, Truncated(2 * d.y + d.h - side, 2))
    IN  [x |-> left, y |-> top,
         w |-> Smaller(Width, left + side) - left,
         h |-> Smaller(Height, top + side) - top]

\* A square around the middle of the face, cut at the frame's edges and moved
\* back inwards where the right or bottom edge cut it.
Crop(d) ==
    LET side == CropSide(d)
        left == Larger(0, Truncated(2 * d.x + d.w - side, 2))
        top == Larger(0, Truncated(2 * d.y + d.h - side, 2))
        right == Smaller(Width, left + side)
        bottom == Smaller(Height, top + side)
        x == Larger(0, right - side)
        y == Larger(0, bottom - side)
    IN  [x |-> x, y |-> y, w |-> right - x, h |-> bottom - y]

---------------------------------------------------------------------------
(* QualityEvaluator *)

Distance(a, b) == IF a > b THEN a - b ELSE b - a

ScoreUncentred(d, light, sharp) ==
    LET full == 4 * Blur
        band == Bright - Dark
        large == 4 * MinFace
        sharpness == Smaller(full, sharp)
        exposure == Larger(0, band - (2 * light - (Dark + Bright)))
        size == Smaller(large, Smaller(d.w, d.h))
        sum == 2 * sharpness * band * large + exposure * full * large + size * full * band
        whole == 4 * full * band * large
    IN  (20000 * sum + whole) \div (2 * whole)

\* _composite_score: half sharpness, a quarter exposure, a quarter size, each
\* at most 1, rounded.
CompositeScore(d, light, sharp) ==
    LET full == 4 * Blur
        band == Bright - Dark
        large == 4 * MinFace
        sharpness == Smaller(full, sharp)
        exposure == Larger(0, band - Distance(2 * light, Dark + Bright))
        size == Smaller(large, Smaller(d.w, d.h))
        sum == 2 * sharpness * band * large + exposure * full * large + size * full * band
        whole == 4 * full * band * large
    IN  (20000 * sum + whole) \div (2 * whole)

AtEdgeStrict(d) ==
    LET across == (Width * Margin) \div 100
        down == (Height * Margin) \div 100
    IN  d.x < across \/ d.y < down \/ d.x + d.w > Width - across \/ d.y + d.h > Height - down

AtEdge(d) ==
    LET across == (Width * Margin) \div 100
        down == (Height * Margin) \div 100
    IN  d.x <= across \/ d.y <= down \/ d.x + d.w >= Width - across \/ d.y + d.h >= Height - down

\* The tests in their order; the first that fails is the reason.
Reason(d, light, sharp) ==
    CASE ~BigEnough(d) -> "too_small"
      [] BigEnough(d) /\ AtEdge(d) -> "partially_outside_frame"
      [] OTHER ->
           CASE light < Dark -> "too_dark"
             [] light > Bright -> "too_bright"
             [] light \in Dark..Bright /\ sharp < Blur -> "blurry"
             [] OTHER -> IF CompositeScore(d, light, sharp) < MinQuality
                           THEN "low_quality_score" ELSE "ok"

Scored == {"low_quality_score", "ok"}

---------------------------------------------------------------------------

\* The next face of the frame is cut out and judged.
Shoot ==
    /\ phase = "located" /\ Len(shots) < Len(detections)
    /\ \E light \in Lights, sharp \in Sharps :
         LET d == detections[Len(shots) + 1]
             reason == Reason(d, light, sharp)
         IN  shots' = Append(shots,
               [crop |-> Crop(d), light |-> light, sharp |-> sharp, reason |-> reason,
                score |-> IF reason \in Scored THEN CompositeScore(d, light, sharp) ELSE 0])
    /\ UNCHANGED decodeVars

Next == (DecodeNext /\ UNCHANGED shots) \/ Shoot

Spec == Init /\ [][Next]_vars

---------------------------------------------------------------------------
(* Properties *)

\* The cut-out lies on the frame, holds the whole face and is as large as the
\* padding asks in each direction, or as the frame where that is smaller
\* (cropper.py:49-68).
CropHoldsFace ==
    \A i \in DOMAIN shots :
        LET d == detections[i]
            c == shots[i].crop
        IN  /\ 0 <= c.x /\ c.x <= d.x /\ d.x + d.w <= c.x + c.w /\ c.x + c.w <= Width
            /\ 0 <= c.y /\ c.y <= d.y /\ d.y + d.h <= c.y + c.h /\ c.y + c.h <= Height
            /\ c.w = Smaller(CropSide(d), Width) /\ c.h = Smaller(CropSide(d), Height)

\* A picture is accepted only of a face that the network saw whole: the box of
\* its candidate does not reach over the frame's edge, although the detector
\* has cut every box at the edge before the gate sees it
\* (quality.py:59-64, hailo_models.py:118-121).
WholeFaces ==
    \A i \in DOMAIN shots :
        shots[i].reason = "ok" =>
            \E j \in DOMAIN keep :
                LET b == BoxAt(keep[j][1], keep[j][2])
                IN  /\ Located(b) = detections[i]
                    /\ 0 <= b.x1 /\ Longer * b.x2 < Width * Size
                    /\ 0 <= b.y1 /\ Longer * b.y2 < Height * Size

\* Scores lie between 0 and 1, and a picture that is at least as sharp, as well
\* lit and as large as an accepted one of the same frame, and clear of the
\* edges, is accepted with at least its score (quality.py:5, 46-96).
GateFair ==
    LET better(i, j) ==
          /\ shots[i].sharp >= shots[j].sharp
          /\ Distance(2 * shots[i].light, Dark + Bright)
               <= Distance(2 * shots[j].light, Dark + Bright)
          /\ detections[i].w >= detections[j].w /\ detections[i].h >= detections[j].h
          /\ ~AtEdge(detections[i])
    IN  \A i, j \in DOMAIN shots :
          /\ shots[i].score \in 0..10000
          /\ shots[j].reason = "ok" /\ better(i, j)
               => shots[i].reason = "ok" /\ shots[i].score >= shots[j].score
=============================================================================
