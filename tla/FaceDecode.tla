------------------------------ MODULE FaceDecode ------------------------------
(***************************************************************************)
(* HailoFaceModels.detect on one frame: the raw tensors of the network are *)
(* told apart by their shape, decoded stride by stride into boxes on the   *)
(* letterboxed canvas, thinned by non-maximum suppression and brought back *)
(* to the frame.  Lengths are whole pixels, scores whole numbers, ratios   *)
(* percentages; what the network answers is arbitrary.                     *)
(***************************************************************************)
EXTENDS Integers, Sequences, FiniteSetsExt

CONSTANTS
    Strides,        \* STRIDES
    Anchors,        \* NUM_ANCHORS
    Size,           \* side of the canvas, a multiple of every stride
    MinScore,       \* detection_confidence
    NmsIou,         \* nms_iou, in percent
    MinFace,        \* min_face_size
    FrameSizes,     \* <<width, height>> of a frame
    Layouts,        \* sets of <<height, channels>>: the tensors of a network
    Spots,          \* <<stride, row, column, anchor>> that may answer
    Scores, Reaches,    \* what an anchor may answer
    MaxFired        \* bound

Positions == UNION { {s} \X (0 .. (Size \div s) * (Size \div s) * Anchors - 1) : s \in Strides }

ASSUME DecodeAssumption ==
    /\ Strides \subseteq Nat \ {0} /\ Anchors \in Nat \ {0} /\ Size \in Nat \ {0}
    /\ MinScore \in Nat \ {0} /\ NmsIou \in 0..100 /\ MinFace \in Nat \ {0}
    /\ FrameSizes \subseteq (Nat \ {0}) \X (Nat \ {0})
    /\ Spots \subseteq UNION { {s} \X (0 .. (Size \div s) - 1) \X (0 .. (Size \div s) - 1)
                                \X (0 .. Anchors - 1) : s \in Strides }
    /\ Scores \subseteq Nat /\ Reaches \subseteq [0..3 -> Int]
    /\ MaxFired \in Nat

VARIABLES
    frame,          \* <<width, height>>
    outputs,        \* shapes of the tensors
    fired,          \* what the network answers, by spot; elsewhere nothing
    phase,
    strides,        \* strides still to decode
    found,          \* candidates, by stride and row of the flattened tensors
    rest, keep,     \* nms: still in order, kept so far
    located,        \* how many of these have been brought back to the frame
    detections      \* boxes on the frame

input == <<frame, outputs, fired>>
decodeVars == <<input, phase, strides, found, rest, keep, located, detections>>

Box == [x : Nat, y : Nat, w : Nat, h : Nat]

DecodeType ==
    /\ frame \in FrameSizes /\ outputs \in Layouts
    /\ DOMAIN fired \subseteq Spots
    /\ \A p \in DOMAIN fired : fired[p] \in [score : Scores, reach : Reaches]
    /\ phase \in {"group", "decode", "nms", "locate", "refused", "located"}
    /\ strides \subseteq Strides
    /\ found \subseteq Positions /\ rest \subseteq found
    /\ keep \in Seq(found) /\ located \in 0..Len(keep)
    /\ detections \in Seq(Box)

DecodeInit ==
    /\ frame \in FrameSizes /\ outputs \in Layouts
    /\ \E some \in UNION { kSubset(n, Spots) : n \in 0..MaxFired } :
         fired \in [some -> [score : Scores, reach : Reaches]]
    /\ phase = "group" /\ strides = {}
    /\ found = {} /\ rest = {} /\ keep = <<>> /\ located = 0 /\ detections = <<>>

---------------------------------------------------------------------------
(* The tensors, flattened as NumPy does: the last index runs fastest *)

Side(s) == Size \div s

\* Row, column and channel of element i of a tensor with so many channels.
Row(s, i, channels) == i \div (Side(s) * channels)
Column(s, i, channels) == (i \div channels) % Side(s)
Channel(i, channels) == i % channels

Spot(s, i, channels, each) ==
    <<s, Row(s, i, channels), Column(s, i, channels), Channel(i, channels) \div each>>

ScoreAt(s, k) ==
    LET p == Spot(s, k, Anchors, 1)
    IN  IF p \in DOMAIN fired THEN fired[p].score ELSE 0

\* reshape(-1, 4): component j of row k is element 4k + j.
DistanceAt(s, k, j) ==
    LET p == Spot(s, 4 * k + j, 4 * Anchors, 4)
        component == Channel(4 * k + j, 4 * Anchors) % 4
    IN  IF p \in DOMAIN fired THEN s * fired[p].reach[component] ELSE 0

\* reshape(-1, 10): the spot whose key points row k holds.
MarksAt(s, k) == Spot(s, 10 * k, 10 * Anchors, 10)

CenterTiled(s, k) ==
    LET cell == k % (Side(s) * Side(s))
    IN  [x |-> s * (cell % Side(s)), y |-> s * (cell \div Side(s))]

\* The grid with every cell repeated for its anchors.
Center(s, k) ==
    LET cell == k \div Anchors
    IN  [x |-> s * (cell % Side(s)), y |-> s * (cell \div Side(s))]

BoxAt(s, k) ==
    [x1 |-> Center(s, k).x - DistanceAt(s, k, 0),
     y1 |-> Center(s, k).y - DistanceAt(s, k, 1),
     x2 |-> Center(s, k).x + DistanceAt(s, k, 2),
     y2 |-> Center(s, k).y + DistanceAt(s, k, 3)]

---------------------------------------------------------------------------
(* group_outputs_by_stride and decode *)

Role(channels) ==
    CASE channels = Anchors -> "score"
      [] channels = 4 * Anchors -> "bbox"
      [] channels = 10 * Anchors -> "kps"
      [] OTHER -> "none"

\* The heads known for a stride; tensors of other shapes are skipped.
Heads(s) == { Role(t[2]) : t \in { u \in outputs : Size \div u[1] = s } } \ {"none"}

\* Without a single head the frame is refused with UnsupportedOutputLayout.
Group ==
    /\ phase = "group"
    /\ IF \A s \in Strides : Heads(s) = {}
         THEN phase' = "refused" /\ UNCHANGED strides
         ELSE phase' = "decode" /\ strides' = Strides
    /\ UNCHANGED <<input, found, rest, keep, located, detections>>

\* One turn of the loop over the strides.
DecodeStride(s) ==
    /\ phase = "decode" /\ s \in strides /\ \A other \in strides : s <= other
    /\ found' = IF {"score", "bbox"} \subseteq Heads(s)
                  THEN found \cup { p \in Positions : p[1] = s /\ ScoreAt(s, p[2]) >= MinScore }
                  ELSE found
    /\ strides' = strides \ {s}
    /\ UNCHANGED <<input, phase, rest, keep, located, detections>>

Sort ==
    /\ phase = "decode" /\ strides = {}
    /\ rest' = found
    /\ phase' = "nms"
    /\ UNCHANGED <<input, strides, found, keep, located, detections>>

---------------------------------------------------------------------------
(* nms *)

Larger(a, b) == IF a > b THEN a ELSE b
Smaller(a, b) == IF a < b THEN a ELSE b

Area(b) == Larger(0, b.x2 - b.x1) * Larger(0, b.y2 - b.y1)

Common(a, b) ==
    Larger(0, Smaller(a.x2, b.x2) - Larger(a.x1, b.x1))
      * Larger(0, Smaller(a.y2, b.y2) - Larger(a.y1, b.y1))

\* Their IoU is over the threshold.
Same(p, q) ==
    LET a == BoxAt(p[1], p[2])
        b == BoxAt(q[1], q[2])
        union == Area(a) + Area(b) - Common(a, b)
    IN  union > 0 /\ 100 * Common(a, b) > NmsIou * union

LastRow(p) == \A q \in rest : q[1] < p[1] \/ (q[1] = p[1] /\ q[2] <= p[2])

Best(p) == \A q \in rest : ScoreAt(q[1], q[2]) <= ScoreAt(p[1], p[2])

\* One turn of the loop; equal scores come in any order.
Keep(p) ==
    /\ phase = "nms" /\ p \in rest /\ Best(p)
    /\ keep' = Append(keep, p)
    /\ rest' = { q \in rest \ {p} : ~Same(p, q) }
    /\ UNCHANGED <<input, phase, strides, found, located, detections>>

Suppressed ==
    /\ phase = "nms" /\ rest = {}
    /\ phase' = "locate"
    /\ UNCHANGED <<input, strides, found, rest, keep, located, detections>>

---------------------------------------------------------------------------
(* Back to the frame *)

Width == frame[1]
Height == frame[2]

\* letterbox() scales by Size over the longer side, without an offset.
Longer == Larger(Width, Height)

\* int(n / d) of Python: towards zero.
Truncated(n, d) == IF n >= 0 THEN n \div d ELSE -((-n) \div d)

OnFrame(n) == Truncated(n * Longer, Size)

LocatedUnclamped(b) ==
    [x |-> OnFrame(b.x1), y |-> OnFrame(b.y1),
     w |-> OnFrame(b.x2) - OnFrame(b.x1), h |-> OnFrame(b.y2) - OnFrame(b.y1)]

\* Scaled, cut off at the frame's edges, as corner and size.
Located(b) ==
    LET x1 == Larger(0, OnFrame(b.x1))
        y1 == Larger(0, OnFrame(b.y1))
        x2 == Smaller(Width, OnFrame(b.x2))
        y2 == Smaller(Height, OnFrame(b.y2))
    IN  [x |-> x1, y |-> y1, w |-> x2 - x1, h |-> y2 - y1]

AnySize(d) == TRUE

BigEnough(d) == Smaller(d.w, d.h) >= MinFace

\* One turn of the loop over the kept boxes; small ones are passed over.
Locate ==
    /\ phase = "locate" /\ located < Len(keep)
    /\ LET p == keep[located + 1]
           d == Located(BoxAt(p[1], p[2]))
       IN  detections' = IF BigEnough(d) THEN Append(detections, d) ELSE detections
    /\ located' = located + 1
    /\ UNCHANGED <<input, phase, strides, found, rest, keep>>

Report ==
    /\ phase = "locate" /\ located = Len(keep)
    /\ phase' = "located"
    /\ UNCHANGED <<input, strides, found, rest, keep, located, detections>>

DecodeNext ==
    \/ Group \/ Sort \/ Suppressed \/ Locate \/ Report
    \/ \E s \in strides : DecodeStride(s)
    \/ \E p \in rest : Keep(p)

---------------------------------------------------------------------------
(* Properties *)

\* The candidates are the anchors that answered with enough confidence in the
\* strides whose heads were recognised, each with the box around its own cell
\* and its own key points (scrfd_decode.py:30-56, 150-177).
Aligned ==
    phase = "nms" =>
        LET Answers == { p \in DOMAIN fired :
                           fired[p].score >= MinScore /\ {"score", "bbox"} \subseteq Heads(p[1]) }
            Flat(p) == <<p[1], (p[2] * Side(p[1]) + p[3]) * Anchors + p[4]>>
        IN  /\ found = { Flat(p) : p \in Answers }
            /\ \A p \in Answers :
                 LET s == p[1]
                     d == fired[p].reach
                 IN  /\ MarksAt(s, Flat(p)[2]) = p
                     /\ BoxAt(s, Flat(p)[2]) =
                          [x1 |-> s * (p[3] - d[0]), y1 |-> s * (p[2] - d[1]),
                           x2 |-> s * (p[3] + d[2]), y2 |-> s * (p[2] + d[3])]

\* Kept boxes come best first and are not the same face twice; what is gone was
\* the same face as a kept one at least as good (scrfd_decode.py:59-82).
Thinned ==
    LET Score(p) == ScoreAt(p[1], p[2])
    IN  phase = "nms" =>
          /\ \A i, j \in DOMAIN keep :
               i < j => Score(keep[i]) >= Score(keep[j]) /\ ~Same(keep[i], keep[j])
          /\ \A q \in found \ rest :
               \E i \in DOMAIN keep :
                 q = keep[i] \/ (Same(keep[i], q) /\ Score(keep[i]) >= Score(q))

\* Detections lie on the frame, within a pixel of the scaled box of a kept
\* candidate, and every kept box that shows enough of itself is among them
\* (hailo_models.py:111-131).
Placed ==
    phase = "located" =>
        LET Boxes == { BoxAt(keep[i][1], keep[i][2]) : i \in DOMAIN keep }
            Near(d, b) ==
                /\ Longer * b.x1 < Size * (d.x + 1) /\ Longer * b.y1 < Size * (d.y + 1)
                /\ Size * (d.x + d.w) <= Longer * b.x2 /\ Size * (d.y + d.h) <= Longer * b.y2
            Shows(low, high, limit) ==
                Smaller(limit * Size, Longer * high) - Larger(0, Longer * low)
                   >= Size * (MinFace + 1)
        IN  /\ \A i \in DOMAIN detections :
                 LET d == detections[i]
                 IN  /\ d.x >= 0 /\ d.y >= 0 /\ d.x + d.w <= Width /\ d.y + d.h <= Height
                     /\ d.w >= MinFace /\ d.h >= MinFace
                     /\ \E b \in Boxes : Near(d, b)
            /\ \A b \in Boxes :
                 Shows(b.x1, b.x2, Width) /\ Shows(b.y1, b.y2, Height)
                   => \E i \in DOMAIN detections : Near(detections[i], b)

\* The three together: the detector reports the faces the network answered.
DetectsRight == Aligned /\ Thinned /\ Placed
=============================================================================
