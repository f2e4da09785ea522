---------------------------- MODULE FacePictureProofs ----------------------------
(***************************************************************************)
(* Theorems about FacePicture and the decoder it extends, for any strides, *)
(* anchors, canvas, frames, thresholds and answers of the network.         *)
(***************************************************************************)
EXTENDS FacePicture, TLAPS

LEMMA Constants ==
    /\ Strides \subseteq Nat \ {0} /\ Anchors \in Nat \ {0} /\ Size \in Nat \ {0}
    /\ MinScore \in Nat \ {0} /\ NmsIou \in 0..100 /\ MinFace \in Nat \ {0}
    /\ FrameSizes \subseteq (Nat \ {0}) \X (Nat \ {0})
    /\ Scores \subseteq Nat /\ Reaches \subseteq [0..3 -> Int]
    /\ MaxFired \in Nat
  BY DecodeAssumption

LEMMA GateConstants ==
    /\ Padding \in 0..100 /\ Margin \in Nat
    /\ Dark \in Nat /\ Bright \in Nat /\ Dark < Bright /\ Blur \in Nat \ {0}
    /\ MinQuality \in Nat
    /\ Lights \subseteq Nat /\ Sharps \subseteq Nat
<1>1. MinQuality \in Nat
  BY PictureAssumption
<1>2. QED
  BY <1>1, PictureAssumption

---------------------------------------------------------------------------
(* Division *)

\* Quotient and remainder are determined.
LEMMA Quotient ==
    ASSUME NEW n \in Nat \ {0}, NEW q \in Int, NEW r \in 0..(n - 1)
    PROVE  (q * n + r) \div n = q /\ (q * n + r) % n = r
  OBVIOUS

LEMMA Divided ==
    ASSUME NEW n \in Nat \ {0}, NEW k \in Int
    PROVE  /\ k \div n \in Int /\ k % n \in 0..(n - 1)
           /\ k = (k \div n) * n + (k % n)
  OBVIOUS

LEMMA DividedMonotonic ==
    ASSUME NEW n \in Nat \ {0}, NEW a \in Int, NEW b \in Int, a <= b
    PROVE  a \div n <= b \div n
  OBVIOUS

LEMMA TimesMonotonic ==
    ASSUME NEW a \in Int, NEW b \in Int, NEW c \in Nat, a <= b
    PROVE  a * c <= b * c
  OBVIOUS

\* Python's int(n / d) is less than one away from n / d, towards zero.
LEMMA TruncatedNear ==
    ASSUME NEW n \in Int, NEW d \in Nat \ {0}
    PROVE  /\ Truncated(n, d) \in Int
           /\ n < d * (Truncated(n, d) + 1)
           /\ Truncated(n, d) >= 1 => d * Truncated(n, d) <= n
           /\ n >= 0 => Truncated(n, d) >= 0 /\ d * Truncated(n, d) <= n
           /\ n < 0 => Truncated(n, d) <= 0
<1>1. CASE n >= 0
  <2>1. Truncated(n, d) = n \div d
    BY <1>1 DEF Truncated
  <2>2. PICK q \in Int, r \in 0..(d - 1) : n = q * d + r /\ q = n \div d
    BY Divided
  <2>3. q >= 0
    BY <1>1, <2>2
  <2>4. QED
    BY <1>1, <2>1, <2>2, <2>3
<1>2. CASE n < 0
  <2>1. Truncated(n, d) = -((-n) \div d)
    BY <1>2 DEF Truncated
  <2>2. PICK m \in Nat : m = -n /\ m > 0
    BY <1>2
  <2>3. PICK q \in Int, r \in 0..(d - 1) : m = q * d + r /\ q = m \div d
    BY Divided
  <2>4. q >= 0
    BY <2>2, <2>3
  <2>5. n = -(q * d) - r /\ Truncated(n, d) = -q
    BY <2>1, <2>2, <2>3
  <2>6. d * (1 - q) = d - q * d
    OBVIOUS
  <2>7. QED
    BY <1>2, <2>4, <2>5, <2>6
<1>3. QED
  BY <1>1, <1>2

---------------------------------------------------------------------------
(* One dimension of a box *)

\* An edge scaled to the frame and cut at its edges.
LEMMA EdgeLocated ==
    ASSUME NEW low \in Int, NEW high \in Int, NEW limit \in Nat \ {0}, NEW scale \in Nat \ {0}
    PROVE  LET from == Larger(0, Truncated(low * scale, Size))
               to == Smaller(limit, Truncated(high * scale, Size))
           IN  /\ from \in Nat /\ to \in Int /\ to <= limit
               /\ scale * low < Size * (from + 1)
               /\ to >= 1 => Size * to <= scale * high
               /\ from >= 1 => low >= 0
               /\ to < limit => scale * high < limit * Size
               /\ Smaller(limit * Size, scale * high) - Larger(0, scale * low)
                     >= Size * (MinFace + 1)
                  => to - from >= MinFace
<1> DEFINE T1 == Truncated(low * scale, Size)
           T2 == Truncated(high * scale, Size)
           from == Larger(0, T1)
           to == Smaller(limit, T2)
<1>1. PICK a \in Int, z \in Int : a = low * scale /\ z = high * scale
  OBVIOUS
<1>2. a = scale * low /\ z = scale * high
  BY <1>1
<1>3. /\ T1 \in Int
      /\ a < Size * (T1 + 1)
      /\ a >= 0 => T1 >= 0 /\ Size * T1 <= a
      /\ a < 0 => T1 <= 0
  BY <1>1, TruncatedNear, Constants
<1>4. /\ T2 \in Int
      /\ z < Size * (T2 + 1)
      /\ T2 >= 1 => Size * T2 <= z
      /\ z >= 0 => T2 >= 0 /\ Size * T2 <= z
      /\ z < 0 => T2 <= 0
  BY <1>1, TruncatedNear, Constants
<1> HIDE DEF T1, T2
<1>5. from \in Nat /\ to \in Int /\ to <= limit /\ from >= T1 /\ to <= T2
      /\ from \in {0, T1} /\ to \in {limit, T2}
  BY <1>3, <1>4 DEF Larger, Smaller
<1>6. a < Size * (from + 1)
  <2>1. Size * (T1 + 1) <= Size * (from + 1)
    BY <1>3, <1>5, Constants
  <2>2. QED
    BY <1>1, <1>3, <1>5, <2>1, Constants
<1>7. to >= 1 => Size * to <= z
  <2>1. Size * to <= Size * T2
    BY <1>4, <1>5, Constants
  <2>2. QED
    BY <1>1, <1>4, <1>5, <2>1, Constants
<1>8. from >= 1 => low >= 0
  <2>1. low < 0 => a < 0
    BY <1>1
  <2>2. QED
    BY <1>1, <1>3, <1>5, <2>1
<1>9. to < limit => z < limit * Size
  <2>1. SUFFICES ASSUME to < limit PROVE z < limit * Size
    OBVIOUS
  <2>2. to = T2 /\ T2 + 1 <= limit
    BY <1>4, <1>5, <2>1
  <2>3. Size * (T2 + 1) <= Size * limit
    BY <1>4, <2>2, Constants
  <2>4. QED
    BY <1>1, <1>4, <2>3, Constants
<1>10. ASSUME Smaller(limit * Size, z) - Larger(0, a) >= Size * (MinFace + 1)
       PROVE  to - from >= MinFace
  <2>1. PICK W \in Int : W = limit * Size /\ W = Size * limit
    BY Constants
  <2>2. /\ W - Larger(0, a) >= Size * (MinFace + 1)
        /\ z - Larger(0, a) >= Size * (MinFace + 1)
    BY <1>1, <1>10, <2>1, Constants DEF Smaller, Larger
  <2>3. Size * from <= Larger(0, a)
    <3>1. CASE a >= 0
      BY <1>1, <1>3, <1>5, <3>1, Constants DEF Larger
    <3>2. CASE a < 0
      BY <1>1, <1>3, <1>5, <3>2, Constants DEF Larger
    <3>3. QED
      BY <1>1, <3>1, <3>2
  <2>4. Size * (to + 1) >= Size * from + Size * (MinFace + 1)
    <3>1. Larger(0, a) \in Int /\ Size * from \in Int /\ Size * (MinFace + 1) \in Int
          /\ Size * (to + 1) \in Int
      BY <1>1, <1>5, Constants DEF Larger
    <3>2. CASE to = limit
      <4>1. Size * (to + 1) = W + Size
        BY <2>1, <3>2, Constants
      <4>2. QED
        BY <2>1, <2>2, <2>3, <3>1, <4>1, Constants
    <3>3. CASE to = T2
      <4>1. z < Size * (to + 1)
        BY <1>4, <3>3
      <4>2. QED
        BY <1>1, <2>2, <2>3, <3>1, <4>1
    <3>4. QED
      BY <1>5, <3>2, <3>3
  <2>5. Size * (to + 1) >= Size * (from + MinFace + 1)
    BY <1>5, <2>4, Constants
  <2>6. to + 1 >= from + MinFace + 1
    BY <1>5, <2>5, Constants
  <2>7. QED
    BY <1>5, <2>6, Constants
<1>11. QED
  BY <1>2, <1>5, <1>6, <1>7, <1>8, <1>9, <1>10 DEF T1, T2

\* A window of the length side around the stretch from x to x + w, moved back
\* inwards where the limit cuts it.
LEMMA Window ==
    ASSUME NEW x \in Nat, NEW w \in Nat, NEW limit \in Nat, NEW side \in Nat,
           x + w <= limit, w <= side
    PROVE  LET left == Larger(0, Truncated(2 * x + w - side, 2))
               right == Smaller(limit, left + side)
               from == Larger(0, right - side)
           IN  /\ left \in Nat /\ from \in Nat /\ from <= x
               /\ right \in Nat /\ x + w <= right /\ right <= limit
               /\ right - from = Smaller(side, limit)
<1> DEFINE T == Truncated(2 * x + w - side, 2)
<1>1. PICK n \in Int : n = 2 * x + w - side
  OBVIOUS
<1>2. /\ T \in Int /\ n < 2 * (T + 1)
      /\ n >= 0 => T >= 0 /\ 2 * T <= n
      /\ n < 0 => T <= 0
  BY <1>1, TruncatedNear
<1> HIDE DEF T
<1>3. QED
  BY <1>1, <1>2 DEF Larger, Smaller, T

---------------------------------------------------------------------------
(* The flattened tensors *)

\* The row of the score tensor of p's stride that belongs to the spot p.
Flat(p) == <<p[1], (p[2] * Side(p[1]) + p[3]) * Anchors + p[4]>>

LEMMA SpotShape ==
    ASSUME NEW p \in Spots
    PROVE  /\ p = <<p[1], p[2], p[3], p[4]>>
           /\ p[1] \in Strides /\ p[1] \in Nat \ {0} /\ Side(p[1]) \in Nat \ {0}
           /\ p[2] \in 0..(Side(p[1]) - 1) /\ p[3] \in 0..(Side(p[1]) - 1)
           /\ p[4] \in 0..(Anchors - 1)
<1>1. PICK s \in Strides : p \in {s} \X (0 .. (Size \div s) - 1) \X (0 .. (Size \div s) - 1)
                                       \X (0 .. Anchors - 1)
  BY DecodeAssumption
<1>2. s \in Nat \ {0} /\ Size \div s \in Int
  BY Constants
<1>3. QED
  BY <1>1, <1>2, Constants DEF Side

LEMMA PositionShape ==
    ASSUME NEW p \in Positions
    PROVE  /\ p = <<p[1], p[2]>>
           /\ p[1] \in Strides /\ p[1] \in Nat \ {0} /\ Side(p[1]) \in Nat \ {0}
           /\ p[2] \in 0..(Side(p[1]) * Side(p[1]) * Anchors - 1)
<1>1. PICK s \in Strides : p \in {s} \X (0 .. (Size \div s) * (Size \div s) * Anchors - 1)
  BY DEF Positions
<1>2. s \in Nat \ {0} /\ Size \div s \in Nat
  BY Constants
<1>3. PICK side \in Nat : side = Size \div s
  BY <1>2
<1>4. p = <<p[1], p[2]>> /\ p[1] = s /\ p[2] \in 0 .. side * side * Anchors - 1
  BY <1>1, <1>3
<1>5. side # 0
  BY <1>4, Constants
<1>6. QED
  BY <1>2, <1>3, <1>4, <1>5 DEF Side

\* Element j of the group that belongs to a spot, in a tensor with so many
\* elements for each anchor.
LEMMA ElementOfSpot ==
    ASSUME NEW p \in Spots, NEW each \in Nat \ {0}, NEW j \in 0..(each - 1)
    PROVE  LET i == each * Flat(p)[2] + j
           IN  /\ Spot(p[1], i, each * Anchors, each) = p
               /\ Channel(i, each * Anchors) % each = j
<1>1. PICK side \in Nat \ {0} : side = Side(p[1])
  BY SpotShape
<1>2. PICK r \in 0..(side - 1), c \in 0..(side - 1), a \in 0..(Anchors - 1) :
         p = <<p[1], r, c, a>>
  BY <1>1, SpotShape
<1>3. PICK k \in Nat : k = (r * side + c) * Anchors + a /\ k = Flat(p)[2]
  BY <1>1, <1>2, Constants DEF Flat
<1>4. PICK cell \in Nat : cell = r * side + c
  BY <1>1, <1>2
<1>5. PICK channels \in Nat \ {0} : channels = each * Anchors
  BY Constants
<1>6. PICK rest1 \in 0..(channels - 1) : rest1 = a * each + j
  <2>1. a * each <= (Anchors - 1) * each
    BY <1>2, Constants, TimesMonotonic
  <2>2. (Anchors - 1) * each = channels - each
    BY <1>5, Constants
  <2>3. QED
    BY <1>2, <1>5, <2>1, <2>2, Constants
<1>7. PICK i \in Nat : i = each * k + j
  BY <1>3
<1>8. i = cell * channels + rest1
  <2>1. k = cell * Anchors + a
    BY <1>3, <1>4
  <2>2. each * k = each * (cell * Anchors) + each * a
    BY <1>2, <1>4, <2>1, Constants
  <2>3. each * (cell * Anchors) = cell * channels
    BY <1>4, <1>5, Constants
  <2>4. QED
    BY <1>2, <1>6, <1>7, <2>2, <2>3
<1>9. i \div channels = cell /\ i % channels = rest1
  BY <1>8, Quotient
<1>10. rest1 \div each = a /\ rest1 % each = j
  BY <1>6, Quotient
<1>11. cell \div side = r /\ cell % side = c
  BY <1>4, Quotient
<1>12. i \div (side * channels) = r
  <2>1. i \div (side * channels) = (i \div channels) \div side
    OBVIOUS
  <2>2. QED
    BY <1>9, <1>11, <2>1
<1>13. QED
  BY <1>1, <1>2, <1>3, <1>5, <1>7, <1>9, <1>10, <1>11, <1>12
     DEF Spot, Row, Column, Channel

\* What a spot's row says is what the spot answered.
LEMMA RowOfSpot ==
    ASSUME NEW p \in Spots
    PROVE  /\ Flat(p) \in Positions
           /\ p \in DOMAIN fired => ScoreAt(p[1], Flat(p)[2]) = fired[p].score
           /\ \A j \in 0..3 : p \in DOMAIN fired =>
                DistanceAt(p[1], Flat(p)[2], j) = p[1] * fired[p].reach[j]
           /\ MarksAt(p[1], Flat(p)[2]) = p
           /\ Center(p[1], Flat(p)[2]) = [x |-> p[1] * p[3], y |-> p[1] * p[2]]
<1>1. PICK side \in Nat \ {0} : side = Side(p[1])
  BY SpotShape
<1>2. PICK r \in 0..(side - 1), c \in 0..(side - 1), a \in 0..(Anchors - 1) :
         p = <<p[1], r, c, a>>
  BY <1>1, SpotShape
<1>3. PICK k \in Nat : k = (r * side + c) * Anchors + a /\ k = Flat(p)[2]
  BY <1>1, <1>2, Constants DEF Flat
<1>4. Flat(p) = <<p[1], k>>
  BY <1>3 DEF Flat
<1>5. Flat(p) \in Positions
  <2>1. r * side <= (side - 1) * side
    BY <1>2, TimesMonotonic
  <2>2. PICK cell \in Nat : cell = r * side + c
    BY <1>2
  <2>3. cell <= side * side - 1
    BY <1>2, <2>1, <2>2
  <2>4. cell * Anchors <= (side * side - 1) * Anchors
    BY <2>2, <2>3, Constants, TimesMonotonic
  <2>5. (side * side - 1) * Anchors = side * side * Anchors - Anchors
    BY Constants
  <2>6. k \in 0..(side * side * Anchors - 1)
    BY <1>2, <1>3, <2>2, <2>4, <2>5, Constants
  <2>7. QED
    BY <1>1, <1>4, <2>6, SpotShape DEF Positions, Side
<1>6. p \in DOMAIN fired => ScoreAt(p[1], k) = fired[p].score
  <2>1. Spot(p[1], 1 * k + 0, 1 * Anchors, 1) = p
    BY <1>3, ElementOfSpot
  <2>2. 1 * k + 0 = k /\ 1 * Anchors = Anchors
    BY Constants
  <2>3. QED
    BY <2>1, <2>2 DEF ScoreAt
<1>7. ASSUME NEW j \in 0..3, p \in DOMAIN fired
      PROVE  DistanceAt(p[1], k, j) = p[1] * fired[p].reach[j]
  <2>1. /\ Spot(p[1], 4 * k + j, 4 * Anchors, 4) = p
        /\ Channel(4 * k + j, 4 * Anchors) % 4 = j
    BY <1>3, ElementOfSpot
  <2>2. QED
    BY <1>7, <2>1 DEF DistanceAt
<1>8. MarksAt(p[1], k) = p
  <2>1. Spot(p[1], 10 * k + 0, 10 * Anchors, 10) = p
    BY <1>3, ElementOfSpot
  <2>2. QED
    BY <2>1 DEF MarksAt
<1>9. Center(p[1], k) = [x |-> p[1] * c, y |-> p[1] * r]
  <2> PICK cell \in Nat : cell = r * side + c
    BY <1>2
  <2>1. k \div Anchors = cell
    <3>1. (cell * Anchors + a) \div Anchors = cell
      BY Constants, Quotient
    <3>2. QED
      BY <1>3, <3>1
  <2>2. cell \div side = r /\ cell % side = c
    BY Quotient
  <2>3. QED
    BY <1>1, <2>1, <2>2 DEF Center
<1>10. QED
  BY <1>2, <1>3, <1>5, <1>6, <1>7, <1>8, <1>9

\* The spot of a row has that row.
LEMMA SpotOfRow ==
    ASSUME NEW p \in Positions
    PROVE  Flat(Spot(p[1], p[2], Anchors, 1)) = p
<1>1. PICK side \in Nat \ {0}, k \in Nat : side = Side(p[1]) /\ k = p[2]
  BY PositionShape
<1>2. PICK cell \in Int, a \in 0..(Anchors - 1) :
         k = cell * Anchors + a /\ cell = k \div Anchors /\ a = k % Anchors
  <2>1. /\ k \div Anchors \in Int /\ k % Anchors \in 0..(Anchors - 1)
        /\ k = (k \div Anchors) * Anchors + (k % Anchors)
    BY Constants, Divided
  <2>2. QED
    BY <2>1
<1>3. PICK r \in Int, c \in 0..(side - 1) :
         cell = r * side + c /\ r = cell \div side /\ c = cell % side
  BY Divided
<1>4. k \div (side * Anchors) = r
  <2>1. PICK m \in Nat \ {0} : m = Anchors
    BY Constants
  <2>2. k \div (side * m) = (k \div m) \div side
    OBVIOUS
  <2>3. QED
    BY <1>2, <1>3, <2>1, <2>2
<1>5. a \div 1 = a
  OBVIOUS
<1>6. Spot(p[1], p[2], Anchors, 1) = <<p[1], r, c, a>>
  BY <1>1, <1>2, <1>3, <1>4, <1>5 DEF Spot, Row, Column, Channel
<1>7. Flat(<<p[1], r, c, a>>) = <<p[1], k>>
  BY <1>1, <1>2, <1>3 DEF Flat
<1>8. QED
  BY <1>1, <1>6, <1>7, PositionShape

---------------------------------------------------------------------------
(* Types *)

\* The box of a candidate.
BoxOf(p) == BoxAt(p[1], p[2])

Edges == [x1 : Int, y1 : Int, x2 : Int, y2 : Int]

\* The network answers where it can, with what it can.
AnswersTyped ==
    /\ frame \in FrameSizes
    /\ DOMAIN fired \subseteq Spots
    /\ \A p \in DOMAIN fired : fired[p] \in [score : Scores, reach : Reaches]

LEMMA ScoreTyped ==
    ASSUME AnswersTyped, NEW s, NEW k
    PROVE  ScoreAt(s, k) \in Nat
  BY Constants DEF AnswersTyped, ScoreAt

LEMMA BoxTyped ==
    ASSUME AnswersTyped, NEW p \in Positions
    PROVE  BoxOf(p) \in Edges
<1>1. PICK s \in Nat \ {0}, side \in Nat \ {0}, k \in Nat :
         s = p[1] /\ side = Side(p[1]) /\ k = p[2]
  BY PositionShape
<1>2. Center(s, k).x \in Int /\ Center(s, k).y \in Int
  <2>1. PICK cell \in Int : cell = k \div Anchors
    BY Constants
  <2>2. cell % side \in Int /\ cell \div side \in Int
    OBVIOUS
  <2>3. QED
    BY <1>1, <2>1, <2>2 DEF Center
<1>3. ASSUME NEW j \in 0..3 PROVE DistanceAt(s, k, j) \in Int
  <2> DEFINE q == Spot(s, 4 * k + j, 4 * Anchors, 4)
             component == Channel(4 * k + j, 4 * Anchors) % 4
  <2>1. component \in 0..3
    BY Constants DEF Channel
  <2>2. q \in DOMAIN fired => fired[q].reach \in [0..3 -> Int]
    BY Constants DEF AnswersTyped
  <2>3. q \in DOMAIN fired => fired[q].reach[component] \in Int
    BY <2>1, <2>2
  <2>4. DistanceAt(s, k, j) = IF q \in DOMAIN fired THEN s * fired[q].reach[component] ELSE 0
    BY DEF DistanceAt
  <2> HIDE DEF q, component
  <2>5. QED
    BY <2>3, <2>4
<1>4. QED
  BY <1>1, <1>2, <1>3 DEF BoxOf, BoxAt, Edges

LEMMA FrameTyped ==
    ASSUME AnswersTyped
    PROVE  /\ Width \in Nat \ {0} /\ Height \in Nat \ {0} /\ Longer \in Nat \ {0}
  BY Constants DEF AnswersTyped, Width, Height, Longer, Larger

\* A detection that shows on the frame.
Seen(d) ==
    /\ d \in Box /\ d.w >= MinFace /\ d.h >= MinFace
    /\ d.x + d.w <= Width /\ d.y + d.h <= Height

\* The detection d is near the box b, and b sticks out only where d touches
\* the frame's edge.
Near(d, b) ==
    /\ Longer * b.x1 < Size * (d.x + 1) /\ Longer * b.y1 < Size * (d.y + 1)
    /\ Size * (d.x + d.w) <= Longer * b.x2 /\ Size * (d.y + d.h) <= Longer * b.y2

Inside(d, b) ==
    /\ d.x >= 1 => 0 <= b.x1
    /\ d.y >= 1 => 0 <= b.y1
    /\ d.x + d.w < Width => Longer * b.x2 < Width * Size
    /\ d.y + d.h < Height => Longer * b.y2 < Height * Size

Shows(low, high, limit) ==
    Smaller(limit * Size, Longer * high) - Larger(0, Longer * low) >= Size * (MinFace + 1)

LEMMA LocatedRight ==
    ASSUME AnswersTyped, NEW b \in Edges
    PROVE  /\ BigEnough(Located(b)) =>
                Seen(Located(b)) /\ Near(Located(b), b) /\ Inside(Located(b), b)
           /\ Shows(b.x1, b.x2, Width) /\ Shows(b.y1, b.y2, Height) => BigEnough(Located(b))
<1>1. /\ b.x1 \in Int /\ b.x2 \in Int /\ b.y1 \in Int /\ b.y2 \in Int
      /\ Width \in Nat \ {0} /\ Height \in Nat \ {0} /\ Longer \in Nat \ {0}
  BY FrameTyped DEF Edges
<1> DEFINE d == Located(b)
<1>2. PICK x1, x2, y1, y2 :
        /\ x1 = Larger(0, OnFrame(b.x1)) /\ x2 = Smaller(Width, OnFrame(b.x2))
        /\ y1 = Larger(0, OnFrame(b.y1)) /\ y2 = Smaller(Height, OnFrame(b.y2))
  OBVIOUS
<1>3. d = [x |-> x1, y |-> y1, w |-> x2 - x1, h |-> y2 - y1]
  BY <1>2 DEF Located
<1>4. /\ x1 \in Nat /\ x2 \in Int /\ x2 <= Width
      /\ Longer * b.x1 < Size * (x1 + 1)
      /\ x2 >= 1 => Size * x2 <= Longer * b.x2
      /\ x1 >= 1 => b.x1 >= 0
      /\ x2 < Width => Longer * b.x2 < Width * Size
      /\ Shows(b.x1, b.x2, Width) => x2 - x1 >= MinFace
  BY <1>1, <1>2, EdgeLocated DEF OnFrame, Shows
<1>5. /\ y1 \in Nat /\ y2 \in Int /\ y2 <= Height
      /\ Longer * b.y1 < Size * (y1 + 1)
      /\ y2 >= 1 => Size * y2 <= Longer * b.y2
      /\ y1 >= 1 => b.y1 >= 0
      /\ y2 < Height => Longer * b.y2 < Height * Size
      /\ Shows(b.y1, b.y2, Height) => y2 - y1 >= MinFace
  BY <1>1, <1>2, EdgeLocated DEF OnFrame, Shows
<1>6. d.x + d.w = x2 /\ d.y + d.h = y2
  BY <1>3, <1>4, <1>5
<1>7. BigEnough(d) <=> x2 - x1 >= MinFace /\ y2 - y1 >= MinFace
  BY <1>3, <1>4, <1>5, Constants DEF BigEnough, Smaller
<1>8. BigEnough(d) => Seen(d)
  BY <1>3, <1>4, <1>5, <1>6, <1>7, Constants DEF Seen, Box
<1>9. BigEnough(d) => x2 >= 1 /\ y2 >= 1
  BY <1>4, <1>5, <1>7, Constants
<1>10. BigEnough(d) => Near(d, b)
  <2>1. d.x = x1 /\ d.y = y1
    BY <1>3
  <2>2. QED
    BY <1>4, <1>5, <1>6, <1>9, <2>1 DEF Near
<1>11. BigEnough(d) => Inside(d, b)
  <2>1. d.x = x1 /\ d.y = y1
    BY <1>3
  <2>2. QED
    BY <1>4, <1>5, <1>6, <2>1 DEF Inside
<1>12. QED
  BY <1>4, <1>5, <1>7, <1>8, <1>10, <1>11

LEMMA CropShape ==
    ASSUME AnswersTyped, NEW d, Seen(d)
    PROVE  LET c == Crop(d)
           IN  /\ c \in Box
               /\ 0 <= c.x /\ c.x <= d.x /\ d.x + d.w <= c.x + c.w /\ c.x + c.w <= Width
               /\ 0 <= c.y /\ c.y <= d.y /\ d.y + d.h <= c.y + c.h /\ c.y + c.h <= Height
               /\ c.w = Smaller(CropSide(d), Width) /\ c.h = Smaller(CropSide(d), Height)
<1>1. /\ d.x \in Nat /\ d.y \in Nat /\ d.w \in Nat /\ d.h \in Nat
      /\ d.x + d.w <= Width /\ d.y + d.h <= Height /\ Width \in Nat /\ Height \in Nat
  BY FrameTyped DEF Seen, Box
<1>2. PICK side \in Nat : side = CropSide(d) /\ d.w <= side /\ d.h <= side
  <2>1. PICK l \in Nat : l = Larger(d.w, d.h) /\ d.w <= l /\ d.h <= l
    BY <1>1 DEF Larger
  <2>2. l * 100 <= l * (100 + 2 * Padding)
    BY GateConstants
  <2>3. l <= (l * (100 + 2 * Padding)) \div 100
    BY <2>2, GateConstants
  <2>4. CropSide(d) = (l * (100 + 2 * Padding)) \div 100
    BY <2>1 DEF CropSide
  <2>5. CropSide(d) \in Nat
    BY <2>3, <2>4, GateConstants
  <2>6. QED
    BY <1>1, <2>1, <2>3, <2>4, <2>5
<1>3. PICK left, right, x :
        /\ left = Larger(0, Truncated(2 * d.x + d.w - side, 2))
        /\ right = Smaller(Width, left + side)
        /\ x = Larger(0, right - side)
  OBVIOUS
<1>4. PICK top, bottom, y :
        /\ top = Larger(0, Truncated(2 * d.y + d.h - side, 2))
        /\ bottom = Smaller(Height, top + side)
        /\ y = Larger(0, bottom - side)
  OBVIOUS
<1>5. /\ x \in Nat /\ x <= d.x /\ right \in Nat /\ d.x + d.w <= right /\ right <= Width
      /\ right - x = Smaller(side, Width)
  BY <1>1, <1>2, <1>3, Window
<1>6. /\ y \in Nat /\ y <= d.y /\ bottom \in Nat /\ d.y + d.h <= bottom /\ bottom <= Height
      /\ bottom - y = Smaller(side, Height)
  BY <1>1, <1>2, <1>4, Window
<1>7. Crop(d) = [x |-> x, y |-> y, w |-> right - x, h |-> bottom - y]
  BY <1>2, <1>3, <1>4 DEF Crop
<1>8. Crop(d) \in Box /\ Crop(d).x + Crop(d).w = right /\ Crop(d).y + Crop(d).h = bottom
  BY <1>1, <1>5, <1>6, <1>7 DEF Box
<1>9. QED
  BY <1>1, <1>2, <1>5, <1>6, <1>7, <1>8

---------------------------------------------------------------------------
(* Stages of the decoding *)

\* What there is at each stage.
Stages ==
    /\ phase = "group" => found = {}
    /\ phase # "decode" => strides = {}
    /\ phase # "nms" => rest = {}
    /\ phase \in {"group", "decode", "refused"} => keep = <<>>
    /\ phase \notin {"locate", "located"} => located = 0 /\ detections = <<>>
    /\ phase = "located" => located = Len(keep)

LEMMA TypesAnswers == DecodeType => AnswersTyped
  BY DEF DecodeType, AnswersTyped

LEMMA InputKept == [Next]_vars => UNCHANGED input
  BY DEF Next, DecodeNext, Group, DecodeStride, Sort, Keep, Suppressed, Locate, Report, Shoot,
     vars, decodeVars, input

\* A step of the decoder, action by action.
LEMMA DecoderTypes ==
    ASSUME DecodeType, Stages, [Next]_vars
    PROVE  DecodeType' /\ Stages'
<1> USE DEF DecodeType, Stages
<1>1. CASE Group
  BY <1>1 DEF Group, input
<1>2. ASSUME NEW s \in strides, DecodeStride(s) PROVE DecodeType' /\ Stages'
  <2>1. found' \subseteq Positions /\ phase = "decode"
    BY <1>2 DEF DecodeStride
  <2>2. keep = <<>> /\ rest = {} /\ strides' \subseteq Strides
    BY <1>2, <2>1 DEF DecodeStride
  <2>3. keep' = <<>> /\ rest' = {} /\ located' = 0 /\ detections' = <<>> /\ phase' = "decode"
    BY <1>2, <2>1, <2>2 DEF DecodeStride
  <2>4. UNCHANGED input
    BY <1>2 DEF DecodeStride
  <2>5. DecodeType'
    BY <2>1, <2>2, <2>3, <2>4 DEF input
  <2>6. Stages'
    BY <1>2, <2>1, <2>2, <2>3 DEF DecodeStride
  <2>7. QED
    BY <2>5, <2>6
<1>3. CASE Sort
  BY <1>3 DEF Sort, input
<1>4. ASSUME NEW p \in rest, Keep(p) PROVE DecodeType' /\ Stages'
  <2>1. Append(keep, p) \in Seq(found) /\ Len(Append(keep, p)) = Len(keep) + 1
    BY <1>4
  <2>2. QED
    BY <1>4, <2>1 DEF Keep, input
<1>5. CASE Suppressed
  BY <1>5 DEF Suppressed, input
<1>6. CASE Locate
  <2>1. located + 1 \in 1..Len(keep) /\ phase = "locate"
    BY <1>6 DEF Locate
  <2>2. PICK p \in Positions : p = keep[located + 1]
    BY <2>1
  <2>3. BoxOf(p) \in Edges
    BY <2>2, BoxTyped, TypesAnswers
  <2>4. BigEnough(Located(BoxOf(p))) => Located(BoxOf(p)) \in Box
    BY <2>3, LocatedRight, TypesAnswers DEF Seen
  <2>5. detections' \in Seq(Box)
    BY <1>6, <2>2, <2>4 DEF Locate, BoxOf
  <2>6. QED
    BY <1>6, <2>1, <2>5 DEF Locate, input
<1>7. CASE Report
  BY <1>7 DEF Report, input
<1>8. CASE Shoot
  BY <1>8 DEF Shoot, decodeVars, input
<1>9. CASE UNCHANGED vars
  BY <1>9 DEF vars, decodeVars, input
<1>10. QED
  BY <1>1, <1>2, <1>3, <1>4, <1>5, <1>6, <1>7, <1>8, <1>9 DEF Next, DecodeNext

LEMMA DecoderStarts == Init => DecodeType /\ Stages
<1> SUFFICES ASSUME Init PROVE DecodeType /\ Stages
  OBVIOUS
<1>1. frame \in FrameSizes /\ outputs \in Layouts /\ phase = "group" /\ strides = {}
      /\ found = {} /\ rest = {} /\ keep = <<>> /\ located = 0 /\ detections = <<>>
  BY DEF Init, DecodeInit
<1>2. PICK some \in UNION { kSubset(n, Spots) : n \in 0..MaxFired } :
         fired \in [some -> [score : Scores, reach : Reaches]]
  BY DEF Init, DecodeInit
<1>3. some \in SUBSET Spots
  <2>1. PICK n \in 0..MaxFired : some \in kSubset(n, Spots)
    BY <1>2
  <2>2. QED
    BY <2>1 DEF kSubset
<1>4. QED
  BY <1>1, <1>2, <1>3 DEF DecodeType, Stages

---------------------------------------------------------------------------
(* What a step leaves alone *)

\* The frame, the tensors and the answers stay, and with them all that is
\* calculated from them.
LEMMA InputFixes ==
    ASSUME [Next]_vars
    PROVE  /\ frame' = frame /\ outputs' = outputs /\ fired' = fired
           /\ \A p : BoxOf(p)' = BoxOf(p)
           /\ \A p : Located(BoxOf(p))' = Located(BoxOf(p))
           /\ \A s, k : ScoreAt(s, k)' = ScoreAt(s, k)
           /\ \A p, q : Same(p, q)' = Same(p, q)
           /\ \A s : Heads(s)' = Heads(s)
           /\ \A d : Seen(d)' = Seen(d) /\ Crop(d)' = Crop(d) /\ AtEdge(d)' = AtEdge(d)
<1>1. frame' = frame /\ outputs' = outputs /\ fired' = fired
  BY InputKept DEF input
<1>2. ASSUME NEW p PROVE BoxOf(p)' = BoxOf(p)
  BY <1>1 DEF BoxOf, BoxAt, Center, DistanceAt
<1>3. Width' = Width /\ Height' = Height /\ Longer' = Longer
  BY <1>1 DEF Width, Height, Longer
<1>4. ASSUME NEW p PROVE Located(BoxOf(p))' = Located(BoxOf(p))
  BY <1>2, <1>3 DEF Located, OnFrame
<1>5. ASSUME NEW s, NEW k PROVE ScoreAt(s, k)' = ScoreAt(s, k)
  BY <1>1 DEF ScoreAt
<1>6. ASSUME NEW p, NEW q PROVE Same(p, q)' = Same(p, q)
  BY <1>2 DEF Same, BoxOf
<1>7. ASSUME NEW s PROVE Heads(s)' = Heads(s)
  BY <1>1 DEF Heads
<1>8. ASSUME NEW d PROVE Seen(d)' = Seen(d) /\ Crop(d)' = Crop(d) /\ AtEdge(d)' = AtEdge(d)
  BY <1>3 DEF Seen, Crop, AtEdge
<1>9. QED
  BY <1>1, <1>2, <1>4, <1>5, <1>6, <1>7, <1>8

\* Detections only come.
LEMMA DetectionsGrow ==
    ASSUME DecodeType, [Next]_vars
    PROVE  /\ Len(detections) <= Len(detections')
           /\ \A i \in DOMAIN detections : i \in DOMAIN detections' /\ detections'[i] = detections[i]
<1> USE DEF DecodeType
<1>1. CASE Locate
  BY <1>1 DEF Locate
<1>2. CASE detections' = detections
  BY <1>2
<1>3. QED
  BY <1>1, <1>2 DEF Next, DecodeNext, Group, DecodeStride, Sort, Keep, Suppressed, Report, Shoot,
     vars, decodeVars

---------------------------------------------------------------------------
(* The candidates *)

\* The spots that answered with enough confidence where it could be read.
Answers == { p \in DOMAIN fired :
               fired[p].score >= MinScore /\ {"score", "bbox"} \subseteq Heads(p[1]) }

\* Of the strides that are done, the candidates are the rows of these spots.
Candidates ==
    phase \in {"decode", "nms", "locate", "located"} =>
        found = { Flat(p) : p \in { q \in Answers : q[1] \notin strides } }

LEMMA CandidatesStep ==
    ASSUME DecodeType, Stages, Candidates, [Next]_vars
    PROVE  Candidates'
<1> USE DEF Candidates
<1>1. Answers' = Answers
  BY InputFixes DEF Answers
<1>2. Answers \subseteq Spots
  BY DEF Answers, DecodeType
<1>3. CASE Group
  <2>1. SUFFICES ASSUME phase' = "decode" PROVE found' = { Flat(p) : p \in { q \in Answers : q[1] \notin strides' } }
    BY <1>1, <1>3 DEF Group
  <2>2. strides' = Strides /\ found' = {}
    BY <1>3, <2>1 DEF Group, Stages
  <2>3. \A p \in Answers : p[1] \in Strides
    BY <1>2, SpotShape
  <2>4. QED
    BY <2>2, <2>3
<1>4. ASSUME NEW s \in strides, DecodeStride(s) PROVE Candidates'
  <2>1. /\ phase = "decode" /\ phase' = "decode" /\ strides' = strides \ {s}
        /\ found' = IF {"score", "bbox"} \subseteq Heads(s)
                      THEN found \cup { p \in Positions : p[1] = s /\ ScoreAt(s, p[2]) >= MinScore }
                      ELSE found
    BY <1>4 DEF DecodeStride
  <2>2. found = { Flat(p) : p \in { q \in Answers : q[1] \notin strides } }
    BY <2>1
  <2> DEFINE new == { Flat(p) : p \in { q \in Answers : q[1] = s } }
  <2>3. { Flat(p) : p \in { q \in Answers : q[1] \notin strides' } } = found \cup new
    BY <1>4, <2>1, <2>2
  <2>4. CASE {"score", "bbox"} \subseteq Heads(s)
    <3>1. ASSUME NEW p \in Answers, p[1] = s
          PROVE  Flat(p) \in Positions /\ Flat(p)[1] = s /\ ScoreAt(s, Flat(p)[2]) >= MinScore
      BY <1>2, <3>1, RowOfSpot DEF Answers, Flat
    <3>2. ASSUME NEW p \in Positions, p[1] = s, ScoreAt(s, p[2]) >= MinScore
          PROVE  p \in new
      <4> DEFINE q == Spot(s, p[2], Anchors, 1)
      <4>1. Flat(q) = p /\ q[1] = s
        BY <3>2, SpotOfRow DEF Spot
      <4>2. q \in DOMAIN fired /\ fired[q].score >= MinScore
        BY <3>2, Constants DEF ScoreAt
      <4>3. q \in Answers
        BY <2>4, <4>1, <4>2 DEF Answers
      <4> HIDE DEF q
      <4>4. QED
        BY <4>1, <4>3
    <3>3. new = { p \in Positions : p[1] = s /\ ScoreAt(s, p[2]) >= MinScore }
      <4>1. ASSUME NEW r \in new
            PROVE  r \in { p \in Positions : p[1] = s /\ ScoreAt(s, p[2]) >= MinScore }
        BY <3>1
      <4> HIDE DEF new
      <4>2. QED
        BY <3>2, <4>1
    <3> HIDE DEF new
    <3>4. QED
      BY <1>1, <2>1, <2>3, <2>4, <3>3
  <2>5. CASE ~({"score", "bbox"} \subseteq Heads(s))
    <3>1. new = {}
      BY <2>5 DEF Answers
    <3> HIDE DEF new
    <3>2. QED
      BY <1>1, <2>1, <2>3, <2>5, <3>1
  <2>6. QED
    BY <2>4, <2>5
<1>5. CASE Sort \/ Suppressed \/ Locate \/ Report \/ Shoot \/ (\E p \in rest : Keep(p))
           \/ UNCHANGED vars
  <2>1. /\ UNCHANGED <<found, strides>>
        /\ phase' \in {"decode", "nms", "locate", "located"} =>
             phase \in {"decode", "nms", "locate", "located"}
    BY <1>5 DEF Sort, Suppressed, Locate, Report, Shoot, Keep, vars, decodeVars
  <2>2. QED
    BY <1>1, <2>1
<1>6. QED
  BY <1>3, <1>4, <1>5 DEF Next, DecodeNext

LEMMA CandidatesAligned ==
    ASSUME DecodeType, Stages, Candidates
    PROVE  Aligned
<1> SUFFICES ASSUME phase = "nms"
             PROVE  /\ found = { Flat(p) : p \in Answers }
                    /\ \A p \in Answers :
                         LET s == p[1]
                             d == fired[p].reach
                         IN  /\ MarksAt(s, Flat(p)[2]) = p
                             /\ BoxAt(s, Flat(p)[2]) =
                                  [x1 |-> s * (p[3] - d[0]), y1 |-> s * (p[2] - d[1]),
                                   x2 |-> s * (p[3] + d[2]), y2 |-> s * (p[2] + d[3])]
  BY DEF Aligned, Answers, Flat
<1>1. found = { Flat(p) : p \in Answers }
  BY DEF Candidates, Stages
<1>2. ASSUME NEW p \in Answers
      PROVE  LET s == p[1]
                 d == fired[p].reach
             IN  /\ MarksAt(s, Flat(p)[2]) = p
                 /\ BoxAt(s, Flat(p)[2]) =
                      [x1 |-> s * (p[3] - d[0]), y1 |-> s * (p[2] - d[1]),
                       x2 |-> s * (p[3] + d[2]), y2 |-> s * (p[2] + d[3])]
  <2>1. p \in Spots /\ p \in DOMAIN fired /\ fired[p] \in [score : Scores, reach : Reaches]
    BY DEF Answers, DecodeType
  <2> DEFINE k == Flat(p)[2]
  <2>2. PICK s \in Nat, row \in Int, column \in Int : s = p[1] /\ row = p[2] /\ column = p[3]
    <3>1. p[1] \in Nat /\ Side(p[1]) \in Nat
      BY <2>1, SpotShape
    <3>2. p[2] \in Int /\ p[3] \in Int
      BY <2>1, <3>1, SpotShape
    <3>3. QED
      BY <3>1, <3>2
  <2>3. PICK d \in [0..3 -> Int] : d = fired[p].reach
    BY <2>1, Constants
  <2>4. /\ MarksAt(s, k) = p
        /\ DistanceAt(s, k, 0) = s * d[0] /\ DistanceAt(s, k, 1) = s * d[1]
        /\ DistanceAt(s, k, 2) = s * d[2] /\ DistanceAt(s, k, 3) = s * d[3]
        /\ Center(s, k).x = s * column /\ Center(s, k).y = s * row
    <3>1. /\ MarksAt(p[1], k) = p
          /\ Center(p[1], k) = [x |-> p[1] * p[3], y |-> p[1] * p[2]]
          /\ \A j \in 0..3 : DistanceAt(p[1], k, j) = p[1] * d[j]
      BY <2>1, <2>3, RowOfSpot
    <3> HIDE DEF k
    <3>2. QED
      BY <2>2, <3>1
  <2>5. /\ d[0] \in Int /\ d[1] \in Int /\ d[2] \in Int /\ d[3] \in Int
    BY <2>3
  <2>6. /\ s * column - s * d[0] = s * (column - d[0])
        /\ s * row - s * d[1] = s * (row - d[1])
        /\ s * column + s * d[2] = s * (column + d[2])
        /\ s * row + s * d[3] = s * (row + d[3])
    BY <2>5
  <2>7. QED
    BY <2>2, <2>3, <2>4, <2>6 DEF BoxAt
<1>3. QED
  BY <1>1, <1>2

---------------------------------------------------------------------------
(* Suppression *)

Score(p) == ScoreAt(p[1], p[2])

\* Kept boxes come best first and apart, those still in order are apart from
\* them and no better, and what is gone has its like among them.
Sifted ==
    /\ \A i, j \in DOMAIN keep :
         i < j => Score(keep[i]) >= Score(keep[j]) /\ ~Same(keep[i], keep[j])
    /\ \A i \in DOMAIN keep, q \in rest : Score(keep[i]) >= Score(q) /\ ~Same(keep[i], q)
    /\ phase = "nms" => \A q \in found \ rest :
         \E i \in DOMAIN keep :
           q = keep[i] \/ (Same(keep[i], q) /\ Score(keep[i]) >= Score(q))

LEMMA SiftedStep ==
    ASSUME DecodeType, Stages, Sifted, [Next]_vars
    PROVE  Sifted'
<1>1. /\ \A p : Score(p)' = Score(p) /\ Score(p) \in Nat
      /\ \A p, q : Same(p, q)' = Same(p, q)
  BY InputFixes, ScoreTyped, TypesAnswers DEF Score
<1>2. ASSUME NEW p \in rest, Keep(p) PROVE Sifted'
  <2>1. /\ phase = "nms" /\ phase' = "nms" /\ found' = found /\ keep' = Append(keep, p)
        /\ rest' = { q \in rest \ {p} : ~Same(p, q) }
        /\ \A q \in rest : Score(q) <= Score(p)
    BY <1>2 DEF Keep, Best, Score
  <2>2. PICK n \in Nat : n = Len(keep) /\ DOMAIN keep = 1..n
    BY DEF DecodeType
  <2>3. /\ DOMAIN keep' = 1..(n + 1) /\ keep'[n + 1] = p
        /\ \A i \in 1..n : keep'[i] = keep[i]
    BY <2>1, <2>2 DEF DecodeType
  <2>4. \A i \in 1..n, q \in rest : Score(keep[i]) >= Score(q) /\ ~Same(keep[i], q)
    BY <2>2 DEF Sifted
  <2>5. ASSUME NEW i \in DOMAIN keep', NEW j \in DOMAIN keep', i < j
        PROVE  Score(keep'[i]) >= Score(keep'[j]) /\ ~Same(keep'[i], keep'[j])
    <3>1. i \in 1..n /\ (j \in 1..n \/ j = n + 1)
      BY <2>2, <2>3, <2>5
    <3>2. CASE j \in 1..n
      BY <2>2, <2>3, <2>5, <3>1, <3>2 DEF Sifted
    <3>3. CASE j = n + 1
      BY <2>3, <2>4, <3>1, <3>3
    <3>4. QED
      BY <3>1, <3>2, <3>3
  <2>6. ASSUME NEW i \in DOMAIN keep', NEW q \in rest'
        PROVE  Score(keep'[i]) >= Score(q) /\ ~Same(keep'[i], q)
    <3>1. CASE i \in 1..n
      BY <2>1, <2>3, <2>4, <2>6, <3>1
    <3>2. CASE i = n + 1
      BY <2>1, <2>3, <2>6, <3>2
    <3>3. QED
      BY <2>3, <2>6, <3>1, <3>2
  <2>7. ASSUME NEW q \in found \ rest'
        PROVE  \E i \in DOMAIN keep' :
                 q = keep'[i] \/ (Same(keep'[i], q) /\ Score(keep'[i]) >= Score(q))
    <3>1. CASE q \in rest
      <4>1. q = p \/ (Same(p, q) /\ Score(p) >= Score(q))
        BY <2>1, <2>7, <3>1
      <4>2. n + 1 \in DOMAIN keep'
        BY <2>3
      <4>3. QED
        BY <2>3, <4>1, <4>2
    <3>2. CASE q \notin rest
      <4>1. PICK i \in 1..n : q = keep[i] \/ (Same(keep[i], q) /\ Score(keep[i]) >= Score(q))
        BY <2>1, <2>2, <2>7, <3>2 DEF Sifted
      <4>2. i \in DOMAIN keep' /\ keep'[i] = keep[i]
        BY <2>3, <4>1
      <4>3. QED
        BY <4>1, <4>2
    <3>3. QED
      BY <3>1, <3>2
  <2>8. QED
    BY <1>1, <2>1, <2>5, <2>6, <2>7 DEF Sifted
<1>3. CASE Sort
  <2>1. keep' = <<>> /\ rest' = found /\ found' = found
    BY <1>3 DEF Sort, Stages
  <2>2. QED
    BY <2>1 DEF Sifted
<1>4. CASE \/ Group \/ Suppressed \/ Locate \/ Report \/ Shoot
           \/ (\E s \in strides : DecodeStride(s)) \/ UNCHANGED vars
  <2>1. UNCHANGED <<keep, rest>> /\ (phase' = "nms" => phase = "nms" /\ UNCHANGED found)
    BY <1>4 DEF Group, Suppressed, Locate, Report, Shoot, DecodeStride, vars, decodeVars
  <2>2. QED
    BY <1>1, <2>1 DEF Sifted
<1>5. QED
  BY <1>2, <1>3, <1>4 DEF Next, DecodeNext

LEMMA SiftedThins == Sifted => Thinned
  BY DEF Sifted, Thinned, Score

---------------------------------------------------------------------------
(* Back to the frame *)

\* The detections are the boxes gone through so far that are big enough.
Placing ==
    /\ \A i \in DOMAIN detections : \E j \in 1..located :
         detections[i] = Located(BoxOf(keep[j])) /\ BigEnough(detections[i])
    /\ \A j \in 1..located : BigEnough(Located(BoxOf(keep[j]))) =>
         \E i \in DOMAIN detections : detections[i] = Located(BoxOf(keep[j]))

LEMMA PlacingStep ==
    ASSUME DecodeType, Stages, Placing, [Next]_vars
    PROVE  Placing'
<1>1. \A p : Located(BoxOf(p))' = Located(BoxOf(p))
  BY InputFixes
<1>2. PICK m \in Nat, n \in Nat :
        m = located /\ n = Len(detections) /\ DOMAIN detections = 1..n /\ m <= Len(keep)
  BY DEF DecodeType
<1>3. CASE Locate
  <2> DEFINE d == Located(BoxOf(keep[m + 1]))
  <2>1. /\ located' = m + 1 /\ keep' = keep
        /\ detections' = IF BigEnough(d) THEN Append(detections, d) ELSE detections
    BY <1>2, <1>3 DEF Locate, BoxOf
  <2> HIDE DEF d
  <2>2. CASE BigEnough(d)
    <3>1. /\ DOMAIN detections' = 1..(n + 1) /\ detections'[n + 1] = d
          /\ \A i \in 1..n : detections'[i] = detections[i]
      BY <1>2, <2>1, <2>2 DEF DecodeType
    <3>2. ASSUME NEW i \in DOMAIN detections'
          PROVE  \E j \in 1..(m + 1) :
                   detections'[i] = Located(BoxOf(keep[j])) /\ BigEnough(detections'[i])
      <4>1. CASE i \in 1..n
        <5>1. PICK j \in 1..m : detections[i] = Located(BoxOf(keep[j])) /\ BigEnough(detections[i])
          BY <1>2, <4>1 DEF Placing
        <5>2. j \in 1..(m + 1)
          BY <1>2, <5>1
        <5>3. QED
          BY <3>1, <4>1, <5>1, <5>2
      <4>2. CASE i = n + 1
        <5>1. m + 1 \in 1..(m + 1)
          BY <1>2
        <5>2. QED
          BY <2>2, <3>1, <4>2, <5>1 DEF d
      <4>3. QED
        BY <3>1, <3>2, <4>1, <4>2
    <3>3. ASSUME NEW j \in 1..(m + 1), BigEnough(Located(BoxOf(keep[j])))
          PROVE  \E i \in DOMAIN detections' : detections'[i] = Located(BoxOf(keep[j]))
      <4>1. CASE j \in 1..m
        <5>1. PICK i \in 1..n : detections[i] = Located(BoxOf(keep[j]))
          BY <1>2, <3>3, <4>1 DEF Placing
        <5>2. QED
          BY <3>1, <5>1
      <4>2. CASE j = m + 1
        <5>1. n + 1 \in DOMAIN detections'
          BY <3>1
        <5>2. QED
          BY <3>1, <4>2, <5>1 DEF d
      <4>3. QED
        BY <1>2, <3>3, <4>1, <4>2
    <3>4. QED
      BY <1>1, <2>1, <3>2, <3>3 DEF Placing
  <2>3. CASE ~BigEnough(d)
    <3>1. UNCHANGED detections
      BY <2>1, <2>3
    <3>2. ASSUME NEW i \in DOMAIN detections
          PROVE  \E j \in 1..(m + 1) :
                   detections[i] = Located(BoxOf(keep[j])) /\ BigEnough(detections[i])
      <4>1. PICK j \in 1..m : detections[i] = Located(BoxOf(keep[j])) /\ BigEnough(detections[i])
        BY <1>2 DEF Placing
      <4>2. j \in 1..(m + 1)
        BY <1>2
      <4>3. QED
        BY <4>1, <4>2
    <3>3. ASSUME NEW j \in 1..(m + 1), BigEnough(Located(BoxOf(keep[j])))
          PROVE  \E i \in DOMAIN detections : detections[i] = Located(BoxOf(keep[j]))
      <4>1. j \in 1..m
        BY <1>2, <2>3, <3>3 DEF d
      <4>2. QED
        BY <1>2, <3>3, <4>1 DEF Placing
    <3>4. QED
      BY <1>1, <2>1, <3>1, <3>2, <3>3 DEF Placing
  <2>4. QED
    BY <2>2, <2>3
<1>4. ASSUME NEW p \in rest, Keep(p) PROVE Placing'
  <2>1. located' = 0 /\ detections' = <<>>
    BY <1>4 DEF Keep, Stages
  <2>2. QED
    BY <2>1 DEF Placing
<1>5. CASE \/ Group \/ Sort \/ Suppressed \/ Report \/ Shoot
           \/ (\E s \in strides : DecodeStride(s)) \/ UNCHANGED vars
  <2>1. UNCHANGED <<keep, located, detections>>
    BY <1>5 DEF Group, Sort, Suppressed, Report, Shoot, DecodeStride, vars, decodeVars
  <2>2. QED
    BY <1>1, <2>1 DEF Placing
<1>6. QED
  BY <1>3, <1>4, <1>5 DEF Next, DecodeNext

\* Each detection is a kept box, and shows on the frame.
LEMMA DetectionSeen ==
    ASSUME DecodeType, Placing, NEW i \in DOMAIN detections
    PROVE  \E j \in DOMAIN keep :
             /\ BoxOf(keep[j]) \in Edges
             /\ detections[i] = Located(BoxOf(keep[j]))
             /\ Seen(detections[i]) /\ Near(detections[i], BoxOf(keep[j]))
             /\ Inside(detections[i], BoxOf(keep[j]))
<1>1. PICK j \in 1..located :
        detections[i] = Located(BoxOf(keep[j])) /\ BigEnough(detections[i])
  BY DEF Placing
<1>2. j \in DOMAIN keep /\ keep[j] \in Positions
  BY <1>1 DEF DecodeType
<1>3. BoxOf(keep[j]) \in Edges
  BY <1>2, BoxTyped, TypesAnswers
<1>4. QED
  BY <1>1, <1>2, <1>3, LocatedRight, TypesAnswers

LEMMA PlacingPlaces ==
    ASSUME DecodeType, Stages, Placing
    PROVE  Placed
<1> SUFFICES ASSUME phase = "located"
             PROVE  LET Boxes == { BoxOf(keep[i]) : i \in DOMAIN keep }
                    IN  /\ \A i \in DOMAIN detections :
                             LET d == detections[i]
                             IN  /\ d.x >= 0 /\ d.y >= 0
                                 /\ d.x + d.w <= Width /\ d.y + d.h <= Height
                                 /\ d.w >= MinFace /\ d.h >= MinFace
                                 /\ \E b \in Boxes : Near(d, b)
                        /\ \A b \in Boxes :
                             Shows(b.x1, b.x2, Width) /\ Shows(b.y1, b.y2, Height)
                               => \E i \in DOMAIN detections : Near(detections[i], b)
  BY DEF Placed, Near, Shows, BoxOf
<1>1. ASSUME NEW i \in DOMAIN detections
      PROVE  /\ Seen(detections[i])
             /\ \E j \in DOMAIN keep : Near(detections[i], BoxOf(keep[j]))
  BY DetectionSeen
<1>2. ASSUME NEW i \in DOMAIN detections
      PROVE  /\ detections[i].x >= 0 /\ detections[i].y >= 0
             /\ detections[i].x + detections[i].w <= Width
             /\ detections[i].y + detections[i].h <= Height
             /\ detections[i].w >= MinFace /\ detections[i].h >= MinFace
  BY <1>1 DEF Seen, Box
<1>3. ASSUME NEW j \in DOMAIN keep,
             Shows(BoxOf(keep[j]).x1, BoxOf(keep[j]).x2, Width),
             Shows(BoxOf(keep[j]).y1, BoxOf(keep[j]).y2, Height)
      PROVE  \E i \in DOMAIN detections : Near(detections[i], BoxOf(keep[j]))
  <2>1. keep[j] \in Positions /\ j \in 1..located
    BY DEF DecodeType, Stages
  <2>2. BoxOf(keep[j]) \in Edges
    BY <2>1, BoxTyped, TypesAnswers
  <2>3. BigEnough(Located(BoxOf(keep[j]))) /\ Near(Located(BoxOf(keep[j])), BoxOf(keep[j]))
    BY <1>3, <2>2, LocatedRight, TypesAnswers
  <2>4. QED
    BY <2>1, <2>3 DEF Placing
<1>4. QED
  BY <1>1, <1>2, <1>3

---------------------------------------------------------------------------
(* Scores *)

\* The weighted sum of three parts, of which full, band and large are the
\* most there can be, and the sum when each is the most.
Sum(full, band, large, a, b, c) == 2 * a * band * large + b * full * large + c * full * band
Whole(full, band, large) == 4 * full * band * large

LEMMA SumRight ==
    ASSUME NEW F \in Nat \ {0}, NEW B \in Nat \ {0}, NEW L \in Nat \ {0},
           NEW a \in 0..F, NEW b \in 0..B, NEW c \in 0..L,
           NEW x \in 0..F, NEW y \in 0..B, NEW z \in 0..L
    PROVE  /\ Whole(F, B, L) \in Nat \ {0}
           /\ Sum(F, B, L, a, b, c) \in 0..Whole(F, B, L)
           /\ a <= x /\ b <= y /\ c <= z => Sum(F, B, L, a, b, c) <= Sum(F, B, L, x, y, z)
<1>1. PICK P \in Nat \ {0}, Q \in Nat \ {0}, R \in Nat \ {0} : P = B * L /\ Q = F * L /\ R = F * B
  OBVIOUS
<1>2. PICK V \in Nat \ {0} : V = F * P /\ V = B * Q /\ V = L * R
  BY <1>1
<1>3. ASSUME NEW i \in Int, NEW j \in Int, NEW k \in Int
      PROVE  Sum(F, B, L, i, j, k) = 2 * (i * P) + j * Q + k * R
  BY <1>1 DEF Sum
<1>4. Whole(F, B, L) = 4 * V
  BY <1>1, <1>2 DEF Whole
<1>5. Sum(F, B, L, a, b, c) \in 0..(4 * V)
  <2>1. a * P \in 0..V
    BY <1>2
  <2>2. b * Q \in 0..V
    BY <1>2
  <2>3. c * R \in 0..V
    BY <1>2
  <2>4. Sum(F, B, L, a, b, c) = 2 * (a * P) + b * Q + c * R
    BY <1>3
  <2>5. PICK i \in 0..V, j \in 0..V, k \in 0..V : i = a * P /\ j = b * Q /\ k = c * R
    BY <2>1, <2>2, <2>3
  <2>6. QED
    BY <2>4, <2>5
<1>6. ASSUME a <= x, b <= y, c <= z
      PROVE  Sum(F, B, L, a, b, c) <= Sum(F, B, L, x, y, z)
  <2>1. a * P <= x * P
    BY <1>6, TimesMonotonic
  <2>2. b * Q <= y * Q
    BY <1>6, TimesMonotonic
  <2>3. c * R <= z * R
    BY <1>6, TimesMonotonic
  <2>4. /\ Sum(F, B, L, a, b, c) = 2 * (a * P) + b * Q + c * R
        /\ Sum(F, B, L, x, y, z) = 2 * (x * P) + y * Q + z * R
    BY <1>3
  <2>5. PICK i \in Int, j \in Int, k \in Int, l \in Int, m \in Int, n \in Int :
           /\ i = a * P /\ j = b * Q /\ k = c * R
           /\ l = x * P /\ m = y * Q /\ n = z * R
    OBVIOUS
  <2>6. QED
    BY <2>1, <2>2, <2>3, <2>4, <2>5
<1>7. QED
  BY <1>4, <1>5, <1>6

\* The share of one that sum is of whole, rounded to ten-thousandths.
Share(sum, whole) == (20000 * sum + whole) \div (2 * whole)

One == 10000

LEMMA ShareRight ==
    ASSUME NEW whole \in Nat \ {0}, NEW sum \in 0..whole
    PROVE  /\ Share(sum, whole) \in Nat /\ Share(sum, whole) <= One
           /\ \A less \in 0..sum : Share(less, whole) <= Share(sum, whole)
<1>1. PICK n \in Nat \ {0} : n = 2 * whole
  OBVIOUS
<1>2. PICK k \in Nat : k = 20000 * sum + whole /\ 2 * k <= 20001 * n
  BY <1>1
<1>3. PICK s \in Int, r \in 0..(n - 1) : k = s * n + r /\ s = k \div n
  <2>1. k \div n \in Int /\ k % n \in 0..(n - 1) /\ k = (k \div n) * n + (k % n)
    BY Divided
  <2>2. QED
    BY <2>1
<1>4. s >= 0
  BY <1>3
<1>5. s < 10001
  <2>1. SUFFICES ASSUME s >= 10001 PROVE FALSE
    BY <1>3
  <2>2. 10001 * n <= s * n
    BY <1>3, <2>1, TimesMonotonic
  <2>3. s * n \in Int /\ s * n <= k
    BY <1>3
  <2>4. QED
    BY <1>2, <2>2, <2>3
<1>6. Share(sum, whole) = s
  BY <1>1, <1>2, <1>3 DEF Share
<1>7. ASSUME NEW less \in 0..sum PROVE Share(less, whole) <= Share(sum, whole)
  <2>1. PICK l \in Int : l = 20000 * less + whole /\ l <= k
    BY <1>2
  <2>2. l \div n <= k \div n
    BY <2>1, DividedMonotonic
  <2>3. QED
    BY <1>1, <1>2, <2>1, <2>2 DEF Share
<1>8. QED
  BY <1>3, <1>4, <1>5, <1>6, <1>7 DEF One

Sharpness(sharp) == Smaller(4 * Blur, sharp)
Exposure(light) == Larger(0, (Bright - Dark) - Distance(2 * light, Dark + Bright))
Largeness(d) == Smaller(4 * MinFace, Smaller(d.w, d.h))

LEMMA PartsTyped ==
    ASSUME NEW d, d.w \in Nat, d.h \in Nat, NEW light \in Nat, NEW sharp \in Nat
    PROVE  /\ Sharpness(sharp) \in 0..(4 * Blur)
           /\ Exposure(light) \in 0..(Bright - Dark)
           /\ Largeness(d) \in 0..(4 * MinFace)
<1>1. Sharpness(sharp) \in 0..(4 * Blur)
  BY GateConstants DEF Sharpness, Smaller
<1>2. Exposure(light) \in 0..(Bright - Dark)
  BY GateConstants DEF Exposure, Larger, Distance
<1>3. Largeness(d) \in 0..(4 * MinFace)
  BY Constants DEF Largeness, Smaller
<1>4. QED
  BY <1>1, <1>2, <1>3

\* A score is a share of one, and does not fall where nothing gets worse.
LEMMA ScoreFair ==
    ASSUME NEW d, d.w \in Nat, d.h \in Nat, NEW light \in Nat, NEW sharp \in Nat,
           NEW e, e.w \in Nat, e.h \in Nat, NEW glow \in Nat, NEW keen \in Nat
    PROVE  /\ CompositeScore(d, light, sharp) \in Nat /\ CompositeScore(d, light, sharp) <= One
           /\ /\ d.w <= e.w /\ d.h <= e.h /\ sharp <= keen
              /\ Distance(2 * glow, Dark + Bright) <= Distance(2 * light, Dark + Bright)
              => CompositeScore(d, light, sharp) <= CompositeScore(e, glow, keen)
<1>1. PICK F \in Nat \ {0}, B \in Nat \ {0}, L \in Nat \ {0} :
        F = 4 * Blur /\ B = Bright - Dark /\ L = 4 * MinFace
  BY Constants, GateConstants
<1>2. PICK a \in 0..F, b \in 0..B, c \in 0..L :
        a = Sharpness(sharp) /\ b = Exposure(light) /\ c = Largeness(d)
  BY <1>1, PartsTyped
<1>3. PICK x \in 0..F, y \in 0..B, z \in 0..L :
        x = Sharpness(keen) /\ y = Exposure(glow) /\ z = Largeness(e)
  BY <1>1, PartsTyped
<1>4. PICK whole \in Nat \ {0} : whole = Whole(F, B, L)
  BY SumRight
<1>5. PICK s \in 0..whole, t \in 0..whole :
        /\ s = Sum(F, B, L, a, b, c) /\ t = Sum(F, B, L, x, y, z)
        /\ a <= x /\ b <= y /\ c <= z => s <= t
  <2>1. /\ Sum(F, B, L, a, b, c) \in 0..Whole(F, B, L)
        /\ Sum(F, B, L, x, y, z) \in 0..Whole(F, B, L)
        /\ a <= x /\ b <= y /\ c <= z => Sum(F, B, L, a, b, c) <= Sum(F, B, L, x, y, z)
    BY SumRight
  <2>2. QED
    BY <1>4, <2>1
<1>6. CompositeScore(d, light, sharp) = Share(s, whole)
  BY <1>1, <1>2, <1>4, <1>5
     DEF CompositeScore, Share, Sum, Whole, Sharpness, Exposure, Largeness
<1>7. CompositeScore(e, glow, keen) = Share(t, whole)
  BY <1>1, <1>3, <1>4, <1>5
     DEF CompositeScore, Share, Sum, Whole, Sharpness, Exposure, Largeness
<1>8. ASSUME d.w <= e.w, d.h <= e.h, sharp <= keen,
             Distance(2 * glow, Dark + Bright) <= Distance(2 * light, Dark + Bright)
      PROVE  a <= x /\ b <= y /\ c <= z
  <2>1. a <= x
    BY <1>2, <1>3, <1>8, GateConstants DEF Sharpness, Smaller
  <2>2. b <= y
    BY <1>2, <1>3, <1>8, GateConstants DEF Exposure, Larger, Distance
  <2>3. c <= z
    BY <1>2, <1>3, <1>8, Constants DEF Largeness, Smaller
  <2>4. QED
    BY <2>1, <2>2, <2>3
<1>9. Share(s, whole) \in Nat /\ Share(s, whole) <= One
  BY ShareRight
<1>10. s <= t => Share(s, whole) <= Share(t, whole)
  BY ShareRight
<1>11. CompositeScore(d, light, sharp) \in Nat /\ CompositeScore(d, light, sharp) <= One
  BY <1>6, <1>9, Zenon
<1>12. ASSUME d.w <= e.w, d.h <= e.h, sharp <= keen,
              Distance(2 * glow, Dark + Bright) <= Distance(2 * light, Dark + Bright)
       PROVE  CompositeScore(d, light, sharp) <= CompositeScore(e, glow, keen)
  <2>1. s <= t
    BY <1>5, <1>8, <1>12
  <2>2. QED
    BY <1>6, <1>7, <1>10, <2>1
<1>13. QED
  BY <1>11, <1>12, Zenon

LEMMA ScoreIsShare ==
    ASSUME NEW d, d.w \in Nat, d.h \in Nat, NEW light \in Nat, NEW sharp \in Nat
    PROVE  CompositeScore(d, light, sharp) \in Nat /\ CompositeScore(d, light, sharp) <= One
  BY ScoreFair, Zenon

\* What is accepted stays accepted where nothing gets worse.
LEMMA Preferred ==
    ASSUME NEW d, d.w \in Nat, d.h \in Nat, NEW light \in Nat, NEW sharp \in Nat,
           NEW e, e.w \in Nat, e.h \in Nat, NEW glow \in Nat, NEW keen \in Nat,
           Reason(d, light, sharp) = "ok", keen >= sharp,
           Distance(2 * glow, Dark + Bright) <= Distance(2 * light, Dark + Bright),
           e.w >= d.w, e.h >= d.h, ~AtEdge(e)
    PROVE  /\ Reason(e, glow, keen) = "ok"
           /\ CompositeScore(e, glow, keen) >= CompositeScore(d, light, sharp)
<1> DEFINE old == CompositeScore(d, light, sharp)
           new == CompositeScore(e, glow, keen)
<1>1. old \in Nat /\ new \in Nat /\ old <= new
  <2>1. d.w <= e.w /\ d.h <= e.h /\ sharp <= keen
    OBVIOUS
  <2>2. QED
    BY <2>1, ScoreFair, ScoreIsShare, Zenon
<1> HIDE DEF old, new
<1>2. /\ BigEnough(d) /\ ~(light < Dark) /\ ~(light > Bright)
      /\ ~(light \in Dark..Bright /\ sharp < Blur)
      /\ ~(old < MinQuality)
  BY DEF Reason, old
<1>3. BigEnough(e)
  BY <1>2, Constants DEF BigEnough, Smaller
<1>4. glow \in Dark..Bright /\ ~(keen < Blur)
  BY <1>2, GateConstants DEF Distance
<1>5. ~(new < MinQuality)
  BY <1>1, <1>2, GateConstants
<1>6. ~(glow < Dark) /\ ~(glow > Bright)
  BY <1>4, GateConstants
<1>7. Reason(e, glow, keen) = "ok"
  BY <1>3, <1>4, <1>5, <1>6 DEF Reason, new
<1>8. QED
  BY <1>1, <1>7 DEF old, new

---------------------------------------------------------------------------
(* The pictures *)

\* Every picture shows its detection and was judged by what it measures.
Judged ==
    \A i \in DOMAIN shots :
        LET s == shots[i]
            d == detections[i]
        IN  /\ i \in DOMAIN detections
            /\ s.light \in Lights /\ s.sharp \in Sharps
            /\ s.crop = Crop(d) /\ s.reason = Reason(d, s.light, s.sharp)
            /\ s.score = IF s.reason \in Scored THEN CompositeScore(d, s.light, s.sharp) ELSE 0

LEMMA ReasonFixed ==
    ASSUME [Next]_vars, NEW d, NEW light, NEW sharp
    PROVE  Reason(d, light, sharp)' = Reason(d, light, sharp)
  BY InputFixes DEF Reason, BigEnough, CompositeScore

LEMMA ReasonTyped ==
    ASSUME NEW d, NEW light, NEW sharp
    PROVE  Reason(d, light, sharp) \in Reasons
  BY DEF Reason, Reasons

ShotRecords == [crop : Box, light : Lights, sharp : Sharps, score : Int, reason : Reasons]

LEMMA ShotsStep ==
    ASSUME TypeOK, DecodeType', Placing, Judged, [Next]_vars
    PROVE  TypeOK' /\ Judged'
<1>1. DecodeType /\ shots \in Seq(ShotRecords) /\ Len(shots) <= Len(detections)
  BY DEF TypeOK, ShotRecords
<1>2. CASE shots' = shots
  <2>1. /\ Len(detections) <= Len(detections')
        /\ \A i \in DOMAIN detections : i \in DOMAIN detections' /\ detections'[i] = detections[i]
    BY <1>1, DetectionsGrow
  <2>2. TypeOK'
    BY <1>1, <1>2, <2>1 DEF TypeOK, DecodeType, ShotRecords
  <2>3. Judged'
    BY <1>2, <2>1, InputFixes, ReasonFixed DEF Judged, CompositeScore
  <2>4. QED
    BY <2>2, <2>3
<1>3. CASE Shoot
  <2>1. PICK n \in Nat : n = Len(shots) /\ DOMAIN shots = 1..n /\ n + 1 \in DOMAIN detections
    BY <1>1, <1>3 DEF Shoot, DecodeType
  <2>2. PICK light \in Lights, sharp \in Sharps :
          LET d == detections[n + 1]
              reason == Reason(d, light, sharp)
          IN  shots' = Append(shots,
                [crop |-> Crop(d), light |-> light, sharp |-> sharp, reason |-> reason,
                 score |-> IF reason \in Scored THEN CompositeScore(d, light, sharp) ELSE 0])
    BY <1>3, <2>1 DEF Shoot
  <2>3. PICK d : d = detections[n + 1]
    OBVIOUS
  <2>4. PICK shot :
          /\ shot = [crop |-> Crop(d), light |-> light, sharp |-> sharp,
                     reason |-> Reason(d, light, sharp),
                     score |-> IF Reason(d, light, sharp) \in Scored
                                 THEN CompositeScore(d, light, sharp) ELSE 0]
          /\ shots' = Append(shots, shot)
    BY <2>2, <2>3
  <2>5. Seen(d)
    BY <1>1, <2>1, <2>3, DetectionSeen
  <2>6. Crop(d) \in Box
    BY <1>1, <2>5, CropShape, TypesAnswers
  <2>7. CompositeScore(d, light, sharp) \in Int
    <3>1. d.w \in Nat /\ d.h \in Nat /\ light \in Nat /\ sharp \in Nat
      BY <2>2, <2>5, GateConstants DEF Seen, Box
    <3>2. CompositeScore(d, light, sharp) \in Nat
      BY <3>1, ScoreIsShare
    <3>3. QED
      BY <3>2
  <2>8. shot \in ShotRecords
    BY <2>2, <2>4, <2>6, <2>7, ReasonTyped DEF ShotRecords
  <2>9. /\ shots' \in Seq(ShotRecords) /\ Len(shots') = n + 1 /\ DOMAIN shots' = 1..(n + 1)
        /\ shots'[n + 1] = shot /\ \A i \in 1..n : shots'[i] = shots[i]
    BY <1>1, <2>1, <2>4, <2>8
  <2>10. UNCHANGED <<detections, input>>
    BY <1>3 DEF Shoot, decodeVars
  <2>11. TypeOK'
    BY <1>1, <2>1, <2>9, <2>10 DEF TypeOK, DecodeType, ShotRecords
  <2>12. Judged'
    <3>1. ASSUME NEW i \in 1..n PROVE
            LET s == shots[i]
                e == detections[i]
            IN  /\ i \in DOMAIN detections
                /\ s.light \in Lights /\ s.sharp \in Sharps
                /\ s.crop = Crop(e) /\ s.reason = Reason(e, s.light, s.sharp)
                /\ s.score = IF s.reason \in Scored THEN CompositeScore(e, s.light, s.sharp) ELSE 0
      BY <2>1 DEF Judged
    <3>2. /\ shot.light = light /\ shot.sharp = sharp
          /\ shot.crop = Crop(d) /\ shot.reason = Reason(d, light, sharp)
          /\ shot.score = IF shot.reason \in Scored THEN CompositeScore(d, light, sharp) ELSE 0
      BY <2>4
    <3>3. \A i \in DOMAIN shots' : i \in 1..n \/ i = n + 1
      BY <2>9
    <3>4. QED
      BY <2>1, <2>2, <2>3, <2>9, <2>10, <3>1, <3>2, <3>3, InputFixes, ReasonFixed
         DEF Judged, CompositeScore
  <2>13. QED
    BY <2>11, <2>12
<1>4. QED
  BY <1>2, <1>3 DEF Next, vars

---------------------------------------------------------------------------
(* Theorems *)

Inv == TypeOK /\ Stages /\ Candidates /\ Sifted /\ Placing /\ Judged

LEMMA InvStarts == Init => Inv
<1> SUFFICES ASSUME Init PROVE Inv
  OBVIOUS
<1>1. DecodeType /\ Stages
  BY DecoderStarts
<1>2. phase = "group" /\ keep = <<>> /\ rest = {} /\ located = 0 /\ detections = <<>> /\ shots = <<>>
  BY DEF Init, DecodeInit
<1>3. TypeOK
  BY <1>1, <1>2 DEF TypeOK
<1>4. Candidates
  BY <1>2 DEF Candidates
<1>5. Sifted
  BY <1>2 DEF Sifted
<1>6. Placing
  BY <1>2 DEF Placing
<1>7. Judged
  BY <1>2 DEF Judged
<1>8. QED
  BY <1>1, <1>3, <1>4, <1>5, <1>6, <1>7 DEF Inv

LEMMA InvStep == Inv /\ [Next]_vars => Inv'
  BY DecoderTypes, CandidatesStep, SiftedStep, PlacingStep, ShotsStep DEF Inv, TypeOK

LEMMA InvHolds == Spec => []Inv
  BY InvStarts, InvStep, PTL DEF Spec

\* Every variable keeps its type (HailoFaceModels.detect, FaceCropper.crop and
\* QualityEvaluator.evaluate).
THEOREM Typing == Spec => []TypeOK
<1>1. Inv => TypeOK
  BY DEF Inv
<1>2. QED
  BY InvHolds, <1>1, PTL

\* Each confident answer gives the box around its own cell, the best of
\* several boxes of one face is kept, and each that shows enough of itself is
\* reported where it lies on the frame (scrfd_decode.py:30-82, 150-177,
\* hailo_models.py:111-131).
THEOREM DetectorRight == Spec => []DetectsRight
<1>1. Inv => DetectsRight
  BY CandidatesAligned, SiftedThins, PlacingPlaces DEF Inv, TypeOK, DetectsRight
<1>2. QED
  BY InvHolds, <1>1, PTL

\* The cut-out lies on the frame and holds the face, whatever the padding and
\* wherever the face (cropper.py:49-68).
THEOREM CropsHold == Spec => []CropHoldsFace
<1>1. Inv => CropHoldsFace
  <2> SUFFICES ASSUME Inv, NEW i \in DOMAIN shots
               PROVE  LET d == detections[i]
                          c == shots[i].crop
                      IN  /\ 0 <= c.x /\ c.x <= d.x /\ d.x + d.w <= c.x + c.w /\ c.x + c.w <= Width
                          /\ 0 <= c.y /\ c.y <= d.y /\ d.y + d.h <= c.y + c.h /\ c.y + c.h <= Height
                          /\ c.w = Smaller(CropSide(d), Width) /\ c.h = Smaller(CropSide(d), Height)
    BY DEF CropHoldsFace
  <2>1. DecodeType /\ Placing /\ i \in DOMAIN detections /\ shots[i].crop = Crop(detections[i])
    BY DEF Inv, TypeOK, Judged
  <2>2. Seen(detections[i])
    BY <2>1, DetectionSeen
  <2>3. QED
    BY <2>1, <2>2, CropShape, TypesAnswers
<1>2. QED
  BY InvHolds, <1>1, PTL

\* No face cut by the frame's edge is accepted, for any margin, although the
\* detector has cut every box before the gate sees it (quality.py:59-64).
THEOREM FacesWhole == Spec => []WholeFaces
<1>1. Inv => WholeFaces
  <2> SUFFICES ASSUME Inv, NEW i \in DOMAIN shots, shots[i].reason = "ok"
               PROVE  \E j \in DOMAIN keep :
                        LET b == BoxOf(keep[j])
                        IN  /\ Located(b) = detections[i]
                            /\ 0 <= b.x1 /\ Longer * b.x2 < Width * Size
                            /\ 0 <= b.y1 /\ Longer * b.y2 < Height * Size
    BY DEF WholeFaces, BoxOf
  <2> DEFINE d == detections[i]
  <2>1. DecodeType /\ Placing /\ i \in DOMAIN detections
        /\ Reason(d, shots[i].light, shots[i].sharp) = "ok"
    BY DEF Inv, TypeOK, Judged
  <2>2. PICK j \in DOMAIN keep :
          d = Located(BoxOf(keep[j])) /\ Seen(d) /\ Inside(d, BoxOf(keep[j]))
    BY <2>1, DetectionSeen
  <2>3. ~AtEdge(d)
    BY <2>1 DEF Reason
  <2>4. PICK across \in Nat, down \in Nat :
          across = (Width * Margin) \div 100 /\ down = (Height * Margin) \div 100
    <3>1. Width * Margin \in Nat /\ Height * Margin \in Nat
      BY <2>1, FrameTyped, TypesAnswers, GateConstants
    <3>2. QED
      BY <3>1
  <2>5. d.x >= 1 /\ d.y >= 1 /\ d.x + d.w < Width /\ d.y + d.h < Height
    BY <2>1, <2>2, <2>3, <2>4, FrameTyped, TypesAnswers DEF AtEdge, Seen, Box
  <2>6. QED
    BY <2>2, <2>5 DEF Inside
<1>2. QED
  BY InvHolds, <1>1, PTL

\* The score is a share of one, and of two pictures of a frame the one that is
\* no worse in anything is accepted with the other (quality.py:5, 46-96).
THEOREM GateIsFair == Spec => []GateFair
<1>1. Inv => GateFair
  <2> SUFFICES ASSUME Inv, NEW i \in DOMAIN shots, NEW j \in DOMAIN shots
               PROVE  /\ shots[i].score \in 0..10000
                      /\ /\ shots[j].reason = "ok" /\ shots[i].sharp >= shots[j].sharp
                         /\ Distance(2 * shots[i].light, Dark + Bright)
                              <= Distance(2 * shots[j].light, Dark + Bright)
                         /\ detections[i].w >= detections[j].w
                         /\ detections[i].h >= detections[j].h
                         /\ ~AtEdge(detections[i])
                         => shots[i].reason = "ok" /\ shots[i].score >= shots[j].score
    BY DEF GateFair
  <2>1. ASSUME NEW k \in DOMAIN shots
        PROVE  /\ shots[k].light \in Nat /\ shots[k].sharp \in Nat
               /\ detections[k].w \in Nat /\ detections[k].h \in Nat
               /\ shots[k].reason = Reason(detections[k], shots[k].light, shots[k].sharp)
               /\ shots[k].score = IF shots[k].reason \in Scored
                    THEN CompositeScore(detections[k], shots[k].light, shots[k].sharp) ELSE 0
    <3>1. DecodeType /\ Placing /\ k \in DOMAIN detections
      BY DEF Inv, TypeOK, Judged
    <3>2. Seen(detections[k])
      BY <3>1, DetectionSeen
    <3>3. detections[k].w \in Nat /\ detections[k].h \in Nat
      BY <3>2 DEF Seen, Box
    <3>4. shots[k].light \in Lights /\ shots[k].sharp \in Sharps
      BY DEF Inv, Judged
    <3>5. shots[k].light \in Nat /\ shots[k].sharp \in Nat
      BY <3>4, GateConstants
    <3>6. QED
      BY <3>3, <3>5 DEF Inv, Judged
  <2>2. shots[i].score \in 0..One
    <3>1. 0 \in 0..One
      BY DEF One
    <3>2. \A n \in Nat : n <= One => n \in 0..One
      BY DEF One
    <3>3. CASE shots[i].reason \in Scored
      BY <2>1, <3>2, <3>3, ScoreIsShare, Zenon
    <3>4. CASE shots[i].reason \notin Scored
      BY <2>1, <3>1, <3>4, Zenon
    <3>5. QED
      BY <3>3, <3>4
  <2>3. shots[i].score \in 0..10000
    BY <2>2 DEF One
  <2>4. ASSUME shots[j].reason = "ok", shots[i].sharp >= shots[j].sharp,
               Distance(2 * shots[i].light, Dark + Bright)
                 <= Distance(2 * shots[j].light, Dark + Bright),
               detections[i].w >= detections[j].w, detections[i].h >= detections[j].h,
               ~AtEdge(detections[i])
        PROVE  shots[i].reason = "ok" /\ shots[i].score >= shots[j].score
    <3>1. /\ shots[i].reason = "ok"
          /\ CompositeScore(detections[i], shots[i].light, shots[i].sharp)
               >= CompositeScore(detections[j], shots[j].light, shots[j].sharp)
      <4>1. /\ shots[i].light \in Nat /\ shots[i].sharp \in Nat
            /\ detections[i].w \in Nat /\ detections[i].h \in Nat
            /\ shots[j].light \in Nat /\ shots[j].sharp \in Nat
            /\ detections[j].w \in Nat /\ detections[j].h \in Nat
        BY <2>1, Zenon
      <4>2. /\ shots[i].reason = Reason(detections[i], shots[i].light, shots[i].sharp)
            /\ shots[j].reason = Reason(detections[j], shots[j].light, shots[j].sharp)
        BY <2>1, Zenon
      <4>3. Reason(detections[j], shots[j].light, shots[j].sharp) = "ok"
        BY <2>4, <4>2, Zenon
      <4>4. /\ Reason(detections[i], shots[i].light, shots[i].sharp) = "ok"
            /\ CompositeScore(detections[i], shots[i].light, shots[i].sharp)
                 >= CompositeScore(detections[j], shots[j].light, shots[j].sharp)
        BY <2>4, <4>1, <4>3, Preferred, Zenon
      <4>5. QED
        BY <4>2, <4>4, Zenon
    <3>2. shots[i].reason \in Scored /\ shots[j].reason \in Scored
      BY <2>4, <3>1 DEF Scored
    <3>3. QED
      BY <2>1, <3>1, <3>2, Zenon
  <2>5. QED
    BY <2>3, <2>4
<1>2. QED
  BY InvHolds, <1>1, PTL
==================================================================================
