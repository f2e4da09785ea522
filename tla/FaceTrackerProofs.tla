--------------------------- MODULE FaceTrackerProofs ---------------------------
(* Proofs about FaceTracker, for every number of faces, hits and tracks. *)
EXTENDS FaceTracker, FiniteSetTheorems, TLAPS

---------------------------------------------------------------------------
(* Sums over finite sets *)

First(s) == CHOOSE x \in s : TRUE

\* g is the fold that a sum over S is computed with.
Sums(f, S, g) ==
    g = [s \in SUBSET S |-> IF s = {} THEN 0 ELSE f[First(s)] + g[s \ {First(s)}]]

\* Induction over finite sets: among sets that lack a property one is least.
LEMMA LeastSet ==
  ASSUME NEW S, IsFiniteSet(S), NEW Bad \in SUBSET (SUBSET S), Bad # {}
  PROVE  \E T \in Bad : \A U \in Bad : U \subseteq T => U = T
<1>1. IsWellFoundedOn(StrictSubsetOrdering(S), SUBSET S)
  BY FS_StrictSubsetOrderingWellFounded, FS_FiniteSubsetsOfFinite
<1>2. PICK T \in Bad : \A U \in Bad : <<U, T>> \notin StrictSubsetOrdering(S)
  BY <1>1, WFMin
<1>3. QED
  BY <1>2 DEF StrictSubsetOrdering

LEMMA FirstIn == \A s : s # {} => First(s) \in s
  BY DEF First

\* Two such folds agree where both are defined.
LEMMA SumsAgree ==
  ASSUME NEW f, NEW A, IsFiniteSet(A), NEW B, NEW g, NEW h, Sums(f, A, g), Sums(f, B, h),
         NEW T \in SUBSET A, T \subseteq B
  PROVE  g[T] = h[T]
<1> DEFINE Bad == { U \in SUBSET A : U \subseteq B /\ g[U] # h[U] }
<1>1. SUFFICES ASSUME Bad # {} PROVE FALSE
  OBVIOUS
<1>2. PICK U \in Bad : \A V \in Bad : V \subseteq U => V = U
  <2>1. Bad \in SUBSET (SUBSET A)
    OBVIOUS
  <2> HIDE DEF Bad
  <2>2. QED
    BY <1>1, <2>1, LeastSet
<1>3. g[U] = IF U = {} THEN 0 ELSE f[First(U)] + g[U \ {First(U)}]
  BY DEF Sums
<1>4. h[U] = IF U = {} THEN 0 ELSE f[First(U)] + h[U \ {First(U)}]
  BY DEF Sums
<1>5. U # {} => g[U \ {First(U)}] = h[U \ {First(U)}]
  BY <1>2, FirstIn
<1>6. QED
  BY <1>2, <1>3, <1>4, <1>5

LEMMA SumsExist ==
  ASSUME NEW f, NEW S, IsFiniteSet(S)
  PROVE  \E g : Sums(f, S, g)
<1> DEFINE Bad == { T \in SUBSET S : ~ \E g : Sums(f, T, g) }
<1>1. SUFFICES ASSUME Bad # {} PROVE FALSE
  OBVIOUS
<1>2. PICK T \in Bad : \A U \in Bad : U \subseteq T => U = T
  <2>1. Bad \in SUBSET (SUBSET S)
    OBVIOUS
  <2> HIDE DEF Bad
  <2>2. QED
    BY <1>1, <2>1, LeastSet
<1> DEFINE h(U) == CHOOSE g : Sums(f, U, g)
           g == [s \in SUBSET T |->
                   IF s = {} THEN 0
                   ELSE f[First(s)] + h(s \ {First(s)})[s \ {First(s)}]]
<1>3. ASSUME NEW U \in SUBSET T, U # T PROVE Sums(f, U, h(U)) /\ IsFiniteSet(U)
  <2>1. U \in SUBSET S
    OBVIOUS
  <2>2. \E k : Sums(f, U, k)
    BY <1>2, <1>3, <2>1
  <2>3. QED
    BY <2>1, <2>2, FS_Subset
<1>4. ASSUME NEW s \in SUBSET T, s # {}
      PROVE  g[s \ {First(s)}] = h(s \ {First(s)})[s \ {First(s)}]
  <2> DEFINE u == s \ {First(s)}
             w == u \ {First(u)}
  <2>1. u \in SUBSET T /\ u # T
    BY <1>4, FirstIn
  <2>2. Sums(f, u, h(u)) /\ IsFiniteSet(u)
    BY <1>3, <2>1
  <2>3. h(u)[u] = IF u = {} THEN 0 ELSE f[First(u)] + h(u)[w]
    <3> HIDE DEF u, h
    <3>1. h(u) = [x \in SUBSET u |->
                    IF x = {} THEN 0 ELSE f[First(x)] + h(u)[x \ {First(x)}]]
      BY <2>2 DEF Sums
    <3>2. QED
      BY <3>1
  <2>4. u # {} => h(u)[w] = h(w)[w]
    <3>1. SUFFICES ASSUME u # {} PROVE h(u)[w] = h(w)[w]
      OBVIOUS
    <3>2. w \in SUBSET T /\ w # T /\ w \subseteq u
      BY <2>1, <3>1, FirstIn
    <3>3. Sums(f, w, h(w))
      BY <1>3, <3>2
    <3> HIDE DEF u, w, h
    <3>4. QED
      BY <2>2, <3>2, <3>3, SumsAgree
  <2>5. g[u] = IF u = {} THEN 0 ELSE f[First(u)] + h(w)[w]
    BY <2>1
  <2> HIDE DEF u, w, h, g
  <2>6. g[u] = h(u)[u]
    BY <2>3, <2>4, <2>5
  <2>7. QED
    BY <2>6 DEF u
<1>5. Sums(f, T, g)
  <2> DEFINE here(s) == IF s = {} THEN 0 ELSE f[First(s)] + h(s \ {First(s)})[s \ {First(s)}]
             there(s) == IF s = {} THEN 0 ELSE f[First(s)] + g[s \ {First(s)}]
  <2>1. g = [s \in SUBSET T |-> here(s)]
    OBVIOUS
  <2>2. \A s \in SUBSET T : here(s) = there(s)
    <3> HIDE DEF h, g
    <3>1. QED
      BY <1>4
  <2>3. Sums(f, T, g) <=> g = [s \in SUBSET T |-> there(s)]
    <3> HIDE DEF g
    <3>1. QED
      BY Zenon DEF Sums
  <2> HIDE DEF g, here, there
  <2>4. QED
    BY <2>1, <2>2, <2>3
<1>6. QED
  BY <1>2, <1>5

LEMMA SumStep ==
  ASSUME NEW f, NEW S, IsFiniteSet(S)
  PROVE  SumFunctionOnSet(f, S) =
           IF S = {} THEN 0 ELSE f[First(S)] + SumFunctionOnSet(f, S \ {First(S)})
<1> DEFINE g(T) == CHOOSE k : Sums(f, T, k)
<1>1. \A T : SumFunctionOnSet(f, T) = g(T)[T]
  BY DEF SumFunctionOnSet, FoldFunctionOnSet, MapThenFoldSet, Sums, First
<1>2. \A T \in SUBSET S : IsFiniteSet(T) /\ Sums(f, T, g(T))
  BY SumsExist, FS_Subset
<1> HIDE DEF g
<1>3. g(S)[S] = IF S = {} THEN 0 ELSE f[First(S)] + g(S)[S \ {First(S)}]
  <2>1. g(S) = [s \in SUBSET S |-> IF s = {} THEN 0 ELSE f[First(s)] + g(S)[s \ {First(s)}]]
    BY <1>2 DEF Sums
  <2>2. QED
    BY <2>1
<1>4. g(S)[S \ {First(S)}] = g(S \ {First(S)})[S \ {First(S)}]
  <2> DEFINE rest == S \ {First(S)}
  <2>1. rest \in SUBSET S /\ S \in SUBSET S
    OBVIOUS
  <2> HIDE DEF rest
  <2>2. Sums(f, S, g(S)) /\ Sums(f, rest, g(rest))
    BY <1>2, <2>1
  <2>3. g(S)[rest] = g(rest)[rest]
    BY <2>1, <2>2, SumsAgree
  <2>4. QED
    BY <2>3 DEF rest
<1>5. QED
  BY <1>1, <1>3, <1>4

LEMMA SumIsNat ==
  ASSUME NEW f, NEW S, IsFiniteSet(S), \A x \in S : f[x] \in Nat
  PROVE  SumFunctionOnSet(f, S) \in Nat
<1> DEFINE Bad == { T \in SUBSET S : SumFunctionOnSet(f, T) \notin Nat }
<1>1. SUFFICES ASSUME Bad # {} PROVE FALSE
  OBVIOUS
<1>2. PICK T \in Bad : \A U \in Bad : U \subseteq T => U = T
  <2>1. Bad \in SUBSET (SUBSET S)
    OBVIOUS
  <2> HIDE DEF Bad
  <2>2. QED
    BY <1>1, <2>1, LeastSet
<1>3. IsFiniteSet(T)
  BY FS_Subset
<1>4. T # {} => SumFunctionOnSet(f, T \ {First(T)}) \in Nat /\ f[First(T)] \in Nat
  BY <1>2, FirstIn
<1>5. SumFunctionOnSet(f, T) \in Nat
  <2>1. SumFunctionOnSet(f, T) =
          IF T = {} THEN 0 ELSE f[First(T)] + SumFunctionOnSet(f, T \ {First(T)})
    BY <1>3, SumStep
  <2>2. QED
    BY <1>4, <2>1
<1>6. QED
  BY <1>5

\* Any element may be the first to be added.
LEMMA SumTakesOut ==
  ASSUME NEW f, NEW S, IsFiniteSet(S), \A x \in S : f[x] \in Nat, NEW x \in S
  PROVE  SumFunctionOnSet(f, S) = f[x] + SumFunctionOnSet(f, S \ {x})
<1> DEFINE Bad == { T \in SUBSET S :
                      \E y \in T : SumFunctionOnSet(f, T) # f[y] + SumFunctionOnSet(f, T \ {y}) }
<1>1. SUFFICES ASSUME Bad # {} PROVE FALSE
  OBVIOUS
<1>2. PICK T \in Bad : \A U \in Bad : U \subseteq T => U = T
  <2>1. Bad \in SUBSET (SUBSET S)
    OBVIOUS
  <2> HIDE DEF Bad
  <2>2. QED
    BY <1>1, <2>1, LeastSet
<1>3. PICK y \in T : SumFunctionOnSet(f, T) # f[y] + SumFunctionOnSet(f, T \ {y})
  BY <1>2
<1> DEFINE c == First(T)
<1>4. IsFiniteSet(T) /\ c \in T
  BY <1>3, FS_Subset, FirstIn
<1>5. SumFunctionOnSet(f, T) = f[c] + SumFunctionOnSet(f, T \ {c})
  BY <1>3, <1>4, SumStep
<1> HIDE DEF c
<1>6. y # c
  BY <1>3, <1>5
<1>7. SumFunctionOnSet(f, T \ {c}) = f[y] + SumFunctionOnSet(f, (T \ {c}) \ {y})
  <2>1. T \ {c} \notin Bad /\ T \ {c} \in SUBSET S /\ y \in T \ {c}
    BY <1>2, <1>3, <1>4, <1>6
  <2>2. QED
    BY <2>1
<1>8. SumFunctionOnSet(f, T \ {y}) = f[c] + SumFunctionOnSet(f, (T \ {y}) \ {c})
  <2>1. T \ {y} \notin Bad /\ T \ {y} \in SUBSET S /\ c \in T \ {y}
    BY <1>2, <1>3, <1>4, <1>6
  <2>2. QED
    BY <2>1
<1>9. (T \ {c}) \ {y} = (T \ {y}) \ {c}
  OBVIOUS
<1>10. SumFunctionOnSet(f, (T \ {y}) \ {c}) \in Nat /\ f[y] \in Nat /\ f[c] \in Nat
  <2>1. IsFiniteSet((T \ {y}) \ {c})
    BY <1>4, FS_RemoveElement
  <2>2. QED
    BY <1>4, <2>1, SumIsNat
<1>11. QED
  <2>1. PICK n \in Nat : n = SumFunctionOnSet(f, (T \ {y}) \ {c})
    BY <1>10
  <2>2. SumFunctionOnSet(f, T \ {c}) = f[y] + n
    BY <1>7, <1>9, <2>1
  <2>3. SumFunctionOnSet(f, T \ {y}) = f[c] + n
    BY <1>8, <2>1
  <2>4. QED
    BY <1>3, <1>5, <1>10, <2>2, <2>3
---------------------------------------------------------------------------
(* Pairings *)

OneEach(m) == \A p, q \in m : p # q => p[1] # q[1] /\ p[2] # q[2]

\* A pairing has as many tracks, and as many faces, as it has pairs.
LEMMA PairsCounted ==
  ASSUME NEW m, IsFiniteSet(m), OneEach(m)
  PROVE  /\ IsFiniteSet(Left(m)) /\ Cardinality(Left(m)) = Cardinality(m)
         /\ IsFiniteSet(Right(m)) /\ Cardinality(Right(m)) = Cardinality(m)
<1>1. [p \in m |-> p[1]] \in Bijection(m, Left(m))
  BY DEF OneEach, Left, Bijection, Injection, IsInjective, Surjection
<1>2. [p \in m |-> p[2]] \in Bijection(m, Right(m))
  BY DEF OneEach, Right, Bijection, Injection, IsInjective, Surjection
<1>3. ExistsBijection(m, Left(m)) /\ ExistsBijection(m, Right(m))
  BY <1>1, <1>2 DEF ExistsBijection
<1>4. QED
  BY <1>3, FS_Bijection

\* What the search ranges over.
LEMMA PairingShape ==
  ASSUME NEW ts, NEW fs, IsFiniteSet(ts), IsFiniteSet(fs), NEW m
  PROVE  m \in Pairings(ts, fs) <=>
           /\ m \subseteq ts \X fs /\ IsFiniteSet(m) /\ OneEach(m)
           /\ Cardinality(m) = Smaller(Cardinality(ts), Cardinality(fs))
<1>1. IsFiniteSet(ts \X fs)
  BY FS_Product
<1>2. m \subseteq ts \X fs => IsFiniteSet(m)
  BY <1>1, FS_Subset
<1>3. QED
  BY <1>2 DEF Pairings, kSubset, OneEach

\* A pairing cannot be extended.
LEMMA PairingFull ==
  ASSUME NEW ts, NEW fs, IsFiniteSet(ts), IsFiniteSet(fs), NEW m \in Pairings(ts, fs),
         NEW p \in ts \X fs, p \notin m
  PROVE  \E q \in m : q[1] = p[1] \/ q[2] = p[2]
<1> DEFINE more == m \cup {p}
<1>1. SUFFICES ASSUME \A q \in m : q[1] # p[1] /\ q[2] # p[2] PROVE FALSE
  OBVIOUS
<1>2. m \subseteq ts \X fs /\ IsFiniteSet(m) /\ OneEach(m)
      /\ Cardinality(m) = Smaller(Cardinality(ts), Cardinality(fs))
  BY PairingShape
<1>3. IsFiniteSet(more) /\ Cardinality(more) = Cardinality(m) + 1
  BY <1>2, FS_AddElement
<1>4. OneEach(more) /\ Left(more) \in SUBSET ts /\ Right(more) \in SUBSET fs
  BY <1>1, <1>2 DEF OneEach, Left, Right
<1> HIDE DEF more
<1>5. Cardinality(Left(more)) = Cardinality(more) /\ Cardinality(Right(more)) = Cardinality(more)
  BY <1>3, <1>4, PairsCounted
<1>6. Cardinality(more) <= Cardinality(ts) /\ Cardinality(more) <= Cardinality(fs)
  BY <1>4, <1>5, FS_Subset
<1>7. Cardinality(ts) \in Nat /\ Cardinality(fs) \in Nat /\ Cardinality(m) \in Nat
  BY <1>2, FS_CardinalityType
<1>8. QED
  BY <1>2, <1>3, <1>6, <1>7 DEF Smaller

\* The exchange: whoever stands in the way of a pair that overlaps, while all
\* others of its track and face do not, can be moved for a larger total.
LEMMA Exchange ==
  ASSUME NEW ts, NEW fs, IsFiniteSet(ts), IsFiniteSet(fs), NEW m \in Pairings(ts, fs),
         NEW iou, \A r \in ts \X fs : iou[r] \in Nat,
         NEW p \in ts \X fs, p \notin m, iou[p] > 0,
         \A q \in ts \X fs : q # p /\ (q[1] = p[1] \/ q[2] = p[2]) => iou[q] = 0
  PROVE  \E better \in Pairings(ts, fs) :
            SumFunctionOnSet(iou, better) > SumFunctionOnSet(iou, m)
<1>0. m \subseteq ts \X fs /\ IsFiniteSet(m) /\ OneEach(m)
      /\ Cardinality(m) = Smaller(Cardinality(ts), Cardinality(fs))
  BY PairingShape
<1>1. \A s \in SUBSET (ts \X fs) :
        IsFiniteSet(s) => /\ SumFunctionOnSet(iou, s) \in Nat
                          /\ \A r \in s : SumFunctionOnSet(iou, s)
                                            = iou[r] + SumFunctionOnSet(iou, s \ {r})
  BY SumIsNat, SumTakesOut
<1>2. CASE \E q, r \in m : q # r /\ q[1] = p[1] /\ r[2] = p[2]
  <2>1. PICK q \in m, r \in m : q # r /\ q[1] = p[1] /\ r[2] = p[2]
    BY <1>2
  <2> DEFINE across == <<r[1], q[2]>>
             rest == (m \ {q}) \ {r}
             better == (rest \cup {p}) \cup {across}
  <2>2. /\ across \in ts \X fs /\ across[1] = r[1] /\ across[2] = q[2]
        /\ \A s \in rest : s \in ts \X fs /\ s[1] # q[1] /\ s[2] # q[2] /\ s[1] # r[1] /\ s[2] # r[2]
    BY <1>0, <2>1 DEF OneEach
  <2>3. q[2] # p[2] /\ r[1] # p[1]
    BY <1>0, <2>1 DEF OneEach
  <2>4. across \notin rest \cup {p} /\ p \notin rest
    BY <2>1, <2>2, <2>3
  <2>5. better \subseteq ts \X fs /\ OneEach(better)
    BY <1>0, <2>1, <2>2, <2>3 DEF OneEach
  <2>6. /\ IsFiniteSet(rest) /\ IsFiniteSet(better)
        /\ Cardinality(better) = Cardinality(m)
    <3>1. IsFiniteSet(m \ {q}) /\ Cardinality(m \ {q}) = Cardinality(m) - 1
      BY <1>0, FS_RemoveElement
    <3>2. IsFiniteSet(rest) /\ Cardinality(rest) = Cardinality(m \ {q}) - 1
      BY <2>1, <3>1, FS_RemoveElement
    <3>3. IsFiniteSet(rest \cup {p}) /\ Cardinality(rest \cup {p}) = Cardinality(rest) + 1
      BY <2>4, <3>2, FS_AddElement
    <3>4. IsFiniteSet(better) /\ Cardinality(better) = Cardinality(rest \cup {p}) + 1
      BY <2>4, <3>3, FS_AddElement
    <3>5. Cardinality(m) \in Nat
      BY <1>0, FS_CardinalityType
    <3>6. QED
      BY <3>1, <3>2, <3>3, <3>4, <3>5
  <2>7. SumFunctionOnSet(iou, m) = SumFunctionOnSet(iou, rest)
    <3>1. IsFiniteSet(m \ {q}) /\ r \in m \ {q}
      BY <1>0, <2>1, FS_RemoveElement
    <3>2. iou[q] = 0 /\ iou[r] = 0
      BY <1>0, <2>1, <2>3
    <3>3. SumFunctionOnSet(iou, m) = 0 + SumFunctionOnSet(iou, m \ {q})
      BY <1>0, <1>1, <3>2
    <3>4. SumFunctionOnSet(iou, m \ {q}) = 0 + SumFunctionOnSet(iou, rest)
      BY <1>0, <1>1, <3>1, <3>2
    <3>5. SumFunctionOnSet(iou, rest) \in Nat
      BY <1>0, <1>1, <2>6
    <3>6. QED
      BY <3>3, <3>4, <3>5
  <2>8. SumFunctionOnSet(iou, better) = iou[across] + (iou[p] + SumFunctionOnSet(iou, rest))
    <3>1. rest \cup {p} = better \ {across} /\ rest = (rest \cup {p}) \ {p}
      BY <2>4
    <3>2. IsFiniteSet(rest \cup {p}) /\ rest \cup {p} \in SUBSET (ts \X fs)
      BY <2>5, <2>6, FS_AddElement
    <3> HIDE DEF rest
    <3>3. SumFunctionOnSet(iou, better) = iou[across] + SumFunctionOnSet(iou, rest \cup {p})
      <4>1. across \in better /\ better \in SUBSET (ts \X fs)
        BY <2>5
      <4> HIDE DEF better
      <4>2. SumFunctionOnSet(iou, better) = iou[across] + SumFunctionOnSet(iou, better \ {across})
        BY <1>1, <2>6, <4>1
      <4>3. QED
        BY <3>1, <4>2
    <3>4. SumFunctionOnSet(iou, rest \cup {p}) = iou[p] + SumFunctionOnSet(iou, rest)
      <4>1. SumFunctionOnSet(iou, rest \cup {p})
              = iou[p] + SumFunctionOnSet(iou, (rest \cup {p}) \ {p})
        BY <1>1, <3>2
      <4>2. QED
        BY <3>1, <4>1
    <3>5. QED
      BY <3>3, <3>4
  <2>9. better \in Pairings(ts, fs)
    <3> HIDE DEF better
    <3>1. QED
      BY <1>0, <2>5, <2>6, PairingShape
  <2>10. SumFunctionOnSet(iou, rest) \in Nat /\ iou[across] \in Nat /\ iou[p] \in Nat
    BY <1>0, <1>1, <2>2, <2>6
  <2> HIDE DEF better, rest, across
  <2>11. QED
    BY <2>7, <2>8, <2>9, <2>10
<1>3. CASE ~ \E q, r \in m : q # r /\ q[1] = p[1] /\ r[2] = p[2]
  <2>1. PICK q \in m : q[1] = p[1] \/ q[2] = p[2]
    BY PairingFull
  <2>2. \A s \in m : s[1] = p[1] \/ s[2] = p[2] => s = q
    BY <1>0, <1>3, <2>1 DEF OneEach
  <2> DEFINE rest == m \ {q}
             better == rest \cup {p}
  <2>3. better \subseteq ts \X fs /\ OneEach(better) /\ p \notin rest
    BY <1>0, <2>2 DEF OneEach
  <2>4. /\ IsFiniteSet(rest) /\ IsFiniteSet(better)
        /\ Cardinality(better) = Cardinality(m)
    <3>1. IsFiniteSet(rest) /\ Cardinality(rest) = Cardinality(m) - 1
      BY <1>0, FS_RemoveElement
    <3>2. IsFiniteSet(better) /\ Cardinality(better) = Cardinality(rest) + 1
      BY <2>3, <3>1, FS_AddElement
    <3>3. Cardinality(m) \in Nat
      BY <1>0, FS_CardinalityType
    <3>4. QED
      BY <3>1, <3>2, <3>3
  <2>5. SumFunctionOnSet(iou, m) = 0 + SumFunctionOnSet(iou, rest)
    <3>1. iou[q] = 0
      BY <1>0, <2>1
    <3>2. QED
      BY <1>0, <1>1, <3>1
  <2>6. SumFunctionOnSet(iou, better) = iou[p] + SumFunctionOnSet(iou, rest)
    <3>1. rest = better \ {p} /\ p \in better /\ better \in SUBSET (ts \X fs)
      BY <2>3
    <3> HIDE DEF better, rest
    <3>2. SumFunctionOnSet(iou, better) = iou[p] + SumFunctionOnSet(iou, better \ {p})
      BY <1>1, <2>4, <3>1
    <3>3. QED
      BY <3>1, <3>2
  <2>7. better \in Pairings(ts, fs)
    <3> HIDE DEF better
    <3>1. QED
      BY <1>0, <2>3, <2>4, PairingShape
  <2>8. SumFunctionOnSet(iou, rest) \in Nat /\ iou[p] \in Nat
    BY <1>0, <1>1, <2>4
  <2> HIDE DEF better, rest
  <2>9. QED
    BY <2>5, <2>6, <2>7, <2>8
<1>4. QED
  BY <1>2, <1>3

\* No assignment can take a face from the only track it overlaps.
LEMMA ClearPairKept ==
  ASSUME NEW ts, NEW fs, IsFiniteSet(ts), IsFiniteSet(fs),
         NEW iou, \A r \in ts \X fs : iou[r] \in Nat,
         NEW p \in ts \X fs, iou[p] >= MatchIou,
         \A q \in ts \X fs : q # p /\ (q[1] = p[1] \/ q[2] = p[2]) => iou[q] = 0,
         NEW m \in Associations(ts, fs, iou)
  PROVE  p \in m
<1>1. PICK best \in Pairings(ts, fs) :
        /\ \A other \in Pairings(ts, fs) :
              SumFunctionOnSet(iou, other) <= SumFunctionOnSet(iou, best)
        /\ m = { q \in best : iou[q] >= MatchIou }
  BY DEF Associations
<1>2. iou[p] > 0
  BY TrackerAssumption
<1>3. p \in best
  <2>1. SUFFICES ASSUME p \notin best PROVE FALSE
    OBVIOUS
  <2>2. PICK better \in Pairings(ts, fs) :
          SumFunctionOnSet(iou, better) > SumFunctionOnSet(iou, best)
    BY <1>2, <2>1, Exchange
  <2>3. \A s \in Pairings(ts, fs) : SumFunctionOnSet(iou, s) \in Nat
    BY PairingShape, SumIsNat
  <2>4. QED
    BY <1>1, <2>2, <2>3
<1>4. QED
  BY <1>1, <1>3

---------------------------------------------------------------------------
(* A frame *)

LEMMA SceneShape ==
  ASSUME TypeOK, NEW scene \in Scenes
  PROVE  /\ IsFiniteSet(Alive) /\ IsFiniteSet(Detected(scene))
         /\ Detected(scene) \subseteq Faces(scene)
         /\ \A r \in Alive \X Detected(scene) : scene.iou[r] \in Nat
<1>1. PICK n \in 0..MaxFaces :
        scene \in [score : [1..n -> Scores], iou : [Alive \X (1..n) -> Overlaps]]
  BY Zenon DEF Scenes
<1>2. Detected(scene) \in SUBSET (1..n) /\ Faces(scene) = 1..n
  BY <1>1 DEF Detected, Faces
<1>3. IsFiniteSet(1..n) /\ IsFiniteSet(1..(nextId - 1)) /\ Alive \in SUBSET (1..(nextId - 1))
  BY TrackerAssumption, FS_Interval DEF TypeOK
<1>4. IsFiniteSet(Alive) /\ IsFiniteSet(Detected(scene))
  BY <1>2, <1>3, FS_Subset
<1>5. \A r \in Alive \X Detected(scene) : scene.iou[r] \in Nat
  BY <1>1, <1>2, TrackerAssumption
<1>6. QED
  BY <1>2, <1>4, <1>5

\* Every detected face counts as strong, so the second association has no face
\* left to assign.
LEMMA FrameOpened ==
  ASSUME TypeOK, Frame
  PROVE  \E scene \in Scenes : \E m \in Associations(Alive, Detected(scene), scene.iou) :
            /\ Update(Left(m), NewIds(Cardinality(Detected(scene) \ Right(m))))
            /\ clear' = Clear(scene) /\ met' = Cardinality(Detected(scene))
<1>1. PICK scene \in Scenes :
        LET high == { f \in Detected(scene) : scene.score[f] = "good" }
            low == Detected(scene) \ high
        IN  \E m1 \in Associations(Alive, high, scene.iou) :
            \E m2 \in Associations(Alive \ Left(m1), low, scene.iou) :
               /\ Update(Left(m1) \cup Left(m2), NewIds(Cardinality(high \ Right(m1))))
               /\ clear' = Clear(scene)
               /\ met' = Cardinality(Detected(scene))
  BY DEF Frame
<1>2. { f \in Detected(scene) : scene.score[f] = "good" } = Detected(scene)
  BY DEF Detected
<1>3. PICK m1 \in Associations(Alive, Detected(scene), scene.iou) :
        \E m2 \in Associations(Alive \ Left(m1), Detected(scene) \ Detected(scene), scene.iou) :
           /\ Update(Left(m1) \cup Left(m2), NewIds(Cardinality(Detected(scene) \ Right(m1))))
           /\ clear' = Clear(scene)
           /\ met' = Cardinality(Detected(scene))
  BY <1>1, <1>2
<1>4. PICK m2 \in Associations(Alive \ Left(m1), Detected(scene) \ Detected(scene), scene.iou) :
           /\ Update(Left(m1) \cup Left(m2), NewIds(Cardinality(Detected(scene) \ Right(m1))))
           /\ clear' = Clear(scene)
           /\ met' = Cardinality(Detected(scene))
  BY <1>3
<1>5. Left(m1) \cup Left(m2) = Left(m1)
  <2>1. m2 \subseteq (Alive \ Left(m1)) \X {}
    BY DEF Associations, Pairings, kSubset
  <2>2. m2 = {}
    BY <2>1
  <2>3. QED
    BY <2>2 DEF Left
<1>6. QED
  BY <1>4, <1>5

\* An assignment pairs tracks with faces, no one twice.
LEMMA AssociationShape ==
  ASSUME TypeOK, NEW scene \in Scenes, NEW m \in Associations(Alive, Detected(scene), scene.iou)
  PROVE  /\ m \subseteq Alive \X Detected(scene) /\ IsFiniteSet(m) /\ OneEach(m)
         /\ Left(m) \subseteq Alive /\ Right(m) \subseteq Detected(scene)
<1>1. PICK best \in Pairings(Alive, Detected(scene)) : m \in SUBSET best
  BY DEF Associations
<1>2. best \subseteq Alive \X Detected(scene) /\ IsFiniteSet(best) /\ OneEach(best)
  BY SceneShape, PairingShape
<1>3. IsFiniteSet(m)
  BY <1>1, <1>2, FS_Subset
<1>4. QED
  BY <1>1, <1>2, <1>3 DEF OneEach, Left, Right

\* What a track becomes in one frame.
LEMMA TrackStep ==
  ASSUME TypeOK, NEW matched, NEW new, NEW t \in Alive \cup new,
         NEW track, track = Confirmed(IF t \in new THEN Fresh ELSE Advanced(t, matched)),
         ~Lost(track)
  PROVE  track \in Track /\ track.saved = IF t \in new THEN 0 ELSE tracks[t].saved
<1> USE TrackerAssumption
<1> DEFINE before == IF t \in new THEN Fresh ELSE Advanced(t, matched)
<1>1. /\ before.hits \in 1..MinHits /\ before.missed \in Nat
      /\ before.state \in {"tentative", "confirmed"} /\ before.saved \in 0..MaxClock
      /\ before.saved = IF t \in new THEN 0 ELSE tracks[t].saved
      /\ before = [hits |-> before.hits, missed |-> before.missed, state |-> before.state,
                   saved |-> before.saved]
  <2>1. CASE t \in new
    BY <2>1 DEF Fresh, TypeOK
  <2>2. CASE t \notin new
    <3>1. tracks[t] \in Track
      BY <2>2 DEF TypeOK
    <3>2. CASE t \in matched
      <4>1. before = [tracks[t] EXCEPT !.hits = Smaller(@ + 1, MinHits), !.missed = 0]
        BY <2>2, <3>2 DEF Advanced
      <4>2. Smaller(tracks[t].hits + 1, MinHits) \in 1..MinHits
        BY <3>1 DEF Track, Smaller
      <4> HIDE DEF before
      <4>3. QED
        BY <2>2, <3>1, <4>1, <4>2 DEF Track
    <3>3. CASE t \notin matched
      <4>1. before = [tracks[t] EXCEPT !.missed = @ + 1]
        BY <2>2, <3>3 DEF Advanced
      <4> HIDE DEF before
      <4>2. QED
        BY <2>2, <3>1, <4>1 DEF Track
    <3>4. QED
      BY <3>2, <3>3
  <2>3. QED
    BY <2>1, <2>2
<1>2. /\ track.hits = before.hits /\ track.missed = before.missed /\ track.saved = before.saved
      /\ track.state \in {"tentative", "confirmed"}
      /\ track = [hits |-> track.hits, missed |-> track.missed, state |-> track.state,
                  saved |-> track.saved]
  BY <1>1 DEF Confirmed
<1>3. track.missed <= MaxLost
  BY <1>1, <1>2 DEF Lost
<1>4. QED
  BY <1>1, <1>2, <1>3 DEF Track

\* What a frame does to the tracks, in terms the capture policy can use.
LEMMA FrameStep ==
  ASSUME TypeOK, Frame
  PROVE  /\ nextId' \in nextId..(MaxTracks + 1)
         /\ DOMAIN tracks' \subseteq Alive \cup (nextId..(nextId' - 1))
         /\ tracks' \in [DOMAIN tracks' -> Track]
         /\ \A t \in DOMAIN tracks' :
               tracks'[t].saved = IF t \in Alive THEN tracks[t].saved ELSE 0
         /\ todo' \subseteq DOMAIN tracks'
         /\ clear' \subseteq Ids /\ met' \in Nat
         /\ KeepsIdentity' /\ OneTrackPerFace'
<1> USE TrackerAssumption
<1>0. PICK scene \in Scenes : \E m \in Associations(Alive, Detected(scene), scene.iou) :
        /\ Update(Left(m), NewIds(Cardinality(Detected(scene) \ Right(m))))
        /\ clear' = Clear(scene) /\ met' = Cardinality(Detected(scene))
  BY FrameOpened
<1>1. PICK m \in Associations(Alive, Detected(scene), scene.iou) :
        /\ Update(Left(m), NewIds(Cardinality(Detected(scene) \ Right(m))))
        /\ clear' = Clear(scene) /\ met' = Cardinality(Detected(scene))
  BY <1>0
<1> DEFINE matched == Left(m)
           count == Cardinality(Detected(scene) \ Right(m))
           new == NewIds(count)
           next == [t \in Alive \cup new |->
                      Confirmed(IF t \in new THEN Fresh ELSE Advanced(t, matched))]
<1>2. /\ m \subseteq Alive \X Detected(scene) /\ IsFiniteSet(m) /\ OneEach(m)
      /\ matched \subseteq Alive /\ Right(m) \in SUBSET Detected(scene)
      /\ IsFiniteSet(Detected(scene)) /\ IsFiniteSet(Alive)
      /\ count \in Nat
  BY AssociationShape, SceneShape, FS_Difference, FS_CardinalityType
<1>3. new = nextId..(nextId + count - 1) /\ Cardinality(new) = count
  BY <1>2, FS_Interval DEF NewIds, TypeOK
<1>4. /\ new \subseteq Ids
      /\ nextId' = nextId + count
      /\ tracks' = Restrict(next, { t \in Alive \cup new : ~Lost(next[t]) })
      /\ todo' = { t \in DOMAIN tracks' :
                     tracks'[t].state = "confirmed" /\ tracks'[t].missed = 0 }
  BY <1>1, <1>3 DEF Update
<1>13. met' = Cardinality(matched) + count
  <2>1. Cardinality(matched) = Cardinality(m) /\ Cardinality(Right(m)) = Cardinality(m)
    BY <1>2, PairsCounted
  <2>2. count = Cardinality(Detected(scene)) - Cardinality(Detected(scene) \cap Right(m))
    BY <1>2, FS_Difference
  <2>3. Detected(scene) \cap Right(m) = Right(m)
    BY <1>2
  <2>4. Cardinality(Detected(scene)) \in Nat /\ Cardinality(m) \in Nat
    BY <1>2, FS_CardinalityType
  <2> HIDE DEF count, matched, new, next
  <2>5. QED
    BY <1>1, <2>1, <2>2, <2>3, <2>4
<1>14. clear' \subseteq matched
  <2>1. ASSUME NEW p \in Alive \X Detected(scene), scene.iou[p] >= MatchIou,
               \A q \in Alive \X Faces(scene) :
                  (q # p /\ (q[1] = p[1] \/ q[2] = p[2])) => scene.iou[q] = 0
        PROVE  p \in m
    <3>1. \A q \in Alive \X Detected(scene) :
             q # p /\ (q[1] = p[1] \/ q[2] = p[2]) => scene.iou[q] = 0
      BY <2>1, SceneShape
    <3>2. \A r \in Alive \X Detected(scene) : scene.iou[r] \in Nat
      BY SceneShape
    <3>3. QED
      BY <1>2, <2>1, <3>1, <3>2, ClearPairKept
  <2>2. QED
    BY <1>1, <2>1 DEF Clear, Left
<1> HIDE DEF new, count, matched
<1>5. nextId' \in nextId..(MaxTracks + 1)
  <2>1. nextId \in 1..(MaxTracks + 1)
    BY DEF TypeOK
  <2>2. CASE count = 0
    BY <1>4, <2>1, <2>2
  <2>3. CASE count # 0
    <3>1. nextId + count - 1 \in Ids
      BY <1>2, <1>3, <1>4, <2>1, <2>3
    <3>2. QED
      BY <1>2, <1>4, <2>1, <3>1 DEF Ids
  <2>4. QED
    BY <2>2, <2>3
<1>6. ASSUME NEW t \in DOMAIN tracks'
      PROVE  /\ t \in Alive \cup new
             /\ tracks'[t] \in Track
             /\ tracks'[t].saved = IF t \in Alive THEN tracks[t].saved ELSE 0
  <2>1. t \in Alive \cup new /\ tracks'[t] = next[t] /\ ~Lost(next[t])
    BY <1>4, <1>6 DEF Restrict
  <2>2. next[t] = Confirmed(IF t \in new THEN Fresh ELSE Advanced(t, matched))
    BY <2>1
  <2>3. t \in new => t \notin Alive
    BY <1>2, <1>3 DEF TypeOK
  <2> HIDE DEF next
  <2>4. next[t] \in Track /\ next[t].saved = IF t \in new THEN 0 ELSE tracks[t].saved
    BY <2>1, <2>2, TrackStep
  <2>5. QED
    BY <2>1, <2>3, <2>4
<1>7. tracks' \in [DOMAIN tracks' -> Track]
  <2>1. tracks' = [t \in DOMAIN tracks' |-> tracks'[t]]
    BY <1>4 DEF Restrict
  <2>2. QED
    BY <1>6, <2>1
<1>8. DOMAIN tracks' \subseteq Alive \cup (nextId..(nextId' - 1))
  <2>1. nextId' - 1 = nextId + count - 1
    BY <1>2, <1>4 DEF TypeOK
  <2>2. QED
    BY <1>3, <1>6, <2>1
<1>9. clear' \subseteq Ids
  <2>1. Alive \subseteq Ids
    BY DEF TypeOK, Ids
  <2>2. QED
    BY <1>1, <2>1 DEF Clear
<1>10. met' \in Nat
  BY <1>1, <1>2, FS_CardinalityType
<1>11. todo' \subseteq DOMAIN tracks'
  BY <1>4
<1>15. \A t : t \in DOMAIN tracks' /\ tracks'[t].missed = 0 <=> t \in matched \cup new
  <2>1. ASSUME NEW t \in Alive \cup new
        PROVE  /\ t \in matched \cup new => next[t].missed = 0 /\ ~Lost(next[t])
               /\ t \notin matched \cup new => next[t].missed # 0
    <3> DEFINE before == IF t \in new THEN Fresh ELSE Advanced(t, matched)
    <3>1. next[t] = Confirmed(before)
      OBVIOUS
    <3>2. t \notin new => tracks[t] \in Track
      BY DEF TypeOK
    <3>3. IF t \in matched \cup new THEN before.missed = 0 ELSE before.missed \in Nat \ {0}
      BY <3>2 DEF Fresh, Advanced, Track
    <3> HIDE DEF before, next
    <3>4. next[t].missed = before.missed
      <4>1. before = [hits |-> before.hits, missed |-> before.missed, state |-> before.state,
                      saved |-> before.saved]
        <5>1. CASE t \in new
          BY <5>1 DEF before, Fresh
        <5>2. CASE t \notin new /\ t \in matched
          BY <3>2, <5>2 DEF before, Advanced, Track
        <5>3. CASE t \notin new /\ t \notin matched
          BY <3>2, <5>3 DEF before, Advanced, Track
        <5>4. QED
          BY <5>1, <5>2, <5>3
      <4>2. QED
        BY <3>1, <4>1 DEF Confirmed, Fresh
    <3>5. QED
      BY <3>3, <3>4 DEF Lost
  <2>2. DOMAIN tracks' = { t \in Alive \cup new : ~Lost(next[t]) }
        /\ \A t \in DOMAIN tracks' : tracks'[t] = next[t]
    BY <1>4 DEF Restrict
  <2> HIDE DEF next
  <2>3. QED
    BY <1>2, <2>1, <2>2
<1>16. KeepsIdentity'
  BY <1>14, <1>15 DEF KeepsIdentity, Alive
<1>17. OneTrackPerFace'
  <2>1. { t \in DOMAIN tracks' : tracks'[t].missed = 0 } = matched \cup new
    BY <1>15
  <2>2. IsFiniteSet(matched) /\ IsFiniteSet(new) /\ Cardinality(new) = count
    <3>1. IsFiniteSet(matched)
      BY <1>2, FS_Subset
    <3>2. IsFiniteSet(new)
      BY <1>2, <1>3, FS_Interval DEF TypeOK
    <3>3. QED
      BY <1>3, <3>1, <3>2
  <2>3. matched \cap new = {}
    BY <1>2, <1>3 DEF TypeOK
  <2>4. Cardinality(matched \cup new) = Cardinality(matched) + count
    <3>1. Cardinality(matched \cup new) = Cardinality(matched) + Cardinality(new) - Cardinality({})
      BY <2>2, <2>3, FS_Union
    <3>2. Cardinality(matched) \in Nat
      BY <2>2, FS_CardinalityType
    <3>3. QED
      BY <1>2, <2>2, <3>1, <3>2, FS_EmptySet
  <2>5. QED
    BY <1>13, <2>1, <2>4 DEF OneTrackPerFace, Alive
<1>12. QED
  BY <1>5, <1>6, <1>7, <1>8, <1>9, <1>10, <1>11, <1>16, <1>17

---------------------------------------------------------------------------
(* Types and the timer *)

LEMMA TypedStep ==
  ASSUME TypeOK, [Next]_vars
  PROVE  TypeOK'
<1> USE TrackerAssumption
<1>1. CASE Frame
  <2>1. nextId' \in 1..(MaxTracks + 1) /\ DOMAIN tracks' \subseteq 1..(nextId' - 1)
    BY <1>1, FrameStep DEF TypeOK
  <2>2. UNCHANGED <<clock, shotAt, faulted>>
    BY <1>1 DEF Frame
  <2>3. QED
    BY <1>1, <2>1, <2>2, FrameStep DEF TypeOK, Alive
<1>2. CASE Tick
  BY <1>2 DEF Tick, TypeOK, Alive, history
<1>3. ASSUME NEW t \in todo, NEW at \in 0..MaxClock, tracks' = [tracks EXCEPT ![t].saved = at]
      PROVE  DOMAIN tracks' = Alive /\ tracks' \in [Alive -> Track]
  <2>1. t \in Alive /\ tracks[t] \in Track
    BY <1>3 DEF TypeOK
  <2>2. [tracks[t] EXCEPT !.saved = at] \in Track
    BY <2>1 DEF Track
  <2>3. QED
    BY <1>3, <2>1, <2>2 DEF TypeOK, Alive
<1>4. ASSUME NEW t \in todo, Policy(t) PROVE TypeOK'
  <2>1. t \in Ids /\ clock \in 0..MaxClock /\ 0 \in 0..MaxClock
    BY DEF TypeOK, Ids
  <2>2. CASE PassOver(t)
    BY <2>2 DEF PassOver, TypeOK, Alive, history
  <2>3. CASE Capture(t)
    BY <1>3, <2>1, <2>3 DEF Capture, TypeOK, Alive
  <2>4. CASE QueueFull(t)
    BY <1>3, <2>1, <2>4 DEF QueueFull, TypeOK, Alive
  <2>5. CASE CaptureFails(t)
    <3>1. CASE UNCHANGED <<tracks, faulted>>
      BY <2>5, <3>1 DEF CaptureFails, TypeOK, Alive
    <3>2. CASE tracks' = [tracks EXCEPT ![t].saved = clock] /\ faulted' = faulted \cup {t}
      BY <1>3, <2>1, <2>5, <3>2 DEF CaptureFails, TypeOK, Alive
    <3>3. QED
      BY <2>5, <3>1, <3>2 DEF CaptureFails
  <2>6. QED
    BY <1>4, <2>2, <2>3, <2>4, <2>5 DEF Policy
<1>5. CASE UNCHANGED vars
  BY <1>5 DEF vars, history, TypeOK, Alive
<1>6. QED
  BY <1>1, <1>2, <1>4, <1>5 DEF Next

LEMMA Started == Init => TypeOK
<1> SUFFICES ASSUME Init PROVE TypeOK
  OBVIOUS
<1>1. Alive = {} /\ tracks \in [Alive -> Track]
  BY DEF Init, Alive
<1>2. QED
  BY <1>1, TrackerAssumption DEF Init, TypeOK

\* Every variable keeps its type; no track outlives its missed frames
\* (tracker.py:133-145).
THEOREM Typing == Spec => []TypeOK
  BY Started, TypedStep, PTL DEF Spec

\* The timer of a track bounds when it was last captured; ids not given yet
\* have never been.
Timer(t) ==
    IF tracks[t].saved # 0
      THEN tracks[t].saved >= shotAt[t] /\ tracks[t].saved <= clock
      ELSE shotAt[t] # 0 => clock >= shotAt[t] + Interval

TimerInv ==
    /\ \A t \in Alive : Timer(t)
    /\ \A t \in Ids : t >= nextId => shotAt[t] = 0

LEMMA FrameKeepsTimer ==
  ASSUME TypeOK, Frame
  PROVE  /\ UNCHANGED <<clock, shotAt, faulted>>
         /\ nextId' >= nextId
         /\ \A t \in DOMAIN tracks' :
               \/ t \in Alive /\ tracks'[t].saved = tracks[t].saved
               \/ t \in Ids /\ t >= nextId /\ tracks'[t].saved = 0
<1> USE TrackerAssumption
<1>1. nextId \in 1..(MaxTracks + 1) /\ Alive \subseteq Ids
  BY DEF TypeOK, Ids
<1>2. nextId' >= nextId /\ nextId..(nextId' - 1) \subseteq Ids
  BY <1>1, FrameStep DEF Ids
<1>3. ASSUME NEW t \in DOMAIN tracks', t \notin Alive
      PROVE  t \in Ids /\ t >= nextId
  BY <1>1, <1>2, <1>3, FrameStep
<1>4. UNCHANGED <<clock, shotAt, faulted>>
  BY DEF Frame
<1>5. QED
  BY <1>2, <1>3, <1>4, FrameStep

\* What each step of the policy does to the timers.
LEMMA PolicySteps ==
  ASSUME TypeOK, NEW t \in todo, Policy(t)
  PROVE  /\ UNCHANGED <<clock, nextId>> /\ DOMAIN tracks' = Alive /\ t \in Alive
         /\ \A u \in Alive \ {t} : tracks'[u].saved = tracks[u].saved
         /\ \A u \in Ids \ {t} : shotAt'[u] = shotAt[u]
         /\ \A u \in Ids \ {t} : u \in faulted' <=> u \in faulted
         /\ \/ tracks'[t].saved = tracks[t].saved /\ shotAt' = shotAt /\ faulted' = faulted
            \/ Due(t) /\ tracks'[t].saved = clock /\ shotAt'[t] = clock
            \/ Due(t) /\ tracks'[t].saved = 0 /\ shotAt' = shotAt
            \/ Due(t) /\ tracks'[t].saved = clock /\ shotAt' = shotAt /\ t \in faulted'
<1>1. t \in Alive /\ t \in Ids
  BY TrackerAssumption DEF TypeOK, Ids
<1>2. CASE PassOver(t)
  BY <1>1, <1>2 DEF PassOver, history, Alive
<1>3. ASSUME NEW at, tracks' = [tracks EXCEPT ![t].saved = at]
      PROVE  /\ DOMAIN tracks' = Alive /\ tracks'[t].saved = at
             /\ \A u \in Alive \ {t} : tracks'[u].saved = tracks[u].saved
  <2>1. tracks[t] \in Track
    BY <1>1 DEF TypeOK
  <2>2. [tracks[t] EXCEPT !.saved = at].saved = at
    BY <2>1 DEF Track
  <2>3. QED
    BY <1>1, <1>3, <2>2 DEF TypeOK, Alive
<1>4. CASE Capture(t)
  BY <1>1, <1>3, <1>4 DEF Capture, TypeOK
<1>5. CASE QueueFull(t)
  BY <1>1, <1>3, <1>5 DEF QueueFull, TypeOK
<1>6. CASE CaptureFails(t)
  <2>1. CASE UNCHANGED <<tracks, faulted>>
    BY <1>1, <1>6, <2>1 DEF CaptureFails, Alive
  <2>2. CASE tracks' = [tracks EXCEPT ![t].saved = clock] /\ faulted' = faulted \cup {t}
    BY <1>1, <1>3, <1>6, <2>2 DEF CaptureFails
  <2>3. QED
    BY <1>6, <2>1, <2>2 DEF CaptureFails
<1>7. QED
  BY <1>2, <1>4, <1>5, <1>6 DEF Policy

LEMMA TimerStep ==
  ASSUME TypeOK, TimerInv, [Next]_vars
  PROVE  TimerInv'
<1> USE TrackerAssumption
<1>1. clock \in Nat \ {0} /\ \A t \in Ids : shotAt[t] \in Nat
  BY DEF TypeOK
<1>2. Alive \subseteq Ids /\ \A t \in Alive : tracks[t].saved \in Nat /\ t < nextId
  BY DEF TypeOK, Ids, Track
<1>3. CASE Frame
  <2>1. ASSUME NEW t \in DOMAIN tracks' PROVE Timer(t)'
    <3>1. CASE t \in Alive /\ tracks'[t].saved = tracks[t].saved
      BY <1>3, <3>1, FrameKeepsTimer DEF TimerInv, Timer
    <3>2. CASE t \in Ids /\ t >= nextId /\ tracks'[t].saved = 0
      BY <1>3, <3>2, FrameKeepsTimer DEF TimerInv, Timer
    <3>3. QED
      BY <1>3, <2>1, <3>1, <3>2, FrameKeepsTimer
  <2>2. ASSUME NEW t \in Ids, t >= nextId' PROVE shotAt'[t] = 0
    <3>0. nextId \in 1..(MaxTracks + 1) /\ nextId' \in nextId..(MaxTracks + 1)
      BY <1>3, FrameStep DEF TypeOK
    <3>1. nextId \in Nat /\ nextId' \in Nat /\ nextId' >= nextId /\ t \in Nat
      BY <3>0 DEF Ids
    <3>2. t >= nextId
      BY <2>2, <3>1
    <3>3. QED
      BY <1>3, <3>2, FrameKeepsTimer DEF TimerInv
  <2>3. QED
    BY <2>1, <2>2 DEF TimerInv, Alive
<1>4. CASE Tick
  <2>1. clock' = clock + 1 /\ UNCHANGED <<tracks, nextId, shotAt>>
    BY <1>4 DEF Tick, history
  <2>2. ASSUME NEW t \in Alive PROVE Timer(t)'
    BY <1>1, <1>2, <2>1 DEF TimerInv, Timer
  <2>3. QED
    BY <2>1, <2>2 DEF TimerInv, Alive
<1>5. ASSUME NEW t \in todo, Policy(t) PROVE TimerInv'
  <2>1. ASSUME NEW u \in Alive, u # t PROVE Timer(u)'
    BY <1>2, <1>5, <2>1, PolicySteps DEF TimerInv, Timer
  <2>2. Timer(t)'
    <3>1. t \in Alive /\ Timer(t)
      BY <1>5, PolicySteps DEF TimerInv
    <3>2. Due(t) /\ shotAt[t] # 0 => clock >= shotAt[t] + Interval
      BY <1>1, <1>2, <3>1 DEF Due, Timer
    <3>3. shotAt[t] <= clock
      BY <1>1, <1>2, <3>1 DEF Timer
    <3>4. QED
      BY <1>1, <1>2, <1>5, <3>1, <3>2, <3>3, PolicySteps DEF Timer
  <2>3. ASSUME NEW u \in Ids, u >= nextId' PROVE shotAt'[u] = 0
    <3>1. t \in Alive /\ nextId' = nextId
      BY <1>5, PolicySteps
    <3>2. nextId \in Nat /\ t \in Nat /\ u \in Nat /\ t < nextId
      BY <1>2, <3>1 DEF TypeOK, Ids
    <3>3. u # t
      BY <2>3, <3>1, <3>2
    <3>4. QED
      BY <1>5, <2>3, <3>1, <3>3, PolicySteps DEF TimerInv
  <2>4. QED
    BY <1>5, <2>1, <2>2, <2>3, PolicySteps DEF TimerInv, Alive
<1>6. CASE UNCHANGED vars
  BY <1>6 DEF vars, history, TimerInv, Timer, Alive
<1>7. QED
  BY <1>3, <1>4, <1>5, <1>6 DEF Next

LEMMA TimerHolds == Spec => [](TypeOK /\ TimerInv)
<1>1. Init => TimerInv
  BY TrackerAssumption DEF Init, TimerInv, Alive, Timer
<1>2. TypeOK /\ TimerInv /\ [Next]_vars => (TypeOK /\ TimerInv)'
  BY TypedStep, TimerStep
<1>3. QED
  BY Started, <1>1, <1>2, PTL DEF Spec

\* However often the queue refuses a capture, captures of one track are at
\* least the interval apart (workers.py:144-191, CONFIGURATION.md:40).
THEOREM CapturesSpaced == Spec => Spaced
<1>1. ASSUME TypeOK, TimerInv, [Next]_vars, NEW t \in Ids,
             shotAt'[t] # shotAt[t], shotAt[t] # 0
      PROVE  shotAt'[t] >= shotAt[t] + Interval
  <2> USE TrackerAssumption
  <2>1. CASE Frame
    BY <1>1, <2>1, FrameKeepsTimer
  <2>2. CASE Tick \/ UNCHANGED vars
    BY <1>1, <2>2 DEF Tick, vars, history
  <2>3. ASSUME NEW u \in todo, Policy(u) PROVE shotAt'[t] >= shotAt[t] + Interval
    <3>1. u = t /\ t \in Alive /\ Due(t) /\ shotAt'[t] = clock
      BY <1>1, <2>3, PolicySteps
    <3>2. Timer(t) /\ tracks[t].saved \in Nat /\ clock \in Nat /\ shotAt[t] \in Nat
      BY <1>1, <3>1 DEF TimerInv, TypeOK, Track
    <3>3. QED
      BY <1>1, <3>1, <3>2 DEF Timer, Due
  <2>4. QED
    BY <1>1, <2>1, <2>2, <2>3 DEF Next
<1>2. TypeOK /\ TimerInv /\ [Next]_vars =>
        [\A t \in Ids :
            shotAt'[t] # shotAt[t] /\ shotAt[t] # 0 => shotAt'[t] >= shotAt[t] + Interval]_vars
  BY <1>1
<1>3. QED
  BY TimerHolds, <1>2, PTL DEF Spec, Spaced

\* A track waits only after a capture that was queued, or after a frame that an
\* exception ended once the timer was set (workers.py:164-191).
THEOREM TimersMean == Spec => []TimerMeansShot
<1>1. Init => TimerMeansShot
  BY DEF Init, TimerMeansShot, Alive
<1>2. TypeOK /\ TimerMeansShot /\ [Next]_vars => TimerMeansShot'
  <2> SUFFICES ASSUME TypeOK, TimerMeansShot, [Next]_vars PROVE TimerMeansShot'
    OBVIOUS
  <2>1. CASE Frame
    BY <2>1, FrameKeepsTimer DEF TimerMeansShot, Alive
  <2>2. CASE Tick \/ UNCHANGED vars
    BY <2>2 DEF Tick, vars, history, TimerMeansShot, Alive
  <2>3. ASSUME NEW t \in todo, Policy(t) PROVE TimerMeansShot'
    <3>1. \A u \in Alive : u \in Ids
      BY TrackerAssumption DEF TypeOK, Ids
    <3>2. QED
      BY <2>3, <3>1, PolicySteps DEF TimerMeansShot, Alive
  <2>4. QED
    BY <2>1, <2>2, <2>3 DEF Next
<1>3. QED
  BY Typing, <1>1, <1>2, PTL DEF Spec

\* Captures queued under one Track ID come from one track: a track that begins
\* has an ID no capture was queued under (tracker.py:127-147, workers.py:170-182).
THEOREM IdsNotShared == Spec => NoSharedIds
<1>1. TypeOK /\ TimerInv /\ [Next]_vars => [\A t \in DOMAIN tracks' \ Alive : shotAt[t] = 0]_vars
  <2> SUFFICES ASSUME TypeOK, TimerInv, [Next]_vars, NEW t \in DOMAIN tracks', t \notin Alive
               PROVE  shotAt[t] = 0
    OBVIOUS
  <2>1. CASE Frame
    BY <2>1, FrameKeepsTimer DEF TimerInv
  <2>2. CASE Tick \/ UNCHANGED vars
    BY <2>2 DEF Tick, vars, history, Alive
  <2>3. ASSUME NEW u \in todo, Policy(u) PROVE shotAt[t] = 0
    BY <2>3, PolicySteps
  <2>4. QED
    BY <2>1, <2>2, <2>3 DEF Next
<1>2. QED
  BY TimerHolds, <1>1, PTL DEF Spec, NoSharedIds

---------------------------------------------------------------------------
(* Faces and tracks *)

\* The capture policy does not touch what the tracker counts.
LEMMA PolicyKeepsTracks ==
  ASSUME TypeOK, NEW t \in todo, Policy(t)
  PROVE  /\ DOMAIN tracks' = Alive /\ UNCHANGED <<clear, met>>
         /\ \A u \in Alive : tracks'[u].missed = tracks[u].missed
<1>1. ASSUME NEW at, tracks' = [tracks EXCEPT ![t].saved = at]
      PROVE  DOMAIN tracks' = Alive /\ \A u \in Alive : tracks'[u].missed = tracks[u].missed
  <2>1. t \in Alive /\ tracks[t] \in Track
    BY DEF TypeOK
  <2>2. [tracks[t] EXCEPT !.saved = at].missed = tracks[t].missed
    BY <2>1 DEF Track
  <2>3. QED
    BY <1>1, <2>1, <2>2 DEF TypeOK, Alive
<1>2. CASE PassOver(t)
  BY <1>2 DEF PassOver, history, Alive
<1>3. CASE Capture(t) \/ QueueFull(t)
  BY <1>1, <1>3 DEF Capture, QueueFull
<1>4. CASE CaptureFails(t)
  <2>1. CASE UNCHANGED <<tracks, faulted>>
    BY <1>4, <2>1 DEF CaptureFails, Alive
  <2>2. CASE tracks' = [tracks EXCEPT ![t].saved = clock] /\ faulted' = faulted \cup {t}
    BY <1>1, <1>4, <2>2 DEF CaptureFails
  <2>3. QED
    BY <1>4, <2>1, <2>2 DEF CaptureFails
<1>5. QED
  BY <1>2, <1>3, <1>4 DEF Policy

FacesFollowed == KeepsIdentity /\ OneTrackPerFace

LEMMA FollowedStep ==
  ASSUME TypeOK, FacesFollowed, [Next]_vars
  PROVE  FacesFollowed'
<1>1. CASE Frame
  BY <1>1, FrameStep DEF FacesFollowed
<1>2. CASE Tick \/ UNCHANGED vars
  BY <1>2 DEF Tick, vars, history, FacesFollowed, KeepsIdentity, OneTrackPerFace, Alive
<1>3. ASSUME NEW t \in todo, Policy(t) PROVE FacesFollowed'
  <2>1. { u \in DOMAIN tracks' : tracks'[u].missed = 0 } = { u \in Alive : tracks[u].missed = 0 }
    BY <1>3, PolicyKeepsTracks
  <2>2. QED
    BY <1>3, <2>1, PolicyKeepsTracks DEF FacesFollowed, KeepsIdentity, OneTrackPerFace, Alive
<1>4. QED
  BY <1>1, <1>2, <1>3 DEF Next

LEMMA Followed == Spec => []FacesFollowed
<1>1. Init => FacesFollowed
  <2>1. SUFFICES ASSUME Init PROVE FacesFollowed
    OBVIOUS
  <2>2. { t \in Alive : tracks[t].missed = 0 } = {} /\ clear = {} /\ met = 0
    BY <2>1 DEF Init, Alive
  <2>3. QED
    BY <2>2, FS_EmptySet DEF FacesFollowed, KeepsIdentity, OneTrackPerFace
<1>2. QED
  BY Typing, <1>1, FollowedStep, PTL DEF Spec

\* Whatever the other tracks and faces overlap, the assignment of largest total
\* leaves a track the face that it alone overlaps (tracker.py:149-174).
THEOREM IdentityKept == Spec => []KeepsIdentity
  BY Followed, PTL DEF FacesFollowed

\* After every frame exactly as many tracks are up to date as faces were
\* detected (tracker.py:112-147).
THEOREM OneTrackEach == Spec => []OneTrackPerFace
  BY Followed, PTL DEF FacesFollowed
==============================================================================
