------------------------- MODULE CapturePipelineProofs -------------------------
(* Theorems about CapturePipeline, for any number of cameras and captures and *)
(* any queue sizes: a shutdown without timeouts is clean, and the stages      *)
(* implement CaptureLog.                                                      *)
EXTENDS CapturePipeline, SequenceTheorems, TLAPS

Items == Jobs \cup {Sentinel}

LEMMA JobsAreNat == Jobs \subseteq Nat
BY PipelineAssumption DEF Jobs

LEMMA TailFacts ==
    ASSUME NEW S, NEW q \in Seq(S), q # <<>>
    PROVE  /\ Tail(q) \in Seq(S) /\ Head(q) \in S
           /\ Len(q) \in Nat \ {0} /\ Len(Tail(q)) = Len(q) - 1
           /\ Head(q) = q[1]
           /\ \A i \in 1 .. Len(q) - 1 : Tail(q)[i] = q[i + 1]
BY HeadTailProperties, LenProperties, SMT

LEMMA AppendFacts ==
    ASSUME NEW S, NEW q \in Seq(S), NEW x \in S
    PROVE  /\ Append(q, x) \in Seq(S)
           /\ Len(q) \in Nat /\ Len(Append(q, x)) = Len(q) + 1
           /\ Append(q, x)[Len(q) + 1] = x
           /\ \A i \in 1..Len(q) : Append(q, x)[i] = q[i]
BY AppendProperties, LenProperties, SMT

---------------------------------------------------------------------------
(* Types *)

\* Whoever is at work on a capture holds one, and nobody else does.
Hands ==
    /\ \A d \in Detectors : dpc[d] = "offer" <=> offered[d] # Nobody
    /\ epc \in {"embed", "put"} <=> ehand # Nobody
    /\ spc = "persist" <=> shand # Nobody

Types == TypeOK /\ Hands

LEMMA InitTypes == Init => Types
<1> SUFFICES ASSUME Init PROVE Types
  OBVIOUS
<1>1. stopping \in [Detectors -> BOOLEAN]
  BY Zenon DEF Init
<1> QED BY <1>1, PipelineAssumption DEF Init, Types, TypeOK, Hands, Fates

LEMMA StepTypes == Types /\ [Next]_vars => Types'
<1> SUFFICES ASSUME Types, [Next]_vars PROVE Types'
  OBVIOUS
<1> USE PipelineAssumption, JobsAreNat
    DEF Types, TypeOK, Hands, Fates, embedder, storer, detectors, stopper
<1>1. ASSUME NEW d \in Detectors, StartFrame(d) PROVE Types'
  BY <1>1 DEF StartFrame
<1>2. ASSUME NEW d \in Detectors, Capture(d) PROVE Types'
  <2>1. made + 1 \in Jobs /\ made + 1 \in 0..MaxJobs
    BY <1>2 DEF Capture, Jobs
  <2> QED BY <1>2, <2>1 DEF Capture
<1>3. ASSUME NEW d \in Detectors, Offer(d) PROVE Types'
  <2>1. offered[d] \in Jobs \cup {Sentinel}
    BY <1>3 DEF Offer
  <2>2. embedQ' \in Seq(Jobs \cup {Sentinel}) /\ Len(embedQ') <= EmbedSize
    BY <1>3, <2>1, AppendFacts DEF Offer, PutNowait
  <2> QED BY <1>3, <2>2 DEF Offer
<1>4. ASSUME NEW d \in Detectors, EndFrame(d) PROVE Types'
  BY <1>4 DEF EndFrame
<1>5. ASSUME NEW d \in Detectors, ExitDetector(d) PROVE Types'
  BY <1>5 DEF ExitDetector
<1>6. CASE GetEmbed
  BY <1>6, TailFacts DEF GetEmbed
<1>7. CASE Embed
  BY <1>7 DEF Embed
<1>8. CASE PutPersist
  <2>1. ehand \in Jobs \cup {Sentinel}
    BY <1>8 DEF PutPersist
  <2>2. persistQ' \in Seq(Jobs \cup {Sentinel}) /\ Len(persistQ') <= PersistSize
    BY <1>8, <2>1, AppendFacts DEF PutPersist
  <2> QED BY <1>8, <2>2 DEF PutPersist
<1>9. CASE DropEmbedded
  BY <1>9 DEF DropEmbedded
<1>10. CASE GetPersist
  BY <1>10, TailFacts DEF GetPersist
<1>11. CASE Persist
  <2>1. shand \in Jobs
    BY <1>11 DEF Persist
  <2>2. Append(saved, shand) \in Seq(Jobs)
    BY <2>1, AppendFacts
  <2> QED BY <1>11, <2>1, <2>2 DEF Persist
<1>12. CASE Signal
  <2>1. stopping' \in [Detectors -> BOOLEAN]
    BY <1>12, Zenon DEF Signal
  <2> QED BY <1>12, <2>1 DEF Signal
<1>13. CASE JoinDetectors
  BY <1>13 DEF JoinDetectors, Join
<1>14. CASE StopEmbedding
  BY <1>14, AppendFacts DEF StopEmbedding
<1>15. CASE JoinEmbedding
  BY <1>15 DEF JoinEmbedding, Join
<1>16. CASE StopStorage
  BY <1>16, AppendFacts DEF StopStorage
<1>17. CASE JoinStorage
  BY <1>17 DEF JoinStorage, Join
<1>18. CASE Close
  BY <1>18 DEF Close
<1>19. CASE UNCHANGED vars
  BY <1>19 DEF vars
<1> QED
  BY <1>1, <1>2, <1>3, <1>4, <1>5, <1>6, <1>7, <1>8, <1>9, <1>10, <1>11, <1>12,
     <1>13, <1>14, <1>15, <1>16, <1>17, <1>18, <1>19
  DEF Next, Detection, Embedding, Storage, Stop

\* Every variable keeps its type; in particular no queue grows over its size.
THEOREM Typing == Spec => []TypeOK
<1>1. Types => TypeOK
  BY DEF Types
<1> QED BY <1>1, InitTypes, StepTypes, PTL DEF Spec

LEMMA Typed == Spec => []Types
BY InitTypes, StepTypes, PTL DEF Spec

---------------------------------------------------------------------------
(* Sentinels *)

Free(q) == \A i \in 1..Len(q) : q[i] # Sentinel
AtMostOne(q) == \A i, j \in 1..Len(q) : q[i] = Sentinel /\ q[j] = Sentinel => i = j

\* A queue gets one sentinel, when stop() comes to it, and its worker leaves
\* with it.
Sentinels ==
    /\ AtMostOne(embedQ) /\ AtMostOne(persistQ)
    /\ ctl \in {"up", "join", "stopE"} => epc # "done" /\ Free(embedQ)
    /\ ctl \in {"up", "join", "stopE", "joinE", "stopS"} => spc # "done" /\ Free(persistQ)
    /\ epc = "done" => Free(embedQ)
    /\ spc = "done" => Free(persistQ)

LEMMA AppendSentinels ==
    ASSUME NEW q \in Seq(Items), NEW x \in Items, x # Sentinel \/ Free(q), AtMostOne(q)
    PROVE  /\ AtMostOne(Append(q, x))
           /\ Free(q) /\ x # Sentinel => Free(Append(q, x))
<1>1. /\ Len(q) \in Nat /\ Len(Append(q, x)) = Len(q) + 1
      /\ Append(q, x)[Len(q) + 1] = x
      /\ \A i \in 1..Len(q) : Append(q, x)[i] = q[i]
  BY AppendFacts
<1>2. \A i \in 1..Len(q) + 1 : i = Len(q) + 1 \/ i \in 1..Len(q)
  BY <1>1
<1> QED BY <1>1, <1>2 DEF Free, AtMostOne

LEMMA TailSentinels ==
    ASSUME NEW q \in Seq(Items), q # <<>>, AtMostOne(q)
    PROVE  /\ AtMostOne(Tail(q))
           /\ Free(q) => Free(Tail(q)) /\ Head(q) # Sentinel
           /\ Head(q) = Sentinel => Free(Tail(q))
BY TailFacts, SMT DEF Free, AtMostOne

LEMMA InitSentinels == Init => Sentinels
BY DEF Init, Sentinels, Free, AtMostOne

LEMMA StepSentinels == Types /\ Sentinels /\ [Next]_vars => Sentinels'
<1> SUFFICES ASSUME Types, Sentinels, [Next]_vars PROVE Sentinels'
  OBVIOUS
<1>0. embedQ \in Seq(Items) /\ persistQ \in Seq(Items) /\ Nobody \notin Items
      /\ Sentinel \in Items /\ Sentinel \notin Jobs /\ Jobs \subseteq Items
  BY PipelineAssumption DEF Types, TypeOK, Items
<1> USE <1>0 DEF Sentinels, embedder, storer, detectors, stopper
<1>1. ASSUME NEW d \in Detectors, Offer(d) PROVE Sentinels'
  <2>1. offered[d] \in Items /\ offered[d] # Sentinel
    BY <1>1 DEF Offer, Types, TypeOK, Hands
  <2>2. AtMostOne(embedQ') /\ (Free(embedQ) => Free(embedQ'))
    BY <1>1, <2>1, AppendSentinels DEF Offer, PutNowait
  <2>3. UNCHANGED <<persistQ, epc, spc, ctl>>
    BY <1>1 DEF Offer
  <2> QED BY <2>2, <2>3 DEF Free, AtMostOne
<1>2. CASE GetEmbed
  <2>1. /\ AtMostOne(embedQ') /\ (Free(embedQ) => Free(embedQ') /\ Head(embedQ) # Sentinel)
        /\ Head(embedQ) = Sentinel => Free(embedQ')
    BY <1>2, TailSentinels DEF GetEmbed
  <2>2. IF Head(embedQ) = Sentinel THEN epc' = "done" ELSE epc' = "embed"
    BY <1>2 DEF GetEmbed
  <2>3. UNCHANGED <<persistQ, spc, ctl>>
    BY <1>2 DEF GetEmbed
  <2> QED BY <2>1, <2>2, <2>3 DEF Free, AtMostOne
<1>3. CASE GetPersist
  <2>1. /\ AtMostOne(persistQ') /\ (Free(persistQ) => Free(persistQ') /\ Head(persistQ) # Sentinel)
        /\ Head(persistQ) = Sentinel => Free(persistQ')
    BY <1>3, TailSentinels DEF GetPersist
  <2>2. IF Head(persistQ) = Sentinel THEN spc' = "done" ELSE spc' = "persist"
    BY <1>3 DEF GetPersist
  <2>3. UNCHANGED <<embedQ, epc, ctl>>
    BY <1>3 DEF GetPersist
  <2> QED BY <2>1, <2>2, <2>3 DEF Free, AtMostOne
<1>4. CASE PutPersist
  <2>1. ehand \in Items /\ ehand # Sentinel
    BY <1>4 DEF PutPersist, Types, TypeOK, Hands
  <2>2. AtMostOne(persistQ') /\ (Free(persistQ) => Free(persistQ'))
    BY <1>4, <2>1, AppendSentinels DEF PutPersist
  <2>3. UNCHANGED <<embedQ, spc, ctl>> /\ epc # "done" /\ epc' # "done"
    BY <1>4 DEF PutPersist
  <2> QED BY <2>2, <2>3 DEF Free, AtMostOne
<1>5. CASE StopEmbedding
  <2>1. AtMostOne(embedQ')
    BY <1>5, AppendSentinels DEF StopEmbedding
  <2>2. ctl = "stopE" /\ ctl' = "joinE" /\ UNCHANGED <<persistQ, epc, spc>>
    BY <1>5 DEF StopEmbedding
  <2> QED BY <2>1, <2>2 DEF Free, AtMostOne
<1>6. CASE StopStorage
  <2>1. AtMostOne(persistQ')
    BY <1>6, AppendSentinels DEF StopStorage
  <2>2. ctl = "stopS" /\ ctl' = "joinS" /\ UNCHANGED <<embedQ, epc, spc>>
    BY <1>6 DEF StopStorage
  <2> QED BY <2>1, <2>2 DEF Free, AtMostOne
<1>7. CASE Embed \/ DropEmbedded \/ Persist
  BY <1>7 DEF Embed, DropEmbedded, Persist, Free, AtMostOne
<1>8. CASE Signal \/ JoinDetectors \/ JoinEmbedding \/ JoinStorage \/ Close
  BY <1>8 DEF Signal, JoinDetectors, JoinEmbedding, JoinStorage, Close, Join, Free, AtMostOne
<1>9. ASSUME NEW d \in Detectors,
             StartFrame(d) \/ Capture(d) \/ EndFrame(d) \/ ExitDetector(d)
      PROVE  Sentinels'
  BY <1>9 DEF StartFrame, Capture, EndFrame, ExitDetector, Free, AtMostOne
<1>10. CASE UNCHANGED vars
  BY <1>10 DEF vars, Free, AtMostOne
<1> QED
  BY <1>1, <1>2, <1>3, <1>4, <1>5, <1>6, <1>7, <1>8, <1>9, <1>10
  DEF Next, Detection, Embedding, Storage, Stop

LEMMA AllSentinels == Spec => []Sentinels
BY Typed, InitSentinels, StepSentinels, PTL DEF Spec

---------------------------------------------------------------------------
(* Shutdown *)

\* Whom stop() has joined in time has ended.
Joined ==
    /\ \A d \in Detectors \ joining : dpc[d] = "done" \/ d \in late
    /\ ctl \notin {"up", "join"} => joining = {}
    /\ ctl \in {"stopS", "joinS", "close", "closed", "down"} /\ "embed" \notin late => epc = "done"
    /\ ctl \in {"close", "closed", "down"} /\ "storage" \notin late => spc = "done"

\* The sentinel of a queue is its last entry.
EndsWithSentinel(q) == q # <<>> /\ q[Len(q)] = Sentinel

\* Nothing comes behind a sentinel that was sent after everyone in front of the
\* queue had ended.
NothingBehind ==
    /\ late \cap Detectors = {} /\ ctl \notin {"up", "join", "stopE"} =>
          IF epc = "done" THEN embedQ = <<>> ELSE EndsWithSentinel(embedQ)
    /\ late \subseteq {"storage"} /\ ctl \in {"joinS", "close", "closed", "down"} =>
          IF spc = "done" THEN persistQ = <<>> ELSE EndsWithSentinel(persistQ)

LEMMA InitShutdown == Init => Joined /\ NothingBehind
BY DEF Init, Joined, NothingBehind

LEMMA StepJoined == Types /\ Joined /\ [Next]_vars => Joined'
<1> SUFFICES ASSUME Types, Joined, [Next]_vars PROVE Joined'
  OBVIOUS
<1> USE DEF Types, TypeOK, Joined, embedder, storer, detectors, stopper
<1>1. ASSUME NEW d \in Detectors, Detection(d) PROVE Joined'
  <2>1. UNCHANGED <<joining, late, ctl, epc, spc>>
    BY <1>1 DEF Detection, StartFrame, Capture, Offer, EndFrame, ExitDetector
  <2>2. \A c \in Detectors : dpc[c] = "done" => dpc'[c] = "done"
    BY <1>1 DEF Detection, StartFrame, Capture, Offer, EndFrame, ExitDetector
  <2> QED BY <2>1, <2>2
<1>2. CASE Embedding \/ Storage
  BY <1>2 DEF Embedding, Storage, GetEmbed, Embed, PutPersist, DropEmbedded, GetPersist, Persist
<1>3. CASE Signal
  BY <1>3 DEF Signal
<1>4. CASE JoinDetectors
  <2>1. PICK d \in joining :
          /\ Join("join", IF joining = {d} THEN "stopE" ELSE "join", d, dpc[d] = "done")
          /\ joining' = joining \ {d}
    BY <1>4 DEF JoinDetectors
  <2>2. UNCHANGED <<dpc, epc, spc>>
    BY <1>4 DEF JoinDetectors
  <2> QED BY <2>1, <2>2 DEF Join
<1>5. CASE StopEmbedding \/ StopStorage \/ Close
  BY <1>5 DEF StopEmbedding, StopStorage, Close
<1>6. CASE JoinEmbedding
  BY <1>6 DEF JoinEmbedding, Join
<1>7. CASE JoinStorage
  BY <1>7 DEF JoinStorage, Join
<1>8. CASE UNCHANGED vars
  BY <1>8 DEF vars
<1> QED BY <1>1, <1>2, <1>3, <1>4, <1>5, <1>6, <1>7, <1>8 DEF Next, Stop

\* Taking an entry off a queue that ends with its only sentinel.
LEMMA TailEnds ==
    ASSUME NEW q \in Seq(Items), EndsWithSentinel(q), AtMostOne(q)
    PROVE  IF Head(q) = Sentinel THEN Tail(q) = <<>> ELSE EndsWithSentinel(Tail(q))
<1> DEFINE t == Tail(q)
<1>1. /\ t \in Seq(Items) /\ Len(q) \in Nat \ {0} /\ Len(t) = Len(q) - 1
      /\ Head(q) = q[1] /\ \A i \in 1 .. Len(q) - 1 : t[i] = q[i + 1]
  BY TailFacts DEF EndsWithSentinel
<1> HIDE DEF t
<1>2. ASSUME Head(q) = Sentinel PROVE t = <<>>
  <2>1. Len(q) = 1
    BY <1>1, <1>2 DEF EndsWithSentinel, AtMostOne
  <2>2. Len(t) = 0
    BY <1>1, <2>1
  <2> QED BY <1>1, <2>2, EmptySeq
<1>3. ASSUME Head(q) # Sentinel PROVE EndsWithSentinel(t)
  <2>1. Len(q) > 1
    BY <1>1, <1>3 DEF EndsWithSentinel
  <2>2. t[Len(t)] = q[Len(q)] /\ Len(t) # 0
    BY <1>1, <2>1
  <2> QED BY <2>2, EmptySeq DEF EndsWithSentinel
<1> QED BY <1>2, <1>3 DEF t

LEMMA AppendEnds ==
    ASSUME NEW q \in Seq(Items)
    PROVE  EndsWithSentinel(Append(q, Sentinel))
<1>1. Sentinel \in Items
  BY DEF Items
<1>2. /\ Append(q, Sentinel) \in Seq(Items)
      /\ Len(q) \in Nat /\ Len(Append(q, Sentinel)) = Len(q) + 1
      /\ Append(q, Sentinel)[Len(q) + 1] = Sentinel
  BY <1>1, AppendFacts
<1>3. Append(q, Sentinel) # <<>>
  BY <1>2
<1> QED BY <1>2, <1>3 DEF EndsWithSentinel

LEMMA StepBehind ==
    Types /\ Sentinels /\ Joined /\ NothingBehind /\ [Next]_vars => NothingBehind'
<1> SUFFICES ASSUME Types, Sentinels, Joined, NothingBehind, [Next]_vars PROVE NothingBehind'
  OBVIOUS
<1>0. embedQ \in Seq(Items) /\ persistQ \in Seq(Items)
  BY DEF Types, TypeOK, Items
<1> USE <1>0 DEF NothingBehind, EndsWithSentinel, embedder, storer, detectors, stopper
<1>1. ASSUME NEW d \in Detectors, Offer(d) PROVE NothingBehind'
  <2>1. UNCHANGED <<persistQ, spc, epc, ctl, late>> /\ dpc[d] = "offer"
    BY <1>1 DEF Offer
  <2>2. ~(late \cap Detectors = {} /\ ctl \notin {"up", "join", "stopE"})
    BY <2>1 DEF Joined
  <2> QED BY <2>1, <2>2
<1>2. CASE GetEmbed
  <2>1. epc = "get" /\ embedQ' = Tail(embedQ) /\ UNCHANGED <<persistQ, spc, ctl, late>>
        /\ IF Head(embedQ) = Sentinel THEN epc' = "done" ELSE epc' = "embed"
    BY <1>2 DEF GetEmbed
  <2>2. EndsWithSentinel(embedQ) =>
          IF Head(embedQ) = Sentinel THEN embedQ' = <<>> ELSE EndsWithSentinel(embedQ')
    BY <2>1, TailEnds DEF Sentinels
  <2> QED BY <2>1, <2>2
<1>3. CASE GetPersist
  <2>1. spc = "get" /\ persistQ' = Tail(persistQ) /\ UNCHANGED <<embedQ, epc, ctl, late>>
        /\ IF Head(persistQ) = Sentinel THEN spc' = "done" ELSE spc' = "persist"
    BY <1>3 DEF GetPersist
  <2>2. EndsWithSentinel(persistQ) =>
          IF Head(persistQ) = Sentinel THEN persistQ' = <<>> ELSE EndsWithSentinel(persistQ')
    BY <2>1, TailEnds DEF Sentinels
  <2> QED BY <2>1, <2>2
<1>4. CASE PutPersist
  <2>1. UNCHANGED <<embedQ, spc, ctl, late>> /\ epc = "put" /\ epc' = "get"
    BY <1>4 DEF PutPersist
  <2>2. ~(late \subseteq {"storage"} /\ ctl \in {"joinS", "close", "closed", "down"})
    BY <2>1 DEF Joined
  <2> QED BY <2>1, <2>2
<1>5. CASE StopEmbedding
  <2>1. EndsWithSentinel(embedQ') /\ epc # "done"
    BY <1>5, AppendEnds DEF StopEmbedding, Sentinels
  <2>2. ctl' = "joinE" /\ UNCHANGED <<persistQ, spc, epc, late>>
    BY <1>5 DEF StopEmbedding
  <2> QED BY <2>1, <2>2
<1>6. CASE StopStorage
  <2>1. EndsWithSentinel(persistQ') /\ spc # "done"
    BY <1>6, AppendEnds DEF StopStorage, Sentinels
  <2>2. ctl = "stopS" /\ ctl' = "joinS" /\ UNCHANGED <<embedQ, spc, epc, late>>
    BY <1>6 DEF StopStorage
  <2> QED BY <2>1, <2>2
<1>7. CASE Embed \/ DropEmbedded \/ Persist
  BY <1>7 DEF Embed, DropEmbedded, Persist
<1>8. CASE Signal
  BY <1>8 DEF Signal
<1>9. CASE JoinDetectors
  BY <1>9 DEF JoinDetectors, Join
<1>10. CASE JoinEmbedding \/ JoinStorage \/ Close
  BY <1>10 DEF JoinEmbedding, JoinStorage, Close, Join
<1>11. ASSUME NEW d \in Detectors,
              StartFrame(d) \/ Capture(d) \/ EndFrame(d) \/ ExitDetector(d)
       PROVE  NothingBehind'
  BY <1>11 DEF StartFrame, Capture, EndFrame, ExitDetector
<1>12. CASE UNCHANGED vars
  BY <1>12 DEF vars
<1> QED
  BY <1>1, <1>2, <1>3, <1>4, <1>5, <1>6, <1>7, <1>8, <1>9, <1>10, <1>11, <1>12
  DEF Next, Detection, Embedding, Storage, Stop

---------------------------------------------------------------------------
(* Where captures are *)

Carried(j) ==
    \/ \E d \in Detectors : offered[d] = j
    \/ j \in ToSet(embedQ) \/ ehand = j \/ j \in ToSet(persistQ) \/ shand = j

\* A capture under way is in somebody's hands or in a queue.
InFlight == \A j \in Jobs : fate[j] = "flight" => Carried(j)

LEMMA AppendSet ==
    ASSUME NEW S, NEW q \in Seq(S), NEW x \in S
    PROVE  ToSet(Append(q, x)) = ToSet(q) \cup {x}
<1> DEFINE a == Append(q, x)
<1>1. /\ a \in Seq(S) /\ Len(q) \in Nat /\ Len(a) = Len(q) + 1 /\ a[Len(q) + 1] = x
      /\ \A i \in 1..Len(q) : a[i] = q[i]
  BY AppendFacts
<1> HIDE DEF a
<1>2. DOMAIN a = 1..Len(q) + 1 /\ DOMAIN q = 1..Len(q)
  BY <1>1, LenProperties
<1>3. ToSet(a) = ToSet(q) \cup {x}
  BY <1>1, <1>2 DEF ToSet
<1> QED BY <1>3 DEF a

LEMMA TailSet ==
    ASSUME NEW S, NEW q \in Seq(S), q # <<>>
    PROVE  ToSet(q) = {Head(q)} \cup ToSet(Tail(q))
<1> DEFINE t == Tail(q)
<1>1. /\ t \in Seq(S) /\ Len(q) \in Nat \ {0} /\ Len(t) = Len(q) - 1 /\ Head(q) = q[1]
      /\ \A i \in 1 .. Len(q) - 1 : t[i] = q[i + 1]
  BY TailFacts
<1> HIDE DEF t
<1>2. DOMAIN t = 1 .. Len(q) - 1 /\ DOMAIN q = 1..Len(q)
  BY <1>1, LenProperties
<1>3. \A i \in 1..Len(q) : i = 1 \/ (i - 1 \in 1 .. Len(q) - 1 /\ q[i] = t[i - 1])
  BY <1>1
<1>4. ASSUME NEW i \in 1..Len(q) PROVE q[i] \in {Head(q)} \cup ToSet(t)
  BY <1>1, <1>2, <1>3 DEF ToSet
<1>5. {Head(q)} \cup ToSet(t) \subseteq ToSet(q)
  BY <1>1, <1>2 DEF ToSet
<1> QED BY <1>2, <1>4, <1>5 DEF t, ToSet

LEMMA InitFlight == Init => InFlight
BY DEF Init, InFlight

LEMMA StepFlight == Types /\ InFlight /\ [Next]_vars => InFlight'
<1> SUFFICES ASSUME Types, InFlight, [Next]_vars PROVE InFlight'
  OBVIOUS
<1>0. embedQ \in Seq(Items) /\ persistQ \in Seq(Items) /\ Nobody \notin Jobs
      /\ Sentinel \in Items /\ Sentinel \notin Jobs /\ Jobs \subseteq Items
  BY PipelineAssumption DEF Types, TypeOK, Items
<1> USE <1>0 DEF Types, TypeOK, Hands, InFlight, Carried, embedder, storer, detectors, stopper
<1>1. ASSUME NEW d \in Detectors, Capture(d) PROVE InFlight'
  <2>1. /\ offered' = [offered EXCEPT ![d] = made + 1]
        /\ fate' = [fate EXCEPT ![made + 1] = "flight"]
        /\ offered[d] = Nobody
        /\ UNCHANGED <<embedQ, persistQ, ehand, shand>>
    BY <1>1 DEF Capture
  <2>2. ASSUME NEW j \in Jobs, fate'[j] = "flight", j # made + 1 PROVE Carried(j)'
    BY <2>1, <2>2
  <2>3. \E c \in Detectors : offered'[c] = made + 1
    BY <2>1
  <2> QED BY <2>2, <2>3
<1>2. ASSUME NEW d \in Detectors, Offer(d) PROVE InFlight'
  <2>1. offered[d] \in Jobs
    BY <1>2 DEF Offer
  <2>2. /\ offered' = [offered EXCEPT ![d] = Nobody]
        /\ UNCHANGED <<persistQ, ehand, shand>>
    BY <1>2 DEF Offer
  <2>3. \/ ToSet(embedQ') = ToSet(embedQ) \cup {offered[d]} /\ fate' = fate
        \/ embedQ' = embedQ /\ fate' = [fate EXCEPT ![offered[d]] = "refused"]
    BY <1>2, <2>1, AppendSet DEF Offer, PutNowait
  <2> QED BY <2>1, <2>2, <2>3
<1>3. CASE GetEmbed
  <2>1. /\ embedQ' = Tail(embedQ) /\ epc = "get"
        /\ ToSet(embedQ) = {Head(embedQ)} \cup ToSet(embedQ')
        /\ Head(embedQ) = Sentinel \/ ehand' = Head(embedQ)
        /\ UNCHANGED <<offered, persistQ, shand, fate>>
    BY <1>3, TailSet DEF GetEmbed
  <2> QED BY <2>1
<1>4. CASE GetPersist
  <2>1. /\ persistQ' = Tail(persistQ) /\ spc = "get"
        /\ ToSet(persistQ) = {Head(persistQ)} \cup ToSet(persistQ')
        /\ Head(persistQ) = Sentinel \/ shand' = Head(persistQ)
        /\ UNCHANGED <<offered, embedQ, ehand, fate>>
    BY <1>4, TailSet DEF GetPersist
  <2> QED BY <2>1
<1>5. CASE PutPersist
  <2>1. ehand \in Items
    BY <1>5 DEF PutPersist
  <2>2. /\ ToSet(persistQ') = ToSet(persistQ) \cup {ehand}
        /\ UNCHANGED <<offered, embedQ, shand, fate>>
    BY <1>5, <2>1, AppendSet DEF PutPersist
  <2> QED BY <2>2
<1>6. CASE Embed \/ DropEmbedded
  BY <1>6 DEF Embed, DropEmbedded
<1>7. CASE Persist
  BY <1>7 DEF Persist
<1>8. CASE StopEmbedding
  <2>1. ToSet(embedQ') = ToSet(embedQ) \cup {Sentinel}
        /\ UNCHANGED <<offered, persistQ, ehand, shand, fate>>
    BY <1>8, AppendSet DEF StopEmbedding
  <2> QED BY <2>1
<1>9. CASE StopStorage
  <2>1. ToSet(persistQ') = ToSet(persistQ) \cup {Sentinel}
        /\ UNCHANGED <<offered, embedQ, ehand, shand, fate>>
    BY <1>9, AppendSet DEF StopStorage
  <2> QED BY <2>1
<1>10. CASE Signal \/ JoinDetectors \/ JoinEmbedding \/ JoinStorage \/ Close
  BY <1>10 DEF Signal, JoinDetectors, JoinEmbedding, JoinStorage, Close
<1>11. ASSUME NEW d \in Detectors, StartFrame(d) \/ EndFrame(d) \/ ExitDetector(d)
       PROVE  InFlight'
  BY <1>11 DEF StartFrame, EndFrame, ExitDetector
<1>12. CASE UNCHANGED vars
  BY <1>12 DEF vars
<1> QED
  BY <1>1, <1>2, <1>3, <1>4, <1>5, <1>6, <1>7, <1>8, <1>9, <1>10, <1>11, <1>12
  DEF Next, Detection, Embedding, Storage, Stop

LEMMA ShutdownIsClean ==
    Types /\ Sentinels /\ Joined /\ NothingBehind /\ InFlight => CleanShutdown
<1> SUFFICES ASSUME Types, Sentinels, Joined, NothingBehind, InFlight PROVE CleanShutdown
  OBVIOUS
<1> USE DEF Types, TypeOK, Hands
<1>1. epc = "done" /\ late \cap Detectors = {} => embedQ = <<>> /\ ehand = Nobody
  BY DEF Sentinels, NothingBehind
<1>2. spc = "done" /\ late \subseteq {"storage"} => persistQ = <<>> /\ shand = Nobody
  BY DEF Sentinels, NothingBehind
<1>3. ASSUME ctl \in {"closed", "down"}, late = {}
      PROVE  /\ \A j \in Jobs : fate[j] # "flight"
             /\ epc = "done" /\ spc = "done"
             /\ \A d \in Detectors : dpc[d] = "done"
  <2>1. epc = "done" /\ spc = "done" /\ \A d \in Detectors : dpc[d] = "done"
    BY <1>3 DEF Joined
  <2>2. /\ embedQ = <<>> /\ ehand = Nobody /\ persistQ = <<>> /\ shand = Nobody
        /\ \A d \in Detectors : offered[d] = Nobody
    BY <1>1, <1>2, <1>3, <2>1
  <2>3. \A j \in Jobs : ~Carried(j)
    BY <2>2, PipelineAssumption DEF Carried, ToSet
  <2> QED BY <2>1, <2>3 DEF InFlight
<1> QED BY <1>1, <1>2, <1>3 DEF CleanShutdown

\* A shutdown in which no join times out leaves no capture behind and nobody at
\* work when models and database are closed (Pipeline.stop).
THEOREM StopsClean == Spec => []CleanShutdown
<1>1. Spec => [](Joined /\ NothingBehind)
  BY Typed, AllSentinels, InitShutdown, StepJoined, StepBehind, PTL DEF Spec
<1>2. Spec => []InFlight
  BY Typed, InitFlight, StepFlight, PTL DEF Spec
<1> QED BY <1>1, <1>2, Typed, AllSentinels, ShutdownIsClean, PTL

---------------------------------------------------------------------------
(* Captures are accepted once *)

\* What the stages behind the detectors have seen.
Behind == ToSet(embedQ) \cup ToSet(persistQ) \cup {ehand, shand} \cup ToSet(saved)

\* A capture that is offered has been made, by that detector alone, and nobody
\* behind the detectors has it yet.
Fresh ==
    /\ \A j \in Jobs : j \in Behind => j <= made
    /\ \A d \in Detectors : offered[d] # Nobody =>
          /\ offered[d] <= made /\ offered[d] \notin Behind
          /\ \A c \in Detectors \ {d} : offered[c] # offered[d]

LEMMA InitFresh == Init => Fresh
BY PipelineAssumption DEF Init, Fresh, Behind, ToSet

LEMMA StepFresh == Types /\ Fresh /\ [Next]_vars => Fresh'
<1> SUFFICES ASSUME Types, Fresh, [Next]_vars PROVE Fresh'
  OBVIOUS
<1>0. embedQ \in Seq(Items) /\ persistQ \in Seq(Items) /\ Nobody \notin Items
      /\ Sentinel \in Items /\ Sentinel \notin Jobs /\ Jobs \subseteq Items
      /\ Jobs = 1..MaxJobs /\ MaxJobs \in Nat
  BY PipelineAssumption DEF Types, TypeOK, Items, Jobs
<1> USE <1>0 DEF Types, TypeOK, Hands, embedder, storer, detectors, stopper
<1>1. ASSUME NEW d \in Detectors, Capture(d) PROVE Fresh'
  <2>1. /\ offered' = [offered EXCEPT ![d] = made + 1] /\ made' = made + 1
        /\ offered[d] = Nobody /\ made + 1 \in Jobs
        /\ UNCHANGED <<embedQ, persistQ, ehand, shand, saved>>
    BY <1>1 DEF Capture
  <2>2. Behind' = Behind
    BY <2>1 DEF Behind
  <2>3. made + 1 \notin Behind /\ \A c \in Detectors : offered[c] # made + 1
    BY <2>1 DEF Fresh
  <2> QED BY <2>1, <2>2, <2>3 DEF Fresh
<1>2. ASSUME NEW d \in Detectors, Offer(d) PROVE Fresh'
  <2>1. offered[d] \in Jobs
    BY <1>2 DEF Offer
  <2>2. /\ offered' = [offered EXCEPT ![d] = Nobody] /\ made' = made
        /\ UNCHANGED <<persistQ, ehand, shand, saved>>
    BY <1>2 DEF Offer
  <2>3. ToSet(embedQ') = ToSet(embedQ) \cup {offered[d]} \/ embedQ' = embedQ
    BY <1>2, <2>1, AppendSet DEF Offer, PutNowait
  <2>4. Behind' \subseteq Behind \cup {offered[d]}
    BY <2>2, <2>3 DEF Behind
  <2> QED BY <2>1, <2>2, <2>4 DEF Fresh
<1>3. ASSUME Behind' \subseteq Behind \cup {Nobody, Sentinel}, UNCHANGED <<offered, made>>
      PROVE  Fresh'
  BY <1>3 DEF Fresh
<1>4. CASE GetEmbed
  <2>1. /\ ToSet(embedQ) = {Head(embedQ)} \cup ToSet(embedQ')
        /\ ehand' \in {ehand, Head(embedQ)}
        /\ UNCHANGED <<offered, made, persistQ, shand, saved>>
    BY <1>4, TailSet DEF GetEmbed
  <2> QED BY <1>3, <2>1 DEF Behind
<1>5. CASE GetPersist
  <2>1. /\ ToSet(persistQ) = {Head(persistQ)} \cup ToSet(persistQ')
        /\ shand' \in {shand, Head(persistQ)}
        /\ UNCHANGED <<offered, made, embedQ, ehand, saved>>
    BY <1>5, TailSet DEF GetPersist
  <2> QED BY <1>3, <2>1 DEF Behind
<1>6. CASE PutPersist
  <2>1. ehand \in Items
    BY <1>6 DEF PutPersist
  <2>2. /\ ToSet(persistQ') = ToSet(persistQ) \cup {ehand} /\ ehand' = Nobody
        /\ UNCHANGED <<offered, made, embedQ, shand, saved>>
    BY <1>6, <2>1, AppendSet DEF PutPersist
  <2> QED BY <1>3, <2>2 DEF Behind
<1>7. CASE Embed \/ DropEmbedded
  BY <1>3, <1>7 DEF Embed, DropEmbedded, Behind
<1>8. CASE Persist
  <2>1. shand \in Jobs
    BY <1>8 DEF Persist
  <2>2. saved \in Seq(Jobs)
    OBVIOUS
  <2>3. ToSet(Append(saved, shand)) = ToSet(saved) \cup {shand}
    BY ONLY <2>1, <2>2, AppendSet
  <2>4. ToSet(saved') \subseteq ToSet(saved) \cup {shand} /\ shand' = Nobody
        /\ UNCHANGED <<offered, made, embedQ, persistQ, ehand>>
    BY <1>8, <2>3 DEF Persist
  <2> QED BY <1>3, <2>4 DEF Behind
<1>9. CASE StopEmbedding
  <2>1. ToSet(embedQ') = ToSet(embedQ) \cup {Sentinel}
    BY <1>9, AppendSet DEF StopEmbedding
  <2> QED BY <1>3, <1>9, <2>1 DEF StopEmbedding, Behind
<1>10. CASE StopStorage
  <2>1. ToSet(persistQ') = ToSet(persistQ) \cup {Sentinel}
    BY <1>10, AppendSet DEF StopStorage
  <2> QED BY <1>3, <1>10, <2>1 DEF StopStorage, Behind
<1>11. CASE Signal \/ JoinDetectors \/ JoinEmbedding \/ JoinStorage \/ Close
  BY <1>3, <1>11 DEF Signal, JoinDetectors, JoinEmbedding, JoinStorage, Close, Behind
<1>12. ASSUME NEW d \in Detectors, StartFrame(d) \/ EndFrame(d) \/ ExitDetector(d)
       PROVE  Fresh'
  BY <1>3, <1>12 DEF StartFrame, EndFrame, ExitDetector, Behind
<1>13. CASE UNCHANGED vars
  BY <1>3, <1>13 DEF vars, Behind
<1> QED
  BY <1>1, <1>2, <1>4, <1>5, <1>6, <1>7, <1>8, <1>9, <1>10, <1>11, <1>12, <1>13
  DEF Next, Detection, Embedding, Storage, Stop

---------------------------------------------------------------------------
(* Sequences *)

\* A queue without its sentinel, place by place.
LEMMA JobsInPlaces ==
    ASSUME NEW q \in Seq(Items), AtMostOne(q)
    PROVE  /\ JobsIn(q) \in Seq(Jobs)
           /\ Free(q) => JobsIn(q) = q
           /\ \A i \in 1..Len(q) : q[i] = Sentinel =>
                /\ Len(JobsIn(q)) = Len(q) - 1
                /\ \A n \in 1 .. Len(q) - 1 : JobsIn(q)[n] = IF n < i THEN q[n] ELSE q[n + 1]
<1>1. Len(q) \in Nat /\ DOMAIN q = 1..Len(q) /\ \A n \in 1..Len(q) : q[n] \in Items
  BY LenProperties, ElementOfSeq
<1>2. ASSUME Free(q) PROVE JobsIn(q) = q /\ q \in Seq(Jobs)
  <2>1. JobsIn(q) = q
    BY <1>1, <1>2 DEF JobsIn, Free
  <2>2. \A n \in 1..Len(q) : q[n] \in Jobs
    BY <1>1, <1>2 DEF Free, Items
  <2> QED BY <1>1, <2>1, <2>2
<1>3. ASSUME NEW i \in 1..Len(q), q[i] = Sentinel
      PROVE  /\ JobsIn(q) \in Seq(Jobs)
             /\ Len(JobsIn(q)) = Len(q) - 1
             /\ \A n \in 1 .. Len(q) - 1 : JobsIn(q)[n] = IF n < i THEN q[n] ELSE q[n + 1]
  <2>1. { k \in DOMAIN q : q[k] = Sentinel } = {i}
    BY <1>1, <1>3 DEF AtMostOne
  <2>2. JobsIn(q) = RemoveAt(q, i)
    BY <2>1 DEF JobsIn
  <2> DEFINE a == SubSeq(q, 1, i - 1)
             b == SubSeq(q, i + 1, Len(q))
  <2>3. \A n \in 1..Len(q) : n # i => q[n] \in Jobs
    BY <1>1, <1>3 DEF AtMostOne, Items
  <2>4. a \in Seq(Jobs) /\ Len(a) = i - 1 /\ \A n \in 1 .. i - 1 : a[n] = q[n]
    <3>1. \A n \in 1 .. i - 1 : q[n] \in Jobs
      BY <1>1, <2>3
    <3>2. /\ a \in Seq(Jobs)
          /\ Len(a) = IF 1 <= i - 1 THEN (i - 1) - 1 + 1 ELSE 0
          /\ \A n \in 1 .. (i - 1) - 1 + 1 : a[n] = q[1 + n - 1]
      BY <1>1, <3>1, SubSeqProperties
    <3> HIDE DEF a
    <3> QED BY <1>1, <3>2
  <2>5. b \in Seq(Jobs) /\ Len(b) = Len(q) - i /\ \A n \in 1 .. Len(q) - i : b[n] = q[i + n]
    <3>1. \A n \in i + 1 .. Len(q) : q[n] \in Jobs
      BY <1>1, <2>3
    <3>2. /\ b \in Seq(Jobs)
          /\ Len(b) = IF i + 1 <= Len(q) THEN Len(q) - (i + 1) + 1 ELSE 0
          /\ \A n \in 1 .. Len(q) - (i + 1) + 1 : b[n] = q[i + 1 + n - 1]
      BY <1>1, <3>1, SubSeqProperties
    <3> HIDE DEF b
    <3>3. Len(b) = Len(q) - i
      <4>1. CASE i + 1 <= Len(q)
        <5>1. Len(q) - (i + 1) + 1 = Len(q) - i
          BY <1>1
        <5> QED BY <3>2, <4>1, <5>1
      <4>2. CASE ~(i + 1 <= Len(q))
        <5>0. i \in Int /\ i <= Len(q) /\ Len(q) \in Int
          BY <1>1
        <5>1. i = Len(q) /\ Len(q) - i = 0
          BY ONLY <5>0, <4>2
        <5> QED BY <3>2, <4>2, <5>1
      <4> QED BY <4>1, <4>2
    <3>4. ASSUME NEW n \in 1 .. Len(q) - i PROVE b[n] = q[i + n]
      <4>1. n \in 1 .. Len(q) - (i + 1) + 1 /\ i + 1 + n - 1 = i + n
        BY <1>1
      <4> QED BY <3>2, <4>1
    <3> QED BY <3>2, <3>3, <3>4
  <2>6. JobsIn(q) = a \o b
    BY <2>2 DEF RemoveAt
  <2> HIDE DEF a, b
  <2>7. /\ a \o b \in Seq(Jobs)
        /\ Len(a \o b) = Len(a) + Len(b)
        /\ \A n \in 1 .. Len(a) + Len(b) :
              (a \o b)[n] = IF n <= Len(a) THEN a[n] ELSE b[n - Len(a)]
    BY <2>4, <2>5, ConcatProperties
  <2> DEFINE c == a \o b
  <2> HIDE DEF c
  <2>8. /\ c \in Seq(Jobs) /\ Len(c) = Len(q) - 1
        /\ \A n \in 1 .. Len(q) - 1 : c[n] = IF n < i THEN q[n] ELSE q[n + 1]
    <3>1. c \in Seq(Jobs) /\ Len(c) = Len(a) + Len(b)
          /\ \A n \in 1 .. Len(a) + Len(b) :
               c[n] = IF n <= Len(a) THEN a[n] ELSE b[n - Len(a)]
      BY <2>7 DEF c
    <3>2. Len(c) = Len(q) - 1
      BY <1>1, <2>4, <2>5, <3>1
    <3>3. ASSUME NEW n \in 1 .. Len(q) - 1, n < i PROVE c[n] = q[n]
      BY <1>1, <2>4, <2>5, <3>1, <3>3
    <3>4. ASSUME NEW n \in 1 .. Len(q) - 1, ~(n < i) PROVE c[n] = q[n + 1]
      <4>0. n \in 1 .. Len(a) + Len(b) /\ ~(n <= Len(a)) /\ n - (i - 1) \in 1 .. Len(q) - i
        BY <1>1, <2>4, <2>5, <3>4
      <4>1. c[n] = b[n - (i - 1)] /\ n - (i - 1) \in 1 .. Len(q) - i
        BY <2>4, <3>1, <4>0
      <4>2. i + (n - (i - 1)) = n + 1
        BY <1>1
      <4> QED BY <2>5, <4>1, <4>2
    <3> QED BY <3>1, <3>2, <3>3, <3>4
  <2> QED BY <2>6, <2>8 DEF c
<1> QED BY <1>2, <1>3 DEF Free

LEMMA JobsInAppend ==
    ASSUME NEW q \in Seq(Items), AtMostOne(q), NEW x \in Jobs
    PROVE  JobsIn(Append(q, x)) = Append(JobsIn(q), x)
<1> DEFINE a == Append(q, x)
           s == JobsIn(q)
           t == JobsIn(a)
           u == Append(s, x)
<1>0. x \in Items /\ x # Sentinel
  BY PipelineAssumption DEF Items
<1>1. /\ a \in Seq(Items) /\ Len(q) \in Nat /\ Len(a) = Len(q) + 1 /\ a[Len(q) + 1] = x
      /\ \A i \in 1..Len(q) : a[i] = q[i]
  BY <1>0, AppendFacts
<1>2. AtMostOne(a) /\ (Free(q) => Free(a))
  BY <1>0, AppendSentinels
<1>3. s \in Seq(Jobs) /\ t \in Seq(Jobs)
  BY <1>1, <1>2, JobsInPlaces
<1>4. /\ u \in Seq(Jobs) /\ Len(s) \in Nat /\ Len(u) = Len(s) + 1 /\ u[Len(s) + 1] = x
      /\ \A i \in 1..Len(s) : u[i] = s[i]
  BY <1>3, AppendFacts
<1>5. CASE Free(q)
  BY <1>1, <1>2, <1>5, JobsInPlaces
<1>6. CASE ~Free(q)
  <2>1. PICK i \in 1..Len(q) : q[i] = Sentinel
    BY <1>6 DEF Free
  <2>2. /\ Len(s) = Len(q) - 1
        /\ \A n \in 1 .. Len(q) - 1 : s[n] = IF n < i THEN q[n] ELSE q[n + 1]
    BY <2>1, JobsInPlaces
  <2>3. i \in 1..Len(a) /\ a[i] = Sentinel
    BY <1>1, <2>1
  <2>4. /\ Len(t) = Len(a) - 1
        /\ \A n \in 1 .. Len(a) - 1 : t[n] = IF n < i THEN a[n] ELSE a[n + 1]
    BY <1>1, <1>2, <2>3, JobsInPlaces
  <2> HIDE DEF a, s, t, u
  <2>5. Len(t) = Len(u) /\ \A n \in 1..Len(t) : t[n] = u[n]
    BY <1>1, <1>4, <2>1, <2>2, <2>4
  <2>6. t = u
    BY <1>3, <1>4, <2>5, SeqEqual
  <2> QED BY <2>6 DEF a, s, t, u
<1> QED BY <1>5, <1>6

\* A sentinel makes no difference to the jobs.
LEMMA JobsInEnd ==
    ASSUME NEW q \in Seq(Items), Free(q)
    PROVE  JobsIn(Append(q, Sentinel)) = JobsIn(q)
<1> DEFINE a == Append(q, Sentinel)
           t == JobsIn(a)
<1>0. Sentinel \in Items /\ AtMostOne(q)
  BY DEF Items, Free, AtMostOne
<1>1. /\ a \in Seq(Items) /\ Len(q) \in Nat /\ Len(a) = Len(q) + 1 /\ a[Len(q) + 1] = Sentinel
      /\ \A i \in 1..Len(q) : a[i] = q[i]
  BY <1>0, AppendFacts
<1>2. AtMostOne(a)
  BY <1>0, AppendSentinels
<1>3. JobsIn(q) = q /\ q \in Seq(Jobs) /\ t \in Seq(Jobs)
  BY <1>0, <1>1, <1>2, JobsInPlaces
<1>4. /\ Len(t) = Len(a) - 1
      /\ \A n \in 1 .. Len(a) - 1 : t[n] = IF n < Len(q) + 1 THEN a[n] ELSE a[n + 1]
  <2>1. Len(q) + 1 \in 1..Len(a)
    BY <1>1
  <2> QED BY <1>1, <1>2, <2>1, JobsInPlaces
<1> HIDE DEF a, t
<1>5. Len(t) = Len(q) /\ \A n \in 1..Len(t) : t[n] = q[n]
  BY <1>1, <1>4
<1>6. t = q
  BY <1>3, <1>5, SeqEqual
<1> QED BY <1>3, <1>6 DEF a, t

LEMMA JobsInTail ==
    ASSUME NEW q \in Seq(Items), AtMostOne(q), q # <<>>
    PROVE  /\ Head(q) = Sentinel => JobsIn(Tail(q)) = JobsIn(q)
           /\ Head(q) # Sentinel => Head(q) \in Jobs /\ <<Head(q)>> \o JobsIn(Tail(q)) = JobsIn(q)
<1> DEFINE r == Tail(q)
           s == JobsIn(q)
           t == JobsIn(r)
           u == <<Head(q)>> \o t
<1>1. /\ r \in Seq(Items) /\ Head(q) \in Items /\ Len(q) \in Nat \ {0} /\ Len(r) = Len(q) - 1
      /\ Head(q) = q[1] /\ \A i \in 1 .. Len(q) - 1 : r[i] = q[i + 1]
  BY TailFacts
<1>2. AtMostOne(r) /\ (Free(q) => Free(r)) /\ (Head(q) = Sentinel => Free(r))
  BY TailSentinels
<1>3. s \in Seq(Jobs) /\ t \in Seq(Jobs)
  BY <1>1, <1>2, JobsInPlaces
<1>3a. Len(t) \in Nat
  BY <1>3, LenProperties
<1>4. ASSUME Head(q) = Sentinel PROVE t = s
  <2>1. t = r
    BY <1>1, <1>2, <1>4, JobsInPlaces
  <2>2. /\ Len(s) = Len(q) - 1
        /\ \A n \in 1 .. Len(q) - 1 : s[n] = IF n < 1 THEN q[n] ELSE q[n + 1]
    <3>1. 1 \in 1..Len(q) /\ q[1] = Sentinel
      BY <1>1, <1>4
    <3> QED BY <3>1, JobsInPlaces
  <2> HIDE DEF r, s, t
  <2>3. Len(t) = Len(s) /\ \A n \in 1..Len(t) : t[n] = s[n]
    BY <1>1, <2>1, <2>2
  <2> QED BY <1>3, <2>3, SeqEqual
<1>5. ASSUME Head(q) # Sentinel PROVE Head(q) \in Jobs /\ u = s
  <2>1. Head(q) \in Jobs
    BY <1>1, <1>5 DEF Items
  <2>2. <<Head(q)>> \in Seq(Jobs) /\ Len(<<Head(q)>>) = 1 /\ <<Head(q)>>[1] = Head(q)
    BY <2>1
  <2>3. /\ u \in Seq(Jobs) /\ Len(u) = Len(t) + 1
        /\ \A n \in 1 .. Len(t) + 1 : u[n] = IF n = 1 THEN Head(q) ELSE t[n - 1]
    <3>1. /\ u \in Seq(Jobs) /\ Len(u) = 1 + Len(t)
          /\ \A n \in 1 .. 1 + Len(t) : u[n] = IF n <= 1 THEN <<Head(q)>>[n] ELSE t[n - 1]
      BY <1>3, <2>2, ConcatProperties
    <3> HIDE DEF u, t
    <3> QED BY <1>3a, <2>2, <3>1
  <2>4. CASE Free(q)
    <3>1. s = q /\ t = r
      BY <1>1, <1>2, <2>4, JobsInPlaces DEF AtMostOne
    <3> HIDE DEF u, s, t, r
    <3>2. Len(u) = Len(s)
      BY <1>1, <2>3, <3>1
    <3>3. ASSUME NEW n \in 1..Len(u) PROVE u[n] = s[n]
      <4>1. CASE n = 1
        BY <1>1, <2>3, <3>1, <4>1
      <4>2. CASE n # 1
        <5>1. n - 1 \in 1 .. Len(q) - 1 /\ n - 1 + 1 = n
          BY <1>1, <2>3, <3>1, <3>2, <4>2
        <5>2. r[n - 1] = q[n]
          BY <1>1, <5>1
        <5> QED BY <1>1, <2>3, <3>1, <4>2, <5>2
      <4> QED BY <4>1, <4>2
    <3> QED BY <1>3, <2>1, <2>3, <3>2, <3>3, SeqEqual
  <2>5. CASE ~Free(q)
    <3>1. PICK i \in 1..Len(q) : q[i] = Sentinel
      BY <2>5 DEF Free
    <3>2. i # 1 /\ i - 1 \in 1..Len(r) /\ r[i - 1] = Sentinel
      BY <1>1, <1>5, <3>1
    <3>3. /\ Len(s) = Len(q) - 1
          /\ \A n \in 1 .. Len(q) - 1 : s[n] = IF n < i THEN q[n] ELSE q[n + 1]
      BY <3>1, JobsInPlaces
    <3>4. /\ Len(t) = Len(r) - 1
          /\ \A n \in 1 .. Len(r) - 1 : t[n] = IF n < i - 1 THEN r[n] ELSE r[n + 1]
      BY <1>1, <1>2, <3>2, JobsInPlaces
    <3> HIDE DEF u, s, t, r
    <3>5. Len(u) = Len(s)
      BY <1>1, <2>3, <3>3, <3>4
    <3>6. ASSUME NEW n \in 1..Len(u) PROVE u[n] = s[n]
      <4>1. CASE n = 1
        BY <1>1, <2>3, <3>1, <3>2, <3>3, <3>5, <4>1
      <4>2. CASE n # 1
        <5>1. n - 1 \in 1 .. Len(r) - 1 /\ n \in 1 .. Len(q) - 1 /\ u[n] = t[n - 1]
          BY <1>1, <2>3, <3>4, <4>2
        <5>2. t[n - 1] = IF n - 1 < i - 1 THEN r[n - 1] ELSE r[n]
          BY <1>1, <3>4, <5>1
        <5>3. s[n] = IF n < i THEN q[n] ELSE q[n + 1]
          BY <3>3, <5>1
        <5>4. r[n - 1] = q[n] /\ r[n] = q[n + 1]
          BY <1>1, <5>1
        <5> QED BY <1>1, <5>1, <5>2, <5>3, <5>4
      <4> QED BY <4>1, <4>2
    <3> QED BY <1>3, <2>1, <2>3, <3>5, <3>6, SeqEqual
  <2> QED BY <2>4, <2>5
<1> QED BY <1>4, <1>5

LEMMA RemoveBetween ==
    ASSUME NEW S, NEW a \in Seq(S), NEW b \in Seq(S), NEW q \in Seq(S), NEW i,
           i = Len(a) + 1, Len(q) = i + Len(b),
           \A n \in 1..Len(a) : q[n] = a[n],
           \A n \in 1..Len(b) : q[i + n] = b[n]
    PROVE  RemoveAt(q, i) = a \o b
<1> DEFINE l == SubSeq(q, 1, i - 1)
           r == SubSeq(q, i + 1, Len(q))
<1>1. /\ Len(a) \in Nat /\ Len(b) \in Nat /\ i \in Int /\ Len(q) \in Int
      /\ \A n \in 1..Len(q) : q[n] \in S
  BY LenProperties, ElementOfSeq
<1>2. l = a
  <2>1. \A n \in 1 .. i - 1 : q[n] \in S
    BY <1>1
  <2>2. /\ l \in Seq(S)
        /\ Len(l) = IF 1 <= i - 1 THEN (i - 1) - 1 + 1 ELSE 0
        /\ \A n \in 1 .. (i - 1) - 1 + 1 : l[n] = q[1 + n - 1]
    BY <1>1, <2>1, SubSeqProperties
  <2> HIDE DEF l
  <2>3. Len(l) = Len(a)
    BY <1>1, <2>2
  <2>4. ASSUME NEW n \in 1..Len(l) PROVE l[n] = a[n]
    BY <1>1, <2>2, <2>3
  <2> QED BY <2>2, <2>3, <2>4, SeqEqual
<1>3. r = b
  <2>1. \A n \in i + 1 .. Len(q) : q[n] \in S
    BY <1>1
  <2>2. /\ r \in Seq(S)
        /\ Len(r) = IF i + 1 <= Len(q) THEN Len(q) - (i + 1) + 1 ELSE 0
        /\ \A n \in 1 .. Len(q) - (i + 1) + 1 : r[n] = q[i + 1 + n - 1]
    BY <1>1, <2>1, SubSeqProperties
  <2> HIDE DEF r
  <2>3. Len(r) = Len(b)
    BY <1>1, <2>2
  <2>4. ASSUME NEW n \in 1..Len(r) PROVE r[n] = b[n]
    <3>1. n \in 1 .. Len(q) - (i + 1) + 1 /\ i + 1 + n - 1 = i + n /\ n \in 1..Len(b)
      BY <1>1, <2>3
    <3> QED BY <2>2, <3>1
  <2> QED BY <2>2, <2>3, <2>4, SeqEqual
<1>4. RemoveAt(q, i) = l \o r
  BY DEF RemoveAt
<1> QED BY <1>2, <1>3, <1>4

LEMMA RemoveMiddle ==
    ASSUME NEW S, NEW a \in Seq(S), NEW b \in Seq(S), NEW x \in S
    PROVE  /\ Len(a) + 1 \in DOMAIN ((a \o <<x>>) \o b)
           /\ RemoveAt((a \o <<x>>) \o b, Len(a) + 1) = a \o b
<1> DEFINE c == a \o <<x>>
           m == c \o b
<1>1. Len(a) \in Nat /\ Len(b) \in Nat /\ <<x>> \in Seq(S) /\ Len(<<x>>) = 1 /\ <<x>>[1] = x
  BY LenProperties
<1>2. /\ c \in Seq(S) /\ Len(c) = Len(a) + 1
      /\ \A n \in 1 .. Len(a) + 1 : c[n] = IF n <= Len(a) THEN a[n] ELSE <<x>>[n - Len(a)]
  BY <1>1, ConcatProperties
<1> HIDE DEF c
<1>3. /\ m \in Seq(S) /\ Len(m) = Len(c) + Len(b)
      /\ \A n \in 1 .. Len(c) + Len(b) : m[n] = IF n <= Len(c) THEN c[n] ELSE b[n - Len(c)]
  BY <1>2, ConcatProperties
<1> HIDE DEF m
<1>4. Len(m) = Len(a) + 1 + Len(b) /\ DOMAIN m = 1..Len(m)
  BY <1>1, <1>2, <1>3, LenProperties
<1>5. \A n \in 1..Len(a) : m[n] = a[n]
  BY <1>1, <1>2, <1>3
<1>6. ASSUME NEW n \in 1..Len(b) PROVE m[Len(a) + 1 + n] = b[n]
  <2>1. /\ Len(a) + 1 + n \in 1 .. Len(c) + Len(b) /\ ~(Len(a) + 1 + n <= Len(c))
        /\ Len(a) + 1 + n - Len(c) = n
    BY <1>1, <1>2
  <2> QED BY <1>3, <2>1
<1>7. RemoveAt(m, Len(a) + 1) = a \o b
  BY <1>3, <1>4, <1>5, <1>6, RemoveBetween
<1>8. Len(a) + 1 \in DOMAIN m
  BY <1>1, <1>4
<1> QED BY <1>7, <1>8 DEF m, c

LEMMA ConsFacts ==
    ASSUME NEW S, NEW r \in Seq(S), NEW x \in S
    PROVE  /\ <<x>> \o r \in Seq(S) /\ <<x>> \o r # <<>>
           /\ Head(<<x>> \o r) = x /\ Tail(<<x>> \o r) = r
           /\ 1 \in DOMAIN (<<x>> \o r) /\ RemoveAt(<<x>> \o r, 1) = r
<1> DEFINE s == <<x>> \o r
<1>1. <<x>> \in Seq(S) /\ Len(<<x>>) = 1 /\ <<x>>[1] = x /\ Len(r) \in Nat
  BY LenProperties
<1>2. /\ s \in Seq(S) /\ Len(s) = 1 + Len(r)
      /\ \A n \in 1 .. 1 + Len(r) : s[n] = IF n <= 1 THEN <<x>>[n] ELSE r[n - 1]
  BY <1>1, ConcatProperties
<1>3. <<>> \in Seq(S) /\ Len(<<>>) = 0 /\ <<>> \o <<x>> = <<x>> /\ <<>> \o r = r
  BY <1>1, EmptySeq, ConcatEmptySeq
<1>4. 1 \in DOMAIN s /\ RemoveAt(s, 1) = r
  <2>1. /\ Len(<<>>) + 1 \in DOMAIN ((<<>> \o <<x>>) \o r)
        /\ RemoveAt((<<>> \o <<x>>) \o r, Len(<<>>) + 1) = <<>> \o r
    BY <1>3, RemoveMiddle
  <2>2. Len(<<>>) + 1 = 1
    BY <1>3
  <2> QED BY <1>3, <2>1, <2>2
<1> DEFINE t == Tail(s)
<1> HIDE DEF s
<1>5. s # <<>>
  BY <1>1, <1>2, <1>3
<1>6. Head(s) = x
  <2>1. Head(s) = s[1]
    BY <1>2, <1>5, TailFacts
  <2>2. s[1] = <<x>>[1]
    BY <1>1, <1>2
  <2> QED BY <1>1, <2>1, <2>2
<1>7. t = r
  <2>1. t \in Seq(S) /\ Len(t) = Len(s) - 1 /\ \A i \in 1 .. Len(s) - 1 : t[i] = s[i + 1]
    BY <1>2, <1>5, TailFacts
  <2> HIDE DEF t
  <2>2. Len(t) = Len(r)
    BY <1>1, <1>2, <2>1
  <2>3. ASSUME NEW n \in 1..Len(t) PROVE t[n] = r[n]
    <3>1. n + 1 \in 1 .. 1 + Len(r) /\ ~(n + 1 <= 1) /\ n + 1 - 1 = n /\ n \in 1 .. Len(s) - 1
      BY <1>1, <1>2, <2>2
    <3> QED BY <1>2, <2>1, <3>1
  <2> QED BY <2>1, <2>2, <2>3, SeqEqual
<1> QED BY <1>2, <1>4, <1>5, <1>6, <1>7 DEF s

LEMMA ConcatSet ==
    ASSUME NEW S, NEW a \in Seq(S), NEW b \in Seq(S)
    PROVE  ToSet(a \o b) \subseteq ToSet(a) \cup ToSet(b)
<1> DEFINE c == a \o b
<1>1. Len(a) \in Nat /\ Len(b) \in Nat /\ DOMAIN a = 1..Len(a) /\ DOMAIN b = 1..Len(b)
  BY LenProperties
<1>2. /\ c \in Seq(S) /\ Len(c) = Len(a) + Len(b)
      /\ \A n \in 1 .. Len(a) + Len(b) : c[n] = IF n <= Len(a) THEN a[n] ELSE b[n - Len(a)]
  BY ConcatProperties
<1> HIDE DEF c
<1>3. DOMAIN c = 1 .. Len(a) + Len(b)
  BY <1>2, LenProperties
<1>4. ASSUME NEW n \in 1 .. Len(a) + Len(b) PROVE c[n] \in ToSet(a) \cup ToSet(b)
  <2>1. CASE n <= Len(a)
    BY <1>1, <1>2, <2>1 DEF ToSet
  <2>2. CASE ~(n <= Len(a))
    <3>1. n - Len(a) \in DOMAIN b /\ c[n] = b[n - Len(a)]
      BY <1>1, <1>2, <2>2
    <3> QED BY <3>1 DEF ToSet
  <2> QED BY <2>1, <2>2
<1>5. ToSet(c) \subseteq ToSet(a) \cup ToSet(b)
  BY <1>3, <1>4 DEF ToSet
<1> QED BY <1>5 DEF c

LEMMA JobsInSet ==
    ASSUME NEW q \in Seq(Items), AtMostOne(q)
    PROVE  ToSet(JobsIn(q)) \subseteq ToSet(q)
<1> DEFINE s == JobsIn(q)
<1>1. Len(q) \in Nat /\ DOMAIN q = 1..Len(q)
  BY LenProperties
<1>2. s \in Seq(Jobs) /\ (Free(q) => s = q)
  BY JobsInPlaces
<1>3. ASSUME NEW i \in 1..Len(q), q[i] = Sentinel PROVE ToSet(s) \subseteq ToSet(q)
  <2>1. /\ Len(s) = Len(q) - 1
        /\ \A n \in 1 .. Len(q) - 1 : s[n] = IF n < i THEN q[n] ELSE q[n + 1]
    BY <1>3, JobsInPlaces
  <2>2. DOMAIN s = 1..Len(s)
    BY <1>2, LenProperties
  <2> HIDE DEF s
  <2>3. \A n \in 1 .. Len(q) - 1 : n \in DOMAIN q /\ n + 1 \in DOMAIN q
    BY <1>1
  <2>4. \A n \in DOMAIN s : s[n] \in ToSet(q)
    BY <1>1, <2>1, <2>2, <2>3 DEF ToSet
  <2> QED BY <2>4 DEF ToSet
<1> QED BY <1>2, <1>3 DEF Free

---------------------------------------------------------------------------
(* The stages implement CaptureLog *)

P == JobsIn(persistQ)
E == JobsIn(embedQ)

LEMMA HeldTypes ==
    ASSUME NEW x \in Jobs \cup {Nobody}
    PROVE  Held(x) \in Seq(Jobs) /\ (x = Nobody => Held(x) = <<>>) /\ (x \in Jobs => Held(x) = <<x>>)
BY PipelineAssumption DEF Held

LEMMA LineTypes ==
    ASSUME Types, Sentinels
    PROVE  /\ embedQ \in Seq(Items) /\ persistQ \in Seq(Items)
           /\ P \in Seq(Jobs) /\ E \in Seq(Jobs)
           /\ Held(shand) \in Seq(Jobs) /\ Held(ehand) \in Seq(Jobs)
           /\ Held(shand) \o P \in Seq(Jobs)
           /\ (Held(shand) \o P) \o Held(ehand) \in Seq(Jobs)
           /\ Line = ((Held(shand) \o P) \o Held(ehand)) \o E
           /\ Line \in Seq(Jobs)
<1>1. embedQ \in Seq(Items) /\ persistQ \in Seq(Items)
  BY DEF Types, TypeOK, Items
<1>2. P \in Seq(Jobs) /\ E \in Seq(Jobs)
  BY <1>1, JobsInPlaces DEF Sentinels, P, E
<1>3. Held(shand) \in Seq(Jobs) /\ Held(ehand) \in Seq(Jobs)
  BY HeldTypes DEF Types, TypeOK
<1>4. Held(shand) \o P \in Seq(Jobs)
  BY <1>2, <1>3, ConcatProperties
<1>5. (Held(shand) \o P) \o Held(ehand) \in Seq(Jobs)
  BY <1>3, <1>4, ConcatProperties
<1>6. Line = ((Held(shand) \o P) \o Held(ehand)) \o E
  BY DEF Line, P, E
<1>7. Line \in Seq(Jobs)
  BY <1>2, <1>5, <1>6, ConcatProperties
<1> QED BY <1>1, <1>2, <1>3, <1>4, <1>5, <1>6, <1>7

\* Everything in line is behind the detectors.
LEMMA LineBehind ==
    ASSUME Types, Sentinels
    PROVE  \A j \in Jobs : j \in ToSet(Line) => j \in Behind
<1> DEFINE h == Held(shand)
           k == Held(ehand)
           a == h \o P
           b == a \o k
<1>0. /\ h \in Seq(Jobs) /\ k \in Seq(Jobs) /\ P \in Seq(Jobs) /\ E \in Seq(Jobs)
      /\ a \in Seq(Jobs) /\ b \in Seq(Jobs) /\ Line = b \o E
      /\ embedQ \in Seq(Items) /\ persistQ \in Seq(Items)
  BY LineTypes
<1>3. ToSet(a) \subseteq ToSet(h) \cup ToSet(P)
  BY ONLY <1>0, ConcatSet
<1> HIDE DEF a
<1>2. ToSet(b) \subseteq ToSet(a) \cup ToSet(k)
  BY ONLY <1>0, ConcatSet
<1> HIDE DEF b
<1>1. ToSet(Line) \subseteq ToSet(b) \cup ToSet(E)
  BY ONLY <1>0, ConcatSet
<1>4. ToSet(P) \subseteq ToSet(persistQ) /\ ToSet(E) \subseteq ToSet(embedQ)
  BY <1>0, JobsInSet DEF Sentinels, P, E
<1>5. \A x : ToSet(Held(x)) \subseteq {x}
  BY DEF Held, ToSet
<1> QED BY ONLY <1>1, <1>2, <1>3, <1>4, <1>5 DEF Behind

\* A step that leaves the jobs of every stage where they are.
LEMMA LineStays ==
    ASSUME UNCHANGED <<P, E, shand, ehand>>
    PROVE  UNCHANGED Line
BY DEF Line, P, E

---------------------------------------------------------------------------

LEMMA OfferRefines ==
    ASSUME Types, Sentinels, Fresh, NEW d \in Detectors, Offer(d)
    PROVE  [CapturesInLine!Next]_<<Line, saved>>
<1> DEFINE j == offered[d]
           front == (Held(shand) \o P) \o Held(ehand)
<1>1. j \in Jobs
  BY DEF Offer, Types, TypeOK, Hands
<1>2. UNCHANGED <<persistQ, shand, ehand, saved>>
  BY DEF Offer, embedder, storer
<1>3. embedQ' = embedQ \/ embedQ' = Append(embedQ, j)
  BY DEF Offer, PutNowait
<1>4. CASE embedQ' = embedQ
  <2>1. UNCHANGED Line
    BY <1>2, <1>4, LineStays DEF P, E
  <2> QED BY <1>2, <2>1
<1>5. CASE embedQ' = Append(embedQ, j)
  <2>1. E' = Append(E, j)
    BY <1>1, <1>5, LineTypes, JobsInAppend DEF Sentinels, E
  <2>2. Line' = front \o E'
    BY <1>2 DEF Line, P, E
  <2>3. /\ front \in Seq(Jobs) /\ E \in Seq(Jobs) /\ Line \in Seq(Jobs) /\ Line = front \o E
        /\ <<j>> \in Seq(Jobs)
    BY <1>1, LineTypes
  <2> HIDE DEF front, j
  <2>3a. Append(E, j) = E \o <<j>>
    BY ONLY <1>1, <2>3, AppendIsConcat
  <2>3b. Append(Line, j) = Line \o <<j>>
    BY ONLY <1>1, <2>3, AppendIsConcat
  <2>4. (front \o E) \o <<j>> = front \o (E \o <<j>>)
    BY ONLY <2>3, ConcatAssociative
  <2>5. Line' = Append(Line, j)
    BY ONLY <2>1, <2>2, <2>3, <2>3a, <2>3b, <2>4
  <2> USE DEF j
  <2>6. j # Nobody
    BY <1>1, PipelineAssumption
  <2>7. j \notin ToSet(Line) \cup ToSet(saved)
    BY <1>1, <2>6, LineBehind DEF Fresh, Behind
  <2>8. CapturesInLine!Accept(j)
    BY <1>2, <2>5, <2>7 DEF CapturesInLine!Accept, CapturesInLine!ToSet, ToSet
  <2> QED BY <1>1, <2>8 DEF CapturesInLine!Next
<1> QED BY <1>3, <1>4, <1>5

LEMMA GetEmbedStays ==
    ASSUME Types, Sentinels, GetEmbed
    PROVE  UNCHANGED <<Line, saved>>
<1> DEFINE front == Held(shand) \o P
<1>1. ehand = Nobody /\ embedQ # <<>> /\ embedQ' = Tail(embedQ)
      /\ UNCHANGED <<persistQ, shand, saved>>
  BY DEF GetEmbed, Types, Hands, storer
<1>2. P' = P
  BY <1>1 DEF P
<1>3. CASE Head(embedQ) = Sentinel
  <2>1. ehand' = ehand
    BY <1>3 DEF GetEmbed
  <2>2. E' = E
    BY <1>1, <1>3, LineTypes, JobsInTail DEF Sentinels, E
  <2> QED BY <1>1, <1>2, <2>1, <2>2, LineStays
<1>4. CASE Head(embedQ) # Sentinel
  <2>1. ehand' = Head(embedQ)
    BY <1>4 DEF GetEmbed
  <2>2. Head(embedQ) \in Jobs /\ <<Head(embedQ)>> \o E' = E
    BY <1>1, <1>4, LineTypes, JobsInTail DEF Sentinels, E
  <2>3. Tail(embedQ) \in Seq(Items) /\ AtMostOne(Tail(embedQ))
    BY <1>1, LineTypes, TailFacts, TailSentinels DEF Sentinels
  <2>4. E' \in Seq(Jobs)
    BY <1>1, <2>3, JobsInPlaces DEF E
  <2>5. Held(ehand') = <<Head(embedQ)>> /\ Held(ehand) = <<>> /\ Held(ehand') \in Seq(Jobs)
    BY <1>1, <2>1, <2>2, HeldTypes
  <2>6. Line' = (front \o Held(ehand')) \o E'
    BY <1>1, <1>2 DEF Line, P, E
  <2>7. (front \o Held(ehand')) \o E' = front \o (Held(ehand') \o E')
    BY <2>4, <2>5, LineTypes, ConcatAssociative
  <2>8. front \o <<>> = front
    BY LineTypes, ConcatEmptySeq
  <2> QED BY <1>1, <2>2, <2>5, <2>6, <2>7, <2>8, LineTypes
<1> QED BY <1>3, <1>4

LEMMA GetPersistStays ==
    ASSUME Types, Sentinels, GetPersist
    PROVE  UNCHANGED <<Line, saved>>
<1>1. shand = Nobody /\ persistQ # <<>> /\ persistQ' = Tail(persistQ)
      /\ UNCHANGED <<embedQ, ehand, saved>>
  BY DEF GetPersist, Types, Hands, embedder
<1>2. E' = E
  BY <1>1 DEF E
<1>3. CASE Head(persistQ) = Sentinel
  <2>1. shand' = shand
    BY <1>3 DEF GetPersist
  <2>2. P' = P
    BY <1>1, <1>3, LineTypes, JobsInTail DEF Sentinels, P
  <2> QED BY <1>1, <1>2, <2>1, <2>2, LineStays
<1>4. CASE Head(persistQ) # Sentinel
  <2>1. shand' = Head(persistQ)
    BY <1>4 DEF GetPersist
  <2>2. Head(persistQ) \in Jobs /\ <<Head(persistQ)>> \o P' = P
    BY <1>1, <1>4, LineTypes, JobsInTail DEF Sentinels, P
  <2>3. Held(shand') = <<Head(persistQ)>> /\ Held(shand) = <<>>
    BY <1>1, <2>1, <2>2, HeldTypes
  <2>4. <<>> \o P = P
    BY LineTypes, ConcatEmptySeq
  <2>5. Line' = ((Held(shand') \o P') \o Held(ehand)) \o E
    BY <1>1, <1>2 DEF Line, P, E
  <2> QED BY <1>1, <2>2, <2>3, <2>4, <2>5, LineTypes
<1> QED BY <1>3, <1>4

LEMMA PutPersistStays ==
    ASSUME Types, Sentinels, PutPersist
    PROVE  UNCHANGED <<Line, saved>>
<1>1. ehand \in Jobs /\ ehand' = Nobody /\ persistQ' = Append(persistQ, ehand)
      /\ UNCHANGED <<embedQ, shand, saved>>
  BY DEF PutPersist, Types, TypeOK, Hands, storer
<1>2. P' = Append(P, ehand) /\ E' = E
  BY <1>1, LineTypes, JobsInAppend DEF Sentinels, P, E
<1>3. Append(P, ehand) = P \o <<ehand>> /\ Held(ehand) = <<ehand>> /\ Held(ehand') = <<>>
  BY <1>1, LineTypes, HeldTypes, AppendIsConcat
<1>4. Held(shand) \o (P \o Held(ehand)) = (Held(shand) \o P) \o Held(ehand)
  <2>1. Held(shand) \in Seq(Jobs) /\ P \in Seq(Jobs) /\ Held(ehand) \in Seq(Jobs)
    BY LineTypes
  <2> QED BY ONLY <2>1, ConcatAssociative
<1>5. ((Held(shand) \o P) \o Held(ehand)) \o <<>> = (Held(shand) \o P) \o Held(ehand)
  BY LineTypes, ConcatEmptySeq
<1>6. Line' = ((Held(shand) \o P') \o Held(ehand')) \o E
  BY <1>1, <1>2 DEF Line, P, E
<1> QED BY <1>1, <1>2, <1>3, <1>4, <1>5, <1>6, LineTypes

\* The embedding worker gives its capture up.
LEMMA EmbedderLoses ==
    ASSUME Types, Sentinels, ehand \in Jobs, ehand' = Nobody,
           UNCHANGED <<embedQ, persistQ, shand, saved>>
    PROVE  CapturesInLine!Next
<1> DEFINE front == Held(shand) \o P
<1>1. Held(ehand) = <<ehand>> /\ Held(ehand') = <<>>
  BY HeldTypes
<1>2. Len(front) + 1 \in DOMAIN Line /\ RemoveAt(Line, Len(front) + 1) = front \o E
  <2>1. front \in Seq(Jobs) /\ E \in Seq(Jobs) /\ Line = (front \o <<ehand>>) \o E
    BY <1>1, LineTypes
  <2> HIDE DEF front
  <2> QED BY <2>1, RemoveMiddle
<1>3. Line' = (front \o <<>>) \o E
  BY <1>1 DEF Line, P, E
<1>4. front \o <<>> = front
  BY LineTypes, ConcatEmptySeq
<1>5. CapturesInLine!Lose
  BY <1>2, <1>3, <1>4 DEF CapturesInLine!Lose, CapturesInLine!RemoveAt, RemoveAt
<1> QED BY <1>5 DEF CapturesInLine!Next

LEMMA PersistRefines ==
    ASSUME Types, Sentinels, Persist
    PROVE  CapturesInLine!Next
<1> DEFINE rest == (P \o Held(ehand)) \o E
<1>1. shand \in Jobs /\ shand' = Nobody /\ UNCHANGED <<embedQ, persistQ, ehand>>
  BY DEF Persist, Types, TypeOK, Hands, embedder
<1>2. Held(shand) = <<shand>> /\ Held(shand') = <<>> /\ <<shand>> \in Seq(Jobs)
  BY <1>1, HeldTypes
<1>3. P \o Held(ehand) \in Seq(Jobs) /\ rest \in Seq(Jobs)
  BY LineTypes, ConcatProperties
<1>4. Line = <<shand>> \o rest
  <2>1. (<<shand>> \o P) \o Held(ehand) = <<shand>> \o (P \o Held(ehand))
    BY <1>2, LineTypes, ConcatAssociative
  <2>2. (<<shand>> \o (P \o Held(ehand))) \o E = <<shand>> \o rest
    BY <1>2, <1>3, LineTypes, ConcatAssociative
  <2> QED BY <1>2, <2>1, <2>2, LineTypes
<1>5. Line' = rest
  <2>1. Line' = ((<<>> \o P) \o Held(ehand)) \o E
    BY <1>1, <1>2 DEF Line, P, E
  <2>2. <<>> \o P = P
    BY LineTypes, ConcatEmptySeq
  <2> QED BY <2>1, <2>2
<1> HIDE DEF rest
<1>6. /\ Line # <<>> /\ Head(Line) = shand /\ Tail(Line) = rest
      /\ 1 \in DOMAIN Line /\ RemoveAt(Line, 1) = rest
  BY <1>1, <1>3, <1>4, ConsFacts
<1>7. CASE saved' = Append(saved, shand)
  BY <1>5, <1>6, <1>7 DEF CapturesInLine!Next, CapturesInLine!Commit
<1>8. CASE saved' = saved
  BY <1>5, <1>6, <1>8
  DEF CapturesInLine!Next, CapturesInLine!Lose, CapturesInLine!RemoveAt, RemoveAt
<1> QED BY <1>7, <1>8 DEF Persist

LEMMA SentinelStays ==
    ASSUME Types, Sentinels, StopEmbedding \/ StopStorage
    PROVE  UNCHANGED <<Line, saved>>
<1> USE LineTypes
<1>1. UNCHANGED <<shand, ehand, saved>>
  BY DEF StopEmbedding, StopStorage, embedder, storer
<1>2. CASE StopEmbedding
  <2>1. embedQ' = Append(embedQ, Sentinel) /\ persistQ' = persistQ /\ Free(embedQ)
    BY <1>2 DEF StopEmbedding, Sentinels
  <2>2. E' = E /\ P' = P
    BY <2>1, JobsInEnd DEF E, P
  <2> QED BY <1>1, <2>2, LineStays
<1>3. CASE StopStorage
  <2>1. persistQ' = Append(persistQ, Sentinel) /\ embedQ' = embedQ /\ Free(persistQ)
    BY <1>3 DEF StopStorage, Sentinels
  <2>2. E' = E /\ P' = P
    BY <2>1, JobsInEnd DEF E, P
  <2> QED BY <1>1, <2>2, LineStays
<1> QED BY <1>2, <1>3

---------------------------------------------------------------------------

LEMMA InitRefines == Init => CapturesInLine!Init
<1> SUFFICES ASSUME Init PROVE Line = <<>> /\ saved = <<>>
  BY DEF CapturesInLine!Init
<1>1. Types /\ Sentinels
  BY InitTypes, InitSentinels
<1>2. JobsIn(<<>>) = <<>>
  BY DEF JobsIn
<1>3. Held(shand) = <<>> /\ Held(ehand) = <<>> /\ P = <<>> /\ E = <<>>
  BY <1>2 DEF Init, Held, P, E
<1>4. <<>> \o <<>> = <<>>
  BY EmptySeq, ConcatEmptySeq
<1> QED BY <1>1, <1>3, <1>4, LineTypes DEF Init

LEMMA StepRefines ==
    Types /\ Sentinels /\ Fresh /\ [Next]_vars => [CapturesInLine!Next]_<<Line, saved>>
<1> SUFFICES ASSUME Types, Sentinels, Fresh, [Next]_vars
             PROVE  [CapturesInLine!Next]_<<Line, saved>>
  OBVIOUS
<1>1. ASSUME NEW d \in Detectors, Offer(d) PROVE [CapturesInLine!Next]_<<Line, saved>>
  BY <1>1, OfferRefines
<1>2. CASE GetEmbed \/ GetPersist \/ PutPersist \/ StopEmbedding \/ StopStorage
  BY <1>2, GetEmbedStays, GetPersistStays, PutPersistStays, SentinelStays
<1>3. CASE DropEmbedded \/ (Embed /\ ehand' = Nobody)
  <2>1. ehand \in Jobs /\ ehand' = Nobody /\ UNCHANGED <<embedQ, persistQ, shand, saved>>
    BY <1>3 DEF DropEmbedded, Embed, Types, TypeOK, Hands, storer
  <2> QED BY <2>1, EmbedderLoses
<1>4. CASE Persist
  BY <1>4, PersistRefines
<1>5. ASSUME UNCHANGED <<embedQ, persistQ, shand, ehand, saved>>
      PROVE  [CapturesInLine!Next]_<<Line, saved>>
  BY <1>5, LineStays DEF P, E
<1>6. CASE Embed /\ ehand' # Nobody
  BY <1>5, <1>6 DEF Embed, storer
<1>7. CASE Signal \/ JoinDetectors \/ JoinEmbedding \/ JoinStorage \/ Close
  BY <1>5, <1>7
  DEF Signal, JoinDetectors, JoinEmbedding, JoinStorage, Close, embedder, storer
<1>8. ASSUME NEW d \in Detectors,
             StartFrame(d) \/ Capture(d) \/ EndFrame(d) \/ ExitDetector(d)
      PROVE  [CapturesInLine!Next]_<<Line, saved>>
  BY <1>5, <1>8 DEF StartFrame, Capture, EndFrame, ExitDetector, embedder, storer
<1>9. CASE UNCHANGED vars
  BY <1>5, <1>9 DEF vars, embedder, storer
<1> QED
  BY <1>1, <1>2, <1>3, <1>4, <1>6, <1>7, <1>8, <1>9
  DEF Next, Detection, Embedding, Storage, Stop

\* The stages behind the detectors save accepted captures in order, each at most
\* once, whatever fails and however stop() goes (EmbeddingWorker, StorageWorker).
THEOREM InLine == Spec => KeepsLine
<1>1. Spec => []Fresh
  BY Typed, InitFresh, StepFresh, PTL DEF Spec
<1> QED
  BY <1>1, Typed, AllSentinels, InitRefines, StepRefines, PTL
  DEF Spec, KeepsLine, CapturesInLine!Spec
==============================================================================
