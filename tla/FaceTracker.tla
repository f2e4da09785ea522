----------------------------- MODULE FaceTracker -----------------------------
(***************************************************************************)
(* DetectionWorker._process_frame: the detections of a frame update the    *)
(* ByteTracker, then the capture policy visits the confirmed tracks seen in*)
(* the frame, oldest first, and offers those that are due to the embed     *)
(* queue.  Boxes are abstracted to how far a track's predicted box overlaps*)
(* each face: any overlaps may come next.                                  *)
(***************************************************************************)
EXTENDS Naturals, FiniteSetsExt, Functions

CONSTANTS
    MaxFaces,   \* faces in view at once (bound)
    MinHits,    \* TRACK_MIN_HITS
    MaxLost,    \* TRACK_MAX_LOST_FRAMES
    Overlaps,   \* the values an IoU takes
    MatchIou,   \* TRACK_MATCH_IOU
    Interval,   \* SAVE_INTERVAL_SECONDS
    MaxTracks, MaxClock     \* bounds

ASSUME TrackerAssumption ==
    /\ MaxFaces \in Nat /\ MaxLost \in Nat /\ MaxTracks \in Nat
    /\ MaxClock \in Nat \ {0}
    /\ MinHits \in Nat \ {0} /\ Interval \in Nat \ {0}
    /\ Overlaps \subseteq Nat /\ 0 \in Overlaps
    /\ MatchIou \in Nat \ {0}

Ids == 1..MaxTracks

Track == [hits : 1..MinHits,        \* counted no further than MinHits
          missed : 0..MaxLost,      \* frames_since_update
          state : {"tentative", "confirmed"},
          saved : 0..MaxClock]      \* last_saved_at, 0 for never

VARIABLES
    tracks,     \* the tracks alive, by id
    nextId,
    todo,       \* tracks of this frame the policy has still to visit
    clock,
    shotAt,     \* history: when a capture of the track was last queued
    faulted,    \* history: tracks whose timer was last set by a failed capture
    clear,      \* history: tracks that met a face of their own in this frame
    met         \* history: how many faces were detected in this frame

Alive == DOMAIN tracks

history == <<shotAt, faulted, clear, met>>
vars == <<tracks, nextId, todo, clock, history>>

Scores == {"good", "faint"}

TypeOK ==
    /\ Alive \subseteq 1..(nextId - 1)
    /\ tracks \in [Alive -> Track]
    /\ nextId \in 1..(MaxTracks + 1)
    /\ todo \subseteq Alive
    /\ clock \in 1..MaxClock
    /\ shotAt \in [Ids -> 0..MaxClock]
    /\ faulted \subseteq Ids
    /\ clear \subseteq Ids /\ met \in Nat

Init ==
    /\ tracks = [t \in {} |-> 0] /\ nextId = 1
    /\ todo = {} /\ clock = 1
    /\ shotAt = [t \in Ids |-> 0] /\ faulted = {}
    /\ clear = {} /\ met = 0

Smaller(a, b) == IF a < b THEN a ELSE b

---------------------------------------------------------------------------
(* ByteTracker.update *)

\* What a frame shows: faces, their scores, their overlap with each track.
Scenes == UNION { [score : [1..n -> Scores], iou : [Alive \X (1..n) -> Overlaps]]
                  : n \in 0..MaxFaces }

Faces(scene) == DOMAIN scene.score

\* detect() keeps what reaches the confidence that the tracker calls high.
Detected(scene) == { f \in Faces(scene) : scene.score[f] = "good" }

\* Every way to pair as many as possible, no one twice.
Pairings(ts, fs) ==
    LET size == Smaller(Cardinality(ts), Cardinality(fs))
    IN  { m \in kSubset(size, ts \X fs) :
            \A p, q \in m : p # q => p[1] # q[1] /\ p[2] # q[2] }

AssociationsStrict(ts, fs, iou) ==
    LET total(m) == SumFunctionOnSet(iou, m)
        best == { m \in Pairings(ts, fs) :
                    \A other \in Pairings(ts, fs) : total(other) <= total(m) }
    IN  { { p \in m : iou[p] > MatchIou } : m \in best }

\* linear_sum_assignment: the pairings with the largest total overlap; of
\* theirs, the pairs that overlap enough count.
Associations(ts, fs, iou) ==
    LET total(m) == SumFunctionOnSet(iou, m)
        best == { m \in Pairings(ts, fs) :
                    \A other \in Pairings(ts, fs) : total(other) <= total(m) }
    IN  { { p \in m : iou[p] >= MatchIou } : m \in best }

RightForgotten(m) == {}

Left(m) == { p[1] : p \in m }
Right(m) == { p[2] : p \in m }

Fresh == [hits |-> 1, missed |-> 0, state |-> "tentative", saved |-> 0]

\* Track.apply() and the ageing of tracks that met no detection.
Advanced(t, matched) ==
    IF t \in matched
      THEN [tracks[t] EXCEPT !.hits = Smaller(@ + 1, MinHits), !.missed = 0]
      ELSE [tracks[t] EXCEPT !.missed = @ + 1]

Confirmed(track) ==
    IF track.missed = 0 /\ track.hits >= MinHits
      THEN [track EXCEPT !.state = "confirmed"]
      ELSE track

LostTentativeOnly(track) == track.state = "tentative" /\ track.missed > 3

\* A tentative track outlives three missed frames.
Lost(track) ==
    \/ track.missed > MaxLost
    \/ (track.state = "tentative" /\ track.missed > 3)

NewIds(count) == nextId..(nextId + count - 1)

\* Tracks with a detected face that overlap each other enough and no one else.
Clear(scene) ==
    { p[1] : p \in { p \in Alive \X Detected(scene) :
                /\ scene.iou[p] >= MatchIou
                /\ \A q \in Alive \X Faces(scene) :
                      (q # p /\ (q[1] = p[1] \/ q[2] = p[2])) => scene.iou[q] = 0 } }

\* Tracks that met a detection, tracks for the detections left over, and what
\* becomes of each.
Update(matched, new) ==
    LET next == [t \in Alive \cup new |->
                   Confirmed(IF t \in new THEN Fresh ELSE Advanced(t, matched))]
    IN  /\ new \subseteq Ids
        /\ nextId' = nextId + Cardinality(new)
        /\ tracks' = Restrict(next, { t \in Alive \cup new : ~Lost(next[t]) })
        /\ todo' = { t \in DOMAIN tracks' :
                       tracks'[t].state = "confirmed" /\ tracks'[t].missed = 0 }

Frame ==
    /\ todo = {}
    /\ \E scene \in Scenes :
         LET high == { f \in Detected(scene) : scene.score[f] = "good" }
             low == Detected(scene) \ high
         IN  \E m1 \in Associations(Alive, high, scene.iou) :
             \E m2 \in Associations(Alive \ Left(m1), low, scene.iou) :
                /\ Update(Left(m1) \cup Left(m2), NewIds(Cardinality(high \ Right(m1))))
                /\ clear' = Clear(scene)
                /\ met' = Cardinality(Detected(scene))
    /\ UNCHANGED <<clock, shotAt, faulted>>

---------------------------------------------------------------------------
(* The capture policy.  A frame has one time, read before the loop. *)

Turn(t) == todo # {} /\ t = Min(todo)

DueAlways(t) == TRUE

Due(t) == tracks[t].saved = 0 \/ clock >= tracks[t].saved + Interval

\* Not due, outside the zone, or not good enough: the timer is untouched.
PassOver(t) ==
    /\ Turn(t)
    /\ todo' = todo \ {t}
    /\ UNCHANGED <<tracks, nextId, clock, history>>

Capture(t) ==
    /\ Turn(t) /\ Due(t)
    /\ tracks' = [tracks EXCEPT ![t].saved = clock]
    /\ shotAt' = [shotAt EXCEPT ![t] = clock]
    /\ faulted' = faulted \ {t}
    /\ todo' = todo \ {t}
    /\ UNCHANGED <<nextId, clock, clear, met>>

QueueFullCharged(t) ==
    /\ Turn(t) /\ Due(t)
    /\ tracks' = [tracks EXCEPT ![t].saved = clock]
    /\ todo' = todo \ {t}
    /\ UNCHANGED <<nextId, clock, history>>

QueueFull(t) ==
    /\ Turn(t) /\ Due(t)
    /\ tracks' = [tracks EXCEPT ![t].saved = 0]
    /\ faulted' = faulted \ {t}
    /\ todo' = todo \ {t}
    /\ UNCHANGED <<nextId, clock, shotAt, clear, met>>

\* An exception ends the frame, with the timer already set or not.
CaptureFails(t) ==
    /\ Turn(t) /\ Due(t)
    /\ \/ UNCHANGED <<tracks, faulted>>
       \/ /\ tracks' = [tracks EXCEPT ![t].saved = clock]
          /\ faulted' = faulted \cup {t}
    /\ todo' = {}
    /\ UNCHANGED <<nextId, clock, shotAt, clear, met>>

Tick ==
    /\ todo = {} /\ clock < MaxClock
    /\ clock' = clock + 1
    /\ UNCHANGED <<tracks, nextId, todo, history>>

Policy(t) == PassOver(t) \/ Capture(t) \/ QueueFull(t) \/ CaptureFails(t)

Next == Frame \/ Tick \/ \E t \in todo : Policy(t)

Spec == Init /\ [][Next]_vars

---------------------------------------------------------------------------
(* Properties *)

\* Captures of one track are at least SAVE_INTERVAL_SECONDS apart, whatever
\* the queue refused in between (workers.py:144-191, CONFIGURATION.md:40).
Spaced ==
    [][\A t \in Ids :
          shotAt'[t] # shotAt[t] /\ shotAt[t] # 0 => shotAt'[t] >= shotAt[t] + Interval]_vars

\* A running timer was set when a capture was queued, or by a frame that an
\* exception ended before it could queue one; a capture the queue refuses does
\* not make the face wait.  That the exception does is left as the code has it
\* (workers.py:164-191).
TimerMeansShot ==
    \A t \in Alive :
        tracks[t].saved # 0 => tracks[t].saved = shotAt[t] \/ t \in faulted

\* A face that overlaps its track enough, with nobody else near, keeps its
\* Track ID; the assignment of the others cannot take it (tracker.py:149-174).
KeepsIdentity ==
    \A t \in clear : t \in Alive /\ tracks[t].missed = 0

\* Every face detected in a frame is carried on by one track and by no second
\* one, so tracks do not pile up faster than faces appear (tracker.py:112-147).
OneTrackPerFace ==
    Cardinality({ t \in Alive : tracks[t].missed = 0 }) = met

\* A track that begins has a Track ID under which no capture was queued before,
\* however many tracks were lost: what is stored under one ID while the worker
\* runs comes from one track (tracker.py:127-147, workers.py:170-182).
NoSharedIds ==
    [][\A t \in DOMAIN tracks' \ Alive : shotAt[t] = 0]_vars

==============================================================================
