---------------------------- MODULE CaptureZone ----------------------------
(***************************************************************************)
(* The capture zone of each camera: a polygon in memory, which the         *)
(* detection worker tests faces against, and its copy in                   *)
(* database/zone-<id>.json.  Request threads edit both, first the memory   *)
(* and then the file, which is written in place.                           *)
(*                                                                         *)
(* A polygon is a name; a face is the set of polygons its centre lies in.  *)
(***************************************************************************)
EXTENDS FiniteSets

CONSTANTS
    Cameras,        \* ids a camera may have
    Polygons,       \* valid polygons with three or more vertices
    Editors,        \* request threads that serve PUT and DELETE /api/zone
    Default,        \* CAPTURE_ZONE, parsed
    Legacy          \* zone.json of a single-camera version, if there is one

Off == "off"
Zones == Polygons \cup {Off}

Missing == "missing"
Empty == "empty"    \* opened for writing and not yet written
Mixed == "mixed"    \* the longer text of another edit behind the shorter one

Contents == Zones \cup {Missing, Empty, Mixed}

ASSUME ZoneAssumption ==
    /\ Cameras # {}
    /\ {Off, Missing, Empty, Mixed} \cap Polygons = {}
    /\ Default \in Zones /\ Legacy \in Contents

NoCache == "none"

VARIABLES
    cams,       \* cameras table
    running,    \* cameras this process was started with
    mem,        \* CaptureZone._norm_points
    cache,      \* CaptureZone._cache, for the one frame size of the stream
    file,       \* zone-<id>.json
    epc,        \* next step of each edit
    edit,       \* what it was asked for: <<camera, zone>>
    asked,      \* the test under way, or the last one: <<camera, face>>
    testing,    \* it has found the zone enabled
    answer,
    held,       \* history: zones the camera has had since the test began
    spoiled     \* history: cameras whose last edits overlapped or failed

request == <<epc, edit>>
test == <<asked, testing, answer, held>>
vars == <<cams, running, mem, cache, file, request, test, spoiled>>

FaceBoxes == SUBSET Polygons

TypeOK ==
    /\ cams \subseteq Cameras /\ running \subseteq Cameras
    /\ mem \in [Cameras -> Zones]
    /\ cache \in [Cameras -> Zones \cup {NoCache}]
    /\ file \in [Cameras -> Contents]
    /\ epc \in [Editors -> {"idle", "truncate", "write"}]
    /\ edit \in [Editors -> Cameras \X Zones]
    /\ asked \in Cameras \X FaceBoxes
    /\ testing \in BOOLEAN
    /\ answer \in {"none", "inside", "outside"}
    /\ held \subseteq Zones
    /\ spoiled \subseteq Cameras

---------------------------------------------------------------------------
(* Pipeline._load_zone_points, at start *)

LoadLegacyFirst(k) ==
    LET text == IF Legacy # Missing THEN Legacy ELSE file[k]
    IN  IF text \in Zones THEN text ELSE Default

\* A file without sense gives the default, not the zone of the old version.
Load(k) ==
    LET text == IF file[k] = Missing THEN Legacy ELSE file[k]
    IN  IF text \in Zones THEN text ELSE Default

Rest == <<CHOOSE k \in Cameras : TRUE, {}>>
Idle == <<CHOOSE k \in Cameras : TRUE, Off>>

Init ==
    /\ cams = Cameras /\ running = Cameras
    /\ file \in [Cameras -> {Missing} \cup Zones]
    /\ mem = [k \in Cameras |-> Load(k)]
    /\ cache = [k \in Cameras |-> NoCache]
    /\ epc = [e \in Editors |-> "idle"]
    /\ edit = [e \in Editors |-> Idle]
    /\ asked = Rest /\ testing = FALSE /\ answer = "none" /\ held = {}
    /\ spoiled = {}

---------------------------------------------------------------------------
(* Pipeline.set_capture_zone *)

Editing(k) == { e \in Editors : epc[e] # "idle" /\ edit[e][1] = k }

SetPointsKeepingCache(k, z) ==
    /\ mem' = [mem EXCEPT ![k] = z]
    /\ UNCHANGED cache

SetPoints(k, z) ==
    /\ mem' = [mem EXCEPT ![k] = z]
    /\ cache' = [cache EXCEPT ![k] = NoCache]

\* Invalid polygons and unknown cameras have been refused; a deleted camera is
\* known until the restart.
SetZone(e) ==
    /\ epc[e] = "idle"
    /\ \E k \in running, z \in Zones :
        /\ SetPoints(k, z)
        /\ edit' = [edit EXCEPT ![e] = <<k, z>>]
        /\ spoiled' = IF Editing(k) = {} THEN spoiled \ {k} ELSE spoiled \cup {k}
        /\ held' = IF testing /\ asked[1] = k THEN held \cup {z} ELSE held
    /\ epc' = [epc EXCEPT ![e] = "truncate"]
    /\ UNCHANGED <<cams, running, file, asked, testing, answer>>

\* write_text opens the file, which empties it, ...
Truncate(e) ==
    /\ epc[e] = "truncate"
    /\ \/ /\ file' = [file EXCEPT ![edit[e][1]] = Empty]
          /\ epc' = [epc EXCEPT ![e] = "write"]
          /\ UNCHANGED <<edit, spoiled>>
       \/ /\ epc' = [epc EXCEPT ![e] = "idle"]
          /\ edit' = [edit EXCEPT ![e] = Idle]
          /\ spoiled' = spoiled \cup {edit[e][1]}
          /\ UNCHANGED file
    /\ UNCHANGED <<cams, running, mem, cache, test>>

\* ... and writes from its start, over what another edit may have written.
Write(e) ==
    /\ epc[e] = "write"
    /\ LET k == edit[e][1]
       IN  \/ /\ file' = [file EXCEPT ![k] = edit[e][2]]
              /\ UNCHANGED spoiled
           \/ /\ file[k] \notin {Empty, edit[e][2]}
              /\ file' = [file EXCEPT ![k] = Mixed]
              /\ UNCHANGED spoiled
           \/ /\ spoiled' = spoiled \cup {k}
              /\ UNCHANGED file
    /\ epc' = [epc EXCEPT ![e] = "idle"]
    /\ edit' = [edit EXCEPT ![e] = Idle]
    /\ UNCHANGED <<cams, running, mem, cache, test>>

---------------------------------------------------------------------------
(* CaptureZone.contains_bbox, in the detection worker: two locked reads *)

\* A zone that is off contains every face.
Enabled ==
    /\ ~testing
    /\ \E k \in running, b \in FaceBoxes :
        /\ asked' = <<k, b>>
        /\ held' = {mem[k]}
        /\ testing' = (mem[k] # Off)
        /\ answer' = IF mem[k] = Off THEN "inside" ELSE "none"
    /\ UNCHANGED <<cams, running, mem, cache, file, request, spoiled>>

\* No face lies in the polygon of a zone that has been cleared by now.
TestPolygon ==
    /\ testing
    /\ LET k == asked[1]
           polygon == IF cache[k] # NoCache THEN cache[k] ELSE mem[k]
       IN  /\ cache' = [cache EXCEPT ![k] = polygon]
           /\ answer' = IF polygon \in asked[2] THEN "inside" ELSE "outside"
    /\ testing' = FALSE
    /\ UNCHANGED <<cams, running, mem, file, request, asked, held, spoiled>>

---------------------------------------------------------------------------
(* Cameras come and go in the table; the process follows at its next start.  *)
(* Nobody removes the zone file of a deleted camera.                         *)

AddCamera(k) ==
    /\ k \notin cams
    /\ cams' = cams \cup {k}
    /\ UNCHANGED <<running, mem, cache, file, request, test, spoiled>>

DeleteCamera(k) ==
    /\ k \in cams
    /\ cams' = cams \ {k}
    /\ UNCHANGED <<running, mem, cache, file, request, test, spoiled>>

\* An orderly restart, or a crash at any step of an edit.
Restart ==
    /\ running' = cams
    /\ mem' = [k \in Cameras |-> IF k \in cams THEN Load(k) ELSE Off]
    /\ cache' = [k \in Cameras |-> NoCache]
    /\ epc' = [e \in Editors |-> "idle"]
    /\ edit' = [e \in Editors |-> Idle]
    /\ asked' = Rest /\ testing' = FALSE /\ answer' = "none" /\ held' = {}
    /\ spoiled' = {}
    /\ UNCHANGED <<cams, file>>

Next ==
    \/ \E e \in Editors : SetZone(e) \/ Truncate(e) \/ Write(e)
    \/ Enabled \/ TestPolygon
    \/ \E k \in Cameras : AddCamera(k) \/ DeleteCamera(k)
    \/ Restart

Spec == Init /\ [][Next]_vars

---------------------------------------------------------------------------
(* Properties *)

\* A restart brings back the zone a camera has, unless an edit is under way,
\* or its last edits overlapped or failed to write (api/zone.py:4, "persists
\* across restarts").
SurvivesRestart ==
    \A k \in running :
        Editing(k) = {} /\ k \notin spoiled => Load(k) = mem[k]

\* A face is captured only if some zone the camera had during the test
\* contains it, and refused only if some does not or the zone was cleared
\* under the test (zone.py:45-67).
VerdictFair ==
    /\ answer = "inside" => Off \in held \/ held \cap asked[2] # {}
    /\ answer = "outside" => Off \in held \/ held \ asked[2] # {}
============================================================================
