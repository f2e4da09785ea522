---------------------------- MODULE FaceStore ----------------------------
(***************************************************************************)
(* The captured-face store: SQLite rows and duplicate links, the FAISS     *)
(* index with its copy on disk, and the image files.  The storage worker   *)
(* (workers.StorageWorker._persist) writes them one after the other; API   *)
(* requests (delete a face, purge, delete a camera) take them apart again  *)
(* from other threads, and no lock spans two of the stores.                *)
(*                                                                         *)
(* A capture stands for one PersistJob: its uuid, its files, its           *)
(* embedding.  SQLite hands out max(rowid)+1, so a face id is used again   *)
(* once the newest row is deleted.                                         *)
(***************************************************************************)
EXTENDS Integers, FiniteSets

CONSTANTS
    MaxCaptures,    \* captures that reach the storage worker (bound)
    Cameras,        \* ids a camera may have
    CameraOf,       \* the camera each capture comes from
    Framed,         \* captures that carry a full-frame JPEG
    Similar,        \* pairs whose similarity reaches DUPLICATE_THRESHOLD
    Windows,        \* capture sets a time-scoped purge may cover
    Handlers,       \* API request threads
    Requests,       \* kinds of request the handlers serve
    MaxStarts,      \* how often the process may stop or crash and start again
    DiskFaults      \* TRUE when reading, writing or unlinking a file may fail

Captures == 1..MaxCaptures

\* SQLite never goes beyond one id per insertion.
FaceIds == Captures

NoFace == 0
NoCamera == 0

ASSUME FaceStoreAssumption ==
    /\ MaxCaptures \in Nat
    /\ CameraOf \in [Captures -> Cameras]
    /\ Framed \subseteq Captures
    /\ Similar \subseteq Captures \X Captures
    /\ Windows \subseteq SUBSET Captures
    /\ Requests \subseteq {"face", "window", "all", "camera"}
    /\ MaxStarts \in Nat
    /\ DiskFaults \in BOOLEAN
    /\ Cameras \subseteq Nat \ {0}
    /\ 1 \in Cameras

VARIABLES
    rows,       \* faces table: id -> capture, NoFace where there is no row
    links,      \* duplicate_links table: <<face_id, matched_face_id>>
    cams,       \* cameras table
    index,      \* FAISS index in memory: <<face id, capture>>
    disk,       \* faces.faiss on disk
    dirty,      \* VectorStore._dirty
    files,      \* files under storage/: <<capture, kind>>
    streaming,  \* cameras whose CameraPipeline runs in this process
    todo,       \* captures not yet taken by the storage worker
    pc,         \* next step of StorageWorker._persist
    job,        \* capture it holds
    dups,       \* `duplicates`: ids found, links not yet inserted
    face,       \* id of the row it inserted
    hpc,        \* next step of each request
    op,         \* what each request was asked for
    listed,     \* rows a request read: <<id, capture>>
    seen,       \* links it read with them
    evict,      \* listed rows whose vector is still to be removed
    unlink,     \* captures whose files are still to be unlinked
    starts,     \* starts after the first one
    torn,       \* history: captures whose id a request had in hand before their
                \* vector was there, or whose vector outlived their row
    lost,       \* history: captures whose vector was refused, unsaved or unreadable
    littered    \* history: captures whose files were left behind

database == <<rows, links, cams>>
store == <<index, disk, dirty>>
worker == <<todo, pc, job, dups, face>>
requests == <<hpc, op, listed, seen, evict, unlink>>
history == <<starts, torn, lost, littered>>
vars == <<database, store, files, streaming, worker, requests, history>>

Kinds == {"image", "thumb", "frame", "npy"}

WorkerSteps == {"idle", "crop", "frame", "npy", "search", "insert", "link", "add", "flush"}
HandlerSteps == {"idle", "commit", "evict", "reset", "flush", "unlink", "camera"}

NoOp == [kind |-> "none", cam |-> NoCamera]
Ops == [kind : Requests \cup {"none"}, cam : Cameras \cup {NoCamera}]

TypeOK ==
    /\ rows \in [FaceIds -> Captures \cup {NoFace}]
    /\ links \subseteq FaceIds \X FaceIds
    /\ cams \subseteq Cameras
    /\ index \subseteq FaceIds \X Captures
    /\ disk \subseteq FaceIds \X Captures
    /\ dirty \in BOOLEAN
    /\ files \subseteq Captures \X Kinds
    /\ streaming \subseteq Cameras
    /\ todo \subseteq Captures
    /\ pc \in WorkerSteps
    /\ job \in Captures \cup {NoFace}
    /\ dups \subseteq FaceIds
    /\ face \in FaceIds \cup {NoFace}
    /\ hpc \in [Handlers -> HandlerSteps]
    /\ op \in [Handlers -> Ops]
    /\ listed \in [Handlers -> SUBSET (FaceIds \X Captures)]
    /\ seen \in [Handlers -> SUBSET (FaceIds \X FaceIds)]
    /\ evict \in [Handlers -> SUBSET (FaceIds \X Captures)]
    /\ unlink \in [Handlers -> SUBSET Captures]
    /\ starts \in 0..MaxStarts
    /\ torn \subseteq Captures
    /\ lost \subseteq Captures
    /\ littered \subseteq Captures

---------------------------------------------------------------------------
(* The database *)

Present(i) == rows[i] # NoFace

\* max(rowid) + 1, or 1 in an empty table.
IsNextId(n) ==
    /\ \A i \in FaceIds : Present(i) => i < n
    /\ n = 1 \/ \E i \in FaceIds : Present(i) /\ n = i + 1

\* The captured faces by id, in the form of the index.
Entries == {<<i, rows[i]>> : i \in {j \in FaceIds : Present(j)}}

Stored == {rows[i] : i \in FaceIds}

Ids(S) == {e[1] : e \in S}

CapturesOf(S) == {e[2] : e \in S}

\* Row written, vector not yet added.
InFlight == IF pc \in {"link", "add"} THEN {<<face, job>>} ELSE {}

\* Pipeline.__init__ seeds a camera whenever it finds the table empty.
Seeded(cs) == IF cs = {} THEN {1} ELSE cs

---------------------------------------------------------------------------
(* VectorStore, each operation under its lock *)

AddVector(i, c) ==
    /\ index' = index \cup {<<i, c>>}
    /\ dirty' = TRUE

\* A removal by range in place of one id.
RemoveVectorsFrom(i) == index' = {v \in index : v[1] < i} /\ dirty' = TRUE

RemoveVectorNot(i) == index' = index /\ dirty' = TRUE

\* Drops every vector under the id.
RemoveVector(i) ==
    /\ index' = {v \in index : v[1] # i}
    /\ dirty' = TRUE

ClearVectors ==
    /\ index' = {}
    /\ dirty' = TRUE

SaveIndexUnwritten == disk' = disk /\ dirty' = FALSE

\* save: write a temporary file and rename it.
SaveIndex ==
    /\ disk' = IF dirty THEN index ELSE disk
    /\ dirty' = FALSE

---------------------------------------------------------------------------
(* Files *)

UnlinkAllButFrame(c) == files' = {f \in files : f[1] # c \/ f[2] = "frame"}

UnlinkAll(c) == files' = {f \in files : f[1] # c}

CropSavedUnchecked(written) == TRUE

\* cv2.imwrite reports failure by its result, which nobody reads; only the
\* stat() of the image notices, so a missing thumbnail goes unseen.
CropSaved(written) == "image" \in written

---------------------------------------------------------------------------
(* What the requests have in hand *)

\* Ids a request has read and whose vectors it has not removed yet; a purge of
\* everything means every id until it has reset the index.
Held(h) ==
    IF op[h].kind = "all" /\ hpc[h] \in {"commit", "reset"} THEN FaceIds
    ELSE IF hpc[h] = "commit" THEN Ids(listed[h])
    ELSE Ids(evict[h])

\* Vectors whose rows are gone and that some request is about to remove.
Doomed(e) == \E h \in Handlers : hpc[h] = "reset" \/ e \in evict[h]

\* The id is handed out again while the worker has it among its matches, or a
\* request has it in hand.
Reused(n) == n \in dups \/ \E h \in Handlers : n \in Held(h)

---------------------------------------------------------------------------
Init ==
    /\ rows = [i \in FaceIds |-> NoFace]
    /\ links = {}
    /\ cams \in (SUBSET Cameras) \ {{}}
    /\ index = {} /\ disk = {} /\ dirty = FALSE
    /\ files = {}
    /\ streaming = cams
    /\ todo = Captures
    /\ pc = "idle" /\ job = NoFace /\ dups = {} /\ face = NoFace
    /\ hpc = [h \in Handlers |-> "idle"]
    /\ op = [h \in Handlers |-> NoOp]
    /\ listed = [h \in Handlers |-> {}]
    /\ seen = [h \in Handlers |-> {}]
    /\ evict = [h \in Handlers |-> {}]
    /\ unlink = [h \in Handlers |-> {}]
    /\ starts = 0
    /\ torn = {} /\ lost = {} /\ littered = {}

---------------------------------------------------------------------------
(* StorageWorker *)

WorkerIdle ==
    /\ pc' = "idle" /\ job' = NoFace /\ dups' = {} /\ face' = NoFace

\* `except Exception` in run(): the capture is given up where it stands, here
\* before it has a row.
GiveUp ==
    /\ WorkerIdle
    /\ littered' = littered \cup {job}

Take(c) ==
    /\ pc = "idle"
    /\ c \in todo
    /\ CameraOf[c] \in streaming
    /\ todo' = todo \ {c}
    /\ job' = c
    /\ pc' = "crop"
    /\ UNCHANGED <<database, store, files, streaming, dups, face, requests, history>>

SaveCrop ==
    /\ pc = "crop"
    /\ \E written \in SUBSET {"image", "thumb"} :
        /\ DiskFaults \/ written = {"image", "thumb"}
        /\ files' = files \cup ({job} \X written)
        /\ \/ /\ CropSaved(written)
              /\ pc' = IF job \in Framed THEN "frame" ELSE "npy"
              /\ UNCHANGED <<job, dups, face, littered>>
           \/ ~CropSaved(written) /\ GiveUp
    /\ UNCHANGED <<database, store, streaming, todo, requests, starts, torn, lost>>

\* A failed write raises, and may leave a partial file.
Save(kind, next) ==
    /\ \/ /\ files' = files \cup {<<job, kind>>}
          /\ pc' = next
          /\ UNCHANGED <<job, dups, face, littered>>
       \/ /\ DiskFaults
          /\ files' \in {files, files \cup {<<job, kind>>}}
          /\ GiveUp
    /\ UNCHANGED <<database, store, streaming, todo, requests, starts, torn, lost>>

SaveFrame == pc = "frame" /\ Save("frame", "npy")

SaveEmbedding == pc = "npy" /\ Save("npy", "search")

\* Entries the capture matches; search(top_k=3) returns the best three.
Matches == {e \in index : <<e[2], job>> \in Similar}

Search ==
    /\ pc = "search"
    /\ \E best \in SUBSET Matches :
        /\ \/ best = Matches /\ Cardinality(best) <= 3
           \/ Cardinality(best) = 3
        /\ dups' = Ids(best)
    /\ pc' = "insert"
    /\ UNCHANGED <<database, store, files, streaming, todo, job, face, requests, history>>

\* The foreign key to cameras refuses a capture of a deleted camera.
InsertFace ==
    /\ pc = "insert"
    /\ \/ /\ CameraOf[job] \in cams
          /\ \E n \in FaceIds :
              /\ IsNextId(n)
              /\ rows' = [rows EXCEPT ![n] = job]
              /\ face' = n
              /\ torn' = IF Reused(n) THEN torn \cup {job} ELSE torn
          /\ pc' = IF dups = {} THEN "add" ELSE "link"
          /\ UNCHANGED <<job, dups, littered>>
       \/ /\ CameraOf[job] \notin cams
          /\ GiveUp
          /\ UNCHANGED <<rows, torn>>
    /\ UNCHANGED <<links, cams, store, files, streaming, todo, requests, starts, lost>>

NewLinkSwapped(f, m) == links' = links \cup {<<m, f>>}
NewLink(f, m) == links' = links \cup {<<f, m>>}

\* Both ends are foreign keys to faces.  A refusal ends the capture between its
\* row and its vector.
InsertLink ==
    /\ pc = "link"
    /\ \E m \in dups :
        \/ /\ Present(m) /\ Present(face)
           /\ NewLink(face, m)
           /\ dups' = dups \ {m}
           /\ pc' = IF dups = {m} THEN "add" ELSE "link"
           /\ UNCHANGED <<job, face, lost>>
        \/ /\ ~(Present(m) /\ Present(face))
           /\ WorkerIdle
           /\ lost' = lost \cup {job}
           /\ UNCHANGED links
    /\ UNCHANGED <<rows, cams, store, files, streaming, todo, requests, starts, torn, littered>>

Add ==
    /\ pc = "add"
    /\ AddVector(face, job)
    /\ pc' = "flush"
    /\ UNCHANGED <<database, disk, files, streaming, todo, job, dups, face, requests, history>>

\* _maybe_save: saves only when the interval has passed; a failing write ends
\* the capture, which has its row and its vector by now.
MaybeSave ==
    /\ pc = "flush"
    /\ SaveIndex \/ UNCHANGED <<disk, dirty>>
    /\ WorkerIdle
    /\ UNCHANGED <<database, index, files, streaming, todo, requests, history>>

---------------------------------------------------------------------------
(* API requests *)

Finish(h) ==
    /\ hpc' = [hpc EXCEPT ![h] = "idle"]
    /\ op' = [op EXCEPT ![h] = NoOp]
    /\ listed' = [listed EXCEPT ![h] = {}]
    /\ seen' = [seen EXCEPT ![h] = {}]
    /\ evict' = [evict EXCEPT ![h] = {}]
    /\ unlink' = [unlink EXCEPT ![h] = {}]

\* The SELECTs run outside the write transaction: rows first, then links.
\* `chosen` is what the query of the request covers.
Read(h, kind, cam, chosen) ==
    /\ hpc[h] = "idle"
    /\ kind \in Requests
    /\ op' = [op EXCEPT ![h] = [kind |-> kind, cam |-> cam]]
    /\ listed' = [listed EXCEPT ![h] = chosen]
    /\ seen' = [seen EXCEPT ![h] =
                    {l \in links : l[1] \in Ids(chosen) \/ l[2] \in Ids(chosen)}]
    /\ hpc' = [hpc EXCEPT ![h] =
                    IF chosen # {} THEN "commit"
                    ELSE IF kind = "all" THEN "reset" ELSE "camera"]
    /\ torn' = torn \cup CapturesOf(chosen \cap InFlight)
    /\ UNCHANGED <<database, store, files, streaming, worker, evict, unlink,
                   starts, lost, littered>>

DeleteFace(h) ==
    \E i \in FaceIds : Present(i) /\ Read(h, "face", NoCamera, {<<i, rows[i]>>})

PurgeWindow(h) ==
    \E w \in Windows :
        LET chosen == {e \in Entries : e[2] \in w}
        IN  chosen # {} /\ Read(h, "window", NoCamera, chosen)

PurgeAll(h) == Read(h, "all", NoCamera, Entries)

DeleteCamera(h) ==
    \E k \in cams : Read(h, "camera", k, {e \in Entries : CameraOf[e[2]] = k})

\* One transaction deletes the links it read, then the rows by id, whatever
\* those ids hold by now; a link it has not seen makes it fail.
Commit(h) ==
    LET ids == Ids(listed[h])
        unseen == {l \in links \ seen[h] : l[1] \in ids \/ l[2] \in ids}
    IN  /\ hpc[h] = "commit"
        /\ \/ /\ unseen = {}
              /\ links' = links \ seen[h]
              /\ rows' = [i \in FaceIds |-> IF i \in ids THEN NoFace ELSE rows[i]]
              /\ hpc' = [hpc EXCEPT ![h] = IF op[h].kind = "all" THEN "reset" ELSE "evict"]
              /\ evict' = [evict EXCEPT ![h] = IF op[h].kind = "all" THEN {} ELSE listed[h]]
              /\ unlink' = [unlink EXCEPT ![h] =
                               IF op[h].kind = "camera" THEN {} ELSE CapturesOf(listed[h])]
              /\ UNCHANGED <<op, listed, seen>>
           \/ /\ unseen # {}
              /\ Finish(h)
              /\ UNCHANGED <<rows, links>>
        /\ UNCHANGED <<cams, store, files, streaming, worker, history>>

\* No save follows a removal; delete_camera unlinks the files of each face
\* before it removes the next vector.
Evict(h) ==
    /\ hpc[h] = "evict"
    /\ op[h].kind = "camera" => unlink[h] = {}
    /\ \E e \in evict[h] :
        /\ RemoveVector(e[1])
        /\ evict' = [evict EXCEPT ![h] = @ \ {e}]
        /\ unlink' = [unlink EXCEPT ![h] = @ \cup {e[2]}]
        /\ hpc' = [hpc EXCEPT ![h] =
                       IF op[h].kind # "camera" /\ evict[h] = {e} THEN "unlink" ELSE "evict"]
    /\ UNCHANGED <<database, disk, files, streaming, worker, op, listed, seen, history>>

Reset(h) ==
    /\ hpc[h] = "reset"
    /\ ClearVectors
    /\ hpc' = [hpc EXCEPT ![h] = "flush"]
    /\ UNCHANGED <<database, disk, files, streaming, worker, op, listed, seen, evict,
                   unlink, history>>

\* reset() saves in a second critical section.
ResetSave(h) ==
    /\ hpc[h] = "flush"
    /\ SaveIndex
    /\ hpc' = [hpc EXCEPT ![h] = "unlink"]
    /\ UNCHANGED <<database, index, files, streaming, worker, op, listed, seen, evict,
                   unlink, history>>

\* The request ends here with an exception and leaves the rest undone.
Abandon(h) ==
    /\ Finish(h)
    /\ littered' = littered \cup unlink[h] \cup CapturesOf(evict[h])
    /\ torn' = torn \cup (CapturesOf(evict[h]) \ Stored)

\* The save of reset() raises when the index cannot be written.
ResetSaveFails(h) ==
    /\ DiskFaults /\ dirty
    /\ hpc[h] = "flush"
    /\ Abandon(h)
    /\ UNCHANGED <<database, store, files, streaming, worker, starts, lost>>

Unlinking(h) == hpc[h] = "unlink" \/ (hpc[h] = "evict" /\ op[h].kind = "camera")

UnlinkFiles(h) ==
    /\ Unlinking(h)
    /\ \E c \in unlink[h] :
        /\ UnlinkAll(c)
        /\ unlink' = [unlink EXCEPT ![h] = @ \ {c}]
    /\ UNCHANGED <<database, store, streaming, worker, hpc, op, listed, seen, evict, history>>

\* A file that cannot be removed ends the request after some of the others;
\* delete_camera has vectors left to remove by then, too.
UnlinkFails(h) ==
    /\ DiskFaults
    /\ Unlinking(h)
    /\ \E c \in unlink[h], some \in SUBSET Kinds : files' = files \ ({c} \X some)
    /\ Abandon(h)
    /\ UNCHANGED <<database, store, streaming, worker, starts, lost>>

EvictDone(h) ==
    /\ hpc[h] = "evict" /\ evict[h] = {} /\ unlink[h] = {}
    /\ hpc' = [hpc EXCEPT ![h] = "camera"]
    /\ UNCHANGED <<database, store, files, streaming, worker, op, listed, seen, evict,
                   unlink, history>>

RequestDone(h) ==
    /\ hpc[h] = "unlink" /\ unlink[h] = {}
    /\ Finish(h)
    /\ UNCHANGED <<database, store, files, streaming, worker, history>>

\* Goes round again as long as the camera has faces.
DropCameraRetries(h) ==
    LET k == op[h].cam
        used == \E e \in Entries : CameraOf[e[2]] = k
    IN  /\ hpc[h] = "camera"
        /\ \/ ~used /\ cams' = cams \ {k} /\ Finish(h)
           \/ /\ used
              /\ hpc' = [hpc EXCEPT ![h] = "evict"]
              /\ UNCHANGED <<cams, op, listed, seen, evict, unlink>>
        /\ UNCHANGED <<rows, links, store, files, streaming, worker, history>>

\* Faces that arrived meanwhile keep the row: faces.camera_id is NOT NULL.
DropCamera(h) ==
    LET k == op[h].cam
        used == \E e \in Entries : CameraOf[e[2]] = k
    IN  /\ hpc[h] = "camera"
        /\ cams' = IF used THEN cams ELSE cams \ {k}
        /\ Finish(h)
        /\ UNCHANGED <<rows, links, store, files, streaming, worker, history>>

\* POST /cameras: an unused id, chosen by the caller or by SQLite.
AddCamera ==
    /\ \E k \in Cameras \ cams : cams' = cams \cup {k}
    /\ UNCHANGED <<rows, links, store, files, streaming, worker, requests, history>>

---------------------------------------------------------------------------
(* The process *)

Boot ==
    /\ starts < MaxStarts
    /\ starts' = starts + 1
    /\ WorkerIdle
    /\ hpc' = [h \in Handlers |-> "idle"]
    /\ op' = [h \in Handlers |-> NoOp]
    /\ listed' = [h \in Handlers |-> {}]
    /\ seen' = [h \in Handlers |-> {}]
    /\ evict' = [h \in Handlers |-> {}]
    /\ unlink' = [h \in Handlers |-> {}]
    /\ dirty' = FALSE
    /\ cams' = Seeded(cams)
    /\ streaming' = cams'

\* A start reads the index file it finds, and goes on with an empty index when
\* it cannot; nothing reconciles the stores.  What had not been added or saved
\* is lost, what had not been removed and saved comes back.
LoadIndex(file) ==
    /\ disk' = file
    /\ index' \in {file} \cup (IF DiskFaults THEN {{}} ELSE {})
    /\ lost' = lost \cup CapturesOf(
                  InFlight \cup (IF dirty THEN index \ file ELSE {}) \cup (file \ index'))
    /\ torn' = torn \cup (CapturesOf({e \in index \cup file : Doomed(e)}
                                     \cup (IF dirty THEN file \ index ELSE {})) \ Stored)

\* A crash loses what is in memory.
Crash ==
    /\ Boot
    /\ LoadIndex(disk)
    /\ littered' = littered
           \cup (IF pc \in {"frame", "npy", "search", "insert"} THEN {job} ELSE {})
           \cup UNION {unlink[h] \cup CapturesOf(evict[h]) : h \in Handlers}
    /\ UNCHANGED <<rows, links, files, todo>>

\* An orderly stop once the requests have returned and the worker is done; the
\* process ends also when its save fails.
Restart ==
    /\ pc = "idle"
    /\ \A h \in Handlers : hpc[h] = "idle"
    /\ Boot
    /\ \/ LoadIndex(IF dirty THEN index ELSE disk)
       \/ DiskFaults /\ LoadIndex(disk)
    /\ UNCHANGED <<rows, links, files, todo, littered>>

---------------------------------------------------------------------------
Persist ==
    \/ SaveCrop \/ SaveFrame \/ SaveEmbedding \/ Search
    \/ InsertFace \/ InsertLink \/ Add \/ MaybeSave

Serve(h) ==
    \/ Commit(h) \/ Evict(h) \/ Reset(h) \/ ResetSave(h) \/ ResetSaveFails(h)
    \/ UnlinkFiles(h) \/ UnlinkFails(h) \/ EvictDone(h) \/ RequestDone(h) \/ DropCamera(h)

Request(h) == DeleteFace(h) \/ PurgeWindow(h) \/ PurgeAll(h) \/ DeleteCamera(h)

Next ==
    \/ \E c \in Captures : Take(c)
    \/ Persist
    \/ \E h \in Handlers : Request(h) \/ Serve(h)
    \/ AddCamera
    \/ Crash
    \/ Restart

Spec == Init /\ [][Next]_vars

\* Started threads go on running; when captures and requests arrive, or the
\* process stops, is up to the environment.
FairSpec ==
    /\ Spec
    /\ WF_vars(Persist)
    /\ \A h \in Handlers : WF_vars(Serve(h))

---------------------------------------------------------------------------
(* Properties *)

\* The row is written last, so the files it names exist whatever the
\* requests, failed writes and crashes in between (workers.py:277-324).  The
\* thumbnail is left out: its write may fail unseen.
RowHasFiles ==
    \A i \in FaceIds : Present(i) =>
        \A k \in {"image", "npy"} \cup (IF rows[i] \in Framed THEN {"frame"} ELSE {}) :
            <<rows[i], k>> \in files

\* A clean index is the one on disk: every change sets _dirty under the lock
\* that saves and clears it (vector_store.py:54-105).  Only a start that could
\* not read the file leaves an empty one clean (vector_store.py:42-46).
CleanIsSaved ==
    ~dirty => \/ disk = index
              \/ index = {} /\ CapturesOf(disk) \subseteq lost

\* Rows and index hold the same faces, up to the one being added and those
\* being removed (vector_store.py:4, "keeping the two stores in sync").  Whatever
\* overlaps, fails or crashes, only the captures it befell are excepted: those
\* whose id a request had in hand between row and vector, those whose link was
\* refused (workers.py:327), and those whose vector had not been saved, not yet
\* been removed, or could not be read at a start.  The damage never spreads to
\* another capture, not even to one that gets the same id later.
StoresInSync ==
    /\ \A e \in Entries \ InFlight : e \in index \/ e[2] \in torn \cup lost
    /\ \A e \in index : e \in Entries \/ e[2] \in torn \/ Doomed(e)

\* A duplicate link joins two existing faces and points to the older one; a face
\* is linked with itself only when its id was one of its matches and was handed
\* out again between the search and the insert (workers.py:289-302).
LinksPointBack ==
    \A l \in links : /\ Present(l[1]) /\ Present(l[2])
                     /\ l[2] <= l[1]
                     /\ l[2] = l[1] => rows[l[1]] \in torn

\* At every moment a file belongs to a row, to the capture the worker is about
\* to insert, or to a face some request is about to unlink; files are left over
\* only by captures that were given up before their row, by requests that a
\* failing save or unlink ended (faces.py:73-82), by a crash, and where a row was
\* deleted under the id of another face (api/faces.py:68-82, workers.py:277-302).
NoOrphanFiles ==
    \A f \in files :
        \/ f[1] \in Stored \cup littered \cup torn
        \/ pc \in {"frame", "npy", "search", "insert"} /\ f[1] = job
        \/ \E h \in Handlers : f[1] \in unlink[h] \cup CapturesOf(evict[h])

\* A capture is found by a search when its row and its vector are there, and
\* will be found after a start when the vector is on disk.
FoundIn(vectors) == {c \in Captures \ torn : \E i \in FaceIds : rows[i] = c /\ <<i, c>> \in vectors}

OnItsWay == (todo \cup (IF pc \in {"idle", "flush"} THEN {} ELSE {job})) \ torn

Named == [h \in Handlers |-> IF hpc[h] = "commit" THEN CapturesOf(listed[h]) ELSE {}]

\* Whatever the order of worker and requests, a capture comes into sight once
\* and as a whole, and a request takes all it covers out of sight for good in
\* one step; a start shows what was saved last, or nothing when it cannot read
\* the file.  The vectors, files and failing saves that follow the transaction,
\* and other captures, make no difference to what a search can return
\* (workers.py:277-337, api/faces.py, vector_store.py:36-105).
Faces == INSTANCE Gallery WITH Items <- Captures, Removers <- Handlers,
                               coming <- OnItsWay, shown <- FoundIn(index),
                               kept <- FoundIn(disk), asked <- Named
KeepsGallery == Faces!Spec

\* Every request ends, and so does every capture, whatever the others do
\* (api/faces.py, api/cameras.py, workers.py:262-272).
EveryoneFinishes ==
    /\ \A h \in Handlers : hpc[h] # "idle" ~> hpc[h] = "idle"
    /\ pc # "idle" ~> pc = "idle"

---------------------------------------------------------------------------
(* What the documents say and the code does not keep *)

AllIdle == pc = "idle" /\ \A h \in Handlers : hpc[h] = "idle"

\* vector_store.py:4 and ARCHITECTURE.md:108: each vector is keyed by its
\* face id and the two stores stay in sync, including deletes.
AlwaysInSync == AllIdle => index = Entries
===========================================================================
