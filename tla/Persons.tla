------------------------------ MODULE Persons ------------------------------
(***************************************************************************)
(* Enrolled persons: their rows, the recognition index with its copy on    *)
(* disk, their photo and embedding files, and the labels that captured     *)
(* faces get from them.  enroll_person runs on the event loop and lets go  *)
(* of it only while it reads the upload; delete_person runs in request     *)
(* threads; the storage worker recognises faces in a thread of its own.    *)
(* (UploadFile.read suspends for uploads that were spooled to a file.)     *)
(*                                                                         *)
(* An enrolment stands for one POST with its uuid, photo and embedding.    *)
(* SQLite hands out max(rowid)+1, so a person id is used again once the    *)
(* newest row is deleted.                                                  *)
(***************************************************************************)
EXTENDS Integers, FiniteSets

CONSTANTS
    MaxEnrolments,  \* POST /api/persons requests (bound)
    Badge,          \* the employee id each of them gives
    Deleters,       \* request threads that serve DELETE /api/persons/{id}
    MaxFaces,       \* captures that look like someone enrolled (bound)
    MaxStarts,      \* how often the process may stop or crash and start again
    DiskFaults      \* TRUE when reading, writing or unlinking a file may fail

Enrolments == 1..MaxEnrolments
PersonIds == Enrolments
Faces == 1..MaxFaces
Nobody == 0

ASSUME PersonsAssumption ==
    /\ MaxEnrolments \in Nat /\ MaxFaces \in Nat /\ MaxStarts \in Nat
    /\ DOMAIN Badge = Enrolments
    /\ DiskFaults \in BOOLEAN

VARIABLES
    rows,       \* persons table: id -> enrolment, Nobody where there is no row
    index,      \* recognition index in memory: <<person id, enrolment>>
    disk,       \* persons.faiss on disk
    dirty,      \* VectorStore._dirty
    files,      \* files under persons/: <<enrolment, kind>>
    epc,        \* next step of each enrolment
    given,      \* the id of the row inserted by the enrolment under way
    dpc,        \* next step of each deletion
    target,     \* the row it read: <<person id, enrolment>>
    tagged,     \* the labelled faces it read
    labels,     \* labelled faces: face -> [vector, id, name]
    shown,      \* faces recognised so far
    wpc,        \* next step of StorageWorker._persist, between its search and its row
    found,      \* the entry of the index it recognised
    name,       \* whose row it read under that id
    starts,     \* starts after the first one
    torn,       \* history: enrolments whose id a deletion had in hand before their
                \* vector was there, or whose vector outlived their row
    lost,       \* history: enrolments whose vector was unsaved or unreadable at a start
    littered,   \* history: enrolments whose files were left behind
    late        \* history: faces whose person was deleted while they were labelled

store == <<index, disk, dirty>>
enrolment == <<epc, given>>
deletion == <<dpc, target, tagged>>
worker == <<shown, wpc, found, name>>
history == <<starts, torn, lost, littered, late>>
vars == <<rows, store, files, enrolment, deletion, labels, worker, history>>

Entry == PersonIds \X Enrolments
Label == [vector : Enrolments, id : PersonIds, name : Enrolments \cup {Nobody}]
NoLabel == [vector |-> Nobody, id |-> 0, name |-> Nobody]

\* The steps of an enrolment that hold the event loop.
Holding == {"photo", "embedding", "insert", "replace", "add", "save"}

TypeOK ==
    /\ rows \in [PersonIds -> Enrolments \cup {Nobody}]
    /\ index \subseteq Entry /\ disk \subseteq Entry
    /\ dirty \in BOOLEAN
    /\ files \subseteq Enrolments \X {"photo", "npy"}
    /\ epc \in [Enrolments -> {"new", "upload", "refused", "failed", "done"} \cup Holding]
    /\ dpc \in [Deleters -> {"idle", "commit", "evict", "unlink"}]
    /\ given \in PersonIds \cup {0}
    /\ target \in [Deleters -> Entry \cup {<<0, Nobody>>}]
    /\ \A d \in Deleters : dpc[d] # "idle" => target[d] \in Entry
    /\ tagged \in [Deleters -> SUBSET Faces]
    /\ labels \in [Faces -> Label \cup {NoLabel}]
    /\ shown \in 0..MaxFaces
    /\ wpc \in {"search", "lookup", "insert"}
    /\ wpc # "search" => found \in Entry /\ shown \in Faces
    /\ name \in Enrolments \cup {Nobody}
    /\ starts \in 0..MaxStarts
    /\ torn \subseteq Enrolments /\ lost \subseteq Enrolments /\ littered \subseteq Enrolments
    /\ late \subseteq Faces

Init ==
    /\ rows = [i \in PersonIds |-> Nobody]
    /\ index = {} /\ disk = {} /\ dirty = FALSE
    /\ files = {}
    /\ epc = [e \in Enrolments |-> "new"] /\ given = 0
    /\ dpc = [d \in Deleters |-> "idle"]
    /\ target = [d \in Deleters |-> <<0, Nobody>>]
    /\ tagged = [d \in Deleters |-> {}]
    /\ labels = [f \in Faces |-> NoLabel]
    /\ shown = 0 /\ wpc = "search" /\ found = <<0, Nobody>> /\ name = Nobody
    /\ starts = 0
    /\ torn = {} /\ lost = {} /\ littered = {} /\ late = {}

---------------------------------------------------------------------------
(* The index: VectorStore *)

RemoveVectorUnmarked(i) == index' = {v \in index : v[1] # i} /\ UNCHANGED dirty

\* A removal by range in place of one id.
RemoveVectorsFrom(i) == index' = {v \in index : v[1] < i} /\ dirty' = TRUE

RemoveVector(i) == index' = {v \in index : v[1] # i} /\ dirty' = TRUE

AddVector(i, e) == index' = index \cup {<<i, e>>} /\ dirty' = TRUE

\* save: write a temporary file and rename it.
SaveIndex ==
    /\ disk' = IF dirty THEN index ELSE disk
    /\ dirty' = FALSE

PersonsOf(S) == {v[2] : v \in S}

\* Vectors whose rows are gone and that a deletion is about to remove.
Doomed(v) == \E d \in Deleters : dpc[d] = "evict" /\ target[d] = v

\* Row written, vector not yet added.
InFlight == {<<given, e>> : e \in {g \in Enrolments : epc[g] \in {"replace", "add"}}}

---------------------------------------------------------------------------
(* enroll_person *)

Enrolled(b) == \E i \in PersonIds : rows[i] # Nobody /\ Badge[rows[i]] = b

LoopFree == \A e \in Enrolments : epc[e] \notin Holding

\* max(rowid) + 1
IsNextId(i) == /\ \A j \in PersonIds : rows[j] # Nobody => j < i
               /\ i > 1 => rows[i - 1] # Nobody

\* A deletion has this id in hand.
InUse(i) == \E d \in Deleters : dpc[d] \in {"commit", "evict"} /\ target[d][1] = i

Goto(e, step) == epc' = [epc EXCEPT ![e] = step]

\* The request ends with an exception, and its files stay.
Fail(e) == Goto(e, "failed") /\ littered' = littered \cup {e}

Check(e) ==
    /\ epc[e] = "new" /\ LoopFree
    /\ Goto(e, IF Enrolled(Badge[e]) THEN "refused" ELSE "upload")
    /\ UNCHANGED <<rows, store, files, given, deletion, labels, worker, history>>

\* Too large, not an image, no face in it: refused.
ReadUpload(e) ==
    /\ epc[e] = "upload" /\ LoopFree
    /\ Goto(e, "photo") \/ Goto(e, "refused")
    /\ UNCHANGED <<rows, store, files, given, deletion, labels, worker, history>>

\* cv2.imwrite reports a failure by a result nobody reads.
SavePhoto(e) ==
    /\ epc[e] = "photo"
    /\ \/ files' = files \cup {<<e, "photo">>}
       \/ DiskFaults /\ UNCHANGED files
    /\ Goto(e, "embedding")
    /\ UNCHANGED <<rows, store, given, deletion, labels, worker, history>>

SaveEmbedding(e) ==
    /\ epc[e] = "embedding"
    /\ \/ files' = files \cup {<<e, "npy">>} /\ Goto(e, "insert") /\ UNCHANGED littered
       \/ DiskFaults /\ files' \in {files, files \cup {<<e, "npy">>}} /\ Fail(e)
    /\ UNCHANGED <<rows, store, given, deletion, labels, worker, starts, torn, lost, late>>

\* The employee id is unique, and another enrolment may have passed the check
\* too; the database may also be locked for too long.
InsertPerson(e) ==
    /\ epc[e] = "insert"
    /\ \/ /\ ~Enrolled(Badge[e])
          /\ \E i \in PersonIds :
                /\ IsNextId(i)
                /\ rows' = [rows EXCEPT ![i] = e]
                /\ given' = i
                /\ torn' = IF InUse(i) THEN torn \cup {e} ELSE torn
                /\ late' = IF wpc = "lookup" /\ found[1] = i THEN late \cup {shown} ELSE late
          /\ Goto(e, "replace") /\ UNCHANGED littered
       \/ Fail(e) /\ UNCHANGED <<rows, given, torn, late>>
    /\ UNCHANGED <<store, files, deletion, labels, worker, starts, lost>>

ReplaceNothing(e) ==
    /\ epc[e] = "replace"
    /\ Goto(e, "add")
    /\ UNCHANGED <<rows, store, files, given, deletion, labels, worker, history>>

\* PersonManager.enroll removes what the index holds under this id ...
Replace(e) ==
    /\ epc[e] = "replace"
    /\ RemoveVector(given)
    /\ Goto(e, "add")
    /\ UNCHANGED <<rows, disk, files, given, deletion, labels, worker, history>>

\* ... and adds the new embedding.
Add(e) ==
    /\ epc[e] = "add"
    /\ AddVector(given, e)
    /\ Goto(e, "save")
    /\ UNCHANGED <<rows, disk, files, given, deletion, labels, worker, history>>

\* FAISS_SAVE_INTERVAL may have passed; the write may fail.
MaybeSave(e) ==
    /\ epc[e] = "save"
    /\ Goto(e, "done") /\ given' = 0
    /\ SaveIndex \/ UNCHANGED <<disk, dirty>>
    /\ UNCHANGED <<rows, index, files, deletion, labels, worker, history>>

Enrol(e) ==
    \/ Check(e) \/ ReadUpload(e) \/ SavePhoto(e) \/ SaveEmbedding(e)
    \/ InsertPerson(e) \/ Replace(e) \/ Add(e) \/ MaybeSave(e)

---------------------------------------------------------------------------
(* delete_person *)

Finish(d) ==
    /\ dpc' = [dpc EXCEPT ![d] = "idle"]
    /\ target' = [target EXCEPT ![d] = <<0, Nobody>>]
    /\ tagged' = [tagged EXCEPT ![d] = {}]

\* The queries of the transaction run before it begins.
ReadPerson(d) ==
    /\ dpc[d] = "idle"
    /\ \E i \in PersonIds :
        /\ rows[i] # Nobody
        /\ target' = [target EXCEPT ![d] = <<i, rows[i]>>]
        /\ tagged' = [tagged EXCEPT ![d] = {f \in Faces : labels[f].id = i}]
        /\ torn' = torn \cup ({rows[i]} \cap PersonsOf(InFlight))
    /\ dpc' = [dpc EXCEPT ![d] = "commit"]
    /\ UNCHANGED <<rows, store, files, enrolment, labels, worker, starts, lost, littered, late>>

KeepLabels(d) == UNCHANGED labels

ClearLabels(d) == labels' = [f \in Faces |-> IF f \in tagged[d] THEN NoLabel ELSE labels[f]]

\* The faces it read lose their label, the row with this id goes, whoever has
\* it by now.  The transaction fails when one of the faces is gone or the
\* database stays locked.
CommitDelete(d) ==
    /\ dpc[d] = "commit"
    /\ \/ /\ dpc' = [dpc EXCEPT ![d] = "evict"]
          /\ rows' = [rows EXCEPT ![target[d][1]] = Nobody]
          /\ ClearLabels(d)
          /\ late' = IF wpc = "insert" /\ found[1] = target[d][1]
                     THEN late \cup {shown} ELSE late
          /\ tagged' = [tagged EXCEPT ![d] = {}]
          /\ UNCHANGED target
       \/ Finish(d) /\ UNCHANGED <<rows, labels, late>>
    /\ UNCHANGED <<store, files, enrolment, worker, starts, torn, lost, littered>>

\* PersonManager.remove: no save follows.
Evict(d) ==
    /\ dpc[d] = "evict"
    /\ RemoveVector(target[d][1])
    /\ dpc' = [dpc EXCEPT ![d] = "unlink"]
    /\ UNCHANGED <<rows, disk, files, enrolment, target, tagged, labels, worker, history>>

FilesOf(e) == {<<e, "photo">>, <<e, "npy">>}

UnlinkCurrent(d) ==
    /\ dpc[d] = "unlink"
    /\ files' = files \ (FilesOf(target[d][2]) \cup FilesOf(rows[target[d][1]]))
    /\ Finish(d)
    /\ UNCHANGED <<rows, store, enrolment, labels, worker, history>>

UnlinkFiles(d) ==
    /\ dpc[d] = "unlink"
    /\ files' = files \ FilesOf(target[d][2])
    /\ Finish(d)
    /\ UNCHANGED <<rows, store, enrolment, labels, worker, history>>

\* The photo goes first; a file that cannot be removed ends the request.
UnlinkFails(d) ==
    /\ DiskFaults
    /\ dpc[d] = "unlink"
    /\ files' \in {files, files \ {<<target[d][2], "photo">>}}
    /\ Finish(d)
    /\ littered' = littered \cup {target[d][2]}
    /\ UNCHANGED <<rows, store, enrolment, labels, worker, starts, torn, lost, late>>

Delete(d) ==
    ReadPerson(d) \/ CommitDelete(d) \/ Evict(d) \/ UnlinkFiles(d) \/ UnlinkFails(d)

---------------------------------------------------------------------------
(* Recognition, in StorageWorker._persist.  A face that matches nothing in   *)
(* the index gets no label and is left out.                                  *)

Recognize ==
    /\ wpc = "search" /\ shown < MaxFaces
    /\ \E v \in index : found' = v
    /\ shown' = shown + 1
    /\ wpc' = "lookup"
    /\ UNCHANGED <<rows, store, files, enrolment, deletion, labels, name, history>>

GetPerson ==
    /\ wpc = "lookup"
    /\ name' = rows[found[1]]
    /\ wpc' = "insert"
    /\ UNCHANGED <<rows, store, files, enrolment, deletion, labels, shown, found, history>>

\* The label may have been deleted since it was read.
InsertFace ==
    /\ wpc = "insert"
    /\ \/ /\ labels' = [labels EXCEPT ![shown] =
                           [vector |-> found[2], id |-> found[1], name |-> name]]
          /\ late' = IF \E d \in Deleters : dpc[d] = "commit" /\ target[d][1] = found[1]
                     THEN late \cup {shown} ELSE late
       \/ UNCHANGED <<labels, late>>
    /\ wpc' = "search" /\ name' = Nobody /\ found' = <<0, Nobody>>
    /\ UNCHANGED <<rows, store, files, enrolment, deletion, shown, starts, torn, lost, littered>>

---------------------------------------------------------------------------
(* The process *)

WorkerIdle == wpc' = "search" /\ name' = Nobody /\ found' = <<0, Nobody>>

Boot ==
    /\ starts < MaxStarts
    /\ starts' = starts + 1
    /\ dirty' = FALSE
    /\ epc' = [e \in Enrolments |->
                  IF epc[e] \in Holding \cup {"upload"} THEN "failed" ELSE epc[e]]
    /\ given' = 0
    /\ dpc' = [d \in Deleters |-> "idle"]
    /\ target' = [d \in Deleters |-> <<0, Nobody>>] /\ tagged' = [d \in Deleters |-> {}]
    /\ WorkerIdle
    /\ UNCHANGED <<rows, files, labels, shown, late>>

\* A start reads the index file it finds, and goes on with an empty index when
\* it cannot.  What had not been added or saved is lost, what had not been
\* removed and saved comes back.
LoadIndex(file) ==
    /\ disk' = file
    /\ index' \in {file} \cup (IF DiskFaults THEN {{}} ELSE {})
    /\ lost' = lost \cup PersonsOf(
                  InFlight \cup (IF dirty THEN index \ file ELSE {}) \cup (file \ index'))
    /\ torn' = torn \cup (PersonsOf({v \in index \cup file : Doomed(v)}
                                    \cup (IF dirty THEN file \ index ELSE {}))
                          \ {rows[i] : i \in PersonIds})

Crash ==
    /\ Boot
    /\ LoadIndex(disk)
    /\ littered' = littered \cup {e \in Enrolments : epc[e] \in {"embedding", "insert"}}
          \cup {target[d][2] : d \in {c \in Deleters : dpc[c] \in {"evict", "unlink"}}}

\* Pipeline.stop() once the requests have ended, and a start.  The save of this
\* index fails, or is not reached because that of the faces fails.
StopAndStart ==
    /\ LoopFree /\ \A e \in Enrolments : epc[e] # "upload"
    /\ \A d \in Deleters : dpc[d] = "idle"
    /\ wpc = "search"
    /\ Boot
    /\ \/ LoadIndex(IF dirty THEN index ELSE disk)
       \/ DiskFaults /\ LoadIndex(disk)
    /\ UNCHANGED littered

Next ==
    \/ \E e \in Enrolments : Enrol(e)
    \/ \E d \in Deleters : Delete(d)
    \/ Recognize \/ GetPerson \/ InsertFace
    \/ Crash \/ StopAndStart

Spec == Init /\ [][Next]_vars

---------------------------------------------------------------------------
(* Properties *)

\* The index holds one embedding per person id, also when an id is used again
\* and whatever a deletion or a start has left there (enrollment.py:45-48); every
\* enrolled person can be recognised and nobody else, up to the enrolment and
\* the deletions between their row and their vector (persons.py:87-96, 117-120).
\* Whatever overlaps, fails or crashes, only the persons it befell are excepted:
\* those whose id a deletion had in hand when their row was written or before
\* their vector was, and those whose vector had not been saved, not yet been
\* removed, or could not be read at a start (vector_store.py:42-46).
IndexAgrees ==
    /\ \A v, w \in index : v[1] = w[1] => v = w
    /\ \A i \in PersonIds :
          \/ rows[i] \in {Nobody} \cup torn \cup lost \cup PersonsOf(InFlight)
          \/ <<i, rows[i]>> \in index
    /\ \A v \in index : rows[v[1]] = v[2] \/ v[2] \in torn \/ Doomed(v)

\* A face is not given another name than that of the person it was matched
\* with, unless the index held a vector that outlived its row or the id was
\* handed out again before the name was read; and the name on a face is that of an enrolled
\* person, because a deletion clears the others.  Faces that were being labelled
\* while a deletion of their person was under way are excepted, and no others
\* (workers.py:297-324, repository.py:166-177).
LabelsTrue ==
    \A f \in Faces \ late :
        /\ labels[f].name \in {labels[f].vector, Nobody} \cup torn \/ labels[f].vector \in torn
        /\ labels[f].name # Nobody => rows[labels[f].id] = labels[f].name

\* A person's embedding stays on disk as long as the row, also when a late
\* deletion finds the id used again.  A file belongs to a row, to the enrolment
\* that is about to insert one, or to a person some deletion is about to unlink;
\* files are left over only by enrolments that failed, by a crash, by a deletion
\* that could not unlink, and by a person whose row a late deletion took under
\* an id used again (persons.py:82-93, 118-122).
FilesFollowRows ==
    /\ \A i \in PersonIds : rows[i] # Nobody => <<rows[i], "npy">> \in files
    /\ \A x \in files :
          \/ \E i \in PersonIds : rows[i] = x[1]
          \/ epc[x[1]] \in {"embedding", "insert"}
          \/ x[1] \in littered \cup torn
          \/ \E d \in Deleters : dpc[d] \in {"evict", "unlink"} /\ target[d][2] = x[1]

\* A person is recognised when row and vector are there, and will be after a
\* start when the vector is on disk.
KnownFrom(vectors) ==
    {e \in Enrolments \ torn : \E i \in PersonIds : rows[i] = e /\ <<i, e>> \in vectors}

OnTheWay ==
    {e \in Enrolments \ torn : epc[e] \in {"new", "upload"} \cup (Holding \ {"save"})}

Named == [d \in Deleters |-> IF dpc[d] = "commit" THEN {target[d][2]} ELSE {}]

\* An enrolment makes its person known in one step and a deletion ends that in
\* one step; nothing else does, neither the vectors and files a deletion removes
\* afterwards nor work on other persons.  A start shows who was saved last, or
\* nobody when it cannot read the file (persons.py:52-123, enrollment.py:42-59,
\* vector_store.py:36-46).
People == INSTANCE Gallery WITH Items <- Enrolments, Removers <- Deleters,
                                coming <- OnTheWay, shown <- KnownFrom(index),
                                kept <- KnownFrom(disk), asked <- Named
KeepsGallery == People!Spec

============================================================================
