------------------------- MODULE FaceStoreProofs -------------------------
(***************************************************************************)
(* What holds of FaceStore for every number of captures, cameras, requests *)
(* and starts, whatever fails or crashes meanwhile.                        *)
(***************************************************************************)
EXTENDS FaceStore, TLAPS

---------------------------------------------------------------------------
(* Types *)

\* What the worker holds at each step of _persist.
WorkerHolds ==
    /\ pc # "idle" => job \in Captures /\ job \notin todo
    /\ pc \in {"link", "add", "flush"} => face \in FaceIds

Typed == TypeOK /\ WorkerHolds

LEMMA EntriesType ==
    ASSUME TypeOK
    PROVE  Entries \subseteq FaceIds \X Captures
BY DEF TypeOK, Entries, Present

LEMMA IdsType ==
    ASSUME NEW S \in SUBSET (FaceIds \X Captures)
    PROVE  Ids(S) \subseteq FaceIds
BY DEF Ids

LEMMA SeededType ==
    ASSUME NEW cs \in SUBSET Cameras
    PROVE  Seeded(cs) \in SUBSET Cameras
BY FaceStoreAssumption DEF Seeded

LEMMA InitType == Init => Typed
<1> USE DEF Init, Typed
<1>1. Init => WorkerHolds
    BY DEF WorkerHolds
<1>2. Init => 0 \in 0..MaxStarts
    BY FaceStoreAssumption
<1>3. NoOp \in Ops
    BY DEF NoOp, Ops
<1>4. Init => TypeOK
    BY <1>2, <1>3 DEF TypeOK, WorkerSteps, HandlerSteps
<1> QED
    BY <1>1, <1>4

LEMMA SaveType ==
    ASSUME Typed, pc # "idle", NEW kind \in Kinds,
           NEW next \in {"npy", "search"}, Save(kind, next)
    PROVE  Typed'
<1> USE DEF Typed, TypeOK, WorkerHolds, database, store, requests
<1>1. <<job, kind>> \in Captures \X Kinds
    OBVIOUS
<1>2. files' \subseteq Captures \X Kinds
    BY <1>1 DEF Save
<1>3. CASE pc' = next /\ UNCHANGED <<job, dups, face, littered>>
    BY <1>2, <1>3 DEF Save, WorkerSteps
<1>4. CASE GiveUp
    BY <1>2, <1>4 DEF Save, GiveUp, WorkerIdle, WorkerSteps
<1> QED
    BY <1>3, <1>4 DEF Save

LEMMA PersistType == Typed /\ Persist => Typed'
<1> SUFFICES ASSUME Typed, Persist PROVE Typed'
    OBVIOUS
<1> USE DEF Typed, TypeOK, WorkerHolds, database, store, worker, requests, history
<1>1. CASE SaveCrop
    BY <1>1 DEF SaveCrop, CropSaved, GiveUp, WorkerIdle, WorkerSteps, Kinds
<1>2. CASE SaveFrame
    BY <1>2, SaveType DEF SaveFrame, Kinds
<1>3. CASE SaveEmbedding
    BY <1>3, SaveType DEF SaveEmbedding, Kinds
<1>4. CASE Search
    <2>1. dups' \subseteq FaceIds
        <3>1. PICK best \in SUBSET Matches : dups' = Ids(best)
            BY <1>4 DEF Search
        <3>2. best \in SUBSET (FaceIds \X Captures)
            BY DEF Matches
        <3> QED
            BY <3>1, <3>2, IdsType
    <2> QED
        BY <1>4, <2>1 DEF Search, WorkerSteps
<1>5. CASE InsertFace
    BY <1>5 DEF InsertFace, GiveUp, WorkerIdle, WorkerSteps
<1>6. CASE InsertLink
    <2>1. PICK m \in dups :
            \/ /\ NewLink(face, m)
               /\ dups' = dups \ {m}
               /\ pc' = IF dups = {m} THEN "add" ELSE "link"
               /\ UNCHANGED <<job, face, lost>>
            \/ WorkerIdle /\ lost' = lost \cup {job} /\ UNCHANGED links
        BY <1>6 DEF InsertLink
    <2>2. links' \in SUBSET (FaceIds \X FaceIds)
        BY <1>6, <2>1 DEF InsertLink, NewLink
    <2>3. CASE WorkerIdle /\ lost' = lost \cup {job}
        BY <1>6, <2>2, <2>3 DEF InsertLink, WorkerIdle, WorkerSteps
    <2>4. CASE ~(WorkerIdle /\ lost' = lost \cup {job})
        BY <1>6, <2>1, <2>2, <2>4 DEF InsertLink, WorkerSteps
    <2> QED
        BY <2>3, <2>4
<1>7. CASE Add
    BY <1>7 DEF Add, AddVector, WorkerSteps
<1>8. CASE MaybeSave
    BY <1>8 DEF MaybeSave, SaveIndex, WorkerIdle, WorkerSteps
<1> QED
    BY <1>1, <1>2, <1>3, <1>4, <1>5, <1>6, <1>7, <1>8 DEF Persist

\* The request's own variables have their types, and those of the store and
\* of the worker are the ones they were.
RequestsTyped ==
    /\ hpc \in [Handlers -> HandlerSteps]
    /\ op \in [Handlers -> Ops]
    /\ listed \in [Handlers -> SUBSET (FaceIds \X Captures)]
    /\ seen \in [Handlers -> SUBSET (FaceIds \X FaceIds)]
    /\ evict \in [Handlers -> SUBSET (FaceIds \X Captures)]
    /\ unlink \in [Handlers -> SUBSET Captures]

LEMMA FinishType ==
    ASSUME RequestsTyped, NEW h \in Handlers, Finish(h)
    PROVE  RequestsTyped'
BY DEF RequestsTyped, Finish, HandlerSteps, NoOp, Ops

LEMMA AbandonType ==
    ASSUME Typed, NEW h \in Handlers, Abandon(h)
    PROVE  torn' \in SUBSET Captures /\ littered' \in SUBSET Captures /\ RequestsTyped'
<1>1. RequestsTyped'
    BY FinishType DEF Abandon, Typed, TypeOK, RequestsTyped
<1>2. CapturesOf(evict[h]) \subseteq Captures /\ unlink[h] \subseteq Captures
    BY DEF CapturesOf, Typed, TypeOK
<1> QED
    BY <1>1, <1>2 DEF Abandon, Typed, TypeOK

LEMMA ReadType ==
    ASSUME Typed, NEW h \in Handlers, NEW kind,
           NEW cam \in Cameras \cup {NoCamera},
           NEW chosen \in SUBSET (FaceIds \X Captures), Read(h, kind, cam, chosen)
    PROVE  Typed'
<1> USE DEF Typed, TypeOK
<1>1. [kind |-> kind, cam |-> cam] \in Ops
    BY DEF Ops, Read
<1>2. {l \in links : l[1] \in Ids(chosen) \/ l[2] \in Ids(chosen)} \in SUBSET (FaceIds \X FaceIds)
    OBVIOUS
<1>3. RequestsTyped
    BY DEF RequestsTyped
<1>4. RequestsTyped'
    BY <1>1, <1>2, <1>3 DEF Read, RequestsTyped, HandlerSteps
<1>5. torn' \in SUBSET Captures
    BY DEF Read, CapturesOf
<1> QED
    BY <1>4, <1>5 DEF Read, RequestsTyped, WorkerHolds, database, store, worker

LEMMA RequestType == \A h \in Handlers : Typed /\ Request(h) => Typed'
<1> SUFFICES ASSUME NEW h \in Handlers, Typed, Request(h) PROVE Typed'
    OBVIOUS
<1>0. Entries \subseteq FaceIds \X Captures
    BY EntriesType DEF Typed
<1>1. CASE DeleteFace(h)
    <2>1. PICK i \in FaceIds : Present(i) /\ Read(h, "face", NoCamera, {<<i, rows[i]>>})
        BY <1>1 DEF DeleteFace
    <2>2. {<<i, rows[i]>>} \subseteq FaceIds \X Captures
        BY <1>0, <2>1 DEF Entries
    <2> QED
        BY <2>1, <2>2, ReadType
<1>2. CASE PurgeWindow(h)
    <2>1. PICK w \in Windows : Read(h, "window", NoCamera, {e \in Entries : e[2] \in w})
        BY <1>2 DEF PurgeWindow
    <2>2. {e \in Entries : e[2] \in w} \in SUBSET (FaceIds \X Captures)
        BY <1>0
    <2> QED
        BY <2>1, <2>2, ReadType
<1>3. CASE PurgeAll(h)
    BY <1>0, <1>3, ReadType DEF PurgeAll
<1>4. CASE DeleteCamera(h)
    <2>1. PICK k \in cams : Read(h, "camera", k, {e \in Entries : CameraOf[e[2]] = k})
        BY <1>4 DEF DeleteCamera
    <2>2. {e \in Entries : CameraOf[e[2]] = k} \in SUBSET (FaceIds \X Captures)
        BY <1>0
    <2>3. k \in Cameras
        BY <2>1 DEF Typed, TypeOK
    <2> QED
        BY <2>1, <2>2, <2>3, ReadType
<1> QED
    BY <1>1, <1>2, <1>3, <1>4 DEF Request

LEMMA ServeType == \A h \in Handlers : Typed /\ Serve(h) => Typed'
<1> SUFFICES ASSUME NEW h \in Handlers, Typed, Serve(h) PROVE Typed'
    OBVIOUS
<1> USE DEF Typed, TypeOK, WorkerHolds, database, store, worker, history
<1>0. RequestsTyped
    BY DEF RequestsTyped
<1>1. CASE Commit(h)
    <2>1. RequestsTyped'
        <3>1. CASE Finish(h)
            BY <1>0, <3>1, FinishType
        <3>2. CASE ~Finish(h)
            <4>1. CapturesOf(listed[h]) \subseteq Captures
                BY DEF CapturesOf
            <4> QED
                BY <1>0, <1>1, <3>2, <4>1 DEF Commit, RequestsTyped, HandlerSteps
        <3> QED
            BY <3>1, <3>2
    <2>2. /\ rows' \in [FaceIds -> Captures \cup {NoFace}]
          /\ links' \subseteq FaceIds \X FaceIds
        BY <1>1 DEF Commit
    <2> QED
        BY <1>1, <2>1, <2>2 DEF Commit, RequestsTyped
<1>2. CASE Evict(h)
    <2>1. RequestsTyped'
        BY <1>0, <1>2 DEF Evict, RequestsTyped, HandlerSteps
    <2> QED
        BY <1>2, <2>1 DEF Evict, RemoveVector, RequestsTyped
<1>3. CASE Reset(h)
    BY <1>3 DEF Reset, ClearVectors, HandlerSteps
<1>4. CASE ResetSave(h)
    BY <1>4 DEF ResetSave, SaveIndex, HandlerSteps
<1>5. CASE UnlinkFiles(h)
    BY <1>5 DEF UnlinkFiles, UnlinkAll
<1>6. CASE EvictDone(h)
    BY <1>6 DEF EvictDone, HandlerSteps
<1>7. CASE RequestDone(h)
    BY <1>0, <1>7, FinishType DEF RequestDone, RequestsTyped
<1>8. CASE DropCamera(h)
    BY <1>0, <1>8, FinishType DEF DropCamera, RequestsTyped
<1>9. CASE ResetSaveFails(h)
    BY <1>9, AbandonType DEF ResetSaveFails, RequestsTyped
<1>10. CASE UnlinkFails(h)
    BY <1>10, AbandonType DEF UnlinkFails, RequestsTyped
<1> QED
    BY <1>1, <1>2, <1>3, <1>4, <1>5, <1>6, <1>7, <1>8, <1>9, <1>10 DEF Serve

LEMMA BootType ==
    ASSUME Typed, Boot
    PROVE  /\ RequestsTyped'
           /\ cams' \subseteq Cameras /\ streaming' \subseteq Cameras
           /\ pc' = "idle" /\ job' = NoFace /\ dups' = {} /\ face' = NoFace
           /\ dirty' = FALSE /\ starts' \in 0..MaxStarts
<1>1. NoOp \in Ops
    BY DEF NoOp, Ops
<1>2. starts' \in 0..MaxStarts
    BY FaceStoreAssumption DEF Boot, Typed, TypeOK
<1> QED
    BY <1>1, <1>2, SeededType
       DEF Typed, TypeOK, Boot, WorkerIdle, RequestsTyped, HandlerSteps

LEMMA LoadType ==
    ASSUME Typed, NEW file \in SUBSET (FaceIds \X Captures), LoadIndex(file)
    PROVE  /\ index' \subseteq FaceIds \X Captures /\ disk' \subseteq FaceIds \X Captures
           /\ lost' \subseteq Captures /\ torn' \subseteq Captures
<1>1. InFlight \subseteq FaceIds \X Captures
    BY DEF InFlight, Typed, WorkerHolds
<1>2. /\ index' \subseteq file /\ disk' = file
      /\ lost' \subseteq lost \cup CapturesOf(InFlight \cup index \cup file)
      /\ torn' \subseteq torn \cup CapturesOf(index \cup file)
    BY DEF LoadIndex, CapturesOf
<1> QED
    BY <1>1, <1>2 DEF CapturesOf, Typed, TypeOK

LEMMA NextType == Typed /\ [Next]_vars => Typed'
<1> SUFFICES ASSUME Typed, [Next]_vars PROVE Typed'
    OBVIOUS
<1> USE DEF Typed, TypeOK, WorkerHolds, database, store, worker, requests, history
<1>1. ASSUME NEW c \in Captures, Take(c) PROVE Typed'
    BY <1>1 DEF Take, WorkerSteps
<1>2. CASE Persist
    BY <1>2, PersistType
<1>3. ASSUME NEW h \in Handlers, Request(h) \/ Serve(h) PROVE Typed'
    BY <1>3, RequestType, ServeType
<1>4. CASE AddCamera
    BY <1>4 DEF AddCamera
<1>5. CASE Crash
    <2>1. littered' \subseteq Captures
        <3>1. \A h \in Handlers : unlink[h] \cup CapturesOf(evict[h]) \subseteq Captures
            BY DEF CapturesOf
        <3> QED
            BY <1>5, <3>1 DEF Crash
    <2> QED
        BY <1>5, <2>1, BootType, LoadType DEF Crash, RequestsTyped, WorkerSteps
<1>6. CASE Restart
    <2>1. PICK file \in {index, disk} : LoadIndex(file)
        BY <1>6 DEF Restart
    <2> QED
        BY <1>6, <2>1, BootType, LoadType DEF Restart, RequestsTyped, WorkerSteps
<1>7. CASE UNCHANGED vars
    BY <1>7 DEF vars
<1> QED
    BY <1>1, <1>2, <1>3, <1>4, <1>5, <1>6, <1>7 DEF Next

\* Every variable keeps its type, and the worker never touches a row, a file
\* or a vector without the capture and the id the step needs.
THEOREM Typing == Spec => [](TypeOK /\ WorkerHolds)
<1>1. Init => Typed
    BY InitType
<1>2. Typed /\ [Next]_vars => Typed'
    BY NextType
<1> QED
    BY <1>1, <1>2, PTL DEF Spec, Typed

---------------------------------------------------------------------------
(* A clean index is the one on disk *)

LEMMA LoadedClean ==
    ASSUME NEW file, LoadIndex(file)
    PROVE  CleanIsSaved'
<1>1. CASE index' = file
    BY <1>1 DEF LoadIndex, CleanIsSaved
<1>2. CASE index' = {}
    BY <1>2 DEF LoadIndex, CleanIsSaved, CapturesOf
<1> QED
    BY <1>1, <1>2 DEF LoadIndex

\* As long as it is not marked, the index is the one on disk, or empty because the
\* start could not read that one (vector_store.py:42-46, 54-105).
THEOREM CleanSaved == Spec => []CleanIsSaved
<1>1. Init => CleanIsSaved
    BY DEF Init, CleanIsSaved
<1>2. CleanIsSaved /\ [Next]_vars => CleanIsSaved'
    <2> SUFFICES ASSUME CleanIsSaved, [Next]_vars PROVE CleanIsSaved'
        OBVIOUS
    <2> USE DEF CleanIsSaved, store, history
    <2>1. ASSUME NEW c \in Captures, Take(c) PROVE CleanIsSaved'
        BY <2>1 DEF Take
    <2>2. CASE Persist
        BY <2>2 DEF Persist, SaveCrop, SaveFrame, SaveEmbedding, Save, Search, InsertFace,
                    InsertLink, Add, AddVector, MaybeSave, SaveIndex
    <2>3. ASSUME NEW h \in Handlers, Request(h) PROVE CleanIsSaved'
        BY <2>3 DEF Request, DeleteFace, PurgeWindow, PurgeAll, DeleteCamera, Read
    <2>4. ASSUME NEW h \in Handlers, Serve(h) PROVE CleanIsSaved'
        BY <2>4 DEF Serve, Commit, Evict, RemoveVector, Reset, ClearVectors, ResetSave,
                    SaveIndex, ResetSaveFails, UnlinkFiles, UnlinkFails, EvictDone,
                    RequestDone, DropCamera
    <2>5. CASE AddCamera
        BY <2>5 DEF AddCamera
    <2>6. CASE Crash
        BY <2>6, LoadedClean DEF Crash
    <2>7. CASE Restart
        BY <2>7, LoadedClean DEF Restart
    <2>8. CASE UNCHANGED vars
        BY <2>8 DEF vars
    <2> QED
        BY <2>1, <2>2, <2>3, <2>4, <2>5, <2>6, <2>7, <2>8 DEF Next
<1> QED
    BY <1>1, <1>2, PTL DEF Spec

---------------------------------------------------------------------------
(* A row never lacks its files *)

\* Captures that no row has held yet.
Unborn == todo \cup (IF pc \in {"crop", "frame", "npy", "search", "insert"} THEN {job} ELSE {})

\* What _persist has written by each of its steps.
Written ==
    /\ pc \in {"frame", "npy", "search", "insert"} => <<job, "image">> \in files
    /\ pc \in {"search", "insert"} => <<job, "npy">> \in files
    /\ pc \in {"npy", "search", "insert"} /\ job \in Framed => <<job, "frame">> \in files

Gone(c) == c \notin Unborn /\ \A i \in FaceIds : rows[i] # c

\* A capture is in one row at most, and only once; what a request unlinks is
\* gone for good, what it has listed can go through the listed id only.
Once ==
    /\ \A i \in FaceIds : Present(i) => rows[i] \notin Unborn
    /\ \A i, j \in FaceIds : Present(i) /\ rows[i] = rows[j] => i = j
    /\ \A h \in Handlers : \A e \in listed[h] :
          e[2] \notin Unborn /\ \A i \in FaceIds : rows[i] = e[2] => i = e[1]
    /\ \A h \in Handlers : \A e \in evict[h] : Gone(e[2])
    /\ \A h \in Handlers : \A c \in unlink[h] : Gone(c)

FilesInv == Written /\ Once /\ RowHasFiles

\* Steps that insert no row, unlink nothing and read nothing.
LEMMA FilesKept ==
    ASSUME Once, RowHasFiles,
           rows' = rows, files \subseteq files', Unborn' \subseteq Unborn,
           listed' = listed, evict' = evict, unlink' = unlink
    PROVE  Once' /\ RowHasFiles'
BY DEF Once, RowHasFiles, Gone, Present

LEMMA PersistFiles == Typed /\ FilesInv /\ Persist => FilesInv'
<1> SUFFICES ASSUME Typed, FilesInv, Persist PROVE FilesInv'
    OBVIOUS
<1> USE DEF Typed, TypeOK, WorkerHolds, FilesInv, Written, requests
<1>1. CASE SaveCrop
    <2>1. Written' /\ files \subseteq files' /\ Unborn' \subseteq Unborn
        BY <1>1 DEF SaveCrop, CropSaved, GiveUp, WorkerIdle, Unborn
    <2> QED
        BY <1>1, <2>1, FilesKept DEF SaveCrop, database
<1>2. CASE SaveFrame
    <2>1. Written' /\ files \subseteq files' /\ Unborn' \subseteq Unborn
        BY <1>2 DEF SaveFrame, Save, GiveUp, WorkerIdle, Unborn
    <2> QED
        BY <1>2, <2>1, FilesKept DEF SaveFrame, Save, database
<1>3. CASE SaveEmbedding
    <2>1. Written' /\ files \subseteq files' /\ Unborn' \subseteq Unborn
        BY <1>3 DEF SaveEmbedding, Save, GiveUp, WorkerIdle, Unborn
    <2> QED
        BY <1>3, <2>1, FilesKept DEF SaveEmbedding, Save, database
<1>4. CASE Search
    <2>1. Written' /\ files \subseteq files' /\ Unborn' \subseteq Unborn
        BY <1>4 DEF Search, Unborn
    <2> QED
        BY <1>4, <2>1, FilesKept DEF Search, database
<1>5. CASE InsertFace
    <2>1. Written' /\ files' = files /\ Unborn' = todo
        BY <1>5 DEF InsertFace, GiveUp, WorkerIdle, Unborn
    <2>2. CASE UNCHANGED rows
        BY <1>5, <2>1, <2>2, FilesKept DEF InsertFace, Unborn
    <2>3. CASE \E n \in FaceIds : IsNextId(n) /\ rows' = [rows EXCEPT ![n] = job]
        <3>1. PICK n \in FaceIds : rows' = [rows EXCEPT ![n] = job]
            BY <2>3
        <3>2. job \in Unborn /\ job \notin todo /\ job \in Captures
            BY <1>5 DEF InsertFace, Unborn
        <3>3. \A i \in FaceIds : rows'[i] = IF i = n THEN job ELSE rows[i]
            BY <3>1
        <3>4. listed' = listed /\ evict' = evict /\ unlink' = unlink
            BY <1>5 DEF InsertFace
        <3>5. Once'
            BY <2>1, <3>2, <3>3, <3>4 DEF Once, Gone, Present, Unborn
        <3>6. RowHasFiles'
            BY <1>5, <2>1, <3>3 DEF InsertFace, RowHasFiles, Present
        <3> QED
            BY <2>1, <3>5, <3>6
    <2> QED
        BY <1>5, <2>2, <2>3 DEF InsertFace
<1>6. CASE InsertLink
    <2>1. Written' /\ files' = files /\ Unborn' \subseteq Unborn
        BY <1>6 DEF InsertLink, GiveUp, WorkerIdle, Unborn
    <2> QED
        BY <1>6, <2>1, FilesKept DEF InsertLink
<1>7. CASE Add
    <2>1. Written' /\ files' = files /\ Unborn' \subseteq Unborn
        BY <1>7 DEF Add, Unborn
    <2> QED
        BY <1>7, <2>1, FilesKept DEF Add, database
<1>8. CASE MaybeSave
    <2>1. Written' /\ files' = files /\ Unborn' \subseteq Unborn
        BY <1>8 DEF MaybeSave, WorkerIdle, Unborn
    <2> QED
        BY <1>8, <2>1, FilesKept DEF MaybeSave, database
<1> QED
    BY <1>1, <1>2, <1>3, <1>4, <1>5, <1>6, <1>7, <1>8 DEF Persist

LEMMA ReadFiles ==
    ASSUME Typed, FilesInv, NEW h \in Handlers, NEW kind, NEW cam,
           NEW chosen \in SUBSET Entries, Read(h, kind, cam, chosen)
    PROVE  FilesInv'
<1>1. \A e \in chosen : e[1] \in FaceIds /\ Present(e[1]) /\ e[2] = rows[e[1]]
    BY DEF Entries
<1>2. UNCHANGED <<rows, files, todo, pc, job, evict, unlink>>
    BY DEF Read, database, worker
<1>3. \A g \in Handlers : listed'[g] = IF g = h THEN chosen ELSE listed[g]
    BY DEF Read, Typed, TypeOK
<1> QED
    BY <1>1, <1>2, <1>3 DEF FilesInv, Written, Once, RowHasFiles, Gone, Present, Unborn

LEMMA RequestFiles == \A h \in Handlers : Typed /\ FilesInv /\ Request(h) => FilesInv'
<1> SUFFICES ASSUME NEW h \in Handlers, Typed, FilesInv, Request(h) PROVE FilesInv'
    OBVIOUS
<1>1. CASE DeleteFace(h)
    <2>1. PICK i \in FaceIds : Present(i) /\ Read(h, "face", NoCamera, {<<i, rows[i]>>})
        BY <1>1 DEF DeleteFace
    <2>2. {<<i, rows[i]>>} \in SUBSET Entries
        BY <2>1 DEF Entries
    <2> QED
        BY <2>1, <2>2, ReadFiles
<1>2. CASE PurgeWindow(h)
    <2>1. PICK w \in Windows : Read(h, "window", NoCamera, {e \in Entries : e[2] \in w})
        BY <1>2 DEF PurgeWindow
    <2>2. {e \in Entries : e[2] \in w} \in SUBSET Entries
        OBVIOUS
    <2> QED
        BY <2>1, <2>2, ReadFiles
<1>3. CASE PurgeAll(h)
    BY <1>3, ReadFiles DEF PurgeAll
<1>4. CASE DeleteCamera(h)
    <2>1. PICK k \in cams : Read(h, "camera", k, {e \in Entries : CameraOf[e[2]] = k})
        BY <1>4 DEF DeleteCamera
    <2>2. {e \in Entries : CameraOf[e[2]] = k} \in SUBSET Entries
        OBVIOUS
    <2> QED
        BY <2>1, <2>2, ReadFiles
<1> QED
    BY <1>1, <1>2, <1>3, <1>4 DEF Request

LEMMA ServeFiles == \A h \in Handlers : Typed /\ FilesInv /\ Serve(h) => FilesInv'
<1> SUFFICES ASSUME NEW h \in Handlers, Typed, FilesInv, Serve(h) PROVE FilesInv'
    OBVIOUS
<1> USE DEF FilesInv
<1>0. ASSUME UNCHANGED <<rows, files, todo, pc, job>>,
             \A g \in Handlers : /\ listed'[g] \subseteq listed[g]
                                /\ evict'[g] \subseteq evict[g]
                                /\ \A c \in unlink'[g] :
                                      c \in unlink[g] \/ \E e \in evict[g] : c = e[2]
      PROVE  FilesInv'
    BY <1>0 DEF Written, Once, RowHasFiles, Gone, Present, Unborn
<1>1. CASE Commit(h)
    <2>1. CASE Finish(h) /\ UNCHANGED <<rows, links>>
        BY <1>0, <1>1, <2>1 DEF Commit, Finish, worker, Typed, TypeOK
    <2>2. CASE ~(Finish(h) /\ UNCHANGED <<rows, links>>)
        <3> DEFINE ids == Ids(listed[h])
        <3>1. /\ \A i \in FaceIds : rows'[i] = IF i \in ids THEN NoFace ELSE rows[i]
              /\ UNCHANGED <<files, todo, pc, job, listed>>
            BY <1>1, <2>2 DEF Commit, worker
        <3>2. \A g \in Handlers :
                /\ evict'[g] \subseteq IF g = h THEN listed[h] ELSE evict[g]
                /\ unlink'[g] \subseteq IF g = h THEN {e[2] : e \in listed[h]} ELSE unlink[g]
            BY <1>1, <2>2 DEF Commit, CapturesOf, Typed, TypeOK
        <3>3. \A e \in listed[h] : e[1] \in ids /\ e[2] \in Captures
            BY DEF Ids, Typed, TypeOK
        <3>4. \A e \in listed[h] : \A i \in FaceIds : rows'[i] # e[2]
            BY <3>1, <3>3 DEF Once, NoFace, Captures
        <3>5. \A c \in Captures : Gone(c) => Gone(c)'
            BY <3>1 DEF Gone, Unborn, NoFace, Captures
        <3>6. \A e \in listed[h] : Gone(e[2])'
            BY <3>1, <3>4 DEF Once, Gone, Unborn
        <3>7. \A g \in Handlers : \A e \in evict'[g] : Gone(e[2])'
            BY <3>2, <3>5, <3>6 DEF Once, Typed, TypeOK
        <3>8. \A g \in Handlers : \A c \in unlink'[g] : Gone(c)'
            BY <3>2, <3>5, <3>6 DEF Once, Typed, TypeOK
        <3>9. /\ \A i \in FaceIds : Present(i)' => rows'[i] \notin Unborn'
              /\ \A i, j \in FaceIds : Present(i)' /\ rows'[i] = rows'[j] => i = j
              /\ \A g \in Handlers : \A e \in listed'[g] :
                    e[2] \notin Unborn' /\ \A i \in FaceIds : rows'[i] = e[2] => i = e[1]
            BY <3>1 DEF Once, Present, Unborn, NoFace, Captures, Typed, TypeOK
        <3>10. Written' /\ RowHasFiles'
            BY <3>1 DEF Written, RowHasFiles, Present
        <3> QED
            BY <3>7, <3>8, <3>9, <3>10 DEF Once
    <2> QED
        BY <2>1, <2>2
<1>2. CASE Evict(h)
    BY <1>0, <1>2 DEF Evict, database, worker, Typed, TypeOK
<1>3. CASE Reset(h)
    BY <1>0, <1>3 DEF Reset, database, worker
<1>4. CASE ResetSave(h)
    BY <1>0, <1>4 DEF ResetSave, database, worker
<1>5. CASE UnlinkFiles(h)
    <2>1. PICK c \in unlink[h] : /\ files' = {f \in files : f[1] # c}
                                /\ unlink' = [unlink EXCEPT ![h] = @ \ {c}]
        BY <1>5 DEF UnlinkFiles, UnlinkAll
    <2>2. UNCHANGED <<rows, todo, pc, job, listed, evict>>
        BY <1>5 DEF UnlinkFiles, database, worker
    <2>3. Gone(c)
        BY DEF Once
    <2>4. Once'
        BY <2>1, <2>2 DEF Once, Gone, Present, Unborn, Typed, TypeOK
    <2>5. Written' /\ RowHasFiles'
        BY <2>1, <2>2, <2>3 DEF Written, RowHasFiles, Gone, Present, Unborn
    <2> QED
        BY <2>4, <2>5
<1>6. CASE EvictDone(h)
    BY <1>0, <1>6 DEF EvictDone, database, worker
<1>7. CASE RequestDone(h)
    BY <1>0, <1>7 DEF RequestDone, Finish, database, worker, Typed, TypeOK
<1>8. CASE DropCamera(h)
    BY <1>0, <1>8 DEF DropCamera, Finish, worker, Typed, TypeOK
<1>9. CASE ResetSaveFails(h)
    BY <1>0, <1>9 DEF ResetSaveFails, Abandon, Finish, database, worker, Typed, TypeOK
<1>10. CASE UnlinkFails(h)
    <2>1. PICK c \in unlink[h], some \in SUBSET Kinds : files' = files \ ({c} \X some)
        BY <1>10 DEF UnlinkFails
    <2>2. /\ UNCHANGED <<rows, todo, pc, job>>
          /\ \A g \in Handlers : /\ listed'[g] \subseteq listed[g]
                                 /\ evict'[g] \subseteq evict[g]
                                 /\ unlink'[g] \subseteq unlink[g]
        BY <1>10 DEF UnlinkFails, Abandon, Finish, database, worker, Typed, TypeOK
    <2>3. Gone(c)
        BY DEF Once
    <2>4. Once'
        BY <2>2 DEF Once, Gone, Present, Unborn, Typed, TypeOK
    <2>5. \A f \in files : f[1] # c => f \in files'
        BY <2>1
    <2>6. \A d, kind : d # c /\ <<d, kind>> \in files => <<d, kind>> \in files'
        BY <2>5
    <2>7. Written' /\ RowHasFiles'
        BY <2>2, <2>3, <2>6 DEF Written, RowHasFiles, Gone, Present, Unborn
    <2> QED
        BY <2>4, <2>7
<1> QED
    BY <1>1, <1>2, <1>3, <1>4, <1>5, <1>6, <1>7, <1>8, <1>9, <1>10 DEF Serve

LEMMA NextFiles == Typed /\ FilesInv /\ [Next]_vars => FilesInv'
<1> SUFFICES ASSUME Typed, FilesInv, [Next]_vars PROVE FilesInv'
    OBVIOUS
<1>1. ASSUME NEW c \in Captures, Take(c) PROVE FilesInv'
    <2>1. Written' /\ files' = files /\ Unborn' \subseteq Unborn
        BY <1>1 DEF Take, Written, Unborn
    <2> QED
        BY <1>1, <2>1, FilesKept DEF Take, FilesInv, database, requests
<1>2. CASE Persist
    BY <1>2, PersistFiles
<1>3. ASSUME NEW h \in Handlers, Request(h) \/ Serve(h) PROVE FilesInv'
    BY <1>3, RequestFiles, ServeFiles
<1>4. CASE AddCamera
    <2>1. Written' /\ files' = files /\ Unborn' \subseteq Unborn
        BY <1>4 DEF AddCamera, FilesInv, Written, Unborn, worker
    <2> QED
        BY <1>4, <2>1, FilesKept DEF AddCamera, FilesInv, requests
<1>5. CASE Crash \/ Restart
    <2>1. UNCHANGED <<rows, files, todo>> /\ pc' = "idle"
        BY <1>5 DEF Crash, Restart, Boot, WorkerIdle
    <2>2. \A g \in Handlers : listed'[g] = {} /\ evict'[g] = {} /\ unlink'[g] = {}
        BY <1>5 DEF Crash, Restart, Boot
    <2> QED
        BY <2>1, <2>2 DEF FilesInv, Written, Once, RowHasFiles, Gone, Present, Unborn
<1>6. CASE UNCHANGED vars
    BY <1>6 DEF vars, database, worker, requests, FilesInv, Written, Once, RowHasFiles,
                Gone, Present, Unborn
<1> QED
    BY <1>1, <1>2, <1>3, <1>4, <1>5, <1>6 DEF Next

LEMMA AllTyped == Spec => []Typed
<1>1. Init => Typed
    BY InitType
<1>2. Typed /\ [Next]_vars => Typed'
    BY NextType
<1> QED
    BY <1>1, <1>2, PTL DEF Spec

LEMMA AllFiles == Spec => []FilesInv
<1>1. Init => FilesInv
    BY DEF Init, FilesInv, Written, Once, RowHasFiles, Gone, Present, Unborn
<1>2. Typed /\ FilesInv /\ [Next]_vars => FilesInv'
    BY NextFiles
<1> QED
    BY <1>1, <1>2, AllTyped, PTL DEF Spec

\* Whatever crashes, fails or is deleted meanwhile, the image, the embedding
\* and the frame a row names are on disk (workers.py:277-324).
THEOREM FilesSafe == Spec => []RowHasFiles
<1>1. FilesInv => RowHasFiles
    BY DEF FilesInv
<1> QED
    BY <1>1, AllFiles, PTL

---------------------------------------------------------------------------
(* Vectors and the captures they belong to *)

\* A vector belongs to a capture that has had its row, and lies under the id of
\* that row; the capture the worker has in hand has none.
Fresh ==
    /\ \A v \in index \cup disk : /\ v[2] \notin Unborn
                                  /\ \A i \in FaceIds : rows[i] = v[2] => i = v[1]
    /\ pc \in {"link", "add"} =>
          /\ \A v \in index \cup disk : v[2] # job
          /\ \A i \in FaceIds : rows[i] = job => i = face

\* Steps that insert neither a row nor a vector.
LEMMA FreshKept ==
    ASSUME Typed, Fresh, index' \cup disk' \subseteq index \cup disk, Unborn' \subseteq Unborn,
           \A i \in FaceIds : rows'[i] \in {rows[i], NoFace},
           pc' \in {"link", "add"} =>
               pc \in {"link", "add"} /\ job' = job /\ face' = face
    PROVE  Fresh'
<1>1. \A v \in index' \cup disk' : v \in index \cup disk /\ v[2] # NoFace
    BY DEF Typed, TypeOK, Captures, NoFace
<1>2. pc' \in {"link", "add"} => job # NoFace
    BY DEF Typed, WorkerHolds, Captures, NoFace
<1> QED
    BY <1>1, <1>2 DEF Fresh

LEMMA PersistFresh == Typed /\ FilesInv /\ Fresh /\ Persist => Fresh'
<1> SUFFICES ASSUME Typed, FilesInv, Fresh, Persist PROVE Fresh'
    OBVIOUS
<1> USE DEF database, store
<1>1. CASE SaveCrop \/ SaveFrame \/ SaveEmbedding \/ Search
    <2>1. /\ UNCHANGED <<rows, index, disk>>
          /\ pc' \notin {"link", "add"} /\ Unborn' \subseteq Unborn
        BY <1>1 DEF SaveCrop, SaveFrame, SaveEmbedding, Save, Search, GiveUp, WorkerIdle, Unborn
    <2> QED
        BY <2>1, FreshKept
<1>2. CASE InsertFace
    <2>1. /\ UNCHANGED <<index, disk, todo>> /\ pc = "insert"
          /\ Unborn' = todo /\ Unborn = todo \cup {job}
        BY <1>2 DEF InsertFace, GiveUp, WorkerIdle, Unborn
    <2>2. CASE GiveUp /\ UNCHANGED rows
        BY <2>1, <2>2, FreshKept DEF GiveUp, WorkerIdle
    <2>3. CASE ~(GiveUp /\ UNCHANGED rows)
        <3>1. PICK n \in FaceIds : rows' = [rows EXCEPT ![n] = job] /\ face' = n
            BY <1>2, <2>3 DEF InsertFace
        <3>2. \A i \in FaceIds : rows'[i] = IF i = n THEN job ELSE rows[i]
            BY <3>1 DEF Typed, TypeOK
        <3>3. job' = job
            BY <1>2, <2>3 DEF InsertFace
        <3>4. \A i \in FaceIds : rows[i] # job
            <4>1. job # NoFace
                BY <2>1 DEF Typed, WorkerHolds, Captures, NoFace
            <4> QED
                BY <2>1, <4>1 DEF FilesInv, Once, Present
        <3> QED
            BY <2>1, <3>1, <3>2, <3>3, <3>4 DEF Fresh
    <2> QED
        BY <2>2, <2>3
<1>3. CASE InsertLink
    <2>1. /\ UNCHANGED <<rows, index, disk>> /\ Unborn' \subseteq Unborn /\ pc = "link"
          /\ pc' = "idle" \/ UNCHANGED <<job, face>>
        BY <1>3 DEF InsertLink, WorkerIdle, Unborn
    <2> QED
        BY <2>1, FreshKept
<1>4. CASE Add
    <2>1. /\ UNCHANGED <<rows, disk, todo>> /\ pc = "add" /\ pc' = "flush"
          /\ index' = index \cup {<<face, job>>}
        BY <1>4 DEF Add, AddVector
    <2>2. Unborn' = Unborn /\ job \notin Unborn
        BY <2>1 DEF Unborn, Typed, WorkerHolds
    <2> QED
        BY <2>1, <2>2 DEF Fresh
<1>5. CASE MaybeSave
    <2>1. /\ UNCHANGED <<rows, index>> /\ disk' \in {index, disk} /\ pc' = "idle"
          /\ Unborn' \subseteq Unborn
        BY <1>5 DEF MaybeSave, SaveIndex, WorkerIdle, Unborn
    <2> QED
        BY <2>1, FreshKept
<1> QED
    BY <1>1, <1>2, <1>3, <1>4, <1>5 DEF Persist

LEMMA NextFresh == Typed /\ FilesInv /\ Fresh /\ [Next]_vars => Fresh'
<1> SUFFICES ASSUME Typed, FilesInv, Fresh, [Next]_vars PROVE Fresh'
    OBVIOUS
<1> USE DEF database, store, worker, Unborn
<1>1. ASSUME NEW c \in Captures, Take(c) PROVE Fresh'
    BY <1>1, FreshKept DEF Take
<1>2. CASE Persist
    BY <1>2, PersistFresh
<1>3. ASSUME NEW h \in Handlers, Request(h) PROVE Fresh'
    <2>1. UNCHANGED <<rows, index, disk, todo, pc, job, face>>
        BY <1>3 DEF Request, DeleteFace, PurgeWindow, PurgeAll, DeleteCamera, Read
    <2> QED
        BY <2>1, FreshKept
<1>4. ASSUME NEW h \in Handlers, Serve(h) PROVE Fresh'
    <2>1. index' \subseteq index /\ disk' \in {index, disk} /\ UNCHANGED worker
        BY <1>4 DEF Serve, Commit, Evict, RemoveVector, Reset, ClearVectors, ResetSave, SaveIndex,
                    ResetSaveFails, UnlinkFiles, UnlinkFails, EvictDone, RequestDone, DropCamera
    <2>2. \A i \in FaceIds : rows'[i] \in {rows[i], NoFace}
        <3>1. CASE Commit(h)
            BY <3>1 DEF Commit
        <3>2. CASE ~Commit(h)
            BY <1>4, <3>2 DEF Serve, Evict, Reset, ResetSave, ResetSaveFails, UnlinkFiles,
                              UnlinkFails, EvictDone, RequestDone, DropCamera
        <3> QED
            BY <3>1, <3>2
    <2> QED
        BY <2>1, <2>2, FreshKept
<1>5. CASE Crash \/ Restart
    <2>1. UNCHANGED <<rows, todo>> /\ pc' = "idle"
        BY <1>5 DEF Crash, Restart, Boot, WorkerIdle
    <2>2. index' \cup disk' \subseteq index \cup disk
        BY <1>5 DEF Crash, Restart, LoadIndex
    <2> QED
        BY <2>1, <2>2, FreshKept
<1>6. CASE AddCamera \/ UNCHANGED vars
    BY <1>6, FreshKept DEF AddCamera, vars
<1> QED
    BY <1>1, <1>2, <1>3, <1>4, <1>5, <1>6 DEF Next

LEMMA AllFresh == Spec => []Fresh
<1>1. Init => Fresh
    BY DEF Init, Fresh
<1>2. Typed /\ FilesInv /\ Fresh /\ [Next]_vars => Fresh'
    BY NextFresh
<1> QED
    BY <1>1, <1>2, AllTyped, AllFiles, PTL DEF Spec

---------------------------------------------------------------------------
(* Rows, links and index *)

LinkEnds == \A l \in links : Present(l[1]) /\ Present(l[2])

\* What becomes of the row the worker has inserted: nobody else gets its id, and
\* whoever has the capture or the id in hand has marked it.
WorkerSees ==
    pc \in {"link", "add"} =>
        /\ rows[face] \in {job, NoFace}
        /\ job \notin torn => rows[face] = job
        /\ \A i \in FaceIds : Present(i) => i <= face
        /\ face \in dups => job \in torn
        /\ \A h \in Handlers : \A e \in listed[h] : hpc[h] = "commit" /\ e[2] = job => job \in torn

\* What a request has read is still there, or somebody has deleted it already;
\* who came under one of its ids since is marked.
RequestSees(h) ==
    /\ hpc[h] = "commit" =>
         /\ \A e \in listed[h] : rows[e[1]] \in {e[2], NoFace} \cup torn
         /\ op[h].kind = "all" =>
               \A i \in FaceIds : Present(i) => i \in Ids(listed[h]) \/ rows[i] \in torn
    /\ hpc[h] = "reset" => /\ op[h].kind = "all"
                           /\ \A i \in FaceIds : Present(i) => rows[i] \in torn
    /\ \A e \in evict[h] : Present(e[1]) => rows[e[1]] \in torn
    /\ evict[h] # {} => hpc[h] = "evict"

\* Every row that is neither under way nor marked has its vector ...
RowsFound == \A e \in Entries \ InFlight : e \in index \/ e[2] \in torn \cup lost

\* ... and every vector that is neither marked nor to be removed has its row, in
\* memory and, where that is what a start would read, on disk.
Explained(v) == v \in Entries \/ v[2] \in torn \/ Doomed(v)

VectorsNamed ==
    /\ \A v \in index : Explained(v)
    /\ ~dirty => \A v \in disk : Explained(v)

LinksBack == \A l \in links : /\ l[2] <= l[1]
                              /\ l[2] = l[1] => rows[l[1]] \in torn

SyncInv ==
    /\ LinkEnds /\ LinksBack
    /\ WorkerSees /\ \A h \in Handlers : RequestSees(h)
    /\ RowsFound /\ VectorsNamed

\* What the proof that a step keeps SyncInv starts from.
SyncBase == Typed /\ FilesInv /\ Fresh /\ CleanIsSaved /\ SyncInv

LEMMA InEntries ==
    ASSUME NEW e
    PROVE  e \in Entries <=> \E i \in FaceIds : Present(i) /\ e = <<i, rows[i]>>
BY DEF Entries

\* A vector whose capture still has a row is that row's.
LEMMA NamedByRow ==
    ASSUME Typed, Fresh, NEW v \in index \cup disk, v[2] \in Stored
    PROVE  v \in Entries
<1>1. PICK i \in FaceIds : rows[i] = v[2]
    BY DEF Stored
<1>2. i = v[1] /\ v = <<v[1], v[2]>> /\ v[2] \in Captures
    BY <1>1 DEF Fresh, Typed, TypeOK
<1>3. Present(i)
    BY <1>1, <1>2 DEF Present, Captures, NoFace
<1> QED
    BY <1>1, <1>2, <1>3, InEntries

LEMMA EntriesStay ==
    ASSUME UNCHANGED rows
    PROVE  Entries' = Entries /\ Stored' = Stored /\ \A i : Present(i)' <=> Present(i)
BY DEF Entries, Stored, Present

\* Steps that leave rows, links, requests and marks alone, and the worker on the
\* same side of its critical steps.
LEMMA WorkerOutside ==
    ASSUME SyncBase, UNCHANGED <<rows, links, hpc, op, listed, evict, torn, index>>,
           lost \subseteq lost', pc' \notin {"link", "add"}, pc \notin {"link", "add"},
           ~dirty' => (~dirty /\ disk' = disk) \/ disk' = index
    PROVE  SyncInv'
<1>1. Entries' = Entries /\ \A i : Present(i)' <=> Present(i)
    BY EntriesStay
<1>2. InFlight = {} /\ InFlight' = {}
    BY DEF InFlight
<1>3. \A v : Explained(v)' <=> Explained(v)
    BY <1>1 DEF Explained, Doomed
<1>4. LinkEnds' /\ LinksBack' /\ WorkerSees'
    BY <1>1 DEF SyncBase, SyncInv, LinkEnds, LinksBack, WorkerSees
<1>5. \A h \in Handlers : RequestSees(h)'
    BY <1>1 DEF SyncBase, SyncInv, RequestSees, Ids
<1>6. RowsFound' /\ VectorsNamed'
    BY <1>1, <1>2, <1>3 DEF SyncBase, SyncInv, RowsFound, VectorsNamed
<1> QED
    BY <1>4, <1>5, <1>6 DEF SyncInv

\* The new row is under way, and marked if anybody has its id in hand.
LEMMA InsertSync == SyncBase /\ InsertFace => SyncInv'
<1> SUFFICES ASSUME SyncBase, InsertFace PROVE SyncInv'
    OBVIOUS
<1> USE DEF SyncBase
<1>0. UNCHANGED <<links, index, disk, dirty, hpc, op, listed, evict, lost>> /\ pc = "insert"
    BY DEF InsertFace, store, requests
<1>1. CASE GiveUp /\ UNCHANGED <<rows, torn>>
    BY <1>0, <1>1, WorkerOutside DEF GiveUp, WorkerIdle
<1>2. CASE ~(GiveUp /\ UNCHANGED <<rows, torn>>)
    <2>1. PICK n \in FaceIds : /\ IsNextId(n) /\ rows' = [rows EXCEPT ![n] = job] /\ face' = n
                               /\ torn' = IF Reused(n) THEN torn \cup {job} ELSE torn
        BY <1>2 DEF InsertFace
    <2>2. /\ pc' = IF dups = {} THEN "add" ELSE "link"
          /\ UNCHANGED <<job, dups>>
        BY <1>2 DEF InsertFace
    <2>3. \A i \in FaceIds : rows'[i] = IF i = n THEN job ELSE rows[i]
        BY <2>1 DEF Typed, TypeOK
    <2>4. job # NoFace /\ rows'[n] = job /\ job \in Unborn
        BY <1>0, <2>3 DEF Typed, WorkerHolds, NoFace, Captures, Unborn
    <2>5. rows[n] = NoFace /\ \A i \in FaceIds : Present(i) => i < n
        BY <2>1 DEF IsNextId, FaceIds, Captures, Present
    <2>6. \A i \in FaceIds : Present(i)' <=> Present(i) \/ i = n
        BY <2>3, <2>4 DEF Present
    <2>7. torn \subseteq torn' /\ (Reused(n) => job \in torn')
        BY <2>1
    <2>8. LinkEnds' /\ LinksBack'
        <3>1. \A l \in links : l[1] \in FaceIds /\ l[2] \in FaceIds /\ l[1] # n
            BY <2>5 DEF SyncInv, LinkEnds, Present, Typed, TypeOK
        <3> QED
            BY <1>0, <2>3, <2>6, <2>7, <3>1 DEF SyncInv, LinkEnds, LinksBack
    <2>9. WorkerSees'
        <3>1. \A h \in Handlers : \A e \in listed[h] : e[2] # job
            BY <2>4 DEF FilesInv, Once
        <3>2. n \in dups => job \in torn'
            BY <2>7 DEF Reused
        <3>3. \A i \in FaceIds : Present(i)' => i <= n
            BY <2>5, <2>6 DEF FaceIds, Captures
        <3> QED
            BY <1>0, <2>1, <2>2, <2>4, <3>1, <3>2, <3>3 DEF WorkerSees
    <2>10. ASSUME NEW h \in Handlers PROVE RequestSees(h)'
        <3>1. n \in Held(h) => job \in torn'
            BY <2>7 DEF Reused
        <3>2. \A e \in listed[h] \cup evict[h] : e[1] \in FaceIds
            BY DEF Typed, TypeOK
        <3>3. RequestSees(h)
            BY DEF SyncInv
        <3>4. CASE hpc[h] = "commit"
            <4>1. ASSUME NEW e \in listed[h] PROVE rows'[e[1]] \in {e[2], NoFace} \cup torn'
                <5>1. CASE e[1] = n
                    <6>1. n \in Held(h)
                        BY <3>4, <5>1 DEF Held, Ids
                    <6> QED
                        BY <2>3, <3>1, <5>1, <6>1
                <5>2. CASE e[1] # n
                    BY <2>3, <2>7, <3>2, <3>3, <3>4, <5>2 DEF RequestSees
                <5> QED
                    BY <5>1, <5>2
            <4>2. ASSUME op[h].kind = "all", NEW i \in FaceIds, Present(i)'
                  PROVE  i \in Ids(listed[h]) \/ rows'[i] \in torn'
                <5>1. n \in Held(h)
                    BY <3>4, <4>2 DEF Held
                <5> QED
                    BY <2>3, <2>6, <2>7, <3>1, <3>3, <3>4, <4>2, <5>1 DEF RequestSees
            <4>3. evict[h] = {}
                BY <3>3, <3>4 DEF RequestSees
            <4> QED
                BY <1>0, <3>4, <4>1, <4>2, <4>3 DEF RequestSees, Ids
        <3>5. CASE hpc[h] = "reset"
            <4>1. n \in Held(h)
                BY <3>3, <3>5 DEF Held, RequestSees
            <4> QED
                BY <1>0, <2>3, <2>6, <2>7, <3>1, <3>2, <3>3, <3>5, <4>1 DEF RequestSees
        <3>6. CASE hpc[h] \notin {"commit", "reset"}
            <4>1. ASSUME NEW e \in evict[h], Present(e[1])' PROVE rows'[e[1]] \in torn'
                <5>1. CASE e[1] = n
                    <6>1. n \in Held(h)
                        BY <3>6, <5>1 DEF Held, Ids
                    <6> QED
                        BY <2>3, <3>1, <5>1, <6>1
                <5>2. CASE e[1] # n
                    BY <2>3, <2>6, <2>7, <3>2, <3>3, <4>1, <5>2 DEF RequestSees
                <5> QED
                    BY <5>1, <5>2
            <4> QED
                BY <1>0, <3>3, <3>6, <4>1 DEF RequestSees
        <3> QED
            BY <3>4, <3>5, <3>6
    <2>11. Entries' = Entries \cup {<<n, job>>}
        <3>1. \A i \in FaceIds : i # n => rows'[i] = rows[i]
            BY <2>3
        <3>2. ~Present(n)
            BY <2>5 DEF Present
        <3> QED
            BY <2>4, <2>6, <3>1, <3>2 DEF Entries
    <2>12. InFlight = {} /\ InFlight' = {<<n, job>>}
        BY <1>0, <2>1, <2>2 DEF InFlight
    <2>13. RowsFound' /\ VectorsNamed'
        <3>1. \A v : Explained(v) => Explained(v)'
            BY <1>0, <2>7, <2>11 DEF Explained, Doomed
        <3> QED
            BY <1>0, <2>7, <2>11, <2>12, <3>1 DEF SyncInv, RowsFound, VectorsNamed
    <2> QED
        BY <2>8, <2>9, <2>10, <2>13 DEF SyncInv
<1> QED
    BY <1>1, <1>2

LEMMA LinkSync == SyncBase /\ InsertLink => SyncInv'
<1> SUFFICES ASSUME SyncBase, InsertLink PROVE SyncInv'
    OBVIOUS
<1> USE DEF SyncBase
<1>0. UNCHANGED <<rows, index, disk, dirty, hpc, op, listed, evict, torn>> /\ pc = "link"
    BY DEF InsertLink, store, requests
<1>1. PICK m \in dups :
        \/ /\ Present(m) /\ Present(face)
           /\ NewLink(face, m)
           /\ dups' = dups \ {m}
           /\ pc' = IF dups = {m} THEN "add" ELSE "link"
           /\ UNCHANGED <<job, face, lost>>
        \/ /\ WorkerIdle
           /\ lost' = lost \cup {job}
           /\ UNCHANGED links
    BY DEF InsertLink
<1>2. Entries' = Entries /\ \A i : Present(i)' <=> Present(i)
    BY <1>0, EntriesStay
<1>3. \A h \in Handlers : RequestSees(h)'
    BY <1>0, <1>2 DEF SyncInv, RequestSees, Ids
<1>4. VectorsNamed'
    <2>1. \A v : Explained(v) => Explained(v)'
        BY <1>0, <1>2 DEF Explained, Doomed
    <2> QED
        BY <1>0, <2>1 DEF SyncInv, VectorsNamed
<1>5. CASE WorkerIdle /\ lost' = lost \cup {job} /\ UNCHANGED links
    <2>1. LinkEnds' /\ LinksBack' /\ WorkerSees'
        BY <1>0, <1>2, <1>5 DEF SyncInv, LinkEnds, LinksBack, WorkerSees, WorkerIdle
    <2>2. InFlight = {<<face, job>>} /\ InFlight' = {}
        BY <1>0, <1>5 DEF InFlight, WorkerIdle
    <2>3. RowsFound'
        BY <1>0, <1>2, <1>5, <2>2 DEF SyncInv, RowsFound
    <2> QED
        BY <1>3, <1>4, <2>1, <2>3 DEF SyncInv
<1>6. CASE ~(WorkerIdle /\ lost' = lost \cup {job} /\ UNCHANGED links)
    <2>1. /\ Present(m) /\ Present(face)
          /\ links' = links \cup {<<face, m>>}
          /\ dups' \subseteq dups /\ pc' \in {"add", "link"}
          /\ UNCHANGED <<job, face, lost>>
        BY <1>1, <1>6 DEF NewLink
    <2>2. m \in FaceIds /\ face \in FaceIds
        BY <1>0, <1>1 DEF Typed, TypeOK, WorkerHolds
    <2>3. m <= face /\ (m = face => rows[face] \in torn)
        BY <1>0, <1>1, <2>1, <2>2 DEF SyncInv, WorkerSees, Present
    <2>4. LinkEnds' /\ LinksBack' /\ WorkerSees'
        BY <1>0, <1>2, <2>1, <2>3 DEF SyncInv, LinkEnds, LinksBack, WorkerSees
    <2>5. RowsFound'
        <3>1. InFlight' = InFlight
            BY <1>0, <2>1 DEF InFlight
        <3> QED
            BY <1>0, <1>2, <2>1, <3>1 DEF SyncInv, RowsFound
    <2> QED
        BY <1>3, <1>4, <2>4, <2>5 DEF SyncInv
<1> QED
    BY <1>5, <1>6

LEMMA AddSync == SyncBase /\ Add => SyncInv'
<1> SUFFICES ASSUME SyncBase, Add PROVE SyncInv'
    OBVIOUS
<1> USE DEF SyncBase
<1>0. /\ UNCHANGED <<rows, links, hpc, op, listed, evict, torn, lost>>
      /\ pc = "add" /\ pc' = "flush" /\ dirty' = TRUE
      /\ index' = index \cup {<<face, job>>}
    BY DEF Add, AddVector, database, requests, history
<1>1. Entries' = Entries /\ \A i : Present(i)' <=> Present(i)
    BY <1>0, EntriesStay
<1>2. LinkEnds' /\ LinksBack' /\ WorkerSees'
    BY <1>0, <1>1 DEF SyncInv, LinkEnds, LinksBack, WorkerSees
<1>3. \A h \in Handlers : RequestSees(h)'
    BY <1>0, <1>1 DEF SyncInv, RequestSees, Ids
<1>4. InFlight = {<<face, job>>} /\ InFlight' = {}
    BY <1>0 DEF InFlight
<1>5. RowsFound'
    BY <1>0, <1>1, <1>4 DEF SyncInv, RowsFound
<1>6. <<face, job>> \in Entries \/ job \in torn
    <2>1. face \in FaceIds /\ job # NoFace /\ (job \notin torn => rows[face] = job)
        BY <1>0 DEF SyncInv, WorkerSees, Typed, WorkerHolds, NoFace, Captures
    <2> QED
        BY <2>1, InEntries DEF Present
<1>7. VectorsNamed'
    <2>1. \A v : Explained(v) => Explained(v)'
        BY <1>0, <1>1 DEF Explained, Doomed
    <2> QED
        BY <1>0, <1>1, <1>6, <2>1 DEF SyncInv, VectorsNamed, Explained
<1> QED
    BY <1>2, <1>3, <1>5, <1>7 DEF SyncInv

LEMMA PersistSync == SyncBase /\ Persist => SyncInv'
<1> SUFFICES ASSUME SyncBase, Persist PROVE SyncInv'
    OBVIOUS
<1> USE DEF database, store, requests, history
<1>1. CASE SaveCrop
    BY <1>1, WorkerOutside DEF SaveCrop, GiveUp, WorkerIdle
<1>2. CASE SaveFrame
    BY <1>2, WorkerOutside DEF SaveFrame, Save, GiveUp, WorkerIdle
<1>3. CASE SaveEmbedding
    BY <1>3, WorkerOutside DEF SaveEmbedding, Save, GiveUp, WorkerIdle
<1>4. CASE Search
    BY <1>4, WorkerOutside DEF Search
<1>5. CASE MaybeSave
    BY <1>5, WorkerOutside DEF MaybeSave, SaveIndex, WorkerIdle
<1> QED
    BY <1>1, <1>2, <1>3, <1>4, <1>5, InsertSync, LinkSync, AddSync DEF Persist

\* A row that is read before its vector is there is marked.
LEMMA ReadSync ==
    ASSUME SyncBase, NEW h \in Handlers, NEW kind, NEW cam,
           NEW chosen \in SUBSET Entries, Read(h, kind, cam, chosen),
           kind = "all" => chosen = Entries
    PROVE  SyncInv'
<1> USE DEF SyncBase
<1>0. /\ UNCHANGED <<rows, links, index, disk, dirty, pc, job, dups, face, evict, lost>>
      /\ \A g \in Handlers : /\ listed'[g] = IF g = h THEN chosen ELSE listed[g]
                             /\ g # h => hpc'[g] = hpc[g] /\ op'[g] = op[g]
      /\ op'[h].kind = kind
      /\ hpc'[h] = IF chosen # {} THEN "commit" ELSE IF kind = "all" THEN "reset" ELSE "camera"
      /\ hpc[h] = "idle" /\ evict[h] = {}
    BY DEF Read, database, store, worker, Typed, TypeOK, SyncInv, RequestSees
<1>1. torn \subseteq torn' /\ \A e \in chosen : e \in InFlight => e[2] \in torn'
    BY DEF Read, CapturesOf
<1>2. Entries' = Entries /\ InFlight' = InFlight /\ \A i : Present(i)' <=> Present(i)
    BY <1>0, EntriesStay DEF InFlight
<1>3. LinkEnds' /\ LinksBack'
    BY <1>0, <1>1, <1>2 DEF SyncInv, LinkEnds, LinksBack
<1>4. \A e \in chosen : e[1] \in FaceIds /\ rows[e[1]] = e[2] /\ e = <<e[1], e[2]>>
    BY DEF Entries
<1>5. WorkerSees'
    <2>1. ASSUME pc \in {"link", "add"}, NEW e \in chosen, e[2] = job PROVE job \in torn'
        <3>1. e[1] = face
            BY <1>4, <2>1 DEF Fresh
        <3>2. e \in InFlight
            BY <1>4, <2>1, <3>1 DEF InFlight
        <3> QED
            BY <1>1, <2>1, <3>2
    <2> QED
        BY <1>0, <1>1, <1>2, <2>1 DEF SyncInv, WorkerSees
<1>6. RequestSees(h)'
    <2>1. ASSUME kind = "all", NEW i \in FaceIds, Present(i) PROVE i \in Ids(chosen)
        <3>1. <<i, rows[i]>> \in chosen
            BY <2>1 DEF Entries
        <3> QED
            BY <3>1 DEF Ids
    <2>2. kind = "all" /\ chosen = {} => \A i \in FaceIds : ~Present(i)
        BY <2>1 DEF Ids
    <2>3. Ids(listed[h])' = Ids(chosen)
        BY <1>0 DEF Ids
    <2> QED
        BY <1>0, <1>2, <1>4, <2>1, <2>2, <2>3 DEF RequestSees
<1>7. \A g \in Handlers : g # h => RequestSees(g)'
    BY <1>0, <1>1, <1>2 DEF SyncInv, RequestSees, Ids
<1>8. RowsFound'
    BY <1>0, <1>1, <1>2 DEF SyncInv, RowsFound
<1>9. VectorsNamed'
    <2>1. \A v : Explained(v) => Explained(v)'
        BY <1>0, <1>1, <1>2 DEF Explained, Doomed
    <2> QED
        BY <1>0, <2>1 DEF SyncInv, VectorsNamed
<1> QED
    BY <1>3, <1>5, <1>6, <1>7, <1>8, <1>9 DEF SyncInv

LEMMA RequestSync == \A h \in Handlers : SyncBase /\ Request(h) => SyncInv'
<1> SUFFICES ASSUME NEW h \in Handlers, SyncBase, Request(h) PROVE SyncInv'
    OBVIOUS
<1>1. CASE DeleteFace(h)
    <2>1. PICK i \in FaceIds : Present(i) /\ Read(h, "face", NoCamera, {<<i, rows[i]>>})
        BY <1>1 DEF DeleteFace
    <2>2. {<<i, rows[i]>>} \in SUBSET Entries
        BY <2>1 DEF Entries
    <2> QED
        BY <2>1, <2>2, ReadSync
<1>2. CASE PurgeWindow(h)
    <2>1. PICK w \in Windows : Read(h, "window", NoCamera, {e \in Entries : e[2] \in w})
        BY <1>2 DEF PurgeWindow
    <2>2. {e \in Entries : e[2] \in w} \in SUBSET Entries
        OBVIOUS
    <2> QED
        BY <2>1, <2>2, ReadSync
<1>3. CASE PurgeAll(h)
    BY <1>3, ReadSync DEF PurgeAll
<1>4. CASE DeleteCamera(h)
    <2>1. PICK k \in cams : Read(h, "camera", k, {e \in Entries : CameraOf[e[2]] = k})
        BY <1>4 DEF DeleteCamera
    <2>2. {e \in Entries : CameraOf[e[2]] = k} \in SUBSET Entries
        OBVIOUS
    <2> QED
        BY <2>1, <2>2, ReadSync
<1> QED
    BY <1>1, <1>2, <1>3, <1>4 DEF Request

\* Steps of a request after which it has nothing in hand and had nothing.
LEMMA RequestOutside ==
    ASSUME SyncBase, NEW h \in Handlers,
           UNCHANGED <<rows, links, index, pc, job, dups, face, torn, lost>>,
           ~dirty' => (~dirty /\ disk' = disk) \/ disk' = index,
           hpc[h] # "reset", hpc'[h] \notin {"commit", "reset"}, evict[h] = {}, evict'[h] = {},
           \A g \in Handlers \ {h} : /\ hpc'[g] = hpc[g] /\ op'[g] = op[g]
                                     /\ listed'[g] = listed[g] /\ evict'[g] = evict[g]
    PROVE  SyncInv'
<1> USE DEF SyncBase
<1>1. Entries' = Entries /\ InFlight' = InFlight /\ \A i : Present(i)' <=> Present(i)
    BY EntriesStay DEF InFlight
<1>2. LinkEnds' /\ LinksBack' /\ WorkerSees'
    BY <1>1 DEF SyncInv, LinkEnds, LinksBack, WorkerSees
<1>3. \A g \in Handlers : RequestSees(g)'
    BY <1>1 DEF SyncInv, RequestSees, Ids
<1>4. \A v : Explained(v) => Explained(v)'
    BY <1>1 DEF Explained, Doomed
<1>5. RowsFound' /\ VectorsNamed'
    BY <1>1, <1>4 DEF SyncInv, RowsFound, VectorsNamed
<1> QED
    BY <1>2, <1>3, <1>5 DEF SyncInv

\* What the transaction deletes is what was read under the id, unless it is marked.
LEMMA CommitSync == \A h \in Handlers : SyncBase /\ Commit(h) => SyncInv'
<1> SUFFICES ASSUME NEW h \in Handlers, SyncBase, Commit(h) PROVE SyncInv'
    OBVIOUS
<1> USE DEF SyncBase
<1> DEFINE ids == Ids(listed[h])
<1> DEFINE unseen == {l \in links \ seen[h] : l[1] \in ids \/ l[2] \in ids}
<1>0. /\ UNCHANGED <<index, disk, dirty, pc, job, dups, face, torn, lost>>
      /\ hpc[h] = "commit" /\ evict[h] = {}
    BY DEF Commit, store, worker, history, SyncInv, RequestSees
<1>1. CASE unseen = {}
    <2>1. /\ \A i \in FaceIds : rows'[i] = IF i \in ids THEN NoFace ELSE rows[i]
          /\ links' = links \ seen[h]
          /\ UNCHANGED <<op, listed>>
          /\ \A g \in Handlers : g # h => hpc'[g] = hpc[g] /\ evict'[g] = evict[g]
          /\ hpc'[h] = IF op[h].kind = "all" THEN "reset" ELSE "evict"
          /\ evict'[h] = IF op[h].kind = "all" THEN {} ELSE listed[h]
        BY <1>1 DEF Commit, Typed, TypeOK
    <2>2. \A i \in FaceIds : Present(i)' <=> Present(i) /\ i \notin ids
        BY <2>1 DEF Present
    <2>3. \A e \in listed[h] : e[1] \in ids /\ rows[e[1]] \in {e[2], NoFace} \cup torn
        BY <1>0 DEF Ids, SyncInv, RequestSees
    <2>4. \A i \in ids : \E e \in listed[h] : e[1] = i /\ e = <<i, e[2]>>
        BY DEF Ids, Typed, TypeOK
    <2>5. LinkEnds' /\ LinksBack'
        <3>1. \A l \in links' : l \in links /\ l[1] \notin ids /\ l[2] \notin ids
            BY <1>1, <2>1
        <3>2. \A l \in links : l[1] \in FaceIds /\ l[2] \in FaceIds
            BY DEF Typed, TypeOK
        <3> QED
            BY <1>0, <2>1, <2>2, <3>1, <3>2 DEF SyncInv, LinkEnds, LinksBack
    <2>6. WorkerSees'
        <3>1. ASSUME pc \in {"link", "add"}, job \notin torn PROVE face \notin ids
            <4>1. SUFFICES ASSUME NEW e \in listed[h], e[1] = face PROVE FALSE
                BY <2>4
            <4>2. rows[face] = job /\ job # NoFace
                BY <3>1 DEF SyncInv, WorkerSees, Typed, WorkerHolds, NoFace, Captures
            <4>3. e[2] = job
                BY <2>3, <3>1, <4>1, <4>2
            <4> QED
                BY <1>0, <3>1, <4>3 DEF SyncInv, WorkerSees
        <3>2. pc \in {"link", "add"} => face \in FaceIds
            BY DEF Typed, WorkerHolds
        <3>3. \A g \in Handlers : hpc'[g] = "commit" => hpc[g] = "commit"
            BY <1>0, <2>1
        <3>4. ASSUME pc \in {"link", "add"}
              PROVE  /\ rows'[face] \in {job, NoFace} /\ (job \notin torn => rows'[face] = job)
                     /\ \A i \in FaceIds : Present(i)' => i <= face
            BY <2>1, <2>2, <3>1, <3>2, <3>4 DEF SyncInv, WorkerSees
        <3> QED
            BY <1>0, <2>1, <3>3, <3>4 DEF SyncInv, WorkerSees
    <2>7. \A g \in Handlers : g # h => RequestSees(g)'
        <3>1. \A g \in Handlers : \A e \in listed[g] \cup evict[g] : e[1] \in FaceIds
            BY DEF Typed, TypeOK
        <3> QED
            BY <1>0, <2>1, <2>2, <3>1 DEF SyncInv, RequestSees, Ids
    <2>8. RequestSees(h)'
        <3>1. op[h].kind = "all" => \A i \in FaceIds : Present(i)' => rows'[i] \in torn
            BY <1>0, <2>1, <2>2 DEF SyncInv, RequestSees
        <3>2. \A e \in listed[h] : ~Present(e[1])'
            BY <2>2, <2>3 DEF Typed, TypeOK
        <3> QED
            BY <1>0, <2>1, <3>1, <3>2 DEF RequestSees
    <2>9. \A e \in Entries : e \in Entries' \/ e \in listed[h] \/ e[2] \in torn
        <3> SUFFICES ASSUME NEW i \in FaceIds, Present(i)
                     PROVE  \/ <<i, rows[i]>> \in Entries' \/ <<i, rows[i]>> \in listed[h]
                            \/ rows[i] \in torn
            BY DEF Entries
        <3>1. CASE i \notin ids
            BY <2>1, <2>2, <3>1 DEF Entries
        <3>2. CASE i \in ids
            BY <2>3, <2>4, <3>2 DEF Present
        <3> QED
            BY <3>1, <3>2
    <2>10. Entries' \subseteq Entries /\ InFlight' = InFlight
        BY <1>0, <2>1, <2>2 DEF Entries, InFlight
    <2>11. \A v : Explained(v) => Explained(v)'
        <3>1. \A v : Doomed(v) => Doomed(v)'
            BY <1>0, <2>1 DEF Doomed
        <3>2. \A v \in listed[h] : Doomed(v)'
            BY <2>1 DEF Doomed
        <3> QED
            BY <1>0, <2>9, <3>1, <3>2 DEF Explained
    <2>12. RowsFound' /\ VectorsNamed'
        BY <1>0, <2>10, <2>11 DEF SyncInv, RowsFound, VectorsNamed
    <2> QED
        BY <2>5, <2>6, <2>7, <2>8, <2>12 DEF SyncInv
<1>2. CASE unseen # {}
    <2>1. Finish(h) /\ UNCHANGED <<rows, links>>
        BY <1>2 DEF Commit
    <2> QED
        BY <1>0, <2>1, RequestOutside DEF Finish, Typed, TypeOK
<1> QED
    BY <1>1, <1>2

LEMMA EvictSync == \A h \in Handlers : SyncBase /\ Evict(h) => SyncInv'
<1> SUFFICES ASSUME NEW h \in Handlers, SyncBase, Evict(h) PROVE SyncInv'
    OBVIOUS
<1> USE DEF SyncBase
<1>1. PICK e \in evict[h] : /\ index' = {v \in index : v[1] # e[1]} /\ dirty' = TRUE
                           /\ evict' = [evict EXCEPT ![h] = @ \ {e}]
                           /\ hpc' = [hpc EXCEPT ![h] =
                                IF op[h].kind # "camera" /\ evict[h] = {e} THEN "unlink" ELSE "evict"]
    BY DEF Evict, RemoveVector
<1>2. /\ UNCHANGED <<rows, links, disk, pc, job, dups, face, op, listed, torn, lost>>
      /\ hpc[h] = "evict"
    BY DEF Evict, database, worker, history
<1>3. Entries' = Entries /\ InFlight' = InFlight /\ \A i : Present(i)' <=> Present(i)
    BY <1>2, EntriesStay DEF InFlight
<1>4. \A g \in Handlers : evict'[g] = IF g = h THEN evict[h] \ {e} ELSE evict[g]
    BY <1>1 DEF Typed, TypeOK
<1>5. \A g \in Handlers : hpc'[g] = hpc[g] \/ (g = h /\ hpc'[g] \in {"unlink", "evict"})
    BY <1>1 DEF Typed, TypeOK
<1>6. \A g \in Handlers : evict'[g] # {} => hpc'[g] = "evict"
    BY <1>1, <1>4 DEF SyncInv, RequestSees, Typed, TypeOK
<1>7. LinkEnds' /\ LinksBack' /\ WorkerSees'
    BY <1>2, <1>3, <1>5 DEF SyncInv, LinkEnds, LinksBack, WorkerSees
<1>8. \A g \in Handlers : RequestSees(g)'
    <2> SUFFICES ASSUME NEW g \in Handlers PROVE RequestSees(g)'
        OBVIOUS
    <2>1. RequestSees(g) /\ evict'[g] \subseteq evict[g]
        BY <1>4 DEF SyncInv
    <2> QED
        BY <1>2, <1>3, <1>5, <1>6, <2>1 DEF RequestSees, Ids
<1>9. Present(e[1]) => rows[e[1]] \in torn
    BY DEF SyncInv, RequestSees
<1>10. RowsFound'
    <2>1. ASSUME NEW d \in Entries PROVE d[1] # e[1] \/ d[2] \in torn
        BY <1>9 DEF Entries
    <2> QED
        BY <1>1, <1>2, <1>3, <2>1 DEF SyncInv, RowsFound
<1>11. VectorsNamed'
    <2> SUFFICES ASSUME NEW v \in index' PROVE Explained(v)'
        BY <1>1 DEF VectorsNamed
    <2>1. Explained(v) /\ v # e
        BY <1>1 DEF SyncInv, VectorsNamed
    <2>2. Doomed(v) => Doomed(v)'
        BY <1>2, <1>4, <1>5, <2>1 DEF Doomed
    <2> QED
        BY <1>2, <1>3, <2>1, <2>2 DEF Explained
<1> QED
    BY <1>7, <1>8, <1>10, <1>11 DEF SyncInv

LEMMA ResetSync == \A h \in Handlers : SyncBase /\ Reset(h) => SyncInv'
<1> SUFFICES ASSUME NEW h \in Handlers, SyncBase, Reset(h) PROVE SyncInv'
    OBVIOUS
<1> USE DEF SyncBase
<1>1. /\ index' = {} /\ dirty' = TRUE /\ hpc[h] = "reset"
      /\ \A g \in Handlers : hpc'[g] = IF g = h THEN "flush" ELSE hpc[g]
      /\ UNCHANGED <<rows, links, pc, job, dups, face, op, listed, evict, torn, lost>>
    BY DEF Reset, ClearVectors, database, worker, history, Typed, TypeOK
<1>2. Entries' = Entries /\ \A i : Present(i)' <=> Present(i)
    BY <1>1, EntriesStay
<1>3. LinkEnds' /\ LinksBack' /\ WorkerSees'
    BY <1>1, <1>2 DEF SyncInv, LinkEnds, LinksBack, WorkerSees
<1>4. \A g \in Handlers : RequestSees(g)'
    BY <1>1, <1>2 DEF SyncInv, RequestSees, Ids
<1>5. \A e \in Entries : e[2] \in torn
    BY <1>1 DEF SyncInv, RequestSees, Entries
<1>6. RowsFound' /\ VectorsNamed'
    BY <1>1, <1>2, <1>5 DEF RowsFound, VectorsNamed
<1> QED
    BY <1>3, <1>4, <1>6 DEF SyncInv

\* The vectors a request leaves behind when it ends early are marked.
LEMMA AbandonSync ==
    ASSUME SyncBase, NEW h \in Handlers, Abandon(h),
           UNCHANGED <<rows, links, index, disk, dirty, pc, job, dups, face, lost>>,
           hpc[h] \notin {"commit", "reset"}
    PROVE  SyncInv'
<1> USE DEF SyncBase
<1>1. Entries' = Entries /\ InFlight' = InFlight /\ \A i : Present(i)' <=> Present(i)
    BY EntriesStay DEF InFlight
<1>2. /\ hpc'[h] = "idle" /\ evict'[h] = {} /\ torn \subseteq torn'
      /\ \A e \in evict[h] : e[2] \notin Stored => e[2] \in torn'
      /\ \A g \in Handlers \ {h} : /\ hpc'[g] = hpc[g] /\ op'[g] = op[g]
                                   /\ listed'[g] = listed[g] /\ evict'[g] = evict[g]
    BY DEF Abandon, Finish, CapturesOf, Typed, TypeOK
<1>3. LinkEnds' /\ LinksBack' /\ WorkerSees'
    BY <1>1, <1>2 DEF SyncInv, LinkEnds, LinksBack, WorkerSees
<1>4. \A g \in Handlers : RequestSees(g)'
    BY <1>1, <1>2 DEF SyncInv, RequestSees, Ids
<1>5. ASSUME NEW v \in index \cup disk, Explained(v) PROVE Explained(v)'
    <2>1. v[2] \in Stored => v \in Entries
        BY NamedByRow
    <2>2. Doomed(v) => Doomed(v)' \/ v \in evict[h]
        BY <1>2 DEF Doomed
    <2> QED
        BY <1>1, <1>2, <1>5, <2>1, <2>2 DEF Explained
<1>6. RowsFound' /\ VectorsNamed'
    BY <1>1, <1>2, <1>5 DEF SyncInv, RowsFound, VectorsNamed
<1> QED
    BY <1>3, <1>4, <1>6 DEF SyncInv

\* Steps of a request that move neither row, vector nor mark.
LEMMA RequestKeeps ==
    ASSUME SyncBase, NEW h \in Handlers,
           UNCHANGED <<rows, links, index, pc, job, dups, face, op, listed, evict, torn, lost>>,
           ~dirty' => (~dirty /\ disk' = disk) \/ disk' = index,
           UNCHANGED hpc
    PROVE  SyncInv'
<1> USE DEF SyncBase
<1>1. Entries' = Entries /\ InFlight' = InFlight /\ \A i : Present(i)' <=> Present(i)
    BY EntriesStay DEF InFlight
<1>2. LinkEnds' /\ LinksBack' /\ WorkerSees'
    BY <1>1 DEF SyncInv, LinkEnds, LinksBack, WorkerSees
<1>3. \A g \in Handlers : RequestSees(g)'
    BY <1>1 DEF SyncInv, RequestSees, Ids
<1>4. \A v : Explained(v) => Explained(v)'
    BY <1>1 DEF Explained, Doomed
<1>5. RowsFound' /\ VectorsNamed'
    BY <1>1, <1>4 DEF SyncInv, RowsFound, VectorsNamed
<1> QED
    BY <1>2, <1>3, <1>5 DEF SyncInv

LEMMA ServeSync == \A h \in Handlers : SyncBase /\ Serve(h) => SyncInv'
<1> SUFFICES ASSUME NEW h \in Handlers, SyncBase, Serve(h) PROVE SyncInv'
    OBVIOUS
<1>0. hpc[h] # "evict" => evict[h] = {}
    BY DEF SyncBase, SyncInv, RequestSees
<1>00. Typed
    BY DEF SyncBase
<1> USE DEF database, store, worker, history, Typed, TypeOK
<1>1. CASE ResetSave(h)
    BY <1>0, <1>00, <1>1, RequestOutside DEF ResetSave, SaveIndex
<1>2. CASE UnlinkFiles(h)
    BY <1>00, <1>2, RequestKeeps DEF UnlinkFiles
<1>3. CASE EvictDone(h)
    BY <1>0, <1>00, <1>3, RequestOutside DEF EvictDone
<1>4. CASE RequestDone(h)
    BY <1>0, <1>00, <1>4, RequestOutside DEF RequestDone, Finish
<1>5. CASE DropCamera(h)
    BY <1>0, <1>00, <1>5, RequestOutside DEF DropCamera, Finish
<1>6. CASE ResetSaveFails(h)
    BY <1>6, AbandonSync DEF ResetSaveFails
<1>7. CASE UnlinkFails(h)
    BY <1>7, AbandonSync DEF UnlinkFails, Unlinking
<1> QED
    BY <1>1, <1>2, <1>3, <1>4, <1>5, <1>6, <1>7, CommitSync, EvictSync, ResetSync DEF Serve

\* A start reads a file every vector of which is explained, or was not removed in
\* time and is marked; a row whose vector is not in it is counted as lost.
LEMMA LoadSync ==
    ASSUME SyncBase, Boot, NEW file, LoadIndex(file), UNCHANGED <<rows, links>>,
           file = disk \/ (file = index /\ dirty /\ pc = "idle"
                           /\ \A h \in Handlers : hpc[h] = "idle")
    PROVE  SyncInv'
<1> USE DEF SyncBase
<1>1. Entries' = Entries /\ \A i : Present(i)' <=> Present(i)
    BY EntriesStay
<1>2. /\ pc' = "idle" /\ ~dirty' /\ disk' = file
      /\ \A h \in Handlers : hpc'[h] = "idle" /\ evict'[h] = {}
    BY DEF Boot, WorkerIdle, LoadIndex
<1>3. InFlight' = {} /\ (index' = file \/ index' = {})
    BY <1>2 DEF InFlight, LoadIndex
<1>4. torn \subseteq torn' /\ lost \subseteq lost'
    BY DEF LoadIndex
<1>5. LinkEnds' /\ LinksBack' /\ WorkerSees' /\ \A h \in Handlers : RequestSees(h)'
    BY <1>1, <1>2, <1>4 DEF SyncInv, LinkEnds, LinksBack, WorkerSees, RequestSees
<1>6. ASSUME NEW e \in Entries PROVE e \in index' \/ e[2] \in torn' \cup lost'
    <2>1. e \in InFlight \cup (file \ index') => e[2] \in lost'
        BY DEF LoadIndex, CapturesOf
    <2>2. dirty /\ e \in index \ file => e[2] \in lost'
        BY DEF LoadIndex, CapturesOf
    <2>3. e \in InFlight \/ e \in index \/ e[2] \in torn' \cup lost'
        BY <1>4 DEF SyncInv, RowsFound
    <2>4. ~dirty /\ e \in index => e \in file
        BY DEF CleanIsSaved
    <2> QED
        BY <2>1, <2>2, <2>3, <2>4
<1>7. ASSUME NEW v \in file PROVE v \in Entries \/ v[2] \in torn'
    <2>1. v \in index \cup disk
        OBVIOUS
    <2>2. v[2] \in Stored => v \in Entries
        BY <2>1, NamedByRow
    <2>3. v[2] \notin Stored /\ Doomed(v) => v[2] \in torn'
        BY DEF LoadIndex, CapturesOf
    <2>4. v[2] \notin Stored /\ dirty /\ v \notin index => v[2] \in torn'
        BY DEF LoadIndex, CapturesOf
    <2>5. v \in index \/ ~dirty => Explained(v)
        BY <2>1 DEF SyncInv, VectorsNamed
    <2> QED
        BY <1>4, <2>2, <2>3, <2>4, <2>5 DEF Explained
<1>8. RowsFound' /\ VectorsNamed'
    BY <1>1, <1>2, <1>3, <1>6, <1>7 DEF RowsFound, VectorsNamed, Explained
<1> QED
    BY <1>5, <1>8 DEF SyncInv

LEMMA NextSync == SyncBase /\ [Next]_vars => SyncInv'
<1> SUFFICES ASSUME SyncBase, [Next]_vars PROVE SyncInv'
    OBVIOUS
<1>1. ASSUME NEW c \in Captures, Take(c) PROVE SyncInv'
    BY <1>1, WorkerOutside DEF Take, database, store, requests, history
<1>2. CASE Persist
    BY <1>2, PersistSync
<1>3. ASSUME NEW h \in Handlers, Request(h) \/ Serve(h) PROVE SyncInv'
    BY <1>3, RequestSync, ServeSync
<1>4. CASE AddCamera \/ UNCHANGED vars
    <2>1. UNCHANGED <<rows, links, store, worker, requests, history>>
        BY <1>4 DEF AddCamera, vars, database
    <2>2. Entries' = Entries /\ InFlight' = InFlight /\ \A i : Present(i)' <=> Present(i)
        BY <2>1, EntriesStay DEF InFlight, worker
    <2> QED
        BY <2>1, <2>2 DEF store, worker, requests, history, SyncBase, SyncInv, LinkEnds,
                          LinksBack, WorkerSees, RequestSees, RowsFound, VectorsNamed, Explained,
                          Doomed, Ids
<1>5. CASE Crash
    BY <1>5, LoadSync DEF Crash
<1>6. CASE Restart
    <2>1. PICK file : LoadIndex(file) /\ (file = disk \/ (file = index /\ dirty))
        BY <1>6 DEF Restart
    <2> QED
        BY <1>6, <2>1, LoadSync DEF Restart
<1> QED
    BY <1>1, <1>2, <1>3, <1>4, <1>5, <1>6 DEF Next

LEMMA InitSync == Init => SyncInv
BY DEF Init, SyncInv, LinkEnds, LinksBack, WorkerSees, RequestSees, RowsFound, VectorsNamed,
       Entries, Present

LEMMA Synced == Spec => []SyncBase
<1>1. Init => SyncInv
    BY InitSync
<1>2. SyncBase /\ [Next]_vars => SyncInv'
    BY NextSync
<1> QED
    BY <1>1, <1>2, AllTyped, AllFiles, AllFresh, CleanSaved, PTL DEF Spec, SyncBase

\* Whatever overlaps, fails or crashes, rows and index differ only by the captures
\* it befell (vector_store.py:4, workers.py:277-337, api/faces.py:67-82).
THEOREM InSync == Spec => []StoresInSync
<1>1. SyncBase => StoresInSync
    BY DEF SyncBase, SyncInv, RowsFound, VectorsNamed, Explained, StoresInSync
<1> QED
    BY <1>1, Synced, PTL

\* Links never dangle and point to older faces; the one to itself is a capture
\* whose id was among its matches (workers.py:289-327).
THEOREM LinksSound == Spec => []LinksPointBack
<1>1. SyncBase => LinksPointBack
    BY DEF SyncBase, SyncInv, LinkEnds, LinksBack, LinksPointBack
<1> QED
    BY <1>1, Synced, PTL

---------------------------------------------------------------------------
(* Files and those who answer for them *)

\* A request that is not about to remove anything has nothing left to remove.
Waiting ==
    \A h \in Handlers :
        /\ hpc[h] \in {"idle", "commit", "camera"} => unlink[h] = {}
        /\ hpc[h] # "evict" => evict[h] = {}

BeforeRow == {"frame", "npy", "search", "insert"}

\* Somebody answers for the files of capture c: its row, the worker, or a request;
\* or they are known to be left over.
Accounted(c) ==
    \/ c \in Stored \cup littered \cup torn
    \/ pc \in BeforeRow /\ c = job
    \/ \E h \in Handlers : c \in unlink[h] \cup CapturesOf(evict[h])

Owned == \A f \in files : Accounted(f[1])

OwnedInv == Waiting /\ Owned

\* Steps after which whoever answered still does.
LEMMA OwnedKept ==
    ASSUME Owned, files' \subseteq files,
           Stored \subseteq Stored', littered \subseteq littered', torn \subseteq torn',
           pc \in BeforeRow => (pc' \in BeforeRow /\ job' = job)
                               \/ job \in Stored' \cup littered',
           \A h \in Handlers : /\ unlink[h] \subseteq unlink'[h]
                               /\ evict[h] \subseteq evict'[h]
    PROVE  Owned'
<1>1. \A h \in Handlers : CapturesOf(evict[h]) \subseteq CapturesOf(evict[h])'
    BY DEF CapturesOf
<1>2. \A c : Accounted(c) => Accounted(c)'
    BY <1>1 DEF Accounted
<1> QED
    BY <1>2 DEF Owned

LEMMA PersistOwned == Typed /\ OwnedInv /\ Persist => OwnedInv'
<1> SUFFICES ASSUME Typed, OwnedInv, Persist PROVE OwnedInv'
    OBVIOUS
<1>1. UNCHANGED <<hpc, evict, unlink>>
    BY DEF Persist, SaveCrop, SaveFrame, SaveEmbedding, Save, Search, InsertFace, InsertLink,
           Add, MaybeSave, requests
<1>2. Waiting'
    BY <1>1 DEF OwnedInv, Waiting
<1>3. ASSUME UNCHANGED <<torn, rows>>, NEW new \in SUBSET Kinds,
             files' = files \cup ({job} \X new),
             \/ littered' = littered \cup {job}
             \/ littered' = littered /\ job' = job /\ pc' \in BeforeRow
      PROVE  Owned'
    <2>1. Stored' = Stored
        BY <1>3, EntriesStay
    <2>2. \A c : c = job => Accounted(c)'
        BY <1>3 DEF Accounted
    <2>3. \A c : Accounted(c) => Accounted(c)'
        BY <1>1, <1>3, <2>1, <2>2 DEF Accounted
    <2> QED
        BY <1>3, <2>2, <2>3 DEF OwnedInv, Owned
<1>4. CASE SaveCrop
    <2>1. UNCHANGED <<rows, torn>>
        BY <1>4 DEF SaveCrop, database
    <2>2. PICK written \in SUBSET {"image", "thumb"} :
            /\ files' = files \cup ({job} \X written)
            /\ \/ /\ pc' = IF job \in Framed THEN "frame" ELSE "npy"
                  /\ UNCHANGED <<job, littered>>
               \/ GiveUp
        BY <1>4 DEF SaveCrop
    <2>3. written \in SUBSET Kinds
        BY DEF Kinds
    <2> QED
        BY <1>2, <1>3, <2>1, <2>2, <2>3 DEF OwnedInv, GiveUp, BeforeRow
<1>5. CASE SaveFrame \/ SaveEmbedding
    <2>1. PICK kind \in Kinds, next \in {"npy", "search"} : Save(kind, next)
        BY <1>5 DEF SaveFrame, SaveEmbedding, Kinds
    <2>2. UNCHANGED <<rows, torn>>
        BY <2>1 DEF Save, database
    <2>3. PICK new \in SUBSET {kind} : files' = files \cup ({job} \X new)
        <3>1. CASE files' = files
            <4>1. files' = files \cup ({job} \X {})
                BY <3>1
            <4> QED
                BY <4>1
        <3>2. CASE files' = files \cup {<<job, kind>>}
            <4>1. files' = files \cup ({job} \X {kind})
                BY <3>2
            <4> QED
                BY <4>1
        <3> QED
            BY <2>1, <3>1, <3>2 DEF Save
    <2>4. \/ littered' = littered \cup {job}
          \/ littered' = littered /\ job' = job /\ pc' = next
        BY <2>1 DEF Save, GiveUp
    <2>5. new \in SUBSET Kinds
        BY <2>1
    <2> QED
        BY <1>2, <1>3, <2>2, <2>3, <2>4, <2>5 DEF OwnedInv, BeforeRow
<1>6. CASE Search
    <2>1. UNCHANGED <<rows, files, job, torn, littered>> /\ pc' = "insert"
        BY <1>6 DEF Search, database, history
    <2> QED
        BY <1>1, <1>2, <2>1, EntriesStay, OwnedKept DEF OwnedInv, BeforeRow
<1>7. CASE InsertFace
    <2>1. files' = files /\ torn \subseteq torn'
        BY <1>7 DEF InsertFace
    <2>2. CASE GiveUp /\ UNCHANGED rows
        BY <1>1, <1>2, <2>1, <2>2, EntriesStay, OwnedKept DEF GiveUp, OwnedInv
    <2>3. CASE ~(GiveUp /\ UNCHANGED rows)
        <3>1. PICK n \in FaceIds : IsNextId(n) /\ rows' = [rows EXCEPT ![n] = job]
            BY <1>7, <2>3 DEF InsertFace
        <3>2. littered' = littered
            BY <1>7, <2>3 DEF InsertFace
        <3>3. \A i \in FaceIds : rows'[i] = IF i = n THEN job ELSE rows[i]
            BY <3>1 DEF Typed, TypeOK
        <3>4. rows[n] = NoFace
            BY <3>1 DEF IsNextId, Present, FaceIds, Captures
        <3>5. \A c \in Captures : c \in Stored \cup {job} => c \in Stored'
            BY <3>3, <3>4 DEF Stored, Captures, NoFace
        <3>6. ASSUME NEW c \in Captures, Accounted(c) PROVE Accounted(c)'
            BY <1>1, <2>1, <3>2, <3>5, <3>6 DEF Accounted
        <3>7. \A f \in files : f[1] \in Captures
            BY DEF Typed, TypeOK
        <3> QED
            BY <1>2, <2>1, <3>6, <3>7 DEF OwnedInv, Owned
    <2> QED
        BY <2>2, <2>3
<1>8. CASE InsertLink \/ Add \/ MaybeSave
    <2>1. UNCHANGED <<rows, files, torn, littered>> /\ pc \notin BeforeRow
        BY <1>8 DEF InsertLink, Add, MaybeSave, database, history, BeforeRow
    <2> QED
        BY <1>1, <1>2, <2>1, EntriesStay, OwnedKept DEF OwnedInv
<1> QED
    BY <1>4, <1>5, <1>6, <1>7, <1>8 DEF Persist

LEMMA RequestOwned == \A h \in Handlers : Typed /\ OwnedInv /\ Request(h) => OwnedInv'
<1> SUFFICES ASSUME NEW h \in Handlers, Typed, OwnedInv, Request(h) PROVE OwnedInv'
    OBVIOUS
<1>1. PICK kind, cam, chosen : Read(h, kind, cam, chosen)
    BY DEF Request, DeleteFace, PurgeWindow, PurgeAll, DeleteCamera
<1>2. /\ hpc[h] = "idle" /\ UNCHANGED <<rows, files, pc, job, evict, unlink, littered>>
      /\ \A g \in Handlers : g # h => hpc'[g] = hpc[g]
      /\ torn \subseteq torn'
    BY <1>1 DEF Read, database, worker, Typed, TypeOK
<1>3. Waiting'
    BY <1>2 DEF OwnedInv, Waiting
<1>4. Owned'
    BY <1>2, EntriesStay, OwnedKept DEF OwnedInv
<1> QED
    BY <1>3, <1>4 DEF OwnedInv

\* What a request that ends early had still to remove counts as left over.
LEMMA AbandonOwned ==
    ASSUME Typed, OwnedInv, NEW h \in Handlers, Abandon(h),
           UNCHANGED <<rows, pc, job>>, files' \subseteq files
    PROVE  OwnedInv'
<1>1. /\ hpc'[h] = "idle" /\ unlink'[h] = {} /\ evict'[h] = {}
      /\ \A g \in Handlers : g # h =>
            hpc'[g] = hpc[g] /\ unlink'[g] = unlink[g] /\ evict'[g] = evict[g]
      /\ littered' = littered \cup unlink[h] \cup CapturesOf(evict[h])
      /\ torn \subseteq torn'
    BY DEF Abandon, Finish, Typed, TypeOK
<1>2. Waiting'
    BY <1>1 DEF OwnedInv, Waiting
<1>3. \A c : Accounted(c) => Accounted(c)'
    BY <1>1, EntriesStay DEF Accounted
<1> QED
    BY <1>2, <1>3 DEF OwnedInv, Owned

\* The transaction hands the files of the rows it deletes to the request, save
\* those of a capture that came under one of the ids.
LEMMA CommitOwned ==
    ASSUME Typed, SyncInv, OwnedInv, NEW h \in Handlers, Commit(h)
    PROVE  OwnedInv'
<1> DEFINE ids == Ids(listed[h])
           deletes == ~(Finish(h) /\ UNCHANGED <<rows, links>>)
<1>0. /\ hpc[h] = "commit" /\ UNCHANGED <<files, pc, job, torn, littered>>
      /\ unlink[h] = {} /\ evict[h] = {}
    BY DEF Commit, worker, history, OwnedInv, Waiting
<1>1. CASE ~deletes
    <2>1. /\ hpc'[h] = "idle" /\ unlink' = unlink /\ evict' = evict
          /\ \A g \in Handlers : g # h => hpc'[g] = hpc[g]
        <3>1. Finish(h)
            BY <1>1
        <3> QED
            BY <1>0, <3>1 DEF Finish, Typed, TypeOK
    <2>2. Waiting'
        BY <1>0, <2>1 DEF OwnedInv, Waiting
    <2>3. Owned'
        BY <1>0, <1>1, <2>1, EntriesStay, OwnedKept DEF OwnedInv
    <2> QED
        BY <2>2, <2>3 DEF OwnedInv
<1>2. CASE deletes
    <2>1. /\ \A i \in FaceIds : rows'[i] = IF i \in ids THEN NoFace ELSE rows[i]
          /\ \A g \in Handlers : g # h =>
                hpc'[g] = hpc[g] /\ evict'[g] = evict[g] /\ unlink'[g] = unlink[g]
        BY <1>2 DEF Commit, Typed, TypeOK
    <2>2. \/ hpc'[h] = "reset" /\ evict'[h] = {} /\ unlink'[h] = CapturesOf(listed[h])
          \/ hpc'[h] = "evict" /\ evict'[h] = listed[h]
        <3>1. op[h].kind = "all" => op[h].kind # "camera"
            OBVIOUS
        <3> QED
            BY <1>2, <3>1 DEF Commit, Typed, TypeOK
    <2>3. Waiting'
        BY <2>1, <2>2 DEF OwnedInv, Waiting
    <2>4. CapturesOf(listed[h]) \subseteq unlink'[h] \cup CapturesOf(evict'[h])
        BY <2>2 DEF CapturesOf
    <2>5. ASSUME NEW c \in Captures, c \in Stored PROVE Accounted(c)'
        <3>1. PICK i \in FaceIds : rows[i] = c
            BY <2>5 DEF Stored
        <3>2. CASE i \notin ids
            <4>1. c \in Stored'
                BY <2>1, <3>1, <3>2 DEF Stored
            <4> QED
                BY <4>1 DEF Accounted
        <3>3. CASE i \in ids
            <4>1. PICK e \in listed[h] : e[1] = i
                BY <3>3 DEF Ids
            <4>2. rows[e[1]] \in {e[2], NoFace} \cup torn
                BY <1>0, <4>1 DEF SyncInv, RequestSees
            <4>3. c # NoFace
                BY DEF Captures, NoFace
            <4>4. c \in torn \/ c \in CapturesOf(listed[h])
                BY <3>1, <4>1, <4>2, <4>3 DEF CapturesOf
            <4> QED
                BY <1>0, <2>4, <4>4 DEF Accounted, CapturesOf
        <3> QED
            BY <3>2, <3>3
    <2>6. \A c \in Captures : Accounted(c) => Accounted(c)'
        <3>1. \A g \in Handlers : unlink[g] \cup CapturesOf(evict[g])
                                     \subseteq (unlink[g] \cup CapturesOf(evict[g]))'
            BY <1>0, <2>1 DEF CapturesOf
        <3> QED
            BY <1>0, <2>5, <3>1 DEF Accounted
    <2>7. \A f \in files : f[1] \in Captures
        BY DEF Typed, TypeOK
    <2> QED
        BY <1>0, <2>3, <2>6, <2>7 DEF OwnedInv, Owned
<1> QED
    BY <1>1, <1>2

LEMMA ServeOwned == \A h \in Handlers : Typed /\ SyncInv /\ OwnedInv /\ Serve(h) => OwnedInv'
<1> SUFFICES ASSUME NEW h \in Handlers, Typed, SyncInv, OwnedInv, Serve(h) PROVE OwnedInv'
    OBVIOUS
<1>1. CASE Commit(h)
    BY <1>1, CommitOwned
<1>2. CASE ResetSaveFails(h)
    BY <1>2, AbandonOwned DEF ResetSaveFails, database, worker
<1>3. CASE UnlinkFails(h)
    BY <1>3, AbandonOwned DEF UnlinkFails, database, worker
<1>4. CASE RequestDone(h) \/ DropCamera(h)
    <2>1. /\ UNCHANGED <<rows, files, pc, job, torn, littered>>
          /\ hpc[h] # "evict" /\ unlink[h] = {} /\ Finish(h)
        BY <1>4 DEF RequestDone, DropCamera, database, worker, history, OwnedInv, Waiting
    <2>2. /\ unlink' = unlink /\ evict' = evict
          /\ \A g \in Handlers : g # h => hpc'[g] = hpc[g]
        BY <2>1 DEF Finish, OwnedInv, Waiting, Typed, TypeOK
    <2>3. Waiting'
        BY <2>1, <2>2 DEF OwnedInv, Waiting
    <2>4. Owned'
        BY <2>1, <2>2, EntriesStay, OwnedKept DEF OwnedInv
    <2> QED
        BY <2>3, <2>4 DEF OwnedInv
<1>5. CASE Evict(h)
    <2>1. PICK e \in evict[h] :
            /\ evict' = [evict EXCEPT ![h] = @ \ {e}]
            /\ unlink' = [unlink EXCEPT ![h] = @ \cup {e[2]}]
            /\ hpc' = [hpc EXCEPT ![h] =
                           IF op[h].kind # "camera" /\ evict[h] = {e} THEN "unlink" ELSE "evict"]
        BY <1>5 DEF Evict
    <2>2. UNCHANGED <<rows, files, pc, job, torn, littered>>
        BY <1>5 DEF Evict, database, worker, history
    <2>3. /\ evict'[h] = evict[h] \ {e} /\ unlink'[h] = unlink[h] \cup {e[2]}
          /\ hpc'[h] = "evict" \/ (hpc'[h] = "unlink" /\ evict[h] = {e})
          /\ \A g \in Handlers : g # h =>
                hpc'[g] = hpc[g] /\ evict'[g] = evict[g] /\ unlink'[g] = unlink[g]
        BY <2>1 DEF Typed, TypeOK
    <2>4. Waiting'
        BY <2>3 DEF OwnedInv, Waiting
    <2>5. \A c : Accounted(c) => Accounted(c)'
        <3>1. \A g \in Handlers : unlink[g] \cup CapturesOf(evict[g])
                                     \subseteq (unlink[g] \cup CapturesOf(evict[g]))'
            BY <2>3 DEF CapturesOf
        <3> QED
            BY <2>2, <3>1, EntriesStay DEF Accounted
    <2> QED
        BY <2>2, <2>4, <2>5 DEF OwnedInv, Owned
<1>6. CASE Reset(h) \/ ResetSave(h) \/ EvictDone(h)
    <2>1. /\ UNCHANGED <<rows, files, pc, job, torn, littered, evict, unlink>>
          /\ \A g \in Handlers : g # h => hpc'[g] = hpc[g]
          /\ \/ hpc[h] \in {"reset", "flush"} /\ hpc'[h] \in {"flush", "unlink"}
             \/ hpc'[h] = "camera" /\ evict[h] = {} /\ unlink[h] = {}
        BY <1>6 DEF Reset, ResetSave, EvictDone, database, worker, history, Typed, TypeOK
    <2>2. Waiting'
        BY <2>1 DEF OwnedInv, Waiting
    <2>3. Owned'
        BY <2>1, EntriesStay, OwnedKept DEF OwnedInv
    <2> QED
        BY <2>2, <2>3 DEF OwnedInv
<1>7. CASE UnlinkFiles(h)
    <2>1. PICK c \in unlink[h] : /\ files' = {f \in files : f[1] # c}
                                /\ unlink' = [unlink EXCEPT ![h] = @ \ {c}]
        BY <1>7 DEF UnlinkFiles, UnlinkAll
    <2>2. UNCHANGED <<rows, hpc, evict, pc, job, torn, littered>>
        BY <1>7 DEF UnlinkFiles, database, worker, history
    <2>3. \A g \in Handlers : unlink'[g] = IF g = h THEN unlink[h] \ {c} ELSE unlink[g]
        BY <2>1 DEF Typed, TypeOK
    <2>4. Waiting'
        BY <2>2, <2>3 DEF OwnedInv, Waiting
    <2>5. \A d : d # c /\ Accounted(d) => Accounted(d)'
        BY <2>2, <2>3, EntriesStay DEF Accounted
    <2> QED
        BY <2>1, <2>4, <2>5 DEF OwnedInv, Owned
<1> QED
    BY <1>1, <1>2, <1>3, <1>4, <1>5, <1>6, <1>7 DEF Serve

LEMMA NextOwned == SyncBase /\ OwnedInv /\ [Next]_vars => OwnedInv'
<1> SUFFICES ASSUME SyncBase, OwnedInv, [Next]_vars PROVE OwnedInv'
    OBVIOUS
<1>0. Typed /\ SyncInv
    BY DEF SyncBase
<1>1. ASSUME NEW c \in Captures, Take(c) PROVE OwnedInv'
    <2>1. UNCHANGED <<rows, files, hpc, evict, unlink, torn, littered>> /\ pc = "idle"
        BY <1>1 DEF Take, database, requests, history
    <2> QED
        BY <2>1, EntriesStay, OwnedKept DEF OwnedInv, Waiting, BeforeRow
<1>2. CASE Persist
    BY <1>0, <1>2, PersistOwned
<1>3. ASSUME NEW h \in Handlers, Request(h) \/ Serve(h) PROVE OwnedInv'
    BY <1>0, <1>3, RequestOwned, ServeOwned
<1>4. CASE AddCamera \/ UNCHANGED vars
    <2>1. UNCHANGED <<rows, files, pc, job, hpc, evict, unlink, torn, littered>>
        BY <1>4 DEF AddCamera, vars, database, worker, requests, history
    <2> QED
        BY <2>1, EntriesStay, OwnedKept DEF OwnedInv, Waiting
<1>5. CASE Crash
    <2>1. /\ UNCHANGED <<rows, files>> /\ torn \subseteq torn'
          /\ \A g \in Handlers : evict'[g] = {} /\ unlink'[g] = {}
        BY <1>5 DEF Crash, Boot, LoadIndex
    <2>2. /\ littered \subseteq littered' /\ (pc \in BeforeRow => job \in littered')
          /\ \A h \in Handlers : unlink[h] \cup CapturesOf(evict[h]) \subseteq littered'
        BY <1>5 DEF Crash, BeforeRow
    <2>3. \A c : Accounted(c) => Accounted(c)'
        BY <2>1, <2>2, EntriesStay DEF Accounted
    <2> QED
        BY <2>1, <2>3 DEF OwnedInv, Owned, Waiting
<1>6. CASE Restart
    <2>1. /\ UNCHANGED <<rows, files, littered>> /\ pc = "idle" /\ torn \subseteq torn'
          /\ \A g \in Handlers : evict'[g] = {} /\ unlink'[g] = {} /\ hpc[g] = "idle"
        BY <1>6 DEF Restart, Boot, LoadIndex
    <2>2. \A g \in Handlers : evict[g] = {} /\ unlink[g] = {}
        BY <2>1 DEF OwnedInv, Waiting
    <2>3. Owned'
        BY <2>1, <2>2, EntriesStay, OwnedKept DEF OwnedInv, BeforeRow
    <2> QED
        BY <2>1, <2>3 DEF OwnedInv, Waiting
<1> QED
    BY <1>1, <1>2, <1>3, <1>4, <1>5, <1>6 DEF Next

\* At every moment somebody answers for each file, or it is left over by a capture
\* given up before its row, a request that a failing save or unlink ended, a crash,
\* or a delete that took the row of another face (workers.py:277-324,
\* api/faces.py:67-82).
THEOREM NothingLeft == Spec => []NoOrphanFiles
<1>1. Init => OwnedInv
    BY DEF Init, OwnedInv, Waiting, Owned
<1>2. SyncBase /\ OwnedInv /\ [Next]_vars => OwnedInv'
    BY NextOwned
<1>3. OwnedInv => NoOrphanFiles
    BY DEF OwnedInv, Owned, Accounted, BeforeRow, NoOrphanFiles
<1> QED
    BY <1>1, <1>2, <1>3, Synced, PTL DEF Spec

---------------------------------------------------------------------------
(* The store implements a gallery *)

LEMMA GalleryStays ==
    ASSUME UNCHANGED <<OnItsWay, FoundIn(index), FoundIn(disk), Named, starts>>
    PROVE  [Faces!Next]_Faces!vars
BY DEF Faces!vars

\* Marks on captures that are in neither index or have no row change nothing.
LEMMA FoundStays ==
    ASSUME rows' = rows, torn \subseteq torn', NEW file, NEW next, next = file,
           \A c \in torn' \ torn : \A i \in FaceIds : rows[i] = c => <<i, c>> \notin file
    PROVE  {c \in Captures \ torn' : \E i \in FaceIds : rows'[i] = c /\ <<i, c>> \in next}
         = {c \in Captures \ torn : \E i \in FaceIds : rows[i] = c /\ <<i, c>> \in file}
OBVIOUS

LEMMA BothStay ==
    ASSUME UNCHANGED <<rows, index, disk>>, torn \subseteq torn',
           \A c \in torn' \ torn : \A i \in FaceIds :
               rows[i] = c => <<i, c>> \notin index \cup disk
    PROVE  UNCHANGED <<FoundIn(index), FoundIn(disk)>>
BY FoundStays DEF FoundIn

LEMMA NamedStays == UNCHANGED <<hpc, listed>> => Named' = Named
BY DEF Named

\* Requests that are not about to remove anything name nothing.
LEMMA NamedElsewhere ==
    ASSUME NEW h \in Handlers,
           hpc[h] # "commit", hpc'[h] # "commit",
           \A g \in Handlers \ {h} : hpc'[g] = hpc[g] /\ listed'[g] = listed[g]
    PROVE  Named' = Named
<1>1. \A g \in Handlers :
          (IF hpc'[g] = "commit" THEN CapturesOf(listed'[g]) ELSE {})
        = (IF hpc[g] = "commit" THEN CapturesOf(listed[g]) ELSE {})
    OBVIOUS
<1> QED
    BY <1>1 DEF Named, CapturesOf

\* The worker goes on with its capture, or gives it up.
LEMMA WorkerShows ==
    ASSUME Typed, UNCHANGED <<rows, index, disk, todo, hpc, listed, torn, starts>>,
           pc \notin {"idle", "flush"},
           (pc' \notin {"idle", "flush"} /\ job' = job) \/ pc' = "idle"
    PROVE  [Faces!Next]_Faces!vars
<1>1. UNCHANGED <<FoundIn(index), FoundIn(disk), Named>>
    BY BothStay, NamedStays
<1>2. CASE pc' \notin {"idle", "flush"} /\ job' = job
    <2>1. OnItsWay' = OnItsWay
        BY <1>2 DEF OnItsWay
    <2> QED
        BY <1>1, <2>1, GalleryStays
<1>3. CASE pc' = "idle"
    <2>1. job \in Captures /\ OnItsWay' = OnItsWay \ {job}
        BY <1>3 DEF OnItsWay, Typed, WorkerHolds
    <2>2. CASE job \in OnItsWay
        BY <1>1, <2>1, <2>2 DEF Faces!Next, Faces!Fail
    <2>3. CASE job \notin OnItsWay
        BY <1>1, <2>1, <2>3, GalleryStays
    <2> QED
        BY <2>2, <2>3
<1> QED
    BY <1>2, <1>3

\* The new row has no vector yet; under an id that somebody has in hand its capture
\* does not come into sight.
LEMMA InsertShows ==
    ASSUME SyncBase, InsertFace
    PROVE  [Faces!Next]_Faces!vars
<1>0. UNCHANGED <<index, disk, todo, hpc, listed, starts>> /\ pc = "insert"
    BY DEF InsertFace, store, requests
<1>1. CASE GiveUp /\ UNCHANGED <<rows, torn>>
    BY <1>0, <1>1, WorkerShows DEF GiveUp, WorkerIdle, SyncBase
<1>2. CASE ~(GiveUp /\ UNCHANGED <<rows, torn>>)
    <2>1. PICK n \in FaceIds : /\ IsNextId(n) /\ rows' = [rows EXCEPT ![n] = job]
                               /\ torn' = IF Reused(n) THEN torn \cup {job} ELSE torn
        BY <1>2 DEF InsertFace
    <2>2. pc' \notin {"idle", "flush"} /\ job' = job
        BY <1>2 DEF InsertFace
    <2>3. \A i \in FaceIds : rows'[i] = IF i = n THEN job ELSE rows[i]
        BY <2>1 DEF SyncBase, Typed, TypeOK
    <2>4. job \in Unborn /\ job \in Captures
        BY <1>0 DEF Unborn, SyncBase, Typed, WorkerHolds
    <2>5. \A v \in index \cup disk : v[2] # job
        BY <2>4 DEF SyncBase, Fresh
    <2>6. rows[n] \notin Captures /\ \A i \in FaceIds : rows[i] # job
        <3>1. rows[n] = NoFace
            BY <2>1 DEF IsNextId, Present, FaceIds, Captures
        <3> QED
            BY <2>4, <3>1 DEF SyncBase, FilesInv, Once, Present, Captures, NoFace
    <2>7. ASSUME NEW file, file \subseteq index \cup disk
          PROVE  {c \in Captures \ torn' : \E i \in FaceIds : rows'[i] = c /\ <<i, c>> \in file}
               = {c \in Captures \ torn : \E i \in FaceIds : rows[i] = c /\ <<i, c>> \in file}
        <3>1. \A c \in Captures : <<n, c>> \in file => c # job
            BY <2>5, <2>7
        <3>2. \A c \in torn' \ torn : c = job
            BY <2>1
        <3> QED
            BY <2>1, <2>3, <2>6, <3>1, <3>2
    <2>8. UNCHANGED <<FoundIn(index), FoundIn(disk), Named>>
        BY <1>0, <2>7, NamedStays DEF FoundIn
    <2>9. CASE torn' = torn \/ job \in torn
        <3>1. OnItsWay' = OnItsWay
            BY <1>0, <2>1, <2>2, <2>9 DEF OnItsWay
        <3> QED
            BY <1>0, <2>8, <3>1, GalleryStays
    <2>10. CASE torn' = torn \cup {job} /\ job \notin torn
        <3>1. job \in OnItsWay /\ OnItsWay' = OnItsWay \ {job}
            BY <1>0, <2>2, <2>10 DEF OnItsWay
        <3> QED
            BY <1>0, <2>4, <2>8, <3>1 DEF Faces!Next, Faces!Fail
    <2> QED
        BY <2>1, <2>9, <2>10
<1> QED
    BY <1>1, <1>2

LEMMA AddShows ==
    ASSUME SyncBase, Add
    PROVE  [Faces!Next]_Faces!vars
<1>1. /\ UNCHANGED <<rows, disk, todo, hpc, listed, torn, starts>>
      /\ pc = "add" /\ pc' = "flush" /\ index' = index \cup {<<face, job>>}
    BY DEF Add, AddVector, database, requests, history
<1>2. face \in FaceIds /\ job \in Captures /\ job \notin todo
    BY <1>1 DEF SyncBase, Typed, WorkerHolds
<1>3. FoundIn(disk)' = FoundIn(disk) /\ Named' = Named
    BY <1>1, NamedStays DEF FoundIn
<1>4. CASE job \notin torn
    <2>1. rows[face] = job
        BY <1>1, <1>4 DEF SyncBase, SyncInv, WorkerSees
    <2>2. FoundIn(index)' = FoundIn(index) \cup {job}
        BY <1>1, <1>2, <1>4, <2>1 DEF FoundIn
    <2>3. job \in OnItsWay /\ OnItsWay' = OnItsWay \ {job}
        BY <1>1, <1>2, <1>4 DEF OnItsWay
    <2> QED
        BY <1>1, <1>2, <1>3, <2>2, <2>3 DEF Faces!Next, Faces!Appear
<1>5. CASE job \in torn
    <2>1. FoundIn(index)' = FoundIn(index)
        BY <1>1, <1>5 DEF FoundIn
    <2>2. OnItsWay' = OnItsWay
        BY <1>1, <1>5 DEF OnItsWay
    <2> QED
        BY <1>1, <1>3, <2>1, <2>2, GalleryStays
<1> QED
    BY <1>4, <1>5

\* A save keeps what is shown; a clean index need not be written.
LEMMA SaveShows ==
    ASSUME UNCHANGED <<rows, index, torn, OnItsWay, Named, starts>>, disk' \in {index, disk}
    PROVE  [Faces!Next]_Faces!vars
<1>1. FoundIn(index)' = FoundIn(index)
    BY DEF FoundIn
<1>2. CASE disk' = disk
    <2>1. FoundIn(disk)' = FoundIn(disk)
        BY <1>2 DEF FoundIn
    <2> QED
        BY <1>1, <2>1, GalleryStays
<1>3. CASE disk' = index
    <2>1. FoundIn(disk)' = FoundIn(index)
        BY <1>3 DEF FoundIn
    <2> QED
        BY <1>1, <2>1 DEF Faces!Next, Faces!Keep
<1> QED
    BY <1>2, <1>3

LEMMA PersistShows ==
    ASSUME SyncBase, Persist
    PROVE  [Faces!Next]_Faces!vars
<1>0. Typed
    BY DEF SyncBase
<1>1. CASE SaveCrop
    BY <1>0, <1>1, WorkerShows DEF SaveCrop, GiveUp, WorkerIdle, database, store, requests
<1>2. CASE SaveFrame \/ SaveEmbedding
    <2>1. PICK kind \in Kinds, next \in {"npy", "search"} : Save(kind, next)
        BY <1>2 DEF SaveFrame, SaveEmbedding, Kinds
    <2>2. pc \in {"frame", "npy"}
        BY <1>2 DEF SaveFrame, SaveEmbedding
    <2> QED
        BY <1>0, <2>1, <2>2, WorkerShows DEF Save, GiveUp, WorkerIdle, database, store, requests
<1>3. CASE Search
    BY <1>0, <1>3, WorkerShows DEF Search, database, store, requests, history
<1>4. CASE InsertFace
    BY <1>4, InsertShows
<1>5. CASE InsertLink
    <2>1. \/ pc' \in {"add", "link"} /\ job' = job
          \/ pc' = "idle"
        BY <1>5 DEF InsertLink, WorkerIdle
    <2> QED
        BY <1>0, <1>5, <2>1, WorkerShows DEF InsertLink, store, requests
<1>6. CASE Add
    BY <1>6, AddShows
<1>7. CASE MaybeSave
    <2>1. /\ UNCHANGED <<rows, index, todo, hpc, listed, torn, starts>> /\ disk' \in {index, disk}
          /\ pc = "flush" /\ pc' = "idle"
        BY <1>7 DEF MaybeSave, SaveIndex, WorkerIdle, database, requests, history
    <2>2. OnItsWay' = OnItsWay
        BY <2>1 DEF OnItsWay
    <2> QED
        BY <2>1, <2>2, NamedStays, SaveShows
<1> QED
    BY <1>1, <1>2, <1>3, <1>4, <1>5, <1>6, <1>7 DEF Persist

\* What a request names is in sight, or will not come into sight any more.
LEMMA ReadShows ==
    ASSUME SyncBase, NEW h \in Handlers, NEW kind, NEW cam,
           NEW chosen \in SUBSET Entries, Read(h, kind, cam, chosen)
    PROVE  [Faces!Next]_Faces!vars
<1> USE DEF SyncBase
<1> DEFINE named == CapturesOf(chosen)
<1>0. /\ UNCHANGED <<rows, index, disk, todo, pc, job, starts>>
      /\ torn' = torn \cup CapturesOf(chosen \cap InFlight)
      /\ hpc[h] = "idle" /\ hpc'[h] # "idle"
      /\ \A g \in Handlers : /\ listed'[g] = IF g = h THEN chosen ELSE listed[g]
                             /\ g # h => hpc'[g] = hpc[g]
    BY DEF Typed, TypeOK, Read, database, store, worker
<1>1. \A c \in torn' \ torn : c = job /\ pc \in {"link", "add"} /\ c \in named
    BY <1>0 DEF InFlight, CapturesOf
<1>2. UNCHANGED <<FoundIn(index), FoundIn(disk)>>
    <2>1. \A c \in torn' \ torn : \A i \in FaceIds : <<i, c>> \notin index \cup disk
        BY <1>1 DEF Fresh
    <2> QED
        BY <1>0, <2>1, BothStay
<1>3. CASE chosen = {}
    <2>1. hpc'[h] # "commit" /\ torn' = torn
        BY <1>0, <1>3 DEF Read, Typed, TypeOK, CapturesOf
    <2>2. OnItsWay' = OnItsWay
        BY <1>0, <2>1 DEF OnItsWay
    <2> QED
        BY <1>0, <1>2, <2>1, <2>2, NamedElsewhere, GalleryStays
<1>4. CASE chosen # {}
    <2>1. hpc'[h] = "commit"
        BY <1>4 DEF Read, Typed, TypeOK
    <2>2. Named[h] = {}
        BY <1>0 DEF Named
    <2>3. \A g \in Handlers : Named'[g] = IF g = h THEN named ELSE Named[g]
        BY <1>0, <2>1 DEF Named, CapturesOf
    <2>4. Named' = [Named EXCEPT ![h] = named]
        BY <2>3 DEF Named
    <2>5. \A c \in named : \E i \in FaceIds : Present(i) /\ rows[i] = c /\ <<i, c>> \in chosen
        BY InEntries DEF CapturesOf
    <2>6. \A c \in named : c \in Captures /\ c \notin Unborn
        <3>1. \A i \in FaceIds : Present(i) => rows[i] \in Captures
            BY DEF Typed, TypeOK, Present
        <3>2. \A i \in FaceIds : Present(i) => rows[i] \notin Unborn
            BY DEF FilesInv, Once
        <3> QED
            BY <2>5, <3>1, <3>2
    <2>7. ASSUME NEW c \in OnItsWay, c \in named PROVE c \in torn'
        <3>1. c \notin todo /\ c = job /\ pc \in {"link", "add"}
            BY <2>6, <2>7 DEF OnItsWay, Unborn, Typed, TypeOK, WorkerSteps
        <3>2. <<face, job>> \in chosen
            BY <2>5, <2>7, <3>1 DEF Fresh
        <3> QED
            BY <1>0, <3>1, <3>2 DEF InFlight, CapturesOf
    <2>8. OnItsWay' = OnItsWay \ named
        BY <1>0, <1>1, <2>7 DEF OnItsWay
    <2>9. named \in SUBSET Captures
        BY <2>6
    <2>10. Faces!Ask(h, named)
        BY <1>0, <1>2, <2>2, <2>4, <2>8 DEF Faces!Ask
    <2> QED
        BY <2>9, <2>10 DEF Faces!Next
<1> QED
    BY <1>3, <1>4

LEMMA RequestShows ==
    ASSUME SyncBase, NEW h \in Handlers, Request(h)
    PROVE  [Faces!Next]_Faces!vars
<1>1. CASE DeleteFace(h)
    <2>1. PICK i \in FaceIds : Present(i) /\ Read(h, "face", NoCamera, {<<i, rows[i]>>})
        BY <1>1 DEF DeleteFace
    <2>2. {<<i, rows[i]>>} \subseteq Entries
        BY <2>1, InEntries
    <2> QED
        BY <2>1, <2>2, ReadShows
<1>2. CASE PurgeWindow(h)
    BY <1>2, ReadShows DEF PurgeWindow
<1>3. CASE PurgeAll(h)
    BY <1>3, ReadShows DEF PurgeAll
<1>4. CASE DeleteCamera(h)
    BY <1>4, ReadShows DEF DeleteCamera
<1> QED
    BY <1>1, <1>2, <1>3, <1>4 DEF Request

\* The transaction takes out of sight what the request named, and no other.
LEMMA CommitShows ==
    ASSUME SyncBase, NEW h \in Handlers, Commit(h)
    PROVE  [Faces!Next]_Faces!vars
<1> USE DEF SyncBase
<1> DEFINE ids == Ids(listed[h])
<1>0. /\ UNCHANGED <<index, disk, todo, pc, job, torn, starts>>
      /\ hpc[h] = "commit" /\ hpc'[h] # "commit"
      /\ \A g \in Handlers \ {h} : hpc'[g] = hpc[g] /\ listed'[g] = listed[g]
    BY DEF Typed, TypeOK, Commit, Finish, store, worker, history
<1>1. Named' = [Named EXCEPT ![h] = {}]
    <2>1. \A g \in Handlers : Named'[g] = IF g = h THEN {} ELSE Named[g]
        BY <1>0 DEF Named, CapturesOf
    <2> QED
        BY <2>1 DEF Named
<1>2. OnItsWay' = OnItsWay
    BY <1>0 DEF OnItsWay
<1>3. CASE UNCHANGED rows
    <2>1. UNCHANGED <<FoundIn(index), FoundIn(disk)>>
        BY <1>0, <1>3, BothStay
    <2> QED
        BY <1>0, <1>1, <1>2, <2>1 DEF Faces!Next, Faces!Withdraw
<1>4. CASE rows' # rows
    <2>1. \A i \in FaceIds : rows'[i] = IF i \in ids THEN NoFace ELSE rows[i]
        BY <1>4 DEF Commit
    <2>2. \A e \in listed[h] : rows[e[1]] \in {e[2], NoFace} \cup torn
        BY <1>0 DEF SyncInv, RequestSees
    <2>3. \A e \in listed[h] : \A i \in FaceIds : rows[i] = e[2] => i = e[1]
        BY DEF FilesInv, Once
    <2>4. Named[h] = CapturesOf(listed[h])
        BY <1>0 DEF Named
    <2>5. \A i \in ids : \E e \in listed[h] : e[1] = i
        BY DEF Ids
    <2>6. \A e \in listed[h] : e[1] \in ids
        BY DEF Ids
    <2>7. ASSUME NEW i \in FaceIds, NEW c \in Captures \ torn
          PROVE  rows'[i] = c <=> rows[i] = c /\ c \notin Named[h]
        <3>1. c # NoFace
            BY DEF Captures, NoFace
        <3>2. CASE i \in ids
            BY <2>1, <2>2, <2>4, <2>5, <3>1, <3>2 DEF CapturesOf
        <3>3. CASE i \notin ids
            BY <2>1, <2>3, <2>4, <2>6, <3>3 DEF CapturesOf
        <3> QED
            BY <3>2, <3>3
    <2>8. ASSUME NEW file
          PROVE  {c \in Captures \ torn : \E i \in FaceIds : rows'[i] = c /\ <<i, c>> \in file}
               = {c \in Captures \ torn : \E i \in FaceIds : rows[i] = c /\ <<i, c>> \in file}
                 \ Named[h]
        <3> DEFINE before == {c \in Captures \ torn :
                                 \E i \in FaceIds : rows[i] = c /\ <<i, c>> \in file}
                   after == {c \in Captures \ torn :
                                 \E i \in FaceIds : rows'[i] = c /\ <<i, c>> \in file}
        <3>1. \A c : c \in after <=> c \in before /\ c \notin Named[h]
            BY <2>7
        <3> HIDE DEF before, after
        <3>2. after = before \ Named[h]
            BY <3>1
        <3> QED
            BY <3>2 DEF before, after
    <2>9. UNCHANGED <<index, disk, torn>>
        BY <1>0
    <2>10. FoundIn(index)' = FoundIn(index) \ Named[h]
        BY <2>8, <2>9, Zenon DEF FoundIn
    <2>11. FoundIn(disk)' = FoundIn(disk) \ Named[h]
        BY <2>8, <2>9, Zenon DEF FoundIn
    <2> QED
        BY <1>0, <1>1, <1>2, <2>10, <2>11 DEF Faces!Next, Faces!Remove
<1> QED
    BY <1>3, <1>4

\* A vector that is not shown does not matter.
LEMMA RemovalShows ==
    ASSUME UNCHANGED <<rows, disk, torn, OnItsWay, Named, starts>>,
           \A i \in FaceIds, c \in Captures \ torn :
               rows[i] = c => (<<i, c>> \in index' <=> <<i, c>> \in index)
    PROVE  [Faces!Next]_Faces!vars
<1>1. UNCHANGED <<FoundIn(index), FoundIn(disk)>>
    BY DEF FoundIn
<1> QED
    BY <1>1, GalleryStays

\* The vectors it leaves behind belong to no row, and to no capture still to come.
LEMMA AbandonShows ==
    ASSUME SyncBase, NEW h \in Handlers, Abandon(h), hpc[h] # "commit",
           UNCHANGED <<rows, index, disk, todo, pc, job, starts>>
    PROVE  [Faces!Next]_Faces!vars
<1> USE DEF SyncBase
<1>1. /\ hpc'[h] = "idle"
      /\ \A g \in Handlers \ {h} : hpc'[g] = hpc[g] /\ listed'[g] = listed[g]
      /\ torn' = torn \cup (CapturesOf(evict[h]) \ Stored)
    BY DEF Abandon, Finish, Typed, TypeOK
<1>2. UNCHANGED <<FoundIn(index), FoundIn(disk)>>
    BY <1>1, BothStay DEF Stored
<1>3. \A c \in CapturesOf(evict[h]) : c \notin Unborn /\ c \in Captures
    BY DEF FilesInv, Once, Gone, CapturesOf, Typed, TypeOK
<1>4. ASSUME NEW c \in OnItsWay PROVE c \notin torn'
    <2>1. CASE c \in todo
        BY <1>1, <1>3, <2>1 DEF OnItsWay, Unborn
    <2>2. CASE c = job /\ pc \in {"link", "add"}
        <3>1. rows[face] = job /\ face \in FaceIds
            BY <2>2 DEF OnItsWay, SyncInv, WorkerSees, Typed, WorkerHolds
        <3> QED
            BY <1>1, <2>2, <3>1 DEF OnItsWay, Stored
    <2>3. CASE c = job /\ pc \notin {"idle", "link", "add", "flush"}
        BY <1>1, <1>3, <2>3 DEF OnItsWay, Unborn, Typed, TypeOK, WorkerSteps
    <2> QED
        BY <2>1, <2>2, <2>3 DEF OnItsWay
<1>5. OnItsWay' = OnItsWay
    BY <1>1, <1>4 DEF OnItsWay
<1> QED
    BY <1>1, <1>2, <1>5, NamedElsewhere, GalleryStays

LEMMA ServeShows ==
    ASSUME SyncBase, NEW h \in Handlers, Serve(h)
    PROVE  [Faces!Next]_Faces!vars
<1>0. Typed /\ SyncInv
    BY DEF SyncBase
<1>1. CASE Commit(h)
    BY <1>1, CommitShows
<1>2. ASSUME UNCHANGED <<todo, pc, job, torn>>, hpc[h] # "commit", hpc'[h] # "commit",
             \A g \in Handlers \ {h} : hpc'[g] = hpc[g] /\ listed'[g] = listed[g]
      PROVE  UNCHANGED <<OnItsWay, Named>>
    BY <1>2, NamedElsewhere DEF OnItsWay
<1>3. CASE Evict(h)
    <2>1. PICK e \in evict[h] : index' = {v \in index : v[1] # e[1]}
        BY <1>3 DEF Evict, RemoveVector
    <2>2. /\ UNCHANGED <<rows, disk, todo, pc, job, torn, listed, starts>>
          /\ hpc[h] = "evict" /\ hpc'[h] \in {"evict", "unlink"}
          /\ \A g \in Handlers \ {h} : hpc'[g] = hpc[g]
        BY <1>0, <1>3 DEF Evict, Typed, TypeOK, database, worker, history
    <2>3. Present(e[1]) => rows[e[1]] \in torn
        BY <1>0, <2>1 DEF SyncInv, RequestSees
    <2>4. ASSUME NEW i \in FaceIds, NEW c \in Captures \ torn, rows[i] = c
          PROVE  <<i, c>> \in index' <=> <<i, c>> \in index
        <3>1. i # e[1]
            BY <2>3, <2>4 DEF Present, Captures, NoFace
        <3> QED
            BY <2>1, <3>1
    <2> QED
        BY <1>2, <2>2, <2>4, RemovalShows
<1>4. CASE Reset(h)
    <2>1. /\ UNCHANGED <<rows, disk, todo, pc, job, torn, listed, starts>>
          /\ hpc[h] = "reset" /\ hpc'[h] = "flush"
          /\ \A g \in Handlers \ {h} : hpc'[g] = hpc[g]
        BY <1>0, <1>4 DEF Reset, Typed, TypeOK, database, worker, history
    <2>2. ASSUME NEW i \in FaceIds, NEW c \in Captures \ torn PROVE rows[i] # c
        BY <1>0, <2>1 DEF SyncInv, RequestSees, Present, Captures, NoFace
    <2> QED
        BY <1>2, <2>1, <2>2, RemovalShows
<1>5. CASE ResetSave(h)
    <2>1. /\ UNCHANGED <<rows, index, todo, pc, job, torn, listed, starts>>
          /\ disk' \in {index, disk}
          /\ hpc[h] # "commit" /\ hpc'[h] # "commit"
          /\ \A g \in Handlers \ {h} : hpc'[g] = hpc[g]
        BY <1>0, <1>5 DEF ResetSave, SaveIndex, Typed, TypeOK, database, worker, history
    <2> QED
        BY <1>2, <2>1, SaveShows
<1>6. CASE UnlinkFiles(h) \/ EvictDone(h) \/ RequestDone(h) \/ DropCamera(h)
    <2>1. /\ UNCHANGED <<rows, index, disk, todo, pc, job, torn, starts>>
          /\ UNCHANGED <<hpc, listed>> \/ (hpc[h] # "commit" /\ hpc'[h] # "commit")
          /\ \A g \in Handlers \ {h} : hpc'[g] = hpc[g] /\ listed'[g] = listed[g]
        BY <1>0, <1>6 DEF UnlinkFiles, EvictDone, RequestDone, DropCamera, Finish, Typed, TypeOK,
                          database, store, worker, history
    <2>2. UNCHANGED <<OnItsWay, Named>>
        BY <2>1, NamedStays, NamedElsewhere DEF OnItsWay
    <2> QED
        BY <2>1, <2>2, RemovalShows
<1>7. CASE ResetSaveFails(h)
    BY <1>7, AbandonShows DEF ResetSaveFails, database, store, worker
<1>8. CASE UnlinkFails(h)
    BY <1>8, AbandonShows DEF UnlinkFails, Unlinking, database, store, worker
<1> QED
    BY <1>1, <1>3, <1>4, <1>5, <1>6, <1>7, <1>8 DEF Serve

\* What a start marks has no row, so it shows what the file holds, or nothing.
LEMMA LoadShows ==
    ASSUME Boot, NEW file \in {index, disk}, LoadIndex(file), UNCHANGED <<rows, todo>>
    PROVE  [Faces!Next]_Faces!vars
<1>1. /\ pc' = "idle" /\ starts' = starts + 1 /\ \A h \in Handlers : hpc'[h] = "idle"
      /\ disk' = file /\ index' \in {file, {}}
      /\ torn \subseteq torn' /\ \A c \in torn' \ torn : c \notin Stored
    BY DEF Boot, WorkerIdle, LoadIndex
<1>2. \A c \in torn' \ torn : \A i \in FaceIds : rows[i] # c
    BY <1>1 DEF Stored
<1>3. FoundIn(disk)' \in {FoundIn(disk), FoundIn(index)}
    <2>1. CASE file = index
        <3>1. FoundIn(disk)' = FoundIn(index)
            BY <1>1, <1>2, <2>1, FoundStays DEF FoundIn
        <3> QED
            BY <3>1
    <2>2. CASE file = disk
        <3>1. FoundIn(disk)' = FoundIn(disk)
            BY <1>1, <1>2, <2>2, FoundStays DEF FoundIn
        <3> QED
            BY <3>1
    <2> QED
        BY <2>1, <2>2
<1>4. FoundIn(index)' \in {FoundIn(disk)', {}}
    <2>1. CASE index' = disk'
        BY <2>1 DEF FoundIn
    <2>2. CASE index' = {}
        BY <2>2 DEF FoundIn
    <2> QED
        BY <1>1, <2>1, <2>2
<1>5. OnItsWay' \subseteq OnItsWay
    BY <1>1 DEF OnItsWay
<1>6. Named' = [h \in Handlers |-> {}]
    BY <1>1 DEF Named
<1> QED
    BY <1>1, <1>3, <1>4, <1>5, <1>6 DEF Faces!Next, Faces!Start

LEMMA InitShows == Init => Faces!Init
<1> SUFFICES ASSUME Init PROVE Faces!Init
    OBVIOUS
<1>1. OnItsWay = Captures /\ FoundIn(index) = {} /\ FoundIn(disk) = {}
    BY DEF Init, OnItsWay, FoundIn
<1>2. Named = [h \in Handlers |-> {}]
    BY DEF Init, Named
<1> QED
    BY <1>1, <1>2 DEF Init, Faces!Init

LEMMA NextShows == SyncBase /\ [Next]_vars => [Faces!Next]_Faces!vars
<1> SUFFICES ASSUME SyncBase, [Next]_vars PROVE [Faces!Next]_Faces!vars
    OBVIOUS
<1>1. ASSUME NEW c \in Captures, Take(c) PROVE [Faces!Next]_Faces!vars
    <2>1. UNCHANGED <<rows, index, disk, hpc, listed, torn, starts>>
        BY <1>1 DEF Take, database, store, requests, history
    <2>2. OnItsWay' = OnItsWay
        BY <1>1 DEF Take, OnItsWay, history
    <2> QED
        BY <2>1, <2>2, NamedStays, RemovalShows
<1>2. CASE Persist
    BY <1>2, PersistShows
<1>3. ASSUME NEW h \in Handlers, Request(h) \/ Serve(h) PROVE [Faces!Next]_Faces!vars
    BY <1>3, RequestShows, ServeShows
<1>4. CASE AddCamera \/ UNCHANGED vars
    <2>1. UNCHANGED <<rows, index, disk, todo, pc, job, hpc, listed, torn, starts>>
        BY <1>4 DEF AddCamera, vars, database, store, worker, requests, history
    <2>2. OnItsWay' = OnItsWay
        BY <2>1 DEF OnItsWay
    <2> QED
        BY <2>1, <2>2, NamedStays, RemovalShows
<1>5. CASE Crash \/ Restart
    <2>1. PICK file \in {index, disk} : LoadIndex(file)
        BY <1>5 DEF Crash, Restart
    <2> QED
        BY <1>5, <2>1, LoadShows DEF Crash, Restart
<1> QED
    BY <1>1, <1>2, <1>3, <1>4, <1>5 DEF Next

\* What a search can return, now and after a start, changes as if each capture were
\* put into the store and each request took its faces out in one step; a start shows
\* what was saved last, or nothing (StorageWorker._persist, api/faces.py,
\* VectorStore).
THEOREM StoreIsGallery == Spec => KeepsGallery
<1>1. Init => Faces!Init
    BY InitShows
<1>2. SyncBase /\ [Next]_vars => [Faces!Next]_Faces!vars
    BY NextShows
<1> QED
    BY <1>1, <1>2, Synced, PTL DEF Spec, KeepsGallery, Faces!Spec
===========================================================================
