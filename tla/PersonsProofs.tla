----------------------------- MODULE PersonsProofs -----------------------------
(* Theorems about Persons, for any number of enrolments, badges, deletions,   *)
(* faces and starts, whatever fails or crashes meanwhile.                     *)
EXTENDS Persons, TLAPS

USE DEF Enrolments, PersonIds, Nobody, Faces

---------------------------------------------------------------------------
(* Types *)

\* Only one enrolment holds the event loop, and after its insert it knows the
\* id of its row.
OneHolds ==
    /\ \A e, g \in Enrolments : epc[e] \in Holding /\ epc[g] \in Holding => e = g
    /\ \A e \in Enrolments : epc[e] \in {"replace", "add", "save"} => given \in PersonIds

Types == TypeOK /\ OneHolds

LEMMA InitTypes == Init => Types
<1> SUFFICES ASSUME Init PROVE Types
  OBVIOUS
<1>1. dirty \in BOOLEAN
  BY Zenon DEF Init
<1>2. labels \in [Faces -> Label \cup {NoLabel}]
  BY DEF Init
<1>3. /\ files \subseteq Enrolments \X {"photo", "npy"}
      /\ index \subseteq Entry /\ disk \subseteq Entry
  BY DEF Init
<1> QED BY <1>1, <1>2, <1>3, PersonsAssumption DEF Init, Types, TypeOK, OneHolds, Holding

LEMMA StepTypes == Types /\ [Next]_vars => Types'
<1> SUFFICES ASSUME Types, [Next]_vars PROVE Types'
  OBVIOUS
<1> USE PersonsAssumption
    DEF Types, TypeOK, OneHolds, Holding, LoopFree, Goto, store, enrolment, deletion, worker,
        history
<1>1. ASSUME NEW e \in Enrolments, Check(e) \/ ReadUpload(e) PROVE Types'
  <2>1. /\ UNCHANGED <<rows, index, disk, dirty, files, given, dpc, target, tagged, labels,
                      shown, wpc, found, name, starts, torn, lost, littered, late>>
        /\ \/ epc' = [epc EXCEPT ![e] = "refused"]
           \/ epc' = [epc EXCEPT ![e] = "upload"]
           \/ epc' = [epc EXCEPT ![e] = "photo"] /\ LoopFree
    BY <1>1 DEF Check, ReadUpload
  <2> QED BY <2>1
<1>2. ASSUME NEW e \in Enrolments, SavePhoto(e) \/ SaveEmbedding(e) PROVE Types'
  <2>1. CASE SavePhoto(e)
    BY <2>1, SMTT(30) DEF SavePhoto, history
  <2>2. CASE SaveEmbedding(e) /\ Goto(e, "insert") /\ UNCHANGED littered
    BY <2>2, SMTT(30) DEF SaveEmbedding
  <2>3. CASE SaveEmbedding(e) /\ Fail(e)
    BY <2>3, SMTT(30) DEF SaveEmbedding, Fail
  <2> QED BY <1>2, <2>1, <2>2, <2>3 DEF SaveEmbedding
<1>3. ASSUME NEW e \in Enrolments, InsertPerson(e) PROVE Types'
  <2>1. torn' \subseteq Enrolments /\ littered' \subseteq Enrolments /\ late' \subseteq Faces
    BY <1>3 DEF InsertPerson, Fail
  <2>2. UNCHANGED <<index, disk, dirty, files, dpc, target, tagged, labels, shown, wpc,
                    found, name, starts, lost>>
    BY <1>3 DEF InsertPerson
  <2>3. \/ \E i \in PersonIds : rows' = [rows EXCEPT ![i] = e] /\ given' = i
                                /\ Goto(e, "replace")
        \/ rows' = rows /\ given' = given /\ Goto(e, "failed")
    BY <1>3, Zenon DEF InsertPerson, Fail
  <2>4. /\ rows' \in [PersonIds -> Enrolments \cup {Nobody}]
        /\ given' \in PersonIds \cup {0}
        /\ \/ epc' = [epc EXCEPT ![e] = "replace"] /\ given' \in PersonIds
           \/ epc' = [epc EXCEPT ![e] = "failed"] /\ given' = given
    <3>1. ASSUME NEW i \in PersonIds, rows' = [rows EXCEPT ![i] = e], given' = i,
                 Goto(e, "replace")
          PROVE /\ rows' \in [PersonIds -> Enrolments \cup {Nobody}]
                /\ given' \in PersonIds \cup {0}
                /\ epc' = [epc EXCEPT ![e] = "replace"] /\ given' \in PersonIds
      BY <3>1
    <3>2. CASE rows' = rows /\ given' = given /\ Goto(e, "failed")
      BY <3>2
    <3> QED BY <2>3, <3>1, <3>2
  <2>5. epc[e] \in Holding
    BY <1>3 DEF InsertPerson
  <2>6. \A g \in Enrolments : epc[g] \in Holding => g = e
    BY <2>5, Zenon
  <2>7. OneHolds'
    <3>1. \A g \in Enrolments : epc'[g] \in Holding => g = e
      BY <2>4, <2>6
    <3>2. epc'[e] \in {"replace", "add", "save"} => given' \in PersonIds
      <4>1. CASE epc' = [epc EXCEPT ![e] = "replace"] /\ given' \in PersonIds
        BY <4>1
      <4>2. CASE epc' = [epc EXCEPT ![e] = "failed"]
        BY <4>2
      <4> QED BY <2>4, <4>1, <4>2
    <3> QED BY <3>1, <3>2
  <2>8. epc' \in [Enrolments -> {"new", "upload", "refused", "failed", "done"} \cup Holding]
    <3>1. CASE epc' = [epc EXCEPT ![e] = "replace"]
      BY <3>1
    <3>2. CASE epc' = [epc EXCEPT ![e] = "failed"]
      BY <3>2
    <3> QED BY <2>4, <3>1, <3>2
  <2> QED BY <2>1, <2>2, <2>4, <2>7, <2>8
<1>4. ASSUME NEW e \in Enrolments, Replace(e) PROVE Types'
  <2>1. dirty' \in BOOLEAN
    BY <1>4, Zenon DEF Replace, RemoveVector
  <2>2. index' \subseteq Entry
    BY <1>4 DEF Replace, RemoveVector
  <2> QED BY <1>4, <2>1, <2>2 DEF Replace
<1>5. ASSUME NEW e \in Enrolments, Add(e) PROVE Types'
  <2>1. dirty' \in BOOLEAN
    BY <1>5, Zenon DEF Add, AddVector
  <2>2. index' \subseteq Entry
    BY <1>5 DEF Add, AddVector, Entry
  <2> QED BY <1>5, <2>1, <2>2 DEF Add
<1>6. ASSUME NEW e \in Enrolments, MaybeSave(e) PROVE Types'
  <2>1. dirty' \in BOOLEAN
    BY <1>6, Zenon DEF MaybeSave, SaveIndex
  <2>2. disk' \subseteq Entry /\ index' = index
    BY <1>6 DEF MaybeSave, SaveIndex
  <2> QED BY <1>6, <2>1, <2>2 DEF MaybeSave
<1>7. ASSUME NEW d \in Deleters, ReadPerson(d) PROVE Types'
  <2>1. PICK i \in PersonIds :
          /\ rows[i] # Nobody
          /\ target' = [target EXCEPT ![d] = <<i, rows[i]>>]
          /\ tagged' = [tagged EXCEPT ![d] = {f \in Faces : labels[f].id = i}]
    BY <1>7 DEF ReadPerson
  <2>2. <<i, rows[i]>> \in Entry
    BY <2>1 DEF Entry
  <2>3. torn' \subseteq Enrolments
    <3>1. PICK j \in PersonIds :
            rows[j] # Nobody /\ torn' = torn \cup ({rows[j]} \cap PersonsOf(InFlight))
      BY <1>7 DEF ReadPerson
    <3>2. rows[j] \in Enrolments
      BY <3>1
    <3>3. {rows[j]} \cap PersonsOf(InFlight) \subseteq Enrolments
      BY <3>2, Zenon
    <3> QED BY <3>1, <3>3, Zenon
  <2> QED BY <1>7, <2>1, <2>2, <2>3 DEF ReadPerson
<1>8. ASSUME NEW d \in Deleters, CommitDelete(d) PROVE Types'
  <2>1. late' \subseteq Faces
    <3>1. late' = late \/ (wpc = "insert" /\ late' = late \cup {shown})
      BY <1>8, Zenon DEF CommitDelete
    <3> QED BY <3>1
  <2>2. labels' \in [Faces -> Label \cup {NoLabel}]
    BY <1>8 DEF CommitDelete, ClearLabels
  <2>3. UNCHANGED <<index, disk, dirty, files, epc, given, shown, wpc, found, name,
                    starts, torn, lost, littered>>
    BY <1>8 DEF CommitDelete
  <2>4. rows' \in [PersonIds -> Enrolments \cup {Nobody}]
    <3>1. rows' = [rows EXCEPT ![target[d][1]] = Nobody] \/ rows' = rows
      BY <1>8, Zenon DEF CommitDelete
    <3> QED BY <3>1
  <2>5. tagged' \in [Deleters -> SUBSET Faces]
    <3>1. tagged' = [tagged EXCEPT ![d] = {}]
      BY <1>8, Zenon DEF CommitDelete, Finish
    <3> QED BY <3>1
  <2>6. /\ dpc' \in [Deleters -> {"idle", "commit", "evict", "unlink"}]
        /\ target' \in [Deleters -> Entry \cup {<<0, Nobody>>}]
        /\ \A c \in Deleters : dpc'[c] # "idle" => target'[c] \in Entry
    <3>1. CASE dpc' = [dpc EXCEPT ![d] = "evict"] /\ target' = target
      <4>1. dpc[d] = "commit"
        BY <1>8 DEF CommitDelete
      <4> QED BY <3>1, <4>1
    <3>2. CASE Finish(d)
      <4>1. /\ dpc' = [dpc EXCEPT ![d] = "idle"]
            /\ target' = [target EXCEPT ![d] = <<0, Nobody>>]
        BY <3>2 DEF Finish
      <4> QED BY <4>1
    <3> QED BY <1>8, <3>1, <3>2 DEF CommitDelete
  <2> QED BY <2>1, <2>2, <2>3, <2>4, <2>5, <2>6
<1>9. ASSUME NEW d \in Deleters, Evict(d) PROVE Types'
  <2>1. dirty' \in BOOLEAN
    BY <1>9, Zenon DEF Evict, RemoveVector
  <2>2. index' \subseteq Entry
    BY <1>9 DEF Evict, RemoveVector
  <2> QED BY <1>9, <2>1, <2>2 DEF Evict
<1>10. ASSUME NEW d \in Deleters, UnlinkFiles(d) \/ UnlinkFails(d) PROVE Types'
  <2>1. CASE UnlinkFiles(d)
    BY <2>1 DEF UnlinkFiles, Finish, history
  <2>2. CASE UnlinkFails(d)
    <3>1. target[d][2] \in Enrolments
      BY <2>2 DEF UnlinkFails, Entry
    <3> QED BY <2>2, <3>1 DEF UnlinkFails, Finish
  <2> QED BY <1>10, <2>1, <2>2
<1>11. CASE Recognize
  BY <1>11 DEF Recognize
<1>12. CASE GetPerson
  <2>1. rows[found[1]] \in Enrolments \cup {Nobody}
    BY <1>12 DEF GetPerson, Entry
  <2> QED BY <1>12, <2>1 DEF GetPerson
<1>13. CASE InsertFace
  <2>1. late' \subseteq Faces
    <3>1. late' = late \/ (wpc = "insert" /\ late' = late \cup {shown})
      BY <1>13, Zenon DEF InsertFace
    <3> QED BY <3>1
  <2>2. [vector |-> found[2], id |-> found[1], name |-> name] \in Label
    BY <1>13 DEF InsertFace, Entry, Label
  <2>3. labels' \in [Faces -> Label \cup {NoLabel}]
    BY <1>13, <2>2 DEF InsertFace
  <2> QED BY <1>13, <2>1, <2>3 DEF InsertFace
<1>14. CASE Crash \/ StopAndStart
  <2>1. Boot /\ (LoadIndex(disk) \/ LoadIndex(IF dirty THEN index ELSE disk))
    BY <1>14 DEF Crash, StopAndStart
  <2>2. /\ dirty' = FALSE
        /\ given' = 0 /\ wpc' = "search" /\ name' = Nobody /\ starts' \in 0..MaxStarts
        /\ dpc' = [d \in Deleters |-> "idle"]
        /\ target' = [d \in Deleters |-> <<0, Nobody>>] /\ tagged' = [d \in Deleters |-> {}]
        /\ UNCHANGED <<rows, files, labels, shown, late>>
    BY <2>1 DEF Boot, WorkerIdle
  <2>5. epc' = [e \in Enrolments |->
                   IF epc[e] \in Holding \cup {"upload"} THEN "failed" ELSE epc[e]]
    BY <2>1, Zenon DEF Boot
  <2>6. epc' \in [Enrolments -> {"new", "refused", "failed", "done"}]
    BY <2>5
  <2>3. littered' \subseteq Enrolments
    <3>1. \A d \in Deleters : dpc[d] \in {"evict", "unlink"} => target[d][2] \in Enrolments
      BY DEF Entry
    <3>2. CASE Crash
      <4>1. {target[d][2] : d \in {c \in Deleters : dpc[c] \in {"evict", "unlink"}}}
               \subseteq Enrolments
        BY <3>1
      <4> QED BY <3>2, <4>1 DEF Crash
    <3>3. CASE StopAndStart
      BY <3>3 DEF StopAndStart
    <3> QED BY <1>14, <3>2, <3>3
  <2>4. PICK file \in {index, disk} : LoadIndex(file)
    BY <2>1
  <2>7. \A S \in SUBSET Entry : PersonsOf(S) \subseteq Enrolments
    BY DEF PersonsOf, Entry
  <2>8. index' \subseteq Entry /\ disk' \subseteq Entry
    BY <2>4 DEF LoadIndex
  <2>9. InFlight \subseteq Entry
    BY DEF InFlight, Entry
  <2>10. lost' \subseteq Enrolments
    <3>1. lost' = lost \cup PersonsOf(
                     InFlight \cup (IF dirty THEN index \ file ELSE {}) \cup (file \ index'))
      BY <2>4, Zenon DEF LoadIndex
    <3>2. InFlight \cup (IF dirty THEN index \ file ELSE {}) \cup (file \ index') \in SUBSET Entry
      BY <2>9
    <3>3. PersonsOf(InFlight \cup (IF dirty THEN index \ file ELSE {}) \cup (file \ index'))
             \subseteq Enrolments
      BY <2>7, <3>2, Zenon
    <3> QED BY <3>1, <3>3
  <2>11. torn' \subseteq Enrolments
    <3> DEFINE S == {v \in index \cup file : Doomed(v)} \cup (IF dirty THEN file \ index ELSE {})
    <3>1. torn' = torn \cup (PersonsOf(S) \ {rows[i] : i \in PersonIds})
      BY <2>4, Zenon DEF LoadIndex
    <3>2. S \in SUBSET Entry
      OBVIOUS
    <3>3. PersonsOf(S) \subseteq Enrolments
      BY <2>7, <3>2, Zenon
    <3> HIDE DEF S
    <3> QED BY <3>1, <3>3
  <2>12. OneHolds'
    BY <2>6
  <2> QED BY <2>2, <2>3, <2>6, <2>8, <2>10, <2>11, <2>12
<1>15. CASE UNCHANGED vars
  BY <1>15 DEF vars
<1> QED
  BY <1>1, <1>2, <1>3, <1>4, <1>5, <1>6, <1>7, <1>8, <1>9, <1>10, <1>11, <1>12,
     <1>13, <1>14, <1>15
  DEF Next, Enrol, Delete

LEMMA Typed == Spec => []Types
BY InitTypes, StepTypes, PTL DEF Spec

\* Every variable keeps its type.
THEOREM Typing == Spec => []TypeOK
<1>1. Types => TypeOK
  BY DEF Types
<1> QED BY <1>1, Typed, PTL

---------------------------------------------------------------------------
(* The parts of the invariant *)

\* Neither index holds an id twice, and an enrolment adds its vector only when
\* it has removed what was there.
OneEach ==
    /\ \A v, w \in index : v[1] = w[1] => v = w
    /\ \A v, w \in disk : v[1] = w[1] => v = w
    /\ \A e \in Enrolments : epc[e] = "add" => \A v \in index : v[1] # given

\* An enrolment that has, or may have, got a row.
Past == {"replace", "add", "save", "done", "failed"}

\* An enrolment has one row, after its embedding was saved; a deletion that has
\* removed the row of an enrolment has removed the only one.
RowsKept ==
    /\ \A i, j \in PersonIds : rows[i] # Nobody /\ rows[i] = rows[j] => i = j
    /\ \A i \in PersonIds :
          rows[i] # Nobody => epc[rows[i]] \in Past /\ <<rows[i], "npy">> \in files
    /\ \A e \in Enrolments : epc[e] = "insert" => <<e, "npy">> \in files
    /\ \A d \in Deleters : dpc[d] # "idle" => epc[target[d][2]] \in Past
    /\ \A d \in Deleters, i \in PersonIds :
          dpc[d] = "commit" /\ rows[i] = target[d][2] => i = target[d][1]
    /\ \A d \in Deleters, i \in PersonIds :
          dpc[d] \in {"evict", "unlink"} => rows[i] # target[d][2]

\* A vector is that of an enrolment that has got so far, under the id it got.
OwnIds ==
    /\ \A v \in index \cup disk : epc[v[2]] \in {"save", "done", "failed"}
    /\ \A v \in index \cup disk, i \in PersonIds : rows[i] = v[2] => v[1] = i
    /\ \A e \in Enrolments, i \in PersonIds :
          epc[e] \in {"replace", "add"} /\ rows[i] = e => i = given

\* The row under an id is the one its enrolment wrote and its deletion read, or
\* one that a deletion had in hand.
OwnRows ==
    /\ \A e \in Enrolments : epc[e] \in {"replace", "add"} =>
          rows[given] = e \/ (rows[given] = Nobody /\ e \in torn)
    /\ \A d \in Deleters : dpc[d] = "commit" =>
          /\ rows[target[d][1]] \in {target[d][2], Nobody} \cup torn
          /\ \A e \in Enrolments :
                epc[e] \in {"replace", "add"} /\ rows[target[d][1]] = e => e \in torn
    /\ \A d \in Deleters : dpc[d] = "evict" => rows[target[d][1]] \in {Nobody} \cup torn

\* What a search may find, now or after a start that changes nothing.
Vectors == index \cup (IF dirty THEN {} ELSE disk)

\* The index follows the rows, and the disk follows the index.
IndexFollows ==
    /\ ~dirty => disk = index \/ index = {}
    /\ \A i \in PersonIds :
          \/ rows[i] \in {Nobody} \cup torn \cup lost \cup PersonsOf(InFlight)
          \/ <<i, rows[i]>> \in index
    /\ \A v \in Vectors : rows[v[1]] = v[2] \/ v[2] \in torn \/ Doomed(v)

\* A face gets the name of the entry it matched, and a deletion that has yet to
\* commit knows the faces with the name it deletes.
NamesFollow ==
    /\ wpc = "lookup" =>
          \/ rows[found[1]] \in {found[2], Nobody} \cup torn
          \/ found[2] \in torn \/ shown \in late
    /\ wpc = "insert" =>
          /\ name \in {found[2], Nobody} \cup torn \/ found[2] \in torn \/ shown \in late
          /\ name \in {Nobody, rows[found[1]]} \/ shown \in late
    /\ \A d \in Deleters, f \in Faces :
          dpc[d] = "commit" /\ labels[f].id = target[d][1] /\ labels[f].name # Nobody
             => f \in tagged[d] \cup late

\* A file belongs to a row, to an enrolment that is about to insert one, or to a
\* deletion that is about to remove it, or it was left behind.
FilesKept ==
    \A x \in files :
        \/ \E i \in PersonIds : rows[i] = x[1]
        \/ epc[x[1]] \in {"embedding", "insert"}
        \/ x[1] \in littered \cup torn
        \/ \E d \in Deleters : dpc[d] \in {"evict", "unlink"} /\ target[d][2] = x[1]

---------------------------------------------------------------------------
(* What the steps with a history variable do *)

HIDE DEF Enrolments, PersonIds, Nobody, Faces

LEMMA NobodyElse == Nobody \notin Enrolments
BY PersonsAssumption DEF Nobody, Enrolments

LEMMA Inserted ==
  ASSUME Types, NEW e \in Enrolments, InsertPerson(e)
  PROVE  /\ UNCHANGED <<index, disk, dirty, files, dpc, target, tagged, labels, shown, wpc,
                        found, name, starts, lost>>
         /\ epc[e] = "insert"
         /\ \/ /\ UNCHANGED <<rows, given, torn, late>> /\ littered' = littered \cup {e}
               /\ epc' = [epc EXCEPT ![e] = "failed"]
            \/ \E i \in PersonIds :
                  /\ rows[i] = Nobody /\ rows' = [rows EXCEPT ![i] = e]
                  /\ given' = i /\ epc' = [epc EXCEPT ![e] = "replace"] /\ littered' = littered
                  /\ torn' = IF InUse(i) THEN torn \cup {e} ELSE torn
                  /\ late' = IF wpc = "lookup" /\ found[1] = i THEN late \cup {shown} ELSE late
<1>1. /\ UNCHANGED <<index, disk, dirty, files, dpc, target, tagged, labels, shown, wpc,
                     found, name, starts, lost>>
      /\ epc[e] = "insert"
  BY DEF InsertPerson, store, deletion, worker
<1>2. \/ /\ UNCHANGED <<rows, given, torn, late>> /\ littered' = littered \cup {e}
         /\ epc' = [epc EXCEPT ![e] = "failed"]
      \/ \E i \in PersonIds :
            /\ IsNextId(i) /\ rows' = [rows EXCEPT ![i] = e]
            /\ given' = i /\ epc' = [epc EXCEPT ![e] = "replace"] /\ littered' = littered
            /\ torn' = IF InUse(i) THEN torn \cup {e} ELSE torn
            /\ late' = IF wpc = "lookup" /\ found[1] = i THEN late \cup {shown} ELSE late
  BY Zenon DEF InsertPerson, Fail, Goto
<1>3. \A i \in PersonIds : IsNextId(i) => rows[i] = Nobody
  BY PersonsAssumption DEF Types, TypeOK, IsNextId, PersonIds, Enrolments, Nobody
<1> QED BY <1>1, <1>2, <1>3, Zenon

LEMMA Committed ==
  ASSUME NEW d \in Deleters, CommitDelete(d)
  PROVE  /\ UNCHANGED <<index, disk, dirty, files, epc, given, shown, wpc, found, name,
                        starts, torn, lost, littered>>
         /\ dpc[d] = "commit"
         /\ tagged' = [tagged EXCEPT ![d] = {}]
         /\ \/ /\ dpc' = [dpc EXCEPT ![d] = "evict"] /\ target' = target
               /\ rows' = [rows EXCEPT ![target[d][1]] = Nobody]
               /\ ClearLabels(d)
               /\ late' = IF wpc = "insert" /\ found[1] = target[d][1]
                          THEN late \cup {shown} ELSE late
            \/ /\ dpc' = [dpc EXCEPT ![d] = "idle"]
               /\ target' = [target EXCEPT ![d] = <<0, Nobody>>]
               /\ UNCHANGED <<rows, labels, late>>
<1>1. UNCHANGED <<index, disk, dirty, files, epc, given, shown, wpc, found, name,
                  starts, torn, lost, littered>>
  BY DEF CommitDelete, store, enrolment, worker
<1> QED BY <1>1, Zenon DEF CommitDelete, Finish

LEMMA Started ==
  ASSUME Types, Crash \/ StopAndStart
  PROVE  /\ UNCHANGED <<rows, files, labels, shown, late>>
         /\ dirty' = FALSE /\ given' = 0 /\ wpc' = "search"
         /\ \A e \in Enrolments :
               epc'[e] = IF epc[e] \in Holding \cup {"upload"} THEN "failed" ELSE epc[e]
         /\ \A d \in Deleters : dpc'[d] = "idle"
         /\ disk' = disk \/ (dirty /\ disk' = index)
         /\ index' \in {disk', {}}
         /\ lost' = lost \cup PersonsOf(InFlight \cup (IF dirty THEN index \ disk' ELSE {})
                                         \cup (disk' \ index'))
         /\ torn' = torn \cup (PersonsOf({v \in index \cup disk' : Doomed(v)}
                                         \cup (IF dirty THEN disk' \ index ELSE {}))
                               \ {rows[i] : i \in PersonIds})
<1>1. Boot
  BY DEF Crash, StopAndStart
<1>2. /\ UNCHANGED <<rows, files, labels, shown, late>>
      /\ dirty' = FALSE /\ given' = 0 /\ wpc' = "search"
      /\ \A d \in Deleters : dpc'[d] = "idle"
  BY <1>1 DEF Boot, WorkerIdle
<1>3. epc' = [e \in Enrolments |->
                 IF epc[e] \in Holding \cup {"upload"} THEN "failed" ELSE epc[e]]
  BY <1>1, Zenon DEF Boot
<1>4. PICK file \in {disk} \cup (IF dirty THEN {index} ELSE {}) : LoadIndex(file)
  BY DEF Crash, StopAndStart
<1>5. disk' = file
  BY <1>4, Zenon DEF LoadIndex
<1>6. index' \in {disk', {}}
  BY <1>4, <1>5 DEF LoadIndex
<1>7. /\ lost' = lost \cup PersonsOf(InFlight \cup (IF dirty THEN index \ disk' ELSE {})
                                      \cup (disk' \ index'))
      /\ torn' = torn \cup (PersonsOf({v \in index \cup disk' : Doomed(v)}
                                      \cup (IF dirty THEN disk' \ index ELSE {}))
                            \ {rows[i] : i \in PersonIds})
  BY <1>4, <1>5, Zenon DEF LoadIndex
<1> QED BY <1>2, <1>3, <1>4, <1>5, <1>6, <1>7

---------------------------------------------------------------------------
(* One entry for each id *)

LEMMA StepOneEach == Types /\ OneEach /\ [Next]_vars => OneEach'
<1> SUFFICES ASSUME Types, OneEach, [Next]_vars PROVE OneEach'
  OBVIOUS
<1> USE DEF Types, TypeOK, OneHolds, OneEach, Holding, LoopFree, Goto, store, enrolment,
            deletion, worker
<1>1. ASSUME NEW e \in Enrolments,
             Check(e) \/ ReadUpload(e) \/ SavePhoto(e) \/ SaveEmbedding(e)
      PROVE OneEach'
  BY <1>1 DEF Check, ReadUpload, SavePhoto, SaveEmbedding, Fail
<1>2. ASSUME NEW e \in Enrolments, InsertPerson(e) PROVE OneEach'
  <2>1. UNCHANGED store /\ epc[e] = "insert" /\ (Goto(e, "replace") \/ Goto(e, "failed"))
    BY <1>2, Zenon DEF InsertPerson, Fail
  <2> QED BY <2>1
<1>3. ASSUME NEW e \in Enrolments, Replace(e) PROVE OneEach'
  BY <1>3 DEF Replace, RemoveVector
<1>4. ASSUME NEW e \in Enrolments, Add(e) PROVE OneEach'
  BY <1>4 DEF Add, AddVector, Entry
<1>5. ASSUME NEW e \in Enrolments, MaybeSave(e) PROVE OneEach'
  BY <1>5 DEF MaybeSave, SaveIndex
<1>6. ASSUME NEW d \in Deleters, ReadPerson(d) \/ CommitDelete(d) \/ UnlinkFiles(d) \/ UnlinkFails(d)
      PROVE OneEach'
  <2>1. UNCHANGED <<index, disk, epc, given>>
    BY <1>6 DEF ReadPerson, CommitDelete, UnlinkFiles, UnlinkFails
  <2> QED BY <2>1
<1>7. ASSUME NEW d \in Deleters, Evict(d) PROVE OneEach'
  BY <1>7 DEF Evict, RemoveVector
<1>8. CASE Recognize \/ GetPerson \/ InsertFace
  BY <1>8 DEF Recognize, GetPerson, InsertFace
<1>9. CASE Crash \/ StopAndStart
  BY <1>9, Started
<1>10. CASE UNCHANGED vars
  BY <1>10 DEF vars
<1> QED
  BY <1>1, <1>2, <1>3, <1>4, <1>5, <1>6, <1>7, <1>8, <1>9, <1>10
  DEF Next, Enrol, Delete

---------------------------------------------------------------------------
(* Rows and embeddings *)

LEMMA StepRowsKept == Types /\ RowsKept /\ [Next]_vars => RowsKept'
<1>a. SUFFICES ASSUME Types, RowsKept, [Next]_vars PROVE RowsKept'
  OBVIOUS
<1> USE DEF RowsKept, Past, Holding, Goto, Entry
<1>0. /\ rows \in [PersonIds -> Enrolments \cup {Nobody}]
      /\ files \subseteq Enrolments \X {"photo", "npy"}
      /\ epc \in [Enrolments -> {"new", "upload", "refused", "failed", "done"} \cup Holding]
      /\ dpc \in [Deleters -> {"idle", "commit", "evict", "unlink"}]
      /\ target \in [Deleters -> Entry \cup {<<0, Nobody>>}]
      /\ \A d \in Deleters : dpc[d] # "idle" => target[d] \in Entry
      /\ RowsKept /\ Nobody \notin Enrolments
  BY <1>a, NobodyElse DEF Types, TypeOK
<1>1. ASSUME NEW e \in Enrolments,
             Check(e) \/ ReadUpload(e) \/ SavePhoto(e) \/ SaveEmbedding(e)
      PROVE RowsKept'
  <2>1. UNCHANGED <<rows, dpc, target>> /\ files \subseteq files'
    BY <1>1 DEF Check, ReadUpload, SavePhoto, SaveEmbedding, deletion
  <2>2. \/ epc[e] = "new" /\ (Goto(e, "refused") \/ Goto(e, "upload"))
        \/ epc[e] = "upload" /\ (Goto(e, "photo") \/ Goto(e, "refused"))
        \/ epc[e] = "photo" /\ Goto(e, "embedding")
        \/ epc[e] = "embedding" /\ Goto(e, "insert") /\ <<e, "npy">> \in files'
        \/ epc[e] = "embedding" /\ Goto(e, "failed")
    BY <1>1 DEF Check, ReadUpload, SavePhoto, SaveEmbedding, Fail
  <2> QED BY <1>0, <2>1, <2>2
<1>2. ASSUME NEW e \in Enrolments, InsertPerson(e) PROVE RowsKept'
  <2>1. UNCHANGED <<files, dpc, target>> /\ epc[e] = "insert"
    BY <1>a, <1>2, Inserted
  <2>2. ASSUME NEW i \in PersonIds, rows[i] = Nobody, rows' = [rows EXCEPT ![i] = e],
               Goto(e, "replace")
        PROVE RowsKept'
    <3>2. rows'[i] = e /\ \A j \in PersonIds : j # i => rows'[j] = rows[j]
      BY <1>0, <2>2
    <3>3. /\ epc' = [epc EXCEPT ![e] = "replace"]
          /\ \A j \in PersonIds : rows[j] # e
          /\ \A d \in Deleters : dpc[d] # "idle" => target[d][2] # e
      BY <1>0, <2>1, <2>2
    <3>4. \A i1, j1 \in PersonIds : rows'[i1] # Nobody /\ rows'[i1] = rows'[j1] => i1 = j1
      BY <1>0, <3>2, <3>3
    <3>5. \A j \in PersonIds :
            rows'[j] # Nobody => epc'[rows'[j]] \in Past /\ <<rows'[j], "npy">> \in files'
      BY <1>0, <2>1, <3>2, <3>3
    <3>6. \A g \in Enrolments : epc'[g] = "insert" => <<g, "npy">> \in files'
      BY <1>0, <2>1, <3>3
    <3>7. \A d \in Deleters : dpc'[d] # "idle" => epc'[target'[d][2]] \in Past
      BY <1>0, <2>1, <3>3
    <3>8. \A d \in Deleters, j \in PersonIds : rows'[j] = target'[d][2] /\ dpc'[d] # "idle"
            => rows[j] = target[d][2]
      BY <1>0, <2>1, <3>2, <3>3
    <3>9. \A d \in Deleters, j \in PersonIds :
              dpc'[d] = "commit" /\ rows'[j] = target'[d][2] => j = target'[d][1]
      BY <1>0, <2>1, <3>8
    <3>10. \A d \in Deleters, j \in PersonIds :
              dpc'[d] \in {"evict", "unlink"} => rows'[j] # target'[d][2]
      BY <1>0, <2>1, <3>8
    <3> QED BY <3>4, <3>5, <3>6, <3>7, <3>9, <3>10
  <2>3. CASE rows' = rows /\ Goto(e, "failed")
    BY <1>0, <2>1, <2>3
  <2> QED BY <1>a, <1>2, <2>2, <2>3, Inserted
<1>3. ASSUME NEW e \in Enrolments, Replace(e) \/ Add(e) \/ MaybeSave(e) PROVE RowsKept'
  <2>1. UNCHANGED <<rows, files, dpc, target>>
    BY <1>3 DEF Replace, Add, MaybeSave, deletion
  <2>2. \/ epc[e] = "replace" /\ Goto(e, "add")
        \/ epc[e] = "add" /\ Goto(e, "save")
        \/ epc[e] = "save" /\ Goto(e, "done")
    BY <1>3 DEF Replace, Add, MaybeSave
  <2> QED BY <1>0, <2>1, <2>2
<1>4. ASSUME NEW d \in Deleters, ReadPerson(d) PROVE RowsKept'
  <2>1. UNCHANGED <<rows, files, epc>> /\ dpc' = [dpc EXCEPT ![d] = "commit"]
    BY <1>4 DEF ReadPerson, enrolment
  <2>2. PICK i \in PersonIds :
          rows[i] # Nobody /\ target' = [target EXCEPT ![d] = <<i, rows[i]>>]
    BY <1>4 DEF ReadPerson
  <2> QED BY <1>0, <2>1, <2>2
<1>5. ASSUME NEW d \in Deleters, CommitDelete(d) PROVE RowsKept'
  <2>1. UNCHANGED <<files, epc>> /\ dpc[d] = "commit"
    BY <1>5 DEF CommitDelete, enrolment
  <2>2. CASE /\ dpc' = [dpc EXCEPT ![d] = "evict"]
             /\ rows' = [rows EXCEPT ![target[d][1]] = Nobody]
             /\ target' = target
    <3>1. \A i \in PersonIds : rows'[i] # target[d][2]
      BY <1>0, <2>1, <2>2
    <3> QED BY <1>0, <2>1, <2>2, <3>1
  <2>3. CASE /\ dpc' = [dpc EXCEPT ![d] = "idle"]
             /\ target' = [target EXCEPT ![d] = <<0, Nobody>>]
             /\ rows' = rows
    BY <1>0, <2>1, <2>3
  <2> QED BY <1>5, <2>2, <2>3 DEF CommitDelete, Finish
<1>6. ASSUME NEW d \in Deleters, Evict(d) PROVE RowsKept'
  <2>1. UNCHANGED <<rows, files, epc, target>> /\ dpc[d] = "evict"
        /\ dpc' = [dpc EXCEPT ![d] = "unlink"]
    BY <1>6 DEF Evict, enrolment
  <2> QED BY <1>0, <2>1
<1>7. ASSUME NEW d \in Deleters, UnlinkFiles(d) \/ UnlinkFails(d) PROVE RowsKept'
  <2>1. /\ UNCHANGED <<rows, epc>> /\ dpc[d] = "unlink"
        /\ dpc' = [dpc EXCEPT ![d] = "idle"]
        /\ target' = [target EXCEPT ![d] = <<0, Nobody>>]
    BY <1>7 DEF UnlinkFiles, UnlinkFails, Finish, enrolment
  <2>2. \A e \in Enrolments :
          e # target[d][2] /\ <<e, "npy">> \in files => <<e, "npy">> \in files'
    BY <1>7 DEF UnlinkFiles, UnlinkFails, FilesOf
  <2>3. \A i \in PersonIds : rows[i] # target[d][2]
    BY <1>0, <2>1
  <2>4. \A e \in Enrolments : epc[e] = "insert" => e # target[d][2]
    BY <1>0, <2>1
  <2> QED BY <1>0, <2>1, <2>2, <2>3, <2>4
<1>8. CASE Recognize \/ GetPerson \/ InsertFace
  <2>1. UNCHANGED <<rows, files, epc, dpc, target>>
    BY <1>8 DEF Recognize, GetPerson, InsertFace, enrolment, deletion
  <2> QED BY <2>1, <1>0
<1>9. CASE Crash \/ StopAndStart
  <2>1. /\ UNCHANGED <<rows, files>>
        /\ \A e \in Enrolments : epc[e] \in Past => epc'[e] \in Past
        /\ \A e \in Enrolments : epc'[e] # "insert"
        /\ \A d \in Deleters : dpc'[d] = "idle"
    BY <1>0, <1>a, <1>9, Started
  <2> QED BY <1>0, <2>1
<1>10. CASE UNCHANGED vars
  BY <1>0, <1>10 DEF vars, enrolment, deletion
<1> QED
  BY <1>a, <1>1, <1>2, <1>3, <1>4, <1>5, <1>6, <1>7, <1>8, <1>9, <1>10
  DEF Next, Enrol, Delete


---------------------------------------------------------------------------
(* What the other steps do *)

\* The steps of an enrolment up to its insert.
LEMMA Prepared ==
  ASSUME NEW e \in Enrolments, Check(e) \/ ReadUpload(e) \/ SavePhoto(e) \/ SaveEmbedding(e)
  PROVE  /\ UNCHANGED <<rows, index, disk, dirty, given, dpc, target, tagged, labels, shown,
                        wpc, found, name, starts, torn, lost, late>>
         /\ \/ epc[e] = "new" /\ (Goto(e, "refused") \/ Goto(e, "upload"))
            \/ epc[e] = "upload" /\ (Goto(e, "refused") \/ Goto(e, "photo"))
            \/ epc[e] = "photo" /\ Goto(e, "embedding")
            \/ epc[e] = "embedding" /\ (Goto(e, "insert") \/ Goto(e, "failed"))
BY DEF Check, ReadUpload, SavePhoto, SaveEmbedding, Fail, store, deletion, worker, history

LEMMA Replaced ==
  ASSUME NEW e \in Enrolments, Replace(e)
  PROVE  /\ UNCHANGED <<rows, disk, files, given, dpc, target, tagged, labels, shown, wpc,
                        found, name, starts, torn, lost, littered, late>>
         /\ index' = {v \in index : v[1] # given} /\ dirty' = TRUE
         /\ epc[e] = "replace" /\ epc' = [epc EXCEPT ![e] = "add"]
BY DEF Replace, RemoveVector, Goto, deletion, worker, history

LEMMA Added ==
  ASSUME NEW e \in Enrolments, Add(e)
  PROVE  /\ UNCHANGED <<rows, disk, files, given, dpc, target, tagged, labels, shown, wpc,
                        found, name, starts, torn, lost, littered, late>>
         /\ index' = index \cup {<<given, e>>} /\ dirty' = TRUE
         /\ epc[e] = "add" /\ epc' = [epc EXCEPT ![e] = "save"]
BY DEF Add, AddVector, Goto, deletion, worker, history

LEMMA Saved ==
  ASSUME Types, NEW e \in Enrolments, MaybeSave(e)
  PROVE  /\ UNCHANGED <<rows, index, files, dpc, target, tagged, labels, shown, wpc,
                        found, name, starts, torn, lost, littered, late>>
         /\ \/ dirty' = FALSE /\ disk' = IF dirty THEN index ELSE disk
            \/ UNCHANGED <<disk, dirty>>
         /\ epc[e] = "save" /\ epc' = [epc EXCEPT ![e] = "done"]
BY Zenon DEF MaybeSave, SaveIndex, Goto, deletion, worker, history

LEMMA Chosen ==
  ASSUME NEW d \in Deleters, ReadPerson(d)
  PROVE  /\ UNCHANGED <<rows, index, disk, dirty, files, epc, given, labels, shown, wpc,
                        found, name, starts, lost, littered, late>>
         /\ dpc[d] = "idle" /\ dpc' = [dpc EXCEPT ![d] = "commit"]
         /\ \E i \in PersonIds :
               /\ rows[i] # Nobody
               /\ target' = [target EXCEPT ![d] = <<i, rows[i]>>]
               /\ tagged' = [tagged EXCEPT ![d] = {f \in Faces : labels[f].id = i}]
               /\ torn' = torn \cup ({rows[i]} \cap PersonsOf(InFlight))
<1>1. UNCHANGED <<rows, index, disk, dirty, files, epc, given, labels, shown, wpc,
                  found, name, starts, lost, littered, late>>
  BY DEF ReadPerson, store, enrolment, worker
<1> QED BY <1>1, Zenon DEF ReadPerson

LEMMA Evicted ==
  ASSUME NEW d \in Deleters, Evict(d)
  PROVE  /\ UNCHANGED <<rows, disk, files, epc, given, target, tagged, labels, shown, wpc,
                        found, name, starts, torn, lost, littered, late>>
         /\ index' = {v \in index : v[1] # target[d][1]} /\ dirty' = TRUE
         /\ dpc[d] = "evict" /\ dpc' = [dpc EXCEPT ![d] = "unlink"]
BY DEF Evict, RemoveVector, enrolment, worker, history

LEMMA Unlinked ==
  ASSUME NEW d \in Deleters, UnlinkFiles(d) \/ UnlinkFails(d)
  PROVE  /\ UNCHANGED <<rows, index, disk, dirty, epc, given, labels, shown, wpc,
                        found, name, starts, torn, lost, late>>
         /\ dpc[d] = "unlink" /\ dpc' = [dpc EXCEPT ![d] = "idle"]
         /\ target' = [target EXCEPT ![d] = <<0, Nobody>>]
         /\ tagged' = [tagged EXCEPT ![d] = {}]
BY DEF UnlinkFiles, UnlinkFails, Finish, store, enrolment, worker, history

LEMMA Labelled ==
  ASSUME Recognize \/ GetPerson \/ InsertFace \/ UNCHANGED vars
  PROVE  UNCHANGED <<rows, index, disk, dirty, files, epc, given, dpc, target, tagged,
                     starts, torn, lost, littered>>
BY DEF Recognize, GetPerson, InsertFace, vars, store, enrolment, deletion, history

LEMMA Flying ==
    /\ \A e \in Enrolments : e \in PersonsOf(InFlight) <=> epc[e] \in {"replace", "add"}
    /\ \A e \in Enrolments :
          (e \in PersonsOf(InFlight)') <=> epc'[e] \in {"replace", "add"}
<1>1. /\ PersonsOf(InFlight) = {e \in Enrolments : epc[e] \in {"replace", "add"}}
      /\ PersonsOf(InFlight)' = {e \in Enrolments : epc'[e] \in {"replace", "add"}}
  <2> DEFINE F == {e \in Enrolments : epc[e] \in {"replace", "add"}}
  <2>1. PersonsOf(InFlight) = {v[2] : v \in {<<given, e>> : e \in F}}
    BY DEF PersonsOf, InFlight
  <2>2. PersonsOf(InFlight)' = {v[2] : v \in {<<given', e>> : e \in F'}}
    BY DEF PersonsOf, InFlight
  <2> HIDE DEF F
  <2>3. {v[2] : v \in {<<given, e>> : e \in F}} = F
    <3> DEFINE P == {<<given, e>> : e \in F}
    <3>1. \A e \in F : <<given, e>> \in P /\ <<given, e>>[2] = e
      OBVIOUS
    <3>2. \A v \in P : v[2] \in F
      OBVIOUS
    <3> HIDE DEF P
    <3>3. \A e \in F : \E v \in P : v[2] = e
      BY <3>1, Zenon
    <3>4. {v[2] : v \in P} = F
      BY <3>2, <3>3, Zenon
    <3> QED BY <3>4 DEF P
  <2>4. {v[2] : v \in {<<given', e>> : e \in F'}} = F'
    <3> DEFINE P == {<<given', e>> : e \in F'}
    <3>1. \A e \in F' : <<given', e>> \in P /\ <<given', e>>[2] = e
      OBVIOUS
    <3>2. \A v \in P : v[2] \in F'
      OBVIOUS
    <3> HIDE DEF P
    <3>3. \A e \in F' : \E v \in P : v[2] = e
      BY <3>1, Zenon
    <3>4. {v[2] : v \in P} = F'
      BY <3>2, <3>3, Zenon
    <3> QED BY <3>4 DEF P
  <2> QED BY <2>1, <2>2, <2>3, <2>4 DEF F
<1> QED BY <1>1

---------------------------------------------------------------------------
(* Vectors and their enrolments *)

LEMMA StepOwnIds == Types /\ RowsKept /\ OwnIds /\ [Next]_vars => OwnIds'
<1>a. SUFFICES ASSUME Types, RowsKept, OwnIds, [Next]_vars PROVE OwnIds'
  OBVIOUS
<1> USE DEF OwnIds, Goto
<1>0. /\ rows \in [PersonIds -> Enrolments \cup {Nobody}]
      /\ index \subseteq PersonIds \X Enrolments /\ disk \subseteq PersonIds \X Enrolments
      /\ epc \in [Enrolments -> {"new", "upload", "refused", "failed", "done"} \cup Holding]
      /\ target \in [Deleters -> (PersonIds \X Enrolments) \cup {<<0, Nobody>>}]
      /\ \A i \in PersonIds : rows[i] # Nobody => epc[rows[i]] \in Past
      /\ OwnIds /\ Nobody \notin Enrolments
  BY <1>a, NobodyElse DEF Types, TypeOK, Entry, RowsKept
<1>1. ASSUME NEW e \in Enrolments,
             Check(e) \/ ReadUpload(e) \/ SavePhoto(e) \/ SaveEmbedding(e)
      PROVE OwnIds'
  BY <1>0, <1>1, Prepared
<1>2. ASSUME NEW e \in Enrolments, InsertPerson(e) PROVE OwnIds'
  <2>1. UNCHANGED <<index, disk>> /\ epc[e] = "insert"
    BY <1>a, <1>2, Inserted
  <2>2. \A j \in PersonIds : rows[j] # e
    BY <1>0, <2>1 DEF Past
  <2>3. ASSUME NEW i \in PersonIds, rows' = [rows EXCEPT ![i] = e], given' = i,
               epc' = [epc EXCEPT ![e] = "replace"]
        PROVE OwnIds'
    <3>1. \A g \in Enrolments \ {e} : epc[g] \notin {"replace", "add"}
      BY <1>a, <2>1 DEF Types, OneHolds, Holding
    <3>2. \A j \in PersonIds : rows'[j] = IF j = i THEN e ELSE rows[j]
      BY <1>0, <2>3
    <3>3. \A g \in Enrolments : epc'[g] = IF g = e THEN "replace" ELSE epc[g]
      BY <1>0, <2>3
    <3> QED BY <1>0, <2>1, <2>2, <2>3, <3>1, <3>2, <3>3
  <2>4. CASE UNCHANGED <<rows, given>> /\ epc' = [epc EXCEPT ![e] = "failed"]
    BY <1>0, <2>1, <2>4
  <2> QED BY <1>a, <1>2, <2>3, <2>4, Inserted
<1>3. ASSUME NEW e \in Enrolments, Replace(e) PROVE OwnIds'
  <2>1. /\ UNCHANGED <<rows, disk, given>> /\ index' \subseteq index
        /\ epc[e] = "replace" /\ epc' = [epc EXCEPT ![e] = "add"]
    BY <1>3, Replaced
  <2>2. \A g \in Enrolments : epc'[g] = IF g = e THEN "add" ELSE epc[g]
    BY <1>0, <2>1
  <2> QED BY <1>0, <2>1, <2>2
<1>4. ASSUME NEW e \in Enrolments, Add(e) PROVE OwnIds'
  <2>1. /\ UNCHANGED <<rows, disk, given>> /\ index' = index \cup {<<given, e>>}
        /\ epc[e] = "add" /\ epc' = [epc EXCEPT ![e] = "save"]
    BY <1>4, Added
  <2>2. \A g \in Enrolments : epc'[g] = IF g = e THEN "save" ELSE epc[g]
    BY <1>0, <2>1
  <2>3. \A v \in index' \cup disk' :
          v \in index \cup disk \/ (v[1] = given /\ v[2] = e)
    BY <2>1
  <2>4. \A i \in PersonIds : rows[i] = e => i = given
    BY <1>0, <2>1
  <2> QED BY <1>0, <2>1, <2>2, <2>3, <2>4
<1>5. ASSUME NEW e \in Enrolments, MaybeSave(e) PROVE OwnIds'
  <2>1. /\ UNCHANGED <<rows, index>> /\ disk' \in {index, disk}
        /\ epc' = [epc EXCEPT ![e] = "done"] /\ epc[e] = "save"
    BY <1>a, <1>5, Saved
  <2>2. \A g \in Enrolments : epc'[g] \notin {"replace", "add"}
    BY <1>0, <1>a, <2>1 DEF Types, OneHolds, Holding
  <2> QED BY <1>0, <2>1, <2>2
<1>6. ASSUME NEW d \in Deleters, ReadPerson(d) PROVE OwnIds'
  BY <1>0, <1>6, Chosen
<1>7. ASSUME NEW d \in Deleters, CommitDelete(d) PROVE OwnIds'
  <2>1. UNCHANGED <<index, disk, epc, given>>
    BY <1>7, Committed
  <2>2. \A i \in PersonIds : rows'[i] # Nobody => rows'[i] = rows[i]
    BY <1>0, <1>7, Committed
  <2> QED BY <1>0, <2>1, <2>2
<1>8. ASSUME NEW d \in Deleters, Evict(d) PROVE OwnIds'
  BY <1>0, <1>8, Evicted
<1>9. ASSUME NEW d \in Deleters, UnlinkFiles(d) \/ UnlinkFails(d) PROVE OwnIds'
  BY <1>0, <1>9, Unlinked
<1>10. CASE Recognize \/ GetPerson \/ InsertFace \/ UNCHANGED vars
  BY <1>0, <1>10, Labelled
<1>11. CASE Crash \/ StopAndStart
  <2>1. /\ UNCHANGED rows
        /\ index' \cup disk' \subseteq index \cup disk
        /\ \A e \in Enrolments : epc'[e] \notin {"replace", "add"}
        /\ \A e \in Enrolments : epc[e] \in {"save", "done", "failed"}
                                    => epc'[e] \in {"done", "failed"}
    BY <1>a, <1>11, Started DEF Holding
  <2> QED BY <1>0, <2>1
<1> QED
  BY <1>a, <1>1, <1>2, <1>3, <1>4, <1>5, <1>6, <1>7, <1>8, <1>9, <1>10, <1>11
  DEF Next, Enrol, Delete

---------------------------------------------------------------------------
(* Rows and the requests that work on them *)

LEMMA StepOwnRows == Types /\ RowsKept /\ OwnRows /\ [Next]_vars => OwnRows'
<1>a. SUFFICES ASSUME Types, RowsKept, OwnRows, [Next]_vars PROVE OwnRows'
  OBVIOUS
<1> USE DEF OwnRows, Goto
<1>0. /\ rows \in [PersonIds -> Enrolments \cup {Nobody}]
      /\ epc \in [Enrolments -> {"new", "upload", "refused", "failed", "done"} \cup Holding]
      /\ \A e \in Enrolments : epc[e] \in {"replace", "add", "save"} => given \in PersonIds
      /\ dpc \in [Deleters -> {"idle", "commit", "evict", "unlink"}]
      /\ target \in [Deleters -> (PersonIds \X Enrolments) \cup {<<0, Nobody>>}]
      /\ \A d \in Deleters : dpc[d] # "idle" => target[d] \in PersonIds \X Enrolments
      /\ \A i \in PersonIds : rows[i] # Nobody => epc[rows[i]] \in Past
      /\ OwnRows /\ Nobody \notin Enrolments
  BY <1>a, NobodyElse DEF Types, TypeOK, OneHolds, Entry, RowsKept
<1>1. ASSUME NEW e \in Enrolments,
             Check(e) \/ ReadUpload(e) \/ SavePhoto(e) \/ SaveEmbedding(e)
      PROVE OwnRows'
  BY <1>0, <1>1, Prepared
<1>2. ASSUME NEW e \in Enrolments, InsertPerson(e) PROVE OwnRows'
  <2>1. UNCHANGED <<dpc, target>> /\ epc[e] = "insert"
    BY <1>a, <1>2, Inserted
  <2>2. \A j \in PersonIds : rows[j] # e
    BY <1>0, <2>1 DEF Past
  <2>3. \A g \in Enrolments \ {e} : epc[g] \notin {"replace", "add"}
    BY <1>a, <2>1 DEF Types, OneHolds, Holding
  <2>4. ASSUME NEW i \in PersonIds, rows' = [rows EXCEPT ![i] = e], given' = i,
               epc' = [epc EXCEPT ![e] = "replace"],
               torn' = IF InUse(i) THEN torn \cup {e} ELSE torn
        PROVE OwnRows'
    <3>1. /\ torn \subseteq torn'
          /\ \A d \in Deleters : dpc[d] \in {"commit", "evict"} /\ target[d][1] = i => e \in torn'
      BY <2>4 DEF InUse
    <3>2. \A j \in PersonIds : rows'[j] = IF j = i THEN e ELSE rows[j]
      BY <1>0, <2>4
    <3>3. \A g \in Enrolments : epc'[g] = IF g = e THEN "replace" ELSE epc[g]
      BY <1>0, <2>4
    <3>4. \A g \in Enrolments : epc'[g] \in {"replace", "add"} => rows'[given'] = g
      BY <2>3, <2>4, <3>2, <3>3
    <3>5. \A d \in Deleters : dpc[d] \in {"commit", "evict"} => target[d][1] \in PersonIds
      BY <1>0
    <3>6. \A d \in Deleters : dpc[d] = "commit" =>
            /\ rows'[target[d][1]] \in {target[d][2], Nobody} \cup torn'
            /\ \A g \in Enrolments :
                  epc'[g] \in {"replace", "add"} /\ rows'[target[d][1]] = g => g \in torn'
      <4> TAKE d \in Deleters
      <4> HAVE dpc[d] = "commit"
      <4>1. target[d][1] \in PersonIds
        BY <3>5
      <4>2. CASE target[d][1] = i
        BY <2>3, <3>1, <3>2, <3>3, <4>1, <4>2
      <4>3. CASE target[d][1] # i
        <5>1. rows'[target[d][1]] = rows[target[d][1]]
          BY <3>2, <4>1, <4>3
        <5>2. rows[target[d][1]] # e
          BY <2>2, <4>1
        <5>3. rows[target[d][1]] \in {target[d][2], Nobody} \cup torn'
          BY <1>0, <3>1
        <5>4. \A g \in Enrolments : epc'[g] \in {"replace", "add"} => g = e
          BY <2>3, <3>3
        <5> QED BY <5>1, <5>2, <5>3, <5>4
      <4> QED BY <4>2, <4>3
    <3>7. \A d \in Deleters : dpc[d] = "evict" => rows'[target[d][1]] \in {Nobody} \cup torn'
      BY <1>0, <3>1, <3>2, <3>5
    <3> QED BY <2>1, <3>4, <3>6, <3>7
  <2>5. CASE UNCHANGED <<rows, given, torn>> /\ epc' = [epc EXCEPT ![e] = "failed"]
    BY <1>0, <2>1, <2>5
  <2> QED BY <1>a, <1>2, <2>4, <2>5, Inserted
<1>3. ASSUME NEW e \in Enrolments, Replace(e) PROVE OwnRows'
  BY <1>0, <1>3, Replaced
<1>4. ASSUME NEW e \in Enrolments, Add(e) PROVE OwnRows'
  BY <1>0, <1>4, Added
<1>5. ASSUME NEW e \in Enrolments, MaybeSave(e) PROVE OwnRows'
  <2>1. /\ UNCHANGED <<rows, dpc, target, torn>>
        /\ epc' = [epc EXCEPT ![e] = "done"] /\ epc[e] = "save"
    BY <1>a, <1>5, Saved
  <2>2. \A g \in Enrolments : epc'[g] \notin {"replace", "add"}
    BY <1>0, <1>a, <2>1 DEF Types, OneHolds, Holding
  <2> QED BY <1>0, <2>1, <2>2
<1>6. ASSUME NEW d \in Deleters, ReadPerson(d) PROVE OwnRows'
  <2>1. PICK i \in PersonIds :
          /\ rows[i] # Nobody
          /\ target' = [target EXCEPT ![d] = <<i, rows[i]>>]
          /\ torn' = torn \cup ({rows[i]} \cap PersonsOf(InFlight))
    BY <1>6, Chosen
  <2>2. UNCHANGED <<rows, epc, given>> /\ dpc[d] = "idle" /\ dpc' = [dpc EXCEPT ![d] = "commit"]
    BY <1>6, Chosen
  <2>3. torn \subseteq torn' /\ (epc[rows[i]] \in {"replace", "add"} => rows[i] \in torn')
    BY <1>0, <2>1, Flying
  <2>4. target'[d] = <<i, rows[i]>>
        /\ \A c \in Deleters \ {d} : target'[c] = target[c] /\ dpc'[c] = dpc[c]
    BY <1>0, <2>1, <2>2
  <2>5. \A c \in Deleters : dpc'[c] = "commit" =>
          /\ rows[target'[c][1]] \in {target'[c][2], Nobody} \cup torn'
          /\ \A g \in Enrolments :
                epc[g] \in {"replace", "add"} /\ rows[target'[c][1]] = g => g \in torn'
    BY <1>0, <2>2, <2>3, <2>4
  <2> QED BY <1>0, <2>2, <2>3, <2>4, <2>5
<1>7. ASSUME NEW d \in Deleters, CommitDelete(d) PROVE OwnRows'
  <2>1. UNCHANGED <<epc, given, torn>> /\ dpc[d] = "commit"
    BY <1>7, Committed
  <2>2. CASE /\ dpc' = [dpc EXCEPT ![d] = "evict"] /\ target' = target
             /\ rows' = [rows EXCEPT ![target[d][1]] = Nobody]
    BY <1>0, <2>1, <2>2
  <2>3. CASE /\ dpc' = [dpc EXCEPT ![d] = "idle"]
             /\ target' = [target EXCEPT ![d] = <<0, Nobody>>]
             /\ UNCHANGED rows
    BY <1>0, <2>1, <2>3
  <2> QED BY <1>7, Committed, <2>2, <2>3
<1>8. ASSUME NEW d \in Deleters, Evict(d) PROVE OwnRows'
  BY <1>0, <1>8, Evicted
<1>9. ASSUME NEW d \in Deleters, UnlinkFiles(d) \/ UnlinkFails(d) PROVE OwnRows'
  BY <1>0, <1>9, Unlinked
<1>10. CASE Recognize \/ GetPerson \/ InsertFace \/ UNCHANGED vars
  BY <1>0, <1>10, Labelled
<1>11. CASE Crash \/ StopAndStart
  <2>1. /\ \A e \in Enrolments : epc'[e] \notin {"replace", "add"}
        /\ \A d \in Deleters : dpc'[d] = "idle"
    BY <1>a, <1>11, Started DEF Holding
  <2> QED BY <2>1
<1> QED
  BY <1>a, <1>1, <1>2, <1>3, <1>4, <1>5, <1>6, <1>7, <1>8, <1>9, <1>10, <1>11
  DEF Next, Enrol, Delete

---------------------------------------------------------------------------
(* The index and the rows *)

\* The two parts of IndexFollows that relate vectors and rows.
Found == \A i \in PersonIds :
            \/ rows[i] \in {Nobody} \cup torn \cup lost \cup PersonsOf(InFlight)
            \/ <<i, rows[i]>> \in index
Backed == \A v \in Vectors : rows[v[1]] = v[2] \/ v[2] \in torn \/ Doomed(v)

LEMMA StepIndexFollows ==
  Types /\ OwnIds /\ OwnRows /\ IndexFollows /\ [Next]_vars => IndexFollows'
<1>a. SUFFICES ASSUME Types, OwnIds, OwnRows, IndexFollows, [Next]_vars
               PROVE  IndexFollows'
  OBVIOUS
<1> USE DEF Vectors
<1>0. /\ rows \in [PersonIds -> Enrolments \cup {Nobody}]
      /\ index \subseteq PersonIds \X Enrolments /\ disk \subseteq PersonIds \X Enrolments
      /\ dirty \in BOOLEAN
      /\ epc \in [Enrolments -> {"new", "upload", "refused", "failed", "done"} \cup Holding]
      /\ given \in PersonIds \cup {0}
      /\ dpc \in [Deleters -> {"idle", "commit", "evict", "unlink"}]
      /\ target \in [Deleters -> (PersonIds \X Enrolments) \cup {<<0, Nobody>>}]
      /\ \A d \in Deleters : dpc[d] # "idle" => target[d] \in PersonIds \X Enrolments
      /\ Nobody \notin Enrolments
      /\ ~dirty => disk = index \/ index = {}
      /\ Vectors \subseteq PersonIds \X Enrolments
      /\ index \subseteq Vectors
  BY <1>a, NobodyElse DEF Types, TypeOK, Entry, IndexFollows
<1>b. Found /\ Backed
  BY <1>a DEF IndexFollows, Found, Backed
<1>c. \A e \in Enrolments : e \in PersonsOf(InFlight) <=> epc[e] \in {"replace", "add"}
  BY Flying
<1>d. \A e \in Enrolments : (e \in PersonsOf(InFlight)') <=> epc'[e] \in {"replace", "add"}
  BY Flying
<1>e. \A v : Doomed(v) <=> \E d \in Deleters : dpc[d] = "evict" /\ target[d] = v
  BY DEF Doomed
<1>f. \A v : Doomed(v)' <=> \E d \in Deleters : dpc'[d] = "evict" /\ target'[d] = v
  BY DEF Doomed
\* Nothing changes but the step of an enrolment or of a deletion.
<1>1. ASSUME UNCHANGED <<rows, index, disk, dirty, lost>>, torn \subseteq torn',
             \A e \in Enrolments :
                epc[e] \in {"replace", "add"} => epc'[e] \in {"replace", "add"},
             \A d \in Deleters :
                dpc[d] = "evict" => dpc'[d] = "evict" /\ target'[d] = target[d]
      PROVE IndexFollows'
  <2>1. Found'
    BY <1>0, <1>1, <1>b, <1>c, <1>d DEF Found
  <2>2. \A v : Doomed(v) => Doomed(v)'
    BY <1>1, <1>e, <1>f
  <2>3. Vectors' = Vectors
    BY <1>1
  <2>4. Backed'
    BY <1>1, <1>b, <2>2, <2>3 DEF Backed
  <2> QED BY <1>0, <1>1, <2>1, <2>4 DEF IndexFollows, Found, Backed
<1>2. ASSUME NEW e \in Enrolments,
             Check(e) \/ ReadUpload(e) \/ SavePhoto(e) \/ SaveEmbedding(e)
      PROVE IndexFollows'
  <2>1. /\ UNCHANGED <<rows, index, disk, dirty, lost, torn, dpc, target>>
        /\ epc[e] \notin {"replace", "add"} /\ \A g \in Enrolments \ {e} : epc'[g] = epc[g]
    BY <1>0, <1>2, Prepared DEF Goto
  <2> QED BY <1>1, <2>1
<1>3. ASSUME NEW e \in Enrolments, InsertPerson(e) PROVE IndexFollows'
  <2>1. UNCHANGED <<index, disk, dirty, dpc, target, lost>> /\ epc[e] = "insert"
    BY <1>a, <1>3, Inserted
  <2>2. ASSUME NEW i \in PersonIds, rows[i] = Nobody, rows' = [rows EXCEPT ![i] = e],
               epc' = [epc EXCEPT ![e] = "replace"],
               torn' = IF InUse(i) THEN torn \cup {e} ELSE torn
        PROVE IndexFollows'
    <3>1. /\ torn \subseteq torn'
          /\ \A j \in PersonIds : rows'[j] = IF j = i THEN e ELSE rows[j]
          /\ \A g \in Enrolments : epc'[g] = IF g = e THEN "replace" ELSE epc[g]
      BY <1>0, <2>2
    <3>2. Found'
      BY <1>0, <1>b, <1>c, <1>d, <2>1, <3>1 DEF Found
    <3>3. \A v : Doomed(v) => Doomed(v)'
      BY <1>e, <1>f, <2>1
    <3>4. \A v \in Vectors : v[1] \in PersonIds /\ v[2] # Nobody
      BY <1>0
    <3>5. Backed'
      BY <1>b, <2>1, <2>2, <3>1, <3>3, <3>4 DEF Backed
    <3> QED BY <1>0, <2>1, <3>2, <3>5 DEF IndexFollows, Found, Backed
  <2>3. CASE UNCHANGED <<rows, torn>> /\ epc' = [epc EXCEPT ![e] = "failed"]
    BY <1>1, <1>0, <2>1, <2>3
  <2> QED BY <1>a, <1>3, Inserted, <2>2, <2>3
<1>4. ASSUME NEW e \in Enrolments, Replace(e) PROVE IndexFollows'
  <2>1. /\ UNCHANGED <<rows, dpc, target, torn, lost>>
        /\ index' = {v \in index : v[1] # given} /\ dirty' = TRUE
        /\ epc[e] = "replace" /\ epc' = [epc EXCEPT ![e] = "add"]
    BY <1>4, Replaced
  <2>2. rows[given] \in {e, Nobody}
    BY <1>a, <2>1 DEF OwnRows
  <2>3. \A g \in Enrolments : epc'[g] = IF g = e THEN "add" ELSE epc[g]
    BY <1>0, <2>1
  <2>4. Found'
    <3>1. \A j \in PersonIds : j # given /\ <<j, rows[j]>> \in index => <<j, rows[j]>> \in index'
      BY <2>1
    <3> QED BY <1>0, <1>b, <1>c, <1>d, <2>1, <2>2, <2>3, <3>1 DEF Found
  <2>5. Vectors' \subseteq Vectors /\ \A v : Doomed(v) => Doomed(v)'
    BY <1>e, <1>f, <2>1
  <2>6. Backed'
    BY <1>b, <2>1, <2>5 DEF Backed
  <2> QED BY <2>1, <2>4, <2>6 DEF IndexFollows, Found, Backed
<1>5. ASSUME NEW e \in Enrolments, Add(e) PROVE IndexFollows'
  <2>1. /\ UNCHANGED <<rows, dpc, target, torn, lost>>
        /\ index' = index \cup {<<given, e>>} /\ dirty' = TRUE
        /\ epc[e] = "add" /\ epc' = [epc EXCEPT ![e] = "save"]
    BY <1>5, Added
  <2>2. /\ rows[given] = e \/ e \in torn
        /\ \A i \in PersonIds : rows[i] = e => i = given
    BY <1>a, <2>1 DEF OwnRows, OwnIds
  <2>3. \A g \in Enrolments : epc'[g] = IF g = e THEN "save" ELSE epc[g]
    BY <1>0, <2>1
  <2>4. Found'
    <3>1. \A j \in PersonIds : <<j, rows[j]>> \in index \/ rows[j] = e
                                  => <<j, rows[j]>> \in index'
      BY <2>1, <2>2
    <3> QED BY <1>0, <1>b, <1>c, <1>d, <2>1, <2>3, <3>1 DEF Found
  <2>5. /\ \A v : Doomed(v) => Doomed(v)'
        /\ \A v \in Vectors' : v \in Vectors \/ (v[1] = given /\ v[2] = e)
    BY <1>e, <1>f, <2>1
  <2>6. Backed'
    BY <1>b, <2>1, <2>2, <2>5 DEF Backed
  <2> QED BY <2>1, <2>4, <2>6 DEF IndexFollows, Found, Backed
<1>6. ASSUME NEW e \in Enrolments, MaybeSave(e) PROVE IndexFollows'
  <2>1. /\ UNCHANGED <<rows, index, dpc, target, torn, lost>>
        /\ epc[e] = "save" /\ epc' = [epc EXCEPT ![e] = "done"]
    BY <1>a, <1>6, Saved
  <2>2. \/ dirty' = FALSE /\ disk' = IF dirty THEN index ELSE disk
        \/ UNCHANGED <<disk, dirty>>
    BY <1>a, <1>6, Saved
  <2>3. \A g \in Enrolments : epc[g] \in {"replace", "add"} => epc'[g] = epc[g]
    BY <1>0, <2>1
  <2>4. Found'
    BY <1>0, <1>b, <1>c, <1>d, <2>1, <2>3 DEF Found
  <2>5. Vectors' \subseteq Vectors /\ \A v : Doomed(v) => Doomed(v)'
    BY <1>0, <1>e, <1>f, <2>1, <2>2
  <2>6. Backed'
    BY <1>b, <2>1, <2>5 DEF Backed
  <2> QED BY <1>0, <2>1, <2>2, <2>4, <2>6 DEF IndexFollows, Found, Backed
<1>7. ASSUME NEW d \in Deleters, ReadPerson(d) PROVE IndexFollows'
  <2>1. /\ UNCHANGED <<rows, index, disk, dirty, epc, lost>> /\ torn \subseteq torn'
        /\ dpc[d] = "idle"
        /\ \A c \in Deleters \ {d} : dpc'[c] = dpc[c] /\ target'[c] = target[c]
    BY <1>0, <1>7, Chosen
  <2> QED BY <1>1, <2>1
<1>8. ASSUME NEW d \in Deleters, CommitDelete(d) PROVE IndexFollows'
  <2>1. UNCHANGED <<index, disk, dirty, epc, torn, lost>> /\ dpc[d] = "commit"
    BY <1>8, Committed
  <2>2. CASE /\ dpc' = [dpc EXCEPT ![d] = "evict"] /\ target' = target
             /\ rows' = [rows EXCEPT ![target[d][1]] = Nobody]
    <3>1. rows[target[d][1]] \in {target[d][2], Nobody} \cup torn
      BY <1>a, <2>1 DEF OwnRows
    <3>2. \A j \in PersonIds : rows'[j] = IF j = target[d][1] THEN Nobody ELSE rows[j]
      BY <1>0, <2>1, <2>2
    <3>3. \A v : Doomed(v) \/ v = target[d] => Doomed(v)'
      BY <1>0, <1>e, <1>f, <2>1, <2>2
    <3>4. Found'
      BY <1>0, <1>b, <1>c, <1>d, <2>1, <3>2 DEF Found
    <3>5. \A v \in Vectors : /\ v[1] \in PersonIds /\ v[2] \in Enrolments
                             /\ v[1] = target[d][1] /\ v[2] = target[d][2] => v = target[d]
      BY <1>0, <2>1
    <3>6. Backed'
      BY <1>0, <1>b, <2>1, <3>1, <3>2, <3>3, <3>5 DEF Backed
    <3> QED BY <1>0, <2>1, <3>4, <3>6 DEF IndexFollows, Found, Backed
  <2>3. CASE /\ dpc' = [dpc EXCEPT ![d] = "idle"]
             /\ target' = [target EXCEPT ![d] = <<0, Nobody>>]
             /\ UNCHANGED rows
    BY <1>0, <1>1, <2>1, <2>3
  <2> QED BY <1>8, Committed, <2>2, <2>3
<1>9. ASSUME NEW d \in Deleters, Evict(d) PROVE IndexFollows'
  <2>1. /\ UNCHANGED <<rows, disk, epc, target, torn, lost>>
        /\ index' = {v \in index : v[1] # target[d][1]} /\ dirty' = TRUE
        /\ dpc[d] = "evict" /\ dpc' = [dpc EXCEPT ![d] = "unlink"]
    BY <1>9, Evicted
  <2>2. rows[target[d][1]] \in {Nobody} \cup torn
    BY <1>a, <2>1 DEF OwnRows
  <2>3. Found'
    <3>1. \A j \in PersonIds : j # target[d][1] /\ <<j, rows[j]>> \in index
                                  => <<j, rows[j]>> \in index'
      BY <2>1
    <3> QED BY <1>0, <1>b, <1>c, <1>d, <2>1, <2>2, <3>1 DEF Found
  <2>4. \A v \in Vectors' : v \in Vectors /\ v # target[d]
    BY <2>1
  <2>5. \A v : Doomed(v) /\ v # target[d] => Doomed(v)'
    BY <1>0, <1>e, <1>f, <2>1
  <2>6. Backed'
    BY <1>b, <2>1, <2>4, <2>5 DEF Backed
  <2> QED BY <2>1, <2>3, <2>6 DEF IndexFollows, Found, Backed
<1>10. ASSUME NEW d \in Deleters, UnlinkFiles(d) \/ UnlinkFails(d) PROVE IndexFollows'
  <2>1. UNCHANGED <<rows, index, disk, dirty, epc, torn, lost>>
        /\ \A c \in Deleters : dpc[c] = "evict" => dpc'[c] = "evict" /\ target'[c] = target[c]
    BY <1>0, <1>10, Unlinked
  <2> QED BY <1>1, <2>1
<1>11. CASE Recognize \/ GetPerson \/ InsertFace \/ UNCHANGED vars
  <2>1. UNCHANGED <<rows, index, disk, dirty, epc, dpc, target, torn, lost>>
    BY <1>11, Labelled
  <2> QED BY <1>1, <2>1
<1>12. CASE Crash \/ StopAndStart
  <2> DEFINE Unsaved == IF dirty THEN index \ disk' ELSE {}
             Lost == InFlight \cup Unsaved \cup (disk' \ index')
             Back == {v \in index \cup disk' : Doomed(v)}
                     \cup (IF dirty THEN disk' \ index ELSE {})
             Rows == {rows[i] : i \in PersonIds}
  <2>1. /\ UNCHANGED rows /\ dirty' = FALSE
        /\ disk' = disk \/ (dirty /\ disk' = index)
        /\ index' \in {disk', {}}
        /\ lost' = lost \cup PersonsOf(Lost)
        /\ torn' = torn \cup (PersonsOf(Back) \ Rows)
    BY <1>a, <1>12, Started, Zenon
  <2>2. \A v \in Lost : v[2] \in lost'
    <3> HIDE DEF Lost
    <3>1. \A v \in Lost : v[2] \in PersonsOf(Lost)
      BY Zenon DEF PersonsOf
    <3> QED BY <2>1, <3>1
  <2>3. \A v \in Back : v[2] \in torn' \cup Rows
    <3> HIDE DEF Back, Rows
    <3>1. \A v \in Back : v[2] \in PersonsOf(Back)
      BY Zenon DEF PersonsOf
    <3> QED BY <2>1, <3>1
  <2>4. torn \subseteq torn' /\ lost \subseteq lost'
    <3> HIDE DEF Back, Rows, Lost
    <3> QED BY <2>1
  <2>5. \A e \in PersonsOf(InFlight) : e \in lost'
    <3>1. \A v \in InFlight : v[2] \in lost'
      BY <2>2
    <3> QED BY <3>1 DEF PersonsOf
  <2>6. \A v \in index : v \in index' \/ v \in Unsaved \/ v \in disk' \ index'
    BY <1>0, <2>1
  <2>7. Found'
    <3> SUFFICES ASSUME NEW i \in PersonIds
                 PROVE  rows[i] \in {Nobody} \cup torn' \cup lost' \/ <<i, rows[i]>> \in index'
      BY <2>1 DEF Found
    <3>1. CASE rows[i] \in {Nobody} \cup torn \cup lost \cup PersonsOf(InFlight)
      BY <2>4, <2>5, <3>1
    <3>2. CASE <<i, rows[i]>> \in index
      <4> DEFINE v == <<i, rows[i]>>
      <4>1. v \in index' \/ v \in Lost
        BY <2>6, <3>2
      <4>2. v[2] = rows[i]
        OBVIOUS
      <4> HIDE DEF Lost, v
      <4>3. v \in index' \/ rows[i] \in lost'
        BY <2>2, <4>1, <4>2
      <4> QED BY <4>3 DEF v
    <3> QED BY <1>b, <3>1, <3>2 DEF Found
  <2>8. Vectors' = disk'
    BY <2>1
  <2>9. Backed'
    <3> SUFFICES ASSUME NEW v \in disk'
                 PROVE  rows[v[1]] = v[2] \/ v[2] \in torn'
      BY <2>1, <2>8 DEF Backed
    <3>1. v \in Vectors \/ (dirty /\ v \notin index)
      BY <1>0, <2>1
    <3>2. v \in index \cup disk
      BY <2>1
    <3>3. v[2] \in Rows => rows[v[1]] = v[2]
      <4>1. \A i \in PersonIds : rows[i] = v[2] => v[1] = i
        BY <1>a, <3>2 DEF OwnIds
      <4> QED BY <4>1
    <3>4. CASE v \in Vectors
      <4>1. CASE Doomed(v)
        <5>1. v \in Back
          BY <4>1
        <5> QED BY <2>3, <3>3, <5>1
      <4>2. CASE ~Doomed(v)
        BY <1>b, <2>4, <3>4, <4>2 DEF Backed
      <4> QED BY <4>1, <4>2
    <3>5. CASE dirty /\ v \notin index
      <4>1. v \in Back
        BY <3>5
      <4> QED BY <2>3, <3>3, <4>1
    <3> QED BY <3>1, <3>4, <3>5
  <2> HIDE DEF Lost, Back, Rows, Unsaved
  <2> QED BY <2>1, <2>7, <2>9 DEF IndexFollows, Found, Backed
<1> QED
  BY <1>a, <1>2, <1>3, <1>4, <1>5, <1>6, <1>7, <1>8, <1>9, <1>10, <1>11, <1>12
  DEF Next, Enrol, Delete

---------------------------------------------------------------------------
(* Names *)

LEMMA StepNamesFollow ==
  Types /\ OwnRows /\ IndexFollows /\ NamesFollow /\ [Next]_vars => NamesFollow'
<1>a. SUFFICES ASSUME Types, OwnRows, IndexFollows, NamesFollow, [Next]_vars
               PROVE  NamesFollow'
  OBVIOUS
<1> USE DEF NamesFollow
<1>0. /\ rows \in [PersonIds -> Enrolments \cup {Nobody}]
      /\ index \subseteq PersonIds \X Enrolments
      /\ dpc \in [Deleters -> {"idle", "commit", "evict", "unlink"}]
      /\ target \in [Deleters -> (PersonIds \X Enrolments) \cup {<<0, Nobody>>}]
      /\ \A d \in Deleters : dpc[d] # "idle" => target[d] \in PersonIds \X Enrolments
      /\ tagged \in [Deleters -> SUBSET Faces]
      /\ labels \in [Faces -> Label \cup {NoLabel}]
      /\ wpc \in {"search", "lookup", "insert"}
      /\ wpc # "search" => found \in PersonIds \X Enrolments /\ shown \in Faces
      /\ NamesFollow /\ Nobody \notin Enrolments
  BY <1>a, NobodyElse DEF Types, TypeOK, Entry
\* Nothing changes that the names are about, and deletions go on.
<1>1. ASSUME UNCHANGED <<rows, labels, wpc, found, name, shown, late>>, torn \subseteq torn',
             \A d \in Deleters : dpc'[d] = "commit" =>
                dpc[d] = "commit" /\ target'[d] = target[d] /\ tagged'[d] = tagged[d]
      PROVE NamesFollow'
  BY <1>0, <1>1
<1>2. ASSUME NEW e \in Enrolments,
             Check(e) \/ ReadUpload(e) \/ SavePhoto(e) \/ SaveEmbedding(e)
      PROVE NamesFollow'
  <2>1. UNCHANGED <<rows, dpc, target, tagged, labels, wpc, found, name, shown, torn, late>>
    BY <1>2, Prepared
  <2> QED BY <1>1, <2>1
<1>3. ASSUME NEW e \in Enrolments, Replace(e) \/ Add(e) \/ MaybeSave(e) PROVE NamesFollow'
  <2>1. UNCHANGED <<rows, dpc, target, tagged, labels, wpc, found, name, shown, torn, late>>
    BY <1>a, <1>3, Replaced, Added, Saved
  <2> QED BY <1>1, <2>1
<1>4. ASSUME NEW e \in Enrolments, InsertPerson(e) PROVE NamesFollow'
  <2>1. UNCHANGED <<dpc, target, tagged, labels, wpc, found, name, shown>>
    BY <1>a, <1>4, Inserted
  <2>2. ASSUME NEW i \in PersonIds, rows[i] = Nobody, rows' = [rows EXCEPT ![i] = e],
               torn' = IF InUse(i) THEN torn \cup {e} ELSE torn,
               late' = IF wpc = "lookup" /\ found[1] = i THEN late \cup {shown} ELSE late
        PROVE NamesFollow'
    <3>1. /\ torn \subseteq torn' /\ late \subseteq late'
          /\ wpc = "lookup" /\ found[1] = i => shown \in late'
          /\ \A j \in PersonIds : rows'[j] = IF j = i THEN e ELSE rows[j]
      BY <1>0, <2>2
    <3>2. wpc # "search" => found[1] \in PersonIds
      BY <1>0
    <3>3. wpc = "lookup" =>
            \/ rows'[found[1]] \in {found[2], Nobody} \cup torn'
            \/ found[2] \in torn' \/ shown \in late'
      BY <1>0, <3>1, <3>2
    <3>4. wpc = "insert" =>
            /\ name \in {found[2], Nobody} \cup torn' \/ found[2] \in torn' \/ shown \in late'
            /\ name \in {Nobody, rows'[found[1]]} \/ shown \in late'
      BY <1>0, <2>2, <3>1, <3>2
    <3>5. \A d \in Deleters, f \in Faces :
            dpc[d] = "commit" /\ labels[f].id = target[d][1] /\ labels[f].name # Nobody
               => f \in tagged[d] \cup late'
      BY <1>0, <3>1
    <3> QED BY <2>1, <3>3, <3>4, <3>5
  <2>3. CASE UNCHANGED <<rows, torn, late>>
    BY <1>1, <2>1, <2>3
  <2> QED BY <1>a, <1>4, Inserted, <2>2, <2>3
<1>5. ASSUME NEW d \in Deleters, ReadPerson(d) PROVE NamesFollow'
  <2>1. /\ UNCHANGED <<rows, labels, wpc, found, name, shown, late>>
        /\ dpc' = [dpc EXCEPT ![d] = "commit"]
    BY <1>5, Chosen
  <2>2. PICK i \in PersonIds :
          /\ target' = [target EXCEPT ![d] = <<i, rows[i]>>]
          /\ tagged' = [tagged EXCEPT ![d] = {f \in Faces : labels[f].id = i}]
          /\ torn \subseteq torn'
    BY <1>5, Chosen
  <2>3. \A c \in Deleters, f \in Faces :
          dpc'[c] = "commit" /\ labels[f].id = target'[c][1] /\ labels[f].name # Nobody
             => f \in tagged'[c] \cup late
    BY <1>0, <2>1, <2>2
  <2> QED BY <1>0, <2>1, <2>2, <2>3
<1>6. ASSUME NEW d \in Deleters, CommitDelete(d) PROVE NamesFollow'
  <2>1. /\ UNCHANGED <<wpc, found, name, shown, torn>>
        /\ tagged' = [tagged EXCEPT ![d] = {}] /\ dpc[d] = "commit"
    BY <1>6, Committed
  <2>2. CASE /\ dpc' = [dpc EXCEPT ![d] = "evict"] /\ target' = target
             /\ rows' = [rows EXCEPT ![target[d][1]] = Nobody]
             /\ ClearLabels(d)
             /\ late' = IF wpc = "insert" /\ found[1] = target[d][1]
                        THEN late \cup {shown} ELSE late
    <3>1. \A f \in Faces : labels'[f] = labels[f] \/ labels'[f] = NoLabel
      BY <2>2 DEF ClearLabels
    <3>2. NoLabel.name = Nobody
      BY DEF NoLabel
    <3>3. /\ late \subseteq late'
          /\ wpc = "insert" /\ found[1] = target[d][1] => shown \in late'
          /\ \A j \in PersonIds : rows'[j] = IF j = target[d][1] THEN Nobody ELSE rows[j]
      BY <1>0, <2>1, <2>2
    <3>4. wpc # "search" => found[1] \in PersonIds
      BY <1>0
    <3>5. wpc = "lookup" =>
            \/ rows'[found[1]] \in {found[2], Nobody} \cup torn
            \/ found[2] \in torn \/ shown \in late'
      BY <1>0, <3>3, <3>4
    <3>6. wpc = "insert" =>
            /\ name \in {found[2], Nobody} \cup torn \/ found[2] \in torn \/ shown \in late'
            /\ name \in {Nobody, rows'[found[1]]} \/ shown \in late'
      BY <1>0, <3>3, <3>4
    <3>7. \A c \in Deleters, f \in Faces :
            dpc'[c] = "commit" /\ labels'[f].id = target'[c][1] /\ labels'[f].name # Nobody
               => f \in tagged'[c] \cup late'
      BY <1>0, <2>1, <2>2, <3>1, <3>2, <3>3
    <3> QED BY <2>1, <3>5, <3>6, <3>7
  <2>3. CASE /\ dpc' = [dpc EXCEPT ![d] = "idle"]
             /\ target' = [target EXCEPT ![d] = <<0, Nobody>>]
             /\ UNCHANGED <<rows, labels, late>>
    BY <1>0, <1>1, <2>1, <2>3
  <2> QED BY <1>6, Committed, <2>2, <2>3
<1>7. ASSUME NEW d \in Deleters, Evict(d) \/ UnlinkFiles(d) \/ UnlinkFails(d) PROVE NamesFollow'
  <2>1. /\ UNCHANGED <<rows, labels, wpc, found, name, shown, torn, late>>
        /\ \A c \in Deleters : dpc'[c] = "commit" =>
              dpc[c] = "commit" /\ target'[c] = target[c] /\ tagged'[c] = tagged[c]
    <3>1. CASE Evict(d)
      BY <1>0, <3>1, Evicted
    <3>2. CASE UnlinkFiles(d) \/ UnlinkFails(d)
      BY <1>0, <3>2, Unlinked
    <3> QED BY <1>7, <3>1, <3>2
  <2> QED BY <1>1, <2>1
<1>8. CASE Recognize
  <2>1. UNCHANGED <<rows, dpc, target, tagged, labels, torn, late>> /\ wpc' = "lookup"
    BY <1>8 DEF Recognize, deletion, history
  <2>2. PICK v \in index : found' = v
    BY <1>8 DEF Recognize
  <2>3. rows[v[1]] \in {v[2], Nobody} \cup torn \/ v[2] \in torn
    <3>1. ASSUME Doomed(v) PROVE rows[v[1]] \in {Nobody} \cup torn
      BY <1>a, <3>1 DEF OwnRows, Doomed
    <3>2. rows[v[1]] = v[2] \/ v[2] \in torn \/ Doomed(v)
      BY <1>a DEF IndexFollows, Vectors
    <3> QED BY <3>1, <3>2
  <2> QED BY <1>0, <2>1, <2>2, <2>3
<1>9. CASE GetPerson
  <2>1. /\ UNCHANGED <<rows, dpc, target, tagged, labels, found, shown, torn, late>>
        /\ wpc = "lookup" /\ wpc' = "insert" /\ name' = rows[found[1]]
    BY <1>9 DEF GetPerson, deletion, history
  <2> QED BY <1>0, <2>1
<1>10. CASE InsertFace
  <2>1. UNCHANGED <<rows, dpc, target, tagged, shown, torn>> /\ wpc = "insert" /\ wpc' = "search"
    BY <1>10 DEF InsertFace, deletion
  <2>2. \/ /\ labels' = [labels EXCEPT ![shown] =
                            [vector |-> found[2], id |-> found[1], name |-> name]]
           /\ late' = IF \E d \in Deleters : dpc[d] = "commit" /\ target[d][1] = found[1]
                      THEN late \cup {shown} ELSE late
        \/ UNCHANGED <<labels, late>>
    BY <1>10, Zenon DEF InsertFace
  <2> QED BY <1>0, <2>1, <2>2
<1>11. CASE Crash \/ StopAndStart
  <2>1. UNCHANGED labels /\ wpc' = "search" /\ \A d \in Deleters : dpc'[d] = "idle"
    BY <1>a, <1>11, Started
  <2> QED BY <1>0, <2>1
<1>12. CASE UNCHANGED vars
  BY <1>1, <1>12 DEF vars, deletion, worker, history
<1> QED
  BY <1>a, <1>2, <1>3, <1>4, <1>5, <1>6, <1>7, <1>8, <1>9, <1>10, <1>11, <1>12
  DEF Next, Enrol, Delete

LEMMA StepLabelsTrue ==
  Types /\ NamesFollow /\ LabelsTrue /\ [Next]_vars => LabelsTrue'
<1>a. SUFFICES ASSUME Types, NamesFollow, LabelsTrue, [Next]_vars
               PROVE  LabelsTrue'
  OBVIOUS
<1> USE DEF LabelsTrue
<1>0. /\ rows \in [PersonIds -> Enrolments \cup {Nobody}]
      /\ target \in [Deleters -> (PersonIds \X Enrolments) \cup {<<0, Nobody>>}]
      /\ \A d \in Deleters : dpc[d] # "idle" => target[d] \in PersonIds \X Enrolments
      /\ labels \in [Faces -> Label \cup {NoLabel}]
      /\ wpc # "search" => found \in PersonIds \X Enrolments /\ shown \in Faces
      /\ LabelsTrue /\ Nobody \notin Enrolments
      /\ \A f \in Faces : labels[f].name # Nobody => labels[f].id \in PersonIds
  BY <1>a, NobodyElse DEF Types, TypeOK, Entry, Label, NoLabel
\* A row that is there stays, and nothing is labelled.
<1>1. ASSUME UNCHANGED labels, torn \subseteq torn', late \subseteq late',
             \A i \in PersonIds : rows[i] # Nobody => rows'[i] = rows[i]
      PROVE LabelsTrue'
  BY <1>0, <1>1
<1>2. ASSUME NEW e \in Enrolments,
             Check(e) \/ ReadUpload(e) \/ SavePhoto(e) \/ SaveEmbedding(e)
      PROVE LabelsTrue'
  BY <1>1, <1>2, Prepared
<1>3. ASSUME NEW e \in Enrolments, InsertPerson(e) PROVE LabelsTrue'
  <2>1. UNCHANGED labels
    BY <1>a, <1>3, Inserted
  <2>2. ASSUME NEW i \in PersonIds, rows[i] = Nobody, rows' = [rows EXCEPT ![i] = e],
               torn \subseteq torn', late \subseteq late'
        PROVE LabelsTrue'
    <3>1. \A j \in PersonIds : rows[j] # Nobody => rows'[j] = rows[j]
      BY <1>0, <2>2
    <3> QED BY <1>1, <2>1, <2>2, <3>1
  <2>3. CASE UNCHANGED <<rows, torn, late>>
    BY <1>1, <2>1, <2>3
  <2> QED BY <1>a, <1>3, Inserted, <2>2, <2>3
<1>4. ASSUME NEW e \in Enrolments, Replace(e) \/ Add(e) \/ MaybeSave(e) PROVE LabelsTrue'
  <2>1. UNCHANGED <<rows, labels, torn, late>>
    BY <1>a, <1>4, Replaced, Added, Saved
  <2> QED BY <1>1, <2>1
<1>5. ASSUME NEW d \in Deleters, ReadPerson(d) PROVE LabelsTrue'
  <2>1. UNCHANGED <<rows, labels, late>> /\ torn \subseteq torn'
    BY <1>5, Chosen
  <2> QED BY <1>1, <2>1
<1>6. ASSUME NEW d \in Deleters, CommitDelete(d) PROVE LabelsTrue'
  <2>1. UNCHANGED torn /\ dpc[d] = "commit"
    BY <1>6, Committed
  <2>2. CASE /\ rows' = [rows EXCEPT ![target[d][1]] = Nobody]
             /\ ClearLabels(d) /\ late \subseteq late'
    <3>1. \A f \in Faces : labels'[f] = IF f \in tagged[d] THEN NoLabel ELSE labels[f]
      BY <2>2 DEF ClearLabels
    <3>2. NoLabel.name = Nobody
      BY DEF NoLabel
    <3>3. \A f \in Faces \ late : labels[f].name # Nobody /\ labels[f].id = target[d][1]
                                     => f \in tagged[d]
      BY <1>a, <2>1 DEF NamesFollow
    <3>4. \A j \in PersonIds : j # target[d][1] => rows'[j] = rows[j]
      BY <1>0, <2>2
    <3> QED BY <1>0, <2>1, <2>2, <3>1, <3>2, <3>3, <3>4
  <2>3. CASE UNCHANGED <<rows, labels, late>>
    BY <1>1, <2>1, <2>3
  <2>4. late \subseteq late' \/ UNCHANGED <<rows, labels, late>>
    BY <1>6, Committed
  <2> QED BY <1>6, Committed, <2>2, <2>3, <2>4
<1>7. ASSUME NEW d \in Deleters, Evict(d) \/ UnlinkFiles(d) \/ UnlinkFails(d) PROVE LabelsTrue'
  <2>1. UNCHANGED <<rows, labels, torn, late>>
    BY <1>7, Evicted, Unlinked
  <2> QED BY <1>1, <2>1
<1>8. CASE Recognize \/ GetPerson \/ UNCHANGED vars
  <2>1. UNCHANGED <<rows, labels, torn, late>>
    BY <1>8 DEF Recognize, GetPerson, vars, history
  <2> QED BY <1>1, <2>1
<1>9. CASE InsertFace
  <2>1. UNCHANGED <<rows, torn>> /\ wpc = "insert"
    BY <1>9 DEF InsertFace
  <2>2. CASE /\ labels' = [labels EXCEPT ![shown] =
                              [vector |-> found[2], id |-> found[1], name |-> name]]
             /\ late \subseteq late'
    <3>1. \/ shown \in late
          \/ /\ name \in {found[2], Nobody} \cup torn \/ found[2] \in torn
             /\ name \in {Nobody, rows[found[1]]}
      BY <1>a, <2>1 DEF NamesFollow
    <3>2. \A f \in Faces : f # shown => labels'[f] = labels[f]
      BY <1>0, <2>2
    <3>3. labels'[shown] = [vector |-> found[2], id |-> found[1], name |-> name]
      BY <1>0, <2>1, <2>2
    <3> QED BY <1>0, <2>1, <2>2, <3>1, <3>2, <3>3
  <2>3. CASE UNCHANGED <<labels, late>>
    BY <1>0, <2>1, <2>3
  <2>4. \/ /\ labels' = [labels EXCEPT ![shown] =
                            [vector |-> found[2], id |-> found[1], name |-> name]]
           /\ late' = late \/ late' = late \cup {shown}
        \/ UNCHANGED <<labels, late>>
    BY <1>9, Zenon DEF InsertFace
  <2> QED BY <2>2, <2>3, <2>4
<1>10. CASE Crash \/ StopAndStart
  <2>1. UNCHANGED <<rows, labels, late>> /\ torn \subseteq torn'
    BY <1>a, <1>10, Started
  <2> QED BY <1>1, <2>1
<1> QED
  BY <1>a, <1>2, <1>3, <1>4, <1>5, <1>6, <1>7, <1>8, <1>9, <1>10
  DEF Next, Enrol, Delete

---------------------------------------------------------------------------
(* Files *)

LEMMA StepFilesKept == Types /\ OwnRows /\ FilesKept /\ [Next]_vars => FilesKept'
<1>a. SUFFICES ASSUME Types, OwnRows, FilesKept, [Next]_vars PROVE FilesKept'
  OBVIOUS
<1> USE DEF FilesKept, Goto
<1>0. /\ rows \in [PersonIds -> Enrolments \cup {Nobody}]
      /\ files \subseteq Enrolments \X {"photo", "npy"}
      /\ epc \in [Enrolments -> {"new", "upload", "refused", "failed", "done"} \cup Holding]
      /\ dpc \in [Deleters -> {"idle", "commit", "evict", "unlink"}]
      /\ target \in [Deleters -> (PersonIds \X Enrolments) \cup {<<0, Nobody>>}]
      /\ \A d \in Deleters : dpc[d] # "idle" => target[d] \in PersonIds \X Enrolments
      /\ FilesKept /\ Nobody \notin Enrolments
  BY <1>a, NobodyElse DEF Types, TypeOK, Entry
\* No file comes, no row goes, no request that knows of a file ends.
<1>1. ASSUME files' \subseteq files, littered \subseteq littered', torn \subseteq torn',
             \A i \in PersonIds : rows[i] # Nobody => rows'[i] = rows[i],
             \A e \in Enrolments : epc[e] \in {"embedding", "insert"} => epc'[e] = epc[e],
             \A d \in Deleters : dpc[d] \in {"evict", "unlink"} =>
                dpc'[d] \in {"evict", "unlink"} /\ target'[d] = target[d]
      PROVE FilesKept'
  BY <1>0, <1>1
<1>2. ASSUME NEW e \in Enrolments, Check(e) \/ ReadUpload(e) PROVE FilesKept'
  <2>1. /\ UNCHANGED <<rows, files, dpc, target, torn, littered>>
        /\ epc[e] \in {"new", "upload"} /\ \E g : epc' = [epc EXCEPT ![e] = g]
    BY <1>2 DEF Check, ReadUpload, deletion, history
  <2> QED BY <1>0, <1>1, <2>1
<1>3. ASSUME NEW e \in Enrolments, SavePhoto(e) \/ SaveEmbedding(e) PROVE FilesKept'
  <2>1. /\ UNCHANGED <<rows, dpc, target, torn>>
        /\ files' \subseteq files \cup {<<e, "photo">>, <<e, "npy">>}
        /\ \/ /\ \E g \in {"embedding", "insert"} : epc' = [epc EXCEPT ![e] = g]
              /\ littered' = littered
           \/ littered' = littered \cup {e} /\ epc' = [epc EXCEPT ![e] = "failed"]
    BY <1>3 DEF SavePhoto, SaveEmbedding, Fail, deletion, history
  <2>2. \A x \in files' : x \in files \/ x[1] = e
    BY <2>1
  <2>3. \A g \in Enrolments \ {e} : epc'[g] = epc[g]
    BY <1>0, <2>1
  <2>4. epc'[e] \in {"embedding", "insert"} \/ e \in littered'
    BY <1>0, <2>1
  <2> QED BY <1>0, <2>1, <2>2, <2>3, <2>4
<1>4. ASSUME NEW e \in Enrolments, InsertPerson(e) PROVE FilesKept'
  <2>1. UNCHANGED <<files, dpc, target>> /\ epc[e] = "insert"
    BY <1>a, <1>4, Inserted
  <2>2. ASSUME NEW i \in PersonIds, rows[i] = Nobody, rows' = [rows EXCEPT ![i] = e],
               epc' = [epc EXCEPT ![e] = "replace"], torn \subseteq torn', littered' = littered
        PROVE FilesKept'
    <3>1. rows'[i] = e /\ \A j \in PersonIds : rows[j] # Nobody => rows'[j] = rows[j]
      BY <1>0, <2>2
    <3> QED BY <1>0, <2>1, <2>2, <3>1
  <2>3. CASE /\ UNCHANGED <<rows, torn>> /\ epc' = [epc EXCEPT ![e] = "failed"]
             /\ littered' = littered \cup {e}
    BY <1>0, <2>1, <2>3
  <2> QED BY <1>a, <1>4, Inserted, <2>2, <2>3
<1>5. ASSUME NEW e \in Enrolments, Replace(e) \/ Add(e) \/ MaybeSave(e) PROVE FilesKept'
  <2>1. /\ UNCHANGED <<rows, files, dpc, target, torn, littered>>
        /\ epc[e] \in {"replace", "add", "save"} /\ \E g : epc' = [epc EXCEPT ![e] = g]
    BY <1>a, <1>5, Replaced, Added, Saved
  <2> QED BY <1>0, <1>1, <2>1
<1>6. ASSUME NEW d \in Deleters, ReadPerson(d) PROVE FilesKept'
  <2>1. /\ UNCHANGED <<rows, files, epc, littered>> /\ torn \subseteq torn' /\ dpc[d] = "idle"
        /\ \A c \in Deleters : c # d => dpc'[c] = dpc[c] /\ target'[c] = target[c]
    BY <1>0, <1>6, Chosen
  <2> QED BY <1>0, <1>1, <2>1
<1>7. ASSUME NEW d \in Deleters, CommitDelete(d) PROVE FilesKept'
  <2>1. UNCHANGED <<files, epc, torn, littered>> /\ dpc[d] = "commit"
    BY <1>7, Committed
  <2>2. CASE /\ dpc' = [dpc EXCEPT ![d] = "evict"] /\ target' = target
             /\ rows' = [rows EXCEPT ![target[d][1]] = Nobody]
    <3>1. rows[target[d][1]] \in {target[d][2], Nobody} \cup torn
      BY <1>a, <2>1 DEF OwnRows
    <3>2. \A j \in PersonIds : j # target[d][1] => rows'[j] = rows[j]
      BY <1>0, <2>2
    <3> QED BY <1>0, <2>1, <2>2, <3>1, <3>2
  <2>3. CASE /\ dpc' = [dpc EXCEPT ![d] = "idle"]
             /\ target' = [target EXCEPT ![d] = <<0, Nobody>>]
             /\ UNCHANGED rows
    BY <1>0, <1>1, <2>1, <2>3
  <2> QED BY <1>7, Committed, <2>2, <2>3
<1>8. ASSUME NEW d \in Deleters, Evict(d) PROVE FilesKept'
  <2>1. /\ UNCHANGED <<rows, files, epc, target, torn, littered>>
        /\ dpc' = [dpc EXCEPT ![d] = "unlink"]
    BY <1>8, Evicted
  <2> QED BY <1>0, <1>1, <2>1
<1>9. ASSUME NEW d \in Deleters, UnlinkFiles(d) \/ UnlinkFails(d) PROVE FilesKept'
  <2>1. /\ UNCHANGED <<rows, epc, torn>>
        /\ \A c \in Deleters : c # d => dpc'[c] = dpc[c] /\ target'[c] = target[c]
    BY <1>0, <1>9, Unlinked
  <2>2. /\ files' \subseteq files /\ littered \subseteq littered'
        /\ \A x \in files' : x[1] # target[d][2] \/ target[d][2] \in littered'
    BY <1>0, <1>9 DEF UnlinkFiles, UnlinkFails, FilesOf, history
  <2> QED BY <1>0, <2>1, <2>2
<1>10. CASE Recognize \/ GetPerson \/ InsertFace \/ UNCHANGED vars
  <2>1. UNCHANGED <<rows, files, epc, dpc, target, torn, littered>>
    BY <1>10, Labelled
  <2> QED BY <1>1, <2>1
<1>11. CASE Crash \/ StopAndStart
  <2>1. UNCHANGED <<rows, files>> /\ torn \subseteq torn'
    BY <1>a, <1>11, Started
  <2>2. CASE Crash
    <3>1. /\ littered \subseteq littered'
          /\ \A e \in Enrolments : epc[e] \in {"embedding", "insert"} => e \in littered'
          /\ \A d \in Deleters : dpc[d] \in {"evict", "unlink"} => target[d][2] \in littered'
      BY <2>2 DEF Crash
    <3> QED BY <1>0, <2>1, <3>1
  <2>3. CASE StopAndStart
    <3>1. /\ littered' = littered
          /\ \A e \in Enrolments : epc[e] \notin {"embedding", "insert"}
          /\ \A d \in Deleters : dpc[d] \notin {"evict", "unlink"}
      BY <2>3 DEF StopAndStart, LoopFree, Holding
    <3> QED BY <1>0, <2>1, <3>1
  <2> QED BY <1>11, <2>2, <2>3
<1> QED
  BY <1>a, <1>2, <1>3, <1>4, <1>5, <1>6, <1>7, <1>8, <1>9, <1>10, <1>11
  DEF Next, Enrol, Delete

---------------------------------------------------------------------------
(* The properties *)

PersonsInv ==
    /\ Types /\ OneEach /\ RowsKept /\ OwnIds /\ OwnRows
    /\ IndexFollows /\ NamesFollow /\ LabelsTrue /\ FilesKept

LEMMA InitInv == Init => PersonsInv
<1> SUFFICES ASSUME Init PROVE PersonsInv
  OBVIOUS
<1>1. OneEach /\ RowsKept /\ OwnIds /\ OwnRows /\ FilesKept
  BY DEF Init, OneEach, RowsKept, OwnIds, OwnRows, FilesKept
<1>2. IndexFollows
  BY DEF Init, IndexFollows, Vectors
<1>3. NamesFollow /\ LabelsTrue
  BY DEF Init, NamesFollow, LabelsTrue, NoLabel
<1> QED BY InitTypes, <1>1, <1>2, <1>3 DEF PersonsInv

LEMMA StepInv == PersonsInv /\ [Next]_vars => PersonsInv'
BY StepTypes, StepOneEach, StepRowsKept, StepOwnIds, StepOwnRows, StepIndexFollows,
   StepNamesFollow, StepLabelsTrue, StepFilesKept DEF PersonsInv

LEMMA Kept == Spec => []PersonsInv
BY InitInv, StepInv, PTL DEF Spec

\* The index holds one embedding per id; a person with a row is in it and nobody
\* else is, also while others overlap, fail or crash.  The exceptions are single
\* persons: those between their row and their vector, those whose id a deletion
\* had in hand while they were enrolled, and those whose vector a start did not
\* find or found without their row (enrollment.py:45-48, persons.py:87-96, 117-120,
\* vector_store.py:36-46).
THEOREM IndexRight == Spec => []IndexAgrees
<1>1. PersonsInv => IndexAgrees
  BY DEF PersonsInv, OneEach, IndexFollows, Vectors, IndexAgrees
<1> QED BY <1>1, Kept, PTL

\* A name on a face is that of the person it was matched with, who is enrolled.
\* The exceptions are single faces: one whose person was deleted, or whose person's
\* id was handed out again, while it was being labelled, and, for the first half,
\* one matched with a vector that had outlived its row or named after a person who
\* was enrolled under an id a deletion had in hand (workers.py:297-324,
\* repository.py:166-177).
THEOREM NamesRight == Spec => []LabelsTrue
<1>1. PersonsInv => LabelsTrue
  BY DEF PersonsInv
<1> QED BY <1>1, Kept, PTL

\* The embedding of a person with a row is on disk; a file has a row, or the
\* request that is to write or to remove that row is under way, or it is one of
\* a failed enrolment, of a failed or interrupted deletion, or of a person whose
\* id a deletion had in hand (persons.py:82-93, 118-122).
THEOREM FilesRight == Spec => []FilesFollowRows
<1>1. PersonsInv => FilesFollowRows
  BY DEF PersonsInv, RowsKept, FilesKept, FilesFollowRows
<1> QED BY <1>1, Kept, PTL

---------------------------------------------------------------------------
(* The persons form a gallery *)

LEMMA GalleryStays ==
    ASSUME UNCHANGED <<OnTheWay, KnownFrom(index), KnownFrom(disk), Named, starts>>
    PROVE  [People!Next]_People!vars
BY DEF People!vars

\* Marks on persons who have no row change nothing.
LEMMA KnownStays ==
    ASSUME rows' = rows, torn \subseteq torn', NEW file, NEW next, next = file,
           \A e \in torn' \ torn : \A i \in PersonIds : rows[i] = e => <<i, e>> \notin file
    PROVE  {e \in Enrolments \ torn' : \E i \in PersonIds : rows'[i] = e /\ <<i, e>> \in next}
         = {e \in Enrolments \ torn : \E i \in PersonIds : rows[i] = e /\ <<i, e>> \in file}
OBVIOUS

LEMMA BothStay ==
    ASSUME UNCHANGED <<rows, index, disk>>, torn \subseteq torn',
           \A e \in torn' \ torn : \A i \in PersonIds :
               rows[i] = e => <<i, e>> \notin index \cup disk
    PROVE  UNCHANGED <<KnownFrom(index), KnownFrom(disk)>>
BY KnownStays DEF KnownFrom

LEMMA NamedStays == UNCHANGED <<dpc, target>> => Named' = Named
BY DEF Named

\* A deletion goes on that names nobody any more.
LEMMA NamedElsewhere ==
    ASSUME NEW d \in Deleters, dpc[d] # "commit", dpc'[d] # "commit",
           \A c \in Deleters \ {d} : dpc'[c] = dpc[c] /\ target'[c] = target[c]
    PROVE  Named' = Named
<1>1. \A c \in Deleters :
          (IF dpc'[c] = "commit" THEN {target'[c][2]} ELSE {})
        = (IF dpc[c] = "commit" THEN {target[c][2]} ELSE {})
  OBVIOUS
<1> QED BY <1>1 DEF Named

\* One enrolment goes on, is refused, fails or gets an id that is in use.
LEMMA EnrolmentShows ==
    ASSUME Types, NEW e \in Enrolments,
           UNCHANGED <<KnownFrom(index), KnownFrom(disk), Named, starts>>,
           OnTheWay' \in {OnTheWay, OnTheWay \ {e}}
    PROVE  [People!Next]_People!vars
<1>1. CASE OnTheWay' = OnTheWay
  BY <1>1, GalleryStays
<1>2. CASE OnTheWay' = OnTheWay \ {e} /\ e \in OnTheWay
  BY <1>2 DEF People!Next, People!Fail
<1>3. CASE OnTheWay' = OnTheWay \ {e} /\ e \notin OnTheWay
  <2>1. OnTheWay' = OnTheWay
    BY <1>3
  <2> QED BY <2>1, GalleryStays
<1> QED BY <1>1, <1>2, <1>3

\* The new row has no vector yet.
LEMMA InsertShows ==
    ASSUME PersonsInv, NEW e \in Enrolments, InsertPerson(e)
    PROVE  [People!Next]_People!vars
<1> USE NobodyElse
<1>1. /\ UNCHANGED <<index, disk, dpc, target, starts>> /\ epc[e] = "insert"
      /\ rows \in [PersonIds -> Enrolments \cup {Nobody}]
      /\ epc \in [Enrolments -> {"new", "upload", "refused", "failed", "done"} \cup Holding]
      /\ Types
  BY Inserted DEF PersonsInv, Types, TypeOK
<1>2. /\ \A v \in index \cup disk : v[2] # e
      /\ \A i \in PersonIds : rows[i] # e
  BY <1>1 DEF PersonsInv, OwnIds, RowsKept, Past
<1>3. CASE UNCHANGED <<rows, torn>> /\ epc' = [epc EXCEPT ![e] = "failed"]
  <2>1. OnTheWay' = OnTheWay \ {e}
    BY <1>1, <1>3 DEF OnTheWay, Holding
  <2>2. UNCHANGED <<KnownFrom(index), KnownFrom(disk), Named>>
    BY <1>1, <1>3, BothStay, NamedStays
  <2> QED BY <1>1, <2>1, <2>2, EnrolmentShows
<1>4. ASSUME NEW i \in PersonIds, rows[i] = Nobody, rows' = [rows EXCEPT ![i] = e],
             epc' = [epc EXCEPT ![e] = "replace"], torn' \in {torn, torn \cup {e}}
      PROVE  [People!Next]_People!vars
  <2>1. \A j \in PersonIds : rows'[j] = IF j = i THEN e ELSE rows[j]
    BY <1>1, <1>4
  <2>2. ASSUME NEW file, file \subseteq index \cup disk
        PROVE  {g \in Enrolments \ torn' : \E j \in PersonIds : rows'[j] = g /\ <<j, g>> \in file}
             = {g \in Enrolments \ torn : \E j \in PersonIds : rows[j] = g /\ <<j, g>> \in file}
    <3>1. \A g \in Enrolments : <<i, g>> \in file => g # e
      BY <1>2, <2>2
    <3>2. \A g \in torn' \ torn : g = e
      BY <1>4
    <3> QED BY <1>2, <1>4, <2>1, <3>1, <3>2
  <2>3. UNCHANGED <<KnownFrom(index), KnownFrom(disk), Named>>
    <3>1. KnownFrom(index)' = KnownFrom(index)
      BY <1>1, <2>2 DEF KnownFrom
    <3>2. KnownFrom(disk)' = KnownFrom(disk)
      BY <1>1, <2>2 DEF KnownFrom
    <3> QED BY <1>1, <3>1, <3>2, NamedStays
  <2>4. OnTheWay' \in {OnTheWay, OnTheWay \ {e}}
    <3>1. \A g \in Enrolments : epc'[g] = IF g = e THEN "replace" ELSE epc[g]
      BY <1>1, <1>4
    <3>2. CASE torn' = torn
      <4>1. OnTheWay' = OnTheWay
        BY <1>1, <3>1, <3>2 DEF OnTheWay, Holding
      <4> QED BY <4>1
    <3>3. CASE torn' = torn \cup {e}
      <4>1. OnTheWay' = OnTheWay \ {e}
        BY <1>1, <3>1, <3>3 DEF OnTheWay, Holding
      <4> QED BY <4>1
    <3> QED BY <1>4, <3>2, <3>3
  <2> QED BY <1>1, <2>3, <2>4, EnrolmentShows
<1> QED BY <1>1, <1>3, <1>4, Inserted

LEMMA AddShows ==
    ASSUME PersonsInv, NEW e \in Enrolments, Add(e)
    PROVE  [People!Next]_People!vars
<1>1. /\ UNCHANGED <<rows, disk, dpc, target, torn, starts>>
      /\ index' = index \cup {<<given, e>>}
      /\ epc[e] = "add" /\ epc' = [epc EXCEPT ![e] = "save"]
  BY Added
<1>2. epc \in [Enrolments -> {"new", "upload", "refused", "failed", "done"} \cup Holding]
  BY DEF PersonsInv, Types, TypeOK
<1>3. KnownFrom(disk)' = KnownFrom(disk) /\ Named' = Named
  BY <1>1, NamedStays DEF KnownFrom
<1>4. OnTheWay' = OnTheWay \ {e}
  BY <1>1, <1>2 DEF OnTheWay, Holding
<1>5. CASE e \in torn
  <2>1. KnownFrom(index)' = KnownFrom(index)
    BY <1>1, <1>5 DEF KnownFrom
  <2> QED BY <1>1, <1>3, <1>4, <2>1, EnrolmentShows DEF PersonsInv
<1>6. CASE e \notin torn
  <2>1. rows[given] = e /\ given \in PersonIds
    BY <1>1, <1>6 DEF PersonsInv, OwnRows, Types, OneHolds
  <2>2. KnownFrom(index)' = KnownFrom(index) \cup {e}
    BY <1>1, <1>6, <2>1 DEF KnownFrom
  <2>3. e \in OnTheWay
    BY <1>1, <1>6 DEF OnTheWay, Holding
  <2> QED BY <1>1, <1>3, <1>4, <2>2, <2>3 DEF People!Next, People!Appear
<1> QED BY <1>5, <1>6

LEMMA EnrolShows ==
    ASSUME PersonsInv, NEW e \in Enrolments, Enrol(e)
    PROVE  [People!Next]_People!vars
<1>0. /\ epc \in [Enrolments -> {"new", "upload", "refused", "failed", "done"} \cup Holding]
      /\ Types
  BY DEF PersonsInv, Types, TypeOK
<1>1. CASE Check(e) \/ ReadUpload(e) \/ SavePhoto(e) \/ SaveEmbedding(e)
  <2>1. UNCHANGED <<rows, index, disk, dpc, target, torn, starts>>
    BY <1>1, Prepared
  <2>2. \A g \in Enrolments \ {e} : epc'[g] = epc[g]
    BY <1>0, <1>1, Prepared DEF Goto
  <2>3. epc[e] \in {"new", "upload"} \cup (Holding \ {"save"})
    BY <1>1, Prepared DEF Holding
  <2>4. OnTheWay' \in {OnTheWay, OnTheWay \ {e}}
    <3>1. CASE epc'[e] \in {"new", "upload"} \cup (Holding \ {"save"})
      <4>1. OnTheWay' = OnTheWay
        BY <2>1, <2>2, <2>3, <3>1 DEF OnTheWay
      <4> QED BY <4>1
    <3>2. CASE epc'[e] \notin {"new", "upload"} \cup (Holding \ {"save"})
      <4>1. OnTheWay' = OnTheWay \ {e}
        BY <2>1, <2>2, <2>3, <3>2 DEF OnTheWay
      <4> QED BY <4>1
    <3> QED BY <3>1, <3>2
  <2>5. UNCHANGED <<KnownFrom(index), KnownFrom(disk), Named>>
    BY <2>1, BothStay, NamedStays
  <2> QED BY <1>0, <2>1, <2>4, <2>5, EnrolmentShows
<1>2. CASE Replace(e)
  <2>1. /\ UNCHANGED <<rows, disk, dpc, target, torn, starts>>
        /\ index' = {v \in index : v[1] # given}
        /\ epc[e] = "replace" /\ epc' = [epc EXCEPT ![e] = "add"]
    BY <1>2, Replaced
  <2>2. \A v \in index : v[2] # e
    BY <2>1 DEF PersonsInv, OwnIds
  <2>3. rows[given] \in {e, Nobody}
    BY <2>1 DEF PersonsInv, OwnRows
  <2>4. \A g \in Enrolments : rows[given] = g => <<given, g>> \notin index
    BY <2>2, <2>3, NobodyElse
  <2>5. KnownFrom(index)' = KnownFrom(index)
    BY <2>1, <2>4 DEF KnownFrom
  <2>6. KnownFrom(disk)' = KnownFrom(disk) /\ Named' = Named
    BY <2>1, NamedStays DEF KnownFrom
  <2>7. OnTheWay' = OnTheWay
    BY <1>0, <2>1 DEF OnTheWay, Holding
  <2> QED BY <2>1, <2>5, <2>6, <2>7, GalleryStays
<1>3. CASE MaybeSave(e)
  <2>1. /\ UNCHANGED <<rows, index, dpc, target, torn, starts>> /\ disk' \in {index, disk}
        /\ epc[e] = "save" /\ epc' = [epc EXCEPT ![e] = "done"]
    BY <1>0, <1>3, Saved
  <2>2. OnTheWay' = OnTheWay
    BY <1>0, <2>1 DEF OnTheWay, Holding
  <2>3. KnownFrom(index)' = KnownFrom(index) /\ Named' = Named
    BY <2>1, NamedStays DEF KnownFrom
  <2>4. CASE disk' = disk
    <3>1. KnownFrom(disk)' = KnownFrom(disk)
      BY <2>1, <2>4 DEF KnownFrom
    <3> QED BY <2>1, <2>2, <2>3, <3>1, GalleryStays
  <2>5. CASE disk' = index
    <3>1. KnownFrom(disk)' = KnownFrom(index)
      BY <2>1, <2>5 DEF KnownFrom
    <3> QED BY <2>1, <2>2, <2>3, <3>1 DEF People!Next, People!Keep
  <2> QED BY <2>1, <2>4, <2>5
<1> QED BY <1>1, <1>2, <1>3, InsertShows, AddShows DEF Enrol

\* Who is named before the vector is there does not come into sight any more.
LEMMA ReadShows ==
    ASSUME PersonsInv, NEW d \in Deleters, ReadPerson(d)
    PROVE  [People!Next]_People!vars
<1>0. /\ rows \in [PersonIds -> Enrolments \cup {Nobody}]
      /\ dpc \in [Deleters -> {"idle", "commit", "evict", "unlink"}]
      /\ target \in [Deleters -> Entry \cup {<<0, Nobody>>}]
      /\ Nobody \notin Enrolments
  BY NobodyElse DEF PersonsInv, Types, TypeOK
<1>1. PICK i \in PersonIds : /\ rows[i] # Nobody
                             /\ target' = [target EXCEPT ![d] = <<i, rows[i]>>]
                             /\ torn' = torn \cup ({rows[i]} \cap PersonsOf(InFlight))
  BY Chosen
<1>2. /\ UNCHANGED <<rows, index, disk, epc, starts>> /\ dpc[d] = "idle"
      /\ dpc' = [dpc EXCEPT ![d] = "commit"]
  BY Chosen
<1>3. rows[i] \in Enrolments /\ epc[rows[i]] \in Past
  BY <1>0, <1>1 DEF PersonsInv, RowsKept
<1>5. torn' = IF epc[rows[i]] \in {"replace", "add"} THEN torn \cup {rows[i]} ELSE torn
  BY <1>1, <1>3, Flying
<1>6. OnTheWay' = OnTheWay \ {rows[i]}
  BY <1>2, <1>3, <1>5 DEF OnTheWay, Past, Holding
<1>7. UNCHANGED <<KnownFrom(index), KnownFrom(disk)>>
  <2>1. \A e \in torn' \ torn : \A v \in index \cup disk : v[2] # e
    BY <1>3, <1>5 DEF PersonsInv, OwnIds
  <2>2. \A e \in torn' \ torn : \A j \in PersonIds :
            rows[j] = e => <<j, e>> \notin index \cup disk
    BY <2>1
  <2>3. torn \subseteq torn'
    BY <1>5
  <2> QED BY <1>2, <2>2, <2>3, BothStay
<1>8. Named[d] = {} /\ Named' = [Named EXCEPT ![d] = {rows[i]}]
  <2>1. \A c \in Deleters :
            (IF dpc'[c] = "commit" THEN {target'[c][2]} ELSE {})
          = IF c = d THEN {rows[i]} ELSE IF dpc[c] = "commit" THEN {target[c][2]} ELSE {}
    BY <1>0, <1>1, <1>2
  <2> QED BY <1>2, <2>1 DEF Named
<1>9. People!Ask(d, {rows[i]})
  BY <1>2, <1>6, <1>7, <1>8 DEF People!Ask
<1> QED BY <1>3, <1>9 DEF People!Next

\* The transaction makes the person unknown that the deletion named.
LEMMA CommitShows ==
    ASSUME PersonsInv, NEW d \in Deleters, CommitDelete(d)
    PROVE  [People!Next]_People!vars
<1>0. /\ rows \in [PersonIds -> Enrolments \cup {Nobody}]
      /\ dpc \in [Deleters -> {"idle", "commit", "evict", "unlink"}]
      /\ target \in [Deleters -> Entry \cup {<<0, Nobody>>}]
      /\ target[d] \in Entry
      /\ Nobody \notin Enrolments
  BY Committed, NobodyElse DEF PersonsInv, Types, TypeOK
<1>1. UNCHANGED <<index, disk, epc, torn, starts>> /\ dpc[d] = "commit"
  BY Committed
<1>2. OnTheWay' = OnTheWay
  BY <1>1 DEF OnTheWay
<1>3. /\ dpc'[d] # "commit"
      /\ \A c \in Deleters \ {d} : dpc'[c] = dpc[c] /\ target'[c] = target[c]
  BY <1>0, Committed
<1>4. Named' = [Named EXCEPT ![d] = {}]
  <2>1. \A c \in Deleters :
            (IF dpc'[c] = "commit" THEN {target'[c][2]} ELSE {})
          = IF c = d THEN {} ELSE IF dpc[c] = "commit" THEN {target[c][2]} ELSE {}
    BY <1>3
  <2> QED BY <2>1 DEF Named
<1>5. CASE UNCHANGED rows
  <2>1. UNCHANGED <<KnownFrom(index), KnownFrom(disk)>>
    BY <1>1, <1>5, BothStay
  <2> QED BY <1>1, <1>2, <1>4, <2>1 DEF People!Next, People!Withdraw
<1>6. CASE rows' = [rows EXCEPT ![target[d][1]] = Nobody]
  <2>1. PICK i \in PersonIds, p \in Enrolments : target[d] = <<i, p>>
    BY <1>0 DEF Entry
  <2>2. Named[d] = {p}
    BY <1>1, <2>1 DEF Named
  <2>3. rows[i] \in {p, Nobody} \cup torn /\ \A j \in PersonIds : rows[j] = p => j = i
    BY <1>1, <2>1 DEF PersonsInv, OwnRows, RowsKept
  <2>4. \A j \in PersonIds : rows'[j] = IF j = i THEN Nobody ELSE rows[j]
    BY <1>0, <1>6, <2>1
  <2>5. ASSUME NEW file
        PROVE  {g \in Enrolments \ torn : \E j \in PersonIds : rows'[j] = g /\ <<j, g>> \in file}
             = {g \in Enrolments \ torn : \E j \in PersonIds : rows[j] = g /\ <<j, g>> \in file}
               \ {p}
    BY <1>0, <2>3, <2>4
  <2>6. /\ KnownFrom(index)' = KnownFrom(index) \ {p}
        /\ KnownFrom(disk)' = KnownFrom(disk) \ {p}
    BY <1>1, <2>5 DEF KnownFrom
  <2> QED BY <1>1, <1>2, <1>4, <2>2, <2>6 DEF People!Next, People!Remove
<1> QED BY <1>5, <1>6, Committed

LEMMA DeleteShows ==
    ASSUME PersonsInv, NEW d \in Deleters, Delete(d)
    PROVE  [People!Next]_People!vars
<1>0. /\ dpc \in [Deleters -> {"idle", "commit", "evict", "unlink"}]
      /\ target \in [Deleters -> Entry \cup {<<0, Nobody>>}]
  BY DEF PersonsInv, Types, TypeOK
<1>1. CASE Evict(d)
  <2>1. /\ UNCHANGED <<rows, disk, epc, target, torn, starts>> /\ dpc[d] = "evict"
        /\ index' = {v \in index : v[1] # target[d][1]}
        /\ dpc' = [dpc EXCEPT ![d] = "unlink"]
    BY <1>1, Evicted
  <2>2. rows[target[d][1]] \in {Nobody} \cup torn
    BY <2>1 DEF PersonsInv, OwnRows
  <2>3. \A v \in index : v \in index' \/ v[1] = target[d][1]
    BY <2>1
  <2>4. \A g \in Enrolments \ torn, i \in PersonIds :
            rows[i] = g => (<<i, g>> \in index' <=> <<i, g>> \in index)
    <3>1. \A g \in Enrolments \ torn : rows[target[d][1]] # g
      BY <2>2, NobodyElse
    <3> QED BY <2>1, <3>1
  <2>5. KnownFrom(index)' = KnownFrom(index)
    BY <2>1, <2>4 DEF KnownFrom
  <2>6. KnownFrom(disk)' = KnownFrom(disk)
    BY <2>1 DEF KnownFrom
  <2>7. Named' = Named
    BY <1>0, <2>1, NamedElsewhere
  <2>8. OnTheWay' = OnTheWay
    BY <2>1 DEF OnTheWay
  <2> QED BY <2>1, <2>5, <2>6, <2>7, <2>8, GalleryStays
<1>2. CASE UnlinkFiles(d) \/ UnlinkFails(d)
  <2>1. /\ UNCHANGED <<rows, index, disk, epc, torn, starts>> /\ dpc[d] = "unlink"
        /\ dpc' = [dpc EXCEPT ![d] = "idle"]
        /\ target' = [target EXCEPT ![d] = <<0, Nobody>>]
    BY <1>2, Unlinked
  <2>2. Named' = Named
    BY <1>0, <2>1, NamedElsewhere
  <2>3. OnTheWay' = OnTheWay
    BY <2>1 DEF OnTheWay
  <2> QED BY <2>1, <2>2, <2>3, BothStay, GalleryStays
<1> QED BY <1>1, <1>2, ReadShows, CommitShows DEF Delete

\* What a start marks has no row, so it shows what the file holds, or nobody.
LEMMA StartShows ==
    ASSUME PersonsInv, Crash \/ StopAndStart
    PROVE  [People!Next]_People!vars
<1> DEFINE Rows == {rows[i] : i \in PersonIds}
<1>1. /\ UNCHANGED rows /\ \A d \in Deleters : dpc'[d] = "idle"
      /\ disk' \in {index, disk} /\ index' \in {disk', {}}
      /\ \A e \in Enrolments :
            epc'[e] = IF epc[e] \in Holding \cup {"upload"} THEN "failed" ELSE epc[e]
  BY Started DEF PersonsInv
<1>2. starts' = starts + 1
  BY DEF Crash, StopAndStart, Boot
<1>3. torn \subseteq torn' /\ \A e \in torn' \ torn : e \notin Rows
  <2>1. PICK S : torn' = torn \cup (S \ Rows)
    BY Started, Zenon DEF PersonsInv
  <2> HIDE DEF Rows
  <2> QED BY <2>1
<1>4. \A e \in torn' \ torn : \A i \in PersonIds : rows[i] # e
  BY <1>3
<1>5. KnownFrom(disk)' \in {KnownFrom(disk), KnownFrom(index)}
  <2>1. CASE disk' = index
    <3>1. KnownFrom(disk)' = KnownFrom(index)
      BY <1>1, <1>3, <1>4, <2>1, KnownStays DEF KnownFrom
    <3> QED BY <3>1
  <2>2. CASE disk' = disk
    <3>1. KnownFrom(disk)' = KnownFrom(disk)
      BY <1>1, <1>3, <1>4, <2>2 DEF KnownFrom
    <3> QED BY <3>1
  <2> QED BY <1>1, <2>1, <2>2
<1>6. KnownFrom(index)' \in {KnownFrom(disk)', {}}
  <2>1. CASE index' = disk'
    BY <2>1 DEF KnownFrom
  <2>2. CASE index' = {}
    BY <2>2 DEF KnownFrom
  <2> QED BY <1>1, <2>1, <2>2
<1>7. OnTheWay' \subseteq OnTheWay
  BY <1>1, <1>3 DEF OnTheWay, Holding
<1>8. Named' = [d \in Deleters |-> {}]
  BY <1>1 DEF Named
<1> QED BY <1>2, <1>5, <1>6, <1>7, <1>8 DEF People!Next, People!Start

LEMMA NextShows == PersonsInv /\ [Next]_vars => [People!Next]_People!vars
<1> SUFFICES ASSUME PersonsInv, [Next]_vars PROVE [People!Next]_People!vars
  OBVIOUS
<1>1. CASE Recognize \/ GetPerson \/ InsertFace \/ UNCHANGED vars
  <2>1. UNCHANGED <<rows, index, disk, epc, dpc, target, torn, starts>>
    BY <1>1, Labelled
  <2>2. OnTheWay' = OnTheWay
    BY <2>1 DEF OnTheWay
  <2> QED BY <2>1, <2>2, BothStay, NamedStays, GalleryStays
<1> QED BY <1>1, EnrolShows, DeleteShows, StartShows DEF Next

\* Whom the recognition can find, now and after a start, changes as if each person
\* were put into the store and taken out of it in one step, also while requests on
\* other persons overlap or fail; a start shows who was saved last, or nobody
\* (enroll_person, delete_person, VectorStore).
THEOREM PersonsAreGallery == Spec => KeepsGallery
<1>1. Init => People!Init
  <2> SUFFICES ASSUME Init PROVE People!Init
    OBVIOUS
  <2>1. OnTheWay = Enrolments /\ KnownFrom(index) = {} /\ KnownFrom(disk) = {}
    BY DEF Init, OnTheWay, KnownFrom
  <2>2. Named = [d \in Deleters |-> {}]
    BY DEF Init, Named
  <2> QED BY <2>1, <2>2 DEF Init, People!Init
<1>2. PersonsInv /\ [Next]_vars => [People!Next]_People!vars
  BY NextShows
<1> QED BY <1>1, <1>2, Kept, PTL DEF Spec, KeepsGallery, People!Spec
====
