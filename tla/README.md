# A verification of Edge Face Capture

TLA+ models of the face-capture service in this repository: what its threads,
stores and protocols do, checked with TLC on small instances, with theorems
that TLAPS proves for every value of the constants. All paths below are
relative to `src/backend/app/` unless they start with `frontend/`, `docs/` or
`README.md`, which are relative to `src/`.

## 1. The system

A camera delivers frames; faces are detected and tracked; for each tracked
face a picture is captured now and then, embedded into a vector, and stored
as an image, a database row and an entry of a similarity index. A dashboard
lists, searches and deletes captures and manages cameras, zones and persons.

```
CameraReader --frames--> DetectionWorker --captures--> EmbeddingWorker --> StorageWorker
 (1 per camera)  queue    tracker, policy    queue                   queue   files, SQLite, FAISS
                                                                              |
 FastAPI request threads: delete, purge, cameras, persons, zone ------------> same stores
 HealthMonitor, StorageWorker --events--> EventBus --> WebSocket --> dashboard
```

### Inventory

| Component | State | Operations | Talks to | Hard behaviour | Module |
|---|---|---|---|---|---|
| Captured-face store (`pipeline/workers.py` `_persist`, `pipeline/vector_store.py`, `db/repository.py`, `api/faces.py`) | rows, duplicate links, index in memory and on disk, files | persist, delete, purge a window, purge all, flush | storage worker and request threads, no common lock | races between stores, id reuse, a start with a stale or unreadable index, failing writes and unlinks | `FaceStore`, `Gallery`, `FaceStoreProofs` |
| Capture pipeline (`pipeline/workers.py`, `pipeline/orchestrator.py` `start`/`stop`) | two bounded queues, jobs in hand, stop events | offer, embed, persist, staged stop | queues and sentinels | full queues, failing jobs, join timeouts, sentinels overtaking jobs | `CapturePipeline`, `CaptureLog`, `CapturePipelineProofs` |
| Camera reader (`pipeline/camera.py`) | connection, delay, frame number, frame queue | open, wait, read, put with eviction, release, stop | detection worker through the queue | put/evict race, backoff, lost streams, stop in the middle | `CameraReader`, `CameraProofs` |
| Tracker and capture policy (`pipeline/tracker.py`, `pipeline/workers.py` `_process_frame`) | tracks, next id, capture timers | update with a frame, capture, refuse, fail | detector before it, embed queue behind it | long sequences of hits and misses, assignment, timers against refusals | `FaceTracker`, `FaceTrackerProofs` |
| Camera administration (`api/cameras.py`, repository) | camera rows, running pipelines | seed, add, update, delete with faces | face store, restart | deletion against running captures, id reuse | part of `FaceStore` |
| Event bus and WebSocket (`pipeline/events.py`, `api/ws.py`) | subscriber queues | subscribe, publish, offer, send, unsubscribe | worker threads, event loop | subscriber leak, closed loop, stale snapshot | `EventBus`, `EventFeed`, `EventFeedProofs` |
| Dashboard event socket (`frontend/src/lib/useEvents.js`) | shared socket, listeners, timers | ensure, close callback, reconnect | WebSocket | callbacks of an old socket | `EventSocket`, `EventFeed`, `EventFeedProofs` |
| Persons (`api/persons.py`, `pipeline/enrollment.py`) | person rows, person index, photo and embedding files | enrol, delete, recognise | storage worker | check then insert, deletion during recognition, a start before the index is saved or without it | `Persons`, `Gallery`, `PersonsProofs` |
| Capture zone (`pipeline/zone.py`, `api/zone.py`, `pipeline/orchestrator.py:308-342`) | polygon in memory, zone files | set, clear, load, test a box | detection worker, requests | memory against file, half-written file, two-lock read | `CaptureZone`, `CameraProofs` |
| Inference backend and settings (`runtime_settings.py`, `api/settings.py`, `pipeline/orchestrator.py:52-55`, `:188-313`) | saved, requested and running backend, settings file and its temporary copy | set, load, start with fallbacks, show, stop | requests, restart, accelerators | failing and interrupted writes, a file that cannot be read at a start, fallbacks behind the program's back | `RuntimeSettings`, `InferenceBackend`, `InferenceBackendProofs` |
| Detection and decoding (`pipeline/scrfd_decode.py`, `pipeline/hailo_models.py`, `pipeline/hailo_runtime.py`) | none between frames | group tensors, decode, suppress overlaps, scale and clamp | detection worker, requests | index arithmetic of flattened tensors, equal scores, boxes over the frame's edge | `FaceDecode`, `FacePicture`, `FacePictureProofs` |
| Quality gate, cropper geometry (`pipeline/quality.py`, `pipeline/cropper.py`) | none | cut out, evaluate | decoder before it, detection worker | rounding, boundaries, boxes cut before the gate sees them | `FacePicture`, `FacePictureProofs` |
| Live view, MJPEG (`pipeline/live.py`, `api/stream.py`) | last picture | update at a capped rate, read | detection worker, requests | rate cap | not modelled: drawing |
| Statistics, health (`pipeline/stats.py`, `pipeline/health.py`) | counters | record, sample | all | display only | not modelled |
| Search and lists (`api/search.py`, reads of `api/faces.py`) | none | read | face store | read only | not modelled |
| Sessions, schema, configuration, logging, schemas, dashboard pages, scripts | - | - | - | declarations, rendering, installation | not modelled |

### What makes each component correct

* **Face store**: a row never lacks its files; rows and index hold the same
  faces, but for the ones an overlap, a failure or a start befell; a search finds a face from one moment on and
  until the moment its deletion takes place; links do not dangle and point to
  older faces; files do not outlive their rows, unless an exception or a crash left them; requests and captures end.
* **Capture pipeline**: captures are saved at most once and in order; a worker that
  left leaves nothing behind it, and a shutdown without timeouts leaves nobody using what
  it closes; `stop()` returns; every capture ends.
* **Camera reader**: the detector sees the newest frames, in order, once; the
  camera thread is never held up; the reported connection is never more than a step behind the real one; a
  stopped reader ends.
* **Tracker and policy**: a face keeps its id while nothing competes for it; a face is
  carried on by exactly one track; no two tracks have captures under one id; captures of a track are an interval
  apart, and a refused capture does not start the interval.
* **Event bus and socket**: a client gets its events in order, and all of them
  unless its queue was full; a listening page has a socket or is about to open one; it
  handles no event twice.
* **Persons**: one embedding per person; whoever is enrolled can be recognised
  and nobody else; a face carries the name it was matched with, and only while
  that person exists; files live as long as their row. Each time with the exceptions the code
  makes, person by person and face by face.
* **Capture zone**: memory and file agree once edits have ended, and after a
  restart; a face is judged by a zone that was in force.
* **Inference backend and settings**: a start that can read the file asks for the last choice that was
  confirmed; the page shows what the models run on and whether a restart would ask for something else;
  however the Hailo fails, the engine comes up.
* **Decoding**: every confident anchor gives one box in its place with its own key points;
  of overlapping boxes the best is kept; detections lie on the frame where the network saw them.
* **Gate and cropper**: the cut-out holds the face; only faces the network saw whole are
  accepted; a better picture is not refused where a worse one is accepted.

`PROJECT.json` lists the hazards behind these, each at its line, with the
properties that would show it going wrong.

## 2. The modules

`MCx` instantiates `x` for TLC and holds nothing but constants and symmetry;
`xProofs` holds its theorems; those of `CameraReader` and `CaptureZone`, the two
modules of one camera, are together in `CameraProofs`. Operators named like `RemoveVectorNot`, next to a
definition of the model, are deliberately wrong variants of it, used to see
that a property can fail; no specification refers to them.

### FaceStore

A *capture* stands for one `PersistJob` with its uuid, embedding and files.
`rows` maps face ids to captures. SQLite hands out `max(rowid)+1`
(`sqlite_autoincrement` is not set), which is why `IsNextId` can return the id of
the row deleted last, and several properties turn on this.

`_persist` is one action per store it touches: `SaveCrop`, `SaveFrame`,
`SaveEmbedding`, `Search`, `InsertFace`, one `InsertLink` per match, `Add`,
`MaybeSave`. Each may be the last (`GiveUp`), because `run()` catches every
exception. A request is `Read` (the SELECTs, which run outside the write
transaction under pysqlite), `Commit` (the unit of work deletes the links it read
before the rows; a link it has not read makes the transaction fail), then
`Evict` per vector or `Reset` and `ResetSave`, then `UnlinkFiles`.
`delete_camera` alternates removal and unlinking and finally tries `DropCamera`,
which the foreign key may refuse.

What can fail does. With `DiskFaults` a write may fail and leave part of a file, the save inside a purge
may raise (`ResetSaveFails`), and so may an unlink after some of the files (`UnlinkFails`); both end the
request where it stands (`Abandon`). `Crash` ends the process between any two steps, `Restart` is an
orderly stop, whose save may fail; `MaxStarts` bounds the two together. Either is followed by a start that
reads the index from disk (`LoadIndex`), or cannot and goes on with an empty one that it takes for saved, as the
`except` branch of `_load_or_create` does.

Three history variables name the captures that such events befell, one by one:

* `torn`: a request had the id in hand between the row and the vector of the capture, or the id was handed out
  again while somebody had it in hand, or the vector outlived the row (a request that ended early, a removal that
  was not saved before the process ended);
* `lost`: the vector was never added because a link was refused, or it was not saved, or not readable at a start;
* `littered`: the files were left behind by a capture given up, a request that ended early, or a crash.

The properties except these captures and no others, so that damage never spreads to a neighbour or to a later
capture under the same id. What becomes of the excepted ones is not hidden: `FaceStore_sync` shows a
capture that loses its vector to a purge.

`KeepsGallery` states that the store implements `Gallery` (below): `FoundIn` of the index in memory is what is shown,
`FoundIn` of the index on disk what is kept, `OnItsWay` those the worker has not finished, `Named` what a request has read and not yet deleted.

Left out: the person label of the row (see `Persons`), the published event, statistics, busy
timeouts of the database, and the similarity numbers (`Similar` is any relation).

### Gallery

What both stores of faces promise to whoever searches them, in five variables and without a database, an index or
a file: items are `coming`; each appears as a whole (`Appear`) or never (`Fail`); a request names items (`Ask`) and makes all of
them disappear in one step, from what is `shown` and from what is `kept` (`Remove`), or changes nothing (`Withdraw`); now and then what is
shown is kept (`Keep`). Only a `Start` may change what is in sight otherwise: it shows what was kept last, or nothing when that cannot be
read. An item that a request names before it has appeared does not appear any more. Nothing
else changes what is shown: not the removal of vectors after the transaction, nor a request that fails half-way, nor the work on other items.
`FaceStore` implements it with captures and API requests, `Persons` with enrolments and deletions. In both the items that are
`torn` (above) are out of sight from then on, each by itself: for all others the two-store protocol cannot be
told from one atomic store.

### CapturePipeline and CaptureLog

Each detector makes captures inside a frame and offers them with `put_nowait`;
the embedding worker hands them on with `put(timeout=5)`; `Embed` and `Persist` may
fail and then go on with the next job. `Signal`, `JoinDetectors`, ..., `Close`
are the steps of `Pipeline.stop()`. A join returns when its thread has ended or
when its time is up, which the model allows at any moment and records in `late`. Putting a
sentinel waits for room, as the code's `put` does.

`CaptureLog` is what these stages promise together: a line of accepted captures
which may shrink and whose head may be saved. `KeepsLine` states that
`CapturePipeline` implements it, with `waiting` mapped to the job the storage worker
holds, then the persist queue, then the job of the embedding worker, then the
embed queue, sentinels left out. `JobsIn` takes out at most one sentinel: a queue never
holds two, which is part of what is proved. `late` holds the joins that timed out, and
`CleanShutdown` is stated against it, worker by worker.

### CameraReader

The reader is `OpenFails`, `Wait`, `OpenWorks`, `Connect`, `StartRead`, `ReadFrame`, `PutFrame`,
`EvictOldest`, `Release`, `Disconnect`, `Exit`; opening and releasing the stream are steps apart from
the report of them (`Connect`, `Disconnect`). `TakeFrame` and `Process` are the worker's end. A full queue is
handled in two steps (`PutFrame` finds it full, `EvictOldest` takes one out), and
the worker may take frames in between. `Wait` doubles the delay also when the stop event
ends it early. Frames are numbers, which says all about age and
order. Its specification is `ReaderSpec` (`ReaderFairSpec` with fairness). Left out: rate and time stamps of the state, an exception from
the video library, a read that never returns.

### FaceTracker

`Frame` is `_process_frame` up to the policy loop: `detect`, both
association stages, confirmation, ageing, pruning, new tracks. Boxes are
abstracted to the overlap of every track's predicted box with every face:
any matrix over `Overlaps` may come next, which covers every motion model.
`Associations` is every pairing of maximal size and total overlap, cut to the
pairs over the threshold, as `linear_sum_assignment` followed by the test is; ties
are left open. `hits` is counted no further than `MinHits`, beyond which the
code does not look. The histories `clear` and `met` hold, of the last frame, the tracks
with one face near them and nobody competing, and the number of faces detected. The policy then visits confirmed tracks seen in this frame by id:
`PassOver`, `Capture`, `QueueFull` (which resets the timer) or `CaptureFails`
(an exception abandons the rest of the frame, with the timer set or not; `faulted` holds the tracks whose timer
was set and no capture followed).
The clock does not go backwards: `time.time()` may, and then captures are delayed.

### EventBus, EventSocket and EventFeed

`EventBus` is the server. `Publish` copies the subscribers under the lock; `Post` is
one `call_soon_threadsafe`, after the lock is released; `Offer` is the callback on
the loop, which refuses an event when the client's queue is full. `OnItsWay` lists the places where
an event for a client can be: in the handler's hand, in its queue, in a callback of the loop. A handler is `Accept`,
two `SendSnapshot`, then `Get` and `Send` until `SendFails`. A snapshot that fails ends
the handler with the client still subscribed, as in `ws.py:24-26`.

`EventSocket` is the page: the shared reference `socket`, the `readyState` of every
socket it ever created, `listeners`, and reconnect timers. `EventFeed` composes the two.
The page's sockets are the bus's clients: `Connected` joins the browser's open with
`Accept`, `Deliver` joins `Send` with `onmessage`, and `ServerCloses` and `ConnectionEnds`
end both sides. The history variable `orphaned` is set when the close callback of one socket
drops the reference to another, after which a page may have two
(`useEvents.js:20`). Left out: what an event says, the closing of the event loop, the
periodic health events as such (any publisher may publish at any time), the filter by type.

### Persons

`enroll_person` is a coroutine, so its steps hold the event loop: `LoopFree` lets no other
enrolment start between them. It lets go only where it reads the upload
(`ReadUpload`), after the check of the employee id. Deletions run in request threads and
the storage worker in its own, and these meet the steps of an enrolment in any order.
`CommitDelete` deletes by id whatever row has that id by then, and clears the
labels of the faces it read before. Recognition is `Recognize` (search),
`GetPerson` and `InsertFace`. Files and starts fail as in `FaceStore` (`DiskFaults`, `UnlinkFails`, `LoadIndex`; `Crash` and
`StopAndStart`), and the histories are of the same kind: `torn` holds the enrolments whose id a deletion had in hand when
their row was written or before their vector was, and those whose vector outlived their row; `lost` those whose
vector had not been saved, or not been added, or could not be read at a start; `littered` those whose files were left
behind; `late` the faces whose person was deleted, or whose id was handed out again, while they were being labelled. Such a face keeps the name of somebody who is no longer
enrolled (section 3, divergences).

`KeepsGallery` states that persons implement `Gallery`: `KnownFrom` the index are those with row and vector, `OnTheWay` the
enrolments that may still get there, `Named` the person a deletion has read. Left out: the removal of labelled
faces, and the similarity numbers (any entry of the index may be the match).

### CaptureZone

`SetZone` is the change in memory, `Truncate` and `Write` the two halves of
`write_text`, which writes in place: a file may be empty, or hold the text of one
edit behind that of another (`Mixed`). Both may fail. A test of a face is `Enabled` and
`TestPolygon`, two reads under one lock taken twice; an edit may come between them. `Load`
falls back to the zone file of the single-camera version, and to `CAPTURE_ZONE` when the file makes
no sense. `AddCamera` and `DeleteCamera` change the table; the process follows at its next
`Restart`. `spoiled` records that the last edits of a camera overlapped or
failed. Coordinates and their parsing are left out: polygons are names.

### RuntimeSettings and InferenceBackend

`RuntimeSettings` is the dictionary and its file. `Ask` is a request that passed validation;
`Assign` takes the lock and changes the memory; `OpenTmp`, `Dump` and `Rename` are `write_text` and
`replace`, each of which `WriteFails` may end, with the memory already changed. `Load` reads the file
at start, or fails to and leaves the memory empty; and `Forget` is the end of the process, which may come between any two steps.

`InferenceBackend` extends it with `Pipeline._build_models`: `Start` reads the choice,
`OpenDetector` and `OpenEmbedder` are the two halves of the Hailo models, `HailoFails` is any
exception in between, after which `Resolve` selects the providers and `LoadModels` builds the ONNX models on them, or on the CPU, which ends every
list of providers: onnxruntime binds it when the NPU's does not come up, and nobody asks. An exception
there is not caught (`LoadFails`) and ends the process. `Running` and `RequiresRestart` are
`inference_info()`. `acked` records the last value whose save was answered with success, and `behind` that the
last save failed or the start could not read the file, so that memory and file differ. `Defaults` may hold values that are no backend, as `INFERENCE_BACKEND` is not validated.
Left out: why a network does not open, a call to the accelerator that never returns, and the answer to
a rejected value.

### FaceDecode and FacePicture

`FaceDecode` is `HailoFaceModels.detect` for one frame. The network may answer anything (`fired`), with
tensors of any of the `Layouts`. Element i of a flattened tensor is taken apart into row, column and channel as NumPy
lays it out (`Row`, `Column`, `Channel`), and the decoder addresses rows of that tensor, so the
agreement of scores, boxes, key points and centres is checked and not assumed. `Group`,
`DecodeStride`, `Sort`, `Keep`, `Suppressed`, `Locate` and `Report` are the code's stages; equal scores are taken in any order.
`Locate` is one turn of the loop over the boxes that were kept, with `located` the boxes it has done, and `Report` the return.
Ratios are compared by cross-multiplication where the code divides floats, and `int()` rounds towards zero (`Truncated`).
Boxes are scaled to the frame, cut at its edges, and dropped when smaller than `MinFace`.

`FacePicture` goes on with `FaceCropper.crop` and `QualityEvaluator.evaluate` for every detection: `Crop`, the tests
in their order (`Reason`), and the composite score, whose sum of quotients is taken exactly.
The gate's `too_small` is never given on this path: detector and gate share `min_face_size`.
Brightness and sharpness of a cut-out are arbitrary. Left out: pixels, the alignment by
key points, the embedding, and the insightface detector, whose post-processing is library code.
`TypeOK` of this module is in no run.

## 3. The runs

Passing runs:

| Run | Instance | Shows |
|---|---|---|
| `FaceStore_races` | 2 captures, 1 camera, 2 requests at once (delete, window, all), 1 stop or crash | `StoresInSync`, `LinksPointBack` in every interleaving |
| `FaceStore_crash` | 2 captures, 1 camera, 1 request at a time (delete, all, camera), 1 stop or crash, every read, write and unlink may fail, fair | `RowHasFiles`, `CleanIsSaved`, `NoOrphanFiles`; `KeepsGallery`: the refinement of `Gallery`; `EveryoneFinishes`: every request and every capture ends |
| `CapturePipeline_stages` | 2 detectors with 3 captures, queues of 2 and 1, stop at any time, fair | `CleanShutdown`; `KeepsLine`: the refinement of `CaptureLog`; `StopReturns`, `EveryCaptureEnds` |
| `CameraReader_frames` | queue of 3, 7 frames, delays 1, 2, 4, 6, fair reader, unfair consumer | `ReaderTypeOK`, `HoldsNewest`, `InOrder`, `NeverBlocked`, `StopEnds` |
| `FaceTracker_tracks` | 2 tracks, 2 faces, overlaps none/under/at the threshold, 3 ticks, interval 2 | `TypeOK`, `KeepsIdentity`, `OneTrackPerFace`, `TimerMeansShot`, `Spaced` |
| `EventFeed_page` | 2 sockets, 1 listener, 3 events, a queue of 1 | `TypeOK`, `InSequence`, `Complete`, `KeepsListening`, `HandledOnce` |
| `Persons_races` | 2 enrolments, 2 deletions at once, 1 face, 1 stop or crash, every read, write and unlink may fail | `IndexAgrees`, `LabelsTrue`, `FilesFollowRows`; `KeepsGallery`: the refinement of `Gallery` |
| `CaptureZone_edits` | 1 camera, 2 polygons, 2 edits at once, an old zone file, failing and interrupted writes, restarts | `SurvivesRestart`, `VerdictFair` |
| `InferenceBackend_choice` | 3 backends, 2 saves at once, 4 defaults (one unknown), 1 crash, any failure to write, read or load, fair start | `RestartPromise`, `RunsAsShown`, `ConfirmedApplies`; `EngineStarts` |
| `FacePicture_frames` | canvas of 8 with strides 2 and 4, 2 anchors, up to 3 that answer, 3 frame sizes, 3 layouts | `DetectsRight` (candidates, suppression, places), `CropHoldsFace`, `WholeFaces`, `GateFair` |

Runs that end with a counterexample. Each checks a sentence of the
repository that the code does not keep; `PROJECT.json` quotes it.

| Run | Claim | What happens |
|---|---|---|
| `FaceStore_sync` | the two stores stay in sync, including deletes | purge-all resets the index after a capture inserted its row: that face is never found again |
| `EventFeed_twice` | one socket is shared by all subscribers | a socket that is closing drops the reference to its successor: two sockets, every event handled twice |

### Divergences seen in the code that no run checks

The models behave as the code does in each of these cases. They were found
by reading and modelling, and are listed for the maintainers.

* `README.md:63` gives every queue drop-oldest semantics. The capture queues refuse the newest (`pipeline/workers.py:182`, `:223`).
* `main.py:5`: shutdown drains the workers. A join that times out lets a sentinel overtake a capture, which is lost (`pipeline/orchestrator.py:175`).
* `pipeline/camera.py:3`: reconnects with exponential backoff. A stream that opens and is lost is reopened without a wait, and the delay has been reset (`camera.py:156`, `:163`).
* `docs/ARCHITECTURE.md:60`: the oldest frame is dropped when the queue is full. It is also dropped when the worker has made room in between (`camera.py:120-130`).
* `docs/CONFIGURATION.md:30`, `docs/ARCHITECTURE.md:69`: a track is confirmed by consecutive matches. Misses in between do not reset the count (`pipeline/tracker.py:136`).
* `docs/ARCHITECTURE.md:97`: tentative tracks are dropped after 2 missed frames. They are dropped when more than 3 have passed (`tracker.py:140`).
* `docs/ARCHITECTURE.md`, "so a face never matches itself": the match may be deleted after the search and its id given to the new row, which is then linked to itself (`workers.py:290`, `:327`).
* `db/repository.py:65` and the dashboard: removing a camera keeps its faces. `api/cameras.py` deletes them.
* `pipeline/orchestrator.py:43`: the camera is seeded on the first run. It is seeded whenever the table is empty.
* `docs/CONFIGURATION.md:62`: an interval bounds the time between index flushes. A removal followed by silence is not flushed.
* `pipeline/events.py:38` pairs subscribe and unsubscribe; a failure in the snapshot leaves the subscriber behind (`api/ws.py:24`).
* `db/repository.py:167`: deleting a person clears the label from the tagged faces. A face that was recognised before the deletion and is inserted after it keeps
  her name and id (`pipeline/workers.py:298-324`), and the id may be handed to somebody else.
* `api/persons.py:117-120`: an enrolment between a deletion's row and its vector gets the same id and then loses its embedding from the index.
* `api/zone.py:4`: the zone persists across restarts. Of two edits that overlap and both succeed the last in memory may be the first in
  the file, or their texts mix (`pipeline/orchestrator.py:340-341`); a failed edit stays in memory only.
* `pipeline/zone.py:20`: the zone test is thread-safe. A zone cleared between its two reads is tested as an empty polygon, which contains nobody.
* `pipeline/orchestrator.py:314`: the old zone file is for the first camera. Every camera without a file of its own reads it.
* `pipeline/cropper.py:50`: the crop is square. It is not when the padded box is larger than the frame, and is then stretched.
* `docs/ARCHITECTURE.md:94-95`: faint detections rescue tracks. The detector drops them at the threshold above which they count as strong (`pipeline/detector.py:110`, `pipeline/camera_pipeline.py:53`).
* `config.py:67-68`, `docs/CONFIGURATION.md:52`: the reason for a fallback is shown. For the NPU `backend_error` stays empty.
* `pipeline/orchestrator.py:191-196`, `frontend/src/pages/SettingsPage.jsx:215`: the CPU is used on any failure. An exception of the NPU's provider is not
  caught (`:207`); the process ends, and ends again at each restart.
* `schemas.py:152`, `pipeline/orchestrator.py:376`: the page shows what actually loaded. `npu_active` is taken from the list of providers asked for (`:204`), and
  onnxruntime may have bound the CPU alone.
* `docs/API.md:76`: `requires_restart` compares saved and running backend. After a failed write, or a start that could not read the file, it compares
  the memory, which differs from the file (`runtime_settings.py:28`, `:39`).
* `pipeline/vector_store.py:42-46`: an index that cannot be read is replaced by an empty one, and the next save overwrites the file with
  it. Rows of captures and persons stay, and none of them is found any more.
* `api/faces.py:73-82`, `api/cameras.py`, `api/persons.py:118-122`: a save or an unlink that raises ends the request with status 500 after its transaction took place; files,
  and with a camera vectors, stay behind and no later request finds them.
* `pipeline/orchestrator.py:175`: a save of the face index that fails on shutdown skips that of the persons.
* `docs/API.md:75` lists `cpu` and `npu` only; `hailo` is accepted. `INFERENCE_BACKEND` is not validated: an unknown value runs on the CPU.
* `pipeline/hailo_models.py`, `pipeline/hailo_runtime.py`: a model set that fails half-way leaves its first network open, a network whose constructor fails keeps its device, and `close` does not take the lock of `infer`.
* `pipeline/scrfd_decode.py:137-139`: an unexpected layout raises. With some heads recognised and others not, the stride is skipped and its faces are missing (`:156`).
* `config.py:58-60`: a blur threshold of 0, or equal brightness bounds, divide by zero in `pipeline/quality.py:86` and `:91`.
* `docs/CONFIGURATION.md:30` and `:69` give other defaults than `config.py:41` and `:97`.
* `api/ws.py:25`: the snapshot is computed after the subscription, so queued events may be older than what it shows.
* `pipeline/events.py:50`: the loop may close between the test and the call, which then raises in the publisher.

### Bounds, and why they are enough

* Two captures are the least that can share an id, match each other, or be one
  before and one after a purge. Ids, links, files and vectors of a third interact
  pairwise only. Two requests are the least that race each other. With one request at a time everything may fail and a start
  may find the index unreadable.
* Queues of size 1 and 2 with three or four captures are full, empty and
  partly filled with a sentinel among the jobs.
* A frame queue of 3 with 7 frames wraps around twice; the delay saturates at the third failure.
* Two tracks and two faces are the least where one assignment takes another's
  face. `MaxLost` is 4, so a track can be tentative at its third miss and die at its fourth.
* Three sockets are the least in which one that closes can orphan a second and have
  a third opened; two suffice where that is excluded, with a queue of one and three events so that it is full, empty and refilled.
* Two enrolments are the least that share a person id one after the other, or have neighbouring ones; two deletions race each other, the
  enrolments and the labelling of a face, and a start ends all of them at any moment. The employee ids differ: that another
  enrolment has taken one between check and insert is one of the reasons for which `InsertPerson` may fail, and it may fail always.
* Two polygons and none, with two edits, give every order of memory and file.
  Cameras do not share a zone, so one stands for all.
* Three backends and two saves give every order of memory, file and temporary file; one crash can
  interrupt any write or start, and restarts are not bounded.
* Two strides with two anchors are the least where a wrong stride, cell or anchor can be
  addressed; three answering anchors are the least for a chain in which the first suppresses the second, which
  would have suppressed the third. The frames are square, wider than high and much higher than wide, so that boxes are
  scaled up, scaled unevenly against the canvas, and cut. Lights and sharps lie under, inside and over the bounds of the gate.
* `MaxStarts`, `MaxCrashes`, `MaxFrames`, `MaxJobs`, `MaxTracks`, `MaxClock`, `MaxSockets`, `MaxEvents`,
  `MaxEnrolments`, `MaxFaces`, `MaxFired` bound counters and
  nothing else. In all modules but `FaceStore`, `CaptureZone` and `InferenceBackend` the
  system comes to rest (process ended, bound reached), hence
  `CHECK_DEADLOCK FALSE` there.

### Fairness

Weak fairness is assumed of threads that have been started: the steps of
`_persist`, of a request being served, of the workers, of `Pipeline.stop()` once
called, of the reader. The operating system schedules them and no
step waits for ever in the code, except where the model says so by its guard
(a sentinel waits for room). Nothing is assumed of the environment: captures,
requests, crashes, stop, and the detector as consumer of frames may
fail to happen. `StartFrame` and `Capture` are therefore not fair either.

In `InferenceBackend` the steps of a start are weakly fair, and so is the restart after the
process ended (`restart: unless-stopped` in `docker-compose.yml`). Loading the models for the CPU is strongly fair: the model pack is on the
disk or can be fetched some day, so a start that is tried again and again succeeds in the end. Nothing is assumed of an
accelerator, and `EngineStarts` leaves out the choice of `npu`, saved or by default, whose failure the code does not catch.
`EventFeed`, `Persons`, `CaptureZone` and `FacePicture` check safety only.

## 4. The proofs

All hold for every value of the constants that satisfies the assumption stated
in the module.

**FaceStoreProofs.** `Typing`; `CleanSaved`; `FilesSafe` (`RowHasFiles`);
`InSync` (`StoresInSync`); `LinksSound` (`LinksPointBack`);
`NothingLeft` (`NoOrphanFiles`); `StoreIsGallery` (`KeepsGallery`). None of the last five is inductive as it stands.

* *Files.* Besides `RowHasFiles` the invariant says which files the capture in hand has
  written at each step, that every capture is in one place only (still to do,
  in hand, in one row), and that what a request is about to unlink has no
  row any more. Then no unlink can hit a row.
* *Orphans.* Every file is `Accounted` for: by a row, by the capture in hand before its insert, by what some request
  has still to remove, or by the history of what was left. A request that is not about to remove anything has nothing left to
  remove (`Waiting`). A commit deletes rows by the ids it listed; that these rows hold the captures it listed,
  or marked ones, is the part of *Sync* that the step needs.
* *Vectors.* A vector lies under the id of the only row its capture ever had, and the capture in hand has none (`Fresh`). *Sync* and *Gallery* rest on it, as the
  index is addressed by ids that are used again.
* *Sync.* For every capture that is not marked, what the worker found (`WorkerSees`) and what a request listed
  (`RequestSees`) is still true when it is used; rows then have their vectors (`RowsFound`) and vectors their rows, in
  memory and, as long as the index is clean, on disk (`VectorsNamed`), which is what a start relies on. The id handed to a new row is larger than every match
  or was one of them, which is why links point back. The link ends need a part of
  their own: the foreign keys keep them alive in any case.
* *Clean.* A clean index equals the one on disk, or a start that could not read the file has emptied it and every capture on disk is `lost`.
* *Gallery.* With these invariants the refinement goes action by action. The row is inserted without being found, as no vector
  has its id or the capture is marked; `Add` is the step at which the capture appears, as the row it was given is still its own. `Commit` is the
  step at which all a request named disappears, from what is shown and what is kept. `Evict` and `Reset` then find nothing to hide; a
  save keeps what is shown, and a start shows what was kept, or nothing.

**CameraProofs**, the reader: `ReaderTyping` (`ReaderTypeOK`); `Freshest` (`HoldsNewest`), with the frame read
but not yet queued and the last frame handed over as strengthening; `Ordered`
(`InOrder`) from it; `Honest` (`ConnectedIsOpen`), from what the reader has reported at each of its steps (`Reported`). The queue size, `EveryN` and the
delays are arbitrary. The zone: `ZoneTyping`; `Persistent` (`SurvivesRestart`), from `Undisturbed`: an edit that
nobody disturbed is the only one of its camera, so what it has written so far is what it put into memory; `Verdicts`
(`VerdictFair`), from what the test has read and the zones the camera had since.

**CapturePipelineProofs.** `Typing`; `StopsClean` (`CleanShutdown`); `InLine` (`KeepsLine`), the
refinement of `CaptureLog`. The invariants: a worker's hand is full exactly at the steps that hold
a job (`Hands`); where the two sentinels are at each step of `stop()`, and that a queue holds at most one
(`Sentinels`); which threads have ended when `stop()` has passed their join (`Joined`) and that nothing
is behind a sentinel then (`NothingBehind`); that every capture under way is in some queue or hand (`InFlight`); and that jobs are
numbered in the order of their acceptance, so none occurs twice (`Fresh`). The refinement then goes action by action: an
accepted job is appended to the line, a failed one is removed from its middle, the head is saved, and every hand-over leaves the
line as it is. It rests on lemmas about `JobsIn` of a concatenation, a tail and an append.

**FaceTrackerProofs.** `Typing`, for any overlaps and any assignment the search may return;
`TimersMean` (`TimerMeansShot`) and `CapturesSpaced` (`Spaced`), from an invariant
that relates the timer of a live track, the last capture queued for it, and the clock, and says that under an id not handed out yet nothing was queued;
`IdsNotShared` (`NoSharedIds`) from the same one. `IdentityKept` (`KeepsIdentity`) is an exchange argument: were a face that alone overlaps
a track not paired with it, whoever stands in the way of the pair could be moved, at no loss as their overlaps are zero, to
where the total is larger, against the choice of the largest. Sums over finite sets, which the argument compares, are treated by induction
on the sets for which the claim holds. `OneTrackEach` (`OneTrackPerFace`): every detected
face counts as strong, so the second association has no faces left to pair; what remains is that matched tracks are paired with
different faces and each unmatched face starts one track, counted by bijections. It assumes of the numbers only what the
module's assumption says, and in particular any number of tracks and faces.

**EventFeedProofs.** `Typing`; `Sequence` (`InSequence`); `NothingMissed` (`Complete`); `AlwaysListens`
(`KeepsListening`); `NeverHandledTwice` (`HandledOnce`). Every step of the feed is a step of the bus or leaves it alone, so the bus
has an invariant of its own. `Stages`: the handler has an event exactly while it sends it, and nothing is on its way to a client
that has not come. `InOrder`: in the hand, the queue and the callbacks, events of one publisher ascend, beyond what
was sent last and, while a post is pending, below the newest. `Owed`: what a subscriber has not been sent is in one of these places, or is the one
about to be posted, unless its queue was full. For the page, `Once` says that what was handled lies behind what the open connection was
sent, and that only one socket is live; it needs the bus's `InOrder`, as an event that is sent is newer than all that were.

**PersonsProofs.** `Typing`; `IndexRight` (`IndexAgrees`); `NamesRight` (`LabelsTrue`); `FilesRight`
(`FilesFollowRows`); `PersonsAreGallery` (`KeepsGallery`). The invariant `PersonsInv` has one part for each store: neither copy of the index
has an id twice, and an enrolment adds only after it removed (`OneEach`); an enrolment has one row,
written after its embedding (`RowsKept`); a vector lies under the id its enrolment got (`OwnIds`); the row under an id is the
one its enrolment wrote and its deletion read, or a marked one (`OwnRows`); the index follows the rows, and the disk the index unless a start emptied it
(`IndexFollows`); what recognition holds is true, and a deletion that has yet to commit knows the faces it has to clear (`NamesFollow`,
`LabelsTrue`); files follow the rows (`FilesKept`). `Add` is the step where a person
becomes known and `CommitDelete` the step where that ends; were the vector still to come, the deletion would have met the enrolment between its row and its vector,
and marked it. A start shows who is on disk or, when the file cannot be read, nobody.

**InferenceBackendProofs.** `Typing`; `RestartTold` (`RestartPromise`); `LastChoiceApplies` (`ConfirmedApplies`); `ShowsWhatRuns`
(`RunsAsShown`). `SavedInv`: the file holds the last confirmed value and is never torn; the
memory has the value of whoever holds the lock, and so has the temporary file when it is about to be renamed; with the lock free and
`behind` false, memory and file agree. `FlagsInv`: what flags, open networks and models are in each
phase of a start.

**FacePictureProofs.** `DetectorRight` (`DetectsRight`), `CropsHold` (`CropHoldsFace`), `FacesWhole` (`WholeFaces`), `GateIsFair`
(`GateFair`) and `Typing`, for every frame, canvas, stride, minimal size, padding and bound of the gate, and any finite set of
answers that lie inside the tensors. Four groups of lemmas carry it.

* *Division.* `\div` floors and `int()` truncates; quotients of quotients, and how far a truncated coordinate is from the exact one.
* *Flattened tensors.* The row of an element and the element of a row are inverse to each other for each of the three
  reshapes, so what the decoder reads at the row of a score is what the network wrote for that anchor.
* *One dimension of a box.* Scaling, truncating and cutting keep an edge within a pixel of its place; the window of the
  cropper lies on the frame and holds the box. Each is proved once and used for x and for y.
* *Scores.* The composite score is a sum of shares that are monotone in what the gate measures, brought to one denominator.

The invariant `Inv` has a part for each stage: which variables are still empty (`Stages`), that the candidates are the
confident anchors (`Candidates`), that those kept are a maximal set without overlap in which each has the best score of
the boxes it suppressed (`Sifted`), that each detection is the cut and scaled box of a candidate that was kept and each box
done has its detection (`Placing`), and that verdicts and scores were given by the gate (`Judged`).

**Model-checked only.** Everything with fairness (`EveryoneFinishes`, `StopReturns`,
`EveryCaptureEnds`, `NeverBlocked`, `StopEnds`, `EngineStarts`): liveness is outside the prover.
Every safety property the passing runs check is a theorem.

## 5. Plan

1. *Done:* `FaceStore`, `CapturePipeline` over `CaptureLog`, `CameraReader`, `FaceTracker`, in the order
   of what a failure costs; then `EventBus` and `EventSocket` composed in `EventFeed`, `Persons`, `CaptureZone`.
2. *Done:* `InferenceBackend` over `RuntimeSettings`; `FaceDecode` and `FacePicture`.
3. *Done:* proofs of every safety property the passing runs check, and of the refinements of `CaptureLog` and `Gallery`.
4. Open: the sharing of the accelerator
   between detection and enrolment; the rate cap of the live view.
5. Open, abstract specifications: the event feed as one ordered log per publisher from which each client misses what its queue
   had no room for; the settings file as one atomic register.

Runs are kept few: a question is added by extending the run whose instance can
already ask it, and a divergence that reading shows as clearly as a trace stays in the list
of section 3.

## 6. Not modelled, and why

Neural networks, accelerator and video library (their results are
nondeterministic choices); drawing, formatting and logging; statistics that nothing
decides on; read-only queries; the schema migration at start; configuration;
dashboard pages and scripts. Time is modelled only where a property is about it: timeouts elsewhere are choices.
