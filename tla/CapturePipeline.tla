-------------------------- MODULE CapturePipeline --------------------------
(***************************************************************************)
(* The threads between detection and storage, and Pipeline.stop().  One    *)
(* DetectionWorker per camera offers captures to the bounded embed queue;  *)
(* the EmbeddingWorker moves them to the bounded persist queue; the        *)
(* StorageWorker saves them.  Shutdown signals the detectors, then sends a *)
(* sentinel down each queue, waiting for each thread only so long.         *)
(***************************************************************************)
EXTENDS Naturals, SequencesExt

CONSTANTS
    Detectors,      \* one per camera
    MaxJobs,        \* captures the detectors make (bound)
    EmbedSize,      \* EMBED_QUEUE_SIZE
    PersistSize,    \* PERSIST_QUEUE_SIZE
    Sentinel, Nobody

\* Captures by the order in which they are made.
Jobs == 1..MaxJobs

ASSUME PipelineAssumption ==
    /\ MaxJobs \in Nat
    /\ EmbedSize \in Nat \ {0}
    /\ PersistSize \in Nat \ {0}
    /\ Sentinel \notin Jobs
    /\ Nobody \notin Jobs \cup {Sentinel}
    /\ {"embed", "storage"} \cap Detectors = {}

VARIABLES
    embedQ, persistQ,
    dpc,        \* each detector: between frames, in a frame, offering, gone
    stopping,   \* its stop event
    offered,    \* the capture it offers
    made,       \* captures made so far, by all of them
    epc, ehand, \* EmbeddingWorker and the job it holds
    spc, shand, \* StorageWorker and the job it holds
    ctl,        \* progress of Pipeline.stop()
    joining,    \* detectors stop() has still to join
    late,       \* history: threads whose join timed out
    fate,       \* history: what became of each capture
    saved       \* history: captures in the order they were saved

detectors == <<dpc, stopping, offered, made>>
embedder == <<epc, ehand>>
storer == <<spc, shand>>
stopper == <<ctl, joining, late>>
vars == <<embedQ, persistQ, detectors, embedder, storer, stopper, fate, saved>>

Fates == {"none", "flight", "refused", "failed", "dropped", "saved"}

TypeOK ==
    /\ embedQ \in Seq(Jobs \cup {Sentinel})
    /\ persistQ \in Seq(Jobs \cup {Sentinel})
    /\ Len(embedQ) <= EmbedSize
    /\ Len(persistQ) <= PersistSize
    /\ dpc \in [Detectors -> {"idle", "frame", "offer", "done"}]
    /\ stopping \in [Detectors -> BOOLEAN]
    /\ offered \in [Detectors -> Jobs \cup {Nobody}]
    /\ made \in 0..MaxJobs
    /\ epc \in {"get", "embed", "put", "done"}
    /\ ehand \in Jobs \cup {Nobody}
    /\ spc \in {"get", "persist", "done"}
    /\ shand \in Jobs \cup {Nobody}
    /\ ctl \in {"up", "join", "stopE", "joinE", "stopS", "joinS", "close", "closed", "down"}
    /\ joining \subseteq Detectors
    /\ late \subseteq Detectors \cup {"embed", "storage"}
    /\ fate \in [Jobs -> Fates]
    /\ saved \in Seq(Jobs)

---------------------------------------------------------------------------
Init ==
    /\ embedQ = <<>> /\ persistQ = <<>>
    /\ dpc = [d \in Detectors |-> "idle"]
    /\ stopping = [d \in Detectors |-> FALSE]
    /\ offered = [d \in Detectors |-> Nobody]
    /\ made = 0
    /\ epc = "get" /\ ehand = Nobody
    /\ spc = "get" /\ shand = Nobody
    /\ ctl = "up" /\ joining = Detectors /\ late = {}
    /\ fate = [j \in Jobs |-> "none"]
    /\ saved = <<>>

\* Worker threads are daemons: they end with the process.
Running == ctl # "down"

---------------------------------------------------------------------------
(* DetectionWorker *)

StartFrame(d) ==
    /\ Running
    /\ dpc[d] = "idle" /\ ~stopping[d]
    /\ dpc' = [dpc EXCEPT ![d] = "frame"]
    /\ UNCHANGED <<embedQ, persistQ, stopping, offered, made, embedder, storer, stopper, fate, saved>>

\* A track is due, inside the zone and sharp enough.  The stop event is not
\* looked at again before the frame is finished.
Capture(d) ==
    LET j == made + 1
    IN  /\ Running
        /\ dpc[d] = "frame" /\ made < MaxJobs
        /\ made' = j
        /\ offered' = [offered EXCEPT ![d] = j]
        /\ fate' = [fate EXCEPT ![j] = "flight"]
        /\ dpc' = [dpc EXCEPT ![d] = "offer"]
        /\ UNCHANGED <<embedQ, persistQ, stopping, embedder, storer, stopper, saved>>

PutFirst(q, size, j) == IF Len(q) < size THEN <<j>> \o q ELSE q

\* put_nowait: a full queue refuses the new capture.
PutNowait(q, size, j) == IF Len(q) < size THEN Append(q, j) ELSE q

Offer(d) ==
    LET j == offered[d]
    IN  /\ Running
        /\ dpc[d] = "offer"
        /\ embedQ' = PutNowait(embedQ, EmbedSize, j)
        /\ fate' = IF Len(embedQ) < EmbedSize THEN fate ELSE [fate EXCEPT ![j] = "refused"]
        /\ offered' = [offered EXCEPT ![d] = Nobody]
        /\ dpc' = [dpc EXCEPT ![d] = "frame"]
        /\ UNCHANGED <<persistQ, stopping, made, embedder, storer, stopper, saved>>

EndFrame(d) ==
    /\ Running
    /\ dpc[d] = "frame"
    /\ dpc' = [dpc EXCEPT ![d] = "idle"]
    /\ UNCHANGED <<embedQ, persistQ, stopping, offered, made, embedder, storer, stopper, fate, saved>>

ExitDetector(d) ==
    /\ Running
    /\ dpc[d] = "idle" /\ stopping[d]
    /\ dpc' = [dpc EXCEPT ![d] = "done"]
    /\ UNCHANGED <<embedQ, persistQ, stopping, offered, made, embedder, storer, stopper, fate, saved>>

---------------------------------------------------------------------------
(* EmbeddingWorker *)

GetEmbed ==
    /\ Running
    /\ epc = "get" /\ embedQ # <<>>
    /\ embedQ' = Tail(embedQ)
    /\ IF Head(embedQ) = Sentinel
         THEN epc' = "done" /\ UNCHANGED ehand
         ELSE epc' = "embed" /\ ehand' = Head(embedQ)
    /\ UNCHANGED <<persistQ, detectors, storer, stopper, fate, saved>>

EmbedDies ==
    /\ Running
    /\ epc = "embed"
    /\ \/ /\ epc' = "put"
          /\ UNCHANGED <<ehand, fate>>
       \/ /\ epc' = "done" /\ ehand' = Nobody
          /\ fate' = [fate EXCEPT ![ehand] = "failed"]
    /\ UNCHANGED <<embedQ, persistQ, detectors, storer, stopper, saved>>

\* An exception costs the capture, not the thread.
Embed ==
    /\ Running
    /\ epc = "embed"
    /\ \/ /\ epc' = "put"
          /\ UNCHANGED <<ehand, fate>>
       \/ /\ epc' = "get" /\ ehand' = Nobody
          /\ fate' = [fate EXCEPT ![ehand] = "failed"]
    /\ UNCHANGED <<embedQ, persistQ, detectors, storer, stopper, saved>>

PutPersist ==
    /\ Running
    /\ epc = "put" /\ Len(persistQ) < PersistSize
    /\ persistQ' = Append(persistQ, ehand)
    /\ epc' = "get" /\ ehand' = Nobody
    /\ UNCHANGED <<embedQ, detectors, storer, stopper, fate, saved>>

\* put(timeout=5) gives up on a queue that stays full.
DropEmbedded ==
    /\ Running
    /\ epc = "put" /\ Len(persistQ) = PersistSize
    /\ epc' = "get" /\ ehand' = Nobody
    /\ fate' = [fate EXCEPT ![ehand] = "dropped"]
    /\ UNCHANGED <<embedQ, persistQ, detectors, storer, stopper, saved>>

---------------------------------------------------------------------------
(* StorageWorker *)

GetPersist ==
    /\ Running
    /\ spc = "get" /\ persistQ # <<>>
    /\ persistQ' = Tail(persistQ)
    /\ IF Head(persistQ) = Sentinel
         THEN spc' = "done" /\ UNCHANGED shand
         ELSE spc' = "persist" /\ shand' = Head(persistQ)
    /\ UNCHANGED <<embedQ, detectors, embedder, stopper, fate, saved>>

PersistDies ==
    /\ Running
    /\ spc = "persist"
    /\ shand' = Nobody
    /\ \/ /\ fate' = [fate EXCEPT ![shand] = "saved"]
          /\ saved' = Append(saved, shand)
          /\ spc' = "get"
       \/ /\ fate' = [fate EXCEPT ![shand] = "failed"]
          /\ spc' = "done"
          /\ UNCHANGED saved
    /\ UNCHANGED <<embedQ, persistQ, detectors, embedder, stopper>>

\* An exception costs the capture, not the thread.
Persist ==
    /\ Running
    /\ spc = "persist"
    /\ spc' = "get" /\ shand' = Nobody
    /\ \/ /\ fate' = [fate EXCEPT ![shand] = "saved"]
          /\ saved' = Append(saved, shand)
       \/ /\ fate' = [fate EXCEPT ![shand] = "failed"]
          /\ UNCHANGED saved
    /\ UNCHANGED <<embedQ, persistQ, detectors, embedder, stopper>>

---------------------------------------------------------------------------
(* Pipeline.stop() *)

Signal ==
    /\ ctl = "up"
    /\ stopping' = [d \in Detectors |-> TRUE]
    /\ ctl' = IF Detectors = {} THEN "stopE" ELSE "join"
    /\ UNCHANGED <<embedQ, persistQ, dpc, offered, made, embedder, storer, joining, late, fate, saved>>

\* join(timeout) returns when the thread has ended, or after the timeout.
Join(here, there, thread, ended) ==
    /\ ctl = here
    /\ ctl' = there
    /\ late' = IF ended THEN late ELSE late \cup {thread}

JoinDetectors ==
    /\ \E d \in joining :
        /\ Join("join", IF joining = {d} THEN "stopE" ELSE "join", d, dpc[d] = "done")
        /\ joining' = joining \ {d}
    /\ UNCHANGED <<embedQ, persistQ, detectors, embedder, storer, fate, saved>>

StopEmbeddingAhead ==
    /\ ctl = "stopE" /\ Len(embedQ) < EmbedSize
    /\ embedQ' = <<Sentinel>> \o embedQ
    /\ ctl' = "joinE"
    /\ UNCHANGED <<persistQ, detectors, embedder, storer, joining, late, fate, saved>>

\* put(_SENTINEL) has no timeout: it waits for room.
StopEmbedding ==
    /\ ctl = "stopE" /\ Len(embedQ) < EmbedSize
    /\ embedQ' = Append(embedQ, Sentinel)
    /\ ctl' = "joinE"
    /\ UNCHANGED <<persistQ, detectors, embedder, storer, joining, late, fate, saved>>

JoinEmbedding ==
    /\ Join("joinE", "stopS", "embed", epc = "done")
    /\ UNCHANGED <<embedQ, persistQ, detectors, embedder, storer, joining, fate, saved>>

StopStorage ==
    /\ ctl = "stopS" /\ Len(persistQ) < PersistSize
    /\ persistQ' = Append(persistQ, Sentinel)
    /\ ctl' = "joinS"
    /\ UNCHANGED <<embedQ, detectors, embedder, storer, joining, late, fate, saved>>

JoinStorage ==
    /\ Join("joinS", "close", "storage", spc = "done")
    /\ UNCHANGED <<embedQ, persistQ, detectors, embedder, storer, joining, fate, saved>>

\* The indexes are saved, models and database closed; then the process ends.
Close ==
    /\ \/ ctl = "close" /\ ctl' = "closed"
       \/ ctl = "closed" /\ ctl' = "down"
    /\ UNCHANGED <<embedQ, persistQ, detectors, embedder, storer, joining, late, fate, saved>>

---------------------------------------------------------------------------
Detection(d) == StartFrame(d) \/ Capture(d) \/ Offer(d) \/ EndFrame(d) \/ ExitDetector(d)

Embedding == GetEmbed \/ Embed \/ PutPersist \/ DropEmbedded

Storage == GetPersist \/ Persist

Stop ==
    \/ JoinDetectors \/ StopEmbedding \/ JoinEmbedding
    \/ StopStorage \/ JoinStorage \/ Close

Next == (\E d \in Detectors : Detection(d)) \/ Embedding \/ Storage \/ Signal \/ Stop

Spec == Init /\ [][Next]_vars

\* Threads run on; nothing obliges anyone to stop the process or to walk in
\* front of a camera.
FairSpec ==
    /\ Spec
    /\ \A d \in Detectors : WF_vars(Offer(d)) /\ WF_vars(EndFrame(d)) /\ WF_vars(ExitDetector(d))
    /\ WF_vars(Embedding)
    /\ WF_vars(Storage)
    /\ WF_vars(Stop)

---------------------------------------------------------------------------
(* Properties *)

\* A queue without the sentinel, of which it never holds two.
JobsIn(q) ==
    LET ends == { i \in DOMAIN q : q[i] = Sentinel }
    IN  IF ends = {} THEN q ELSE RemoveAt(q, CHOOSE i \in ends : TRUE)

Held(j) == IF j = Nobody THEN <<>> ELSE <<j>>

\* Accepted captures, next to be saved first.
Line == Held(shand) \o JobsIn(persistQ) \o Held(ehand) \o JobsIn(embedQ)

\* The stages behind the detectors keep the order in which captures were
\* accepted, and save each at most once, through shutdown as well.
CapturesInLine == INSTANCE CaptureLog WITH waiting <- Line, log <- saved
KeepsLine == CapturesInLine!Spec

\* A shutdown without timeouts is clean.  A worker that has left leaves nothing
\* behind if the threads before it had ended when its sentinel was sent; and if
\* every join succeeded, no capture is under way and nobody is left when models
\* and database are closed (orchestrator.py:173-185).
CleanShutdown ==
    /\ epc = "done" /\ late \cap Detectors = {} => embedQ = <<>> /\ ehand = Nobody
    /\ spc = "done" /\ late \subseteq {"storage"} => persistQ = <<>> /\ shand = Nobody
    /\ ctl \in {"closed", "down"} /\ late = {} =>
          /\ \A j \in Jobs : fate[j] # "flight"
          /\ epc = "done" /\ spc = "done"
          /\ \A d \in Detectors : dpc[d] = "done"

\* stop() returns, though its sentinels wait for room in full queues
\* (workers.py:216, 260).
StopReturns == ctl # "up" ~> ctl = "down"

\* A capture does not wait for ever: a failing one takes no worker with it,
\* and shutdown strands none for good (workers.py:228-231, 269-270).
EveryCaptureEnds ==
    \A j \in Jobs : fate[j] = "flight" ~> fate[j] # "flight" \/ ctl = "down"

===========================================================================
