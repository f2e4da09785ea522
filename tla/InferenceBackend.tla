---------------------------- MODULE InferenceBackend ----------------------------
(***************************************************************************)
(* Which accelerator the process runs on: the start reads the saved choice,*)
(* tries to build the models it asks for and falls back to the CPU; the    *)
(* Settings page then shows what was asked and what runs, and saves the    *)
(* choice of the next start (Pipeline._build_models, inference_info and    *)
(* set_inference_backend over RuntimeSettings).                            *)
(***************************************************************************)
EXTENDS RuntimeSettings

CONSTANTS
    Defaults,       \* values INFERENCE_BACKEND may have; it is not validated
    MaxCrashes      \* bound

ASSUME BackendAssumption ==
    /\ {"cpu", "npu", "hailo"} = Backends
    /\ Absent \notin Defaults
    /\ MaxCrashes \in Nat

VARIABLES
    default,        \* settings.inference_backend
    recognition,    \* HAILO_RECOGNITION_HEF is set
    phase,          \* how far the process is
    active,         \* self.inference_backend
    providers,      \* what resolve_providers() answered
    models,         \* what self.models runs on: for FaceModels the provider
                    \* onnxruntime has bound, active_providers
    hailo, npu,     \* hailo_active, npu_active
    error,          \* backend_error is set
    open,           \* networks opened on the accelerator
    crashes

deployment == <<default, recognition>>
flags == <<active, hailo, npu, error>>
vars == <<settings, deployment, phase, flags, providers, models, open, crashes>>

Networks == {"detection", "recognition"}
Choices == Backends \cup Defaults

TypeOK ==
    /\ SettingsType
    /\ default \in Defaults /\ recognition \in BOOLEAN
    /\ phase \in {"down", "hailo", "embedder", "onnx", "loading", "serving"}
    /\ active \in Choices \cup {Absent}
    /\ providers \in {"none", "cpu", "npu"}
    /\ models \in {"none", "cpu", "npu", "hailo"}
    /\ hailo \in BOOLEAN /\ npu \in BOOLEAN /\ error \in BOOLEAN
    /\ open \subseteq Networks
    /\ crashes \in 0..MaxCrashes

Init ==
    /\ SettingsInit
    /\ default \in Defaults /\ recognition \in BOOLEAN
    /\ phase = "down" /\ active = Absent
    /\ providers = "none" /\ models = "none"
    /\ hailo = FALSE /\ npu = FALSE /\ error = FALSE
    /\ open = {} /\ crashes = 0

\* get("inference_backend", default)
Choice(saved) == IF saved = Absent THEN default ELSE saved

---------------------------------------------------------------------------
(* The end of the process; Docker starts it again *)

Exit ==
    /\ Forget
    /\ phase' = "down" /\ active' = Absent
    /\ providers' = "none" /\ models' = "none"
    /\ hailo' = FALSE /\ npu' = FALSE /\ error' = FALSE
    /\ open' = {}
    /\ UNCHANGED deployment

---------------------------------------------------------------------------
(* Building the models *)

Start ==
    /\ phase = "down"
    /\ Load
    /\ active' = Choice(memory')
    /\ phase' = IF active' = "hailo" THEN "hailo" ELSE "onnx"
    /\ UNCHANGED <<deployment, hailo, npu, error, providers, models, open, crashes>>

OpenDetectorEarly ==
    /\ phase = "hailo"
    /\ open' = open \cup {"detection"}
    /\ hailo' = TRUE
    /\ phase' = "embedder"
    /\ UNCHANGED <<settings, deployment, active, npu, error, providers, models, crashes>>

\* HailoNetwork(detection_hef): HailoRT imports, the device node and the file
\* are there, and the network opens.
OpenDetector ==
    /\ phase = "hailo"
    /\ open' = open \cup {"detection"}
    /\ phase' = "embedder"
    /\ UNCHANGED <<settings, deployment, flags, providers, models, crashes>>

\* The recognition network when its file is set and there, else the ArcFace
\* model on the CPU.  Only now is the accelerator reported active.
OpenEmbedder ==
    /\ phase = "embedder"
    /\ \E present \in BOOLEAN :
         open' = IF recognition /\ present THEN open \cup {"recognition"} ELSE open
    /\ models' = "hailo"
    /\ hailo' = TRUE /\ error' = FALSE
    /\ phase' = "serving"
    /\ UNCHANGED <<settings, deployment, active, npu, providers, crashes>>

HailoFailsFatally ==
    /\ phase \in {"hailo", "embedder"}
    /\ Exit
    /\ UNCHANGED crashes

\* Whatever goes wrong in between is recorded and the start goes on; a network
\* that was open already is not closed.
HailoFails ==
    /\ phase \in {"hailo", "embedder"}
    /\ error' = TRUE
    /\ phase' = "onnx"
    /\ UNCHANGED <<settings, deployment, active, hailo, npu, providers, models, open, crashes>>

\* resolve_providers(): an NPU provider is used if this build has one.
Resolve ==
    /\ phase = "onnx"
    /\ \E present \in BOOLEAN :
         /\ npu' = (active = "npu" /\ present)
         /\ providers' = IF active = "npu" /\ present THEN "npu" ELSE "cpu"
    /\ phase' = "loading"
    /\ UNCHANGED <<settings, deployment, active, hailo, error, models, open, crashes>>

\* FaceModels(): the model pack loads, and the rest of the start follows.  The
\* CPU is in every list of providers, and onnxruntime falls back to it when the
\* NPU's provider does not come up.
LoadModels ==
    /\ phase = "loading"
    /\ models' \in {providers, "cpu"}
    /\ phase' = "serving"
    /\ UNCHANGED <<settings, deployment, flags, providers, open, crashes>>

\* The model pack is missing or cannot be loaded: nothing catches that.
LoadFails ==
    /\ phase = "loading"
    /\ Exit
    /\ UNCHANGED crashes

\* The server answers what is under way, then stop() closes the networks.
Shutdown ==
    /\ phase = "serving" /\ \A e \in Editors : pc[e] = "idle"
    /\ Exit
    /\ UNCHANGED crashes

Crash ==
    /\ phase # "down" /\ crashes < MaxCrashes
    /\ Exit
    /\ crashes' = crashes + 1

---------------------------------------------------------------------------

Save(e) ==
    /\ phase = "serving"
    /\ Edit(e)
    /\ UNCHANGED <<deployment, phase, flags, providers, models, open, crashes>>

Build == Start \/ OpenDetector \/ OpenEmbedder \/ HailoFails \/ Resolve \/ LoadModels

Next == Build \/ LoadFails \/ Shutdown \/ Crash \/ \E e \in Editors : Save(e)

Spec == Init /\ [][Next]_vars

\* A start runs by itself and Docker restarts what ended.  The model pack is
\* on the disk or can be fetched some day: loading it for the CPU works in the
\* end.  Nothing of the kind is assumed of an accelerator.
FairSpec ==
    /\ Spec
    /\ WF_vars(Start) /\ WF_vars(Resolve)
    /\ WF_vars(OpenDetector \/ OpenEmbedder \/ HailoFails)
    /\ SF_vars(providers = "cpu" /\ LoadModels)

---------------------------------------------------------------------------
(* inference_info() *)

Running == IF hailo THEN "hailo" ELSE IF npu THEN "npu" ELSE "cpu"

RequiresRestart == Choice(memory) # active

---------------------------------------------------------------------------
(* Properties *)

\* A start asks for the last choice whose save ended well, or for the default
\* when there is none, whatever save was interrupted or failed in between; when
\* it cannot read the file it asks for the default
\* (runtime_settings.py:25-42, orchestrator.py:52-55).
ConfirmedApplies ==
    [][phase = "down" /\ phase' # "down" =>
         active' = IF behind' THEN default ELSE Choice(acked)]_vars

\* requires_restart is true exactly when a restart that reads the file would
\* ask for another backend, but after a save that failed or a start that could
\* not read it; whether the other backend would then come up, or the one that
\* fell back would this time, it does not say (API.md:76, orchestrator.py:295).
RestartPromise ==
    phase = "serving" /\ holder = Nobody /\ ~behind
        => (RequiresRestart <=> Choice(Reading) # active)

\* The page shows as running what the models run on, but for an NPU: models on
\* one are shown so, and so are models whose NPU provider did not come up.  A
\* Hailo that was asked for and does not run has its reason
\* (orchestrator.py:188-263, 277-293).
RunsAsShown ==
    phase = "serving" =>
        /\ models = Running \/ (Running = "npu" /\ models = "cpu")
        /\ hailo => "detection" \in open
        /\ error <=> active = "hailo" /\ ~hailo

\* However the Hailo fails, and whether or not the settings can be read, the
\* capture engine comes up (orchestrator.py:193: an accelerator "must never
\* stop the capture engine").  An NPU is left out: nothing catches what its
\* provider raises.
EngineStarts ==
    phase = "down" /\ "npu" \notin {Choice(Reading), default} ~> phase = "serving"

=============================================================================
