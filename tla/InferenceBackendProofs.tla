------------------------ MODULE InferenceBackendProofs ------------------------
(* Theorems about InferenceBackend and the RuntimeSettings below it, for any *)
(* requests, defaults and number of crashes.                                 *)
EXTENDS InferenceBackend, TLAPS

---------------------------------------------------------------------------
(* Types *)

LEMMA ReadingTypes == Reading \in Backends \cup {Absent}
BY DEF Reading

LEMMA ChoiceTypes ==
    ASSUME default \in Defaults, NEW saved \in Backends \cup {Absent}
    PROVE  Choice(saved) \in Choices
BY DEF Choice, Choices

LEMMA EditTypes ==
    ASSUME SettingsType, NEW e \in Editors, Edit(e)
    PROVE  SettingsType'
<1> USE SettingsAssumption DEF SettingsType, Steps
<1>1. CASE \E value \in Backends : Ask(e, value)
  BY <1>1 DEF Ask
<1>2. CASE Assign(e)
  <2>1. want[e] \in Backends \cup {Absent}
    OBVIOUS
  <2>2. memory' \in Backends \cup {Absent}
    BY <1>2, <2>1 DEF Assign
  <2>3. \A f \in Editors : (holder = f <=> pc[f] \in {"opening", "dumping", "renaming"})'
    BY <1>2 DEF Assign
  <2> QED BY <1>2, <2>2, <2>3 DEF Assign
<1>3. CASE OpenTmp(e)
  BY <1>3 DEF OpenTmp
<1>4. CASE Dump(e)
  BY <1>4 DEF Dump
<1>5. CASE Rename(e)
  BY <1>5 DEF Rename
<1>6. CASE WriteFails(e)
  BY <1>6 DEF WriteFails
<1> QED BY <1>1, <1>2, <1>3, <1>4, <1>5, <1>6 DEF Edit

LEMMA ForgetTypes == SettingsType /\ Forget => SettingsType'
BY SettingsAssumption DEF SettingsType, Steps, Forget

LEMMA LoadTypes == SettingsType /\ Load => SettingsType'
<1>1. SettingsType /\ Load => memory' \in Backends \cup {Absent} /\ behind' \in BOOLEAN
  BY ReadingTypes, Zenon DEF Load
<1> QED BY <1>1 DEF SettingsType, Load

---------------------------------------------------------------------------
(* Where the saved value is *)

\* The file holds the last value whose save ended well.  A request on its way
\* has a value; from the change of the dictionary until it leaves the lock the
\* dictionary holds that value, and what it is about to rename does as well.
\* Nobody saves before a start.
SavedInv ==
    /\ SettingsType
    /\ file = acked
    /\ \A e \in Editors :
         /\ pc[e] # "idle" => want[e] \in Backends /\ phase = "serving"
         /\ pc[e] \in {"opening", "dumping", "renaming"} => memory = want[e]
         /\ pc[e] = "renaming" => tmp = want[e]
    /\ phase # "down" /\ holder = Nobody /\ ~behind => memory = Reading

LEMMA InitSaved == Init => SavedInv
BY SettingsAssumption DEF Init, SettingsInit, SavedInv, SettingsType, Steps

LEMMA SaveSaved ==
    ASSUME SavedInv, NEW e \in Editors, Save(e)
    PROVE  SavedInv'
<1> USE SettingsAssumption DEF SavedInv
<1>1. SettingsType'
  BY EditTypes DEF Save
<1>2. phase = "serving" /\ phase' = phase
  BY DEF Save
<1> USE <1>1, <1>2 DEF SettingsType, Steps, Reading
<1>3. ASSUME NEW value \in Backends, Ask(e, value) PROVE SavedInv'
  BY <1>3 DEF Ask
<1>4. CASE Assign(e)
  BY <1>4 DEF Assign
<1>5. CASE OpenTmp(e)
  BY <1>5 DEF OpenTmp
<1>6. CASE Dump(e)
  BY <1>6 DEF Dump
<1>7. CASE Rename(e)
  BY <1>7 DEF Rename
<1>8. CASE WriteFails(e)
  BY <1>8 DEF WriteFails
<1> QED BY <1>3, <1>4, <1>5, <1>6, <1>7, <1>8 DEF Save, Edit

LEMMA ExitSaved == SavedInv /\ Exit => SavedInv'
BY ForgetTypes DEF SavedInv, Exit, Forget

LEMMA StartSaved == SavedInv /\ Start => SavedInv'
<1> SUFFICES ASSUME SavedInv, Start PROVE SavedInv'
  OBVIOUS
<1>1. SettingsType' /\ Load
  BY LoadTypes DEF SavedInv, Start
<1>2. Reading' = Reading /\ (behind' \/ memory' = Reading)
  BY <1>1 DEF Load, Reading
<1>3. \A e \in Editors : pc[e] = "idle"
  BY DEF SavedInv, Start
<1> QED BY <1>1, <1>2, <1>3 DEF SavedInv, Load

LEMMA StepSaved == SavedInv /\ [Next]_vars => SavedInv'
<1> SUFFICES ASSUME SavedInv, [Next]_vars PROVE SavedInv'
  OBVIOUS
<1>1. CASE Start
  BY <1>1, StartSaved
<1>2. CASE /\ phase \notin {"down", "serving"} /\ phase' # "down" /\ UNCHANGED settings
  BY <1>2 DEF SavedInv, SettingsType, settings, Reading
<1>3. CASE Exit
  BY <1>3, ExitSaved
<1>4. ASSUME NEW e \in Editors, Save(e) PROVE SavedInv'
  BY <1>4, SaveSaved
<1>5. CASE UNCHANGED vars
  BY <1>5 DEF vars, SavedInv, SettingsType, settings, Reading
<1>6. OpenDetector \/ OpenEmbedder \/ HailoFails \/ Resolve \/ LoadModels
        => /\ phase \notin {"down", "serving"} /\ phase' # "down" /\ UNCHANGED settings
  BY DEF OpenDetector, OpenEmbedder, HailoFails, Resolve, LoadModels
<1>7. LoadFails \/ Shutdown \/ Crash => Exit
  BY DEF LoadFails, Shutdown, Crash
<1> QED BY <1>1, <1>2, <1>3, <1>4, <1>5, <1>6, <1>7 DEF Next, Build

LEMMA Saved == Spec => []SavedInv
BY InitSaved, StepSaved, PTL DEF Spec

---------------------------------------------------------------------------

LEMMA InitTypes == Init => TypeOK
<1> SUFFICES ASSUME Init PROVE TypeOK
  OBVIOUS
<1>1. hailo \in BOOLEAN /\ npu \in BOOLEAN /\ error \in BOOLEAN
  BY Zenon DEF Init
<1>2. SettingsType
  BY InitSaved DEF SavedInv
<1> QED BY <1>1, <1>2, BackendAssumption DEF Init, TypeOK

LEMMA ExitTypes ==
    ASSUME TypeOK, Exit, SettingsType', crashes' \in 0..MaxCrashes
    PROVE  TypeOK'
BY DEF TypeOK, Exit, deployment

LEMMA StepTypes == TypeOK /\ SavedInv /\ [Next]_vars => TypeOK'
<1> SUFFICES ASSUME TypeOK, SavedInv, [Next]_vars PROVE TypeOK'
  OBVIOUS
<1>0. SettingsType'
  BY StepSaved DEF SavedInv
<1> USE <1>0
<1>1. CASE Start
  <2>1. memory' \in Backends \cup {Absent} /\ default' = default
    BY <1>1 DEF SettingsType, Start, deployment
  <2>2. Choice(memory') \in Choices
    BY <2>1, ChoiceTypes DEF TypeOK
  <2> QED BY <1>1, <2>2 DEF TypeOK, Start, deployment
<1>2. CASE OpenDetector
  BY <1>2 DEF TypeOK, OpenDetector, deployment, flags, Networks
<1>3. CASE OpenEmbedder
  BY <1>3 DEF TypeOK, OpenEmbedder, deployment, Networks
<1>4. CASE HailoFails
  BY <1>4 DEF TypeOK, HailoFails, deployment
<1>5. CASE Resolve
  <2>1. PICK present \in BOOLEAN :
          /\ npu' = (active = "npu" /\ present)
          /\ providers' = IF active = "npu" /\ present THEN "npu" ELSE "cpu"
    BY <1>5 DEF Resolve
  <2>2. npu' \in BOOLEAN
    BY <2>1, Zenon
  <2> QED BY <1>5, <2>1, <2>2 DEF TypeOK, Resolve, deployment
<1>6. CASE LoadModels
  BY <1>6 DEF TypeOK, LoadModels, deployment, flags
<1>7. CASE LoadFails \/ Shutdown
  BY <1>7, ExitTypes DEF LoadFails, Shutdown, TypeOK
<1>8. CASE Crash
  BY <1>8, ExitTypes, BackendAssumption DEF Crash, TypeOK
<1>9. ASSUME NEW e \in Editors, Save(e) PROVE TypeOK'
  BY <1>9 DEF TypeOK, Save, deployment, flags
<1>10. CASE UNCHANGED vars
  BY <1>10 DEF TypeOK, vars, deployment, flags
<1> QED BY <1>1, <1>2, <1>3, <1>4, <1>5, <1>6, <1>7, <1>8, <1>9, <1>10 DEF Next, Build

\* Every variable keeps its type.
THEOREM Typing == Spec => []TypeOK
<1> QED BY InitTypes, StepTypes, Saved, PTL DEF Spec

---------------------------------------------------------------------------

\* requires_restart tells whether the file asks for another backend than this
\* start did, unless the last save failed or this start could not read the file
\* (Pipeline.inference_info over RuntimeSettings.set).
THEOREM RestartTold == Spec => []RestartPromise
<1>1. SavedInv => RestartPromise
  BY DEF SavedInv, RestartPromise, RequiresRestart
<1> QED BY Saved, <1>1, PTL

LEMMA StartsConfirmed ==
    SavedInv /\ [Next]_vars =>
        (phase = "down" /\ phase' # "down" => active' = IF behind' THEN default ELSE Choice(acked))
<1> SUFFICES ASSUME SavedInv, [Next]_vars, phase = "down", phase' # "down"
             PROVE  active' = IF behind' THEN default ELSE Choice(acked)
  OBVIOUS
<1>1. Start
  BY DEF Next, Build, OpenDetector, OpenEmbedder, HailoFails, Resolve, LoadModels,
         LoadFails, Shutdown, Crash, Exit, Save, vars
<1>2. acked \in Backends \cup {Absent} /\ file = acked
  BY DEF SavedInv, SettingsType
<1>3. memory' = IF behind' THEN Absent ELSE acked
  BY <1>1, <1>2, SettingsAssumption DEF Start, Load, Reading
<1>4. default' = default
  BY <1>1 DEF Start, deployment
<1> QED BY <1>1, <1>3, <1>4 DEF Start, Choice

\* A start asks for the last choice whose save ended well, and for the default
\* when there is none or the file cannot be read
\* (RuntimeSettings.__init__ and set, Pipeline.__init__).
THEOREM LastChoiceApplies == Spec => ConfirmedApplies
<1>1. SavedInv /\ [Next]_vars =>
        [phase = "down" /\ phase' # "down" => active' = IF behind' THEN default ELSE Choice(acked)]_vars
  BY StartsConfirmed
<1> QED BY Saved, <1>1, PTL DEF Spec, ConfirmedApplies

---------------------------------------------------------------------------
(* What runs *)

\* The flags at every stage of a start.
FlagsInv ==
    /\ phase \in {"hailo", "embedder", "onnx"} => ~hailo /\ ~npu
    /\ phase \in {"down", "hailo", "embedder"} => ~error /\ ~hailo /\ ~npu
    /\ phase \in {"hailo", "embedder"} => active = "hailo"
    /\ phase = "embedder" => "detection" \in open
    /\ phase \in {"onnx", "loading"} => ~hailo /\ (error <=> active = "hailo")
    /\ phase = "loading" => providers = IF npu THEN "npu" ELSE "cpu"
    /\ RunsAsShown

LEMMA InitFlags == Init => FlagsInv
BY DEF Init, FlagsInv, RunsAsShown

LEMMA StepFlags == TypeOK /\ FlagsInv /\ [Next]_vars => FlagsInv'
<1> SUFFICES ASSUME TypeOK, FlagsInv, [Next]_vars PROVE FlagsInv'
  OBVIOUS
<1> USE DEF TypeOK, FlagsInv, RunsAsShown, Running
<1>1. CASE Start
  BY <1>1 DEF Start
<1>2. CASE OpenDetector
  BY <1>2 DEF OpenDetector, flags
<1>3. CASE OpenEmbedder
  BY <1>3 DEF OpenEmbedder
<1>4. CASE HailoFails
  BY <1>4 DEF HailoFails
<1>5. CASE Resolve
  BY <1>5 DEF Resolve
<1>6. CASE LoadModels
  BY <1>6 DEF LoadModels, flags
<1>7. CASE LoadFails \/ Shutdown \/ Crash
  BY <1>7 DEF LoadFails, Shutdown, Crash, Exit
<1>8. ASSUME NEW e \in Editors, Save(e) PROVE FlagsInv'
  BY <1>8 DEF Save, flags
<1>9. CASE UNCHANGED vars
  BY <1>9 DEF vars, flags
<1> QED BY <1>1, <1>2, <1>3, <1>4, <1>5, <1>6, <1>7, <1>8, <1>9 DEF Next, Build

\* What the page shows as running is what the models run on, but that it says
\* npu too when onnxruntime fell back from the NPU it was asked for
\* (Pipeline._build_models and inference_info).
THEOREM ShowsWhatRuns == Spec => []RunsAsShown
<1>1. Spec => []FlagsInv
  BY Typing, InitFlags, StepFlags, PTL DEF Spec
<1>2. FlagsInv => RunsAsShown
  BY DEF FlagsInv
<1> QED BY <1>1, <1>2, PTL
==============================================================================
