---------------------------- MODULE VoiceService ----------------------------
(***************************************************************************)
(* lib/services/voice_service.dart, with the Dart half of the plugin it    *)
(* calls (plugins/ffi_plugin/lib/ffi_plugin.dart and ffi_loader.dart).     *)
(*                                                                         *)
(* Dart runs one event at a time: the code between two awaits is one step, *)
(* and an await that only waits for the microtask queue ends no step.  An  *)
(* await of a file operation is two steps: the operation on the I/O thread *)
(* (IoEffect) and, later, the rest of the coroutine (Resume).  Every       *)
(* activation of initModel, switchModel or dispose is a task; tasks        *)
(* interleave, because no caller waits for another.  Native calls are      *)
(* synchronous; their outcomes are those of EngineContract.                *)
(*                                                                         *)
(* The file '/tmp/model_<type>.tflite' is named by its type.  The engine   *)
(* maps the file it loads into memory and keeps the mapping as long as it  *)
(* holds the model.                                                        *)
(***************************************************************************)
EXTENDS EngineContract

CONSTANTS
    Task,           \* coroutine slots: how many calls may overlap
    DefaultType,    \* MODEL_FLOAT32
    SwitchTypes,    \* what clients pass to switchModel
    SetTypes,       \* what clients pass to setModelType
    Libraries,      \* number of paths loadFfiEngine looks at
    Samples,        \* length of the buffer _runInference hands over
    IoFailures,     \* may the file system, the assets or the library fail?
    Disposable,     \* does a client call dispose?
    MaxInits,       \* calls of initModel by the client, per process
    MaxTimers,      \* periodic timers alive at once
    MaxPending      \* inference events queued at once

ASSUME TypeAssumption ==
    /\ DefaultType \in File
    /\ SwitchTypes \subseteq File
    /\ Libraries \in Nat \ {0}
    /\ Samples \in Nat
    /\ IoFailures \in BOOLEAN /\ Disposable \in BOOLEAN
    /\ MaxInits \in Nat /\ MaxTimers \in Nat /\ MaxPending \in Nat

ASSUME NullAssumption == Null \notin Nat

VARIABLES
    isListening, inferenceResult,           \* public fields
    isInitialized, ffiInitialized,          \* _isInitialized, _ffiInitialized
    timer,                                  \* _timer
    selectedModelType, currentModelFile,    \* _selectedModelType, ...
    bindings,       \* has `late final _bindings` been assigned?
    engine,         \* what the native statics hold
    mapping,        \* the path whose file the engine has mapped, if any
    intact,         \* is the mapped file what the engine verified?
    disk,           \* contents of the temporary files
    task,           \* the coroutines
    timers,         \* periodic timers that still fire
    pending,        \* queued inference events
    inits,          \* calls of initModel so far
    outcome         \* the answer this step gives to a caller, if any

fields ==
    <<isInitialized, ffiInitialized, selectedModelType, currentModelFile>>
native == <<bindings, engine, mapping, intact>>
listening == <<isListening, inferenceResult, timer, timers, pending>>
vars == <<fields, native, listening, disk, task, inits, outcome>>

(* A temporary file is missing, opened but not written, or a model.        *)
Contents == {"absent", "partial"} \union File

ASSUME ContentsAssumption == {"absent", "partial"} \intersect File = {}

NoTask == [op |-> "none", pc |-> "idle", io |-> "none", newType |-> Null,
           asset |-> Null, path |-> Null, linked |-> FALSE, lib |-> 1]

Tasks == [op : {"none", "init", "switch", "dispose"},
          pc : {"idle", "exists_old", "delete_old", "ffi", "ffi_open",
                "asset", "open", "write", "exists", "length"},
          io : {"none", "pending", "yes", "no", "error"},
          newType : File \union {Null},
          asset : File \union {Null},
          path : File \union {Null},
          linked : BOOLEAN,         \* does its open file have a name?
          lib : 1..Libraries]       \* the library path it looks at

NoOutcome == [op |-> "none", type |-> Null, value |-> "none"]

Alive == engine.phase # "crashed"

-----------------------------------------------------------------------------
(* Coroutines.  A definition named X_Fault is X with a fault in it; it     *)
(* shows that a property can fail.                                         *)

Silent == outcome' = NoOutcome

(* The coroutine of task t suspends at label with its record updated.      *)
Suspend(t, rec) ==
    /\ task' = [task EXCEPT ![t] = rec]
    /\ Silent

Answer(t, value) ==
    /\ task' = [task EXCEPT ![t] = NoTask]
    /\ outcome' = [op |-> task[t].op, type |-> task[t].newType,
                   value |-> value]

(* A file operation is handed to the I/O thread.                           *)
Await(rec, label, p) ==
    [rec EXCEPT !.pc = label, !.io = "pending", !.path = p, !.linked = FALSE]

(***************************************************************************)
(* The synchronous beginning of initModel, with `type` selected: the asset *)
(* path is fixed here, and _initFfi awaits only when the plugin has not    *)
(* been initialised.                                                       *)
(***************************************************************************)
StartInit_StaleType(rec, type) ==
    [Await(rec, IF ffiInitialized THEN "asset" ELSE "ffi", Null)
       EXCEPT !.asset = selectedModelType, !.lib = 1]

StartInit(rec, type) ==
    [Await(rec, IF ffiInitialized THEN "asset" ELSE "ffi", Null)
       EXCEPT !.asset = type, !.lib = 1]

(* unload_model through bindings that may not have been assigned: the      *)
(* LateInitializationError is caught.                                      *)
UnloadModel_Skipped == UNCHANGED <<engine, mapping, intact>>

UnloadModel ==
    IF bindings
    THEN engine' = Empty /\ mapping' = Null /\ intact' = TRUE
    ELSE UNCHANGED <<engine, mapping, intact>>

-----------------------------------------------------------------------------
(* Calls by clients                                                        *)

initModel(t) ==
    /\ task[t].pc = "idle"
    /\ inits < MaxInits
    /\ inits' = inits + 1
    /\ Suspend(t, StartInit([NoTask EXCEPT !.op = "init"], selectedModelType))
    /\ UNCHANGED <<fields, native, listening, disk>>

(* What switchModel and dispose do with the previous temporary file.  (An  *)
(* initialised service has one: see ServiceBacked.)                        *)
RemoveOld(rec) == Await(rec, "exists_old", currentModelFile)

switchModel(t, newType) ==
    /\ task[t].pc = "idle"
    /\ LET rec == [NoTask EXCEPT !.op = "switch", !.newType = newType]
           Reply(value) ==
               /\ outcome' = [op |-> "switch", type |-> newType,
                              value |-> value]
               /\ UNCHANGED <<task, native>>
       IN  \/ ~isInitialized /\ Reply("false")
           \/ isInitialized /\ newType = selectedModelType /\ Reply("true")
           \/ /\ isInitialized /\ newType # selectedModelType
              /\ UnloadModel
              /\ Suspend(t, RemoveOld(rec))
              /\ UNCHANGED bindings
    /\ UNCHANGED <<fields, listening, disk, inits>>

setModelType_Unchecked(type) ==
    /\ selectedModelType' = type
    /\ Silent
    /\ UNCHANGED <<isInitialized, ffiInitialized, currentModelFile, native,
                   listening, disk, task, inits>>

setModelType(type) ==
    /\ selectedModelType' = IF type \in File THEN type ELSE selectedModelType
    /\ Silent
    /\ UNCHANGED <<isInitialized, ffiInitialized, currentModelFile, native,
                   listening, disk, task, inits>>

stopListening_HandleKept ==
    /\ isListening' = FALSE
    /\ timers' = timers \ {timer}
    /\ UNCHANGED timer

stopListening ==
    /\ isListening' = FALSE
    /\ timers' = timers \ {timer}
    /\ timer' = Null

startListening ==
    /\ isInitialized
    /\ isListening' = TRUE
    /\ \E id \in 1..MaxTimers :
         /\ id \notin timers
         /\ timers' = timers \union {id}
         /\ timer' = id

StartListening ==
    /\ startListening
    /\ Silent
    /\ UNCHANGED <<fields, native, inferenceResult, pending, disk, task,
                   inits>>

StopListening ==
    /\ stopListening
    /\ Silent
    /\ UNCHANGED <<fields, native, inferenceResult, pending, disk, task,
                   inits>>

toggleListening ==
    /\ isInitialized
    /\ IF isListening THEN stopListening ELSE startListening
    /\ Silent
    /\ UNCHANGED <<fields, native, inferenceResult, pending, disk, task,
                   inits>>

dispose(t) ==
    /\ task[t].pc = "idle"
    /\ Disposable
    /\ stopListening
    /\ UnloadModel
    /\ LET rec == [NoTask EXCEPT !.op = "dispose"]
       IN  IF currentModelFile # Null
           THEN Suspend(t, RemoveOld(rec)) /\ UNCHANGED fields
           ELSE /\ isInitialized' = FALSE
                /\ ffiInitialized' = FALSE
                /\ outcome' = [op |-> "dispose", type |-> Null,
                               value |-> "void"]
                /\ UNCHANGED <<task, selectedModelType, currentModelFile>>
    /\ UNCHANGED <<bindings, inferenceResult, pending, disk, inits>>

-----------------------------------------------------------------------------
(* The I/O thread                                                          *)

Done(t, io) == [task EXCEPT ![t].io = io]

Exists(t) == disk[task[t].path] # "absent"

(* File.exists                                                             *)
ExistsEffect(t) ==
    /\ task[t].pc \in {"exists_old", "exists"}
    /\ task' = Done(t, IF Exists(t) THEN "yes" ELSE "no")
    /\ UNCHANGED <<disk, mapping, intact>>

(* File.length throws when the file has gone.                              *)
LengthEffect(t) ==
    /\ task[t].pc = "length"
    /\ task' = Done(t, IF Exists(t) THEN "yes" ELSE "error")
    /\ UNCHANGED <<disk, mapping, intact>>

(* File.delete throws when the file has gone or cannot be removed.         *)
(* Whoever has the file open or mapped keeps it, without its name.         *)
DeleteEffect(t) ==
    LET p == task[t].path IN
    /\ task[t].pc = "delete_old"
    /\ \/ /\ Exists(t)
          /\ disk' = [disk EXCEPT ![p] = "absent"]
          /\ mapping' = IF mapping = p THEN Null ELSE mapping
          /\ task' = [s \in Task |->
                        IF s = t THEN Done(t, "yes")[t]
                        ELSE IF task[s].path = p
                        THEN [task[s] EXCEPT !.linked = FALSE]
                        ELSE task[s]]
       \/ /\ IoFailures \/ ~Exists(t)
          /\ task' = Done(t, "error")
          /\ UNCHANGED <<disk, mapping>>
    /\ UNCHANGED intact

(* File.writeAsBytes opens the file, creating or truncating it ...         *)
OpenEffect(t) ==
    LET p == task[t].path IN
    /\ task[t].pc = "open"
    /\ \/ /\ IoFailures
          /\ task' = Done(t, "error")
          /\ UNCHANGED <<disk, intact>>
       \/ /\ disk' = [disk EXCEPT ![p] = "partial"]
          /\ intact' = (intact /\ mapping # p)
          /\ task' = [task EXCEPT ![t].pc = "write", ![t].linked = TRUE]
    /\ UNCHANGED mapping

(* ... and writes all bytes at once.  A second writer that opened the same *)
(* file overwrites from the start without truncating.                      *)
WriteEffect(t) ==
    LET p == task[t].path
        c == task[t].asset IN
    /\ task[t].pc = "write"
    /\ \/ /\ IoFailures
          /\ task' = Done(t, "error")
          /\ UNCHANGED <<disk, intact>>
       \/ /\ task' = Done(t, "yes")
          /\ IF task[t].linked
             THEN /\ \/ disk' = [disk EXCEPT ![p] = c]
                     \/ /\ disk[p] \notin {"partial", c}
                        /\ disk' = [disk EXCEPT ![p] = "partial"]
                  /\ intact' = (intact /\ mapping # p)
             ELSE UNCHANGED <<disk, intact>>
    /\ UNCHANGED mapping

IoEffect(t) ==
    /\ task[t].io = "pending"
    /\ \/ ExistsEffect(t) \/ LengthEffect(t) \/ DeleteEffect(t)
       \/ OpenEffect(t) \/ WriteEffect(t)
    /\ Silent
    /\ UNCHANGED <<fields, bindings, engine, listening, inits>>

-----------------------------------------------------------------------------
(* The event loop resumes a coroutine                                      *)

(* The old file is out of the way.                                         *)
AfterRemoval(t) ==
    IF task[t].op = "switch"
    THEN /\ selectedModelType' = task[t].newType
         /\ Suspend(t, StartInit(task[t], task[t].newType))
         /\ UNCHANGED <<isInitialized, ffiInitialized, currentModelFile>>
    ELSE /\ isInitialized' = FALSE
         /\ ffiInitialized' = FALSE
         /\ Answer(t, "void")
         /\ UNCHANGED <<selectedModelType, currentModelFile>>

ExistsOldDone_Unchecked(t) ==
    /\ task[t].pc = "exists_old"
    /\ Suspend(t, Await(task[t], "delete_old", currentModelFile))
    /\ UNCHANGED <<fields, bindings, engine, mapping, intact>>

ExistsOldDone_NotDeleting(t) ==
    /\ task[t].pc = "exists_old"
    /\ AfterRemoval(t)
    /\ UNCHANGED <<bindings, engine, mapping, intact>>

(* _currentModelFile is read again for the delete.                         *)
ExistsOldDone(t) ==
    /\ task[t].pc = "exists_old"
    /\ IF task[t].io = "yes"
       THEN /\ Suspend(t, Await(task[t], "delete_old", currentModelFile))
            /\ UNCHANGED fields
       ELSE AfterRemoval(t)
    /\ UNCHANGED <<bindings, engine, mapping, intact>>

(* An exception of the delete leaves switchModel and dispose.              *)
DeleteOldDone(t) ==
    /\ task[t].pc = "delete_old"
    /\ IF task[t].io = "yes"
       THEN AfterRemoval(t)
       ELSE Answer(t, "throw") /\ UNCHANGED fields
    /\ UNCHANGED <<bindings, engine, mapping, intact>>

(***************************************************************************)
(* loadFfiEngine looks at one path after the other.  The first file that   *)
(* exists decides: stat, chmod and open follow, and the paths behind it    *)
(* are not looked at any more.  Without a file it throws.                  *)
(***************************************************************************)
FfiProbe_Rewinding(t) ==
    /\ task[t].pc = "ffi"
    /\ \/ Suspend(t, [task[t] EXCEPT !.lib = 1 + (@ % Libraries)])
       \/ Suspend(t, Await(task[t], "ffi_open", Null))
    /\ UNCHANGED <<fields, native>>

FfiProbe(t) ==
    /\ task[t].pc = "ffi"
    /\ \/ /\ task[t].lib < Libraries
          /\ Suspend(t, [task[t] EXCEPT !.lib = @ + 1])
       \/ IoFailures /\ task[t].lib = Libraries /\ Answer(t, "false")
       \/ Suspend(t, Await(task[t], "ffi_open", Null))
    /\ UNCHANGED <<fields, native>>

(* initFfiPlugin: chmod or the opening of the library throws, or `late     *)
(* final _bindings` is assigned; a second assignment throws.               *)
FfiDone(t) ==
    /\ task[t].pc = "ffi_open"
    /\ \/ /\ IoFailures \/ bindings
          /\ Answer(t, "false")
          /\ UNCHANGED <<bindings, ffiInitialized>>
       \/ /\ ~bindings
          /\ bindings' = TRUE
          /\ ffiInitialized' = TRUE
          /\ Suspend(t, Await(task[t], "asset", Null))
    /\ UNCHANGED <<isInitialized, selectedModelType, currentModelFile,
                   engine, mapping, intact>>

(* rootBundle.load: the file is named after the type selected by now.      *)
AssetDone(t) ==
    /\ task[t].pc = "asset"
    /\ \/ IoFailures /\ Answer(t, "false")
       \/ Suspend(t, Await(task[t], "open", selectedModelType))
    /\ UNCHANGED <<fields, native>>

WriteDone(t) ==
    /\ task[t].pc \in {"open", "write"}
    /\ IF task[t].io = "yes"
       THEN Suspend(t, Await(task[t], "exists", task[t].path))
       ELSE Answer(t, "false")
    /\ UNCHANGED <<fields, native>>

ExistsDone(t) ==
    /\ task[t].pc = "exists"
    /\ IF task[t].io = "yes"
       THEN Suspend(t, Await(task[t], "length", task[t].path))
       ELSE Answer(t, "false")
    /\ UNCHANGED <<fields, native>>

RememberFile_Dropped(t) == UNCHANGED currentModelFile

RememberFile_Reselected(t) == currentModelFile' = selectedModelType

RememberFile(t) == currentModelFile' = task[t].path

(* load_model on what the file holds now.                                  *)
Load(t) ==
    LET c == disk[task[t].path] IN
    IF c \in File THEN LoadOutcomes(c) ELSE {<<Empty, 0>>}

LengthDone(t) ==
    /\ task[t].pc = "length"
    /\ \/ /\ task[t].io = "error"
          /\ Answer(t, "false")
          /\ UNCHANGED <<fields, native>>
       \/ /\ task[t].io = "yes"
          /\ RememberFile(t)
          /\ \E o \in Load(t) :
               /\ engine' = o[1]
               /\ mapping' = IF o[1] = Empty THEN Null ELSE task[t].path
               /\ intact' = TRUE
               /\ isInitialized' = (isInitialized \/ o[2] # 0)
               /\ Answer(t, IF o[2] # 0 THEN "true" ELSE "false")
          /\ UNCHANGED <<bindings, ffiInitialized, selectedModelType>>

Resume(t) ==
    /\ \/ /\ task[t].io \in {"yes", "no", "error"}
          /\ \/ ExistsOldDone(t) \/ DeleteOldDone(t) \/ WriteDone(t)
             \/ ExistsDone(t) \/ LengthDone(t)
       \/ FfiProbe(t) \/ FfiDone(t)
       \/ AssetDone(t)
    /\ UNCHANGED <<listening, disk, inits>>

-----------------------------------------------------------------------------
(* Listening                                                               *)

(* A periodic timer fires: _runInference up to the await.                  *)
Tick ==
    /\ timers # {}
    /\ isInitialized
    /\ pending < MaxPending
    /\ pending' = pending + 1
    /\ Silent
    /\ UNCHANGED <<fields, native, isListening, inferenceResult, timer, timers,
                   disk, task, inits>>

(* The queued native call runs, and its result is published.  Through      *)
(* bindings that are not there it would throw, and be caught.              *)
RunInference ==
    /\ pending > 0
    /\ pending' = pending - 1
    /\ IF bindings
       THEN \E o \in RunOutcomes(engine, Samples) :
              /\ engine' = o[1]
              /\ inferenceResult' = o[2]
       ELSE UNCHANGED <<engine, inferenceResult>>
    /\ Silent
    /\ UNCHANGED <<fields, bindings, mapping, intact, isListening, timer,
                   timers, disk, task, inits>>

-----------------------------------------------------------------------------
(* The specification                                                       *)

Init ==
    /\ isListening = FALSE
    /\ inferenceResult = Null
    /\ isInitialized = FALSE
    /\ ffiInitialized = FALSE
    /\ timer = Null
    /\ selectedModelType = DefaultType
    /\ currentModelFile = Null
    /\ bindings = FALSE
    /\ engine = Empty
    /\ mapping = Null
    /\ intact = TRUE
    /\ disk = [f \in File |-> "absent"]
    /\ task = [t \in Task |-> NoTask]
    /\ timers = {}
    /\ pending = 0
    /\ inits = 0
    /\ outcome = NoOutcome

(* The process dies, at any moment, and is started again: the fields have  *)
(* their initial values, the temporary files are what they were.           *)
Restart ==
    /\ isListening' = FALSE
    /\ inferenceResult' = Null
    /\ isInitialized' = FALSE
    /\ ffiInitialized' = FALSE
    /\ timer' = Null
    /\ selectedModelType' = DefaultType
    /\ currentModelFile' = Null
    /\ bindings' = FALSE
    /\ engine' = Empty
    /\ mapping' = Null
    /\ intact' = TRUE
    /\ task' = [t \in Task |-> NoTask]
    /\ timers' = {}
    /\ pending' = 0
    /\ inits' = 0
    /\ Silent
    /\ UNCHANGED disk

Call(t) ==
    \/ initModel(t)
    \/ \E newType \in SwitchTypes : switchModel(t, newType)
    \/ dispose(t)

SyncCall ==
    \/ \E type \in SetTypes : setModelType(type)
    \/ StartListening \/ StopListening \/ toggleListening

Next ==
    \/ Alive /\ \E t \in Task : Call(t) \/ IoEffect(t) \/ Resume(t)
    \/ Alive /\ (SyncCall \/ Tick \/ RunInference)
    \/ Restart

(* The I/O thread serves its queue and the event loop runs its events; no  *)
(* client has to call anything, and no timer has to fire.                  *)
Spec ==
    /\ Init /\ [][Next]_vars
    /\ \A t \in Task : WF_vars(Alive /\ (IoEffect(t) \/ Resume(t)))

-----------------------------------------------------------------------------
(* Properties of every interleaving                                        *)

(* Every variable has the type of the field or resource it stands for.     *)
TypeOK ==
    /\ {isListening, isInitialized, ffiInitialized, bindings, intact}
          \subseteq BOOLEAN
    /\ inferenceResult \in Int \union {Null}
    /\ timers \subseteq 1..MaxTimers
    /\ timer \in 1..MaxTimers \union {Null}
    /\ selectedModelType \in File
    /\ currentModelFile \in File \union {Null}
    /\ engine \in EngineState
    /\ mapping \in File \union {Null}
    /\ disk \in [File -> Contents]
    /\ task \in [Task -> Tasks]
    /\ pending \in 0..MaxPending
    /\ inits \in 0..MaxInits

(***************************************************************************)
(* TimerHandle: the service listens exactly when _timer holds a timer that *)
(* still fires, so that stopListening always has something to cancel.      *)
(***************************************************************************)
TimerHandle ==
    /\ isListening <=> timer # Null
    /\ timer # Null => timer \in timers

(***************************************************************************)
(* ServiceBacked: once initialised the service has the bindings that its   *)
(* native calls go through and a temporary file to remove in switchModel,  *)
(* whatever call overlaps with whatever other, dispose included.           *)
(***************************************************************************)
ServiceBacked ==
    isInitialized => bindings /\ currentModelFile # Null

(***************************************************************************)
(* TrackedMapping: the file the engine has mapped, as long as it has its   *)
(* name, is _currentModelFile, the one the next switchModel removes; two   *)
(* overlapping loads never leave the service looking at the wrong file.    *)
(***************************************************************************)
TrackedMapping ==
    mapping # Null => mapping = currentModelFile

(***************************************************************************)
(* CallsReturn: initModel, switchModel and dispose come back to whoever    *)
(* awaits them, on every path through their exceptions, unless a native    *)
(* call takes the process down.                                            *)
(***************************************************************************)
CallsReturn ==
    \A t \in Task : task[t].pc # "idle" ~> (task[t].pc = "idle" \/ ~Alive)

-----------------------------------------------------------------------------
(* Properties of one call at a time; overlapping calls break them          *)

Holding == engine.phase \in {"model", "broken", "ready"}

(***************************************************************************)
(* FileOutlivesModel: as long as the engine holds a model, its temporary   *)
(* file is neither removed nor opened for writing: switchModel and dispose *)
(* unload first.                                                           *)
(***************************************************************************)
FileOutlivesModel == Holding => mapping # Null /\ intact

(***************************************************************************)
(* ResultLabel: the class an inference publishes was computed by the model *)
(* _runInference names beside it, the selected one, although the call was  *)
(* queued earlier and switches, failures and dispose come in between.      *)
(***************************************************************************)
ResultLabel ==
    [][pending' < pending /\ inferenceResult' # Null /\ inferenceResult' >= 0
         => engine = [phase |-> "ready", file |-> selectedModelType]]_vars

Quiet == \A t \in Task : task[t].pc = "idle"

(***************************************************************************)
(* LoadedIsSelected: between calls, a model that is ready is the one the   *)
(* user sees as selected, also when earlier switches failed half-way or    *)
(* the process died and left its files behind.                             *)
(***************************************************************************)
LoadedIsSelected ==
    Quiet /\ engine.phase = "ready" => engine.file = selectedModelType

Present(f) == f # Null /\ disk[f] # "absent"

(***************************************************************************)
(* SwitchAnswers: the exception that leaves switchModel is that of a file  *)
(* that could not be deleted, and the call can be made again: the service  *)
(* is initialised, the old type is still selected and its file is still    *)
(* there and remembered, though its model is unloaded.  Any other call     *)
(* answers true or false and has selected the type, unless it did nothing. *)
(***************************************************************************)
SwitchAnswers ==
    outcome.op = "switch" =>
        IF outcome.value = "throw"
        THEN /\ isInitialized /\ engine = Empty
             /\ selectedModelType # outcome.type
             /\ Present(currentModelFile)
        ELSE /\ outcome.value \in {"true", "false"}
             /\ isInitialized => selectedModelType = outcome.type

(***************************************************************************)
(* DisposeReleases: dispose leaves nothing loaded.  When it completes the  *)
(* service is not initialised and its temporary file is gone; when it      *)
(* throws, the file could not be deleted and is remembered, so that        *)
(* another dispose can remove it.                                          *)
(***************************************************************************)
DisposeReleases ==
    outcome.op = "dispose" =>
        /\ engine = Empty
        /\ IF outcome.value = "void"
           THEN ~isInitialized /\ ~ffiInitialized /\ ~Present(currentModelFile)
           ELSE Present(currentModelFile)

(***************************************************************************)
(* ServiceRefinement: one call at a time, the service is the abstract one: *)
(* a type is selected only when nothing is loaded, only the selected type  *)
(* is loaded, and a result is a class of the model loaded at that moment.  *)
(***************************************************************************)
Promised == INSTANCE Service WITH
    loaded    <- IF engine.phase = "ready" THEN engine.file ELSE Null,
    selected  <- selectedModelType,
    listening <- isListening,
    result    <- inferenceResult

ServiceRefinement == Promised!Spec

-----------------------------------------------------------------------------
(* What the application says of the service, and the service does not do   *)

(***************************************************************************)
(* MappedFileIntact: the contents of the model file do not change while a  *)
(* model or an interpreter made from it lives, as the C API demands.       *)
(***************************************************************************)
MappedFileIntact == Holding => intact

(***************************************************************************)
(* SwitchTruth: a switch that answers true has the wanted model ready.     *)
(***************************************************************************)
SwitchTruth ==
    outcome.op = "switch" /\ outcome.value = "true" =>
        engine.phase = "ready" /\ engine.file = outcome.type

(***************************************************************************)
(* StopSilences: a service that has stopped listening has no timer left    *)
(* that runs inferences.                                                   *)
(***************************************************************************)
StopSilences == ~isListening => timers = {}
=============================================================================
