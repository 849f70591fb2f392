-------------------------- MODULE SequentialProofs --------------------------
(***************************************************************************)
(* Theorems about VoiceService for clients that make one call at a time,   *)
(* call initModel once per process and never name a type with setModelType *)
(* without loading it, for every set of model types and tensor sizes, with *)
(* failing files, assets and libraries, and with restarts.                 *)
(***************************************************************************)
EXTENDS VoiceServiceProofs

OneCallAtATime ==
    /\ \A s, t \in Task : s = t
    /\ MaxInits <= 1
    /\ SetTypes = {}

-----------------------------------------------------------------------------
(* The inductive invariant                                                 *)

Removing == {"exists_old", "delete_old"}

Initialising == {"ffi", "ffi_open", "asset", "open", "write", "exists",
                 "length"}

Missing(f) == disk[f] = "absent"

(* What the removal of the old file has established: the file is still     *)
(* _currentModelFile, what the I/O thread said of it is still true, and a  *)
(* switch has changed nothing yet.                                         *)
RemovalOK(r) ==
    /\ r.op \in {"switch", "dispose"}
    /\ r.op = "switch" => isInitialized /\ r.newType # selectedModelType
    /\ r.path = currentModelFile
    /\ currentModelFile # Null
    /\ r.pc = "exists_old" => /\ r.io = "yes" => ~Missing(r.path)
                              /\ r.io # "yes" /\ r.io # "pending" =>
                                    Missing(r.path)
    /\ r.pc = "delete_old" => (r.io = "yes" <=> Missing(r.path))

(* What initModel has established: asset, file and contents are those of   *)
(* the selected type, which a switch has changed by now.                   *)
InitialisationOK(r) ==
    /\ r.op \in {"init", "switch"}
    /\ r.op = "switch" => r.newType = selectedModelType
    /\ r.pc \in {"ffi", "ffi_open", "asset", "open", "write"} =>
          r.asset = selectedModelType
    /\ r.pc \in {"open", "write", "exists", "length"} =>
          r.path = selectedModelType
    /\ r.pc = "open" => r.io # "yes"
    /\ r.pc \in {"write", "exists", "length"} =>
          disk[selectedModelType] \in
              {"absent", "partial", selectedModelType}

(* While a call is in progress nothing is loaded.                          *)
CallOK(r) ==
    /\ r.pc # "idle" => engine = Empty
    /\ r.pc \in Removing => RemovalOK(r)
    /\ r.pc \in Initialising => InitialisationOK(r)

(* Before the first initModel there is nothing.                            *)
NothingYet ==
    inits = 0 =>
        /\ \A t \in Task : task[t].pc = "idle"
        /\ ~isInitialized
        /\ currentModelFile = Null
        /\ engine = Empty

(* Without bindings nothing was loaded, and no inference was queued.       *)
NothingUnbound == ~bindings => engine = Empty /\ pending = 0

ReadyIsSelected == engine.phase = "ready" => engine.file = selectedModelType

SeqInv ==
    /\ IInv
    /\ \A t \in Task : CallOK(task[t])
    /\ NothingYet
    /\ NothingUnbound
    /\ FileOutlivesModel
    /\ ReadyIsSelected
    /\ SwitchAnswers
    /\ DisposeReleases

-----------------------------------------------------------------------------
(* Steps in general                                                        *)

(* There is only one coroutine.                                            *)
LEMMA OneTask ==
  ASSUME OneCallAtATime, NEW t \in Task, CallOK(task[t])'
  PROVE  (\A s \in Task : CallOK(task[s]))'
  BY DEF OneCallAtATime

(* A step that answers nobody.                                             *)
LEMMA SilentOK ==
  ASSUME Silent
  PROVE  SwitchAnswers' /\ DisposeReleases'
  BY DEF Silent, NoOutcome, SwitchAnswers, DisposeReleases

(* A step after which nothing is loaded.                                   *)
LEMMA EmptyOK ==
  ASSUME engine' = Empty
  PROVE  FileOutlivesModel' /\ ReadyIsSelected'
  BY DEF Empty, FileOutlivesModel, Holding, ReadyIsSelected

(* A call that is in progress has been made after the first initModel.     *)
LEMMA BusyStarted ==
  ASSUME SeqInv, NEW t \in Task, task[t].pc # "idle"
  PROVE  inits # 0 /\ engine = Empty
  BY DEF SeqInv, NothingYet, CallOK

(* A step of a call that leaves nothing loaded.                            *)
LEMMA CallStep ==
  ASSUME OneCallAtATime, SeqInv, IInv', NEW t \in Task, CallOK(task[t])',
         inits' # 0, engine' = Empty, UNCHANGED pending, bindings => bindings',
         SwitchAnswers', DisposeReleases'
  PROVE  SeqInv'
<1>1. NothingUnbound'
  BY DEF SeqInv, NothingUnbound
<1>2. NothingYet'
  BY DEF NothingYet
<1> QED
  BY <1>1, <1>2, OneTask, EmptyOK DEF SeqInv

(* A step that no coroutine takes part in and that loads nothing.          *)
LEMMA IdleStep ==
  ASSUME SeqInv, IInv', Silent,
         UNCHANGED <<fields, native, disk, task, inits>>,
         ~bindings => pending' = 0
  PROVE  SeqInv'
<1>1. (\A t \in Task : CallOK(task[t]))'
  BY DEF fields, native, SeqInv, CallOK, RemovalOK, InitialisationOK, Missing
<1>2. NothingYet' /\ NothingUnbound'
  BY DEF fields, native, SeqInv, NothingYet, NothingUnbound
<1>3. FileOutlivesModel' /\ ReadyIsSelected'
  BY DEF fields, native, SeqInv, FileOutlivesModel, Holding, ReadyIsSelected
<1> QED
  BY <1>1, <1>2, <1>3, SilentOK DEF SeqInv

(* The record a coroutine gets.                                            *)
LEMMA NewRecord ==
  ASSUME IInv, NEW t \in Task, NEW r, task' = [task EXCEPT ![t] = r]
  PROVE  task'[t] = r
  BY DEF IInv, TypeOK

(* The coroutine ends, with what its answer has to be true of.             *)
LEMMA AnswerStep ==
  ASSUME OneCallAtATime, SeqInv, IInv', NEW t \in Task, NEW value,
         Answer(t, value), inits' # 0, engine' = Empty, UNCHANGED pending,
         bindings => bindings',
         value = "throw" =>
            /\ Present(currentModelFile)'
            /\ task[t].op = "switch" =>
                  isInitialized' /\ selectedModelType' # task[t].newType,
         value # "throw" /\ task[t].op = "switch" =>
            /\ value \in {"true", "false"}
            /\ selectedModelType' = task[t].newType,
         value # "throw" /\ task[t].op = "dispose" =>
            /\ value = "void" /\ ~isInitialized' /\ ~ffiInitialized'
            /\ ~Present(currentModelFile)'
  PROVE  SeqInv'
<1>1. task'[t] = NoTask
  BY NewRecord DEF Answer, SeqInv
<1>2. CallOK(task[t])'
  BY <1>1, NoTaskOK DEF CallOK, Removing, Initialising
<1>3. /\ outcome'.op = task[t].op /\ outcome'.value = value
      /\ outcome'.type = task[t].newType
  BY DEF Answer
<1>4. SwitchAnswers' /\ DisposeReleases'
  BY <1>3 DEF SwitchAnswers, DisposeReleases
<1> QED
  BY <1>2, <1>4, CallStep

(* The coroutine enters initModel for the type that is selected then.      *)
LEMMA StartInitStep ==
  ASSUME OneCallAtATime, SeqInv, IInv', NEW t \in Task, NEW r \in Tasks,
         NEW type \in File, r.op \in {"init", "switch"},
         r.op = "switch" => r.newType = type,
         Suspend(t, StartInit(r, type)), selectedModelType' = type,
         inits' # 0, engine' = Empty, UNCHANGED <<pending, bindings>>
  PROVE  SeqInv'
<1> DEFINE label == IF ffiInitialized THEN "asset" ELSE "ffi"
           a == Await(r, label, Null)
           s == [a EXCEPT !.asset = type, !.lib = 1]
<1>1. label \in Pc
  BY DEF Pc
<1>2. a \in Tasks /\ a.pc = label /\ a.op = r.op /\ a.newType = r.newType
  <2> HIDE DEF label
  <2> QED
    BY <1>1, AwaitOK
<1>3. task'[t] = s
  BY NewRecord DEF Suspend, StartInit, SeqInv
<1> HIDE DEF a
<1>4. /\ s.pc = label /\ s.op = r.op /\ s.asset = type
      /\ s.newType = r.newType
  <2> HIDE DEF label
  <2> QED
    BY <1>2 DEF Tasks
<1> HIDE DEF s
<1>5. CallOK(task[t])'
  BY <1>3, <1>4 DEF CallOK, InitialisationOK, Removing, Initialising
<1> QED
  BY <1>5, CallStep, SilentOK DEF Suspend

(* The coroutine begins to remove the old file, or goes on removing it.    *)
LEMMA RemovalStep ==
  ASSUME OneCallAtATime, SeqInv, IInv', NEW t \in Task, NEW r \in Tasks,
         NEW label \in Removing, r.op \in {"switch", "dispose"},
         Suspend(t, Await(r, label, currentModelFile)),
         currentModelFile # Null,
         label = "delete_old" => ~Missing(currentModelFile),
         r.op = "switch" => isInitialized /\ r.newType # selectedModelType,
         UNCHANGED <<fields, disk>>,
         inits' # 0, engine' = Empty, UNCHANGED <<pending, bindings>>
  PROVE  SeqInv'
<1> DEFINE a == Await(r, label, currentModelFile)
<1>1. label \in Pc /\ currentModelFile \in File \union {Null}
  BY DEF Pc, Removing, SeqInv, IInv, TypeOK
<1>2. /\ a.pc = label /\ a.io = "pending" /\ a.op = r.op
      /\ a.path = currentModelFile /\ a.newType = r.newType
  BY <1>1, AwaitOK
<1>3. task'[t] = a
  BY NewRecord DEF Suspend, SeqInv
<1> HIDE DEF a
<1>4. CallOK(task[t])'
  BY <1>2, <1>3
  DEF fields, CallOK, RemovalOK, Removing, Initialising, Missing
<1> QED
  BY <1>4, CallStep, SilentOK DEF Suspend

-----------------------------------------------------------------------------
(* Calls by clients                                                        *)

(* initModel is called while nothing is there.                             *)
LEMMA InitModelSeq ==
  ASSUME OneCallAtATime, SeqInv, NEW t \in Task, initModel(t)
  PROVE  SeqInv'
<1>1. IInv'
  BY InitModelKeeps DEF SeqInv
<1>2. inits \in Nat /\ selectedModelType \in File
  BY TypeAssumption DEF SeqInv, IInv, TypeOK
<1>3. inits = 0 /\ inits' # 0
  BY <1>2, TypeAssumption DEF initModel, OneCallAtATime
<1>4. engine' = Empty /\ UNCHANGED <<pending, bindings, selectedModelType>>
  BY <1>3 DEF SeqInv, NothingYet, initModel, native, listening, fields
<1> DEFINE r == [NoTask EXCEPT !.op = "init"]
<1>5. r \in Tasks /\ r.op = "init"
  BY NoTaskOK DEF NoTask, TaskOK, Tasks
<1>6. Suspend(t, StartInit(r, selectedModelType))
  BY DEF initModel
<1> HIDE DEF r
<1> QED
  BY <1>1, <1>2, <1>3, <1>4, <1>5, <1>6, StartInitStep

(* unload_model leaves nothing loaded, with or without bindings.           *)
LEMMA UnloadEmpties ==
  ASSUME SeqInv, UnloadModel
  PROVE  engine' = Empty
<1>1. CASE bindings
  BY <1>1 DEF UnloadModel
<1>2. CASE ~bindings
  BY <1>2 DEF UnloadModel, SeqInv, NothingUnbound
<1> QED
  BY <1>1, <1>2

(* switchModel answers at once, or unloads before the file is removed.     *)
LEMMA SwitchModelSeq ==
  ASSUME OneCallAtATime, SeqInv, NEW t \in Task, NEW newType \in SwitchTypes,
         switchModel(t, newType)
  PROVE  SeqInv'
<1>1. IInv'
  BY SwitchModelKeeps DEF SeqInv
<1>2. UNCHANGED <<fields, listening, disk, inits>>
  BY DEF switchModel
<1>3. ASSUME NEW value \in {"true", "false"},
             isInitialized => newType = selectedModelType,
             outcome' = [op |-> "switch", type |-> newType, value |-> value],
             UNCHANGED <<task, native>>
      PROVE  SeqInv'
  <2>1. (\A s \in Task : CallOK(task[s]))'
    BY <1>2, <1>3 DEF fields, native, SeqInv, CallOK, RemovalOK,
       InitialisationOK, Missing
  <2>2. NothingYet' /\ NothingUnbound'
    BY <1>2, <1>3
    DEF fields, native, listening, SeqInv, NothingYet, NothingUnbound
  <2>3. FileOutlivesModel' /\ ReadyIsSelected'
    BY <1>2, <1>3
    DEF fields, native, SeqInv, FileOutlivesModel, Holding, ReadyIsSelected
  <2>4. SwitchAnswers' /\ DisposeReleases'
    BY <1>2, <1>3 DEF fields, SwitchAnswers, DisposeReleases
  <2> QED
    BY <1>1, <2>1, <2>2, <2>3, <2>4 DEF SeqInv
<1>4. CASE /\ isInitialized /\ newType # selectedModelType
           /\ UnloadModel
           /\ Suspend(t, RemoveOld([NoTask EXCEPT !.op = "switch",
                                                  !.newType = newType]))
           /\ UNCHANGED bindings
  <2> DEFINE r == [NoTask EXCEPT !.op = "switch", !.newType = newType]
  <2>1. newType \in File
    BY TypeAssumption
  <2>2. r \in Tasks /\ r.op = "switch" /\ r.newType = newType
    BY <2>1, NoTaskOK DEF NoTask, TaskOK, Tasks
  <2>3. Suspend(t, Await(r, "exists_old", currentModelFile))
    BY <1>4 DEF RemoveOld
  <2> HIDE DEF r
  <2>4. currentModelFile # Null /\ inits # 0
    BY <1>4 DEF SeqInv, IInv, ServiceBacked, NothingYet
  <2>5. "exists_old" \in Removing
    BY DEF Removing
  <2> QED
    BY <1>1, <1>2, <1>4, <2>2, <2>3, <2>4, <2>5, UnloadEmpties, RemovalStep
    DEF listening
<1> QED
  BY <1>3, <1>4 DEF switchModel

(* dispose has nothing to remove, or unloads before the file is removed.   *)
LEMMA DisposeSeq ==
  ASSUME OneCallAtATime, SeqInv, NEW t \in Task, dispose(t)
  PROVE  SeqInv'
<1>1. IInv'
  BY DisposeKeeps DEF SeqInv
<1>2. /\ engine' = Empty
      /\ UNCHANGED <<bindings, pending, disk, inits, currentModelFile>>
      /\ task[t].pc = "idle"
  BY UnloadEmpties DEF dispose, fields
<1> DEFINE r == [NoTask EXCEPT !.op = "dispose"]
<1>3. CASE currentModelFile # Null
  <2>1. r \in Tasks /\ r.op = "dispose"
    BY NoTaskOK DEF NoTask, TaskOK, Tasks
  <2>2. /\ Suspend(t, Await(r, "exists_old", currentModelFile))
        /\ UNCHANGED fields
    BY <1>3 DEF dispose, RemoveOld
  <2> HIDE DEF r
  <2>3. inits # 0
    BY <1>3 DEF SeqInv, NothingYet
  <2>4. "exists_old" \in Removing
    BY DEF Removing
  <2> QED
    BY <1>1, <1>2, <1>3, <2>1, <2>2, <2>3, <2>4, RemovalStep
<1>4. CASE currentModelFile = Null
  <2>1. /\ isInitialized' = FALSE /\ ffiInitialized' = FALSE
        /\ outcome' = [op |-> "dispose", type |-> Null, value |-> "void"]
        /\ UNCHANGED task
    BY <1>4 DEF dispose
  <2>2. CallOK(task[t])'
    BY <1>2, <2>1 DEF CallOK, Removing, Initialising
  <2>3. NothingYet' /\ NothingUnbound'
    BY <1>2, <2>1 DEF SeqInv, NothingYet, NothingUnbound
  <2>4. SwitchAnswers' /\ DisposeReleases'
    BY <1>2, <1>4, <2>1 DEF SwitchAnswers, DisposeReleases, Present
  <2> QED
    BY <1>1, <1>2, <2>2, <2>3, <2>4, OneTask, EmptyOK DEF SeqInv
<1> QED
  BY <1>3, <1>4

(* Listening starts and stops.                                             *)
LEMMA ListeningSeq ==
  ASSUME SeqInv, StartListening \/ StopListening \/ toggleListening
  PROVE  SeqInv'
<1>1. /\ Silent
      /\ UNCHANGED <<fields, native, pending, disk, task, inits>>
  BY DEF StartListening, StopListening, toggleListening
<1>2. ~bindings => pending' = 0
  BY <1>1 DEF SeqInv, NothingUnbound
<1> QED
  BY <1>1, <1>2, ListeningKeeps, IdleStep DEF SeqInv

(* A timer queues an inference: the service is initialised, so bound.      *)
LEMMA TickSeq ==
  ASSUME SeqInv, Tick
  PROVE  SeqInv'
<1>1. Silent /\ UNCHANGED <<fields, native, disk, task, inits>> /\ bindings
  BY DEF Tick, SeqInv, IInv, ServiceBacked
<1> QED
  BY <1>1, TickKeeps, IdleStep DEF SeqInv

(* The engine keeps its model, or the process is gone.                     *)
LEMMA RunInferenceSeq ==
  ASSUME SeqInv, RunInference
  PROVE  SeqInv'
<1>1. /\ IInv' /\ Silent
      /\ UNCHANGED <<fields, bindings, mapping, intact, disk, task, inits>>
  BY RunInferenceKeeps DEF SeqInv, RunInference
<1>2. bindings
  BY DEF SeqInv, NothingUnbound, RunInference
<1>3. PICK o \in RunOutcomes(engine, Samples) : engine' = o[1]
  BY <1>2 DEF RunInference
<1>4. CASE engine' = engine
  <2>1. UNCHANGED native
    BY <1>1, <1>4 DEF native
  <2> QED
    BY <1>1, <1>2, <2>1, IdleStep
<1>5. CASE engine' = Crashed /\ HasInterpreter(engine)
  <2>1. engine # Empty
    BY <1>5 DEF HasInterpreter, Empty
  <2>2. \A t \in Task : task[t].pc = "idle"
    BY <2>1 DEF SeqInv, CallOK
  <2>3. (\A t \in Task : CallOK(task[t]))'
    BY <1>1, <2>2 DEF CallOK, Removing, Initialising
  <2>4. NothingYet' /\ NothingUnbound'
    BY <1>1, <1>2, <2>1 DEF SeqInv, NothingYet, NothingUnbound
  <2>5. FileOutlivesModel' /\ ReadyIsSelected'
    BY <1>5 DEF Crashed, FileOutlivesModel, Holding, ReadyIsSelected
  <2> QED
    BY <1>1, <2>3, <2>4, <2>5, SilentOK DEF SeqInv
<1> QED
  BY <1>3, <1>4, <1>5 DEF RunOutcomes

(* A new process has nothing loaded and nobody to answer.                  *)
LEMMA RestartSeq ==
  ASSUME SeqInv, Restart
  PROVE  SeqInv'
<1>1. IInv' /\ Silent
  BY RestartKeeps DEF SeqInv, Restart
<1>2. /\ engine' = Empty /\ task' = [t \in Task |-> NoTask]
      /\ isInitialized' = FALSE /\ currentModelFile' = Null /\ pending' = 0
  BY DEF Restart
<1>3. \A t \in Task : task'[t].pc = "idle"
  BY <1>2, NoTaskOK
<1>4. (\A t \in Task : CallOK(task[t]))'
  BY <1>3 DEF CallOK, Removing, Initialising
<1>5. NothingYet' /\ NothingUnbound'
  BY <1>2, <1>3 DEF NothingYet, NothingUnbound
<1> QED
  BY <1>1, <1>2, <1>4, <1>5, SilentOK, EmptyOK DEF SeqInv

-----------------------------------------------------------------------------
(* The I/O thread and the event loop                                       *)

(* An answer of the I/O thread, on the record of the only coroutine.       *)
LEMMA DoneRecord ==
  ASSUME IInv, NEW t \in Task, NEW io \in {"yes", "no", "error"},
         task'[t] = Done(t, io)[t]
  PROVE  /\ task'[t].pc = task[t].pc /\ task'[t].op = task[t].op
         /\ task'[t].asset = task[t].asset /\ task'[t].path = task[t].path
         /\ task'[t].io = io /\ task'[t].newType = task[t].newType
<1> DEFINE r == [task[t] EXCEPT !.io = io]
<1>1. task[t] \in Tasks
  BY DEF IInv, TypeOK
<1>2. task'[t] = r
  BY DoneOK
<1>3. /\ r.pc = task[t].pc /\ r.op = task[t].op
      /\ r.asset = task[t].asset /\ r.path = task[t].path /\ r.io = io
      /\ r.newType = task[t].newType
  BY <1>1 DEF Tasks
<1> QED
  BY <1>2, <1>3

(* What is left to show of a step of the I/O thread.                       *)
LEMMA IoStep ==
  ASSUME OneCallAtATime, SeqInv, NEW t \in Task, IoEffect(t),
         task[t].pc # "idle", CallOK(task[t])'
  PROVE  SeqInv'
<1>1. IInv' /\ Silent
  BY IoEffectKeeps DEF SeqInv, IoEffect
<1>2. inits' # 0 /\ engine' = Empty /\ UNCHANGED <<pending, bindings>>
  BY BusyStarted DEF IoEffect, listening
<1> QED
  BY <1>1, <1>2, CallStep, SilentOK

(* File.exists of the old file or the new one.                             *)
LEMMA ExistsSeq ==
  ASSUME OneCallAtATime, SeqInv, NEW t \in Task, IoEffect(t), ExistsEffect(t)
  PROVE  SeqInv'
<1>1. /\ task[t].pc \in {"exists_old", "exists"}
      /\ UNCHANGED <<disk, engine, isInitialized, currentModelFile,
                     selectedModelType>>
  BY DEF ExistsEffect, IoEffect, fields
<1> DEFINE io == IF Exists(t) THEN "yes" ELSE "no"
<1>2. io \in {"yes", "no", "error"} /\ (io = "yes" <=> ~Missing(task[t].path))
  BY DEF Exists, Missing
<1>3. task' = Done(t, io)
  BY DEF ExistsEffect
<1> HIDE DEF io
<1>4. /\ task'[t].pc = task[t].pc /\ task'[t].op = task[t].op
      /\ task'[t].asset = task[t].asset /\ task'[t].path = task[t].path
      /\ task'[t].io = io /\ task'[t].newType = task[t].newType
  BY <1>2, <1>3, DoneRecord DEF SeqInv
<1>5. CallOK(task[t])
  BY DEF SeqInv
<1>6. CallOK(task[t])'
  BY <1>1, <1>2, <1>4, <1>5
  DEF CallOK, RemovalOK, InitialisationOK, Removing, Initialising, Missing
<1> QED
  BY <1>1, <1>6, IoStep

(* File.length.                                                            *)
LEMMA LengthSeq ==
  ASSUME OneCallAtATime, SeqInv, NEW t \in Task, IoEffect(t), LengthEffect(t)
  PROVE  SeqInv'
<1>1. /\ task[t].pc = "length"
      /\ UNCHANGED <<disk, engine, currentModelFile, selectedModelType>>
  BY DEF LengthEffect, IoEffect, fields
<1>2. PICK io \in {"yes", "no", "error"} : task' = Done(t, io)
  BY DEF LengthEffect
<1>3. /\ task'[t].pc = task[t].pc /\ task'[t].op = task[t].op
      /\ task'[t].path = task[t].path /\ task'[t].newType = task[t].newType
  BY <1>2, DoneRecord DEF SeqInv
<1>4. CallOK(task[t])
  BY DEF SeqInv
<1>5. CallOK(task[t])'
  BY <1>1, <1>3, <1>4 DEF CallOK, InitialisationOK, Removing, Initialising
<1> QED
  BY <1>1, <1>5, IoStep

(* File.delete finds the file that File.exists has found, and removes it   *)
(* or fails.                                                               *)
LEMMA DeleteSeq ==
  ASSUME OneCallAtATime, SeqInv, NEW t \in Task, IoEffect(t), DeleteEffect(t)
  PROVE  SeqInv'
<1>1. /\ task[t].pc = "delete_old" /\ task[t].io = "pending"
      /\ UNCHANGED <<engine, isInitialized, currentModelFile,
                     selectedModelType>>
  BY DEF DeleteEffect, IoEffect, fields
<1>2. CallOK(task[t])
  BY DEF SeqInv
<1>3. RemovalOK(task[t]) /\ engine = Empty /\ Exists(t)
  BY <1>1, <1>2 DEF CallOK, RemovalOK, Removing, Missing, Exists
<1>4. ASSUME NEW io \in {"yes", "error"}, task'[t] = Done(t, io)[t],
             io = "yes" <=> Missing(task[t].path)'
      PROVE  SeqInv'
  <2>1. /\ task'[t].pc = task[t].pc /\ task'[t].op = task[t].op
        /\ task'[t].path = task[t].path /\ task'[t].io = io
        /\ task'[t].newType = task[t].newType
    BY <1>4, DoneRecord DEF SeqInv
  <2>2. CallOK(task[t])'
    BY <1>1, <1>3, <1>4, <2>1
    DEF CallOK, RemovalOK, Removing, Initialising, Missing
  <2> QED
    BY <1>1, <2>2, IoStep
<1>5. CASE /\ disk' = [disk EXCEPT ![task[t].path] = "absent"]
           /\ task'[t] = Done(t, "yes")[t]
  <2>1. task[t].path \in File /\ disk \in [File -> Contents]
    BY <1>3 DEF RemovalOK, SeqInv, IInv, TypeOK
  <2>2. task'[t].path = task[t].path
    BY <1>5, DoneRecord DEF SeqInv
  <2> QED
    BY <1>4, <1>5, <2>1, <2>2 DEF Missing
<1>6. CASE task'[t] = Done(t, "error")[t] /\ UNCHANGED disk
  <2>1. task'[t].path = task[t].path
    BY <1>6, DoneRecord DEF SeqInv
  <2> QED
    BY <1>3, <1>4, <1>6, <2>1 DEF Missing, Exists
<1> QED
  BY <1>5, <1>6 DEF DeleteEffect

(* File.writeAsBytes opens the file of the selected type.                  *)
LEMMA OpenSeq ==
  ASSUME OneCallAtATime, SeqInv, NEW t \in Task, IoEffect(t), OpenEffect(t)
  PROVE  SeqInv'
<1>1. /\ task[t].pc = "open"
      /\ UNCHANGED <<engine, selectedModelType>>
  BY DEF OpenEffect, IoEffect, fields
<1>2. CallOK(task[t]) /\ task[t] \in Tasks /\ task \in [Task -> Tasks]
  BY DEF SeqInv, IInv, TypeOK
<1>3. InitialisationOK(task[t]) /\ engine = Empty
  BY <1>1, <1>2 DEF CallOK, Initialising
<1>4. CASE task' = Done(t, "error")
  <2>1. /\ task'[t].pc = task[t].pc /\ task'[t].op = task[t].op
        /\ task'[t].asset = task[t].asset /\ task'[t].path = task[t].path
        /\ task'[t].io = "error" /\ task'[t].newType = task[t].newType
    BY <1>4, DoneRecord DEF SeqInv
  <2>2. CallOK(task[t])'
    BY <1>1, <1>3, <2>1 DEF CallOK, InitialisationOK, Removing, Initialising
  <2> QED
    BY <1>1, <2>2, IoStep
<1>5. CASE /\ disk' = [disk EXCEPT ![task[t].path] = "partial"]
           /\ task' = [task EXCEPT ![t].pc = "write", ![t].linked = TRUE]
  <2> DEFINE r == [task[t] EXCEPT !.pc = "write", !.linked = TRUE]
  <2>1. task'[t] = r
    BY <1>2, <1>5
  <2>2. /\ r.pc = "write" /\ r.op = task[t].op
        /\ r.newType = task[t].newType
        /\ r.asset = task[t].asset /\ r.path = task[t].path
    BY <1>2 DEF Tasks
  <2> HIDE DEF r
  <2>3. disk'[selectedModelType] = "partial"
    <3>1. selectedModelType \in File /\ disk \in [File -> Contents]
      BY DEF SeqInv, IInv, TypeOK
    <3> QED
      BY <1>1, <1>3, <1>5, <3>1 DEF InitialisationOK
  <2>4. CallOK(task[t])'
    BY <1>1, <1>3, <2>1, <2>2, <2>3
    DEF CallOK, InitialisationOK, Removing, Initialising
  <2> QED
    BY <1>1, <2>4, IoStep
<1> QED
  BY <1>4, <1>5 DEF OpenEffect

(* File.writeAsBytes writes the asset of the selected type.                *)
LEMMA WriteSeq ==
  ASSUME OneCallAtATime, SeqInv, NEW t \in Task, IoEffect(t), WriteEffect(t)
  PROVE  SeqInv'
<1>1. /\ task[t].pc = "write"
      /\ UNCHANGED <<engine, selectedModelType>>
  BY DEF WriteEffect, IoEffect, fields
<1>2. CallOK(task[t])
  BY DEF SeqInv
<1>3. InitialisationOK(task[t]) /\ engine = Empty
  BY <1>1, <1>2 DEF CallOK, Initialising
<1>4. PICK io \in {"yes", "no", "error"} : task' = Done(t, io)
  BY DEF WriteEffect
<1>5. /\ task'[t].pc = task[t].pc /\ task'[t].op = task[t].op
      /\ task'[t].asset = task[t].asset /\ task'[t].path = task[t].path
      /\ task'[t].newType = task[t].newType
  BY <1>4, DoneRecord DEF SeqInv
<1>6. /\ task[t].asset = selectedModelType
      /\ task[t].path = selectedModelType
      /\ selectedModelType \in File /\ disk \in [File -> Contents]
  BY <1>1, <1>3 DEF InitialisationOK, SeqInv, IInv, TypeOK
<1>7. disk'[selectedModelType] \in {"absent", "partial", selectedModelType}
  <2>1. \/ UNCHANGED disk
        \/ disk' = [disk EXCEPT ![selectedModelType] = selectedModelType]
        \/ disk' = [disk EXCEPT ![selectedModelType] = "partial"]
    BY <1>6 DEF WriteEffect
  <2> QED
    BY <1>1, <1>3, <1>6, <2>1 DEF InitialisationOK
<1>8. CallOK(task[t])'
  BY <1>1, <1>3, <1>5, <1>6, <1>7
  DEF CallOK, InitialisationOK, Removing, Initialising
<1> QED
  BY <1>1, <1>8, IoStep

(* Every operation of the I/O thread.                                      *)
LEMMA IoEffectSeq ==
  ASSUME OneCallAtATime, SeqInv, NEW t \in Task, IoEffect(t)
  PROVE  SeqInv'
  BY ExistsSeq, LengthSeq, DeleteSeq, OpenSeq, WriteSeq DEF IoEffect

(* The old file is gone: switchModel goes on, dispose has released it all. *)
LEMMA AfterRemovalSeq ==
  ASSUME OneCallAtATime, SeqInv, IInv', NEW t \in Task, AfterRemoval(t),
         task[t].pc \in Removing, Missing(currentModelFile),
         UNCHANGED <<native, listening, disk, inits>>
  PROVE  SeqInv'
<1>1. CallOK(task[t]) /\ TaskOK(task[t]) /\ task[t] \in Tasks
  BY DEF SeqInv, IInv, TypeOK
<1>2. /\ inits' # 0 /\ engine' = Empty
      /\ UNCHANGED <<pending, bindings>>
  BY BusyStarted DEF native, listening, Removing
<1>3. CASE task[t].op = "switch"
  <2>1. task[t].newType \in File
    BY <1>1, <1>3 DEF TaskOK
  <2>2. /\ selectedModelType' = task[t].newType
        /\ Suspend(t, StartInit(task[t], task[t].newType))
    BY <1>3 DEF AfterRemoval
  <2> QED
    BY <1>1, <1>2, <1>3, <2>1, <2>2, StartInitStep
<1>4. CASE task[t].op # "switch"
  <2>1. /\ isInitialized' = FALSE /\ ffiInitialized' = FALSE
        /\ Answer(t, "void")
        /\ UNCHANGED currentModelFile
    BY <1>4 DEF AfterRemoval
  <2>2. ~Present(currentModelFile)'
    BY <2>1 DEF Missing, Present
  <2> QED
    BY <1>2, <1>4, <2>1, <2>2, AnswerStep
<1> QED
  BY <1>3, <1>4

(* The answers about the old file.                                         *)
LEMMA RemovalDoneSeq ==
  ASSUME OneCallAtATime, SeqInv, IInv', NEW t \in Task,
         ExistsOldDone(t) \/ DeleteOldDone(t),
         task[t].io \in {"yes", "no", "error"},
         UNCHANGED <<listening, disk, inits>>
  PROVE  SeqInv'
<1>1. task[t].pc \in Removing /\ UNCHANGED native
  BY DEF ExistsOldDone, DeleteOldDone, Removing, native
<1>2. CallOK(task[t]) /\ task[t] \in Tasks
  BY DEF SeqInv, IInv, TypeOK
<1>3. RemovalOK(task[t])
  BY <1>1, <1>2 DEF CallOK
<1>4. CASE ExistsOldDone(t) /\ task[t].io = "yes"
  <2>1. /\ Suspend(t, Await(task[t], "delete_old", currentModelFile))
        /\ UNCHANGED fields
    BY <1>4 DEF ExistsOldDone
  <2>2. /\ currentModelFile # Null /\ ~Missing(currentModelFile)
        /\ task[t].op \in {"switch", "dispose"}
        /\ task[t].op = "switch" =>
              isInitialized /\ task[t].newType # selectedModelType
    BY <1>3, <1>4 DEF RemovalOK, ExistsOldDone
  <2>3. "delete_old" \in Removing
    BY DEF Removing
  <2>4. inits' # 0 /\ engine' = Empty /\ UNCHANGED <<pending, bindings>>
    BY <1>1, BusyStarted DEF native, listening, Removing
  <2> QED
    BY <1>2, <2>1, <2>2, <2>3, <2>4, RemovalStep
<1>5. CASE ExistsOldDone(t) /\ task[t].io # "yes"
  <2>1. AfterRemoval(t) /\ Missing(currentModelFile)
    BY <1>3, <1>5 DEF ExistsOldDone, RemovalOK
  <2> QED
    BY <1>1, <2>1, AfterRemovalSeq
<1>6. CASE DeleteOldDone(t) /\ task[t].io = "yes"
  <2>1. AfterRemoval(t) /\ Missing(currentModelFile)
    BY <1>3, <1>6 DEF DeleteOldDone, RemovalOK
  <2> QED
    BY <1>1, <2>1, AfterRemovalSeq
<1>7. CASE DeleteOldDone(t) /\ task[t].io # "yes"
  <2>1. Answer(t, "throw") /\ UNCHANGED fields
    BY <1>7 DEF DeleteOldDone
  <2>2. /\ Present(currentModelFile)'
        /\ task[t].op = "switch" =>
              isInitialized' /\ selectedModelType' # task[t].newType
    BY <1>3, <1>7, <2>1
    DEF DeleteOldDone, RemovalOK, Missing, Present, fields
  <2>3. inits' # 0 /\ engine' = Empty /\ UNCHANGED <<pending, bindings>>
    BY <1>1, BusyStarted DEF native, listening, Removing
  <2> QED
    BY <2>1, <2>2, <2>3, AnswerStep
<1> QED
  BY <1>4, <1>5, <1>6, <1>7

(* A coroutine inside initModel is that of initModel or switchModel.       *)
LEMMA InsideInit ==
  ASSUME SeqInv, NEW t \in Task, task[t].pc \in Initialising
  PROVE  /\ InitialisationOK(task[t]) /\ task[t].op \in {"init", "switch"}
         /\ inits # 0 /\ engine = Empty /\ task[t] \in Tasks
         /\ TaskOK(task[t])
<1>1. CallOK(task[t]) /\ task[t] \in Tasks /\ TaskOK(task[t])
  BY DEF SeqInv, IInv, TypeOK
<1>2. task[t].pc # "idle"
  BY DEF Initialising
<1> QED
  BY <1>1, <1>2, BusyStarted DEF CallOK, InitialisationOK

(* The coroutine gives up inside initModel.                                *)
LEMMA GiveUpStep ==
  ASSUME OneCallAtATime, SeqInv, IInv', NEW t \in Task,
         task[t].pc \in Initialising, Answer(t, "false"),
         UNCHANGED <<engine, bindings, selectedModelType, listening, inits>>
  PROVE  SeqInv'
<1>1. /\ task[t].op \in {"init", "switch"}
      /\ task[t].op = "switch" => task[t].newType = selectedModelType
      /\ inits' # 0 /\ engine' = Empty /\ UNCHANGED pending
  BY InsideInit DEF InitialisationOK, listening
<1> QED
  BY <1>1, AnswerStep

(* The coroutine goes on inside initModel with the same asset.             *)
LEMMA ForwardStep ==
  ASSUME OneCallAtATime, SeqInv, IInv', NEW t \in Task,
         task[t].pc \in Initialising,
         NEW label \in {"ffi_open", "asset", "open", "exists", "length"},
         NEW p \in File \union {Null},
         Suspend(t, Await(task[t], label, p)),
         label \in {"ffi_open", "asset", "open"} =>
            task[t].asset = selectedModelType,
         label \in {"open", "exists", "length"} => p = selectedModelType,
         label \in {"exists", "length"} =>
            disk[selectedModelType] \in
               {"absent", "partial", selectedModelType},
         UNCHANGED <<engine, listening, disk, inits, selectedModelType>>,
         bindings => bindings'
  PROVE  SeqInv'
<1> DEFINE a == Await(task[t], label, p)
<1>1. /\ task[t] \in Tasks /\ task[t].op \in {"init", "switch"}
      /\ task[t].op = "switch" => task[t].newType = selectedModelType
      /\ inits' # 0 /\ engine' = Empty /\ UNCHANGED pending
  BY InsideInit DEF InitialisationOK, listening
<1>2. label \in Pc
  BY DEF Pc
<1>3. /\ a.pc = label /\ a.path = p /\ a.op = task[t].op
      /\ a.asset = task[t].asset /\ a.io = "pending"
      /\ a.newType = task[t].newType
  BY <1>1, <1>2, AwaitOK
<1>4. task'[t] = a
  BY NewRecord DEF Suspend, SeqInv
<1> HIDE DEF a
<1>5. CallOK(task[t])'
  BY <1>1, <1>3, <1>4
  DEF CallOK, InitialisationOK, Removing, Initialising
<1> QED
  BY <1>1, <1>5, CallStep, SilentOK DEF Suspend

(* loadFfiEngine and initFfiPlugin.                                        *)
LEMMA FfiSeq ==
  ASSUME OneCallAtATime, SeqInv, IInv', NEW t \in Task,
         FfiProbe(t) \/ FfiDone(t), UNCHANGED <<listening, disk, inits>>
  PROVE  SeqInv'
<1>1. task[t].pc \in {"ffi", "ffi_open"} /\ task[t].pc \in Initialising
  BY DEF FfiProbe, FfiDone, Initialising
<1>2. UNCHANGED <<engine, selectedModelType, currentModelFile>>
  BY DEF FfiProbe, FfiDone, fields, native
<1>3. /\ task[t].asset = selectedModelType /\ task[t] \in Tasks
      /\ task[t].op \in {"init", "switch"}
      /\ task[t].op = "switch" => task[t].newType = selectedModelType
      /\ inits' # 0 /\ engine' = Empty /\ UNCHANGED pending
  BY <1>1, <1>2, InsideInit DEF InitialisationOK, listening
<1>4. CASE Answer(t, "false")
  <2>1. UNCHANGED bindings
    BY <1>1, <1>4 DEF FfiProbe, FfiDone, native, Answer, Suspend, Silent,
       NoOutcome
  <2> QED
    BY <1>1, <1>2, <1>4, <2>1, GiveUpStep
<1>5. CASE FfiProbe(t) /\ Suspend(t, [task[t] EXCEPT !.lib = @ + 1])
  <2> DEFINE r == [task[t] EXCEPT !.lib = task[t].lib + 1]
  <2>1. task'[t] = r
    BY <1>5, NewRecord DEF Suspend, SeqInv
  <2>2. /\ r.pc = "ffi" /\ r.op = task[t].op /\ r.asset = task[t].asset
        /\ r.newType = task[t].newType
    BY <1>3, <1>5 DEF Tasks, FfiProbe
  <2> HIDE DEF r
  <2>3. CallOK(task[t])'
    BY <1>2, <1>3, <2>1, <2>2
    DEF CallOK, InitialisationOK, Removing, Initialising
  <2>4. UNCHANGED bindings
    BY <1>5 DEF FfiProbe, native
  <2> QED
    BY <1>3, <1>5, <2>3, <2>4, CallStep, SilentOK DEF Suspend
<1>6. CASE /\ \E label \in {"ffi_open", "asset"} :
                Suspend(t, Await(task[t], label, Null))
           /\ bindings => bindings'
  BY <1>1, <1>2, <1>3, <1>6, ForwardStep
<1> QED
  BY <1>4, <1>5, <1>6 DEF FfiProbe, FfiDone, native

(* The asset, the write and the check for the file.                        *)
LEMMA StagesSeq ==
  ASSUME OneCallAtATime, SeqInv, IInv', NEW t \in Task,
         AssetDone(t) \/ WriteDone(t) \/ ExistsDone(t),
         task[t].pc # "asset" => task[t].io \in {"yes", "no", "error"},
         UNCHANGED <<listening, disk, inits>>
  PROVE  SeqInv'
<1>1. /\ task[t].pc \in {"asset", "open", "write", "exists"}
      /\ task[t].pc \in Initialising
  BY DEF AssetDone, WriteDone, ExistsDone, Initialising
<1>2. UNCHANGED <<engine, bindings, selectedModelType>>
  BY DEF AssetDone, WriteDone, ExistsDone, fields, native
<1>3. InitialisationOK(task[t]) /\ selectedModelType \in File
  BY <1>1, InsideInit DEF SeqInv, IInv, TypeOK
<1>4. CASE Answer(t, "false")
  BY <1>1, <1>2, <1>4, GiveUpStep
<1>5. CASE /\ AssetDone(t)
           /\ Suspend(t, Await(task[t], "open", selectedModelType))
  <2>1. task[t].asset = selectedModelType
    BY <1>3, <1>5 DEF AssetDone, InitialisationOK
  <2> QED
    BY <1>1, <1>2, <1>3, <1>5, <2>1, ForwardStep
<1>6. ASSUME NEW label \in {"exists", "length"},
             task[t].pc \in {"write", "exists"},
             Suspend(t, Await(task[t], label, task[t].path))
      PROVE  SeqInv'
  <2>1. /\ task[t].path = selectedModelType
        /\ disk[selectedModelType] \in
              {"absent", "partial", selectedModelType}
    BY <1>3, <1>6 DEF InitialisationOK
  <2> QED
    BY <1>1, <1>2, <1>3, <1>6, <2>1, ForwardStep
<1>7. CASE task[t].pc = "open" /\ WriteDone(t)
  BY <1>3, <1>4, <1>7 DEF InitialisationOK, WriteDone
<1> QED
  BY <1>1, <1>4, <1>5, <1>6, <1>7 DEF AssetDone, WriteDone, ExistsDone

(* initModel loads what it has written under the selected type's name.     *)
LEMMA LoadSelected ==
  ASSUME SeqInv, NEW t \in Task, task[t].pc = "length", NEW o \in Load(t)
  PROVE  /\ o[1] = Empty \/ o[1].file = selectedModelType
         /\ o[2] \in {0, 1}
<1>1. task[t].pc \in Initialising
  BY DEF Initialising
<1>2. /\ task[t].path = selectedModelType
      /\ disk[selectedModelType] \in {"absent", "partial", selectedModelType}
  BY <1>1, InsideInit DEF InitialisationOK
<1>3. disk[selectedModelType] \in File =>
         disk[selectedModelType] = selectedModelType
  BY <1>2, ContentsAssumption
<1>4. CASE o = <<Empty, 0>>
  BY <1>4
<1>5. CASE o \in LoadOutcomes(selectedModelType)
  BY <1>5 DEF LoadOutcomes
<1> QED
  BY <1>2, <1>3, <1>4, <1>5 DEF Load

(* The last step of initModel and of switchModel.                          *)
LEMMA LengthDoneSeq ==
  ASSUME OneCallAtATime, SeqInv, IInv', NEW t \in Task, LengthDone(t),
         UNCHANGED <<listening, disk, inits>>
  PROVE  SeqInv'
<1>1. task[t].pc = "length" /\ task[t].pc \in Initialising
  BY DEF LengthDone, Initialising
<1>2. /\ task[t].op \in {"init", "switch"} /\ inits' # 0
      /\ task[t].op = "switch" => task[t].newType = selectedModelType
      /\ task[t].path \in File
  BY <1>1, InsideInit DEF InitialisationOK, TaskOK
<1>3. CASE task[t].io = "error"
  BY <1>1, <1>3, GiveUpStep DEF LengthDone, fields, native
<1>4. CASE task[t].io # "error"
  <2>1. PICK o \in Load(t) :
          /\ engine' = o[1]
          /\ mapping' = IF o[1] = Empty THEN Null ELSE task[t].path
          /\ intact' = TRUE
          /\ Answer(t, IF o[2] # 0 THEN "true" ELSE "false")
    BY <1>4 DEF LengthDone
  <2>2. UNCHANGED <<bindings, selectedModelType>> /\ bindings
    <3>1. "length" \in Loading
      BY DEF Loading
    <3> QED
      BY <1>1, <1>4, <3>1 DEF LengthDone, SeqInv, IInv, BindingsFirst
  <2>3. ReadyIsSelected'
    BY <1>1, <2>1, <2>2, LoadSelected DEF ReadyIsSelected, Empty
  <2>4. FileOutlivesModel'
    BY <1>2, <2>1, FileAssumption DEF FileOutlivesModel, Holding, Empty
  <2>5. CallOK(task[t])'
    <3>1. task'[t] = NoTask
      BY <2>1, NewRecord DEF Answer, SeqInv
    <3> QED
      BY <3>1, NoTaskOK DEF CallOK, Removing, Initialising
  <2>6. SwitchAnswers' /\ DisposeReleases'
    BY <1>2, <2>1, <2>2 DEF Answer, SwitchAnswers, DisposeReleases
  <2>7. NothingYet' /\ NothingUnbound'
    BY <1>2, <2>2 DEF NothingYet, NothingUnbound
  <2> QED
    BY <2>3, <2>4, <2>5, <2>6, <2>7, OneTask DEF SeqInv
<1> QED
  BY <1>3, <1>4

(* Whatever the event loop resumes.                                        *)
LEMMA ResumeSeq ==
  ASSUME OneCallAtATime, SeqInv, NEW t \in Task, Resume(t)
  PROVE  SeqInv'
<1>1. IInv' /\ UNCHANGED <<listening, disk, inits>>
  BY ResumeKeeps DEF SeqInv, Resume
<1>2. CASE /\ task[t].io \in {"yes", "no", "error"}
           /\ ExistsOldDone(t) \/ DeleteOldDone(t)
  BY <1>1, <1>2, RemovalDoneSeq
<1>3. CASE /\ task[t].io \in {"yes", "no", "error"}
           /\ WriteDone(t) \/ ExistsDone(t)
  BY <1>1, <1>3, StagesSeq
<1>4. CASE LengthDone(t)
  BY <1>1, <1>4, LengthDoneSeq
<1>5. CASE FfiProbe(t) \/ FfiDone(t)
  BY <1>1, <1>5, FfiSeq
<1>6. CASE AssetDone(t)
  <2>1. task[t].pc = "asset"
    BY <1>6 DEF AssetDone
  <2> QED
    BY <1>1, <1>6, <2>1, StagesSeq
<1> QED
  BY <1>2, <1>3, <1>4, <1>5, <1>6 DEF Resume

(* Every step of the specification.                                        *)
LEMMA NextSeq ==
  ASSUME OneCallAtATime, SeqInv, [Next]_vars
  PROVE  SeqInv'
<1>1. ASSUME NEW t \in Task, Call(t) PROVE SeqInv'
  BY <1>1, InitModelSeq, SwitchModelSeq, DisposeSeq DEF Call
<1>2. ASSUME NEW t \in Task, IoEffect(t) \/ Resume(t) PROVE SeqInv'
  BY <1>2, IoEffectSeq, ResumeSeq
<1>3. CASE SyncCall
  BY <1>3, ListeningSeq DEF SyncCall, OneCallAtATime
<1>4. CASE Tick \/ RunInference
  BY <1>4, TickSeq, RunInferenceSeq
<1>5. CASE Restart
  BY <1>5, RestartSeq
<1>6. CASE UNCHANGED vars
  <2>1. /\ UNCHANGED <<fields, native, listening>>
        /\ UNCHANGED <<disk, task, inits, outcome>>
        /\ IInv'
    BY <1>6, NextKeeps DEF vars, SeqInv
  <2>2. (\A s \in Task : CallOK(task[s]))'
    BY <2>1 DEF fields, native, SeqInv, CallOK, RemovalOK, InitialisationOK,
       Missing
  <2>3. NothingYet' /\ NothingUnbound' /\ SwitchAnswers'
    BY <2>1 DEF fields, native, listening, SeqInv, NothingYet,
       NothingUnbound, SwitchAnswers, Present
  <2>4. FileOutlivesModel' /\ ReadyIsSelected' /\ DisposeReleases'
    BY <2>1 DEF fields, native, SeqInv, FileOutlivesModel, Holding,
       ReadyIsSelected, DisposeReleases, Present
  <2> QED
    BY <2>1, <2>2, <2>3, <2>4 DEF SeqInv
<1> QED
  BY <1>1, <1>2, <1>3, <1>4, <1>5, <1>6 DEF Next

(* A new installation.                                                     *)
LEMMA InitSeq ==
  ASSUME Init
  PROVE  SeqInv
<1>1. disk \in [File -> Contents]
  BY DEF Init, Contents
<1>2. IInv
  BY <1>1, FreshOK DEF Init
<1>3. \A t \in Task : task[t].pc = "idle"
  BY NoTaskOK DEF Init
<1>4. \A t \in Task : CallOK(task[t])
  BY <1>3 DEF CallOK, Removing, Initialising
<1>5. NothingYet /\ NothingUnbound
  BY <1>3 DEF Init, NothingYet, NothingUnbound
<1>6. FileOutlivesModel /\ ReadyIsSelected
  BY DEF Init, Empty, FileOutlivesModel, Holding, ReadyIsSelected
<1>7. SwitchAnswers /\ DisposeReleases
  BY DEF Init, NoOutcome, SwitchAnswers, DisposeReleases
<1> QED
  BY <1>2, <1>4, <1>5, <1>6, <1>7 DEF SeqInv

-----------------------------------------------------------------------------
(* The theorems                                                            *)

(***************************************************************************)
(* One call at a time, the invariant holds in every reachable state: what  *)
(* a coroutine of voice_service.dart learnt before an await is still true  *)
(* after it, and nothing is loaded while a call is in progress.            *)
(***************************************************************************)
THEOREM SeqInductive ==
  ASSUME OneCallAtATime
  PROVE  Spec => []SeqInv
<1>1. Init => SeqInv
  BY InitSeq
<1>2. SeqInv /\ [Next]_vars => SeqInv'
  BY NextSeq
<1> QED
  BY <1>1, <1>2, PTL DEF Spec

(***************************************************************************)
(* switchModel and dispose unload before they remove, and initModel writes *)
(* only while nothing is loaded: the engine never holds a model whose      *)
(* mapped file was removed or rewritten.                                   *)
(***************************************************************************)
THEOREM FileOutlives ==
  ASSUME OneCallAtATime
  PROVE  Spec => []FileOutlivesModel
<1>1. SeqInv => FileOutlivesModel
  BY DEF SeqInv
<1> QED
  BY <1>1, SeqInductive, PTL

(***************************************************************************)
(* A model that is ready is the selected one, after failed switches and    *)
(* after restarts that found old files.                                    *)
(***************************************************************************)
THEOREM SelectedLoaded ==
  ASSUME OneCallAtATime
  PROVE  Spec => []LoadedIsSelected
<1>1. SeqInv => LoadedIsSelected
  BY DEF SeqInv, ReadyIsSelected, LoadedIsSelected
<1> QED
  BY <1>1, SeqInductive, PTL

(***************************************************************************)
(* switchModel throws only when the old file cannot be deleted, never      *)
(* because it is gone: the delete finds what exists() has found.  Then     *)
(* nothing is selected and the call can be made again.                     *)
(***************************************************************************)
THEOREM SwitchCorrect ==
  ASSUME OneCallAtATime
  PROVE  Spec => []SwitchAnswers
<1>1. SeqInv => SwitchAnswers
  BY DEF SeqInv
<1> QED
  BY <1>1, SeqInductive, PTL

(***************************************************************************)
(* A dispose that has completed leaves no model and no temporary file; one *)
(* that throws leaves no model, and a file that it still knows of.         *)
(***************************************************************************)
THEOREM DisposeCorrect ==
  ASSUME OneCallAtATime
  PROVE  Spec => []DisposeReleases
<1>1. SeqInv => DisposeReleases
  BY DEF SeqInv
<1> QED
  BY <1>1, SeqInductive, PTL

(* Who may take an event from the queue: an inference that runs on the     *)
(* selected model, fails or takes the process down, or a restart.          *)
LEMMA PublishedStep ==
  ASSUME SeqInv, [Next]_vars, pending' < pending, inferenceResult' # Null,
         inferenceResult' >= 0
  PROVE  engine = [phase |-> "ready", file |-> selectedModelType]
<1>1. pending \in Nat /\ engine \in EngineState
  BY TypeAssumption DEF SeqInv, IInv, TypeOK
<1>2. CASE RunInference
  <2>1. bindings
    BY <1>2 DEF SeqInv, NothingUnbound, RunInference
  <2>2. PICK o \in RunOutcomes(engine, Samples) : inferenceResult' = o[2]
    BY <1>2, <2>1 DEF RunInference
  <2>3. o # <<engine, -1>> /\ o # <<Crashed, -1>>
    BY <2>2
  <2>4. engine.phase = "ready"
    BY <2>2, <2>3 DEF RunOutcomes
  <2>5. engine.file = selectedModelType
    BY <2>4 DEF SeqInv, ReadyIsSelected
  <2> QED
    BY <1>1, <2>4, <2>5 DEF EngineState
<1>3. CASE Restart
  BY <1>3 DEF Restart
<1>4. CASE Tick
  BY <1>1, <1>4 DEF Tick
<1>5. CASE SyncCall \/ \E t \in Task : Call(t) \/ IoEffect(t) \/ Resume(t)
  <2>1. UNCHANGED pending
    BY <1>5 DEF SyncCall, setModelType, StartListening, StopListening,
       toggleListening, Call, initModel, switchModel, dispose, IoEffect,
       Resume, listening
  <2> QED
    BY <1>1, <2>1
<1>6. CASE UNCHANGED vars
  BY <1>1, <1>6 DEF vars, listening
<1> QED
  BY <1>2, <1>3, <1>4, <1>5, <1>6 DEF Next

(***************************************************************************)
(* The class _runInference publishes beside the name of the selected type  *)
(* is that model's, although the native call was queued before switches,   *)
(* failures and disposals that came in between.                            *)
(***************************************************************************)
THEOREM ResultLabelled ==
  ASSUME OneCallAtATime
  PROVE  Spec => ResultLabel
<1>1. SeqInv /\ [Next]_vars =>
        [pending' < pending /\ inferenceResult' # Null /\ inferenceResult' >= 0
           => engine = [phase |-> "ready", file |-> selectedModelType]]_vars
  BY PublishedStep
<1> QED
  BY <1>1, SeqInductive, PTL DEF Spec, ResultLabel

-----------------------------------------------------------------------------
(* The abstract service                                                    *)

(* A step that the abstract service does not see.                          *)
LEMMA Unseen ==
  ASSUME UNCHANGED <<engine, selectedModelType, isListening, inferenceResult>>
  PROVE  UNCHANGED Promised!serviceVars
  BY DEF Promised!serviceVars

(* The calls: switchModel and dispose unload, initModel is not seen.       *)
LEMMA CallRefines ==
  ASSUME SeqInv, NEW t \in Task, Call(t)
  PROVE  [Promised!Next]_(Promised!serviceVars)
<1>1. ASSUME engine' = Empty, isListening' \in {isListening, FALSE},
             UNCHANGED <<selectedModelType, inferenceResult>>
      PROVE  Promised!Next
  BY <1>1 DEF Promised!Next, Promised!Unload, Empty
<1>2. CASE initModel(t)
  BY <1>2, Unseen DEF initModel, fields, native, listening
<1>3. ASSUME NEW newType \in SwitchTypes, switchModel(t, newType)
      PROVE  [Promised!Next]_(Promised!serviceVars)
  <2>1. UNCHANGED <<selectedModelType, inferenceResult, isListening>>
    BY <1>3 DEF switchModel, fields, listening
  <2>2. UNCHANGED engine \/ UnloadModel
    BY <1>3 DEF switchModel, native
  <2> QED
    BY <1>1, <2>1, <2>2, Unseen, UnloadEmpties
<1>4. CASE dispose(t)
  <2>1. /\ UNCHANGED <<selectedModelType, inferenceResult>>
        /\ isListening' = FALSE /\ UnloadModel
    BY <1>4 DEF dispose, stopListening, fields
  <2> QED
    BY <1>1, <2>1, UnloadEmpties
<1> QED
  BY <1>2, <1>3, <1>4 DEF Call

(* initModel loads the selected type, or fails and leaves nothing ready.   *)
LEMMA LoadRefines ==
  ASSUME SeqInv, NEW t \in Task, LengthDone(t), UNCHANGED listening
  PROVE  [Promised!Next]_(Promised!serviceVars)
<1>1. /\ task[t].pc = "length" /\ task[t].pc \in Initialising
      /\ UNCHANGED <<isListening, inferenceResult>>
  BY DEF LengthDone, Initialising, listening
<1>2. engine = Empty
  BY <1>1, InsideInit
<1>3. CASE UNCHANGED <<fields, native>>
  BY <1>1, <1>3, Unseen DEF fields, native
<1>4. ASSUME NEW o \in Load(t), engine' = o[1], UNCHANGED selectedModelType
      PROVE  [Promised!Next]_(Promised!serviceVars)
  <2>1. o[1] = Empty \/ o[1].file = selectedModelType
    BY <1>1, LoadSelected
  <2>2. CASE engine'.phase = "ready"
    <3>1. Promised!Load
      BY <1>1, <1>2, <1>4, <2>1, <2>2 DEF Promised!Load, Empty
    <3> QED
      BY <3>1 DEF Promised!Next
  <2>3. CASE engine'.phase # "ready"
    BY <1>1, <1>2, <1>4, <2>3 DEF Promised!serviceVars, Empty
  <2> QED
    BY <2>2, <2>3
<1> QED
  BY <1>3, <1>4 DEF LengthDone

(* The I/O thread is not seen; switchModel selects while nothing is loaded.*)
LEMMA TaskRefines ==
  ASSUME SeqInv, NEW t \in Task, IoEffect(t) \/ Resume(t)
  PROVE  [Promised!Next]_(Promised!serviceVars)
<1>1. UNCHANGED <<isListening, inferenceResult>>
  BY DEF IoEffect, Resume, listening
<1>2. CASE UNCHANGED <<engine, selectedModelType>>
  BY <1>1, <1>2, Unseen
<1>3. CASE AfterRemoval(t) /\ UNCHANGED engine /\ task[t].pc \in Removing
  <2>1. CASE task[t].op = "switch"
    <3>1. engine = Empty /\ TaskOK(task[t])
      BY <1>3, BusyStarted DEF Removing, SeqInv, IInv
    <3>2. selectedModelType' \in File
      BY <1>3, <2>1, <3>1 DEF AfterRemoval, TaskOK
    <3>3. Promised!Select
      BY <1>1, <1>3, <3>1, <3>2 DEF Promised!Select, Empty
    <3> QED
      BY <3>3 DEF Promised!Next
  <2>2. CASE task[t].op # "switch"
    BY <1>2, <1>3, <2>2 DEF AfterRemoval
  <2> QED
    BY <2>1, <2>2
<1>4. CASE LengthDone(t) /\ UNCHANGED listening
  BY <1>4, LoadRefines
<1>5. CASE IoEffect(t)
  BY <1>2, <1>5 DEF IoEffect, fields
<1>6. CASE ExistsOldDone(t) \/ DeleteOldDone(t)
  BY <1>2, <1>3, <1>6 DEF ExistsOldDone, DeleteOldDone, fields, Removing
<1>7. CASE WriteDone(t) \/ ExistsDone(t) \/ AssetDone(t)
  BY <1>2, <1>7 DEF WriteDone, ExistsDone, AssetDone, fields, native
<1>8. CASE FfiProbe(t) \/ FfiDone(t)
  BY <1>2, <1>8 DEF FfiProbe, FfiDone, fields, native
<1> QED
  BY <1>4, <1>5, <1>6, <1>7, <1>8 DEF Resume

(* An inference is run on the model loaded at that moment, or the process  *)
(* is taken down.                                                          *)
LEMMA RunRefines ==
  ASSUME SeqInv, RunInference
  PROVE  Promised!Next
<1>1. UNCHANGED <<selectedModelType, isListening>> /\ bindings
  BY DEF RunInference, fields, SeqInv, NothingUnbound
<1>2. PICK o \in RunOutcomes(engine, Samples) :
         engine' = o[1] /\ inferenceResult' = o[2]
  BY <1>1 DEF RunInference
<1>3. CASE o = <<engine, -1>>
  BY <1>1, <1>2, <1>3 DEF Promised!Next, Promised!Infer
<1>4. CASE o = <<Crashed, -1>>
  BY <1>1, <1>2, <1>4 DEF Promised!Next, Promised!Crash, Crashed
<1>5. ASSUME engine.phase = "ready", NEW c \in Classes(engine.file),
             o = <<engine, c>>
      PROVE  Promised!Next
  <2>1. engine.file # Null
    BY <1>5, FileAssumption DEF SeqInv, IInv, EngineFromFile, HasInterpreter
  <2>2. c \in Promised!Classes(engine.file)
    BY <1>5 DEF Classes, Promised!Classes, OutputSize, Promised!OutputSize,
       SizeofFloat, Promised!SizeofFloat
  <2> QED
    BY <1>1, <1>2, <1>5, <2>1, <2>2 DEF Promised!Next, Promised!Infer
<1> QED
  BY <1>2, <1>3, <1>4, <1>5 DEF RunOutcomes

(* Every step of the service is one of the abstract service, or unseen.    *)
LEMMA NextRefines ==
  ASSUME OneCallAtATime, SeqInv, SeqInv', [Next]_vars
  PROVE  [Promised!Next]_(Promised!serviceVars)
<1>1. CASE StartListening \/ StopListening \/ toggleListening
  <2>1. /\ isListening' \in BOOLEAN
        /\ UNCHANGED <<engine, selectedModelType, inferenceResult>>
    BY <1>1 DEF StartListening, StopListening, toggleListening, native,
       fields, SeqInv, IInv, TypeOK
  <2> QED
    BY <2>1 DEF Promised!Next, Promised!Listen
<1>2. CASE Tick
  BY <1>2, Unseen DEF Tick, fields, native
<1>3. CASE Restart
  BY <1>3 DEF Restart, Promised!Next, Promised!Restart, Empty
<1>4. CASE UNCHANGED vars
  BY <1>4, Unseen DEF vars, fields, native, listening
<1>5. CASE SyncCall
  BY <1>1, <1>5 DEF SyncCall, OneCallAtATime
<1> QED
  BY <1>2, <1>3, <1>4, <1>5, CallRefines, TaskRefines, RunRefines DEF Next

(***************************************************************************)
(* One call at a time, voice_service.dart implements the abstract service: *)
(* it selects a type only while nothing is loaded, loads nothing but the   *)
(* selected type, and publishes only results of the model loaded then.     *)
(***************************************************************************)
THEOREM ServiceRefined ==
  ASSUME OneCallAtATime
  PROVE  Spec => ServiceRefinement
<1>1. Init => Promised!Init
  BY DEF Init, Promised!Init, Empty
<1>2. SeqInv /\ SeqInv' /\ [Next]_vars =>
        [Promised!Next]_(Promised!serviceVars)
  BY NextRefines
<1> QED
  BY <1>1, <1>2, SeqInductive, PTL DEF Spec, ServiceRefinement, Promised!Spec
=============================================================================
