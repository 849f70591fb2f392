------------------------- MODULE VoiceServiceProofs -------------------------
(***************************************************************************)
(* Theorems about VoiceService, for any number of overlapping calls, every *)
(* set of model types and every tensor size.                               *)
(***************************************************************************)
EXTENDS VoiceService, TLAPS

-----------------------------------------------------------------------------
(* The inductive invariant                                                 *)

(* Labels of a coroutine that has been through _initFfi.                   *)
Loading == {"asset", "open", "write", "exists", "length"}

(* What a coroutine knows at each label: the type it switches to, the      *)
(* asset fixed at the beginning of initModel, the file fixed by AssetDone. *)
TaskOK(r) ==
    /\ r \in Tasks
    /\ r.op = "switch" => r.newType \in File
    /\ r.pc \in {"ffi", "ffi_open", "asset", "open", "write"} =>
          r.asset \in File
    /\ r.pc \in {"open", "write", "exists", "length"} => r.path \in File

(* Nobody gets past _initFfi before `_bindings` has been assigned.         *)
BindingsFirst ==
    /\ ffiInitialized => bindings
    /\ \A t \in Task : task[t].pc \in Loading => bindings

(* An interpreter was made from a file.                                    *)
EngineFromFile == HasInterpreter(engine) => engine.file \in File

IInv ==
    /\ TypeOK
    /\ \A t \in Task : TaskOK(task[t])
    /\ BindingsFirst
    /\ EngineFromFile
    /\ ServiceBacked
    /\ TrackedMapping
    /\ TimerHandle

-----------------------------------------------------------------------------
(* Coroutines                                                              *)

Pc == {"idle", "exists_old", "delete_old", "ffi", "ffi_open", "asset", "open",
       "write", "exists", "length"}

(* A free coroutine slot.                                                  *)
LEMMA NoTaskOK == TaskOK(NoTask) /\ NoTask.pc = "idle" /\ NoTask.lib = 1
  BY TypeAssumption DEF TaskOK, NoTask, Tasks

(* Handing a file operation to the I/O thread changes label and path only. *)
LEMMA AwaitOK ==
  ASSUME NEW r \in Tasks, NEW label \in Pc, NEW p \in File \union {Null}
  PROVE  LET a == Await(r, label, p)
         IN /\ a \in Tasks
            /\ a.pc = label /\ a.io = "pending" /\ a.path = p /\ a.op = r.op
            /\ a.newType = r.newType /\ a.asset = r.asset
  BY DEF Await, Tasks, Pc

(* The beginning of initModel fixes the asset of the type it is given.     *)
LEMMA StartInitOK ==
  ASSUME NEW r \in Tasks, r.op = "switch" => r.newType \in File,
         NEW type \in File, ffiInitialized => bindings
  PROVE  LET s == StartInit(r, type)
         IN TaskOK(s) /\ (s.pc \in Loading => bindings)
<1> DEFINE label == IF ffiInitialized THEN "asset" ELSE "ffi"
           a == Await(r, label, Null)
<1>1. label \in Pc
  BY DEF Pc
<1>2. /\ a \in Tasks
      /\ a.pc = label /\ a.path = Null /\ a.op = r.op
      /\ a.newType = r.newType /\ a.asset = r.asset
  <2> HIDE DEF label
  <2> QED
    BY <1>1, AwaitOK
<1> HIDE DEF a
<1>3. StartInit(r, type) = [a EXCEPT !.asset = type, !.lib = 1]
  BY DEF StartInit, a
<1> DEFINE s == [a EXCEPT !.asset = type, !.lib = 1]
<1>4. /\ s \in Tasks
      /\ s.pc = label /\ s.op = r.op /\ s.newType = r.newType
      /\ s.asset = type
  <2> HIDE DEF label
  <2>1. 1 \in 1..Libraries
    BY TypeAssumption
  <2>2. s \in Tasks
    BY <1>2, <2>1 DEF Tasks
  <2>3. s.pc = a.pc /\ s.op = a.op /\ s.newType = a.newType
    BY <1>2 DEF Tasks
  <2>4. s.asset = type
    BY <1>2 DEF Tasks
  <2> HIDE DEF s
  <2> QED
    BY <1>2, <2>2, <2>3, <2>4
<1> HIDE DEF s
<1>5. TaskOK(s) /\ (s.pc \in Loading => bindings)
  BY <1>4 DEF TaskOK, Loading
<1> QED
  BY <1>3, <1>5 DEF s

(* One coroutine gets a new record; the others keep theirs.                *)
LEMMA TaskStep ==
  ASSUME IInv, NEW t \in Task, NEW r, TaskOK(r),
         task' = [task EXCEPT ![t] = r],
         r.pc \in Loading => bindings',
         bindings => bindings',
         ffiInitialized' => bindings'
  PROVE  /\ task' \in [Task -> Tasks]
         /\ (\A s \in Task : TaskOK(task[s]))'
         /\ BindingsFirst'
<1> USE DEF IInv
<1>1. task \in [Task -> Tasks] /\ r \in Tasks
  BY DEF TypeOK, TaskOK
<1>2. \A s \in Task : task'[s] = IF s = t THEN r ELSE task[s]
  BY <1>1
<1>3. task' \in [Task -> Tasks]
  BY <1>1
<1>4. (\A s \in Task : TaskOK(task[s]))'
  <2> SUFFICES ASSUME NEW s \in Task PROVE TaskOK(task'[s])
    OBVIOUS
  <2> QED
    BY <1>2
<1>5. BindingsFirst'
  BY <1>2 DEF BindingsFirst
<1> QED
  BY <1>3, <1>4, <1>5

(* No coroutine moves.                                                     *)
LEMMA TasksKept ==
  ASSUME IInv, UNCHANGED <<task, bindings>>, ffiInitialized' => bindings'
  PROVE  /\ task' \in [Task -> Tasks]
         /\ (\A s \in Task : TaskOK(task[s]))'
         /\ BindingsFirst'
  BY DEF IInv, TypeOK, BindingsFirst

(* unload_model leaves an empty engine, or nothing changes.                *)
LEMMA UnloadOK ==
  ASSUME IInv, UnloadModel
  PROVE  /\ engine' \in EngineState
         /\ EngineFromFile'
         /\ mapping' \in {mapping, Null}
         /\ intact' \in BOOLEAN
<1>1. engine \in EngineState /\ intact \in BOOLEAN /\ EngineFromFile
  BY DEF IInv, TypeOK
<1>2. Empty \in EngineState /\ ~HasInterpreter(Empty)
  BY DEF EngineState, Empty, Phase, HasInterpreter
<1>3. CASE bindings
  BY <1>2, <1>3 DEF UnloadModel, EngineFromFile
<1>4. CASE ~bindings
  BY <1>1, <1>4 DEF UnloadModel, EngineFromFile
<1> QED
  BY <1>3, <1>4

(* A step that changes nothing but coroutines.                             *)
LEMMA OnlyTasks ==
  ASSUME IInv, UNCHANGED <<fields, native, listening, disk, inits>>,
         task' \in [Task -> Tasks],
         (\A s \in Task : TaskOK(task[s]))',
         BindingsFirst'
  PROVE  IInv'
<1>1. TypeOK'
  BY DEF fields, native, listening, IInv, TypeOK
<1> QED
  BY <1>1 DEF fields, native, listening, IInv, EngineFromFile, ServiceBacked,
     TrackedMapping, TimerHandle

-----------------------------------------------------------------------------
(* Every action keeps the invariant                                        *)

(* initModel, up to its first await.                                       *)
LEMMA InitModelKeeps ==
  ASSUME IInv, NEW t \in Task, initModel(t)
  PROVE  IInv'
<1> DEFINE r0 == [NoTask EXCEPT !.op = "init"]
           r == StartInit(r0, selectedModelType)
<1>1. r0 \in Tasks /\ r0.op = "init"
  BY NoTaskOK DEF NoTask, TaskOK, Tasks
<1>2. TaskOK(r) /\ (r.pc \in Loading => bindings)
  <2> HIDE DEF r0
  <2> QED
    BY <1>1, StartInitOK DEF IInv, TypeOK, BindingsFirst
<1>3. task' = [task EXCEPT ![t] = r]
  BY DEF initModel, Suspend
<1>4. UNCHANGED <<fields, native, listening, disk>>
  BY DEF initModel
<1> HIDE DEF r
<1>5. /\ task' \in [Task -> Tasks]
      /\ (\A s \in Task : TaskOK(task[s]))'
      /\ BindingsFirst'
  BY <1>2, <1>3, <1>4, TaskStep DEF fields, native, IInv, BindingsFirst
<1>6. inits' \in 0..MaxInits
  BY TypeAssumption DEF initModel, IInv, TypeOK
<1>7. TypeOK'
  BY <1>4, <1>5, <1>6 DEF fields, native, listening, IInv, TypeOK
<1> QED
  BY <1>4, <1>5, <1>7 DEF fields, native, listening, IInv, EngineFromFile,
     ServiceBacked, TrackedMapping, TimerHandle

(* What switchModel and dispose suspend with while the old file goes.      *)
LEMMA RemoveOldOK ==
  ASSUME IInv, NEW r \in Tasks, r.op = "switch" => r.newType \in File,
         NEW label \in {"exists_old", "delete_old"}
  PROVE  LET a == Await(r, label, currentModelFile)
         IN TaskOK(a) /\ a.pc = label /\ a.pc \notin Loading
<1> DEFINE a == Await(r, label, currentModelFile)
<1>1. currentModelFile \in File \union {Null} /\ label \in Pc
  BY DEF IInv, TypeOK, Pc
<1>2. /\ a \in Tasks
      /\ a.pc = label /\ a.op = r.op /\ a.newType = r.newType
  BY <1>1, AwaitOK
<1> HIDE DEF a
<1>3. TaskOK(a) /\ a.pc = label /\ a.pc \notin Loading
  BY <1>2 DEF TaskOK, Loading
<1> QED
  BY <1>3 DEF a

(* switchModel answers at once, or unloads and asks for the old file.      *)
LEMMA SwitchModelKeeps ==
  ASSUME IInv, NEW t \in Task, NEW newType \in SwitchTypes,
         switchModel(t, newType)
  PROVE  IInv'
<1>1. UNCHANGED <<fields, listening, disk, inits>>
  BY DEF switchModel
<1>2. CASE UNCHANGED <<task, native>>
  <2>1. /\ task' \in [Task -> Tasks]
        /\ (\A s \in Task : TaskOK(task[s]))'
        /\ BindingsFirst'
    BY <1>1, <1>2, TasksKept DEF fields, native, IInv, BindingsFirst
  <2> QED
    BY <1>1, <1>2, <2>1, OnlyTasks
<1>3. CASE /\ UnloadModel
           /\ Suspend(t, RemoveOld([NoTask EXCEPT !.op = "switch",
                                                  !.newType = newType]))
           /\ UNCHANGED bindings
  <2> DEFINE r0 == [NoTask EXCEPT !.op = "switch", !.newType = newType]
             r == Await(r0, "exists_old", currentModelFile)
  <2>1. newType \in File
    BY TypeAssumption
  <2>2. r0 \in Tasks /\ r0.newType = newType
    BY <2>1, NoTaskOK DEF NoTask, TaskOK, Tasks
  <2>3. task' = [task EXCEPT ![t] = r]
    BY <1>3 DEF Suspend, RemoveOld
  <2> HIDE DEF r0
  <2>4. TaskOK(r) /\ r.pc \notin Loading
    BY <2>1, <2>2, RemoveOldOK
  <2> HIDE DEF r
  <2>5. /\ task' \in [Task -> Tasks]
        /\ (\A s \in Task : TaskOK(task[s]))'
        /\ BindingsFirst'
    BY <1>1, <1>3, <2>3, <2>4, TaskStep DEF fields, IInv, BindingsFirst
  <2>6. TypeOK'
    BY <1>1, <1>3, <2>5, UnloadOK DEF fields, listening, IInv, TypeOK
  <2> QED
    BY <1>1, <1>3, <2>5, <2>6, UnloadOK DEF fields, listening, IInv,
       ServiceBacked, TrackedMapping, TimerHandle
<1> QED
  BY <1>2, <1>3 DEF switchModel

(* setModelType ignores a type it does not know.                           *)
LEMMA SetModelTypeKeeps ==
  ASSUME IInv, NEW type, setModelType(type)
  PROVE  IInv'
<1>1. /\ selectedModelType' \in File
      /\ UNCHANGED <<isInitialized, ffiInitialized, currentModelFile, native,
                     listening, disk, task, inits>>
  BY DEF setModelType, IInv, TypeOK
<1>2. /\ task' \in [Task -> Tasks]
      /\ (\A s \in Task : TaskOK(task[s]))'
      /\ BindingsFirst'
  BY <1>1, TasksKept DEF native, IInv, BindingsFirst
<1>3. TypeOK'
  BY <1>1, <1>2 DEF native, listening, IInv, TypeOK
<1> QED
  BY <1>1, <1>2, <1>3 DEF native, listening, IInv, EngineFromFile,
     ServiceBacked, TrackedMapping, TimerHandle

(* The timer fields after stopListening and startListening.                *)
LEMMA TimerOK ==
  ASSUME IInv, stopListening \/ startListening
  PROVE  /\ isListening' \in BOOLEAN
         /\ timers' \subseteq 1..MaxTimers
         /\ timer' \in 1..MaxTimers \union {Null}
         /\ TimerHandle'
<1>1. timers \subseteq 1..MaxTimers
  BY DEF IInv, TypeOK
<1>2. Null \notin 1..MaxTimers
  BY NullAssumption, TypeAssumption
<1>3. CASE stopListening
  BY <1>1, <1>3 DEF stopListening, TimerHandle
<1>4. CASE startListening
  BY <1>1, <1>2, <1>4 DEF startListening, TimerHandle
<1> QED
  BY <1>3, <1>4

(* startListening, stopListening and toggleListening.                      *)
LEMMA ListeningKeeps ==
  ASSUME IInv, StartListening \/ StopListening \/ toggleListening
  PROVE  IInv'
<1>1. /\ stopListening \/ startListening
      /\ UNCHANGED <<fields, native, inferenceResult, pending, disk, task,
                     inits>>
  BY DEF StartListening, StopListening, toggleListening
<1>2. /\ task' \in [Task -> Tasks]
      /\ (\A s \in Task : TaskOK(task[s]))'
      /\ BindingsFirst'
  BY <1>1, TasksKept DEF fields, native, IInv, BindingsFirst
<1>3. /\ isListening' \in BOOLEAN
      /\ timers' \subseteq 1..MaxTimers
      /\ timer' \in 1..MaxTimers \union {Null}
      /\ TimerHandle'
  BY <1>1, TimerOK
<1>4. TypeOK'
  BY <1>1, <1>2, <1>3 DEF fields, native, IInv, TypeOK
<1> QED
  BY <1>1, <1>2, <1>3, <1>4 DEF fields, native, IInv, EngineFromFile,
     ServiceBacked, TrackedMapping

(* dispose, up to its first await or to its end.                           *)
LEMMA DisposeKeeps ==
  ASSUME IInv, NEW t \in Task, dispose(t)
  PROVE  IInv'
<1>1. /\ stopListening /\ UnloadModel
      /\ UNCHANGED <<bindings, inferenceResult, pending, disk, inits>>
  BY DEF dispose
<1>2. /\ isListening' \in BOOLEAN
      /\ timers' \subseteq 1..MaxTimers
      /\ timer' \in 1..MaxTimers \union {Null}
      /\ TimerHandle'
  BY <1>1, TimerOK
<1>3. /\ engine' \in EngineState
      /\ EngineFromFile'
      /\ mapping' \in {mapping, Null}
      /\ intact' \in BOOLEAN
  BY <1>1, UnloadOK
<1>4. /\ isInitialized' \in BOOLEAN /\ ffiInitialized' \in BOOLEAN
      /\ isInitialized' => isInitialized
      /\ ffiInitialized' => ffiInitialized
      /\ UNCHANGED <<selectedModelType, currentModelFile>>
  BY DEF dispose, fields, IInv, TypeOK
<1>5. /\ task' \in [Task -> Tasks]
      /\ (\A s \in Task : TaskOK(task[s]))'
      /\ BindingsFirst'
  <2> DEFINE r0 == [NoTask EXCEPT !.op = "dispose"]
             r == Await(r0, "exists_old", currentModelFile)
  <2>1. CASE task' = [task EXCEPT ![t] = r]
    <3>1. r0 \in Tasks /\ r0.op = "dispose"
      BY NoTaskOK DEF NoTask, TaskOK, Tasks
    <3> HIDE DEF r0
    <3>2. TaskOK(r) /\ r.pc \notin Loading
      BY <3>1, RemoveOldOK
    <3> HIDE DEF r
    <3> QED
      BY <1>1, <1>4, <2>1, <3>2, TaskStep DEF IInv, BindingsFirst
  <2>2. CASE UNCHANGED task
    BY <1>1, <1>4, <2>2, TasksKept DEF IInv, BindingsFirst
  <2> QED
    BY <2>1, <2>2 DEF dispose, Suspend, RemoveOld
<1>6. TypeOK'
  BY <1>1, <1>2, <1>3, <1>4, <1>5 DEF IInv, TypeOK
<1> QED
  BY <1>1, <1>2, <1>3, <1>4, <1>5, <1>6 DEF IInv, ServiceBacked,
     TrackedMapping

(* What is left to show of a step of the I/O thread on task t.             *)
LEMMA EffectKeeps ==
  ASSUME IInv, NEW t \in Task,
         UNCHANGED <<fields, bindings, engine, listening, inits>>,
         NEW r, TaskOK(r), r.pc \in Loading => bindings,
         task' = [task EXCEPT ![t] = r],
         disk' \in [File -> Contents],
         UNCHANGED mapping,
         intact' \in BOOLEAN
  PROVE  IInv'
<1>1. /\ task' \in [Task -> Tasks]
      /\ (\A s \in Task : TaskOK(task[s]))'
      /\ BindingsFirst'
  BY TaskStep DEF fields, IInv, BindingsFirst
<1>2. TypeOK'
  BY <1>1 DEF fields, listening, IInv, TypeOK
<1> QED
  BY <1>1, <1>2 DEF fields, listening, IInv, EngineFromFile, ServiceBacked,
     TrackedMapping, TimerHandle

(* An answer of the I/O thread leaves label, type, asset and path alone.   *)
LEMMA DoneOK ==
  ASSUME IInv, NEW t \in Task, NEW io \in {"yes", "no", "error"}
  PROVE  LET r == [task[t] EXCEPT !.io = io]
         IN /\ Done(t, io) = [task EXCEPT ![t] = r]
            /\ TaskOK(r)
            /\ r.pc \in Loading => bindings
            /\ Done(t, io)[t] = r
<1> DEFINE r == [task[t] EXCEPT !.io = io]
<1>1. task \in [Task -> Tasks] /\ task[t] \in Tasks /\ TaskOK(task[t])
  BY DEF IInv, TypeOK
<1>2. r \in Tasks
  BY <1>1 DEF Tasks
<1>3. /\ r.pc = task[t].pc /\ r.op = task[t].op
      /\ r.newType = task[t].newType /\ r.asset = task[t].asset
      /\ r.path = task[t].path
  BY <1>1 DEF Tasks
<1>4. Done(t, io) = [task EXCEPT ![t] = r]
  BY DEF Done
<1> HIDE DEF r
<1>5. TaskOK(r)
  BY <1>1, <1>2, <1>3 DEF TaskOK
<1>6. r.pc \in Loading => bindings
  BY <1>3 DEF IInv, BindingsFirst
<1>7. Done(t, io)[t] = r
  BY <1>1, <1>4
<1> QED
  BY <1>4, <1>5, <1>6, <1>7 DEF r

(* File.exists and File.length only answer.                                *)
LEMMA ExistsLengthKeep ==
  ASSUME IInv, NEW t \in Task, ExistsEffect(t) \/ LengthEffect(t),
         UNCHANGED <<fields, bindings, engine, listening, inits>>
  PROVE  IInv'
<1>1. PICK io \in {"yes", "no", "error"} : task' = Done(t, io)
  BY DEF ExistsEffect, LengthEffect
<1>2. UNCHANGED <<disk, mapping, intact>>
  BY DEF ExistsEffect, LengthEffect
<1>3. disk' \in [File -> Contents] /\ intact' \in BOOLEAN
  BY <1>2 DEF IInv, TypeOK
<1> DEFINE r == [task[t] EXCEPT !.io = io]
<1>4. TaskOK(r) /\ (r.pc \in Loading => bindings)
      /\ task' = [task EXCEPT ![t] = r]
  BY <1>1, DoneOK
<1> HIDE DEF r
<1> QED
  BY <1>2, <1>3, <1>4, EffectKeeps

(* File.writeAsBytes opens the file, or fails.                             *)
LEMMA OpenKeeps ==
  ASSUME IInv, NEW t \in Task, OpenEffect(t),
         UNCHANGED <<fields, bindings, engine, listening, inits>>
  PROVE  IInv'
<1>1. /\ disk \in [File -> Contents] /\ intact \in BOOLEAN
      /\ task[t] \in Tasks /\ TaskOK(task[t])
  BY DEF IInv, TypeOK
<1>2. CASE task' = Done(t, "error") /\ UNCHANGED <<disk, intact>>
  <2> DEFINE r == [task[t] EXCEPT !.io = "error"]
  <2>1. TaskOK(r) /\ (r.pc \in Loading => bindings)
        /\ task' = [task EXCEPT ![t] = r]
    BY <1>2, DoneOK
  <2> HIDE DEF r
  <2> QED
    BY <1>1, <1>2, <2>1, EffectKeeps DEF OpenEffect
<1>3. CASE /\ disk' = [disk EXCEPT ![task[t].path] = "partial"]
           /\ intact' = (intact /\ mapping # task[t].path)
           /\ task' = [task EXCEPT ![t].pc = "write", ![t].linked = TRUE]
  <2> DEFINE r == [task[t] EXCEPT !.pc = "write", !.linked = TRUE]
  <2>1. disk' \in [File -> Contents] /\ intact' \in BOOLEAN
    BY <1>1, <1>3 DEF Contents
  <2>2. task' = [task EXCEPT ![t] = r]
    BY <1>1, <1>3 DEF IInv, TypeOK
  <2>3. r \in Tasks
    BY <1>1 DEF Tasks
  <2>4. /\ r.pc = "write" /\ r.op = task[t].op
        /\ r.newType = task[t].newType /\ r.asset = task[t].asset
        /\ r.path = task[t].path
    BY <1>1 DEF Tasks
  <2> HIDE DEF r
  <2>5. TaskOK(r) /\ (r.pc \in Loading => bindings)
    BY <1>1, <2>3, <2>4 DEF OpenEffect, TaskOK, Loading, IInv, BindingsFirst
  <2> QED
    BY <2>1, <2>2, <2>5, EffectKeeps DEF OpenEffect
<1> QED
  BY <1>2, <1>3 DEF OpenEffect

(* File.writeAsBytes writes the asset, or fails.                           *)
LEMMA WriteKeeps ==
  ASSUME IInv, NEW t \in Task, WriteEffect(t),
         UNCHANGED <<fields, bindings, engine, listening, inits>>
  PROVE  IInv'
<1>1. /\ disk \in [File -> Contents] /\ intact \in BOOLEAN
      /\ TaskOK(task[t])
  BY DEF IInv, TypeOK
<1>2. task[t].asset \in Contents
  BY <1>1 DEF WriteEffect, TaskOK, Contents
<1>3. PICK io \in {"yes", "no", "error"} : task' = Done(t, io)
  BY DEF WriteEffect
<1>4. disk' \in [File -> Contents]
  BY <1>1, <1>2 DEF WriteEffect, Contents
<1>5. intact' \in BOOLEAN /\ UNCHANGED mapping
  BY <1>1 DEF WriteEffect
<1> DEFINE r == [task[t] EXCEPT !.io = io]
<1>6. TaskOK(r) /\ (r.pc \in Loading => bindings)
      /\ task' = [task EXCEPT ![t] = r]
  BY <1>3, DoneOK
<1> HIDE DEF r
<1> QED
  BY <1>4, <1>5, <1>6, EffectKeeps

(* A file that loses its name changes nothing else for who has it open.    *)
LEMMA UnlinkedOK ==
  ASSUME NEW r, TaskOK(r)
  PROVE  LET u == [r EXCEPT !.linked = FALSE]
         IN TaskOK(u) /\ u.pc = r.pc
<1> DEFINE u == [r EXCEPT !.linked = FALSE]
<1>1. r \in Tasks
  BY DEF TaskOK
<1>2. u \in Tasks
  BY <1>1 DEF Tasks
<1>3. /\ u.pc = r.pc /\ u.op = r.op /\ u.newType = r.newType
      /\ u.asset = r.asset /\ u.path = r.path
  BY <1>1 DEF Tasks
<1> HIDE DEF u
<1>4. TaskOK(u) /\ u.pc = r.pc
  BY <1>2, <1>3 DEF TaskOK
<1> QED
  BY <1>4 DEF u

(* The deleted file may be open in other coroutines, and be mapped.        *)
LEMMA DeleteKeeps ==
  ASSUME IInv, NEW t \in Task, DeleteEffect(t),
         UNCHANGED <<fields, bindings, engine, listening, inits>>
  PROVE  IInv'
<1> DEFINE p == task[t].path
<1>1. /\ disk \in [File -> Contents] /\ intact' \in BOOLEAN
      /\ mapping \in File \union {Null}
  BY DEF IInv, TypeOK, DeleteEffect
<1>2. CASE task' = Done(t, "error") /\ UNCHANGED <<disk, mapping>>
  <2> DEFINE r == [task[t] EXCEPT !.io = "error"]
  <2>1. TaskOK(r) /\ (r.pc \in Loading => bindings)
        /\ task' = [task EXCEPT ![t] = r]
    BY <1>2, DoneOK
  <2> HIDE DEF r
  <2> QED
    BY <1>1, <1>2, <2>1, EffectKeeps
<1>3. CASE /\ disk' = [disk EXCEPT ![p] = "absent"]
           /\ mapping' = IF mapping = p THEN Null ELSE mapping
           /\ task' = [s \in Task |->
                         IF s = t THEN Done(t, "yes")[t]
                         ELSE IF task[s].path = p
                         THEN [task[s] EXCEPT !.linked = FALSE]
                         ELSE task[s]]
  <2> DEFINE r == [task[t] EXCEPT !.io = "yes"]
             u(s) == [task[s] EXCEPT !.linked = FALSE]
  <2>1. /\ disk' = [disk EXCEPT ![p] = "absent"]
        /\ mapping' \in {mapping, Null}
        /\ task' = [s \in Task |->
                      IF s = t THEN Done(t, "yes")[t]
                      ELSE IF task[s].path = p THEN u(s) ELSE task[s]]
    BY <1>3
  <2>2. disk' \in [File -> Contents]
    BY <1>1, <2>1 DEF Contents
  <2>3. /\ TaskOK(r) /\ (r.pc \in Loading => bindings)
        /\ Done(t, "yes")[t] = r
    BY DoneOK
  <2>4. \A s \in Task : TaskOK(u(s)) /\ u(s).pc = task[s].pc
    BY UnlinkedOK DEF IInv
  <2> HIDE DEF r, u, p
  <2>5. ASSUME NEW s \in Task
        PROVE  TaskOK(task'[s]) /\ (task'[s].pc \in Loading => bindings)
    <3>1. task'[s] \in {r, u(s), task[s]}
      BY <2>1, <2>3
    <3> QED
      BY <2>3, <2>4, <3>1 DEF IInv, BindingsFirst
  <2>6. task' \in [Task -> Tasks]
    BY <2>1, <2>5 DEF TaskOK
  <2>7. BindingsFirst'
    BY <2>5 DEF fields, IInv, BindingsFirst
  <2>8. TypeOK'
    BY <1>1, <2>1, <2>2, <2>6 DEF fields, listening, IInv, TypeOK
  <2> QED
    BY <2>1, <2>5, <2>7, <2>8 DEF fields, listening, IInv, EngineFromFile,
       ServiceBacked, TrackedMapping, TimerHandle
<1> QED
  BY <1>2, <1>3 DEF DeleteEffect

(* Every operation of the I/O thread.                                      *)
LEMMA IoEffectKeeps ==
  ASSUME IInv, NEW t \in Task, IoEffect(t)
  PROVE  IInv'
  BY ExistsLengthKeep, DeleteKeeps, OpenKeeps, WriteKeeps DEF IoEffect

(* A coroutine that suspends again, or ends, and changes no field.         *)
LEMMA SuspendKeeps ==
  ASSUME IInv, NEW t \in Task, NEW r, TaskOK(r), r.pc \in Loading => bindings,
         task' = [task EXCEPT ![t] = r],
         UNCHANGED <<fields, native, listening, disk, inits>>
  PROVE  IInv'
<1>1. /\ task' \in [Task -> Tasks]
      /\ (\A s \in Task : TaskOK(task[s]))'
      /\ BindingsFirst'
  BY TaskStep DEF fields, native, IInv, BindingsFirst
<1> QED
  BY <1>1, OnlyTasks

(* A coroutine ends.                                                       *)
LEMMA AnswerKeeps ==
  ASSUME IInv, NEW t \in Task, NEW value, Answer(t, value),
         UNCHANGED <<fields, native, listening, disk, inits>>
  PROVE  IInv'
<1>1. task' = [task EXCEPT ![t] = NoTask]
  BY DEF Answer
<1>2. TaskOK(NoTask) /\ NoTask.pc \notin Loading
  BY NoTaskOK DEF Loading
<1> QED
  BY <1>1, <1>2, SuspendKeeps

(* switchModel goes on into initModel; dispose resets the flags.           *)
LEMMA AfterRemovalKeeps ==
  ASSUME IInv, NEW t \in Task, AfterRemoval(t),
         UNCHANGED <<native, listening, disk, inits>>
  PROVE  IInv'
<1>1. task[t] \in Tasks /\ TaskOK(task[t])
  BY DEF IInv, TypeOK
<1>2. CASE task[t].op = "switch"
  <2> DEFINE r == StartInit(task[t], task[t].newType)
  <2>1. /\ selectedModelType' = task[t].newType
        /\ task' = [task EXCEPT ![t] = r]
        /\ UNCHANGED <<isInitialized, ffiInitialized, currentModelFile>>
    BY <1>2 DEF AfterRemoval, Suspend
  <2>2. task[t].newType \in File
    BY <1>1, <1>2 DEF TaskOK
  <2>3. TaskOK(r) /\ (r.pc \in Loading => bindings)
    BY <1>1, <2>2, StartInitOK DEF IInv, BindingsFirst
  <2> HIDE DEF r
  <2>4. /\ task' \in [Task -> Tasks]
        /\ (\A s \in Task : TaskOK(task[s]))'
        /\ BindingsFirst'
    BY <2>1, <2>3, TaskStep DEF native, IInv, BindingsFirst
  <2>5. TypeOK'
    BY <2>1, <2>2, <2>4 DEF native, listening, IInv, TypeOK
  <2> QED
    BY <2>1, <2>4, <2>5 DEF native, listening, IInv, EngineFromFile,
       ServiceBacked, TrackedMapping, TimerHandle
<1>3. CASE task[t].op # "switch"
  <2>1. /\ isInitialized' = FALSE /\ ffiInitialized' = FALSE
        /\ task' = [task EXCEPT ![t] = NoTask]
        /\ UNCHANGED <<selectedModelType, currentModelFile>>
    BY <1>3 DEF AfterRemoval, Answer
  <2>2. TaskOK(NoTask) /\ NoTask.pc \notin Loading
    BY NoTaskOK DEF Loading
  <2>3. /\ task' \in [Task -> Tasks]
        /\ (\A s \in Task : TaskOK(task[s]))'
        /\ BindingsFirst'
    BY <2>1, <2>2, TaskStep DEF native
  <2>4. TypeOK'
    BY <2>1, <2>3 DEF native, listening, IInv, TypeOK
  <2> QED
    BY <2>1, <2>3, <2>4 DEF native, listening, IInv, EngineFromFile,
       ServiceBacked, TrackedMapping, TimerHandle
<1> QED
  BY <1>2, <1>3

(* switchModel and dispose after the removal of the old file.              *)
LEMMA RemovalDoneKeeps ==
  ASSUME IInv, NEW t \in Task, ExistsOldDone(t) \/ DeleteOldDone(t),
         UNCHANGED <<listening, disk, inits>>
  PROVE  IInv'
<1>1. UNCHANGED native
  BY DEF ExistsOldDone, DeleteOldDone, native
<1>2. CASE AfterRemoval(t)
  BY <1>1, <1>2, AfterRemovalKeeps
<1>3. CASE Answer(t, "throw") /\ UNCHANGED fields
  BY <1>1, <1>3, AnswerKeeps
<1>4. CASE /\ Suspend(t, Await(task[t], "delete_old", currentModelFile))
           /\ UNCHANGED fields
  <2> DEFINE r == Await(task[t], "delete_old", currentModelFile)
  <2>1. task[t] \in Tasks /\ TaskOK(task[t])
    BY DEF IInv, TypeOK
  <2>2. TaskOK(r) /\ r.pc \notin Loading
    BY <2>1, RemoveOldOK DEF TaskOK
  <2>3. task' = [task EXCEPT ![t] = r]
    BY <1>4 DEF Suspend
  <2> HIDE DEF r
  <2> QED
    BY <1>1, <1>4, <2>2, <2>3, SuspendKeeps
<1> QED
  BY <1>2, <1>3, <1>4 DEF ExistsOldDone, DeleteOldDone

(* The awaits of _initFfi and initModel.                                   *)
LEMMA NextAwaitOK ==
  ASSUME NEW r, TaskOK(r),
         NEW label \in {"ffi_open", "asset", "open", "exists", "length"},
         NEW p \in File \union {Null},
         label \in {"ffi_open", "asset", "open"} => r.asset \in File,
         label \in {"open", "exists", "length"} => p \in File
  PROVE  LET a == Await(r, label, p) IN TaskOK(a) /\ a.pc = label
<1> DEFINE a == Await(r, label, p)
<1>1. r \in Tasks /\ label \in Pc
  BY DEF TaskOK, Pc
<1>2. /\ a \in Tasks
      /\ a.pc = label /\ a.path = p /\ a.op = r.op
      /\ a.newType = r.newType /\ a.asset = r.asset
  BY <1>1, AwaitOK
<1> HIDE DEF a
<1>3. TaskOK(a) /\ a.pc = label
  BY <1>2 DEF TaskOK
<1> QED
  BY <1>3 DEF a

(* loadFfiEngine looks at one more path.                                   *)
LEMMA FfiProbeKeeps ==
  ASSUME IInv, NEW t \in Task, FfiProbe(t),
         UNCHANGED <<listening, disk, inits>>
  PROVE  IInv'
<1>1. task[t] \in Tasks /\ TaskOK(task[t]) /\ task[t].pc = "ffi"
  BY DEF IInv, TypeOK, FfiProbe
<1>2. UNCHANGED <<fields, native>>
  BY DEF FfiProbe
<1>3. CASE /\ task[t].lib < Libraries
           /\ Suspend(t, [task[t] EXCEPT !.lib = @ + 1])
  <2> DEFINE r == [task[t] EXCEPT !.lib = task[t].lib + 1]
  <2>1. task[t].lib + 1 \in 1..Libraries
    BY <1>1, <1>3, TypeAssumption DEF Tasks
  <2>2. r \in Tasks
    BY <1>1, <2>1 DEF Tasks
  <2>3. /\ r.pc = "ffi" /\ r.op = task[t].op
        /\ r.newType = task[t].newType /\ r.asset = task[t].asset
    BY <1>1 DEF Tasks
  <2>4. task' = [task EXCEPT ![t] = r]
    BY <1>3 DEF Suspend
  <2> HIDE DEF r
  <2>5. TaskOK(r) /\ r.pc \notin Loading
    BY <1>1, <2>2, <2>3 DEF TaskOK, Loading
  <2> QED
    BY <1>2, <2>4, <2>5, SuspendKeeps
<1>4. CASE Answer(t, "false")
  BY <1>2, <1>4, AnswerKeeps
<1>5. CASE Suspend(t, Await(task[t], "ffi_open", Null))
  <2> DEFINE r == Await(task[t], "ffi_open", Null)
  <2>1. TaskOK(r) /\ r.pc = "ffi_open"
    BY <1>1, NextAwaitOK DEF TaskOK
  <2>2. task' = [task EXCEPT ![t] = r]
    BY <1>5 DEF Suspend
  <2> HIDE DEF r
  <2> QED
    BY <1>2, <2>1, <2>2, SuspendKeeps DEF Loading
<1> QED
  BY <1>3, <1>4, <1>5 DEF FfiProbe

(* initFfiPlugin assigns the bindings, or throws.                          *)
LEMMA FfiDoneKeeps ==
  ASSUME IInv, NEW t \in Task, FfiDone(t),
         UNCHANGED <<listening, disk, inits>>
  PROVE  IInv'
<1>1. task[t] \in Tasks /\ TaskOK(task[t]) /\ task[t].pc = "ffi_open"
  BY DEF IInv, TypeOK, FfiDone
<1>2. UNCHANGED <<isInitialized, selectedModelType, currentModelFile, engine,
                  mapping, intact>>
  BY DEF FfiDone
<1>3. CASE Answer(t, "false") /\ UNCHANGED <<bindings, ffiInitialized>>
  BY <1>2, <1>3, AnswerKeeps DEF fields, native
<1>4. CASE /\ bindings' = TRUE /\ ffiInitialized' = TRUE
           /\ Suspend(t, Await(task[t], "asset", Null))
  <2> DEFINE r == Await(task[t], "asset", Null)
  <2>1. TaskOK(r)
    BY <1>1, NextAwaitOK DEF TaskOK
  <2>2. task' = [task EXCEPT ![t] = r]
    BY <1>4 DEF Suspend
  <2> HIDE DEF r
  <2>3. /\ task' \in [Task -> Tasks]
        /\ (\A s \in Task : TaskOK(task[s]))'
        /\ BindingsFirst'
    BY <1>4, <2>1, <2>2, TaskStep
  <2>4. TypeOK'
    BY <1>2, <1>4, <2>3 DEF listening, IInv, TypeOK
  <2> QED
    BY <1>2, <1>4, <2>3, <2>4 DEF listening, IInv, EngineFromFile,
       ServiceBacked, TrackedMapping, TimerHandle
<1> QED
  BY <1>3, <1>4 DEF FfiDone

(* initModel after the asset, the write and the check for the file.        *)
LEMMA StagesKeep ==
  ASSUME IInv, NEW t \in Task, AssetDone(t) \/ WriteDone(t) \/ ExistsDone(t),
         UNCHANGED <<listening, disk, inits>>
  PROVE  IInv'
<1>1. task[t] \in Tasks /\ TaskOK(task[t]) /\ selectedModelType \in File
  BY DEF IInv, TypeOK
<1>2. UNCHANGED <<fields, native>>
  BY DEF AssetDone, WriteDone, ExistsDone
<1>3. bindings
  BY DEF AssetDone, WriteDone, ExistsDone, IInv, BindingsFirst, Loading
<1>4. CASE Answer(t, "false")
  BY <1>2, <1>4, AnswerKeeps
<1>5. ASSUME NEW label \in {"open", "exists", "length"}, NEW p \in File,
             label = "open" => task[t].asset \in File,
             Suspend(t, Await(task[t], label, p))
      PROVE  IInv'
  <2> DEFINE r == Await(task[t], label, p)
  <2>1. TaskOK(r)
    BY <1>1, <1>5, NextAwaitOK
  <2>2. task' = [task EXCEPT ![t] = r]
    BY <1>5 DEF Suspend
  <2> HIDE DEF r
  <2> QED
    BY <1>2, <1>3, <2>1, <2>2, SuspendKeeps
<1>6. CASE AssetDone(t)
  <2>1. task[t].asset \in File
    BY <1>1, <1>6 DEF AssetDone, TaskOK
  <2> QED
    BY <1>1, <1>4, <1>5, <1>6, <2>1 DEF AssetDone
<1>7. CASE WriteDone(t) \/ ExistsDone(t)
  <2>1. task[t].path \in File
    BY <1>1, <1>7 DEF WriteDone, ExistsDone, TaskOK
  <2> QED
    BY <1>4, <1>5, <1>7, <2>1 DEF WriteDone, ExistsDone
<1> QED
  BY <1>6, <1>7

(* What load_model may leave behind.                                       *)
LEMMA LoadOK ==
  ASSUME IInv, NEW t \in Task, NEW o \in Load(t)
  PROVE  o[1] \in EngineState /\ (HasInterpreter(o[1]) => o[1].file \in File)
<1>1. CASE o = <<Empty, 0>>
  BY <1>1 DEF EngineState, Empty, Phase, HasInterpreter
<1>2. ASSUME NEW c \in File, o \in LoadOutcomes(c)
      PROVE  /\ o[1] \in EngineState
             /\ HasInterpreter(o[1]) => o[1].file \in File
  BY <1>2 DEF LoadOutcomes, EngineState, Empty, Phase, HasInterpreter
<1> QED
  BY <1>1, <1>2 DEF Load

(* The file just loaded becomes _currentModelFile in the same step.        *)
LEMMA LengthDoneKeeps ==
  ASSUME IInv, NEW t \in Task, LengthDone(t),
         UNCHANGED <<listening, disk, inits>>
  PROVE  IInv'
<1>1. TaskOK(task[t]) /\ task[t].path \in File /\ bindings
  BY DEF IInv, LengthDone, TaskOK, BindingsFirst, Loading
<1>2. CASE Answer(t, "false") /\ UNCHANGED <<fields, native>>
  BY <1>2, AnswerKeeps
<1>3. ASSUME NEW o \in Load(t),
             currentModelFile' = task[t].path,
             engine' = o[1],
             mapping' = (IF o[1] = Empty THEN Null ELSE task[t].path),
             intact' = TRUE,
             isInitialized' = (isInitialized \/ o[2] # 0),
             task' = [task EXCEPT ![t] = NoTask],
             UNCHANGED <<bindings, ffiInitialized, selectedModelType>>
      PROVE  IInv'
  <2>1. TaskOK(NoTask) /\ NoTask.pc \notin Loading
    BY NoTaskOK DEF Loading
  <2>2. /\ task' \in [Task -> Tasks]
        /\ (\A s \in Task : TaskOK(task[s]))'
        /\ BindingsFirst'
    BY <1>1, <1>3, <2>1, TaskStep
  <2>3. engine' \in EngineState /\ EngineFromFile'
    BY <1>3, LoadOK DEF EngineFromFile
  <2>4. isInitialized' \in BOOLEAN
    BY <1>3
  <2>5. mapping' \in {Null, task[t].path}
    BY <1>3
  <2>6. TypeOK'
    BY <1>1, <1>3, <2>2, <2>3, <2>4, <2>5 DEF listening, IInv, TypeOK
  <2>7. ServiceBacked' /\ TrackedMapping'
    BY <1>1, <1>3, <2>5, FileAssumption DEF ServiceBacked, TrackedMapping
  <2> QED
    BY <2>2, <2>3, <2>6, <2>7 DEF listening, IInv, TimerHandle
<1> QED
  BY <1>2, <1>3 DEF LengthDone, RememberFile, Answer

(* Whatever coroutine the event loop resumes.                              *)
LEMMA ResumeKeeps ==
  ASSUME IInv, NEW t \in Task, Resume(t)
  PROVE  IInv'
  BY RemovalDoneKeeps, FfiProbeKeeps, FfiDoneKeeps, StagesKeep,
     LengthDoneKeeps DEF Resume

(* A timer queues an inference.                                            *)
LEMMA TickKeeps ==
  ASSUME IInv, Tick
  PROVE  IInv'
<1>1. /\ pending' = pending + 1 /\ pending < MaxPending
      /\ UNCHANGED <<fields, native, isListening, inferenceResult, timer,
                     timers, disk, task, inits>>
  BY DEF Tick
<1>2. /\ task' \in [Task -> Tasks]
      /\ (\A s \in Task : TaskOK(task[s]))'
      /\ BindingsFirst'
  BY <1>1, TasksKept DEF fields, native, IInv, BindingsFirst
<1>3. pending' \in 0..MaxPending
  BY <1>1, TypeAssumption DEF IInv, TypeOK
<1>4. TypeOK'
  BY <1>1, <1>2, <1>3 DEF fields, native, IInv, TypeOK
<1> QED
  BY <1>1, <1>2, <1>4 DEF fields, native, IInv, EngineFromFile,
     ServiceBacked, TrackedMapping, TimerHandle

(* What run_inference may leave behind, and return.                        *)
LEMMA RunOK ==
  ASSUME IInv, NEW o \in RunOutcomes(engine, Samples)
  PROVE  /\ o[1] \in EngineState
         /\ HasInterpreter(o[1]) => o[1].file \in File
         /\ o[2] \in Int
<1>1. /\ engine \in EngineState
      /\ HasInterpreter(engine) => engine.file \in File
  BY DEF IInv, TypeOK, EngineFromFile
<1>2. CASE o = <<engine, -1>>
  BY <1>1, <1>2
<1>3. CASE o = <<Crashed, -1>>
  BY <1>3 DEF EngineState, Crashed, Phase, HasInterpreter
<1>4. ASSUME HasInterpreter(engine),
             NEW c \in Classes(engine.file), o = <<engine, c>>
      PROVE  /\ o[1] \in EngineState
             /\ HasInterpreter(o[1]) => o[1].file \in File
             /\ o[2] \in Int
  <2>1. OutBytes[engine.file] \in Nat
    BY <1>1, <1>4, FileAssumption
  <2>2. c \in Int
    BY <2>1 DEF Classes, OutputSize, SizeofFloat
  <2> QED
    BY <1>1, <1>4, <2>2
<1> QED
  BY <1>2, <1>3, <1>4 DEF RunOutcomes

(* The queued inference runs, on whatever engine there is by then.         *)
LEMMA RunInferenceKeeps ==
  ASSUME IInv, RunInference
  PROVE  IInv'
<1>1. /\ pending' = pending - 1 /\ pending > 0
      /\ UNCHANGED <<fields, bindings, mapping, intact, isListening, timer,
                     timers, disk, task, inits>>
  BY DEF RunInference
<1>2. /\ task' \in [Task -> Tasks]
      /\ (\A s \in Task : TaskOK(task[s]))'
      /\ BindingsFirst'
  BY <1>1, TasksKept DEF fields, IInv, BindingsFirst
<1>3. pending' \in 0..MaxPending
  BY <1>1, TypeAssumption DEF IInv, TypeOK
<1>4. /\ engine' \in EngineState /\ EngineFromFile'
      /\ inferenceResult' \in Int \union {Null}
  <2>1. CASE bindings
    BY <2>1, RunOK DEF RunInference, EngineFromFile
  <2>2. CASE ~bindings
    BY <2>2 DEF RunInference, IInv, TypeOK, EngineFromFile
  <2> QED
    BY <2>1, <2>2
<1>5. TypeOK'
  BY <1>1, <1>2, <1>3, <1>4 DEF fields, IInv, TypeOK
<1> QED
  BY <1>1, <1>2, <1>4, <1>5 DEF fields, IInv, ServiceBacked,
     TrackedMapping, TimerHandle

(* The fields of a process that has just started, whatever is on disk.     *)
LEMMA FreshOK ==
  ASSUME isListening = FALSE, inferenceResult = Null, isInitialized = FALSE,
         ffiInitialized = FALSE, timer = Null,
         selectedModelType = DefaultType, currentModelFile = Null,
         bindings = FALSE, engine = Empty, mapping = Null, intact = TRUE,
         disk \in [File -> Contents],
         task = [t \in Task |-> NoTask],
         timers = {}, pending = 0, inits = 0
  PROVE  IInv
<1>1. TaskOK(NoTask) /\ NoTask.pc \notin Loading
  BY NoTaskOK DEF Loading
<1>2. task \in [Task -> Tasks]
  BY <1>1 DEF TaskOK
<1>3. (\A t \in Task : TaskOK(task[t])) /\ BindingsFirst
  BY <1>1 DEF BindingsFirst
<1>4. Empty \in EngineState /\ EngineFromFile
  BY DEF EngineState, Empty, Phase, HasInterpreter, EngineFromFile
<1>5. pending \in 0..MaxPending /\ inits \in 0..MaxInits
  BY TypeAssumption
<1>6. {isListening, isInitialized, ffiInitialized, bindings, intact}
         \subseteq BOOLEAN
  OBVIOUS
<1>7. selectedModelType \in File
  BY TypeAssumption
<1>8. TypeOK
  BY <1>2, <1>4, <1>5, <1>6, <1>7 DEF TypeOK
<1> QED
  BY <1>3, <1>4, <1>8 DEF IInv, ServiceBacked, TrackedMapping, TimerHandle

(* The process dies, and starts again on the files it left behind.         *)
LEMMA RestartKeeps ==
  ASSUME IInv, Restart
  PROVE  IInv'
<1>1. disk' \in [File -> Contents]
  BY DEF IInv, TypeOK, Restart
<1>2. TaskOK(NoTask) /\ NoTask.pc \notin Loading
  BY NoTaskOK DEF Loading
<1>3. task' = [t \in Task |-> NoTask]
  BY DEF Restart
<1>4. task' \in [Task -> Tasks]
  BY <1>2, <1>3 DEF TaskOK
<1>5. (\A t \in Task : TaskOK(task[t]))' /\ BindingsFirst'
  BY <1>2, <1>3 DEF BindingsFirst, Restart
<1>6. engine' \in EngineState /\ EngineFromFile'
  BY DEF EngineState, Empty, Phase, HasInterpreter, EngineFromFile, Restart
<1>7. pending' \in 0..MaxPending /\ inits' \in 0..MaxInits
  BY TypeAssumption DEF Restart
<1>8. {isListening', isInitialized', ffiInitialized', bindings', intact'}
         \subseteq BOOLEAN
  BY DEF Restart
<1>9. selectedModelType' \in File
  BY TypeAssumption DEF Restart
<1>10. TypeOK'
  BY <1>1, <1>4, <1>6, <1>7, <1>8, <1>9 DEF TypeOK, Restart
<1> QED
  BY <1>5, <1>6, <1>10 DEF IInv, ServiceBacked, TrackedMapping, TimerHandle,
     Restart

(* Every step of the service.                                              *)
LEMMA NextKeeps == IInv /\ [Next]_vars => IInv'
<1> SUFFICES ASSUME IInv, [Next]_vars PROVE IInv'
  OBVIOUS
<1>1. ASSUME NEW t \in Task, Call(t) PROVE IInv'
  BY <1>1, InitModelKeeps, SwitchModelKeeps, DisposeKeeps DEF Call
<1>2. ASSUME NEW t \in Task, IoEffect(t) \/ Resume(t) PROVE IInv'
  BY <1>2, IoEffectKeeps, ResumeKeeps
<1>3. CASE SyncCall
  BY <1>3, SetModelTypeKeeps, ListeningKeeps DEF SyncCall
<1>4. CASE Tick \/ RunInference
  BY <1>4, TickKeeps, RunInferenceKeeps
<1>5. CASE Restart
  BY <1>5, RestartKeeps
<1>6. CASE UNCHANGED vars
  <2>1. UNCHANGED <<fields, native, listening, disk, inits, task>>
    BY <1>6 DEF vars
  <2>2. /\ task' \in [Task -> Tasks]
        /\ (\A s \in Task : TaskOK(task[s]))'
        /\ BindingsFirst'
    BY <2>1, TasksKept DEF fields, native, IInv, BindingsFirst
  <2> QED
    BY <2>1, <2>2, OnlyTasks
<1> QED
  BY <1>1, <1>2, <1>3, <1>4, <1>5, <1>6 DEF Next

-----------------------------------------------------------------------------
(* The theorems                                                            *)

(***************************************************************************)
(* The invariant holds in every reachable state, whatever calls of         *)
(* voice_service.dart overlap and whenever the process is restarted.       *)
(***************************************************************************)
THEOREM Inductive == Spec => []IInv
<1>1. Init => IInv
  <2> SUFFICES ASSUME Init PROVE IInv
    OBVIOUS
  <2>1. disk \in [File -> Contents]
    BY DEF Init, Contents
  <2> QED
    BY <2>1, FreshOK DEF Init
<1>2. IInv /\ [Next]_vars => IInv'
  BY NextKeeps
<1> QED
  BY <1>1, <1>2, PTL DEF Spec

(***************************************************************************)
(* Every field of VoiceService and every resource behind it has its type;  *)
(* in particular no coroutine names a file that was never chosen.          *)
(***************************************************************************)
THEOREM TypeCorrect == Spec => []TypeOK
<1>1. IInv => TypeOK
  BY DEF IInv
<1> QED
  BY <1>1, Inductive, PTL

(***************************************************************************)
(* An initialised service has its bindings and a file to remove, however   *)
(* initModel, switchModel and dispose overlap: switchModel never unloads   *)
(* through bindings that are not there, nor skips the removal.             *)
(***************************************************************************)
THEOREM Backed == Spec => []ServiceBacked
<1>1. IInv => ServiceBacked
  BY DEF IInv
<1> QED
  BY <1>1, Inductive, PTL

(***************************************************************************)
(* The mapped model file, while it has its name, is _currentModelFile,     *)
(* for any number of overlapping loads.                                    *)
(***************************************************************************)
THEOREM MappingTracked == Spec => []TrackedMapping
<1>1. IInv => TrackedMapping
  BY DEF IInv
<1> QED
  BY <1>1, Inductive, PTL

(***************************************************************************)
(* The service listens exactly when _timer holds a timer that still fires, *)
(* for every sequence of startListening, stopListening and dispose.        *)
(***************************************************************************)
THEOREM TimerCorrect == Spec => []TimerHandle
<1>1. IInv => TimerHandle
  BY DEF IInv
<1> QED
  BY <1>1, Inductive, PTL
=============================================================================
