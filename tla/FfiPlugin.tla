------------------------------ MODULE FfiPlugin ------------------------------
(***************************************************************************)
(* plugins/ffi_plugin/src/ffi_plugin.cpp: the TensorFlow Lite engine       *)
(* behind three exported functions, one step per call into the TFLite C    *)
(* API (tflite_c/include/tensorflow/lite/core/c/c_api.cc).  The three      *)
(* static pointers refer to cells of a heap, so that a leak, a dangling    *)
(* pointer or a second delete shows.                                       *)
(***************************************************************************)
EXTENDS EngineContract

CONSTANTS
    Addr,       \* heap cells
    Length,     \* the sample counts callers pass to run_inference
    Score,      \* float values of an output tensor that are numbers
    NaN         \* the float that compares false with everything

ASSUME HeapAssumption == Null \notin Addr
ASSUME ScoreAssumption == Score \subseteq Int /\ NaN \notin Score
ASSUME LengthAssumption == Length \subseteq Int

VARIABLES
    model, options, interpreter,    \* the static pointers
    heap,                           \* TFLite objects, by address
    pc, call,                       \* where the exported function stands
    model_path, length,             \* its arguments
    output_data, output_size,       \* the scores run_inference scans
    i, max_index, max_value,        \* its loop variables
    result                          \* the last return value

pointers == <<model, options, interpreter>>
scan == <<output_data, output_size, i, max_index, max_value>>
vars == <<pointers, heap, pc, call, model_path, length, scan, result>>

-----------------------------------------------------------------------------
(* The heap and the C API                                                  *)

Freed == [kind |-> "free", file |-> Null, allocated |-> FALSE]

Object(kind, f) == [kind |-> kind, file |-> f, allocated |-> FALSE]

Objects ==
    [kind : {"free", "model", "options", "interpreter"},
     file : File \union {Null},
     allocated : BOOLEAN]

(* C++ comparison of floats: false as soon as one side is NaN.             *)
Gt(x, y) == x # NaN /\ y # NaN /\ x > y

Floats == Score \union {NaN}

Outputs(n) == [0..(n - 1) -> Floats]

Return(r) ==
    /\ pc' = "idle"
    /\ result' = r

Goto(label) ==
    /\ pc' = label
    /\ UNCHANGED result

(* Undefined behaviour ended the process; no value reaches the caller.     *)
Crash ==
    /\ pc' = "crashed"
    /\ result' = -1

-----------------------------------------------------------------------------
(* The exported functions                                                  *)

(* A call brings its arguments; its local variables are not set yet.       *)
NoOutput == [k \in {} |-> NaN]

Enter(f, label, p, n) ==
    /\ pc = "idle"
    /\ call' = f
    /\ model_path' = p
    /\ length' = n
    /\ output_data' = NoOutput
    /\ output_size' = 0
    /\ i' = 1
    /\ max_index' = 0
    /\ max_value' = NaN
    /\ Goto(label)
    /\ UNCHANGED <<pointers, heap>>

load_model(p) == Enter("load", "load", p, 0)

unload_model == Enter("unload", "delete_interpreter", Null, 0)

run_inference(n) == Enter("run", "run", Null, n)

-----------------------------------------------------------------------------
(* load_model and unload_model.  A definition named X_Fault is X with a    *)
(* fault in it; it shows that a property can fail.                         *)

CheckPath_Unchecked ==
    /\ pc = "load"
    /\ Goto("delete_interpreter")
    /\ UNCHANGED <<pointers, heap, call, model_path, length, scan>>

CheckPath ==
    /\ pc = "load"
    /\ IF model_path = Null THEN Return(0) ELSE Goto("delete_interpreter")
    /\ UNCHANGED <<pointers, heap, call, model_path, length, scan>>

DeleteInterpreter ==
    /\ pc = "delete_interpreter"
    /\ Goto("delete_options")
    /\ interpreter' = Null
    /\ heap' = IF interpreter = Null
               THEN heap ELSE [heap EXCEPT ![interpreter] = Freed]
    /\ UNCHANGED <<model, options, call, model_path, length, scan>>

DeleteOptions_Forgotten ==
    /\ pc = "delete_options"
    /\ Goto("delete_model")
    /\ options' = Null
    /\ UNCHANGED <<model, interpreter, heap, call, model_path, length, scan>>

DeleteOptions ==
    /\ pc = "delete_options"
    /\ Goto("delete_model")
    /\ options' = Null
    /\ heap' = IF options = Null
               THEN heap ELSE [heap EXCEPT ![options] = Freed]
    /\ UNCHANGED <<model, interpreter, call, model_path, length, scan>>

DeleteModel ==
    /\ pc = "delete_model"
    /\ IF call = "load" THEN Goto("create_model") ELSE Return(result)
    /\ model' = Null
    /\ heap' = IF model = Null
               THEN heap ELSE [heap EXCEPT ![model] = Freed]
    /\ UNCHANGED <<options, interpreter, call, model_path, length, scan>>

(* VerifyAndBuildFromFile fails on a missing, short or malformed file.     *)
CreateModel ==
    /\ pc = "create_model"
    /\ \/ Return(0) /\ UNCHANGED <<model, heap>>
       \/ \E a \in Addr :
            /\ heap[a] = Freed
            /\ heap' = [heap EXCEPT ![a] = Object("model", model_path)]
            /\ model' = a
            /\ Goto("create_options")
    /\ UNCHANGED <<options, interpreter, call, model_path, length, scan>>

CreateOptions ==
    /\ pc = "create_options"
    /\ \E a \in Addr :
         /\ heap[a] = Freed
         /\ heap' = [heap EXCEPT ![a] = Object("options", Null)]
         /\ options' = a
    /\ Goto("create_interpreter")
    /\ UNCHANGED <<model, interpreter, call, model_path, length, scan>>

CreateInterpreter ==
    /\ pc = "create_interpreter"
    /\ \/ Return(0) /\ UNCHANGED <<interpreter, heap>>
       \/ \E a \in Addr :
            /\ heap[a] = Freed
            /\ heap' = [heap EXCEPT
                          ![a] = Object("interpreter", heap[model].file)]
            /\ interpreter' = a
            /\ Goto("allocate_tensors")
    /\ UNCHANGED <<model, options, call, model_path, length, scan>>

AllocateTensors_StatusIgnored ==
    /\ pc = "allocate_tensors"
    /\ heap' \in {heap, [heap EXCEPT ![interpreter].allocated = TRUE]}
    /\ Return(1)
    /\ UNCHANGED <<pointers, call, model_path, length, scan>>

AllocateTensors ==
    /\ pc = "allocate_tensors"
    /\ \/ Return(0) /\ UNCHANGED heap
       \/ /\ heap' = [heap EXCEPT ![interpreter].allocated = TRUE]
          /\ Return(1)
    /\ UNCHANGED <<pointers, call, model_path, length, scan>>

-----------------------------------------------------------------------------
(* run_inference                                                           *)

input_bytes == InBytes[heap[interpreter].file]

(* A null buffer is turned away just as an empty one is: length stands for *)
(* both.                                                                   *)
CheckArguments ==
    /\ pc = "run"
    /\ IF interpreter = Null \/ length <= 0
       THEN Return(-1) ELSE Goto("get_input")
    /\ UNCHANGED <<pointers, heap, call, model_path, length, scan>>

(* A null input tensor, or more samples than it has room for, is an error. *)
GetInput ==
    /\ pc = "get_input"
    /\ \/ Return(-1)
       \/ IF length * SizeofInt16 > input_bytes
          THEN Return(-1) ELSE Goto("copy")
    /\ UNCHANGED <<pointers, heap, call, model_path, length, scan>>

(* TfLiteTensorCopyFromBuffer: fewer samples than the tensor holds are an  *)
(* error too; the memcpy into a tensor without memory is undefined.        *)
CopyInput ==
    /\ pc = "copy"
    /\ IF length * SizeofInt16 # input_bytes
       THEN Return(-1)
       ELSE \/ Goto("invoke")
            \/ ~heap[interpreter].allocated /\ Crash
    /\ UNCHANGED <<pointers, heap, call, model_path, length, scan>>

(* An interpreter whose tensors were not allocated is not invokable.       *)
Invoke ==
    /\ pc = "invoke"
    /\ \/ Return(-1)
       \/ heap[interpreter].allocated /\ Goto("get_output")
    /\ UNCHANGED <<pointers, heap, call, model_path, length, scan>>

(* Score 0 is read whether the output holds one or not.                    *)
GetOutput ==
    /\ pc = "get_output"
    /\ \/ Return(-1) /\ UNCHANGED scan
       \/ /\ output_size' = OutputSize(heap[interpreter].file)
          /\ output_data' \in Outputs(output_size')
          /\ i' = 1
          /\ max_index' = 0
          /\ IF output_size' > 0
             THEN max_value' = output_data'[0] /\ Goto("scan")
             ELSE max_value' \in Floats /\ (Goto("scan") \/ Crash)
    /\ UNCHANGED <<pointers, heap, call, model_path, length>>

ScanStep_NotAdvancing ==
    /\ pc = "scan"
    /\ i < output_size
    /\ Goto("scan")
    /\ UNCHANGED <<pointers, heap, call, model_path, length, scan>>

ScanStep ==
    /\ pc = "scan"
    /\ i < output_size
    /\ IF Gt(output_data[i], max_value)
       THEN max_value' = output_data[i] /\ max_index' = i
       ELSE UNCHANGED <<max_value, max_index>>
    /\ i' = i + 1
    /\ Goto("scan")
    /\ UNCHANGED <<pointers, heap, call, model_path, length,
                   output_data, output_size>>

ReturnMaxIndex_Early ==
    /\ pc = "scan"
    /\ ~(i < output_size - 1)
    /\ Return(max_index)
    /\ UNCHANGED <<pointers, heap, call, model_path, length, scan>>

ReturnMaxIndex ==
    /\ pc = "scan"
    /\ ~(i < output_size)
    /\ Return(max_index)
    /\ UNCHANGED <<pointers, heap, call, model_path, length, scan>>

-----------------------------------------------------------------------------
(* The specification                                                       *)

Init ==
    /\ model = Null
    /\ options = Null
    /\ interpreter = Null
    /\ heap = [a \in Addr |-> Freed]
    /\ pc = "idle"
    /\ call = "none"
    /\ model_path = Null
    /\ length = 0
    /\ output_data = NoOutput
    /\ output_size = 0
    /\ i = 1
    /\ max_index = 0
    /\ max_value = NaN
    /\ result = 0

(* The crashed process is started again: its statics are null, its heap is *)
(* empty, and nothing of the interrupted call is left.                     *)
Restart ==
    /\ pc = "crashed"
    /\ model' = Null
    /\ options' = Null
    /\ interpreter' = Null
    /\ heap' = [a \in Addr |-> Freed]
    /\ Goto("idle")
    /\ UNCHANGED <<call, model_path, length, scan>>

LoadStep ==
    \/ CheckPath \/ DeleteInterpreter \/ DeleteOptions \/ DeleteModel
    \/ CreateModel \/ CreateOptions \/ CreateInterpreter \/ AllocateTensors

RunStep ==
    \/ CheckArguments \/ GetInput \/ CopyInput \/ Invoke
    \/ GetOutput \/ ScanStep \/ ReturnMaxIndex

Next ==
    \/ \E p \in File \union {Null} : load_model(p)
    \/ \E n \in Length : run_inference(n)
    \/ unload_model
    \/ LoadStep
    \/ RunStep
    \/ Restart

(* A C function, once called, runs: nothing in it waits for anybody.       *)
Spec == Init /\ [][Next]_vars /\ WF_vars(LoadStep) /\ WF_vars(RunStep)

-----------------------------------------------------------------------------
(* Properties                                                              *)

Labels ==
    {"idle", "load", "delete_interpreter", "delete_options", "delete_model",
     "create_model", "create_options", "create_interpreter",
     "allocate_tensors", "run", "get_input", "copy", "invoke", "get_output",
     "scan", "crashed"}

(* Every variable has the type of the C++ variable it stands for.          *)
TypeOK ==
    /\ {model, options, interpreter} \subseteq Addr \union {Null}
    /\ heap \in [Addr -> Objects]
    /\ pc \in Labels
    /\ call \in {"none", "load", "run", "unload"}
    /\ model_path \in File \union {Null}
    /\ length \in Int
    /\ output_size \in Nat
    /\ output_data \in Outputs(output_size)
    /\ i \in Nat /\ max_index \in Nat
    /\ max_value \in Floats
    /\ result \in Int

Owns(pointer, kind) ==
    /\ pointer # Null => heap[pointer].kind = kind
    /\ \A a \in Addr : heap[a].kind = kind => a = pointer

(***************************************************************************)
(* Ownership: at every step of load_model and unload_model, on every error *)
(* path, each static pointer is null or refers to a live object of its own *)
(* type, and no live object is unreachable from them: no dangling pointer, *)
(* no second delete, and no leak however many loads fail.                  *)
(***************************************************************************)
Ownership ==
    /\ Owns(model, "model")
    /\ Owns(options, "options")
    /\ Owns(interpreter, "interpreter")

(***************************************************************************)
(* LoadReport: once a load of a path has returned, 1 was returned exactly  *)
(* when run_inference would now work on tensors of that very file; the     *)
(* model left over from an earlier load is never what answers.             *)
(***************************************************************************)
LoadReport ==
    pc = "idle" /\ call = "load" /\ model_path # Null =>
        (result = 1 <=>
            /\ interpreter # Null
            /\ heap[interpreter].allocated
            /\ heap[interpreter].file = model_path)

(* c is the position of the first maximum among the numbers in the n       *)
(* scores; a NaN in first place beats all of them.                         *)
IsArgMax(scores, n, c) ==
    /\ c \in 0..(n - 1)
    /\ IF scores[0] = NaN
       THEN c = 0
       ELSE /\ scores[c] # NaN
            /\ \A k \in 0..(n - 1) : ~Gt(scores[k], scores[c])
            /\ \A k \in 0..(c - 1) : scores[k] # NaN => scores[c] > scores[k]

(***************************************************************************)
(* ArgMax: the class run_inference returns is the first maximum of the     *)
(* scores of the interpreter that is loaded, whatever NaNs the scores hold *)
(* (and when the output holds a score at all).                             *)
(***************************************************************************)
ArgMax ==
    pc = "idle" /\ call = "run" /\ result >= 0 /\ output_size > 0 =>
        IsArgMax(output_data, output_size, result)

(***************************************************************************)
(* CallReturns: every call of an exported function comes back to the Dart  *)
(* isolate it blocks, unless the process dies.                             *)
(***************************************************************************)
CallReturns == pc # "idle" ~> pc \in {"idle", "crashed"}

(***************************************************************************)
(* AllocatedBeforeUse: input data is copied, and the interpreter invoked,  *)
(* only when its tensors have been allocated, as the C API asks of its     *)
(* clients.  run_inference only asks whether there is an interpreter.      *)
(***************************************************************************)
AllocatedBeforeUse ==
    pc \in {"copy", "invoke"} => heap[interpreter].allocated

-----------------------------------------------------------------------------
(* Refinement                                                              *)

Holding ==
    IF interpreter # Null
    THEN [phase |-> IF heap[interpreter].allocated THEN "ready" ELSE "broken",
          file |-> heap[interpreter].file]
    ELSE IF model # Null
    THEN [phase |-> "model", file |-> heap[model].file]
    ELSE Empty

(* From the first delete to the return nothing usable is held.             *)
Rebuilding ==
    {"delete_interpreter", "delete_options", "delete_model", "create_model",
     "create_options", "create_interpreter", "allocate_tensors"}

engineBar ==
    IF pc = "crashed" THEN Crashed
    ELSE IF pc \in Rebuilding THEN Empty ELSE Holding

callBar == IF pc \in {"idle", "crashed"} THEN "none" ELSE call

argBar == IF call = "run" THEN length ELSE model_path

E == INSTANCE Engine WITH engine <- engineBar, call <- callBar, arg <- argBar

(* EngineRefinement: step by step, through every error path, the exported  *)
(* functions do what the abstract engine allows and nothing else.          *)
EngineRefinement == E!Spec
=============================================================================
