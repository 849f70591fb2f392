--------------------------- MODULE FfiPluginProofs ---------------------------
(***************************************************************************)
(* Theorems about FfiPlugin, for every heap, every set of model files with *)
(* every tensor size, and every set of scores.                             *)
(***************************************************************************)
EXTENDS FfiPlugin, TLAPS

-----------------------------------------------------------------------------
(* The inductive invariant                                                 *)

(* While load_model or unload_model works, which of the pointers are set.  *)
LoadShape ==
    /\ pc \in Rebuilding => call \in {"load", "unload"}
    /\ pc \in Rebuilding /\ call = "load" => model_path \in File
    /\ pc = "load" => call = "load"
    /\ pc \in {"delete_options", "delete_model", "create_model",
               "create_options", "create_interpreter"} => interpreter = Null
    /\ pc \in {"delete_model", "create_model", "create_options"}
          => options = Null
    /\ pc = "create_model" => model = Null
    /\ pc \in {"create_model", "create_options", "create_interpreter",
               "allocate_tensors"} => call = "load"
    /\ pc \in {"create_options", "create_interpreter"} =>
          model # Null /\ heap[model].file = model_path
    /\ pc = "allocate_tensors" =>
          interpreter # Null /\ heap[interpreter] =
                                    Object("interpreter", model_path)

(* A model and an interpreter come from a file.                            *)
FromFile ==
    /\ model # Null => heap[model].file \in File
    /\ interpreter # Null => heap[interpreter].file \in File

(* While run_inference works, it has an interpreter.                       *)
RunShape ==
    /\ pc \in {"run", "get_input", "copy", "invoke", "get_output", "scan",
               "crashed"} => call = "run"
    /\ pc \in {"get_input", "copy", "invoke", "get_output"}
          => interpreter # Null
    /\ pc = "crashed" => result = -1

(* What run_inference has established about sizes so far.                  *)
RunSizes ==
    /\ pc \in {"get_input", "copy", "invoke", "get_output", "scan"} =>
          interpreter # Null /\ length > 0
    /\ pc \in {"invoke", "get_output", "scan"} =>
          length * SizeofInt16 = input_bytes
    /\ pc \in {"get_output", "scan"} => heap[interpreter].allocated
    /\ pc = "scan" =>
          /\ output_size = OutputSize(heap[interpreter].file)
          /\ output_size = 0 => max_index = 0

(* The loop of run_inference, before its i-th iteration.                   *)
ScanInv ==
    pc = "scan" /\ output_size > 0 =>
        /\ i \in 1..output_size
        /\ IsArgMax(output_data, i, max_index)
        /\ max_value = output_data[max_index]

IInv ==
    /\ TypeOK
    /\ Ownership
    /\ LoadShape
    /\ FromFile
    /\ RunShape
    /\ RunSizes
    /\ ScanInv
    /\ LoadReport
    /\ ArgMax

-----------------------------------------------------------------------------
(* Type correctness                                                        *)

LEMMA InitType == Init => TypeOK
  BY FileAssumption DEF Init, TypeOK, Freed, Objects, Labels, Outputs, Floats,
     NoOutput

LEMMA CallType ==
  ASSUME TypeOK, NEW f \in {"load", "run", "unload"}, NEW label \in Labels,
         NEW p \in File \union {Null}, NEW n \in Int, Enter(f, label, p, n)
  PROVE  TypeOK'
  BY DEF TypeOK, Enter, Goto, pointers, Labels, Outputs, Floats, NoOutput

LEMMA LoadType ==
  ASSUME TypeOK, LoadShape, FromFile, LoadStep
  PROVE  TypeOK'
<1> USE DEF TypeOK, Labels, Goto, Return, pointers, scan
<1> Freed \in Objects
  BY DEF Freed, Objects
<1> ASSUME NEW k \in {"model", "options", "interpreter"},
           NEW f \in File \union {Null}
    PROVE  Object(k, f) \in Objects
  BY DEF Object, Objects
<1>1. CASE CheckPath
  BY <1>1 DEF CheckPath
<1>2. CASE DeleteInterpreter
  BY <1>2 DEF DeleteInterpreter
<1>3. CASE DeleteOptions
  BY <1>3 DEF DeleteOptions
<1>4. CASE DeleteModel
  BY <1>4 DEF DeleteModel
<1>5. CASE CreateModel
  BY <1>5 DEF CreateModel
<1>6. CASE CreateOptions
  BY <1>6 DEF CreateOptions
<1>7. CASE CreateInterpreter
  BY <1>7 DEF CreateInterpreter, LoadShape, FromFile
<1>8. CASE AllocateTensors
  <2>1. interpreter \in Addr
    BY <1>8 DEF AllocateTensors, LoadShape
  <2>2. [heap[interpreter] EXCEPT !.allocated = TRUE] \in Objects
    BY <2>1 DEF Objects
  <2>3. heap' \in [Addr -> Objects]
    <3>1. CASE UNCHANGED heap
      BY <3>1
    <3>2. CASE heap' = [heap EXCEPT ![interpreter].allocated = TRUE]
      BY <2>1, <2>2, <3>2
    <3> QED
      BY <1>8, <3>1, <3>2 DEF AllocateTensors
  <2> QED
    BY <1>8, <2>3 DEF AllocateTensors
<1> QED
  BY <1>1, <1>2, <1>3, <1>4, <1>5, <1>6, <1>7, <1>8 DEF LoadStep

LEMMA RunType ==
  ASSUME TypeOK, RunShape, FromFile, RunStep
  PROVE  TypeOK'
<1> USE DEF TypeOK, Labels, Goto, Return, Crash, pointers, scan
<1>1. CASE CheckArguments
  BY <1>1 DEF CheckArguments
<1>2. CASE GetInput
  BY <1>2 DEF GetInput
<1>3. CASE CopyInput
  BY <1>3 DEF CopyInput
<1>4. CASE Invoke
  BY <1>4 DEF Invoke
<1>5. CASE GetOutput
  <2>1. OutputSize(heap[interpreter].file) \in Nat
    BY <1>5, FileAssumption DEF GetOutput, RunShape, FromFile, OutputSize,
       SizeofFloat
  <2> QED
    BY <1>5, <2>1 DEF GetOutput, Outputs, Floats
<1>6. CASE ScanStep
  BY <1>6 DEF ScanStep, Outputs, Floats
<1>7. CASE ReturnMaxIndex
  BY <1>7 DEF ReturnMaxIndex
<1> QED
  BY <1>1, <1>2, <1>3, <1>4, <1>5, <1>6, <1>7 DEF RunStep

LEMMA TypeStep ==
  ASSUME TypeOK, LoadShape, FromFile, RunShape, [Next]_vars
  PROVE  TypeOK'
<1>1. CASE \E p \in File \union {Null} : load_model(p)
  BY <1>1, CallType DEF load_model, Labels
<1>2. CASE \E n \in Length : run_inference(n)
  BY <1>2, CallType, LengthAssumption DEF run_inference, Labels
<1>3. CASE unload_model
  BY <1>3, CallType DEF unload_model, Labels
<1>4. CASE LoadStep
  BY <1>4, LoadType
<1>5. CASE RunStep
  BY <1>5, RunType
<1>6. CASE Restart
  BY <1>6 DEF TypeOK, Restart, Goto, scan, Freed, Objects, Labels
<1>7. CASE UNCHANGED vars
  BY <1>7 DEF TypeOK, vars, pointers, scan
<1> QED
  BY <1>1, <1>2, <1>3, <1>4, <1>5, <1>6, <1>7 DEF Next

-----------------------------------------------------------------------------
(* Ownership of the heap                                                   *)

(* Actions that touch neither the static pointers nor the heap.            *)
LEMMA Untouched ==
  ASSUME [Next]_vars, ~DeleteInterpreter, ~DeleteOptions, ~DeleteModel,
         ~CreateModel, ~CreateOptions, ~CreateInterpreter, ~AllocateTensors,
         ~Restart
  PROVE  UNCHANGED <<model, options, interpreter, heap>>
  BY DEF Next, vars, pointers, load_model, run_inference, unload_model, Enter,
     LoadStep, RunStep, CheckPath, CheckArguments, GetInput, CopyInput, Invoke,
     GetOutput, ScanStep, ReturnMaxIndex

LEMMA DeleteOwnership ==
  ASSUME TypeOK, Ownership,
         DeleteInterpreter \/ DeleteOptions \/ DeleteModel
  PROVE  Ownership'
<1> USE HeapAssumption DEF TypeOK, Ownership, Owns, Freed
<1>1. CASE DeleteInterpreter
  BY <1>1 DEF DeleteInterpreter
<1>2. CASE DeleteOptions
  BY <1>2 DEF DeleteOptions
<1>3. CASE DeleteModel
  BY <1>3 DEF DeleteModel
<1> QED
  BY <1>1, <1>2, <1>3

LEMMA CreateOwnership ==
  ASSUME TypeOK, Ownership, LoadShape,
         CreateModel \/ CreateOptions \/ CreateInterpreter
  PROVE  Ownership'
<1> USE HeapAssumption DEF TypeOK, Ownership, Owns, Freed, Object, LoadShape
<1>1. CASE CreateModel
  BY <1>1 DEF CreateModel
<1>2. CASE CreateOptions
  BY <1>2 DEF CreateOptions
<1>3. CASE CreateInterpreter
  BY <1>3 DEF CreateInterpreter
<1> QED
  BY <1>1, <1>2, <1>3

LEMMA OwnershipStep ==
  ASSUME TypeOK, Ownership, LoadShape, [Next]_vars
  PROVE  Ownership'
<1>1. CASE DeleteInterpreter \/ DeleteOptions \/ DeleteModel
  BY <1>1, DeleteOwnership
<1>2. CASE CreateModel \/ CreateOptions \/ CreateInterpreter
  BY <1>2, CreateOwnership
<1>3. CASE AllocateTensors
  <2>1. \A a \in Addr : heap'[a].kind = heap[a].kind
    BY <1>3 DEF AllocateTensors, TypeOK, Objects
  <2> QED
    BY <1>3, <2>1 DEF AllocateTensors, pointers, Ownership, Owns, TypeOK
<1>4. CASE Restart
  BY <1>4 DEF Restart, Ownership, Owns, Freed
<1>5. CASE /\ ~DeleteInterpreter /\ ~DeleteOptions /\ ~DeleteModel
           /\ ~CreateModel /\ ~CreateOptions /\ ~CreateInterpreter
           /\ ~AllocateTensors /\ ~Restart
  BY <1>5, Untouched DEF Ownership, Owns
<1> QED
  BY <1>1, <1>2, <1>3, <1>4, <1>5

-----------------------------------------------------------------------------
(* Which pointers are set where                                            *)

LEMMA LoadShapeStep ==
  ASSUME TypeOK, LoadShape, FromFile, RunShape, Ownership, [Next]_vars
  PROVE  LoadShape'
<1> USE DEF LoadShape, Rebuilding, Goto, Return
<1>1. CASE \/ \E p \in File \union {Null} : load_model(p)
           \/ \E n \in Length : run_inference(n)
           \/ unload_model
  BY <1>1 DEF load_model, run_inference, unload_model, Enter
<1>2. CASE CheckPath
  BY <1>2 DEF CheckPath, pointers, TypeOK
<1>3. CASE DeleteInterpreter
  BY <1>3 DEF DeleteInterpreter
<1>4. CASE DeleteOptions
  BY <1>4 DEF DeleteOptions
<1>5. CASE DeleteModel
  BY <1>5 DEF DeleteModel
<1>6. CASE CreateModel
  BY <1>6, HeapAssumption DEF CreateModel, TypeOK, Object
<1>7. CASE CreateOptions
  BY <1>7, HeapAssumption DEF CreateOptions, TypeOK, Object, Ownership, Owns,
     Freed
<1>8. CASE CreateInterpreter
  BY <1>8, HeapAssumption DEF CreateInterpreter, TypeOK
<1>9. CASE AllocateTensors
  BY <1>9 DEF AllocateTensors
<1>10. CASE RunStep
  BY <1>10 DEF RunStep, CheckArguments, GetInput, CopyInput, Invoke, GetOutput,
     ScanStep, ReturnMaxIndex, Crash, RunShape
<1>11. CASE Restart
  BY <1>11 DEF Restart
<1>12. CASE UNCHANGED vars
  BY <1>12 DEF vars, pointers
<1> QED
  BY <1>1, <1>2, <1>3, <1>4, <1>5, <1>6, <1>7, <1>8, <1>9, <1>10, <1>11, <1>12
     DEF Next, LoadStep

LEMMA FromFileStep ==
  ASSUME TypeOK, LoadShape, FromFile, Ownership, [Next]_vars
  PROVE  FromFile'
<1> USE HeapAssumption DEF TypeOK, FromFile, Ownership, Owns, Freed, Object
<1>1. CASE DeleteInterpreter
  BY <1>1 DEF DeleteInterpreter
<1>2. CASE DeleteOptions
  BY <1>2 DEF DeleteOptions
<1>3. CASE DeleteModel
  BY <1>3 DEF DeleteModel
<1>4. CASE CreateModel
  BY <1>4 DEF CreateModel, LoadShape, Rebuilding
<1>5. CASE CreateOptions
  BY <1>5 DEF CreateOptions
<1>6. CASE CreateInterpreter
  BY <1>6 DEF CreateInterpreter, LoadShape
<1>7. CASE AllocateTensors
  <2>1. \A a \in Addr : heap'[a].file = heap[a].file
    BY <1>7 DEF AllocateTensors, Objects
  <2> QED
    BY <1>7, <2>1 DEF AllocateTensors, pointers
<1>8. CASE Restart
  BY <1>8 DEF Restart
<1>9. CASE /\ ~DeleteInterpreter /\ ~DeleteOptions /\ ~DeleteModel
           /\ ~CreateModel /\ ~CreateOptions /\ ~CreateInterpreter
           /\ ~AllocateTensors /\ ~Restart
  BY <1>9, Untouched
<1> QED
  BY <1>1, <1>2, <1>3, <1>4, <1>5, <1>6, <1>7, <1>8, <1>9

LEMMA RunShapeStep ==
  ASSUME TypeOK, LoadShape, RunShape, [Next]_vars
  PROVE  RunShape'
<1> USE DEF RunShape, Goto, Return, pointers
<1>1. CASE \/ \E p \in File \union {Null} : load_model(p)
           \/ \E n \in Length : run_inference(n)
           \/ unload_model
  BY <1>1 DEF load_model, run_inference, unload_model, Enter
<1>2. CASE LoadStep
  BY <1>2 DEF LoadStep, CheckPath, DeleteInterpreter, DeleteOptions,
     DeleteModel, CreateModel, CreateOptions, CreateInterpreter,
     AllocateTensors
<1>3. CASE RunStep
  BY <1>3 DEF RunStep, CheckArguments, GetInput, CopyInput, Invoke, GetOutput,
     ScanStep, ReturnMaxIndex, Crash
<1>4. CASE Restart
  BY <1>4 DEF Restart
<1>5. CASE UNCHANGED vars
  BY <1>5 DEF vars
<1> QED
  BY <1>1, <1>2, <1>3, <1>4, <1>5 DEF Next

LEMMA RunSizesStep ==
  ASSUME TypeOK, RunSizes, [Next]_vars
  PROVE  RunSizes'
<1> USE DEF RunSizes, Goto, Return, pointers, scan, input_bytes
<1>1. CASE \/ \E p \in File \union {Null} : load_model(p)
           \/ \E n \in Length : run_inference(n)
           \/ unload_model
  BY <1>1 DEF load_model, run_inference, unload_model, Enter
<1>2. CASE LoadStep
  BY <1>2 DEF LoadStep, CheckPath, DeleteInterpreter, DeleteOptions,
     DeleteModel, CreateModel, CreateOptions, CreateInterpreter,
     AllocateTensors
<1>3. CASE CheckArguments
  BY <1>3 DEF CheckArguments, TypeOK
<1>4. CASE GetInput
  BY <1>4 DEF GetInput
<1>5. CASE CopyInput
  BY <1>5 DEF CopyInput, Crash
<1>6. CASE Invoke
  BY <1>6 DEF Invoke
<1>7. CASE GetOutput
  BY <1>7 DEF GetOutput, Crash
<1>8. CASE ScanStep
  BY <1>8 DEF ScanStep, TypeOK
<1>9. CASE ReturnMaxIndex
  BY <1>9 DEF ReturnMaxIndex
<1>10. CASE Restart
  BY <1>10 DEF Restart
<1>11. CASE UNCHANGED vars
  BY <1>11 DEF vars
<1> QED
  BY <1>1, <1>2, <1>3, <1>4, <1>5, <1>6, <1>7, <1>8, <1>9, <1>10, <1>11
     DEF Next, RunStep

-----------------------------------------------------------------------------
(* The loop of run_inference                                               *)

LEMMA FirstScore ==
  ASSUME NEW n \in Nat, n > 0, NEW scores \in Outputs(n)
  PROVE  IsArgMax(scores, 1, 0)
<1>1. 0..(1 - 1) = {0} /\ 0..(0 - 1) = {}
  OBVIOUS
<1>2. ~Gt(scores[0], scores[0])
  <2>1. 0 \in 0..(n - 1)
    OBVIOUS
  <2>2. scores[0] = NaN \/ scores[0] \in Int
    BY <2>1, ScoreAssumption DEF Outputs, Floats
  <2> QED
    BY <2>2 DEF Gt
<1> QED
  BY <1>1, <1>2 DEF IsArgMax

(* One iteration extends the first maximum by one score.                   *)
LEMMA NextScore ==
  ASSUME NEW n \in Nat, NEW scores \in Outputs(n),
         NEW k \in 1..(n - 1), NEW c \in Nat, IsArgMax(scores, k, c)
  PROVE  IsArgMax(scores, k + 1, IF Gt(scores[k], scores[c]) THEN k ELSE c)
<1> USE DEF Gt
<1>a. \A j \in 0..(n - 1) : scores[j] = NaN \/ scores[j] \in Int
  BY ScoreAssumption DEF Outputs, Floats
<1>1. c \in 0..(k - 1)
  BY DEF IsArgMax
<1>2. CASE scores[0] = NaN
  BY <1>1, <1>2 DEF IsArgMax
<1>3. CASE scores[0] # NaN
  <2>1. /\ scores[c] # NaN
        /\ \A j \in 0..(k - 1) : ~Gt(scores[j], scores[c])
        /\ \A j \in 0..(c - 1) : scores[j] # NaN => scores[c] > scores[j]
    BY <1>3 DEF IsArgMax
  <2>2. CASE Gt(scores[k], scores[c])
    <3>1. scores[k] # NaN /\ scores[k] \in Int /\ scores[c] \in Int
      BY <1>a, <1>1, <2>1, <2>2
    <3>2. \A j \in 0..(k - 1) : scores[j] # NaN => scores[k] > scores[j]
      BY <1>a, <2>1, <2>2, <3>1
    <3>3. \A j \in 0..((k + 1) - 1) : ~Gt(scores[j], scores[k])
      BY <1>a, <3>1, <3>2
    <3> QED
      BY <1>1, <1>3, <2>2, <3>1, <3>2, <3>3 DEF IsArgMax
  <2>3. CASE ~Gt(scores[k], scores[c])
    BY <1>1, <1>3, <2>1, <2>3 DEF IsArgMax
  <2> QED
    BY <2>2, <2>3
<1> QED
  BY <1>2, <1>3

LEMMA ScanInvStep ==
  ASSUME TypeOK, RunShape, FromFile, ScanInv, [Next]_vars
  PROVE  ScanInv'
<1> USE DEF ScanInv, Goto, Return
<1>1. CASE GetOutput
  <2>1. OutputSize(heap[interpreter].file) \in Nat
    BY <1>1, FileAssumption DEF GetOutput, RunShape, FromFile, OutputSize,
       SizeofFloat
  <2>2. SUFFICES ASSUME pc' = "scan", output_size' > 0
                 PROVE  /\ i' \in 1..output_size'
                        /\ IsArgMax(output_data', i', max_index')
                        /\ max_value' = output_data'[max_index']
    OBVIOUS
  <2>3. /\ output_size' \in Nat
        /\ output_data' \in Outputs(output_size')
        /\ i' = 1 /\ max_index' = 0 /\ max_value' = output_data'[0]
    BY <1>1, <2>1, <2>2 DEF GetOutput
  <2> QED
    BY <2>2, <2>3, FirstScore
<1>2. CASE ScanStep
  <2>1. SUFFICES ASSUME output_size > 0
                 PROVE  /\ i' \in 1..output_size
                        /\ IsArgMax(output_data, i', max_index')
                        /\ max_value' = output_data[max_index']
    BY <1>2 DEF ScanStep
  <2>2. /\ i \in 1..(output_size - 1)
        /\ IsArgMax(output_data, i, max_index)
        /\ max_value = output_data[max_index]
    BY <1>2, <2>1 DEF ScanStep, TypeOK
  <2>3. max_index' = IF Gt(output_data[i], output_data[max_index])
                     THEN i ELSE max_index
    BY <1>2, <2>2 DEF ScanStep
  <2>4. IsArgMax(output_data, i + 1, max_index')
    BY <2>2, <2>3, NextScore DEF TypeOK
  <2> QED
    BY <1>2, <2>2, <2>3, <2>4 DEF ScanStep, TypeOK
<1>3. CASE ~GetOutput /\ ~ScanStep
  BY <1>3 DEF Next, load_model, run_inference, unload_model, Enter, LoadStep,
     RunStep, CheckPath, DeleteInterpreter, DeleteOptions, DeleteModel,
     CreateModel, CreateOptions, CreateInterpreter, AllocateTensors,
     CheckArguments, GetInput, CopyInput, Invoke, ReturnMaxIndex, Restart,
     Crash, vars, scan
<1> QED
  BY <1>1, <1>2, <1>3

LEMMA ArgMaxStep ==
  ASSUME TypeOK, LoadShape, RunShape, ScanInv, ArgMax, [Next]_vars
  PROVE  ArgMax'
<1> USE DEF ArgMax, Goto, Return
<1>1. CASE ReturnMaxIndex
  BY <1>1 DEF ReturnMaxIndex, ScanInv, TypeOK, scan
<1>2. CASE UNCHANGED vars
  BY <1>2 DEF vars, scan
<1>3. CASE LoadStep
  BY <1>3 DEF LoadStep, CheckPath, DeleteInterpreter, DeleteOptions,
     DeleteModel, CreateModel, CreateOptions, CreateInterpreter,
     AllocateTensors, LoadShape, Rebuilding
<1>4. CASE RunStep /\ ~ReturnMaxIndex
  BY <1>4 DEF RunStep, CheckArguments, GetInput, CopyInput, Invoke, GetOutput,
     ScanStep, Crash
<1>5. CASE Restart
  BY <1>5 DEF Restart, RunShape
<1> QED
  BY <1>1, <1>2, <1>3, <1>4, <1>5 DEF Next, load_model, run_inference,
     unload_model, Enter

LEMMA LoadReportStep ==
  ASSUME TypeOK, LoadShape, RunShape, LoadReport, [Next]_vars
  PROVE  LoadReport'
<1> USE DEF LoadReport, Goto, Return
<1>1. CASE AllocateTensors
  BY <1>1 DEF AllocateTensors, LoadShape, Object, TypeOK, pointers
<1>2. CASE CreateModel \/ CreateInterpreter \/ CheckPath \/ DeleteModel
  BY <1>2 DEF CreateModel, CreateInterpreter, CheckPath, DeleteModel,
     LoadShape, Rebuilding
<1>3. CASE RunStep
  BY <1>3 DEF RunStep, CheckArguments, GetInput, CopyInput, Invoke, GetOutput,
     ScanStep, ReturnMaxIndex, Crash, RunShape
<1>4. CASE Restart
  BY <1>4 DEF Restart, RunShape
<1>5. CASE UNCHANGED vars
  BY <1>5 DEF vars, pointers
<1> QED
  BY <1>1, <1>2, <1>3, <1>4, <1>5 DEF Next, LoadStep, load_model,
     run_inference, unload_model, Enter, DeleteInterpreter, DeleteOptions,
     CreateOptions

-----------------------------------------------------------------------------
(* The invariants                                                          *)

LEMMA InitInv == Init => IInv
<1> SUFFICES ASSUME Init PROVE IInv
  OBVIOUS
<1>1. Ownership
  BY DEF Init, Ownership, Owns, Freed
<1>2. /\ LoadShape /\ FromFile /\ RunShape /\ RunSizes /\ ScanInv
      /\ LoadReport /\ ArgMax
  BY DEF Init, LoadShape, FromFile, RunShape, RunSizes, ScanInv, LoadReport,
     ArgMax, Rebuilding
<1> QED
  BY <1>1, <1>2, InitType DEF IInv

LEMMA NextInv == IInv /\ [Next]_vars => IInv'
  BY TypeStep, OwnershipStep, LoadShapeStep, FromFileStep, RunShapeStep,
     RunSizesStep, ScanInvStep, LoadReportStep, ArgMaxStep DEF IInv

(* The inductive invariant holds in every state of load_model,             *)
(* run_inference and unload_model.                                         *)
THEOREM Inductive == Spec => []IInv
  BY InitInv, NextInv, PTL DEF Spec

(* The variables of ffi_plugin.cpp keep their types.                       *)
THEOREM TypeCorrect == Spec => []TypeOK
<1>1. IInv => TypeOK
  BY DEF IInv
<1> QED
  BY <1>1, Inductive, PTL

(* load_model and unload_model neither leak a TFLite object, nor leave a   *)
(* dangling static pointer, nor delete twice, on any error path.           *)
THEOREM NoLeakNoDangling == Spec => []Ownership
<1>1. IInv => Ownership
  BY DEF IInv
<1> QED
  BY <1>1, Inductive, PTL

(* load_model returns 1 exactly when the model of its own path is ready.   *)
THEOREM LoadReportCorrect == Spec => []LoadReport
<1>1. IInv => LoadReport
  BY DEF IInv
<1> QED
  BY <1>1, Inductive, PTL

(* The class run_inference returns is the first maximum of the scores, for *)
(* outputs of every size and scores with any number of NaNs.               *)
THEOREM ArgMaxCorrect == Spec => []ArgMax
<1>1. IInv => ArgMax
  BY DEF IInv
<1> QED
  BY <1>1, Inductive, PTL

-----------------------------------------------------------------------------
(* FfiPlugin implements Engine                                             *)

LEMMA InitRefinement == Init => E!Init
  BY DEF Init, E!Init, engineBar, callBar, argBar, Holding, Rebuilding,
     Empty, E!Empty

LEMMA CallRefinement ==
  ASSUME \/ \E p \in File \union {Null} : load_model(p)
         \/ \E n \in Length : run_inference(n)
         \/ unload_model
  PROVE  E!Next
<1> USE DEF Enter, Goto, engineBar, callBar, argBar, Holding, Rebuilding,
        pointers, Empty, E!Empty
<1>1. ASSUME NEW p \in File \union {Null}, load_model(p)
      PROVE  E!Begin("load", p)
  BY <1>1 DEF load_model, E!Begin
<1>2. ASSUME NEW n \in Length, run_inference(n)
      PROVE  E!Begin("run", n)
  BY <1>2 DEF run_inference, E!Begin
<1>3. ASSUME unload_model
      PROVE  E!BeginUnload
  BY <1>3 DEF unload_model, E!BeginUnload
<1> QED
  BY <1>1, <1>2, <1>3 DEF E!Next

(* A step of load_model or unload_model gives the old model up, or ends    *)
(* the call with one of the contract's outcomes, or does not show.         *)
LEMMA LoadRefinement ==
  ASSUME IInv, LoadStep
  PROVE  E!Next \/ UNCHANGED E!vars
<1> USE HeapAssumption, FileAssumption
    DEF IInv, TypeOK, Goto, Return, engineBar, callBar, argBar, Rebuilding,
        E!vars
<1>1. CASE CheckPath
  <2>1. CASE model_path = Null
    <3>1. E!EndLoad
      BY <1>1, <2>1 DEF CheckPath, LoadShape, E!EndLoad, E!Return, Holding,
         pointers
    <3> QED
      BY <3>1 DEF E!Next
  <2>2. CASE model_path # Null
    <3>1. E!GiveUp
      BY <1>1, <2>2 DEF CheckPath, LoadShape, E!GiveUp, Empty, E!Empty
    <3> QED
      BY <3>1 DEF E!Next
  <2> QED
    BY <2>1, <2>2
<1>2. CASE DeleteInterpreter \/ DeleteOptions \/ CreateOptions
  BY <1>2 DEF DeleteInterpreter, DeleteOptions, CreateOptions
<1>3. CASE DeleteModel
  <2>1. CASE call = "load"
    BY <1>3, <2>1 DEF DeleteModel
  <2>2. CASE call = "unload"
    <3>1. E!EndUnload
      BY <1>3, <2>2 DEF DeleteModel, LoadShape, E!EndUnload, E!Return, Holding,
         Empty, E!Empty
    <3> QED
      BY <3>1 DEF E!Next
  <2> QED
    BY <1>3, <2>1, <2>2 DEF DeleteModel, LoadShape
<1>4. CASE CreateModel
  <2>1. CASE Return(0) /\ UNCHANGED <<model, heap>>
    <3>1. E!Return(<<Empty, 0>>)
      BY <1>4, <2>1 DEF CreateModel, LoadShape, E!Return, Holding
    <3>2. E!EndLoad
      BY <1>4, <3>1 DEF CreateModel, LoadShape, E!EndLoad, E!LoadOutcomes,
         Empty, E!Empty
    <3> QED
      BY <3>2 DEF E!Next
  <2>2. CASE ~Return(0)
    BY <1>4, <2>2 DEF CreateModel
  <2> QED
    BY <1>4, <2>1, <2>2 DEF CreateModel
<1>5. CASE CreateInterpreter
  <2>1. CASE Return(0) /\ UNCHANGED <<interpreter, heap>>
    <3>1. E!Return(<<[phase |-> "model", file |-> model_path], 0>>)
      BY <1>5, <2>1 DEF CreateInterpreter, LoadShape, E!Return, Holding
    <3>2. E!EndLoad
      BY <1>5, <3>1 DEF CreateInterpreter, LoadShape, E!EndLoad,
         E!LoadOutcomes, Empty, E!Empty
    <3> QED
      BY <3>2 DEF E!Next
  <2>2. CASE ~Return(0)
    BY <1>5, <2>2 DEF CreateInterpreter
  <2> QED
    BY <1>5, <2>1, <2>2 DEF CreateInterpreter
<1>6. CASE AllocateTensors
  <2>1. interpreter \in Addr /\ interpreter # Null
        /\ heap[interpreter] = Object("interpreter", model_path)
    BY <1>6 DEF AllocateTensors, LoadShape
  <2>2. CASE Return(0) /\ UNCHANGED heap
    <3>1. E!Return(<<[phase |-> "broken", file |-> model_path], 0>>)
      BY <1>6, <2>1, <2>2 DEF AllocateTensors, LoadShape, E!Return, Holding,
         Object, pointers
    <3>2. E!EndLoad
      BY <1>6, <3>1 DEF AllocateTensors, LoadShape, E!EndLoad, E!LoadOutcomes,
         Empty, E!Empty
    <3> QED
      BY <3>2 DEF E!Next
  <2>3. CASE /\ heap' = [heap EXCEPT ![interpreter].allocated = TRUE]
             /\ Return(1)
    <3>0. heap'[interpreter].allocated /\ heap'[interpreter].file = model_path
      BY <2>1, <2>3 DEF Object
    <3>1. E!Return(<<[phase |-> "ready", file |-> model_path], 1>>)
      BY <1>6, <2>1, <2>3, <3>0 DEF AllocateTensors, LoadShape, E!Return,
         Holding, pointers
    <3>2. E!EndLoad
      BY <1>6, <3>1 DEF AllocateTensors, LoadShape, E!EndLoad, E!LoadOutcomes,
         Empty, E!Empty
    <3> QED
      BY <3>2 DEF E!Next
  <2> QED
    BY <1>6, <2>2, <2>3 DEF AllocateTensors
<1> QED
  BY <1>1, <1>2, <1>3, <1>4, <1>5, <1>6 DEF LoadStep

(* Ending run_inference with an outcome of the contract.                   *)
LEMMA EndRunRefinement ==
  ASSUME callBar = "run", NEW o \in E!RunOutcomes(engineBar, argBar),
         E!Return(o)
  PROVE  E!Next
  BY DEF E!EndRun, E!Next

(* Where run_inference works, what the engine holds is its interpreter.    *)
LEMMA RunHolding ==
  ASSUME IInv, pc \in {"get_input", "copy", "invoke", "get_output", "scan"}
  PROVE  /\ callBar = "run" /\ argBar = length
         /\ engineBar.phase = IF heap[interpreter].allocated
                              THEN "ready" ELSE "broken"
         /\ engineBar.file = heap[interpreter].file
         /\ heap[interpreter].file \in File
  BY DEF IInv, RunShape, RunSizes, FromFile, engineBar, callBar, argBar,
     Holding, Rebuilding

(* A step of run_inference ends the call with one of the contract's        *)
(* outcomes, or does not show.                                             *)
LEMMA RunRefinement ==
  ASSUME IInv, RunStep
  PROVE  E!Next \/ UNCHANGED E!vars
<1> USE DEF Goto, Return, Crash
<1>0. callBar = "run"
  BY DEF IInv, RunShape, RunStep, CheckArguments, GetInput, CopyInput, Invoke,
     GetOutput, ScanStep, ReturnMaxIndex, callBar
<1>1. \/ pc' = "idle" /\ result' = -1
      \/ pc' = "crashed" /\ result' = -1 /\ (CopyInput \/ GetOutput)
      \/ ReturnMaxIndex
      \/ /\ pc' \in {"get_input", "copy", "invoke", "get_output", "scan"}
         /\ result' = result
  BY DEF RunStep, CheckArguments, GetInput, CopyInput, Invoke, GetOutput,
     ScanStep, ReturnMaxIndex
<1>2. /\ UNCHANGED <<model, options, interpreter, heap, call, model_path,
                     length>>
      /\ pc \in {"run", "get_input", "copy", "invoke", "get_output", "scan"}
  BY DEF RunStep, CheckArguments, GetInput, CopyInput, Invoke, GetOutput,
     ScanStep, ReturnMaxIndex, pointers
<1>3. CASE pc' = "idle" /\ result' = -1
  <2>1. E!Return(<<engineBar, -1>>)
    BY <1>2, <1>3 DEF E!Return, engineBar, callBar, argBar, Holding, Rebuilding
  <2>2. <<engineBar, -1>> \in E!RunOutcomes(engineBar, argBar)
    BY DEF E!RunOutcomes
  <2> QED
    BY <1>0, <2>1, <2>2, EndRunRefinement
<1>4. CASE pc' = "crashed" /\ result' = -1 /\ (CopyInput \/ GetOutput)
  <2>1. E!Return(<<Crashed, -1>>)
    BY <1>2, <1>4 DEF E!Return, engineBar, callBar, argBar
  <2>2. <<Crashed, -1>> \in E!RunOutcomes(engineBar, argBar)
    <3>1. CASE CopyInput
      BY <1>4, <3>1, RunHolding DEF CopyInput, IInv, RunSizes, input_bytes,
         E!RunOutcomes, E!HasInterpreter, SizeofInt16, E!SizeofInt16, Crashed,
         E!Crashed
    <3>2. CASE GetOutput
      BY <1>4, <3>2, RunHolding, FileAssumption DEF GetOutput, IInv, RunSizes,
         input_bytes, E!RunOutcomes, E!HasInterpreter, SizeofInt16,
         E!SizeofInt16, Crashed, E!Crashed, OutputSize, E!OutputSize,
         SizeofFloat, E!SizeofFloat
    <3> QED
      BY <1>4, <3>1, <3>2
  <2> QED
    BY <1>0, <2>1, <2>2, EndRunRefinement
<1>5. CASE ReturnMaxIndex
  <2>1. E!Return(<<engineBar, max_index>>)
    BY <1>2, <1>5 DEF ReturnMaxIndex, E!Return, engineBar, callBar, argBar,
       Holding, Rebuilding
  <2>2. max_index \in E!Classes(heap[interpreter].file)
    BY <1>5 DEF ReturnMaxIndex, IInv, TypeOK, RunSizes, ScanInv, IsArgMax,
       E!Classes, OutputSize, E!OutputSize, SizeofFloat, E!SizeofFloat
  <2>3. <<engineBar, max_index>> \in E!RunOutcomes(engineBar, argBar)
    BY <1>5, <2>2, RunHolding DEF ReturnMaxIndex, IInv, RunSizes, input_bytes,
       E!RunOutcomes, E!HasInterpreter, SizeofInt16, E!SizeofInt16
  <2> QED
    BY <1>0, <2>1, <2>3, EndRunRefinement
<1>6. CASE /\ pc' \in {"get_input", "copy", "invoke", "get_output", "scan"}
           /\ result' = result
  BY <1>2, <1>6 DEF E!vars, engineBar, callBar, argBar, Holding, Rebuilding
<1> QED
  BY <1>1, <1>3, <1>4, <1>5, <1>6

LEMMA NextRefinement == IInv /\ [Next]_vars => [E!Next]_(E!vars)
<1> SUFFICES ASSUME IInv, [Next]_vars
             PROVE  E!Next \/ UNCHANGED E!vars
  OBVIOUS
<1>1. CASE Restart
  <2>1. E!Restart
    BY <1>1 DEF Restart, E!Restart, Goto, scan, engineBar, callBar, argBar,
       Holding, Rebuilding, Crashed, E!Crashed, Empty, E!Empty
  <2> QED
    BY <2>1 DEF E!Next
<1>2. CASE UNCHANGED vars
  BY <1>2 DEF vars, pointers, E!vars, engineBar, callBar, argBar, Holding
<1> QED
  BY <1>1, <1>2, CallRefinement, LoadRefinement, RunRefinement DEF Next

(* Step by step, through every error path and for every model file, the    *)
(* exported functions do what the abstract engine allows.                  *)
THEOREM Refinement == Spec => EngineRefinement
  BY InitRefinement, NextRefinement, Inductive, PTL
     DEF EngineRefinement, Spec, E!Spec
=============================================================================
