--------------------------- MODULE EngineContract ---------------------------
(***************************************************************************)
(* What the three exported functions of plugins/ffi_plugin/src/            *)
(* ffi_plugin.cpp promise to their Dart callers, as outcome sets.          *)
(* Engine.tla turns the sets into a specification that FfiPlugin.tla       *)
(* implements; VoiceService.tla uses the same sets for its native calls.   *)
(***************************************************************************)
EXTENDS Integers

CONSTANTS
    File,       \* the model files a path can name
    Null,       \* nullptr, a path or a file that is not there
    InBytes,    \* byte size of input tensor 0 of each file's model
    OutBytes    \* byte size of output tensor 0 of each file's model

ASSUME FileAssumption ==
    /\ Null \notin File
    /\ InBytes \in [File -> Nat]
    /\ OutBytes \in [File -> Nat]

SizeofInt16 == 2
SizeofFloat == 4

(***************************************************************************)
(* What the three static pointers amount to.  "model": a model without an  *)
(* interpreter (line 50 returned); "broken": an interpreter whose tensors  *)
(* were never allocated (line 56 returned); "ready": line 60 returned.     *)
(* "crashed": undefined behaviour ended the process.                       *)
(***************************************************************************)
Phase == {"empty", "model", "broken", "ready", "crashed"}

EngineState == [phase : Phase, file : File \union {Null}]

Empty   == [phase |-> "empty",   file |-> Null]
Crashed == [phase |-> "crashed", file |-> Null]

HasInterpreter(e) == e.phase \in {"broken", "ready"}

(***************************************************************************)
(* load_model on the path of file f: <<state left behind, return value>>.  *)
(* The previous model is gone in every case; a failed load may leave a     *)
(* model, or an interpreter that must not be used, behind.                 *)
(***************************************************************************)
LoadOutcomes(f) ==
    {<<Empty, 0>>,
     <<[phase |-> "model",  file |-> f], 0>>,
     <<[phase |-> "broken", file |-> f], 0>>,
     <<[phase |-> "ready",  file |-> f], 1>>}

(***************************************************************************)
(* Number of scores run_inference looks at: it divides the byte size of    *)
(* the output tensor by the size of a float whatever the tensor's type is. *)
(***************************************************************************)
OutputSize_OffByOne(f) == OutBytes[f] \div SizeofFloat - 1

OutputSize(f) == OutBytes[f] \div SizeofFloat

(* The indexes run_inference can return: 0 is returned without a score too.*)
Classes(f) == {0} \union 0..(OutputSize(f) - 1)

(***************************************************************************)
(* run_inference on n samples: <<state left behind, return value>>.        *)
(* TfLiteTensorCopyFromBuffer wants the exact size of the tensor, so only  *)
(* one length can succeed.  Writing to tensors that were never allocated,  *)
(* and reading a score of an output too small to hold one, may crash.      *)
(***************************************************************************)
RunOutcomes(e, n) ==
    {<<e, -1>>}
      \union
    (IF HasInterpreter(e) /\ n > 0 /\ n * SizeofInt16 = InBytes[e.file]
     THEN IF e.phase = "ready"
          THEN {<<e, c>> : c \in Classes(e.file)}
                 \union
               (IF OutputSize(e.file) = 0 THEN {<<Crashed, -1>>} ELSE {})
          ELSE {<<Crashed, -1>>}
     ELSE {})
=============================================================================
