------------------------------ MODULE Service ------------------------------
(***************************************************************************)
(* What lib/services/voice_service.dart promises to the screens, without   *)
(* files, coroutines or the plugin: at most one model is loaded, it is the *)
(* selected one, and what is published as a result came from it.  A model  *)
(* is replaced by unloading it, selecting the next one and loading that,   *)
(* and each of these may be the last thing that happens.                   *)
(***************************************************************************)
EXTENDS EngineContract

CONSTANT DefaultType        \* MODEL_FLOAT32

VARIABLES
    loaded,         \* the model inferences run on, or Null
    selected,       \* selectedModelType
    listening,      \* isListening
    result          \* inferenceResult

serviceVars == <<loaded, selected, listening, result>>

Init ==
    /\ loaded = Null
    /\ selected = DefaultType
    /\ listening = FALSE
    /\ result = Null

(* unloadModel, alone or as a part of dispose, which stops listening too   *)
Unload ==
    /\ loaded' = Null
    /\ listening' \in {listening, FALSE}
    /\ UNCHANGED <<selected, result>>

(* The type changes only while nothing is loaded.                          *)
Select ==
    /\ loaded = Null
    /\ selected' \in File
    /\ UNCHANGED <<loaded, listening, result>>

Load ==
    /\ loaded = Null
    /\ loaded' = selected
    /\ UNCHANGED <<selected, listening, result>>

Listen ==
    /\ listening' \in BOOLEAN
    /\ UNCHANGED <<loaded, selected, result>>

(* An inference fails, or returns a class of the model loaded now.         *)
Infer ==
    /\ result' \in {-1} \union (IF loaded = Null THEN {} ELSE Classes(loaded))
    /\ UNCHANGED <<loaded, selected, listening>>

(* A native call ends the process ...                                      *)
Crash ==
    /\ loaded' = Null
    /\ result' = -1
    /\ UNCHANGED <<selected, listening>>

(* ... which is started again.                                             *)
Restart ==
    /\ loaded' = Null
    /\ selected' = DefaultType
    /\ listening' = FALSE
    /\ result' = Null

Next == Unload \/ Select \/ Load \/ Listen \/ Infer \/ Crash \/ Restart

Spec == Init /\ [][Next]_serviceVars
=============================================================================
