------------------------------- MODULE Engine -------------------------------
(***************************************************************************)
(* The native engine as its Dart caller sees it: one call at a time, and   *)
(* of each call only its beginning, the moment the previous model is given *)
(* up, and its outcome.  FfiPlugin.tla implements this specification.      *)
(***************************************************************************)
EXTENDS EngineContract

CONSTANT Length     \* the sample counts callers pass

VARIABLES
    engine,     \* what the engine holds (EngineState)
    call,       \* the exported function being executed, or "none"
    arg,        \* the argument of that call
    result      \* what the last call returned

vars == <<engine, call, arg, result>>

Init ==
    /\ engine = Empty
    /\ call = "none"
    /\ arg = Null
    /\ result = 0

Begin(f, a) ==
    /\ call = "none"
    /\ engine.phase # "crashed"
    /\ call' = f
    /\ arg' = a
    /\ UNCHANGED <<engine, result>>

Return(outcome) ==
    /\ engine' = outcome[1]
    /\ result' = outcome[2]
    /\ call' = "none"
    /\ UNCHANGED arg

(* unload_model can only give the model up.                                *)
BeginUnload ==
    /\ call = "none"
    /\ engine.phase # "crashed"
    /\ call' = "unload"
    /\ arg' = Null
    /\ engine' = Empty
    /\ UNCHANGED result

(* The previous model is given up before anything of the new one exists.   *)
GiveUp ==
    /\ call = "load"
    /\ arg # Null
    /\ engine' = Empty
    /\ UNCHANGED <<call, arg, result>>

EndLoad ==
    /\ call = "load"
    /\ IF arg = Null
       THEN Return(<<engine, 0>>)
       ELSE /\ engine = Empty
            /\ \E o \in LoadOutcomes(arg) : Return(o)

EndUnload ==
    /\ call = "unload"
    /\ engine = Empty
    /\ Return(<<Empty, result>>)

EndRun ==
    /\ call = "run"
    /\ \E o \in RunOutcomes(engine, arg) : Return(o)

(* A crashed process is started again with its static pointers null.       *)
Restart ==
    /\ engine.phase = "crashed"
    /\ engine' = Empty
    /\ UNCHANGED <<call, arg, result>>

Next ==
    \/ \E p \in File \union {Null} : Begin("load", p)
    \/ \E n \in Length : Begin("run", n)
    \/ BeginUnload
    \/ GiveUp
    \/ EndLoad
    \/ EndUnload
    \/ EndRun
    \/ Restart

Spec == Init /\ [][Next]_vars
=============================================================================
