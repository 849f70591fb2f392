-------------------------------- MODULE App --------------------------------
(***************************************************************************)
(* The application: the screens under lib/views/ as the only client of one *)
(* VoiceService.  A screen's State lives from the moment its tab is shown  *)
(* until another tab is; what it keeps in fields is gone afterwards, while *)
(* the service, its timers and its coroutines go on.                       *)
(***************************************************************************)
EXTENDS VoiceService

CONSTANT Commands   \* number of entries of HomeScreen's `commands`

ASSUME CommandsAssumption == Commands \in Nat

VARIABLES
    tab,                \* RootScreen._selectedIndex
    home,               \* fields of the HomeScreen state
    uiTimer,            \* does HomeScreen's own timer fire?
    audioPermission,    \* field of the SettingsScreen state
    awaiting,           \* tasks whose SettingsScreen state is still mounted
    notice              \* what the user is told in this step

ui == <<tab, home, uiTimer, audioPermission, awaiting>>
appVars == <<vars, ui, notice>>

Tabs == {"home", "performance", "settings"}

HomeState == [listening : BOOLEAN, command : 0..(Commands - 1) \union {Null}]

FreshHome == [listening |-> FALSE, command |-> Null]

(* All of the service but the answer it gives in this step.                *)
service == <<fields, native, listening, disk, task, inits>>

Quietly == notice' = "none"

-----------------------------------------------------------------------------
(* RootScreen                                                              *)

(* initState loads the default model; nothing can be tapped before it ran. *)
_initModel(t) ==
    /\ initModel(t)
    /\ Quietly
    /\ UNCHANGED ui

Started == inits > 0

(* A tap on a tab disposes the State of the screen it leaves, whose timer  *)
(* is cancelled; the service is not told.  (A definition named X_Fault is  *)
(* X with a fault in it; it shows that a property can fail.)               *)
Navigate_TimerKept(i) ==
    /\ tab # i
    /\ tab' = i
    /\ home' = FreshHome
    /\ audioPermission' = TRUE
    /\ awaiting' = {}
    /\ Silent
    /\ Quietly
    /\ UNCHANGED <<service, uiTimer>>

Navigate(i) ==
    /\ tab # i
    /\ tab' = i
    /\ home' = FreshHome
    /\ uiTimer' = FALSE
    /\ audioPermission' = TRUE
    /\ awaiting' = {}
    /\ Silent
    /\ Quietly
    /\ UNCHANGED service

-----------------------------------------------------------------------------
(* HomeScreen                                                              *)

(* The screen flips its own flag whether the service follows or not.       *)
ToggleListening ==
    /\ tab = "home"
    /\ home' = [home EXCEPT !.listening = ~home.listening]
    /\ uiTimer' = home'.listening
    /\ IF home'.listening
       THEN IF isInitialized
            THEN startListening
            ELSE UNCHANGED <<isListening, timer, timers>>
       ELSE stopListening
    /\ Silent
    /\ Quietly
    /\ UNCHANGED <<fields, native, inferenceResult, pending, disk, task, inits,
                   tab, audioPermission, awaiting>>

(* A result that is no index into `commands` leaves the last command shown.*)
_startUIUpdate_Unchecked ==
    /\ uiTimer
    /\ inferenceResult # Null
    /\ home' = [home EXCEPT !.command = inferenceResult]
    /\ Silent
    /\ Quietly
    /\ UNCHANGED <<service, tab, uiTimer, audioPermission, awaiting>>

_startUIUpdate ==
    /\ uiTimer
    /\ inferenceResult # Null
    /\ inferenceResult \in 0..(Commands - 1)
    /\ home' = [home EXCEPT !.command = inferenceResult]
    /\ Silent
    /\ Quietly
    /\ UNCHANGED <<service, tab, uiTimer, audioPermission, awaiting>>

-----------------------------------------------------------------------------
(* SettingsScreen                                                          *)

(* The rest of onTap once switchModel has answered: without its State,     *)
(* setState and ScaffoldMessenger.of(context) throw.                       *)
Announce(value, mounted) ==
    CASE value = "throw" \/ ~mounted -> "exception"
      [] value = "true"  /\ mounted  -> "changed"
      [] value = "false" /\ mounted  -> "error"

SelectModel(t, type) ==
    /\ tab = "settings"
    /\ switchModel(t, type)
    /\ IF outcome' = NoOutcome
       THEN awaiting' = awaiting \union {t} /\ Quietly
       ELSE notice' = Announce(outcome'.value, TRUE) /\ UNCHANGED awaiting
    /\ UNCHANGED <<tab, home, uiTimer, audioPermission>>

(* The event loop resumes task t; if that answers a switch, its onTap goes *)
(* on in the same event.                                                   *)
ResumeTask_Unannounced(t) ==
    /\ Resume(t)
    /\ Quietly
    /\ UNCHANGED ui

ResumeTask(t) ==
    /\ Resume(t)
    /\ IF outcome'.op = "switch"
       THEN /\ notice' = Announce(outcome'.value, t \in awaiting)
            /\ awaiting' = awaiting \ {t}
       ELSE Quietly /\ UNCHANGED awaiting
    /\ UNCHANGED <<tab, home, uiTimer, audioPermission>>

SetPermission ==
    /\ tab = "settings"
    /\ audioPermission' = ~audioPermission
    /\ Silent
    /\ Quietly
    /\ UNCHANGED <<service, tab, home, uiTimer, awaiting>>

(* "Apply" shows a message and saves nothing.                              *)
Apply ==
    /\ tab = "settings"
    /\ notice' = "saved"
    /\ Silent
    /\ UNCHANGED <<service, tab, home, uiTimer, audioPermission, awaiting>>

(* "Reset" names the INT8 model as selected without loading it.            *)
Reset ==
    /\ tab = "settings"
    /\ \E type \in SetTypes : setModelType(type)
    /\ audioPermission' = TRUE
    /\ Quietly
    /\ UNCHANGED <<tab, home, uiTimer, awaiting>>

-----------------------------------------------------------------------------
(* The specification                                                       *)

AppInit ==
    /\ Init
    /\ tab = "home"
    /\ home = FreshHome
    /\ uiTimer = FALSE
    /\ audioPermission = TRUE
    /\ awaiting = {}
    /\ notice = "none"

AppRestart ==
    /\ Restart
    /\ tab' = "home"
    /\ home' = FreshHome
    /\ uiTimer' = FALSE
    /\ audioPermission' = TRUE
    /\ awaiting' = {}
    /\ Quietly

Tap ==
    \/ \E i \in Tabs : Navigate(i)
    \/ ToggleListening
    \/ \E t \in Task, type \in SwitchTypes : SelectModel(t, type)
    \/ SetPermission \/ Apply \/ Reset

Background(t) == IoEffect(t) /\ Quietly /\ UNCHANGED ui

Inference == (Tick \/ RunInference) /\ Quietly /\ UNCHANGED ui

AppNext ==
    \/ Alive /\ \E t \in Task : _initModel(t) \/ Background(t) \/ ResumeTask(t)
    \/ Alive /\ Started /\ (Tap \/ _startUIUpdate \/ Inference)
    \/ AppRestart

(* As for the service: files are served and events are run; no user has to *)
(* tap anything.                                                           *)
AppSpec ==
    /\ AppInit /\ [][AppNext]_appVars
    /\ \A t \in Task : WF_appVars(Alive /\ (Background(t) \/ ResumeTask(t)))

-----------------------------------------------------------------------------
(* Properties                                                              *)

(* The variables of the screens have the types of their fields; a command  *)
(* that is shown is an entry of `commands`.                                *)
AppTypeOK ==
    /\ tab \in Tabs
    /\ home \in HomeState
    /\ uiTimer \in BOOLEAN /\ audioPermission \in BOOLEAN
    /\ awaiting \subseteq Task
    /\ notice \in {"none", "changed", "error", "exception", "saved"}

(***************************************************************************)
(* UiTimerMounted: HomeScreen's timer fires only while the State whose     *)
(* setState it calls is mounted and shows itself as listening.             *)
(***************************************************************************)
UiTimerMounted == uiTimer => tab = "home" /\ home.listening

(* A switch ended with the exception of a file that cannot be deleted.     *)
DeleteFailed == outcome.value = "throw" /\ Present(currentModelFile)

(***************************************************************************)
(* SwitchAnnounced: a tap on a model is eventually followed by one of its  *)
(* own two messages, "changed" or "error", not merely by some message, on  *)
(* every path through failing files, assets, libraries and loads, unless   *)
(* the delete of the old file fails (nothing catches that exception), the  *)
(* user leaves the screen or the process dies.                             *)
(***************************************************************************)
SwitchAnnounced ==
    \A t \in Task :
        t \in awaiting ~> \/ notice \in {"changed", "error"}
                          \/ DeleteFailed
                          \/ tab # "settings" \/ ~Alive

(***************************************************************************)
(* ChangedIsLoaded: when a switch that had to wait is announced as         *)
(* "changed", the model the user tapped is ready, although "Reset" may     *)
(* have named another type while the switch was waiting.                   *)
(***************************************************************************)
ChangedIsLoaded ==
    [][\A t \in awaiting :
         t \notin awaiting' /\ notice' = "changed" =>
             /\ engine'.phase = "ready"
             /\ engine'.file = task[t].newType]_appVars
=============================================================================
