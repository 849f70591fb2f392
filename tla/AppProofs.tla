------------------------------ MODULE AppProofs ------------------------------
(***************************************************************************)
(* Theorems about App: what VoiceServiceProofs shows of the service for    *)
(* every client holds with the screens as its client, and the screens keep *)
(* their own promises.                                                     *)
(***************************************************************************)
EXTENDS App, VoiceServiceProofs

AppInv == IInv /\ AppTypeOK /\ UiTimerMounted

-----------------------------------------------------------------------------
(* The service under the screens                                           *)

(* A tap that does not reach the service.                                  *)
LEMMA ServiceKept ==
  ASSUME IInv, UNCHANGED service
  PROVE  IInv'
<1>1. UNCHANGED <<fields, native, listening, disk, inits, task>>
  BY DEF service
<1>2. /\ task' \in [Task -> Tasks]
      /\ (\A s \in Task : TaskOK(task[s]))'
      /\ BindingsFirst'
  BY <1>1, TasksKept DEF fields, native, IInv, BindingsFirst
<1> QED
  BY <1>1, <1>2, OnlyTasks

(* HomeScreen's button starts or stops the service, or leaves it alone     *)
(* because it is not initialised.                                          *)
LEMMA ToggleListeningServes ==
  ASSUME IInv, ToggleListening
  PROVE  IInv'
<1>1. /\ Silent
      /\ UNCHANGED <<fields, native, inferenceResult, pending, disk, task,
                     inits>>
  BY DEF ToggleListening
<1>2. CASE startListening
  BY <1>1, <1>2, ListeningKeeps DEF StartListening
<1>3. CASE stopListening
  BY <1>1, <1>3, ListeningKeeps DEF StopListening
<1>4. CASE UNCHANGED <<isListening, timer, timers>>
  BY <1>1, <1>4, ServiceKept DEF service, listening
<1> QED
  BY <1>2, <1>3, <1>4 DEF ToggleListening

(* Every step of the application is good for the service.                  *)
LEMMA AppServes ==
  ASSUME IInv, [AppNext]_appVars
  PROVE  IInv'
<1>1. ASSUME NEW t \in Task, _initModel(t) \/ Background(t) \/ ResumeTask(t)
      PROVE  IInv'
  BY <1>1, InitModelKeeps, IoEffectKeeps, ResumeKeeps
  DEF _initModel, Background, ResumeTask
<1>2. CASE Tap
  <2>1. ASSUME NEW i \in Tabs, Navigate(i) PROVE IInv'
    BY <2>1, ServiceKept DEF Navigate
  <2>2. CASE ToggleListening
    BY <2>2, ToggleListeningServes
  <2>3. ASSUME NEW t \in Task, NEW type \in SwitchTypes, SelectModel(t, type)
        PROVE  IInv'
    BY <2>3, SwitchModelKeeps DEF SelectModel
  <2>4. CASE SetPermission \/ Apply
    BY <2>4, ServiceKept DEF SetPermission, Apply
  <2>5. CASE Reset
    BY <2>5, SetModelTypeKeeps DEF Reset
  <2> QED
    BY <1>2, <2>1, <2>2, <2>3, <2>4, <2>5 DEF Tap
<1>3. CASE _startUIUpdate
  BY <1>3, ServiceKept DEF _startUIUpdate
<1>4. CASE Inference
  BY <1>4, TickKeeps, RunInferenceKeeps DEF Inference
<1>5. CASE AppRestart
  BY <1>5, RestartKeeps DEF AppRestart
<1>6. CASE UNCHANGED appVars
  <2>1. UNCHANGED service
    BY <1>6 DEF appVars, vars, service
  <2> QED
    BY <2>1, ServiceKept
<1> QED
  BY <1>1, <1>2, <1>3, <1>4, <1>5, <1>6 DEF AppNext

-----------------------------------------------------------------------------
(* The screens                                                             *)

Notices == {"none", "changed", "error", "exception", "saved"}

Answers == {"true", "false", "throw"}

(* onTap has a message for every answer of switchModel.                    *)
LEMMA AnnounceOK ==
  ASSUME NEW value \in Answers, NEW mounted \in BOOLEAN
  PROVE  Announce(value, mounted) \in Notices
  BY DEF Announce, Answers, Notices

(* What a resumed coroutine answers to whoever awaits a switch.            *)
LEMMA ResumeAnswers ==
  ASSUME NEW t \in Task, Resume(t), outcome'.op = "switch"
  PROVE  outcome'.value \in Answers
<1>1. ASSUME NEW value, Answer(t, value)
      PROVE  outcome'.op = task[t].op /\ outcome'.value = value
  BY <1>1 DEF Answer
<1>2. ASSUME NEW r, Suspend(t, r)
      PROVE  FALSE
  BY <1>2 DEF Suspend, Silent, NoOutcome
<1>3. CASE AfterRemoval(t)
  BY <1>1, <1>2, <1>3 DEF AfterRemoval
<1>4. CASE ExistsOldDone(t) \/ DeleteOldDone(t)
  BY <1>1, <1>2, <1>3, <1>4 DEF ExistsOldDone, DeleteOldDone, Answers
<1>5. CASE WriteDone(t) \/ ExistsDone(t) \/ FfiProbe(t) \/ FfiDone(t)
             \/ AssetDone(t)
  BY <1>1, <1>2, <1>5
  DEF WriteDone, ExistsDone, FfiProbe, FfiDone, AssetDone, Answers
<1>6. CASE LengthDone(t)
  <2>1. Answer(t, "true") \/ Answer(t, "false")
    BY <1>6 DEF LengthDone
  <2> QED
    BY <1>1, <2>1 DEF Answers
<1> QED
  BY <1>4, <1>5, <1>6 DEF Resume

(* The screens' part of the invariant when only the notice and the set of  *)
(* mounted callers change.                                                 *)
LEMMA ScreensKept ==
  ASSUME AppTypeOK, UiTimerMounted,
         UNCHANGED <<tab, home, uiTimer, audioPermission>>,
         awaiting' \subseteq Task, notice' \in Notices
  PROVE  AppTypeOK' /\ UiTimerMounted'
  BY DEF AppTypeOK, UiTimerMounted, Notices

(* Leaving a screen forgets its State and cancels its timer.               *)
LEMMA NavigateKeeps ==
  ASSUME AppInv, NEW i \in Tabs, Navigate(i)
  PROVE  AppTypeOK' /\ UiTimerMounted'
<1>1. /\ tab' = i /\ home' = FreshHome /\ uiTimer' = FALSE
      /\ audioPermission' = TRUE /\ awaiting' = {} /\ notice' = "none"
  BY DEF Navigate, Quietly
<1>2. FreshHome \in HomeState
  BY DEF FreshHome, HomeState
<1> QED
  BY <1>1, <1>2 DEF AppTypeOK, UiTimerMounted

(* HomeScreen's timer is the flag it shows.                                *)
LEMMA ToggleListeningKeeps ==
  ASSUME AppInv, ToggleListening
  PROVE  AppTypeOK' /\ UiTimerMounted'
<1>1. /\ home \in HomeState
      /\ home' = [home EXCEPT !.listening = ~home.listening]
      /\ uiTimer' = home'.listening
      /\ tab = "home"
      /\ UNCHANGED <<tab, audioPermission, awaiting>>
      /\ notice' = "none"
  BY DEF AppInv, AppTypeOK, ToggleListening, Quietly
<1>2. home' \in HomeState
  BY <1>1 DEF HomeState
<1>3. uiTimer' \in BOOLEAN
  BY <1>1, <1>2 DEF HomeState
<1>4. AppTypeOK'
  BY <1>1, <1>2, <1>3 DEF AppInv, AppTypeOK, Tabs
<1> QED
  BY <1>1, <1>4 DEF UiTimerMounted

(* The timer shows a result that is an index into `commands`.              *)
LEMMA UIUpdateKeeps ==
  ASSUME AppInv, _startUIUpdate
  PROVE  AppTypeOK' /\ UiTimerMounted'
<1>1. /\ home \in HomeState
      /\ home' = [home EXCEPT !.command = inferenceResult]
      /\ UNCHANGED <<tab, uiTimer, audioPermission, awaiting>>
      /\ notice' = "none"
  BY DEF AppInv, AppTypeOK, _startUIUpdate, Quietly
<1>2. inferenceResult \in 0..(Commands - 1)
  BY DEF _startUIUpdate
<1>3. /\ home' \in HomeState
      /\ home'.listening = home.listening
  BY <1>1, <1>2 DEF HomeState
<1>4. AppTypeOK'
  BY <1>1, <1>3 DEF AppInv, AppTypeOK
<1> QED
  BY <1>1, <1>3, <1>4 DEF AppInv, UiTimerMounted

(* A tap on a model: an answer is announced at once.                       *)
LEMMA SelectModelKeeps ==
  ASSUME AppInv, NEW t \in Task, NEW type \in SwitchTypes,
         SelectModel(t, type)
  PROVE  AppTypeOK' /\ UiTimerMounted'
<1>1. UNCHANGED <<tab, home, uiTimer, audioPermission>>
  BY DEF SelectModel
<1>2. CASE outcome' = NoOutcome
  <2>1. awaiting' = awaiting \union {t} /\ notice' = "none"
    BY <1>2 DEF SelectModel, Quietly
  <2>2. awaiting' \subseteq Task /\ notice' \in Notices
    BY <2>1 DEF AppInv, AppTypeOK, Notices
  <2> QED
    BY <1>1, <2>2, ScreensKept DEF AppInv
<1>3. CASE outcome' # NoOutcome
  <2>1. notice' = Announce(outcome'.value, TRUE) /\ UNCHANGED awaiting
    BY <1>3 DEF SelectModel
  <2>2. \E value \in {"true", "false"} :
          outcome' = [op |-> "switch", type |-> type, value |-> value]
    BY <1>3 DEF SelectModel, switchModel, Suspend, Silent
  <2>3. outcome'.value \in Answers
    BY <2>2 DEF Answers
  <2>4. awaiting' \subseteq Task /\ notice' \in Notices
    BY <2>1, <2>3, AnnounceOK DEF AppInv, AppTypeOK
  <2> QED
    BY <1>1, <2>4, ScreensKept DEF AppInv
<1> QED
  BY <1>2, <1>3

(* The rest of onTap, when switchModel has answered later.                 *)
LEMMA ResumeTaskKeeps ==
  ASSUME AppInv, NEW t \in Task, ResumeTask(t)
  PROVE  AppTypeOK' /\ UiTimerMounted'
<1>1. UNCHANGED <<tab, home, uiTimer, audioPermission>> /\ Resume(t)
  BY DEF ResumeTask
<1>2. CASE outcome'.op = "switch"
  <2>1. /\ notice' = Announce(outcome'.value, t \in awaiting)
        /\ awaiting' = awaiting \ {t}
    BY <1>2 DEF ResumeTask
  <2>2. outcome'.value \in Answers
    BY <1>1, <1>2, ResumeAnswers
  <2>3. notice' \in Notices
    <3>1. (t \in awaiting) \in BOOLEAN
      OBVIOUS
    <3> DEFINE mounted == t \in awaiting
               value == outcome'.value
    <3>2. mounted \in BOOLEAN /\ value \in Answers
      BY <2>2, <3>1
    <3>3. notice' = Announce(value, mounted)
      BY <2>1
    <3> HIDE DEF mounted, value
    <3> QED
      BY <3>2, <3>3, AnnounceOK
  <2>4. awaiting' \subseteq Task
    BY <2>1 DEF AppInv, AppTypeOK
  <2> QED
    BY <1>1, <2>3, <2>4, ScreensKept DEF AppInv
<1>3. CASE outcome'.op # "switch"
  <2>1. notice' = "none" /\ UNCHANGED awaiting
    BY <1>3 DEF ResumeTask, Quietly
  <2>2. notice' \in Notices /\ awaiting' \subseteq Task
    BY <2>1 DEF Notices, AppInv, AppTypeOK
  <2> QED
    BY <1>1, <2>2, ScreensKept DEF AppInv
<1> QED
  BY <1>2, <1>3

(* The switches and buttons of the settings.                               *)
LEMMA SettingsKeep ==
  ASSUME AppInv, SetPermission \/ Apply \/ Reset
  PROVE  AppTypeOK' /\ UiTimerMounted'
<1>1. /\ UNCHANGED <<tab, home, uiTimer, awaiting>>
      /\ notice' \in Notices
  BY DEF SetPermission, Apply, Reset, Quietly, Notices
<1>2. audioPermission' \in BOOLEAN
  BY DEF SetPermission, Apply, Reset, AppInv, AppTypeOK
<1> QED
  BY <1>1, <1>2 DEF AppInv, AppTypeOK, UiTimerMounted, Notices

(* Every step of the application keeps the screens' promises.              *)
LEMMA ScreensKeep ==
  ASSUME AppInv, [AppNext]_appVars
  PROVE  AppTypeOK' /\ UiTimerMounted'
<1>1. ASSUME UNCHANGED ui, notice' \in Notices
      PROVE  AppTypeOK' /\ UiTimerMounted'
  BY <1>1, ScreensKept DEF ui, AppInv, AppTypeOK
<1>2. "none" \in Notices
  BY DEF Notices
<1>3. ASSUME NEW t \in Task, _initModel(t) \/ Background(t)
      PROVE  AppTypeOK' /\ UiTimerMounted'
  BY <1>1, <1>2, <1>3 DEF _initModel, Background, Quietly
<1>4. ASSUME NEW t \in Task, ResumeTask(t)
      PROVE  AppTypeOK' /\ UiTimerMounted'
  BY <1>4, ResumeTaskKeeps
<1>5. CASE Tap
  BY <1>5, NavigateKeeps, ToggleListeningKeeps, SelectModelKeeps,
     SettingsKeep DEF Tap
<1>6. CASE _startUIUpdate
  BY <1>6, UIUpdateKeeps
<1>7. CASE Inference
  BY <1>1, <1>2, <1>7 DEF Inference, Quietly
<1>8. CASE AppRestart
  <2>1. FreshHome \in HomeState
    BY DEF FreshHome, HomeState
  <2> QED
    BY <1>8, <2>1 DEF AppRestart, AppTypeOK, UiTimerMounted, Tabs, Quietly
<1>9. CASE UNCHANGED appVars
  <2>1. UNCHANGED ui /\ UNCHANGED notice
    BY <1>9 DEF appVars
  <2> QED
    BY <1>1, <2>1 DEF AppInv, AppTypeOK, Notices
<1> QED
  BY <1>3, <1>4, <1>5, <1>6, <1>7, <1>8, <1>9 DEF AppNext

-----------------------------------------------------------------------------
(* The theorems                                                            *)

(***************************************************************************)
(* The invariant of the service and that of the screens hold together in   *)
(* every reachable state of the application.                               *)
(***************************************************************************)
THEOREM AppInductive == AppSpec => []AppInv
<1>1. AppInit => AppInv
  <2> SUFFICES ASSUME AppInit PROVE AppInv
    OBVIOUS
  <2>1. IInv
    <3>1. disk \in [File -> Contents]
      BY DEF AppInit, Init, Contents
    <3> QED
      BY <3>1, FreshOK DEF AppInit, Init
  <2>2. FreshHome \in HomeState
    BY DEF FreshHome, HomeState
  <2> QED
    BY <2>1, <2>2 DEF AppInit, AppInv, AppTypeOK, UiTimerMounted, Tabs
<1>2. AppInv /\ [AppNext]_appVars => AppInv'
  BY AppServes, ScreensKeep DEF AppInv
<1> QED
  BY <1>1, <1>2, PTL DEF AppSpec

(***************************************************************************)
(* The fields of the screens have their types; in particular the user is   *)
(* told something sensible about every answer, thrown or late.             *)
(***************************************************************************)
THEOREM AppTypeCorrect == AppSpec => []AppTypeOK
<1>1. AppInv => AppTypeOK
  BY DEF AppInv
<1> QED
  BY <1>1, AppInductive, PTL

(***************************************************************************)
(* HomeScreen's timer never calls setState on a State that is gone, in any *)
(* sequence of taps.                                                       *)
(***************************************************************************)
THEOREM UiTimerCorrect == AppSpec => []UiTimerMounted
<1>1. AppInv => UiTimerMounted
  BY DEF AppInv
<1> QED
  BY <1>1, AppInductive, PTL

(***************************************************************************)
(* With the screens as its client the service keeps what it keeps with     *)
(* every client: bindings and a file to remove once it is initialised, the *)
(* mapped file in _currentModelFile, and a timer it can cancel.            *)
(***************************************************************************)
THEOREM AppServiceCorrect ==
    AppSpec => [](ServiceBacked /\ TrackedMapping /\ TimerHandle)
<1>1. AppInv => ServiceBacked /\ TrackedMapping /\ TimerHandle
  BY DEF AppInv, IInv
<1> QED
  BY <1>1, AppInductive, PTL
==============================================================================
