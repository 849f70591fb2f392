# Verification of aurora_practice_project

TLA+ specifications of a voice-command application for Aurora OS: a Flutter
front end, a Dart service that manages a TensorFlow Lite model, a C++ plugin
that holds the interpreter, the part of TensorFlow Lite that gives the model's
tensors their memory, and the Windows runner.  The modules are checked with TLC
on small instances, and the safety properties of every component are also proved
with TLAPS for every value of the constants; two of them, about the contents of
tensors, for the graphs on which they hold.

Paths below are relative to the repository; `file:12` is line 12 of a file.

## 1. The system

| Part | State it keeps | Operations | Talks to |
|---|---|---|---|
| Native engine, `plugins/ffi_plugin/src/ffi_plugin.cpp` | three static pointers: `model`, `options`, `interpreter` | `load_model`, `run_inference`, `unload_model` | TensorFlow Lite C API |
| Dart half of the plugin, `plugins/ffi_plugin/lib/ffi_plugin.dart` | `late final _bindings` | `initFfiPlugin`, `loadModel`, `unloadModel`, `runInferenceAsync` | engine (synchronous FFI calls), loader |
| Library loader, `plugins/ffi_plugin/lib/ffi_loader.dart` | none | `loadFfiEngine`: probes three paths, opens the first that exists | file system |
| `VoiceService`, `lib/services/voice_service.dart` | selected type, current temporary file, two "initialised" flags, listening flag, timer, last result | `initModel`, `switchModel`, `setModelType`, `toggle/start/stopListening`, `_runInference`, `dispose` | plugin, assets, `/tmp/model_<type>.tflite` |
| `RootScreen`, `lib/views/root_screen.dart` | index of the tab | start-up load, tab change | service; creates and disposes the screens' States |
| `HomeScreen`, `lib/views/home/home_screen.dart` | own listening flag, own timer, detected command | `toggleListening`, `_startUIUpdate`, `dispose` | service |
| `SettingsScreen`, `lib/views/settings/settings_screen.dart` | microphone permission | tap on a model, permission switch, Apply, Reset | service |
| `PerformanceScreen`, `lib/views/performance/performance_screen.dart` | list of metrics, last metric, frame counter, timer | start/stop monitoring, tick, reset, `dispose` | reads the service |
| Memory planner of TensorFlow Lite, `tflite_c/include/tensorflow/lite/arena_planner.cc`, `simple_memory_arena.cc` | where each tensor lies, lifetimes, who shares whose memory, the allocations still in use | `PlanAllocations`, `ExecuteAllocations`, `ResetAllocationsAfter` | called by the subgraph |
| Subgraph of TensorFlow Lite, `tflite_c/include/tensorflow/lite/core/subgraph.cc` | how far nodes are prepared and placed, tensors | `AllocateTensors`, `Invoke` | called by the plugin through the C API |
| Windows runner, `windows/runner/` | window handle, controller, window count, class registration | start-up, window messages, destruction | Win32, which calls back |
| Other runners, widgets, theme, generated bindings, `model_loader.dart` | none of interest | | |

What is hard about it:

* *Failure half-way.* `load_model` has four places to fail, each leaving a
  different set of pointers behind; `switchModel` gives the old model up before
  it knows whether the new one loads.
* *Coroutines.* `initModel` awaits seven things, `switchModel` up to two more,
  and nobody serialises the callers: the settings screen starts a switch per
  tap.  The asset path is computed before the awaits, the file name after them.
* *Shared files.* The engine maps the temporary file it loads; the service
  deletes, truncates and rewrites files of the same few names.  Files survive
  the process.
* *Lifetimes.* A screen's State dies with its tab, while the service, its timer
  and a switch in flight go on.
* *Re-entry.* `Destroy` calls `DestroyWindow`, which sends `WM_DESTROY`, whose
  handler calls `Destroy`; this may happen in the destructor of the base class.
* *Reuse of memory.* Tensors share bytes when their lifetimes allow it, lifetimes
  are computed once, and sizes change in the middle of an `Invoke`.
* *Boundaries.* Sample counts against tensor sizes, output bytes divided by
  `sizeof(float)` whatever the tensor's type, NaN scores, a list of metrics at
  its limit.

What makes the parts correct:

* engine: no leak, no dangling pointer and no double delete on any path; a load
  result that tells the truth; the first maximum is returned; every call
  returns;
* service: the file outlives the model made from it; the model that is loaded
  is the one that is selected; calls answer; `dispose` releases everything;
* memory: two tensors needed at the same time never share a byte unless one has
  taken the place of the other; what a node reads is what was written; no pointer
  outlives its buffer;
* runner: the handle, the class flag and the window count tell the truth whenever
  they are used, and closing the window ends the process;
* screens: no timer outlives its State; what the user did is answered; the list
  and the chart of the performance screen are the frames that were counted.

## 2. Modules

| Module | Models |
|---|---|
| `EngineContract` | what the three native functions promise, as sets of outcomes (`LoadOutcomes`, `RunOutcomes`) |
| `Engine` | the abstract engine: a call begins, gives the old model up, and ends with one of those outcomes |
| `FfiPlugin` | `ffi_plugin.cpp` statement by statement over a heap of TFLite objects; implements `Engine` |
| `FfiPluginProofs` | theorems about `FfiPlugin` |
| `Service` | what the service promises to the screens: one model at most, the selected one, and results from it |
| `VoiceService` | `voice_service.dart` with `ffi_plugin.dart` and `ffi_loader.dart`; with one call at a time it implements `Service`; native calls are atomic and have the outcomes of `EngineContract` |
| `VoiceServiceProofs` | theorems about `VoiceService` for any number of overlapping calls |
| `SequentialProofs` | theorems about `VoiceService` for clients that make one call at a time |
| `App` | the screens as the only client of one `VoiceService` (extends it) |
| `AppProofs` | theorems about `App`, on top of those about the service |
| `PerformanceScreen`, `PerformanceScreenProofs` | the performance screen, and theorems about it |
| `MemoryPlanner` | `arena_planner.cc` and `simple_memory_arena.cc` |
| `Subgraph` | `subgraph.cc`: preparation and execution of the nodes, driving `MemoryPlanner` (extends it) |
| `SubgraphProofs` | theorems about `MemoryPlanner` and `Subgraph`: where tensors lie and what points to them |
| `ContentsProofs` | theorems about `Subgraph`: what tensors hold (extends `SubgraphProofs`) |
| `Win32Window` | `windows/runner/`: `main.cpp`, `flutter_window.cpp`, `win32_window.cpp` |
| `Win32WindowProofs` | theorems about `Win32Window` |
| `MCFfiPlugin`, `MCVoiceService`, `MCApp`, `MCPerformanceScreen`, `MCSubgraph`, `MCWin32Window` | constants for TLC |

Definitions named `X_Fault` (`CheckPath_Unchecked`, `Navigate_TimerKept`, ...)
are a definition `X` with a plausible fault in it.  No specification uses them;
put in the place of `X` they make a property fail, which shows that the property
can fail.

### EngineContract, Engine, FfiPlugin

`FfiPlugin` has the three static pointers and the local variables of the
functions under their C++ names.  `heap` maps addresses to objects: their kind,
the file they come from and, for an interpreter, whether its tensors have been
allocated.  `pc` stands between two statements; each TFLite call is one action
that succeeds or fails (`CreateModel`, `CreateInterpreter`, `AllocateTensors`,
`GetInput`, `CopyInput`, `Invoke`, `GetOutput`), and the loop over the scores is
one action per iteration.  A model file is known by the sizes of its input and
output tensors (`InBytes`, `OutBytes`), the only things the code looks at.

Undefined behaviour is a choice: a copy into a tensor without memory, and
reading score 0 of an output too small for a float, may end the process or go
on with any value.

The C API is modelled from its source in `tflite_c/`.  In particular
`TfLiteTensorCopyFromBuffer` rejects every size but the exact one, so that the
guard `length * sizeof(int16_t) > input_bytes` (`ffi_plugin.cpp:73`) lets shorter
buffers through only to have them rejected afterwards: one length succeeds, all
others return -1.  (`voice_service.dart:169` passes 16000 samples, 32000 bytes;
the input tensors of the three shipped models have 16384 and 4096 bytes, so with
these assets every inference ends at the size check with -1.)

`Engine` has one variable for what the pointers amount to: `empty`, a `model`
without interpreter, a `broken` interpreter without tensors, `ready`, or
`crashed`.

### VoiceService

Dart runs one event at a time, so the code between two awaits is one action.  An
await of a file operation is two actions: its effect on the I/O thread
(`IoEffect`) and, any time later, the rest of the coroutine (`Resume`).  An await
that only waits for the microtask queue ends no action.  Each activation of
`initModel`, `switchModel` or `dispose` is a record in `task` with its local
variables: the asset fixed at the beginning, the path fixed after the asset has
been loaded.

`writeAsBytes` opens (creating or truncating) and then writes.  `linked` says
whether the file a task has open still has its name: deleting a file takes the
name away and leaves the open file and the mapping.  `mapping` is the named file
the engine has mapped, `intact` whether it has kept its contents.

`loadFfiEngine` is one action per path it looks at (`FfiProbe`), each of which may
be missing; the first file found decides, and opening it may fail (`FfiDone`).

`Service` has what a screen can see: `loaded`, `selected`, `listening`, `result`.
`Promised` maps the service's state to it: a model is loaded when the engine is
`ready`.  Answers are left out, because the service does not keep the obvious
promise about them (`app_retry`).

`runInferenceAsync` is `Future(() => ...)`: a timer's event queues another event
for the native call, so that between the two a model may be unloaded or
listening may stop (`pending`).

Two things are left to the environment: a file operation may fail
(`IoFailures`), the delete of a file that is there included, which
`voice_service.dart:123` and `:191` make outside any try; and the process may die
at any moment (`Restart`), leaving its temporary files as they are.

### App

`RootScreen` shows one screen at a time; leaving a tab disposes its State.
`awaiting` holds the switches whose `onTap` still has its State.  When a switch
answers, the rest of `onTap` runs in the same event (`ResumeTask`), with or
without a State to show its message on.

`App` uses the service's actions unchanged.  Its bounds on inits and disposal
are the code's: `RootScreen` calls `initModel` once and nobody calls `dispose`.

### PerformanceScreen

The metric's timestamp is the number of the tick that made it, so that the
properties can say which frames a list holds.  Averages, minimum and maximum are
arithmetic on the list and left out.

### MemoryPlanner, Subgraph

A graph has nodes in execution order; a node has inputs, one output and
temporaries, and an operator of one of four kinds: `plain`; `unmodified`, which
passes its data on (RESHAPE); `modified`, which may write over an input (ADD); and
`dynamic`, which sizes its output when it runs.  A tensor is a number of bytes, an
allocation type (arena or dynamic) and a pointer: null, on the heap, or an offset
into the arena's buffer together with the number of times the buffer has moved.

The loop of `SimpleMemoryArena::Allocate` takes one action per turn (`Visit`); the
tensors of one `ExecuteAllocations` are placed one after the other in the order of
`CreateTensorAllocationVector`.  Tensors the order leaves equal are placed in any
order, which covers every `std::sort`.  A buffer that grows always moves: the code
asks for a move whenever the pointer changed, and this is the harder case.

`AllocateTensors` prepares nodes up to the first dynamic one and places what it
prepared; `Invoke` prepares and places the rest when it gets there.  A dynamic
output that changes its shape sends `nextPrepare` and `nextPlan` back, and
`ResetAllocationsAfter` drops what lies behind; a new shape may have the old size,
and then too a tensor of the arena loses its pointer.  Prepare, execution and
therefore `Invoke` may fail at every node, with the failing node's tensors resized
by then or not, and the plugin invokes again.

`intact` is a history variable: the tensors that still hold what was last written
to them.  Executing a node takes away those that overlap with what it writes.

Modelled is the arena for `kTfLiteArenaRw` tensors; the arena of persistent tensors
and variable tensors are not, nor is a plan with delegates: a build that hands
nodes to XNNPACK has one node in their place.

### Win32Window

One thread; `stack` holds the labels of the calls in progress, because
`DestroyWindow` calls `WndProc` before it returns.  `object` is the dynamic type of
the window: once `~FlutterWindow` has run, virtual calls reach `Win32Window`.
Messages may be posted whenever the window exists.

Start-up may fail in four ways.  `RegisterClass` fails, and `class_registered_` is
set all the same (`win32_window.cpp:103`); creation fails at once, as it must
without a class; it fails after `WM_NCCREATE`, whose handler has set
`window_handle_` (`:168`), with `WM_DESTROY` or without, and in the latter case the
handle of a window that is gone stays in the object (`:143`); or the controller
comes without an engine or a view.

Of Win32 and Flutter it is assumed that messages reach the window only from
`GetMessage`, for `WM_NCCREATE` from `CreateWindow`, and for `WM_DESTROY` from
`DestroyWindow` and from a creation that fails (so a `WM_FONTCHANGE` sent while
one of these calls is running is not covered); that a window whose creation failed
is gone, and its handle not given to another one at once; that `UnregisterClass`
refuses while a window of the class exists; and that `HandleTopLevelWindowProc`
does not consume `WM_DESTROY`.  Theme, DPI and layout are left out.

## 3. What is checked

| Run | Bounds | Shows |
|---|---|---|
| `engine` | three files (exact floats; 9 output bytes; 3 output bytes), lengths -1..5, scores 1..3 and NaN, four addresses | `TypeOK`, `Ownership`, `LoadReport`, `ArgMax`, `CallReturns`, `EngineRefinement` |
| `service_sequential` | one task, three model types, three library paths, I/O failures, two timers, two queued inferences, restarts | `TimerHandle`, `FileOutlivesModel`, `LoadedIsSelected`, `SwitchAnswers`, `DisposeReleases`, `ResultLabel`, `ServiceRefinement` |
| `service_overlap` | two overlapping tasks, two library paths, `setModelType` with a valid and an invalid type, I/O failures, restarts | `TypeOK`, `ServiceBacked`, `TrackedMapping`, `CallsReturn` |
| `app` | one switch at a time, I/O failures, two timers, one queued inference, one command and two classes | `AppTypeOK`, `UiTimerMounted`, `SwitchAnnounced`, `ChangedIsLoaded` |
| `performance` | list of 3, chart of 2, 6 ticks, two timer identities | `SingleTimer`, `Window`, `Chart` |
| `subgraph` | seven graphs of four nodes, tensors of 20 or 100 bytes, alignment 64 | `NoOverlap`, `Tracked`, `OperandsIntact`, `ResultIntact`, `PointersCurrent` |
| `runner` | three kinds of messages, three waiting at once | `HandleTruth`, `DispatchReady`, `ClassTruth`, `EndsClean`, `CloseQuits` |

Why the bounds are enough.  The engine holds three objects at most, so a fourth
address is there for a leak to use; the lengths are below, at and above every
input size; three scores and NaN order in every way.  Two tasks are the smallest
number that overlap, and each await of one interleaves with all of the other.
Two timers are one more than a handle can hold.  `service_overlap` has no
listening: timers touch none of the variables its properties speak of, and
`service_sequential` has them.  `service_sequential` has no `setModelType`, which
selects a type without loading it and so breaks `LoadedIsSelected` by itself
(the Reset button does just that).  Six ticks fill a list of three twice.

The graphs of `subgraph` are a diamond, operands that outlive a resize, reshapes
and in-place operators before and after dynamic nodes, one or two dynamic nodes,
and a temporary in each; four nodes let a tensor
die, its bytes be reused and the reuse be planned again.  20 and 100 bytes lie
below and above one alignment unit of 64, so that gaps of both kinds appear, and
above `kScalarTensorBytes`.  Any number of `Invoke`s follow each other, since
nothing counts them.  In `runner` every message waits behind every other, and the
number of windows is the program's: one.

What each property is about:

* `Ownership` - every pointer is null or refers to a live object of its type,
  and every live object has its pointer, at every statement of every error path.
* `LoadReport` - 1 is returned exactly when `run_inference` would now work on
  tensors of the requested file.
* `ArgMax` - the first maximum wins; a NaN in first place hides all the others
  (`>` is false for it), a later one is skipped.
* `TimerHandle` - the service listens exactly when its handle holds a live
  timer.
* `FileOutlivesModel` - the file of a loaded model is neither removed nor
  opened for writing.
* `LoadedIsSelected` - also after failed switches and restarts on old files.
* `SwitchAnswers`, `DisposeReleases` - for one call at a time.  The only exception
  that leaves either is that of a file that could not be deleted, and then the call
  can be made again: the old type, its file and the flag are as they were.
  Otherwise a switch answers and has selected its type, and a `dispose` has left
  nothing loaded and no file.
* `ServiceBacked`, `TrackedMapping` - what survives overlapping calls: an
  initialised service has bindings and a file, and the mapped file is the one
  the next switch removes.
* `CallReturns`, `CallsReturn` - every call, on every path through its exceptions,
  comes back.
* `SwitchAnnounced` - a tap on a model is answered with one of its own messages,
  "changed" or "error".  Excused are a user who leaves the screen, and the one
  exception that `switchModel` lets through, that of a failing delete: then nothing
  is shown.
* `ChangedIsLoaded` - "changed", after a switch that had to wait, means that the
  model tapped is ready, also when Reset has named another type in the meantime.
  (A switch that need not wait is that of `app_retry`.)
* `ResultLabel` - the model named beside a result has computed it, although the
  inference was queued before a switch.
* `ServiceRefinement` - a type is selected only when nothing is loaded, only the
  selected type is loaded, and results come from the model loaded then.
* `NoOverlap` - allocations with a common node in their lifetimes have no common
  byte, placed at once or in stages.
* `Tracked` - the arena has not forgotten any tensor that will be needed when the
  next ones are placed.  `arena_planner.cc:516` says that purging "has no impact
  on the results"; this is the reason.
* `OperandsIntact`, `ResultIntact` - what a node, and at the end the plugin, reads
  is what was written, sharing included.
* `PointersCurrent` - no pointer into a buffer that has moved away.
* `HandleTruth` - where the program uses `window_handle_` it is that of the window;
  the handle of a window whose creation failed only meets the destructors, and is
  null at the end.
* `ClassTruth` - flag and system agree whenever `wWinMain` itself is running, unless
  `RegisterClass` has failed; then there is no window, and the only way is out.
* `DispatchReady`, `EndsClean` - a message from the loop finds an engine, and nothing
  is left at the end, whichever step of the start-up failed.
* `CloseQuits` - once the window is gone the message loop ends.
* `UiTimerMounted`, `SingleTimer` - timers of screens end with their State.
* `Window`, `Chart` - the list and the bars are exactly the last frames counted.

### Fairness

* `FfiPlugin`: weak fairness of the steps of a function that has been called.
  A C function runs until it returns; nothing in it waits.
* `VoiceService`, `App`: weak fairness, per task, of the I/O thread and the event
  loop.  Dart's I/O pool serves its queue and the loop runs its events.  No
  client is forced to call, no user to tap and no timer to fire.

* `Win32Window`: weak fairness of the thread, which waits only in `GetMessage`.
  Nobody has to post a message.

Deadlock is checked in every run but `runner`, whose program ends.

### Disagreements

Five runs show the program doing other than what it says.  Each checks one
property and finds it violated.

| Run | Property | What happens |
|---|---|---|
| `engine_unallocated` | `AllocatedBeforeUse` | `AllocateTensors` fails, `load_model` returns 0 and keeps the interpreter; `run_inference` asks only for an interpreter and copies into tensors without memory. The C API requires allocation first (`c_api.h:310`). |
| `app_rewrite` | `MappedFileIntact` | Two taps overlap; the second switch names its file after the type the first one selected and truncates the file that is mapped. The C API forbids it (`c_api.h:198`). |
| `app_retry` | `SwitchTruth` | A failed switch has selected its type; the next tap on it answers "changed" with nothing loaded. |
| `app_stop` | `StopSilences` | Leave the home screen while listening, come back and press the button: a second timer replaces the handle of the first, which no stop cancels any more. |
| `subgraph_alias` | `OperandsIntact` | x is reshaped to y, y to y2, and an ADD takes y2's place. The planner asks for one reference to y2 and one to x, and both have one; y, on the same bytes, is read afterwards and holds the sum. `arena_planner.cc:154` and `core/c/common.h:1088` say this is excluded. |

The App runs for these use the smallest instance that shows them; those that are
about failures and taps alone leave Reset out, so that it cannot be the cause.

More were noticed and have no run.  Of two overlapping switches both find the old
file, and the second delete throws out of `switchModel` (`voice_service.dart:123`).
An `initModel` that loads while `dispose` awaits its delete leaves a model behind in
a service that is not initialised; nobody calls `dispose`.  A delete that fails in a
switch leaves the user without a message and the service without a model.
`win32_window.h:49` says of `GetHandle` "Returns nullptr if the window has been
destroyed"; after a creation that fails past `WM_NCCREATE` it would return the
handle of the window that is gone, if anybody asked.
Reset selects INT8 without loading it (`settings_screen.dart:118`), and the side
bar shows it as the current model.  A user who leaves the settings screen during a
switch makes `onTap` go on without its State and throw (`settings_screen.dart:139`).
Apply says "settings saved" and saves
nothing, and the permission is a field of a State that goes with its tab.  The
home screen's flag starts as false and flips by itself, so that it may say
"listening" while the service is not, or the reverse.

## 4. What is proved

`FfiPluginProofs`, for every set of files with every tensor size, every heap,
every set of lengths and of integer scores:

| Theorem | States |
|---|---|
| `Inductive` | `Spec => []IInv` |
| `TypeCorrect` | `Spec => []TypeOK` |
| `NoLeakNoDangling` | `Spec => []Ownership` |
| `LoadReportCorrect` | `Spec => []LoadReport` |
| `ArgMaxCorrect` | `Spec => []ArgMax` |
| `Refinement` | `Spec => EngineRefinement`: the detailed engine implements `Engine` |

Assumptions: `FileAssumption` (the null path is no file; tensor sizes are
natural numbers), `HeapAssumption` (null is no address), `ScoreAssumption` (NaN
is no number), `LengthAssumption` (lengths are integers).

None of the invariants is inductive alone.  `IInv` adds:

* `LoadShape` - which pointers are null at each label of `load_model`.  Without
  it `CreateModel` might overwrite a pointer and leak.
* `FromFile` - models and interpreters come from a file, so that their tensor
  sizes exist.
* `RunShape`, `RunSizes` - what `run_inference` has established so far: it has
  an interpreter, the length is exact, the tensors are allocated.  The refinement
  of its last step needs all of it.
* `ScanInv` - the loop invariant: before iteration `i`, `max_index` is the
  arg-max of the first `i` scores.

The refinement maps the pointers to what they amount to (`engineBar`).  From the
first delete to the return nothing usable is held, so all of these labels map to
`Empty`; the abstract `GiveUp` is the step out of `CheckPath`.  `callBar` forgets
the call once it has returned, `argBar` is the path or the length.

`PerformanceScreenProofs`, for every capacity and every chart size up to it:
`TimerCorrect` (`SingleTimer`), `WindowCorrect` (`Window`) and `ChartCorrect`
(`Chart`), from `WindowAssumption` and `NullAssumption`.  The inductive invariant
adds types and `LastTick`: the last frame is one tick old, which is what makes
the next one follow it without a gap.  That in turn needs `SingleTimer`: every
tick makes a frame.  `Chart` is no invariant to be kept but follows from
`Window` by what `takeLast` returns (`TakeLastEnd`).

`VoiceServiceProofs`, for any number of overlapping calls, every set of model
types and tensor sizes, every number of library paths, and with restarts at any
moment:

| Theorem | States |
|---|---|
| `Inductive` | `Spec => []IInv` |
| `TypeCorrect` | `Spec => []TypeOK` |
| `Backed` | `Spec => []ServiceBacked` |
| `MappingTracked` | `Spec => []TrackedMapping` |
| `TimerCorrect` | `Spec => []TimerHandle` |

Assumptions: `FileAssumption`, `TypeAssumption` (the default type and the types
clients switch to are known; the bounds are natural numbers) and
`NullAssumption` (null is no timer).  `IInv` adds what the four invariants need
of the other coroutines:

* `TaskOK` - what a coroutine knows at each label: the type it switches to, the
  asset it reads, and from `AssetDone` on the file it writes.  Without it
  `LengthDone` might remember a file that was never chosen.
* `BindingsFirst` - nobody gets past `_initFfi` before the bindings are
  assigned.  `dispose` resets `_ffiInitialized` and not the bindings, so a
  coroutine it overtakes still has them; that is why an overtaken `initModel` can
  set `_isInitialized` again and `ServiceBacked` still holds.
* `EngineFromFile` - an interpreter was made from a file, so that the classes
  `run_inference` returns are numbers.

`SequentialProofs`, for clients that make one call at a time
(`OneCallAtATime`: one task, `initModel` at most once per process, no
`setModelType`), for every set of model types and tensor sizes, with every file,
asset and library failing or not, and with restarts at any moment:

| Theorem | States |
|---|---|
| `SeqInductive` | `Spec => []SeqInv` |
| `FileOutlives` | `Spec => []FileOutlivesModel` |
| `SelectedLoaded` | `Spec => []LoadedIsSelected` |
| `SwitchCorrect` | `Spec => []SwitchAnswers` |
| `DisposeCorrect` | `Spec => []DisposeReleases` |
| `ResultLabelled` | `Spec => ResultLabel` |
| `ServiceRefined` | `Spec => ServiceRefinement`: the service implements `Service` |

The hypothesis is what the properties need: two overlapping calls break
`FileOutlivesModel` (run `app_rewrite`), and `setModelType` breaks
`LoadedIsSelected`.  To the assumptions of `VoiceServiceProofs` comes
`ContentsAssumption` (a model type is neither "absent" nor "partial", the other
two things a file can hold).  `SeqInv` extends `IInv` by what the one coroutine
knows:

* `CallOK` - a call that is waiting has nothing loaded: `switchModel` and
  `dispose` unload before their first await, and `initModel` loads in its last
  step.  This carries `FileOutlivesModel` through every write and delete.
* `RemovalOK` - the file being removed is still `_currentModelFile`, and what
  the I/O thread said about it (it exists, it is deleted, it could not be deleted)
  is still true when the coroutine goes on: this is why an exception means that the
  file is there.
* `InitialisationOK` - asset, path and contents are those of the selected type,
  although the asset is fixed before the awaits and the path after them, and for a
  switch that is the type it was asked for.
* `NothingYet`, `NothingUnbound` - before the first `initModel` there is no file
  and nothing initialised, and without bindings no inference is queued.

The refinement has one lemma per action: most steps stutter; unloading, selecting,
loading, listening, an inference and a crash are the steps of `Service`.

`AppProofs`, for any number of overlapping taps: `AppTypeCorrect` (`AppTypeOK`),
`UiTimerCorrect` (`UiTimerMounted`) and `AppServiceCorrect`, which says that
`ServiceBacked`, `TrackedMapping` and `TimerHandle` hold with the screens as the
client.  `AppInv` is `IInv` of the service with the two invariants of the screens;
each tap is shown to be a call the service's lemmas are about, or to leave it
alone.  `CommandsAssumption`: the number of commands is a natural number.

`Win32WindowProofs`, for every set of messages and every length of the queue:

| Theorem | States |
|---|---|
| `Inductive` | `Spec => []IInv` |
| `HandleCorrect` | `Spec => []HandleTruth` |
| `DispatchCorrect` | `Spec => []DispatchReady` |
| `ClassCorrect` | `Spec => []ClassTruth` |
| `EndCorrect` | `Spec => []EndsClean` |

`IInv` is a table: one row per stack of calls that can be in progress, with the
values all other variables have then (`Starting`, `Failing`, `Looping`, `Ending`),
together with `QueueOwned`, by which only an existing window has messages waiting.
`Failing` has the rows of a creation that fails after `WM_NCCREATE`, with the
`WM_DESTROY` it may send.  The rows show the re-entrance: in `Ending` the `Destroy` called from `WM_DESTROY` finds
the count of windows at zero while the window still exists, so that its attempt to
unregister the class fails, and the outer one repeats it.  `RunnerAssumption`: the
messages are the window's own, and the bound of the queue is a natural number.

`SubgraphProofs`, for every graph, every set of sizes and every alignment, however
often `Invoke` resizes outputs or fails:

| Theorem | States |
|---|---|
| `ArenaInductive` | `Spec => []ArenaInv` |
| `ArenaDisjoint` | `Spec => []NoOverlap` |
| `ArenaTracked` | `Spec => []Tracked` |
| `PointerInductive` | `Spec => []PointerInv` |
| `PointersCorrect` | `Spec => []PointersCurrent` |

Assumptions: `PlannerAssumption` (tensors and sizes are natural numbers, there is
a node, the alignment is not zero) and `GraphAssumption`: a tensor has one
producer, an operator that passes its data on has an input, and the operators are
in execution order, which the schema of model files demands ("All operators, in
execution order", `schema.fbs:1601`).

`ArenaInv` adds to `NoOverlap` and `Tracked`:

* `ScanOK` - the loop invariant of `Allocate`: nothing that is needed at the same
  time lies in the best gap found, and what was visited and is needed at the same
  time ends at or before `current`, unless the loop was left early.  It needs the
  active allocations to be visited by offset.
* `Stages`, `Planner` - how `nextPrepare`, `nextPlan`, `prep`, `node` and
  `lastActive` follow each other at each stage.  Without them a purge might drop
  what is still needed, or a reset keep what is not.
* `PlacedOK`, `PendingOK` - what is placed, and what is to be placed, belongs to
  nodes that have been prepared, or that are being placed now.
* `WithinBuffer` - the buffer covers the arena once it is committed.

`PointerInv` is about the tensors that `Commit` gives no new pointer to:

* `Movable` - a tensor without memory of its own has a pointer into the arena only
  if what it lies on is in the arena; a tensor that is not in the arena has none.
* `Recognised` - the outputs that are sized at run time have been taken out of the
  arena up to the node prepared next, and no others.  So a tensor that keeps its
  place on another lies on one that stays in the arena.
* `Sharing` - what `actual_tensor_id_` is: a tensor stands for itself, or is the
  output of a node and stands for a tensor that stands for itself and is not
  computed later.  That `IdentifyInPlaceTensors` computes such a sharing from every
  graph (`InPlaceOK`) is an induction over the nodes.  It is made with a least
  counterexample (`Least`, `Induction`, from the well-foundedness of the natural
  numbers), with the property as a set.

`ContentsProofs`, for every graph whose in-place operators only pass their data on
(`PassingOn`), every set of sizes and every alignment, however often `Invoke`
resizes outputs or fails:

| Theorem | States |
|---|---|
| `ContentsInductive` | `Spec => []ContentsInv` |
| `OperandsCorrect` | `Spec => []OperandsIntact` |
| `ResultCorrect` | `Spec => []ResultIntact` |

`PassingOn` excludes operators that modify an input in place, because with them
`OperandsIntact` does not hold for every graph (run `subgraph_alias`).  It also says
what is true of a graph that can be run: an input of a node is an input of the
graph or the output of a node, and so is an output of the graph; nobody computes an
input of the graph, and temporaries are neither inputs nor outputs.  Four of the
graphs of `MCSubgraph` satisfy it, the one with a RESHAPE whose input is read after a resize
among them.  `ContentsInv` follows what is computed through a whole `Invoke`:

* `Computed` - what has been computed and is still read, by a later node or by the
  caller, is intact, and outputs that were sized at run time have their memory.
* `Passing` - a tensor that lies on another is the output of an operator that passes
  its data on, and lies where the input of that operator lies, or on a tensor that
  turns out to be dynamic.  For `IdentifyInPlaceTensors` this is again an induction
  over the nodes (`InPlacePassing`).
* `LifeOK` - `dealloc_node_` of what a tensor lies on is not before the last reader
  of the tensor, under whichever name it is read; a sharing that is given up leaves
  a lifetime without end.  Lifetimes are planned once, and sharings are given up
  later: this is what makes the old lifetimes still good.
* `SizePassed` - data that is passed on keeps its size, so a planned sharing is given
  up only because of a dynamic tensor.  Over several operators this is an induction
  (`SameSize`).
* `Settled`, `Unplaced`, `LoopOK`, `DataOK` - which tensors have been placed at each
  moment of `ExecuteAllocations`, with their size and lifetime of now, and that the
  pointers lead there.

A node then spares what is still needed (`Survives`): tensors that lie on different
ones are apart by `NoOverlap`, since the lifetimes of both contain the node
(`Separate`), and an output that lies on a needed tensor has taken the place of its
input, to which the operator copies nothing (`OutPassed`).

The inductive invariants were checked with TLC before they were proved: `IInv`,
`SeqInv`, `AppInv`, `ArenaInv` and `PointerInv` on the instances of the runs,
`ContentsInv` on eight graphs that satisfy `PassingOn`.

Only model-checked: the liveness properties (`CallReturns`, `CallsReturn`,
`SwitchAnnounced`, `CloseQuits`), which are out of the prover's reach, and
`OperandsIntact` and `ResultIntact` for graphs with operators that modify an input
in place.

## 5. What is not modelled

* Generated bindings: they look up symbols and forward calls.
* `model_loader.dart`: nothing calls it.
* Widgets, theme and layout; wording and logging.
* Runners for Linux, Aurora, macOS and iOS: start-up glue of the Flutter
  templates, straight-line calls of a toolkit.
* Vendored TensorFlow, 1.8 million lines, beyond the C API calls the plugin makes,
  the memory planner and the subgraph's allocation and invocation.  Kernels are
  numerical; delegates, converters and compilers are not reached by the plugin's
  calls or belong to other programs.  The plugin links a prebuilt library.
* In `Subgraph`: what an operator remembers from Prepare besides the sizes of its
  tensors.  A node that resizes its output and then fails (`subgraph.cc:1761`)
  leaves the nodes behind it prepared for the old shape; the model sees only the
  sizes.
* A null buffer handed to `run_inference` (`ffi_plugin.cpp:65`): it is turned away as
  a length of zero is, which the model has.
* In `Subgraph`: a Prepare that fails between retyping its output as dynamic and
  resizing a temporary; the model does both or neither.
* Out of memory: allocations of the plugin and of the C API succeed.
* `length * sizeof(int16_t)` is computed without overflow.  It could overflow
  only where `size_t` has 32 bits, with a buffer of 2 GiB.
* Wall-clock time: timers fire at any moment, so no property depends on the
  periods.
* `audioLevel`, which is always 0.

## 6. Plan

1. Done: all modules, and proofs of every safety property the runs check.
2. `OperandsIntact` and `ResultIntact` also for graphs with operators that modify an
   input in place, as long as no third name of the memory is read afterwards: weaken
   `PassingOn` to exclude the graphs of `subgraph_alias` only, and let `Passing` and
   `Survives` speak of the last name instead of all.
