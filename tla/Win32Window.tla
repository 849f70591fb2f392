---------------------------- MODULE Win32Window -----------------------------
(***************************************************************************)
(* The Windows runner: wWinMain (windows/runner/main.cpp) creates a        *)
(* FlutterWindow (flutter_window.cpp, win32_window.cpp), dispatches        *)
(* messages to it and destroys it.  Everything runs on one thread; what is *)
(* hard is that the system calls back: DestroyWindow sends WM_DESTROY,     *)
(* whose handler calls Destroy, which may be what called DestroyWindow,    *)
(* and this may happen inside the destructor of the base class.  Hence the *)
(* explicit call stack.                                                    *)
(***************************************************************************)
EXTENDS Integers, Sequences

CONSTANTS
    Message,        \* messages posted to the window
    MaxQueue        \* bound on the messages that wait

ASSUME RunnerAssumption ==
    /\ Message \subseteq {"WM_CLOSE", "WM_FONTCHANGE", "WM_SIZE"}
    /\ MaxQueue \in Nat

VARIABLES
    stack,              \* labels of the calls in progress, innermost first
    object,             \* which class `window` is: "none" before and after
    count,              \* g_active_window_count
    class_registered,   \* class_registered_
    os_class,           \* the class is known to the system
    os_window,          \* the system's window exists
    handle,             \* window_handle_ is not null
    controller,         \* flutter_controller_: "none", "broken" or "ready"
    quit_on_close,      \* quit_on_close_
    quit,               \* WM_QUIT was posted
    queue               \* messages that wait for the window

vars == <<stack, object, count, class_registered, os_class, os_window,
          handle, controller, quit_on_close, quit, queue>>

Init ==
    /\ stack = <<"construct">>
    /\ object = "none"
    /\ count = 0
    /\ class_registered = FALSE
    /\ os_class = FALSE
    /\ os_window = FALSE
    /\ handle = FALSE
    /\ controller = "none"
    /\ quit_on_close = FALSE
    /\ quit = FALSE
    /\ queue = <<>>

At(label) == stack # <<>> /\ Head(stack) = label
Goto(label) == stack' = <<label>> \o Tail(stack)
Call(label, return) == stack' = <<label, return>> \o Tail(stack)
Leave == stack' = Tail(stack)

-----------------------------------------------------------------------------
(* wWinMain.                                                               *)

Construct ==
    /\ At("construct")
    /\ object' = "flutter"
    /\ count' = count + 1
    /\ Call("Destroy", "GetWindowClass")
    /\ UNCHANGED <<class_registered, os_class, os_window, handle, controller,
                   quit_on_close, quit, queue>>

(* Create after its own call of Destroy.  Whether RegisterClass succeeds   *)
(* is not looked at: the flag is set in either case.                       *)
GetWindowClass ==
    /\ At("GetWindowClass")
    /\ IF class_registered
       THEN UNCHANGED <<class_registered, os_class>>
       ELSE class_registered' = TRUE /\ os_class' \in BOOLEAN
    /\ Goto("CreateWindow")
    /\ UNCHANGED <<object, count, os_window, handle, controller,
                   quit_on_close, quit, queue>>

(* The system's CreateWindow fails at once, as it must for a class it does *)
(* not know, or makes a window and sends it WM_NCCREATE.                   *)
CreateWindow ==
    /\ At("CreateWindow")
    /\ \/ /\ Goto("~FlutterWindow")
          /\ UNCHANGED os_window
       \/ /\ os_class
          /\ os_window' = TRUE
          /\ Call("WM_NCCREATE", "CreateWindowReturns")
    /\ UNCHANGED <<object, count, class_registered, os_class, handle,
                   controller, quit_on_close, quit, queue>>

(* WndProc on the first message of a window.                               *)
WmNcCreate ==
    /\ At("WM_NCCREATE")
    /\ handle' = TRUE
    /\ Leave
    /\ UNCHANGED <<object, count, class_registered, os_class, os_window,
                   controller, quit_on_close, quit, queue>>

(* Creation goes on to OnCreate, or fails after WM_NCCREATE: the system    *)
(* takes the window back, with or without WM_DESTROY.                      *)
CreateWindowReturns ==
    /\ At("CreateWindowReturns")
    /\ \/ Goto("OnCreate")
       \/ Goto("CreateFailed")
       \/ Call("WM_DESTROY", "CreateFailed")
    /\ UNCHANGED <<object, count, class_registered, os_class, os_window,
                   handle, controller, quit_on_close, quit, queue>>

CreateFailed_Unchecked ==
    /\ At("CreateFailed")
    /\ os_window' = FALSE
    /\ queue' = <<>>
    /\ Goto("OnCreate")
    /\ UNCHANGED <<object, count, class_registered, os_class, handle,
                   controller, quit_on_close, quit>>

(* CreateWindow has returned null and Create returns false.  Without       *)
(* WM_DESTROY, window_handle_ still names the window that is gone.         *)
CreateFailed ==
    /\ At("CreateFailed")
    /\ os_window' = FALSE
    /\ queue' = <<>>
    /\ Goto("~FlutterWindow")
    /\ UNCHANGED <<object, count, class_registered, os_class, handle,
                   controller, quit_on_close, quit>>

(* A controller without engine or view is kept, and Create returns false.  *)
OnCreate_Unchecked ==
    /\ At("OnCreate")
    /\ controller' \in {"ready", "broken"}
    /\ Goto("SetQuitOnClose")
    /\ UNCHANGED <<object, count, class_registered, os_class, os_window,
                   handle, quit_on_close, quit, queue>>

OnCreate ==
    /\ At("OnCreate")
    /\ \/ /\ controller' = "ready"
          /\ Goto("SetQuitOnClose")
       \/ /\ controller' = "broken"
          /\ Goto("~FlutterWindow")
    /\ UNCHANGED <<object, count, class_registered, os_class, os_window,
                   handle, quit_on_close, quit, queue>>

SetQuitOnClose_Forgotten ==
    /\ At("SetQuitOnClose")
    /\ Goto("GetMessage")
    /\ UNCHANGED <<object, count, class_registered, os_class, os_window,
                   handle, controller, quit_on_close, quit, queue>>

SetQuitOnClose ==
    /\ At("SetQuitOnClose")
    /\ quit_on_close' = TRUE
    /\ Goto("GetMessage")
    /\ UNCHANGED <<object, count, class_registered, os_class, os_window,
                   handle, controller, quit, queue>>

(* GetMessage returns 0 for WM_QUIT, which comes after all other messages. *)
GetQuit ==
    /\ At("GetMessage")
    /\ queue = <<>>
    /\ quit
    /\ Goto("~FlutterWindow")
    /\ UNCHANGED <<object, count, class_registered, os_class, os_window,
                   handle, controller, quit_on_close, quit, queue>>

(* FlutterWindow::MessageHandler: the controller may answer a message, the *)
(* rest goes to the switch and to DefWindowProc, which destroys the window *)
(* on WM_CLOSE.  The other messages change nothing that is modelled.       *)
Dispatch ==
    /\ At("GetMessage")
    /\ queue # <<>>
    /\ queue' = Tail(queue)
    /\ \/ UNCHANGED stack
       \/ /\ Head(queue) = "WM_CLOSE"
          /\ Call("WM_DESTROY", "DestroyWindowReturns")
    /\ UNCHANGED <<object, count, class_registered, os_class, os_window,
                   handle, controller, quit_on_close, quit>>

-----------------------------------------------------------------------------
(* Messages and destruction.                                               *)

(* MessageHandler on WM_DESTROY.                                           *)
WmDestroy ==
    /\ At("WM_DESTROY")
    /\ handle' = FALSE
    /\ Call("Destroy", "PostQuitMessage")
    /\ UNCHANGED <<object, count, class_registered, os_class, os_window,
                   controller, quit_on_close, quit, queue>>

PostQuitMessage ==
    /\ At("PostQuitMessage")
    /\ quit' = (quit \/ quit_on_close)
    /\ Leave
    /\ UNCHANGED <<object, count, class_registered, os_class, os_window,
                   handle, controller, quit_on_close, queue>>

(* The window is gone, with the messages that waited for it; DefWindowProc *)
(* returns.                                                                *)
DestroyWindowReturns ==
    /\ At("DestroyWindowReturns")
    /\ os_window' = FALSE
    /\ queue' = <<>>
    /\ Goto("GetMessage")
    /\ UNCHANGED <<object, count, class_registered, os_class, handle,
                   controller, quit_on_close, quit>>

(* Destroy: OnDestroy is FlutterWindow's as long as the object is one.     *)
(* DestroyWindow sends WM_DESTROY to a window that exists, and does        *)
(* nothing for a handle whose window is gone.                              *)
Destroy ==
    /\ At("Destroy")
    /\ controller' = IF object = "flutter" THEN "none" ELSE controller
    /\ \/ /\ handle /\ os_window
          /\ Call("WM_DESTROY", "Destroyed")
       \/ /\ handle /\ ~os_window
          /\ Goto("Destroyed")
       \/ /\ ~handle
          /\ Goto("Unregister")
    /\ UNCHANGED <<object, count, class_registered, os_class, os_window,
                   handle, quit_on_close, quit, queue>>

(* DestroyWindow has returned to Destroy.                                  *)
Destroyed ==
    /\ At("Destroyed")
    /\ os_window' = FALSE
    /\ queue' = <<>>
    /\ handle' = FALSE
    /\ Goto("Unregister")
    /\ UNCHANGED <<object, count, class_registered, os_class, controller,
                   quit_on_close, quit>>

LastWindow_OffByOne == count <= 1

LastWindow == count = 0

(* The system refuses to forget a class that has windows.                  *)
Unregister ==
    /\ At("Unregister")
    /\ IF LastWindow
       THEN /\ class_registered' = FALSE
            /\ os_class' = (os_class /\ os_window)
       ELSE UNCHANGED <<class_registered, os_class>>
    /\ Leave
    /\ UNCHANGED <<object, count, os_window, handle, controller,
                   quit_on_close, quit, queue>>

(* ~FlutterWindow destroys the controller, then the object is a            *)
(* Win32Window, whose destructor counts down and calls Destroy.            *)
Destruct_Uncounted ==
    /\ At("~FlutterWindow")
    /\ object' = "base"
    /\ controller' = "none"
    /\ Call("Destroy", "return")
    /\ UNCHANGED <<count, class_registered, os_class, os_window, handle,
                   quit_on_close, quit, queue>>

Destruct ==
    /\ At("~FlutterWindow")
    /\ object' = "base"
    /\ controller' = "none"
    /\ count' = count - 1
    /\ Call("Destroy", "return")
    /\ UNCHANGED <<class_registered, os_class, os_window, handle,
                   quit_on_close, quit, queue>>

Return ==
    /\ At("return")
    /\ object' = "none"
    /\ Leave
    /\ UNCHANGED <<count, class_registered, os_class, os_window, handle,
                   controller, quit_on_close, quit, queue>>

Program ==
    \/ Construct
    \/ GetWindowClass
    \/ CreateWindow
    \/ WmNcCreate
    \/ CreateWindowReturns
    \/ CreateFailed
    \/ OnCreate
    \/ SetQuitOnClose
    \/ GetQuit
    \/ Dispatch
    \/ WmDestroy
    \/ PostQuitMessage
    \/ DestroyWindowReturns
    \/ Destroy
    \/ Destroyed
    \/ Unregister
    \/ Destruct
    \/ Return

(* Other programs, the user and the system post to a window that exists.   *)
Post(m) ==
    /\ os_window
    /\ Len(queue) < MaxQueue
    /\ queue' = Append(queue, m)
    /\ UNCHANGED <<stack, object, count, class_registered, os_class,
                   os_window, handle, controller, quit_on_close, quit>>

Next ==
    \/ Program
    \/ \E m \in Message : Post(m)

(* The thread goes on as long as it is not waiting in GetMessage.          *)
Spec == Init /\ [][Next]_vars /\ WF_vars(Program)

-----------------------------------------------------------------------------
(***************************************************************************)
(* Properties.                                                             *)
(***************************************************************************)

(* Where the object uses window_handle_ (GetClientArea, SetChildContent,   *)
(* Show, DefWindowProc) it is that of the window, or null once the window  *)
(* was destroyed.  A handle whose window is gone (creation failed after    *)
(* WM_NCCREATE) only meets the destructors.                                *)
HandleTruth ==
    /\ At("OnCreate") \/ At("SetQuitOnClose") => handle /\ os_window
    /\ At("GetMessage") => handle = os_window
    /\ handle /\ ~os_window => At("~FlutterWindow") \/ object = "base"

(* A message that the loop can deliver finds a FlutterWindow whose         *)
(* controller has an engine: WM_FONTCHANGE uses it without a check.        *)
DispatchReady ==
    At("GetMessage") /\ os_window => object = "flutter" /\ controller = "ready"

(* The registrar's flag says what the system knows whenever wWinMain       *)
(* itself is running; they differ only after RegisterClass has failed, and *)
(* then there is no window and the program is on its way out.              *)
ClassTruth ==
    Len(stack) = 1 =>
        \/ class_registered = os_class
        \/ /\ At("CreateWindow") \/ At("~FlutterWindow")
           /\ class_registered /\ ~os_window /\ ~handle

(* When the process ends nothing is left: no window, no class, no          *)
(* controller, and the count of windows is zero.                           *)
EndsClean ==
    stack = <<>> =>
        /\ object = "none" /\ count = 0
        /\ ~os_window /\ ~os_class /\ ~handle
        /\ controller = "none"

(* "If true, closing this window will quit the application": once the      *)
(* window is gone, the process ends.                                       *)
CloseQuits == (At("GetMessage") /\ ~os_window) ~> (stack = <<>>)
=============================================================================
