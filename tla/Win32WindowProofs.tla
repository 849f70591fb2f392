------------------------- MODULE Win32WindowProofs --------------------------
(***************************************************************************)
(* Theorems about Win32Window, for every set of messages and every length  *)
(* of the message queue.                                                   *)
(***************************************************************************)
EXTENDS Win32Window, SequenceTheorems, TLAPS

-----------------------------------------------------------------------------
(* The inductive invariant                                                 *)

(* One line of the table below: what is true when the calls s are in       *)
(* progress.                                                               *)
Row(s, o, n, registered, known, window, h, c) ==
    /\ stack = s
    /\ object = o
    /\ count = n
    /\ class_registered = registered
    /\ os_class = known
    /\ os_window = window
    /\ handle = h
    /\ controller \in c

(* wWinMain up to the message loop.                                        *)
Starting ==
    \/ Row(<<"construct">>, "none", 0, FALSE, FALSE, FALSE, FALSE, {"none"})
    \/ Row(<<"Destroy", "GetWindowClass">>,
           "flutter", 1, FALSE, FALSE, FALSE, FALSE, {"none"})
    \/ Row(<<"Unregister", "GetWindowClass">>,
           "flutter", 1, FALSE, FALSE, FALSE, FALSE, {"none"})
    \/ Row(<<"GetWindowClass">>,
           "flutter", 1, FALSE, FALSE, FALSE, FALSE, {"none"})
    \/ Row(<<"CreateWindow">>,
           "flutter", 1, TRUE, TRUE, FALSE, FALSE, {"none"})
    \/ Row(<<"WM_NCCREATE", "CreateWindowReturns">>,
           "flutter", 1, TRUE, TRUE, TRUE, FALSE, {"none"})
    \/ Row(<<"CreateWindowReturns">>,
           "flutter", 1, TRUE, TRUE, TRUE, TRUE, {"none"})
    \/ Row(<<"OnCreate">>, "flutter", 1, TRUE, TRUE, TRUE, TRUE, {"none"})
    \/ Row(<<"SetQuitOnClose">>,
           "flutter", 1, TRUE, TRUE, TRUE, TRUE, {"ready"})

(* RegisterClass has failed, or CreateWindow after WM_NCCREATE, with or    *)
(* without WM_DESTROY: in the last case the handle outlives the window.    *)
Failing ==
    \/ Row(<<"CreateWindow">>,
           "flutter", 1, TRUE, FALSE, FALSE, FALSE, {"none"})
    \/ Row(<<"~FlutterWindow">>,
           "flutter", 1, TRUE, FALSE, FALSE, FALSE, {"none"})
    \/ Row(<<"Destroy", "return">>,
           "base", 0, TRUE, FALSE, FALSE, FALSE, {"none"})
    \/ Row(<<"Unregister", "return">>,
           "base", 0, TRUE, FALSE, FALSE, FALSE, {"none"})
    \/ Row(<<"WM_DESTROY", "CreateFailed">>,
           "flutter", 1, TRUE, TRUE, TRUE, TRUE, {"none"})
    \/ Row(<<"Destroy", "PostQuitMessage", "CreateFailed">>,
           "flutter", 1, TRUE, TRUE, TRUE, FALSE, {"none"})
    \/ Row(<<"Unregister", "PostQuitMessage", "CreateFailed">>,
           "flutter", 1, TRUE, TRUE, TRUE, FALSE, {"none"})
    \/ Row(<<"PostQuitMessage", "CreateFailed">>,
           "flutter", 1, TRUE, TRUE, TRUE, FALSE, {"none"})
    \/ Row(<<"CreateFailed">>,
           "flutter", 1, TRUE, TRUE, TRUE, FALSE, {"none"})
    \/ Row(<<"CreateFailed">>, "flutter", 1, TRUE, TRUE, TRUE, TRUE, {"none"})
    \/ Row(<<"~FlutterWindow">>,
           "flutter", 1, TRUE, TRUE, FALSE, TRUE, {"none"})
    \/ Row(<<"Destroy", "return">>,
           "base", 0, TRUE, TRUE, FALSE, TRUE, {"none"})
    \/ Row(<<"Destroyed", "return">>,
           "base", 0, TRUE, TRUE, FALSE, TRUE, {"none"})

(* The loop, and the destruction of the window by WM_CLOSE.                *)
Looping ==
    \/ Row(<<"GetMessage">>, "flutter", 1, TRUE, TRUE, TRUE, TRUE, {"ready"})
    \/ Row(<<"WM_DESTROY", "DestroyWindowReturns">>,
           "flutter", 1, TRUE, TRUE, TRUE, TRUE, {"ready"})
    \/ Row(<<"Destroy", "PostQuitMessage", "DestroyWindowReturns">>,
           "flutter", 1, TRUE, TRUE, TRUE, FALSE, {"ready"})
    \/ Row(<<"Unregister", "PostQuitMessage", "DestroyWindowReturns">>,
           "flutter", 1, TRUE, TRUE, TRUE, FALSE, {"none"})
    \/ Row(<<"PostQuitMessage", "DestroyWindowReturns">>,
           "flutter", 1, TRUE, TRUE, TRUE, FALSE, {"none"})
    \/ Row(<<"DestroyWindowReturns">>,
           "flutter", 1, TRUE, TRUE, TRUE, FALSE, {"none"})
    \/ Row(<<"GetMessage">>, "flutter", 1, TRUE, TRUE, FALSE, FALSE, {"none"})

(* The destructors, with the window still there after a failed OnCreate;   *)
(* the inner Destroy finds the count at zero while the window exists.      *)
Ending ==
    \/ Row(<<"~FlutterWindow">>,
           "flutter", 1, TRUE, TRUE, TRUE, TRUE, {"broken", "ready"})
    \/ Row(<<"Destroy", "return">>,
           "base", 0, TRUE, TRUE, TRUE, TRUE, {"none"})
    \/ Row(<<"WM_DESTROY", "Destroyed", "return">>,
           "base", 0, TRUE, TRUE, TRUE, TRUE, {"none"})
    \/ Row(<<"Destroy", "PostQuitMessage", "Destroyed", "return">>,
           "base", 0, TRUE, TRUE, TRUE, FALSE, {"none"})
    \/ Row(<<"Unregister", "PostQuitMessage", "Destroyed", "return">>,
           "base", 0, TRUE, TRUE, TRUE, FALSE, {"none"})
    \/ Row(<<"PostQuitMessage", "Destroyed", "return">>,
           "base", 0, FALSE, TRUE, TRUE, FALSE, {"none"})
    \/ Row(<<"Destroyed", "return">>,
           "base", 0, FALSE, TRUE, TRUE, FALSE, {"none"})
    \/ Row(<<"Unregister", "return">>,
           "base", 0, FALSE, TRUE, FALSE, FALSE, {"none"})
    \/ Row(<<"~FlutterWindow">>,
           "flutter", 1, TRUE, TRUE, FALSE, FALSE, {"none"})
    \/ Row(<<"Destroy", "return">>,
           "base", 0, TRUE, TRUE, FALSE, FALSE, {"none"})
    \/ Row(<<"Unregister", "return">>,
           "base", 0, TRUE, TRUE, FALSE, FALSE, {"none"})
    \/ Row(<<"return">>, "base", 0, FALSE, FALSE, FALSE, FALSE, {"none"})
    \/ Row(<<>>, "none", 0, FALSE, FALSE, FALSE, FALSE, {"none"})

(* No message waits for a window that is not there.                        *)
QueueOwned == ~os_window => queue = <<>>

Table == Starting \/ Failing \/ Looping \/ Ending

IInv == Table /\ QueueOwned

-----------------------------------------------------------------------------
(* The call stack                                                          *)

(* Two stacks on top of each other.                                        *)
LEMMA Concat2 ==
  ASSUME NEW l, NEW r, NEW b, NEW c
  PROVE  <<l, r>> \o <<b, c>> = <<l, r, b, c>>
<1> DEFINE S == {l, r, b, c}
           s == <<l, r>>
           t == <<b, c>>
           u == <<l, r, b, c>>
<1>1. s \in Seq(S) /\ t \in Seq(S) /\ u \in Seq(S)
  OBVIOUS
<1>2. Len(s) = 2 /\ Len(t) = 2 /\ Len(u) = 4
  OBVIOUS
<1>3. /\ s[1] = l /\ s[2] = r /\ t[1] = b /\ t[2] = c
      /\ u[1] = l /\ u[2] = r /\ u[3] = b /\ u[4] = c
  OBVIOUS
<1> HIDE DEF S, s, t, u
<1>4. /\ s \o t \in Seq(S)
      /\ Len(s \o t) = 4
      /\ \A i \in 1..4 : (s \o t)[i] = IF i <= 2 THEN s[i] ELSE t[i - 2]
  <2>1. /\ s \o t \in Seq(S)
        /\ Len(s \o t) = Len(s) + Len(t)
        /\ \A i \in 1 .. Len(s) + Len(t) :
              (s \o t)[i] = IF i <= Len(s) THEN s[i] ELSE t[i - Len(s)]
    BY <1>1, ConcatProperties
  <2> QED
    BY <1>2, <2>1
<1>5. \A i \in 1..4 : (s \o t)[i] = u[i]
  <2>1. ASSUME NEW i \in 1..4 PROVE i = 1 \/ i = 2 \/ i = 3 \/ i = 4
    OBVIOUS
  <2> QED
    BY <1>3, <1>4, <2>1
<1>6. s \o t = u
  BY <1>1, <1>2, <1>4, <1>5, SeqEqual
<1> QED
  BY <1>6 DEF s, t, u

(* What Goto, Call and Leave do to a stack of each depth.                  *)
LEMMA Depth1 ==
  ASSUME NEW a, stack = <<a>>
  PROVE  /\ \A label : At(label) <=> a = label
         /\ \A label : Goto(label) => stack' = <<label>>
         /\ \A label, return :
               Call(label, return) => stack' = <<label, return>>
         /\ Leave => stack' = <<>>
  BY DEF At, Goto, Call, Leave

LEMMA Depth2 ==
  ASSUME NEW a, NEW b, stack = <<a, b>>
  PROVE  /\ \A label : At(label) <=> a = label
         /\ \A label : Goto(label) => stack' = <<label, b>>
         /\ \A label, return :
               Call(label, return) => stack' = <<label, return, b>>
         /\ Leave => stack' = <<b>>
  BY DEF At, Goto, Call, Leave

LEMMA Depth3 ==
  ASSUME NEW a, NEW b, NEW c, stack = <<a, b, c>>
  PROVE  /\ \A label : At(label) <=> a = label
         /\ \A label : Goto(label) => stack' = <<label, b, c>>
         /\ \A label, return :
               Call(label, return) => stack' = <<label, return, b, c>>
         /\ Leave => stack' = <<b, c>>
<1>1. Tail(stack) = <<b, c>>
  OBVIOUS
<1>2. \A l, r : <<l, r>> \o <<b, c>> = <<l, r, b, c>>
  BY Concat2
<1>3. \A label, return :
        Call(label, return) => stack' = <<label, return, b, c>>
  BY <1>1, <1>2 DEF Call
<1> QED
  BY <1>3 DEF At, Goto, Leave

LEMMA Depth4 ==
  ASSUME NEW a, NEW b, NEW c, NEW d, stack = <<a, b, c, d>>
  PROVE  /\ \A label : At(label) <=> a = label
         /\ \A label : Goto(label) => stack' = <<label, b, c, d>>
         /\ Leave => stack' = <<b, c, d>>
  BY DEF At, Goto, Call, Leave

-----------------------------------------------------------------------------
(* Every action keeps the invariant                                        *)

(* The constructor.                                                        *)
LEMMA ConstructKeeps ==
  ASSUME IInv, Construct
  PROVE  IInv'
<1>1. Row(<<"construct">>, "none", 0, FALSE, FALSE, FALSE, FALSE, {"none"})
  BY DEF Construct, IInv, At, Row,
         Table, Starting, Failing, Looping, Ending
<1> QED
  BY <1>1, Depth1
  DEF Construct, Row, IInv, QueueOwned, Table, Starting

(* RegisterClass succeeds or fails.                                        *)
LEMMA GetWindowClassKeeps ==
  ASSUME IInv, GetWindowClass
  PROVE  IInv'
<1>1. Row(<<"GetWindowClass">>,
          "flutter", 1, FALSE, FALSE, FALSE, FALSE, {"none"})
  BY DEF GetWindowClass, IInv, At, Row,
         Table, Starting, Failing, Looping, Ending
<1> QED
  BY <1>1, Depth1
  DEF GetWindowClass, Row, IInv, QueueOwned, Table, Starting, Failing

(* CreateWindow fails at once or makes a window.                           *)
LEMMA CreateWindowKeeps ==
  ASSUME IInv, CreateWindow
  PROVE  IInv'
<1>1. \/ Row(<<"CreateWindow">>,
             "flutter", 1, TRUE, TRUE, FALSE, FALSE, {"none"})
      \/ Row(<<"CreateWindow">>,
             "flutter", 1, TRUE, FALSE, FALSE, FALSE, {"none"})
  BY DEF CreateWindow, IInv, At, Row,
         Table, Starting, Failing, Looping, Ending
<1>2. CASE Row(<<"CreateWindow">>,
               "flutter", 1, TRUE, TRUE, FALSE, FALSE, {"none"})
  BY <1>2, Depth1
  DEF CreateWindow, Row, IInv, QueueOwned, Table, Starting, Ending
<1>3. CASE Row(<<"CreateWindow">>,
               "flutter", 1, TRUE, FALSE, FALSE, FALSE, {"none"})
  BY <1>3, Depth1
  DEF CreateWindow, Row, IInv, QueueOwned, Table, Failing
<1> QED
  BY <1>1, <1>2, <1>3

(* WM_NCCREATE sets the handle.                                            *)
LEMMA WmNcCreateKeeps ==
  ASSUME IInv, WmNcCreate
  PROVE  IInv'
<1>1. Row(<<"WM_NCCREATE", "CreateWindowReturns">>,
          "flutter", 1, TRUE, TRUE, TRUE, FALSE, {"none"})
  BY DEF WmNcCreate, IInv, At, Row,
         Table, Starting, Failing, Looping, Ending
<1> QED
  BY <1>1, Depth2
  DEF WmNcCreate, Row, IInv, QueueOwned, Table, Starting

(* Creation succeeds, or fails after WM_NCCREATE.                          *)
LEMMA CreateWindowReturnsKeeps ==
  ASSUME IInv, CreateWindowReturns
  PROVE  IInv'
<1>1. Row(<<"CreateWindowReturns">>,
          "flutter", 1, TRUE, TRUE, TRUE, TRUE, {"none"})
  BY DEF CreateWindowReturns, IInv, At, Row,
         Table, Starting, Failing, Looping, Ending
<1> QED
  BY <1>1, Depth1
  DEF CreateWindowReturns, Row, IInv, QueueOwned, Table, Starting, Failing

(* A window that was not created is gone, whatever the handle says.        *)
LEMMA CreateFailedKeeps ==
  ASSUME IInv, CreateFailed
  PROVE  IInv'
<1>1. \/ Row(<<"CreateFailed">>,
             "flutter", 1, TRUE, TRUE, TRUE, FALSE, {"none"})
      \/ Row(<<"CreateFailed">>,
             "flutter", 1, TRUE, TRUE, TRUE, TRUE, {"none"})
  BY DEF CreateFailed, IInv, At, Row,
         Table, Starting, Failing, Looping, Ending
<1>2. CASE Row(<<"CreateFailed">>,
               "flutter", 1, TRUE, TRUE, TRUE, FALSE, {"none"})
  BY <1>2, Depth1
  DEF CreateFailed, Row, IInv, QueueOwned, Table, Ending
<1>3. CASE Row(<<"CreateFailed">>,
               "flutter", 1, TRUE, TRUE, TRUE, TRUE, {"none"})
  BY <1>3, Depth1
  DEF CreateFailed, Row, IInv, QueueOwned, Table, Failing
<1> QED
  BY <1>1, <1>2, <1>3

(* OnCreate succeeds, or leaves a broken controller behind.                *)
LEMMA OnCreateKeeps ==
  ASSUME IInv, OnCreate
  PROVE  IInv'
<1>1. Row(<<"OnCreate">>, "flutter", 1, TRUE, TRUE, TRUE, TRUE, {"none"})
  BY DEF OnCreate, IInv, At, Row,
         Table, Starting, Failing, Looping, Ending
<1> QED
  BY <1>1, Depth1
  DEF OnCreate, Row, IInv, QueueOwned, Table, Starting, Ending

(* SetQuitOnClose.                                                         *)
LEMMA SetQuitOnCloseKeeps ==
  ASSUME IInv, SetQuitOnClose
  PROVE  IInv'
<1>1. Row(<<"SetQuitOnClose">>,
          "flutter", 1, TRUE, TRUE, TRUE, TRUE, {"ready"})
  BY DEF SetQuitOnClose, IInv, At, Row,
         Table, Starting, Failing, Looping, Ending
<1> QED
  BY <1>1, Depth1
  DEF SetQuitOnClose, Row, IInv, QueueOwned, Table, Looping

(* WM_DESTROY, sent by CreateWindow, by DefWindowProc or by Destroy.       *)
LEMMA WmDestroyKeeps ==
  ASSUME IInv, WmDestroy
  PROVE  IInv'
<1>1. \/ Row(<<"WM_DESTROY", "CreateFailed">>,
             "flutter", 1, TRUE, TRUE, TRUE, TRUE, {"none"})
      \/ Row(<<"WM_DESTROY", "DestroyWindowReturns">>,
             "flutter", 1, TRUE, TRUE, TRUE, TRUE, {"ready"})
      \/ Row(<<"WM_DESTROY", "Destroyed", "return">>,
             "base", 0, TRUE, TRUE, TRUE, TRUE, {"none"})
  BY DEF WmDestroy, IInv, At, Row,
         Table, Starting, Failing, Looping, Ending
<1>2. CASE Row(<<"WM_DESTROY", "CreateFailed">>,
               "flutter", 1, TRUE, TRUE, TRUE, TRUE, {"none"})
  BY <1>2, Depth2
  DEF WmDestroy, Row, IInv, QueueOwned, Table, Failing
<1>3. CASE Row(<<"WM_DESTROY", "DestroyWindowReturns">>,
               "flutter", 1, TRUE, TRUE, TRUE, TRUE, {"ready"})
  BY <1>3, Depth2
  DEF WmDestroy, Row, IInv, QueueOwned, Table, Looping
<1>4. CASE Row(<<"WM_DESTROY", "Destroyed", "return">>,
               "base", 0, TRUE, TRUE, TRUE, TRUE, {"none"})
  BY <1>4, Depth3
  DEF WmDestroy, Row, IInv, QueueOwned, Table, Ending
<1> QED
  BY <1>1, <1>2, <1>3, <1>4

(* The end of the WM_DESTROY handler.                                      *)
LEMMA PostQuitMessageKeeps ==
  ASSUME IInv, PostQuitMessage
  PROVE  IInv'
<1>1. \/ Row(<<"PostQuitMessage", "CreateFailed">>,
             "flutter", 1, TRUE, TRUE, TRUE, FALSE, {"none"})
      \/ Row(<<"PostQuitMessage", "DestroyWindowReturns">>,
             "flutter", 1, TRUE, TRUE, TRUE, FALSE, {"none"})
      \/ Row(<<"PostQuitMessage", "Destroyed", "return">>,
             "base", 0, FALSE, TRUE, TRUE, FALSE, {"none"})
  BY DEF PostQuitMessage, IInv, At, Row,
         Table, Starting, Failing, Looping, Ending
<1>2. CASE Row(<<"PostQuitMessage", "CreateFailed">>,
               "flutter", 1, TRUE, TRUE, TRUE, FALSE, {"none"})
  BY <1>2, Depth2
  DEF PostQuitMessage, Row, IInv, QueueOwned, Table, Failing
<1>3. CASE Row(<<"PostQuitMessage", "DestroyWindowReturns">>,
               "flutter", 1, TRUE, TRUE, TRUE, FALSE, {"none"})
  BY <1>3, Depth2
  DEF PostQuitMessage, Row, IInv, QueueOwned, Table, Looping
<1>4. CASE Row(<<"PostQuitMessage", "Destroyed", "return">>,
               "base", 0, FALSE, TRUE, TRUE, FALSE, {"none"})
  BY <1>4, Depth3
  DEF PostQuitMessage, Row, IInv, QueueOwned, Table, Ending
<1> QED
  BY <1>1, <1>2, <1>3, <1>4

(* DefWindowProc has destroyed the window.                                 *)
LEMMA DestroyWindowReturnsKeeps ==
  ASSUME IInv, DestroyWindowReturns
  PROVE  IInv'
<1>1. Row(<<"DestroyWindowReturns">>,
          "flutter", 1, TRUE, TRUE, TRUE, FALSE, {"none"})
  BY DEF DestroyWindowReturns, IInv, At, Row,
         Table, Starting, Failing, Looping, Ending
<1> QED
  BY <1>1, Depth1
  DEF DestroyWindowReturns, Row, IInv, QueueOwned, Table, Looping

(* Destroy on a window that exists, is gone or never was.                  *)
LEMMA DestroyKeeps ==
  ASSUME IInv, Destroy
  PROVE  IInv'
<1>1. \/ Row(<<"Destroy", "GetWindowClass">>,
             "flutter", 1, FALSE, FALSE, FALSE, FALSE, {"none"})
      \/ Row(<<"Destroy", "return">>,
             "base", 0, TRUE, FALSE, FALSE, FALSE, {"none"})
      \/ Row(<<"Destroy", "PostQuitMessage", "CreateFailed">>,
             "flutter", 1, TRUE, TRUE, TRUE, FALSE, {"none"})
      \/ Row(<<"Destroy", "return">>,
             "base", 0, TRUE, TRUE, FALSE, TRUE, {"none"})
      \/ Row(<<"Destroy", "PostQuitMessage", "DestroyWindowReturns">>,
             "flutter", 1, TRUE, TRUE, TRUE, FALSE, {"ready"})
      \/ Row(<<"Destroy", "return">>,
             "base", 0, TRUE, TRUE, TRUE, TRUE, {"none"})
      \/ Row(<<"Destroy", "PostQuitMessage", "Destroyed", "return">>,
             "base", 0, TRUE, TRUE, TRUE, FALSE, {"none"})
      \/ Row(<<"Destroy", "return">>,
             "base", 0, TRUE, TRUE, FALSE, FALSE, {"none"})
  BY DEF Destroy, IInv, At, Row,
         Table, Starting, Failing, Looping, Ending
<1>2. CASE Row(<<"Destroy", "GetWindowClass">>,
               "flutter", 1, FALSE, FALSE, FALSE, FALSE, {"none"})
  BY <1>2, Depth2
  DEF Destroy, Row, IInv, QueueOwned, Table, Starting
<1>3. CASE Row(<<"Destroy", "return">>,
               "base", 0, TRUE, FALSE, FALSE, FALSE, {"none"})
  BY <1>3, Depth2
  DEF Destroy, Row, IInv, QueueOwned, Table, Failing
<1>4. CASE Row(<<"Destroy", "PostQuitMessage", "CreateFailed">>,
               "flutter", 1, TRUE, TRUE, TRUE, FALSE, {"none"})
  BY <1>4, Depth3
  DEF Destroy, Row, IInv, QueueOwned, Table, Failing
<1>5. CASE Row(<<"Destroy", "return">>,
               "base", 0, TRUE, TRUE, FALSE, TRUE, {"none"})
  BY <1>5, Depth2
  DEF Destroy, Row, IInv, QueueOwned, Table, Failing
<1>6. CASE Row(<<"Destroy", "PostQuitMessage", "DestroyWindowReturns">>,
               "flutter", 1, TRUE, TRUE, TRUE, FALSE, {"ready"})
  BY <1>6, Depth3
  DEF Destroy, Row, IInv, QueueOwned, Table, Looping
<1>7. CASE Row(<<"Destroy", "return">>,
               "base", 0, TRUE, TRUE, TRUE, TRUE, {"none"})
  BY <1>7, Depth2
  DEF Destroy, Row, IInv, QueueOwned, Table, Ending
<1>8. CASE Row(<<"Destroy", "PostQuitMessage", "Destroyed", "return">>,
               "base", 0, TRUE, TRUE, TRUE, FALSE, {"none"})
  BY <1>8, Depth4
  DEF Destroy, Row, IInv, QueueOwned, Table, Ending
<1>9. CASE Row(<<"Destroy", "return">>,
               "base", 0, TRUE, TRUE, FALSE, FALSE, {"none"})
  BY <1>9, Depth2
  DEF Destroy, Row, IInv, QueueOwned, Table, Ending
<1> QED
  BY <1>1, <1>2, <1>3, <1>4, <1>5, <1>6, <1>7, <1>8, <1>9

(* DestroyWindow has returned to Destroy.                                  *)
LEMMA DestroyedKeeps ==
  ASSUME IInv, Destroyed
  PROVE  IInv'
<1>1. \/ Row(<<"Destroyed", "return">>,
             "base", 0, TRUE, TRUE, FALSE, TRUE, {"none"})
      \/ Row(<<"Destroyed", "return">>,
             "base", 0, FALSE, TRUE, TRUE, FALSE, {"none"})
  BY DEF Destroyed, IInv, At, Row,
         Table, Starting, Failing, Looping, Ending
<1>2. CASE Row(<<"Destroyed", "return">>,
               "base", 0, TRUE, TRUE, FALSE, TRUE, {"none"})
  BY <1>2, Depth2
  DEF Destroyed, Row, IInv, QueueOwned, Table, Ending
<1>3. CASE Row(<<"Destroyed", "return">>,
               "base", 0, FALSE, TRUE, TRUE, FALSE, {"none"})
  BY <1>3, Depth2
  DEF Destroyed, Row, IInv, QueueOwned, Table, Ending
<1> QED
  BY <1>1, <1>2, <1>3

(* The class is unregistered with the last window.                         *)
LEMMA UnregisterKeeps ==
  ASSUME IInv, Unregister
  PROVE  IInv'
<1>1. \/ Row(<<"Unregister", "GetWindowClass">>,
             "flutter", 1, FALSE, FALSE, FALSE, FALSE, {"none"})
      \/ Row(<<"Unregister", "return">>,
             "base", 0, TRUE, FALSE, FALSE, FALSE, {"none"})
      \/ Row(<<"Unregister", "PostQuitMessage", "CreateFailed">>,
             "flutter", 1, TRUE, TRUE, TRUE, FALSE, {"none"})
      \/ Row(<<"Unregister", "PostQuitMessage", "DestroyWindowReturns">>,
             "flutter", 1, TRUE, TRUE, TRUE, FALSE, {"none"})
      \/ Row(<<"Unregister", "PostQuitMessage", "Destroyed", "return">>,
             "base", 0, TRUE, TRUE, TRUE, FALSE, {"none"})
      \/ Row(<<"Unregister", "return">>,
             "base", 0, FALSE, TRUE, FALSE, FALSE, {"none"})
      \/ Row(<<"Unregister", "return">>,
             "base", 0, TRUE, TRUE, FALSE, FALSE, {"none"})
  BY DEF Unregister, IInv, At, Row,
         Table, Starting, Failing, Looping, Ending
<1>2. CASE Row(<<"Unregister", "GetWindowClass">>,
               "flutter", 1, FALSE, FALSE, FALSE, FALSE, {"none"})
  BY <1>2, Depth2
  DEF Unregister, LastWindow, Row, IInv, QueueOwned, Table, Starting
<1>3. CASE Row(<<"Unregister", "return">>,
               "base", 0, TRUE, FALSE, FALSE, FALSE, {"none"})
  BY <1>3, Depth2
  DEF Unregister, LastWindow, Row, IInv, QueueOwned, Table, Ending
<1>4. CASE Row(<<"Unregister", "PostQuitMessage", "CreateFailed">>,
               "flutter", 1, TRUE, TRUE, TRUE, FALSE, {"none"})
  BY <1>4, Depth3
  DEF Unregister, LastWindow, Row, IInv, QueueOwned, Table, Failing
<1>5. CASE Row(<<"Unregister", "PostQuitMessage", "DestroyWindowReturns">>,
               "flutter", 1, TRUE, TRUE, TRUE, FALSE, {"none"})
  BY <1>5, Depth3
  DEF Unregister, LastWindow, Row, IInv, QueueOwned, Table, Looping
<1>6. CASE Row(<<"Unregister", "PostQuitMessage", "Destroyed", "return">>,
               "base", 0, TRUE, TRUE, TRUE, FALSE, {"none"})
  BY <1>6, Depth4
  DEF Unregister, LastWindow, Row, IInv, QueueOwned, Table, Ending
<1>7. CASE Row(<<"Unregister", "return">>,
               "base", 0, FALSE, TRUE, FALSE, FALSE, {"none"})
  BY <1>7, Depth2
  DEF Unregister, LastWindow, Row, IInv, QueueOwned, Table, Ending
<1>8. CASE Row(<<"Unregister", "return">>,
               "base", 0, TRUE, TRUE, FALSE, FALSE, {"none"})
  BY <1>8, Depth2
  DEF Unregister, LastWindow, Row, IInv, QueueOwned, Table, Ending
<1> QED
  BY <1>1, <1>2, <1>3, <1>4, <1>5, <1>6, <1>7, <1>8

(* The destructors, after WM_QUIT or a failed Create.                      *)
LEMMA DestructKeeps ==
  ASSUME IInv, Destruct
  PROVE  IInv'
<1>1. \/ Row(<<"~FlutterWindow">>,
             "flutter", 1, TRUE, FALSE, FALSE, FALSE, {"none"})
      \/ Row(<<"~FlutterWindow">>,
             "flutter", 1, TRUE, TRUE, FALSE, TRUE, {"none"})
      \/ Row(<<"~FlutterWindow">>,
             "flutter", 1, TRUE, TRUE, TRUE, TRUE, {"broken", "ready"})
      \/ Row(<<"~FlutterWindow">>,
             "flutter", 1, TRUE, TRUE, FALSE, FALSE, {"none"})
  BY DEF Destruct, IInv, At, Row,
         Table, Starting, Failing, Looping, Ending
<1>2. CASE Row(<<"~FlutterWindow">>,
               "flutter", 1, TRUE, FALSE, FALSE, FALSE, {"none"})
  BY <1>2, Depth1
  DEF Destruct, Row, IInv, QueueOwned, Table, Failing
<1>3. CASE Row(<<"~FlutterWindow">>,
               "flutter", 1, TRUE, TRUE, FALSE, TRUE, {"none"})
  BY <1>3, Depth1
  DEF Destruct, Row, IInv, QueueOwned, Table, Failing
<1>4. CASE Row(<<"~FlutterWindow">>,
               "flutter", 1, TRUE, TRUE, TRUE, TRUE, {"broken", "ready"})
  BY <1>4, Depth1
  DEF Destruct, Row, IInv, QueueOwned, Table, Ending
<1>5. CASE Row(<<"~FlutterWindow">>,
               "flutter", 1, TRUE, TRUE, FALSE, FALSE, {"none"})
  BY <1>5, Depth1
  DEF Destruct, Row, IInv, QueueOwned, Table, Ending
<1> QED
  BY <1>1, <1>2, <1>3, <1>4, <1>5

(* wWinMain ends.                                                          *)
LEMMA ReturnKeeps ==
  ASSUME IInv, Return
  PROVE  IInv'
<1>1. Row(<<"return">>, "base", 0, FALSE, FALSE, FALSE, FALSE, {"none"})
  BY DEF Return, IInv, At, Row,
         Table, Starting, Failing, Looping, Ending
<1> QED
  BY <1>1, Depth1
  DEF Return, Row, IInv, QueueOwned, Table, Ending

(* The two ways the loop can stand: with the window, and after WM_CLOSE.   *)
LEMMA AtGetMessage ==
  ASSUME IInv, At("GetMessage")
  PROVE  \/ Row(<<"GetMessage">>,
                "flutter", 1, TRUE, TRUE, TRUE, TRUE, {"ready"})
         \/ Row(<<"GetMessage">>,
                "flutter", 1, TRUE, TRUE, FALSE, FALSE, {"none"})
  BY DEF IInv, At, Row, Table, Starting, Failing, Looping, Ending

(* WM_QUIT ends the loop.                                                  *)
LEMMA GetQuitKeeps ==
  ASSUME IInv, GetQuit
  PROVE  IInv'
<1>1. CASE Row(<<"GetMessage">>,
               "flutter", 1, TRUE, TRUE, TRUE, TRUE, {"ready"})
  BY <1>1, Depth1 DEF GetQuit, Row, IInv, QueueOwned, Table, Ending
<1>2. CASE Row(<<"GetMessage">>,
               "flutter", 1, TRUE, TRUE, FALSE, FALSE, {"none"})
  BY <1>2, Depth1 DEF GetQuit, Row, IInv, QueueOwned, Table, Ending
<1> QED
  BY <1>1, <1>2, AtGetMessage DEF GetQuit

(* A message is dispatched only while the window is there.                 *)
LEMMA DispatchKeeps ==
  ASSUME IInv, Dispatch
  PROVE  IInv'
<1>1. CASE Row(<<"GetMessage">>,
               "flutter", 1, TRUE, TRUE, TRUE, TRUE, {"ready"})
  <2>1. CASE UNCHANGED stack
    BY <1>1, <2>1 DEF Dispatch, Row, IInv, QueueOwned, Table, Looping
  <2>2. CASE Call("WM_DESTROY", "DestroyWindowReturns")
    BY <1>1, <2>2, Depth1 DEF Dispatch, Row, IInv, QueueOwned, Table, Looping
  <2> QED
    BY <2>1, <2>2 DEF Dispatch
<1>2. CASE Row(<<"GetMessage">>,
               "flutter", 1, TRUE, TRUE, FALSE, FALSE, {"none"})
  BY <1>2 DEF Dispatch, Row, IInv, QueueOwned
<1> QED
  BY <1>1, <1>2, AtGetMessage DEF Dispatch

(* Nothing that the table mentions changes.                                *)
LEMMA RowsKept ==
  ASSUME Table,
         UNCHANGED <<stack, object, count, class_registered, os_class,
                     os_window, handle, controller>>
  PROVE  Table'
<1>1. CASE Starting
  BY <1>1 DEF Table, Starting, Row
<1>2. CASE Failing
  BY <1>2 DEF Table, Failing, Row
<1>3. CASE Looping
  BY <1>3 DEF Table, Looping, Row
<1>4. CASE Ending
  BY <1>4 DEF Table, Ending, Row
<1> QED
  BY <1>1, <1>2, <1>3, <1>4 DEF Table

(* Somebody posts a message to the window.                                 *)
LEMMA PostKeeps ==
  ASSUME IInv, NEW m \in Message, Post(m)
  PROVE  IInv'
  BY RowsKept DEF Post, IInv, QueueOwned

-----------------------------------------------------------------------------
(* The theorems                                                            *)

(***************************************************************************)
(* Every state of the runner is a line of the table, wherever creation     *)
(* fails (RegisterClass, CreateWindow before or after WM_NCCREATE, the     *)
(* controller) and whenever the window is closed.                          *)
(***************************************************************************)
THEOREM Inductive == Spec => []IInv
<1>1. Init => IInv
  BY DEF Init, IInv, Table, Starting, Row, QueueOwned
<1>2. IInv /\ [Next]_vars => IInv'
  <2> SUFFICES ASSUME IInv, [Next]_vars PROVE IInv'
    OBVIOUS
  <2>1. CASE Program
    BY <2>1, ConstructKeeps, GetWindowClassKeeps, CreateWindowKeeps,
       WmNcCreateKeeps, CreateWindowReturnsKeeps, CreateFailedKeeps,
       OnCreateKeeps,
       SetQuitOnCloseKeeps, GetQuitKeeps, DispatchKeeps, WmDestroyKeeps,
       PostQuitMessageKeeps, DestroyWindowReturnsKeeps, DestroyKeeps,
       DestroyedKeeps, UnregisterKeeps, DestructKeeps, ReturnKeeps
    DEF Program
  <2>2. CASE \E m \in Message : Post(m)
    BY <2>2, PostKeeps
  <2>3. CASE UNCHANGED vars
    BY <2>3, RowsKept DEF vars, IInv, QueueOwned
  <2> QED
    BY <2>1, <2>2, <2>3 DEF Next
<1> QED
  BY <1>1, <1>2, PTL DEF Spec

(***************************************************************************)
(* Wherever window_handle_ is used it is that of the window; the handle of *)
(* a window that is gone is seen by the destructors only.                  *)
(***************************************************************************)
THEOREM HandleCorrect == Spec => []HandleTruth
<1>1. IInv => HandleTruth
  <2> SUFFICES ASSUME IInv PROVE HandleTruth
    OBVIOUS
  <2>1. ASSUME At("OnCreate") \/ At("SetQuitOnClose")
        PROVE  handle /\ os_window
    BY <2>1 DEF IInv, At, Row, Table, Starting, Failing, Looping, Ending
  <2>2. ASSUME At("GetMessage") PROVE handle = os_window
    <3>1. \/ handle = TRUE /\ os_window = TRUE
          \/ handle = FALSE /\ os_window = FALSE
      BY <2>2, AtGetMessage DEF Row
    <3> QED
      BY <3>1, Zenon
  <2>3. ASSUME handle, ~os_window
        PROVE  At("~FlutterWindow") \/ object = "base"
    BY <2>3 DEF IInv, At, Row, Table, Starting, Failing, Looping, Ending
  <2> QED
    BY <2>1, <2>2, <2>3 DEF HandleTruth
<1> QED
  BY <1>1, Inductive, PTL

(***************************************************************************)
(* FlutterWindow::MessageHandler may use flutter_controller_ without a     *)
(* check for every message the loop delivers.                              *)
(***************************************************************************)
THEOREM DispatchCorrect == Spec => []DispatchReady
<1>1. IInv => DispatchReady
  BY AtGetMessage DEF DispatchReady, Row
<1> QED
  BY <1>1, Inductive, PTL

(***************************************************************************)
(* class_registered_ and the system agree whenever no call is in progress, *)
(* although the class is unregistered in vain while its window exists,     *)
(* except between a failed RegisterClass and the destructors.              *)
(***************************************************************************)
THEOREM ClassCorrect == Spec => []ClassTruth
<1> DEFINE Agree == \/ class_registered = TRUE /\ os_class = TRUE
                    \/ class_registered = FALSE /\ os_class = FALSE
           Failed == /\ At("CreateWindow") \/ At("~FlutterWindow")
                     /\ class_registered /\ ~os_window /\ ~handle
<1>1. IInv => ClassTruth
  <2> SUFFICES ASSUME IInv, Len(stack) = 1 PROVE Agree \/ Failed
    BY Zenon DEF ClassTruth
  <2>1. CASE Starting
    BY <2>1 DEF Starting, Row
  <2>2. CASE Failing
    BY <2>2 DEF Failing, Row, At
  <2>3. CASE Looping
    BY <2>3 DEF Looping, Row
  <2>4. CASE Ending
    <3>1. Agree \/ Len(stack) \in {2, 3}
      BY <2>4 DEF Ending, Row
    <3> QED
      BY <3>1
  <2> QED
    BY <2>1, <2>2, <2>3, <2>4 DEF IInv, Table
<1> QED
  BY <1>1, Inductive, PTL

(***************************************************************************)
(* wWinMain returns with nothing left behind, on every path.               *)
(***************************************************************************)
THEOREM EndCorrect == Spec => []EndsClean
<1>1. IInv => EndsClean
  BY DEF IInv, Row, EndsClean, Table, Starting, Failing, Looping, Ending
<1> QED
  BY <1>1, Inductive, PTL
=============================================================================
