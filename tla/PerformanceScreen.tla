-------------------------- MODULE PerformanceScreen --------------------------
(***************************************************************************)
(* lib/views/performance/performance_screen.dart: a periodic timer appends *)
(* simulated metrics to a bounded list, of which a chart shows the end.    *)
(* The State of the screen goes with its tab and comes back fresh.  The    *)
(* screen reads two fields of the service and changes nothing of it.       *)
(***************************************************************************)
EXTENDS Integers, Sequences

CONSTANTS
    InferenceTimes,     \* what the random generator may return
    Capacity,           \* metrics kept: 200
    ChartSize,          \* bars shown: 100
    TimerId,            \* identities of periodic timers
    MaxClock,           \* bound on the number of ticks
    Null

ASSUME WindowAssumption ==
    /\ Capacity \in Nat /\ ChartSize \in Nat
    /\ 0 < ChartSize /\ ChartSize <= Capacity
    /\ MaxClock \in Nat
    /\ Null \notin TimerId

VARIABLES
    metrics, currentMetric, frameCount,     \* fields of the State
    isMonitoring, monitoringTimer,          \* ... and its _monitoringTimer
    mounted,        \* is the State in the tree?
    timers,         \* periodic timers that still fire
    clock           \* DateTime.now(), one unit per tick

data == <<metrics, currentMetric, frameCount>>
vars == <<data, isMonitoring, monitoringTimer, mounted, timers, clock>>

Metric == [inferenceTime : InferenceTimes, timestamp : Nat]

ASSUME NullAssumption == Null \notin Metric

-----------------------------------------------------------------------------
(* A definition named X_Fault is X with a fault in it; it shows that a     *)
(* property can fail.                                                      *)

(* The new list with its oldest entry dropped when it has grown too long.  *)
Added_CheckedBefore(list, metric) ==
    IF Len(list) > Capacity THEN Append(Tail(list), metric)
    ELSE Append(list, metric)

Added(list, metric) ==
    LET longer == Append(list, metric) IN
    IF Len(longer) > Capacity THEN Tail(longer) ELSE longer

takeLast_OneMore(list, n) ==
    IF Len(list) <= n THEN list ELSE SubSeq(list, Len(list) - n, Len(list))

takeLast(list, n) ==
    IF Len(list) <= n THEN list ELSE SubSeq(list, Len(list) - n + 1, Len(list))

(* timer?.cancel() followed by a new periodic timer.                       *)
startMonitoring ==
    \E id \in TimerId :
        /\ id \notin timers
        /\ timers' = (timers \ {monitoringTimer}) \union {id}
        /\ monitoringTimer' = id

toggleMonitoring_NotCancelling ==
    /\ mounted
    /\ isMonitoring' = ~isMonitoring
    /\ IF isMonitoring'
       THEN startMonitoring
       ELSE UNCHANGED <<timers, monitoringTimer>>
    /\ UNCHANGED <<data, mounted, clock>>

toggleMonitoring ==
    /\ mounted
    /\ isMonitoring' = ~isMonitoring
    /\ IF isMonitoring'
       THEN startMonitoring
       ELSE /\ timers' = timers \ {monitoringTimer}
            /\ UNCHANGED monitoringTimer
    /\ UNCHANGED <<data, mounted, clock>>

(* The callback of timer id.  A timer that finds the screen not monitoring *)
(* cancels itself.                                                         *)
Tick(id) ==
    /\ id \in timers
    /\ clock < MaxClock
    /\ clock' = clock + 1
    /\ IF isMonitoring
       THEN /\ \E x \in InferenceTimes :
                 LET newMetric == [inferenceTime |-> x, timestamp |-> clock]
                 IN  /\ currentMetric' = newMetric
                     /\ metrics' = Added(metrics, newMetric)
            /\ frameCount' = frameCount + 1
            /\ UNCHANGED timers
       ELSE timers' = timers \ {id} /\ UNCHANGED data
    /\ UNCHANGED <<isMonitoring, monitoringTimer, mounted>>

(* The button is disabled while there is nothing to reset.                 *)
resetMetrics ==
    /\ mounted
    /\ metrics # <<>>
    /\ metrics' = <<>>
    /\ currentMetric' = Null
    /\ frameCount' = 0
    /\ UNCHANGED <<isMonitoring, monitoringTimer, mounted, timers, clock>>

(* Another tab is shown: the State keeps its fields and is never used      *)
(* again.                                                                  *)
dispose ==
    /\ mounted
    /\ mounted' = FALSE
    /\ timers' = timers \ {monitoringTimer}
    /\ UNCHANGED <<data, isMonitoring, monitoringTimer, clock>>

createState ==
    /\ ~mounted
    /\ mounted' = TRUE
    /\ metrics' = <<>>
    /\ currentMetric' = Null
    /\ frameCount' = 0
    /\ isMonitoring' = FALSE
    /\ monitoringTimer' = Null
    /\ UNCHANGED <<timers, clock>>

-----------------------------------------------------------------------------
Init ==
    /\ metrics = <<>>
    /\ currentMetric = Null
    /\ frameCount = 0
    /\ isMonitoring = FALSE
    /\ monitoringTimer = Null
    /\ mounted = TRUE
    /\ timers = {}
    /\ clock = 0

Next ==
    \/ toggleMonitoring \/ resetMetrics \/ dispose \/ createState
    \/ \E id \in TimerId : Tick(id)

Spec == Init /\ [][Next]_vars

-----------------------------------------------------------------------------
(* Properties                                                              *)

(***************************************************************************)
(* SingleTimer: frames come from one timer at most, the one that the next  *)
(* stop, start or dispose cancels, and from none once monitoring has       *)
(* stopped or the State is gone (its setState would throw).                *)
(***************************************************************************)
SingleTimer ==
    timers = IF mounted /\ isMonitoring THEN {monitoringTimer} ELSE {}

(* The last frames since the reset, at most n of them: none is missing,    *)
(* none is there twice, and they are in order.                             *)
LastFrames(list, n) ==
    /\ Len(list) = IF frameCount <= n THEN frameCount ELSE n
    /\ frameCount = 0 <=> currentMetric = Null
    /\ frameCount > 0 => list[Len(list)] = currentMetric
    /\ \A k \in 1..Len(list) :
          list[k].timestamp = currentMetric.timestamp - (Len(list) - k)

(***************************************************************************)
(* Window: through any mixture of ticks, pauses, resets and tab changes    *)
(* the list holds exactly the last Capacity frames that the counter counts *)
(* and ends with the frame shown as the last one.                          *)
(***************************************************************************)
Window == LastFrames(metrics, Capacity)

(***************************************************************************)
(* Chart: the bars are the last ChartSize of the counted frames, in order, *)
(* and the rightmost one is the frame shown as the last one.               *)
(***************************************************************************)
Chart == LastFrames(takeLast(metrics, ChartSize), ChartSize)
=============================================================================
