----------------------- MODULE PerformanceScreenProofs -----------------------
(***************************************************************************)
(* Theorems about PerformanceScreen, for every capacity and chart size.    *)
(***************************************************************************)
EXTENDS PerformanceScreen, SequenceTheorems, TLAPS

-----------------------------------------------------------------------------
(* The inductive invariant                                                 *)

Typed ==
    /\ metrics \in Seq(Metric)
    /\ currentMetric \in Metric \union {Null}
    /\ frameCount \in Nat /\ clock \in Nat
    /\ isMonitoring \in BOOLEAN /\ mounted \in BOOLEAN

(* Every tick has made a frame, so the last frame is one tick old.         *)
LastTick == frameCount > 0 => currentMetric.timestamp = clock - 1

IInv == Typed /\ LastTick /\ SingleTimer /\ Window

-----------------------------------------------------------------------------
(* What one more metric does to the list (setState in startMonitoring): it *)
(* comes last, and the others move up when the list was full.              *)
LEMMA AddedLast ==
    ASSUME NEW list \in Seq(Metric), NEW m \in Metric, Len(list) <= Capacity
    PROVE  LET longer == Added(list, m)
               full == Len(list) = Capacity
           IN  /\ longer \in Seq(Metric)
               /\ Len(longer) = IF full THEN Capacity ELSE Len(list) + 1
               /\ longer[Len(longer)] = m
               /\ \A k \in 1..(Len(longer) - 1) :
                     longer[k] = list[IF full THEN k + 1 ELSE k]
<1> USE WindowAssumption
<1>1. CASE Len(list) = Capacity
  BY <1>1 DEF Added
<1>2. CASE Len(list) < Capacity
  BY <1>2 DEF Added
<1> QED
  BY <1>1, <1>2

(* What takeLast (the extension at the end of the file) returns of a list  *)
(* that is not empty: its last entries, the last one at the end.           *)
LEMMA TakeLastEnd ==
    ASSUME NEW list \in Seq(Metric), NEW n \in Nat, n > 0
    PROVE  LET bars == takeLast(list, n)
               cut == Len(list) - Len(bars)
           IN  /\ Len(bars) = IF Len(list) <= n THEN Len(list) ELSE n
               /\ \A k \in 1..Len(bars) : bars[k] = list[cut + k]
<1>1. CASE Len(list) <= n
  BY <1>1 DEF takeLast
<1>2. CASE Len(list) > n
  <2> DEFINE first == Len(list) - n + 1
             bars == SubSeq(list, first, Len(list))
  <2>1. first \in 1..(Len(list) + 1) /\ Len(list) \in 0..Len(list)
    BY <1>2
  <2>2. /\ Len(bars) = n
        /\ \A k \in 1..n : bars[k] = list[first + k - 1]
    <3> HIDE DEF first
    <3>1. /\ Len(bars) = IF first <= Len(list)
                         THEN Len(list) - first + 1 ELSE 0
          /\ \A k \in 1..(Len(list) - first + 1) :
                bars[k] = list[first + k - 1]
      BY <2>1, SubSeqProperties
    <3> QED
      BY <1>2, <3>1 DEF first
  <2>3. \A k \in 1..n : first + k - 1 = (Len(list) - n) + k
    BY <1>2
  <2>4. takeLast(list, n) = bars
    BY <1>2 DEF takeLast
  <2> HIDE DEF bars, first
  <2>5. \A k \in 1..n : bars[k] = list[(Len(list) - n) + k]
    BY <2>2, <2>3
  <2>6. Len(takeLast(list, n)) = n /\ ~(Len(list) <= n)
    BY <1>2, <2>2, <2>4
  <2> QED
    BY <2>4, <2>5, <2>6
<1> QED
  BY <1>1, <1>2

-----------------------------------------------------------------------------
LEMMA InitIInv == Init => IInv
<1> SUFFICES ASSUME Init PROVE IInv
  OBVIOUS
<1>1. Typed
  <2>1. /\ metrics \in Seq(Metric) /\ currentMetric \in Metric \union {Null}
        /\ frameCount \in Nat /\ clock \in Nat
    BY DEF Init
  <2>2. isMonitoring \in BOOLEAN /\ mounted \in BOOLEAN
    BY Zenon DEF Init
  <2> QED
    BY <2>1, <2>2 DEF Typed
<1>2. LastTick
  BY DEF Init, LastTick
<1>3. SingleTimer
  BY Zenon DEF Init, SingleTimer
<1>4. Window
  BY WindowAssumption DEF Init, Window, LastFrames
<1> QED
  BY <1>1, <1>2, <1>3, <1>4 DEF IInv

(* A tick of the one timer: the new frame joins the window.                *)
LEMMA TickIInv ==
    ASSUME IInv, NEW id \in TimerId, Tick(id)
    PROVE  IInv'
<1> USE WindowAssumption DEF IInv, Typed
<1>1. isMonitoring /\ mounted /\ timers' = timers
  BY DEF Tick, SingleTimer
<1>2. PICK x \in InferenceTimes :
        /\ currentMetric' = [inferenceTime |-> x, timestamp |-> clock]
        /\ metrics' = Added(metrics, currentMetric')
  BY <1>1 DEF Tick
<1>3. /\ frameCount' = frameCount + 1 /\ clock' = clock + 1
      /\ UNCHANGED <<isMonitoring, monitoringTimer, mounted>>
  BY <1>1 DEF Tick
<1>4. currentMetric' \in Metric /\ currentMetric' # Null
  BY <1>2, NullAssumption DEF Metric
<1>5. Len(metrics) <= Capacity
  BY DEF Window, LastFrames
<1>6. /\ metrics' \in Seq(Metric)
      /\ Len(metrics') =
            IF Len(metrics) = Capacity THEN Capacity ELSE Len(metrics) + 1
      /\ metrics'[Len(metrics')] = currentMetric'
      /\ \A k \in 1..(Len(metrics') - 1) :
            metrics'[k] = metrics[IF Len(metrics) = Capacity
                                  THEN k + 1 ELSE k]
  BY <1>2, <1>4, <1>5, AddedLast
<1>7. Typed'
  BY <1>3, <1>4, <1>6
<1>8. LastTick' /\ SingleTimer'
  BY <1>1, <1>2, <1>3 DEF LastTick, SingleTimer
<1>9. Window'
  <2>1. Len(metrics') =
            IF frameCount' <= Capacity THEN frameCount' ELSE Capacity
    BY <1>3, <1>6 DEF Window, LastFrames
  <2>2. ASSUME NEW k \in 1..Len(metrics')
        PROVE  metrics'[k].timestamp
                   = currentMetric'.timestamp - (Len(metrics') - k)
    <3>1. CASE k = Len(metrics')
      BY <3>1, <1>2, <1>6
    <3>2. CASE k # Len(metrics')
      <4> DEFINE full == Len(metrics) = Capacity
                 j == IF full THEN k + 1 ELSE k
      <4>1. k \in 1..(Len(metrics') - 1) /\ Len(metrics) \in Nat
        BY <3>2, <1>6
      <4>2. j \in 1..Len(metrics) /\ metrics'[k] = metrics[j]
        BY <4>1, <1>5, <1>6
      <4>3. /\ metrics[j].timestamp
                  = currentMetric.timestamp - (Len(metrics) - j)
            /\ frameCount > 0
        BY <4>1, <4>2 DEF Window, LastFrames
      <4>4. currentMetric.timestamp = clock - 1
        BY <4>3 DEF LastTick
      <4>5. Len(metrics) - j = Len(metrics') - k - 1
        BY <4>1, <1>6
      <4>6. currentMetric'.timestamp = clock
        BY <1>2
      <4> HIDE DEF j
      <4> QED
        BY <4>1, <4>2, <4>3, <4>4, <4>5, <4>6
    <3> QED
      BY <3>1, <3>2
  <2> QED
    BY <1>3, <1>4, <1>6, <2>1, <2>2 DEF Window, LastFrames
<1> QED
  BY <1>7, <1>8, <1>9

LEMMA NextIInv == IInv /\ [Next]_vars => IInv'
<1> SUFFICES ASSUME IInv, [Next]_vars
             PROVE  IInv'
  OBVIOUS
<1> USE WindowAssumption DEF IInv, Typed, LastTick, SingleTimer, Window,
                             LastFrames
<1>1. CASE toggleMonitoring
  BY <1>1 DEF toggleMonitoring, startMonitoring, data
<1>2. CASE resetMetrics
  BY <1>2 DEF resetMetrics
<1>3. CASE dispose
  BY <1>3 DEF dispose, data
<1>4. CASE createState
  <2>1. /\ metrics' \in Seq(Metric)
        /\ currentMetric' \in Metric \union {Null}
        /\ frameCount' \in Nat /\ clock' \in Nat
    BY <1>4 DEF createState
  <2>2. isMonitoring' \in BOOLEAN /\ mounted' \in BOOLEAN
    BY <1>4, Zenon DEF createState
  <2>3. LastTick' /\ Window'
    BY <1>4 DEF createState
  <2>4. timers = {}
    BY <1>4 DEF createState
  <2>5. SingleTimer'
    BY <1>4, <2>4, Zenon DEF createState
  <2> QED
    BY <2>1, <2>2, <2>3, <2>5
<1>5. ASSUME NEW id \in TimerId, Tick(id)
      PROVE  IInv'
  BY <1>5, TickIInv
<1>6. CASE UNCHANGED vars
  BY <1>6 DEF vars, data
<1> QED
  BY <1>1, <1>2, <1>3, <1>4, <1>5, <1>6 DEF Next

THEOREM Inductive == Spec => []IInv
BY InitIInv, NextIInv, PTL DEF Spec

-----------------------------------------------------------------------------
(* Frames come from one timer at most, and never after monitoring stopped  *)
(* or the State was disposed.                                              *)
THEOREM TimerCorrect == Spec => []SingleTimer
<1>1. IInv => SingleTimer
  BY DEF IInv
<1> QED
  BY <1>1, Inductive, PTL

(* The list of metrics is the last Capacity counted frames, whatever       *)
(* Capacity is.                                                            *)
THEOREM WindowCorrect == Spec => []Window
<1>1. IInv => Window
  BY DEF IInv
<1> QED
  BY <1>1, Inductive, PTL

(* The chart is the last ChartSize counted frames, for every ChartSize up  *)
(* to Capacity.                                                            *)
THEOREM ChartCorrect == Spec => []Chart
<1>1. IInv => Chart
  <2> SUFFICES ASSUME IInv PROVE Chart
    OBVIOUS
  <2> USE WindowAssumption
  <2> DEFINE bars == takeLast(metrics, ChartSize)
             cut == Len(metrics) - Len(bars)
  <2>1. /\ metrics \in Seq(Metric) /\ frameCount \in Nat
        /\ currentMetric \in Metric \union {Null}
    BY DEF IInv, Typed
  <2>2. /\ Len(bars) = IF Len(metrics) <= ChartSize
                       THEN Len(metrics) ELSE ChartSize
        /\ \A k \in 1..Len(bars) : bars[k] = metrics[cut + k]
    BY <2>1, TakeLastEnd
  <2>3. /\ Len(metrics) = IF frameCount <= Capacity
                          THEN frameCount ELSE Capacity
        /\ frameCount = 0 <=> currentMetric = Null
        /\ frameCount > 0 => metrics[Len(metrics)] = currentMetric
        /\ \A k \in 1..Len(metrics) :
              metrics[k].timestamp
                  = currentMetric.timestamp - (Len(metrics) - k)
    BY DEF IInv, Window, LastFrames
  <2>4. Len(bars) = IF frameCount <= ChartSize THEN frameCount ELSE ChartSize
    BY <2>1, <2>2, <2>3
  <2>5. frameCount > 0 => bars[Len(bars)] = currentMetric
    BY <2>1, <2>2, <2>3, <2>4
  <2>6. ASSUME NEW k \in 1..Len(bars)
        PROVE  bars[k].timestamp
                   = currentMetric.timestamp - (Len(bars) - k)
    <3> HIDE DEF bars
    <3>1. cut + k \in 1..Len(metrics)
      BY <2>1, <2>2
    <3>2. Len(metrics) - (cut + k) = Len(bars) - k
      BY <2>1, <2>2
    <3> QED
      BY <2>2, <2>3, <3>1, <3>2
  <2> QED
    BY <2>3, <2>4, <2>5, <2>6 DEF Chart, LastFrames
<1> QED
  BY <1>1, Inductive, PTL
=============================================================================
