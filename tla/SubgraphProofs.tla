--------------------------- MODULE SubgraphProofs ---------------------------
(***************************************************************************)
(* Theorems about Subgraph for every graph, every tensor size and every    *)
(* alignment: SimpleMemoryArena::Allocate never puts a tensor onto one     *)
(* that is needed at the same time, nor outside of the buffer, although    *)
(* the plan is made in pieces and thrown away in pieces.                   *)
(***************************************************************************)
EXTENDS Subgraph, WellFoundedInduction, TLAPS

-----------------------------------------------------------------------------
(* The inductive invariant of the arena                                    *)

Allocs == [tensor : Int, offset : Nat, size : Nat, first : Int, last : Int]

ArenaTypeOK ==
    /\ graph \in Graphs
    /\ bytes \in [Tensor -> Bytes]
    /\ type \in [Tensor -> {"arena", "dynamic"}]
    /\ active \subseteq Allocs
    /\ highWater \in Nat
    /\ buffer \in [size : Nat, base : Nat]
    /\ allocs \in [Tensor -> Allocs]
    /\ lastUse \in [Tensor -> Nat]
    /\ prep \in Node
    /\ {nextPrepare, nextPlan, node} \subseteq 0..NumNodes

(* How far nodes are prepared and placed at each stage.                    *)
Stages ==
    /\ pc \in {"idle", "prepare", "plan", "place", "execute"}
    /\ pc \in {"idle", "prepare", "execute"} => nextPrepare = nextPlan
    /\ pc \in {"prepare", "plan", "place"} =>
          /\ nextPlan <= prep
          /\ call # "allocate" => node <= prep
    /\ pc \in {"plan", "place"} => nextPrepare = prep + 1
    /\ pc = "execute" => node <= nextPrepare

(* Nothing is placed before the planner exists; afterwards the arena has   *)
(* seen all nodes up to the one placed last.                               *)
Planner ==
    /\ pc = "idle" /\ status = "none" => ~planned
    /\ ~planned => /\ pc # "place" /\ nextPlan = 0
                   /\ \A t \in Tensor : allocs[t].size = 0
    /\ planned => lastActive = IF pc = "place" THEN prep ELSE nextPlan - 1

(* What is placed is an arena tensor of a node that was prepared.          *)
PlacedOK ==
    \A t \in Tensor : allocs[t].size > 0 =>
        /\ type[t] = "arena"
        /\ allocs[t].first \in Node
        /\ allocs[t].first < nextPrepare
        /\ t \in TensorsOf(graph, allocs[t].first)

(* What is still to be placed belongs to the nodes that are being placed.  *)
PendingOK ==
    pc = "place" => \A t \in pending :
        /\ t \in Tensor /\ type[t] = "arena" /\ allocs[t].size < bytes[t]
        /\ \E i \in nextPlan..prep : t \in TensorsOf(graph, i)

(* An active allocation is not in the way of bytes[scan.tensor] bytes at   *)
(* offset.                                                                 *)
Free(b, offset) ==
    \/ Apart(b, scan.tensor)
    \/ b.offset + b.size <= offset
    \/ offset + bytes[scan.tensor] <= b.offset

Scans ==
    [tensor : Int, todo : SUBSET Allocs, current : Nat,
     best : Nat \union {Unset}, fit : Nat \union {Unset}]

(* What the loop of Allocate has established: nothing lies in the best     *)
(* gap, and what was visited and is needed at the same time ends at or     *)
(* before current, unless the loop was left early.                         *)
ScanOK ==
    /\ pc # "place" => scan = NoScan
    /\ scan # NoScan =>
          /\ scan \in Scans
          /\ scan.tensor \in pending
          /\ scan.todo \subseteq active
          /\ scan.best = Unset => scan.fit = Unset
          /\ scan.best # Unset => \A b \in active : Free(b, scan.best)
          /\ scan.todo # {} \/ scan.best = Unset =>
                \A b \in active \ scan.todo :
                    \/ Apart(b, scan.tensor)
                    \/ b.offset + b.size <= scan.current

(* The buffer covers the arena once it is committed.                       *)
WithinBuffer ==
    /\ \A t \in Tensor : allocs[t].offset + allocs[t].size <= highWater
    /\ pc # "place" => highWater <= buffer.size

ArenaInv ==
    /\ ArenaTypeOK
    /\ Stages
    /\ Planner
    /\ PlacedOK
    /\ PendingOK
    /\ ScanOK
    /\ WithinBuffer
    /\ NoOverlap
    /\ Tracked

-----------------------------------------------------------------------------
(* The operators of the planner                                            *)

(* AlignTo rounds up.                                                      *)
LEMMA AlignToUp ==
  ASSUME NEW x \in Nat
  PROVE  AlignTo(x) \in Nat /\ AlignTo(x) >= x
<1>1. x % Alignment \in 0..(Alignment - 1)
  BY PlannerAssumption
<1> QED
  BY <1>1, PlannerAssumption DEF AlignTo

(* The tensors of a graph.                                                 *)
LEMMA GraphOK ==
  ASSUME graph \in Graphs, NEW i \in Node
  PROVE  /\ graph.out[i] \in Tensor
         /\ graph.temp[i] \subseteq Tensor
         /\ graph.inputs \subseteq Tensor
         /\ graph.in[i] \in Seq(Tensor)
         /\ graph.op[i] = "unmodified" => graph.in[i] # <<>>
         /\ TensorsOf(graph, i) \subseteq Tensor
<1>1. graph \in Graph
  BY GraphAssumption
<1>2. /\ graph.out[i] \in Tensor
      /\ graph.temp[i] \subseteq Tensor
      /\ graph.inputs \subseteq Tensor
      /\ graph.in[i] \in Seq(Tensor)
  BY <1>1 DEF Graph
<1>3. graph.op[i] = "unmodified" => graph.in[i] # <<>>
  BY GraphAssumption
<1> QED
  BY <1>2, <1>3 DEF TensorsOf

(* alloc_node_ is the only node that needs the tensor first.               *)
LEMMA FirstUseOK ==
  ASSUME graph \in Graphs, NEW i \in Node, NEW t \in TensorsOf(graph, i)
  PROVE  FirstUse(t) = i
<1>1. \A j \in Node : t \in TensorsOf(graph, j) => j = i
  BY GraphAssumption
<1> QED
  BY <1>1 DEF FirstUse

(* dealloc_node_ is a node, or after all of them.                          *)
LEMMA LastUseOK ==
  ASSUME NEW actual, NEW t
  PROVE  LastUse(actual, t) \in Nat
<1>1. Never \in Nat /\ Node \subseteq Nat
  BY PlannerAssumption DEF Never, Node
<1>2. ASSUME NEW S \in SUBSET Node PROVE LastOf(S) \in Nat
  BY <1>1, <1>2 DEF LastOf
<1> QED
  BY <1>1, <1>2 DEF LastUse

-----------------------------------------------------------------------------
(* Preparing                                                               *)

(* A step outside of the placing that leaves the arena alone.              *)
LEMMA DriverStep ==
  ASSUME ArenaInv, pc # "place", pc' # "place",
         UNCHANGED <<graph, arenaVars, plannerVars, loopVars, nextPlan>>,
         ArenaTypeOK', Stages', Planner', nextPrepare <= nextPrepare',
         \A t \in Tensor : allocs[t].size > 0 => type'[t] = type[t]
  PROVE  ArenaInv'
<1> USE DEF ArenaInv, arenaVars, plannerVars, loopVars
<1>1. PlacedOK'
  <2> SUFFICES ASSUME NEW t \in Tensor, allocs[t].size > 0
               PROVE  /\ type'[t] = "arena"
                      /\ allocs[t].first \in Node
                      /\ allocs[t].first < nextPrepare'
                      /\ t \in TensorsOf(graph, allocs[t].first)
    BY DEF PlacedOK, TensorsOf
  <2>1. nextPrepare \in Int /\ nextPrepare' \in Int
    BY DEF ArenaTypeOK
  <2> QED
    BY <2>1 DEF PlacedOK, Node
<1>2. PendingOK' /\ ScanOK'
  BY DEF PendingOK, ScanOK
<1>3. WithinBuffer' /\ NoOverlap' /\ Tracked'
  BY DEF WithinBuffer, NoOverlap, Disjoint, Tracked
<1> QED
  BY <1>1, <1>2, <1>3

(* The types of a step that leaves sizes, types and the arena alone.       *)
LEMMA TypesKept ==
  ASSUME ArenaInv, UNCHANGED <<graph, arenaVars, plannerVars>>,
         bytes' \in [Tensor -> Bytes],
         type' \in [Tensor -> {"arena", "dynamic"}],
         prep' \in Node, {nextPrepare, nextPlan, node}' \subseteq 0..NumNodes
  PROVE  ArenaTypeOK'
  BY DEF ArenaInv, ArenaTypeOK, arenaVars, plannerVars

(* AllocateTensors begins, once.                                           *)
LEMMA AllocateTensorsKeeps ==
  ASSUME ArenaInv, AllocateTensors
  PROVE  ArenaInv'
<1> USE DEF AllocateTensors
<1>1. ~planned /\ nextPlan = 0 /\ nextPrepare = 0
  BY DEF ArenaInv, Planner, Stages
<1>2. 0 \in Node /\ 0 \in 0..NumNodes
  BY PlannerAssumption DEF Node
<1>3. ArenaTypeOK'
  BY <1>1, <1>2, TypesKept DEF tensorVars, ArenaInv, ArenaTypeOK
<1>4. Stages'
  BY <1>1 DEF Stages
<1>5. Planner'
  BY <1>1 DEF ArenaInv, Planner, plannerVars
<1> QED
  BY <1>1, <1>3, <1>4, <1>5, DriverStep DEF tensorVars

(* Invoke begins.                                                          *)
LEMMA InvokeKeeps ==
  ASSUME ArenaInv, Invoke
  PROVE  ArenaInv'
<1> USE DEF Invoke
<1>1. node' \in 0..NumNodes
  BY PlannerAssumption DEF ArenaInv, ArenaTypeOK
<1>2. ArenaTypeOK'
  BY <1>1, TypesKept DEF tensorVars, ArenaInv, ArenaTypeOK
<1>3. Stages'
  BY DEF ArenaInv, ArenaTypeOK, Stages
<1>4. Planner'
  BY DEF ArenaInv, Planner, plannerVars
<1> QED
  BY <1>2, <1>3, <1>4, DriverStep
  DEF tensorVars, ArenaInv, ArenaTypeOK, Stages

(* Invoke comes to a node that has to be prepared first.                   *)
LEMMA PrepareRestKeeps ==
  ASSUME ArenaInv, PrepareRest
  PROVE  ArenaInv'
<1> USE DEF PrepareRest
<1>1. node \in Node
  BY PlannerAssumption DEF ArenaInv, ArenaTypeOK, Node
<1>2. ArenaTypeOK'
  BY <1>1, TypesKept DEF tensorVars, ArenaInv, ArenaTypeOK
<1>3. Stages'
  BY DEF ArenaInv, ArenaTypeOK, Stages
<1>4. Planner'
  BY DEF ArenaInv, Planner, plannerVars
<1> QED
  BY <1>2, <1>3, <1>4, DriverStep DEF tensorVars, ArenaInv, ArenaTypeOK

(* A node is executed without a change of sizes.                           *)
LEMMA ExecuteStaticKeeps ==
  ASSUME ArenaInv, ExecuteStatic
  PROVE  ArenaInv'
<1> USE DEF ExecuteStatic, Executing
<1>1. node' \in 0..NumNodes
  BY PlannerAssumption DEF ArenaInv, ArenaTypeOK
<1>2. ArenaTypeOK'
  BY <1>1, TypesKept DEF tensorVars, ArenaInv, ArenaTypeOK
<1>3. Stages'
  BY DEF ArenaInv, ArenaTypeOK, Stages
<1>4. Planner'
  BY DEF ArenaInv, Planner, plannerVars
<1> QED
  BY <1>2, <1>3, <1>4, DriverStep DEF tensorVars, ArenaInv, ArenaTypeOK

(* A node fails, before or after it has resized its output.                *)
LEMMA ExecuteFailsKeeps ==
  ASSUME ArenaInv, ExecuteFails
  PROVE  ArenaInv'
<1> USE DEF ExecuteFails, Executing, Return
<1>1. bytes' \in [Tensor -> Bytes]
  BY DEF ArenaInv, ArenaTypeOK
<1>2. ArenaTypeOK'
  BY <1>1, TypesKept DEF ArenaInv, ArenaTypeOK
<1>3. Stages'
  BY DEF ArenaInv, ArenaTypeOK, Stages
<1>4. Planner'
  BY DEF ArenaInv, Planner, plannerVars
<1> QED
  BY <1>2, <1>3, <1>4, DriverStep DEF ArenaInv, ArenaTypeOK

(* Invoke returns.                                                         *)
LEMMA InvokeReturnsKeeps ==
  ASSUME ArenaInv, InvokeReturns
  PROVE  ArenaInv'
<1> USE DEF InvokeReturns, Return
<1>1. ArenaTypeOK'
  BY TypesKept DEF tensorVars, ArenaInv, ArenaTypeOK
<1>2. Stages'
  BY DEF ArenaInv, Stages
<1>3. Planner'
  BY DEF ArenaInv, Planner, plannerVars
<1> QED
  BY <1>1, <1>2, <1>3, DriverStep DEF tensorVars, ArenaInv, ArenaTypeOK

(* The sizes a node's Prepare may give.                                    *)
LEMMA PreparedOK ==
  ASSUME ArenaTypeOK, NEW i \in Node, NEW b \in PreparedBytes(i)
  PROVE  b \in [Tensor -> Bytes]
<1>1. graph \in Graphs /\ bytes \in [Tensor -> Bytes]
  BY DEF ArenaTypeOK
<1>2. graph.op[i] = "unmodified" => graph.in[i][1] \in Tensor
  BY <1>1, GraphOK
<1>3. PICK c \in [SizedByPrepare(i) -> Bytes] :
        b = [t \in Tensor |->
               IF graph.op[i] = "unmodified" /\ t = graph.out[i]
               THEN bytes[graph.in[i][1]]
               ELSE IF t \in SizedByPrepare(i) THEN c[t] ELSE bytes[t]]
  BY DEF PreparedBytes
<1> QED
  BY <1>1, <1>2, <1>3

(* A tensor that turns dynamic has not been placed: its node comes after   *)
(* the nodes whose tensors were.                                           *)
LEMMA PrepareTypes ==
  ASSUME ArenaInv, pc = "prepare",
         Prepare(prep) \/ UNCHANGED <<bytes, data, type>>
  PROVE  /\ prep \in Node /\ bytes' \in [Tensor -> Bytes]
         /\ type' \in [Tensor -> {"arena", "dynamic"}]
         /\ \A t \in Tensor : allocs[t].size > 0 => type'[t] = type[t]
<1> USE DEF Prepare
<1>1. prep \in Node /\ graph \in Graphs /\ bytes' \in [Tensor -> Bytes]
  BY PreparedOK DEF ArenaInv, ArenaTypeOK
<1>2. /\ type' \in [Tensor -> {"arena", "dynamic"}]
      /\ \A t \in Tensor : t # graph.out[prep] => type'[t] = type[t]
      /\ graph.out[prep] \in Tensor
  BY <1>1, GraphOK DEF ArenaInv, ArenaTypeOK
<1>3. allocs[graph.out[prep]].size = 0
  <2>1. graph.out[prep] \in TensorsOf(graph, prep)
    BY DEF TensorsOf
  <2>2. allocs[graph.out[prep]].size \in Nat
    BY <1>2 DEF ArenaInv, ArenaTypeOK, Allocs
  <2>3. ASSUME allocs[graph.out[prep]].size > 0 PROVE FALSE
    <3> DEFINE i == allocs[graph.out[prep]].first
    <3>1. /\ i \in Node /\ i < nextPrepare
          /\ graph.out[prep] \in TensorsOf(graph, i)
      BY <1>2, <2>3 DEF ArenaInv, PlacedOK
    <3>2. i = prep
      BY <1>1, <2>1, <3>1, FirstUseOK
    <3> QED
      BY <1>1, <3>1, <3>2 DEF ArenaInv, Stages, ArenaTypeOK, Node
  <2> QED
    BY <2>2, <2>3
<1> QED
  BY <1>1, <1>2, <1>3

(* A node is prepared.                                                     *)
LEMMA PrepareOpKeeps ==
  ASSUME ArenaInv, PrepareOp
  PROVE  ArenaInv'
<1> USE DEF PrepareOp
<1>1. /\ prep \in Node /\ bytes' \in [Tensor -> Bytes]
      /\ type' \in [Tensor -> {"arena", "dynamic"}]
      /\ \A t \in Tensor : allocs[t].size > 0 => type'[t] = type[t]
  BY PrepareTypes
<1>4. CASE graph.op[prep] = "dynamic" \/ prep = NumNodes - 1
  <2>1. nextPrepare' = prep + 1 /\ prep + 1 \in 0..NumNodes
    BY <1>1, <1>4, PlannerAssumption DEF Node
  <2>2. ArenaTypeOK'
    BY <1>1, <1>4, <2>1, TypesKept DEF ArenaInv, ArenaTypeOK
  <2>3. Stages'
    BY <1>4, <2>1 DEF ArenaInv, Stages
  <2>4. Planner'
    BY <1>4 DEF ArenaInv, Planner, plannerVars
  <2>5. nextPrepare <= nextPrepare'
    BY <1>1, <2>1 DEF ArenaInv, Stages, ArenaTypeOK, Node
  <2> QED
    BY <1>1, <1>4, <2>2, <2>3, <2>4, <2>5, DriverStep
<1>5. CASE ~(graph.op[prep] = "dynamic" \/ prep = NumNodes - 1)
  <2>1. prep' = prep + 1 /\ prep' \in Node
    BY <1>1, <1>5, PlannerAssumption DEF Node
  <2>2. ArenaTypeOK'
    BY <1>1, <1>5, <2>1, TypesKept DEF ArenaInv, ArenaTypeOK
  <2>3. Stages'
    BY <1>1, <1>5, <2>1 DEF ArenaInv, ArenaTypeOK, Stages, Node
  <2>4. Planner'
    BY <1>5 DEF ArenaInv, Planner, plannerVars
  <2>5. nextPrepare <= nextPrepare'
    BY <1>5 DEF ArenaInv, ArenaTypeOK
  <2> QED
    BY <1>1, <1>5, <2>2, <2>3, <2>4, <2>5, DriverStep
<1> QED
  BY <1>4, <1>5

(* An operator's Prepare fails.                                            *)
LEMMA PrepareFailsKeeps ==
  ASSUME ArenaInv, PrepareFails
  PROVE  ArenaInv'
<1> USE DEF PrepareFails, Return
<1>1. /\ bytes' \in [Tensor -> Bytes]
      /\ type' \in [Tensor -> {"arena", "dynamic"}]
      /\ \A t \in Tensor : allocs[t].size > 0 => type'[t] = type[t]
  BY PrepareTypes
<1>2. ArenaTypeOK'
  BY <1>1, TypesKept DEF ArenaInv, ArenaTypeOK
<1>3. Stages'
  BY DEF ArenaInv, Stages
<1>4. Planner'
  BY DEF ArenaInv, Planner, plannerVars
<1> QED
  BY <1>1, <1>2, <1>3, <1>4, DriverStep DEF ArenaInv, ArenaTypeOK

-----------------------------------------------------------------------------
(* Placing                                                                 *)

(* Purging keeps what is needed at or after the first node to be placed;   *)
(* the arena is never reset while something is placed.                     *)
LEMMA PlanKeeps ==
  ASSUME ArenaInv, Plan
  PROVE  ArenaInv'
<1> DEFINE wanted == TensorsToAllocate(nextPlan, prep)
<1>1. /\ pc = "plan" /\ pc' = "place" /\ planned' = TRUE
      /\ pending' = wanted /\ lastActive' = prep
      /\ UNCHANGED <<tensorVars, highWater, buffer, allocs, scan>>
      /\ UNCHANGED <<call, status, nextPrepare, nextPlan, prep, node>>
  BY DEF Plan, CalculateAllocations
<1>2. lastUse' \in [Tensor -> Nat]
  BY LastUseOK DEF Plan, PlanAllocations, ArenaInv, ArenaTypeOK
<1>3. active' \subseteq active
  BY DEF Plan, CalculateAllocations
<1>4. ArenaTypeOK'
  BY <1>1, <1>2, <1>3 DEF ArenaInv, ArenaTypeOK, tensorVars
<1>5. Stages' /\ Planner'
  BY <1>1 DEF ArenaInv, Stages, Planner
<1>6. PlacedOK'
  BY <1>1 DEF ArenaInv, PlacedOK, TensorsOf, tensorVars
<1>7. PendingOK'
  <2> SUFFICES ASSUME NEW t \in wanted
               PROVE  /\ t \in Tensor /\ type[t] = "arena"
                      /\ allocs[t].size < bytes[t]
                      /\ \E i \in nextPlan..prep : t \in TensorsOf(graph, i)
    BY <1>1 DEF PendingOK, TensorsOf, tensorVars
  <2>1. PICK i \in nextPlan..prep : t \in TensorsOf(graph, i)
    BY DEF TensorsToAllocate
  <2>2. i \in Node /\ graph \in Graphs
    BY PlannerAssumption DEF ArenaInv, ArenaTypeOK, Node
  <2> QED
    BY <2>1, <2>2, GraphOK DEF TensorsToAllocate
<1>8. ScanOK'
  <2>1. scan' = NoScan
    BY <1>1 DEF ArenaInv, ScanOK
  <2> QED
    BY <1>1, <2>1 DEF ScanOK
<1>9. WithinBuffer' /\ NoOverlap'
  BY <1>1 DEF ArenaInv, WithinBuffer, NoOverlap, Disjoint
<1>10. Tracked'
  <2> SUFFICES ASSUME NEW t \in Tensor, allocs[t].size > 0,
                      allocs[t].last >= nextPlan
               PROVE  allocs[t] \in active'
    BY <1>1 DEF Tracked
  <2>1. planned
    BY DEF ArenaInv, Planner
  <2>2. lastActive = nextPlan - 1 /\ nextPlan \in Int
    BY <1>1, <2>1 DEF ArenaInv, Planner, ArenaTypeOK
  <2>3. active' = active \/ active' = {a \in active : Alive(a, nextPlan)}
    BY <2>2 DEF Plan, CalculateAllocations
  <2>4. allocs[t] \in active
    BY DEF ArenaInv, Tracked
  <2> QED
    BY <2>3, <2>4 DEF Alive
<1> QED
  BY <1>4, <1>5, <1>6, <1>7, <1>8, <1>9, <1>10 DEF ArenaInv

(* A step of the placing that leaves the arena and the plan alone.         *)
LEMMA LoopStep ==
  ASSUME ArenaInv, pc = "place",
         UNCHANGED <<tensorVars, arenaVars, allocs, lastUse, lastActive,
                     driverVars>>,
         pending' \subseteq pending, ScanOK'
  PROVE  ArenaInv'
<1> USE DEF tensorVars, arenaVars, driverVars, ArenaInv
<1>1. ArenaTypeOK' /\ Stages' /\ Planner'
  BY DEF ArenaTypeOK, Stages, Planner
<1>2. PlacedOK' /\ PendingOK'
  BY DEF PlacedOK, PendingOK, TensorsOf
<1>3. WithinBuffer' /\ NoOverlap' /\ Tracked'
  BY DEF WithinBuffer, NoOverlap, Disjoint, Tracked
<1> QED
  BY <1>1, <1>2, <1>3

(* A step of the loop of Allocate, or its beginning.                       *)
LEMMA ScanStep ==
  ASSUME ArenaInv, pc = "place", NEW r \in Scans, scan' = r,
         UNCHANGED <<tensorVars, arenaVars, allocs, lastUse, lastActive,
                     pending, driverVars>>,
         r.tensor \in pending, r.todo \subseteq active,
         r.best = Unset => r.fit = Unset,
         r.best # Unset => \A b \in active :
            \/ Apart(b, r.tensor)
            \/ b.offset + b.size <= r.best
            \/ r.best + bytes[r.tensor] <= b.offset,
         r.todo # {} \/ r.best = Unset => \A b \in active \ r.todo :
            Apart(b, r.tensor) \/ b.offset + b.size <= r.current
  PROVE  ArenaInv'
<1>1. UNCHANGED <<graph, bytes, active, lastUse, pending, pc>>
  BY DEF tensorVars, arenaVars, driverVars
<1>2. ASSUME NEW b, Apart(b, r.tensor) PROVE Apart(b, scan.tensor)'
  BY <1>1, <1>2 DEF Apart, FirstUse, TensorsOf
<1>3. r.best # Unset => (\A b \in active : Free(b, scan.best))'
  BY <1>1, <1>2 DEF Free
<1>4. r.todo # {} \/ r.best = Unset =>
        (\A b \in active \ scan.todo :
            Apart(b, scan.tensor) \/ b.offset + b.size <= scan.current)'
  BY <1>1, <1>2
<1>5. ScanOK'
  BY <1>1, <1>3, <1>4 DEF ScanOK
<1> QED
  BY <1>1, <1>5, LoopStep

(* The output takes the place of its input, or its placing begins.         *)
LEMMA BeginKeeps ==
  ASSUME ArenaInv, pc = "place", UNCHANGED driverVars,
         NEW t \in pending, KeepShared(t) \/ BeginAllocate(t)
  PROVE  ArenaInv'
<1>1. CASE KeepShared(t)
  <2>1. scan' = NoScan
    BY <1>1 DEF KeepShared, NextToPlace
  <2>2. ScanOK'
    BY <2>1 DEF ScanOK
  <2> QED
    BY <1>1, <2>2, LoopStep DEF KeepShared, plannerVars
<1>2. CASE BeginAllocate(t)
  <2> DEFINE r == [NoScan EXCEPT !.tensor = t, !.todo = active]
  <2>1. t \in Int /\ active \subseteq Allocs
    <3>1. t \in Tensor /\ active \subseteq Allocs
      BY DEF ArenaInv, PendingOK, ArenaTypeOK
    <3> QED
      BY <3>1, PlannerAssumption
  <2>2. /\ r \in Scans /\ r.tensor = t /\ r.todo = active
        /\ r.best = Unset /\ r.fit = Unset
    BY <2>1 DEF NoScan, Scans, Unset
  <2>3. scan' = r
    BY <1>2 DEF BeginAllocate
  <2> HIDE DEF r
  <2> QED
    BY <1>2, <2>2, <2>3, ScanStep DEF BeginAllocate
<1> QED
  BY <1>1, <1>2

(* One turn of the loop: a gap in front of the visited allocation is free  *)
(* of what was visited, which ends before it, and of what was not, which   *)
(* begins behind it.                                                       *)
LEMMA VisitKeeps ==
  ASSUME ArenaInv, pc = "place", UNCHANGED driverVars,
         NEW a \in scan.todo, Visit(a)
  PROVE  ArenaInv'
<1> DEFINE t == scan.tensor
<1>1. scan # NoScan
  BY DEF NoScan
<1>2. /\ scan \in Scans /\ t \in pending /\ scan.todo \subseteq active
      /\ scan.best = Unset => scan.fit = Unset
      /\ scan.best # Unset => \A b \in active : Free(b, scan.best)
      /\ \A b \in active \ scan.todo :
            Apart(b, t) \/ b.offset + b.size <= scan.current
  BY <1>1 DEF ArenaInv, ScanOK
<1>3. /\ UNCHANGED <<tensorVars, arenaVars, allocs, lastUse, lastActive,
                     pending>>
      /\ active \subseteq Allocs /\ bytes[t] \in Nat
  BY <1>2, PlannerAssumption
  DEF Visit, plannerVars, ArenaInv, ArenaTypeOK, PendingOK
<1>4. /\ scan.current \in Nat /\ scan.todo \subseteq Allocs
      /\ scan.best \in Nat \union {Unset} /\ scan.fit \in Nat \union {Unset}
  BY <1>2 DEF Scans
<1>5. /\ a.offset \in Nat /\ a.size \in Nat /\ a \in active
      /\ \A b \in scan.todo : a.offset <= b.offset
      /\ \A b \in active : b.offset \in Nat /\ b.size \in Nat
  BY <1>2, <1>3 DEF Visit, Allocs
<1>6. CASE Apart(a, t)
  <2> DEFINE r == [scan EXCEPT !.todo = scan.todo \ {a}]
  <2>1. scan' = r
    BY <1>6 DEF Visit
  <2>2. /\ r \in Scans /\ r.tensor = t /\ r.todo = scan.todo \ {a}
        /\ r.best = scan.best /\ r.fit = scan.fit /\ r.current = scan.current
    BY <1>2 DEF Scans
  <2> HIDE DEF r
  <2>3. \A b \in active \ r.todo :
           Apart(b, r.tensor) \/ b.offset + b.size <= r.current
    BY <1>2, <1>6, <2>2
  <2> QED
    BY <1>2, <1>3, <2>1, <2>2, <2>3, ScanStep DEF Free
<1>7. CASE ~Apart(a, t)
  <2> DEFINE fit == IF Fits(a) THEN a.offset - scan.current ELSE scan.fit
             best == IF Fits(a) THEN AlignTo(scan.current) ELSE scan.best
             cur == Larger(scan.current, a.offset + a.size)
             todo == IF fit = 0 THEN {} ELSE scan.todo \ {a}
             r == [scan EXCEPT !.best = best, !.fit = fit, !.current = cur,
                               !.todo = todo]
  <2>1. scan' = r
    BY <1>7 DEF Visit
  <2>2. AlignTo(scan.current) \in Nat /\ AlignTo(scan.current) >= scan.current
    BY <1>4, AlignToUp
  <2>3. /\ best \in Nat \union {Unset} /\ fit \in Nat \union {Unset}
        /\ best = Unset => fit = Unset
    BY <1>2, <1>3, <1>4, <1>5, <2>2 DEF Fits, Unset
  <2>4. /\ cur \in Nat /\ cur >= scan.current /\ cur >= a.offset + a.size
        /\ todo \subseteq scan.todo
    BY <1>4, <1>5 DEF Larger
  <2>5. best # Unset => \A b \in active :
            \/ Apart(b, t)
            \/ b.offset + b.size <= best
            \/ best + bytes[t] <= b.offset
    <3>1. CASE Fits(a)
      <4>1. best = AlignTo(scan.current) /\ best + bytes[t] <= a.offset
        BY <3>1 DEF Fits
      <4>2. ASSUME NEW b \in scan.todo PROVE best + bytes[t] <= b.offset
        BY <1>2, <1>3, <1>5, <2>2, <4>1, <4>2
      <4>3. ASSUME NEW b \in active, b.offset + b.size <= scan.current
            PROVE  b.offset + b.size <= best
        BY <1>4, <1>5, <2>2, <4>1, <4>3
      <4> QED
        BY <1>2, <4>2, <4>3
    <3>2. CASE ~Fits(a)
      BY <1>2, <3>2 DEF Free
    <3> QED
      BY <3>1, <3>2
  <2>6. todo # {} \/ best = Unset => todo = scan.todo \ {a}
    BY <2>3 DEF Unset
  <2>7. todo # {} \/ best = Unset => \A b \in active \ todo :
            Apart(b, t) \/ b.offset + b.size <= cur
    <3> SUFFICES ASSUME todo # {} \/ best = Unset, NEW b \in active \ todo
                 PROVE  Apart(b, t) \/ b.offset + b.size <= cur
      OBVIOUS
    <3>1. CASE b = a
      BY <2>4, <3>1
    <3>2. CASE b # a
      <4>1. Apart(b, t) \/ b.offset + b.size <= scan.current
        BY <1>2, <2>6, <3>2
      <4> HIDE DEF cur
      <4> QED
        BY <1>4, <1>5, <2>4, <4>1
    <3> QED
      BY <3>1, <3>2
  <2> HIDE DEF fit, best, cur, todo
  <2>8. /\ r \in Scans /\ r.tensor = t /\ r.todo = todo
        /\ r.best = best /\ r.fit = fit /\ r.current = cur
    BY <1>2, <1>4, <2>3, <2>4 DEF Scans
  <2> HIDE DEF r
  <2> QED
    BY <1>2, <1>3, <2>1, <2>3, <2>4, <2>5, <2>7, <2>8, ScanStep
<1> QED
  BY <1>6, <1>7

(* Allocate ends: the offset is free of everything that is active, and     *)
(* whatever is placed and not active ends before the tensor is needed.     *)
LEMMA EndKeeps ==
  ASSUME ArenaInv, pc = "place", UNCHANGED driverVars, EndAllocate
  PROVE  ArenaInv'
<1> DEFINE t == scan.tensor
           offset == IF scan.best = Unset THEN AlignTo(scan.current)
                                          ELSE scan.best
           new == [tensor |-> t, offset |-> offset, size |-> bytes[t],
                   first |-> FirstUse(t), last |-> lastUse[t]]
<1>1. /\ highWater' = Larger(highWater, offset + bytes[t])
      /\ allocs' = [allocs EXCEPT ![t] = new]
      /\ active' = active \union {new}
      /\ pending' = pending \ {t} /\ scan' = NoScan
      /\ UNCHANGED <<graph, bytes, type, buffer, lastUse, lastActive>>
      /\ UNCHANGED <<pc, call, status, planned, nextPrepare, nextPlan, prep,
                     node>>
  BY DEF EndAllocate, tensorVars, driverVars
<1>2. /\ scan # NoScan /\ scan.todo = {}
      /\ scan \in Scans /\ t \in pending
      /\ scan.best # Unset => \A b \in active : Free(b, scan.best)
      /\ scan.best = Unset => \A b \in active :
            Apart(b, t) \/ b.offset + b.size <= scan.current
  BY DEF EndAllocate, ArenaInv, ScanOK
<1>3. /\ t \in Tensor /\ type[t] = "arena" /\ allocs[t].size < bytes[t]
      /\ \E i \in nextPlan..prep : t \in TensorsOf(graph, i)
      /\ bytes[t] \in Nat /\ t \in Int /\ lastUse[t] \in Nat
      /\ active \subseteq Allocs /\ allocs[t] \in Allocs
  <2>1. /\ t \in Tensor /\ type[t] = "arena" /\ allocs[t].size < bytes[t]
        /\ \E i \in nextPlan..prep : t \in TensorsOf(graph, i)
    BY <1>2 DEF ArenaInv, PendingOK
  <2>2. /\ bytes[t] \in Bytes /\ lastUse[t] \in Nat
        /\ active \subseteq Allocs /\ allocs[t] \in Allocs
    BY <2>1 DEF ArenaInv, ArenaTypeOK
  <2>3. Bytes \subseteq Nat /\ Tensor \subseteq Int
    BY PlannerAssumption
  <2> QED
    BY <2>1, <2>2, <2>3
<1>4. PICK i \in nextPlan..prep : t \in TensorsOf(graph, i)
  BY <1>3
<1>5. /\ i \in Node /\ FirstUse(t) = i
      /\ nextPlan \in Int /\ i \in Int /\ nextPlan <= i /\ i < nextPrepare
  <2>1. /\ nextPlan \in 0..NumNodes /\ prep \in Node /\ graph \in Graphs
        /\ nextPrepare = prep + 1
    BY DEF ArenaInv, ArenaTypeOK, Stages
  <2>2. i \in Node
    BY <1>4, <2>1, PlannerAssumption DEF Node
  <2> QED
    BY <1>4, <2>1, <2>2, PlannerAssumption, FirstUseOK DEF Node
<1>6. offset \in Nat
  BY <1>2, AlignToUp DEF Scans
<1>7. ASSUME NEW b \in active
      PROVE  \/ Apart(b, t)
             \/ b.offset + b.size <= offset
             \/ offset + bytes[t] <= b.offset
  <2>1. CASE scan.best # Unset
    BY <1>2, <2>1 DEF Free
  <2>2. CASE scan.best = Unset
    <3>1. /\ b.offset \in Nat /\ b.size \in Nat
          /\ scan.current \in Nat /\ offset = AlignTo(scan.current)
      BY <1>2, <1>3, <2>2 DEF Allocs, Scans
    <3>2. offset >= scan.current
      BY <3>1, AlignToUp
    <3> HIDE DEF offset
    <3> QED
      BY <1>2, <1>6, <2>2, <3>1, <3>2
  <2> QED
    BY <2>1, <2>2
<1> HIDE DEF offset
<1>8. /\ new \in Allocs /\ new.size = bytes[t] /\ new.offset = offset
      /\ new.first = i /\ new.last = lastUse[t] /\ new.size > 0
  BY <1>3, <1>5, <1>6 DEF Allocs
<1> HIDE DEF new
<1>9. /\ allocs \in [Tensor -> Allocs] /\ allocs'[t] = new
      /\ \A u \in Tensor : u # t => allocs'[u] = allocs[u]
  BY <1>1, <1>3 DEF ArenaInv, ArenaTypeOK
<1>10. /\ highWater \in Nat /\ highWater' \in Nat /\ highWater' >= highWater
       /\ highWater' >= offset + bytes[t]
  BY <1>1, <1>3, <1>6 DEF Larger, ArenaInv, ArenaTypeOK
<1>11. ArenaTypeOK'
  BY <1>1, <1>3, <1>8, <1>9, <1>10 DEF ArenaInv, ArenaTypeOK
<1>12. Stages' /\ Planner'
  BY <1>1 DEF ArenaInv, Stages, Planner
<1>13. PlacedOK'
  <2> SUFFICES ASSUME NEW u \in Tensor, allocs'[u].size > 0
               PROVE  /\ type[u] = "arena"
                      /\ allocs'[u].first \in Node
                      /\ allocs'[u].first < nextPrepare
                      /\ u \in TensorsOf(graph, allocs'[u].first)
    BY <1>1 DEF PlacedOK, TensorsOf
  <2>1. CASE u = t
    BY <1>3, <1>4, <1>5, <1>8, <1>9, <2>1
  <2>2. CASE u # t
    BY <1>9, <2>2 DEF ArenaInv, PlacedOK
  <2> QED
    BY <2>1, <2>2
<1>14. PendingOK'
  BY <1>1, <1>9 DEF ArenaInv, PendingOK, TensorsOf
<1>15. ScanOK'
  BY <1>1 DEF ScanOK
<1>16. WithinBuffer'
  <2> SUFFICES ASSUME NEW u \in Tensor
               PROVE  allocs'[u].offset + allocs'[u].size <= highWater'
    BY <1>1 DEF WithinBuffer
  <2>1. CASE u = t
    BY <1>8, <1>9, <1>10, <2>1
  <2>2. CASE u # t
    <3>1. /\ allocs[u].offset + allocs[u].size <= highWater
          /\ allocs[u].offset \in Nat /\ allocs[u].size \in Nat
      BY <1>9 DEF ArenaInv, WithinBuffer, Allocs
    <3> QED
      BY <1>9, <1>10, <2>2, <3>1
  <2> QED
    BY <2>1, <2>2
<1>17. ASSUME NEW u \in Tensor, u # t, allocs[u].size # 0,
              ~(allocs[u].last < new.first), ~(new.last < allocs[u].first)
       PROVE  Disjoint(allocs[u], new) /\ Disjoint(new, allocs[u])
  <2>1. /\ allocs[u].last \in Int /\ allocs[u].first \in Int
        /\ allocs[u].size \in Nat /\ allocs[u].offset \in Nat
    BY <1>9 DEF Allocs
  <2>2. allocs[u] \in active
    BY <1>5, <1>8, <1>17, <2>1 DEF ArenaInv, Tracked
  <2>3. ~Apart(allocs[u], t)
    BY <1>3, <1>5, <1>8, <1>17, <2>1 DEF Apart
  <2> QED
    BY <1>7, <1>8, <2>2, <2>3 DEF Disjoint
<1>18. NoOverlap'
  <2> SUFFICES ASSUME NEW u \in Tensor, NEW v \in Tensor, u # v
               PROVE  \/ allocs'[u].size = 0
                      \/ allocs'[v].size = 0
                      \/ allocs'[u].last < allocs'[v].first
                      \/ allocs'[v].last < allocs'[u].first
                      \/ Disjoint(allocs'[u], allocs'[v])
    BY DEF NoOverlap, Disjoint
  <2>1. CASE u = t
    BY <1>9, <1>17, <2>1
  <2>2. CASE v = t
    BY <1>9, <1>17, <2>2
  <2>3. CASE u # t /\ v # t
    BY <1>9, <2>3 DEF ArenaInv, NoOverlap
  <2> QED
    BY <2>1, <2>2, <2>3
<1>19. Tracked'
  BY <1>1, <1>9 DEF ArenaInv, Tracked
<1> QED
  BY <1>11, <1>12, <1>13, <1>14, <1>15, <1>16, <1>18, <1>19 DEF ArenaInv

(* The buffer is committed.                                                *)
LEMMA PlacedKeeps ==
  ASSUME ArenaInv, Placed
  PROVE  ArenaInv'
<1>1. /\ pc = "place" /\ scan = NoScan /\ Commit
      /\ pc' \in {"idle", "execute"} /\ nextPlan' = prep + 1
      /\ pc' = "idle" => status' = "ok"
      /\ pc' = "execute" => call # "allocate"
      /\ UNCHANGED <<graph, bytes, type, active, highWater, allocs, lastUse,
                     lastActive, scan, call, planned, nextPrepare, prep, node>>
  BY DEF Placed, EndAllocations, Return, plannerVars, loopVars
<1>2. /\ nextPlan \in 0..NumNodes /\ prep + 1 \in 0..NumNodes
      /\ nextPlan <= prep /\ nextPrepare = prep + 1
      /\ pc' = "execute" => node <= prep
      /\ prep \in Int /\ node \in Int /\ planned
  BY <1>1, PlannerAssumption
  DEF ArenaInv, ArenaTypeOK, Stages, Planner, Node
<1>3. /\ buffer'.size = Larger(buffer.size, highWater)
      /\ buffer' \in [size : Nat, base : Nat]
  BY <1>1 DEF Commit, ArenaInv, ArenaTypeOK, Larger
<1>4. highWater <= buffer'.size
  BY <1>3 DEF Larger, ArenaInv, ArenaTypeOK
<1>5. ArenaTypeOK'
  BY <1>1, <1>2, <1>3 DEF ArenaInv, ArenaTypeOK
<1>6. Stages' /\ Planner'
  BY <1>1, <1>2 DEF ArenaInv, Stages, Planner
<1>7. PlacedOK' /\ PendingOK' /\ ScanOK'
  BY <1>1 DEF ArenaInv, PlacedOK, TensorsOf, PendingOK, ScanOK
<1>8. WithinBuffer' /\ NoOverlap'
  BY <1>1, <1>4 DEF ArenaInv, WithinBuffer, NoOverlap, Disjoint
<1>9. Tracked'
  <2> SUFFICES ASSUME NEW t \in Tensor, allocs[t].size > 0,
                      allocs[t].last >= prep + 1
               PROVE  allocs[t] \in active
    BY <1>1 DEF Tracked
  <2>1. allocs[t].last \in Int
    BY DEF ArenaInv, ArenaTypeOK, Allocs
  <2> QED
    BY <1>2, <2>1 DEF ArenaInv, Tracked
<1> QED
  BY <1>5, <1>6, <1>7, <1>8, <1>9 DEF ArenaInv

-----------------------------------------------------------------------------
(* Executing                                                               *)

(* A dynamic output is resized: what is needed later is taken back, and    *)
(* what is kept and still needed stays active.                             *)
LEMMA ExecuteDynamicKeeps ==
  ASSUME ArenaInv, ExecuteDynamic
  PROVE  ArenaInv'
<1> DEFINE out == graph.out[node]
<1>1. PICK b \in Bytes, resized \in BOOLEAN :
        /\ bytes' = [bytes EXCEPT ![out] = b]
        /\ nextPrepare' = IF resized THEN node + 1 ELSE nextPrepare
        /\ nextPlan' = IF resized /\ nextPlan > node + 1
                       THEN node + 1 ELSE nextPlan
        /\ IF resized /\ nextPlan > node + 1
           THEN ResetAllocationsAfter(node)
           ELSE UNCHANGED <<allocs, active, lastActive>>
  BY DEF ExecuteDynamic
<1>2. /\ pc = "execute" /\ pc' = "execute" /\ node' = node + 1
      /\ node < NumNodes /\ node # nextPrepare
      /\ UNCHANGED <<graph, type, highWater, buffer, lastUse, pending, scan>>
      /\ UNCHANGED <<call, status, planned, prep>>
  BY DEF ExecuteDynamic, Executing, loopVars
<1>3. /\ nextPlan = nextPrepare /\ node < nextPlan
      /\ nextPlan \in 0..NumNodes /\ node \in 0..NumNodes /\ NumNodes \in Nat
      /\ planned /\ lastActive = nextPlan - 1
  BY <1>2, PlannerAssumption DEF ArenaInv, ArenaTypeOK, Stages, Planner
<1>4. bytes' \in [Tensor -> Bytes]
  BY <1>1 DEF ArenaInv, ArenaTypeOK
<1>5. /\ nextPrepare' = nextPlan' /\ nextPlan' \in 0..NumNodes
      /\ node' \in 0..NumNodes /\ node' <= nextPrepare'
      /\ nextPlan' <= nextPlan
  BY <1>1, <1>2, <1>3
<1>6. Stages'
  BY <1>2, <1>5 DEF ArenaInv, Stages
<1>7. PendingOK' /\ ScanOK'
  BY <1>2 DEF ArenaInv, PendingOK, ScanOK
<1>8. CASE UNCHANGED <<allocs, active, lastActive, nextPlan>>
  <2>1. ArenaTypeOK' /\ Planner'
    BY <1>2, <1>3, <1>4, <1>5, <1>8 DEF ArenaInv, ArenaTypeOK, Planner
  <2>2. PlacedOK'
    BY <1>2, <1>3, <1>5, <1>8 DEF ArenaInv, PlacedOK, TensorsOf
  <2>3. WithinBuffer' /\ NoOverlap' /\ Tracked'
    BY <1>2, <1>8 DEF ArenaInv, WithinBuffer, NoOverlap, Disjoint, Tracked
  <2> QED
    BY <1>6, <1>7, <2>1, <2>2, <2>3 DEF ArenaInv
<1>9. CASE nextPlan' = node + 1 /\ ResetAllocationsAfter(node)
           /\ nextPlan > node + 1
  <2> DEFINE kept == [t \in Tensor |-> IF Dropped(t, node) THEN NoAlloc
                                                         ELSE allocs[t]]
  <2>1. /\ allocs' = kept /\ lastActive' = node
        /\ active' = {a \in {kept[t] : t \in Tensor} :
                        a.first <= node /\ a.last >= node}
    BY <1>3, <1>9 DEF ResetAllocationsAfter, ActiveAt
  <2>2. NoAlloc \in Allocs /\ NoAlloc.size = 0 /\ NoAlloc.offset = 0
    BY DEF NoAlloc, Allocs, Unset
  <2>3. allocs' \in [Tensor -> Allocs] /\ active' \subseteq Allocs
    BY <2>1, <2>2 DEF ArenaInv, ArenaTypeOK
  <2>4. ASSUME NEW t \in Tensor, allocs'[t].size # 0
        PROVE  /\ allocs'[t] = allocs[t] /\ allocs[t].size > 0
               /\ type[t] = "arena" /\ allocs[t].first \in Node
               /\ allocs[t].first <= node
               /\ t \in TensorsOf(graph, allocs[t].first)
    <3>1. allocs'[t] = allocs[t] /\ ~Dropped(t, node)
      BY <2>1, <2>2, <2>4
    <3>2. allocs[t].size \in Nat /\ allocs[t].first \in Int
      BY DEF ArenaInv, ArenaTypeOK, Allocs
    <3>3. allocs[t].size > 0
      BY <2>4, <3>1, <3>2
    <3>4. /\ type[t] = "arena" /\ allocs[t].first \in Node
          /\ t \in TensorsOf(graph, allocs[t].first)
      BY <3>3 DEF ArenaInv, PlacedOK
    <3> QED
      BY <1>3, <3>1, <3>2, <3>3, <3>4 DEF Dropped
  <2>5. ASSUME NEW t \in Tensor
        PROVE  allocs'[t].size = 0 \/ allocs'[t] = allocs[t]
    BY <2>4
  <2>6. ArenaTypeOK'
    BY <1>2, <1>4, <1>5, <2>3 DEF ArenaInv, ArenaTypeOK
  <2>7. Planner'
    BY <1>2, <1>3, <1>9, <2>1 DEF ArenaInv, Planner
  <2>8. PlacedOK'
    <3> SUFFICES ASSUME NEW t \in Tensor, allocs'[t].size > 0
                 PROVE  /\ type[t] = "arena"
                        /\ allocs'[t].first \in Node
                        /\ allocs'[t].first < nextPrepare'
                        /\ t \in TensorsOf(graph, allocs'[t].first)
      BY <1>2 DEF PlacedOK, TensorsOf
    <3>1. nextPrepare' = node + 1 /\ node \in Int
      BY <1>3, <1>5, <1>9
    <3> QED
      BY <2>4, <3>1, PlannerAssumption DEF Node
  <2>9. WithinBuffer'
    <3> SUFFICES ASSUME NEW t \in Tensor
                 PROVE  allocs'[t].offset + allocs'[t].size <= highWater
      BY <1>2 DEF ArenaInv, WithinBuffer
    <3>1. allocs'[t] = NoAlloc \/ allocs'[t] = allocs[t]
      BY <2>1
    <3>2. highWater \in Nat
      BY DEF ArenaInv, ArenaTypeOK
    <3> QED
      BY <2>2, <3>1, <3>2 DEF ArenaInv, WithinBuffer
  <2>10. NoOverlap'
    <3> SUFFICES ASSUME NEW t \in Tensor, NEW u \in Tensor, t # u,
                        allocs'[t].size # 0, allocs'[u].size # 0
                 PROVE  \/ allocs'[t].last < allocs'[u].first
                        \/ allocs'[u].last < allocs'[t].first
                        \/ Disjoint(allocs'[t], allocs'[u])
      BY DEF NoOverlap, Disjoint
    <3>1. allocs'[t] = allocs[t] /\ allocs'[u] = allocs[u]
      BY <2>5
    <3> QED
      BY <3>1 DEF ArenaInv, NoOverlap
  <2>11. Tracked'
    <3> SUFFICES ASSUME NEW t \in Tensor, allocs'[t].size > 0,
                        allocs'[t].last >= node + 1
                 PROVE  allocs'[t] \in active'
      BY <1>9 DEF Tracked
    <3>1. allocs'[t].first <= node /\ allocs'[t].last \in Int
      BY <2>3, <2>4 DEF Allocs
    <3>2. allocs'[t].last >= node
      BY <1>3, <3>1
    <3> QED
      BY <2>1, <3>1, <3>2
  <2> QED
    BY <1>6, <1>7, <2>6, <2>7, <2>8, <2>9, <2>10, <2>11 DEF ArenaInv
<1> QED
  BY <1>1, <1>3, <1>8, <1>9

-----------------------------------------------------------------------------
(* The theorems about the arena                                            *)

(* The new planner has placed nothing.                                     *)
LEMMA ArenaInit ==
  ASSUME Init
  PROVE  ArenaInv
<1> USE DEF Init, PlannerInit
<1>1. 0 \in Node /\ 0 \in 0..NumNodes /\ Never \in Nat
  BY PlannerAssumption DEF Node, Never
<1>2. NoAlloc \in Allocs /\ NoAlloc.size = 0 /\ NoAlloc.offset = 0
  BY DEF NoAlloc, Allocs, Unset
<1>3. ArenaTypeOK
  BY <1>1, <1>2 DEF ArenaTypeOK
<1>4. Stages /\ Planner
  BY <1>2 DEF Stages, Planner
<1>5. PlacedOK /\ PendingOK /\ ScanOK /\ WithinBuffer
  BY <1>2 DEF PlacedOK, PendingOK, ScanOK, WithinBuffer
<1>6. NoOverlap /\ Tracked
  BY <1>2 DEF NoOverlap, Tracked
<1> QED
  BY <1>3, <1>4, <1>5, <1>6 DEF ArenaInv

(* Nothing happens.                                                        *)
LEMMA ArenaStutter ==
  ASSUME ArenaInv, UNCHANGED vars
  PROVE  ArenaInv'
<1> USE DEF vars, tensorVars, arenaVars, plannerVars, loopVars, driverVars
<1>1. ArenaTypeOK' /\ Stages' /\ Planner'
  BY DEF ArenaInv, ArenaTypeOK, Stages, Planner
<1>2. PlacedOK' /\ PendingOK'
  BY DEF ArenaInv, PlacedOK, PendingOK, TensorsOf
<1>3. ScanOK'
  BY DEF ArenaInv, ScanOK, Free, Apart, FirstUse, TensorsOf
<1>4. WithinBuffer' /\ NoOverlap' /\ Tracked'
  BY DEF ArenaInv, WithinBuffer, NoOverlap, Disjoint, Tracked
<1> QED
  BY <1>1, <1>2, <1>3, <1>4 DEF ArenaInv

(* Every step of the subgraph.                                             *)
LEMMA ArenaNext == ArenaInv /\ [Next]_vars => ArenaInv'
<1> SUFFICES ASSUME ArenaInv, [Next]_vars PROVE ArenaInv'
  OBVIOUS
<1>1. CASE Place
  BY <1>1, BeginKeeps, VisitKeeps, EndKeeps DEF Place
<1>2. CASE Plan \/ Placed \/ ExecuteDynamic
  BY <1>2, PlanKeeps, PlacedKeeps, ExecuteDynamicKeeps
<1>3. CASE AllocateTensors \/ PrepareOp \/ PrepareFails \/ PrepareRest
  BY <1>3, AllocateTensorsKeeps, PrepareOpKeeps, PrepareFailsKeeps,
     PrepareRestKeeps
<1>4. CASE Invoke \/ ExecuteStatic \/ ExecuteFails \/ InvokeReturns
  BY <1>4, InvokeKeeps, ExecuteStaticKeeps, ExecuteFailsKeeps,
     InvokeReturnsKeeps
<1>5. CASE UNCHANGED vars
  BY <1>5, ArenaStutter
<1> QED
  BY <1>1, <1>2, <1>3, <1>4, <1>5 DEF Next

(***************************************************************************)
(* The invariant of the arena holds for every graph, however often Invoke  *)
(* resizes outputs, and also after a Prepare or an operator has failed.    *)
(***************************************************************************)
THEOREM ArenaInductive == Spec => []ArenaInv
<1>1. Init => ArenaInv
  BY ArenaInit
<1> QED
  BY <1>1, ArenaNext, PTL DEF Spec

(***************************************************************************)
(* Tensors that are needed at a common node never share a byte of the      *)
(* arena, whatever the sizes and the alignment are and in how many pieces  *)
(* arena_planner.cc has planned.                                           *)
(***************************************************************************)
THEOREM ArenaDisjoint == Spec => []NoOverlap
<1>1. ArenaInv => NoOverlap
  BY DEF ArenaInv
<1> QED
  BY <1>1, ArenaInductive, PTL

(***************************************************************************)
(* active_allocs_ never loses a tensor that is needed at or after the next *)
(* node to be placed, through purges and resets.                           *)
(***************************************************************************)
THEOREM ArenaTracked == Spec => []Tracked
<1>1. ArenaInv => Tracked
  BY DEF ArenaInv
<1> QED
  BY <1>1, ArenaInductive, PTL

-----------------------------------------------------------------------------
(* Who takes whose place                                                   *)

(* A set of natural numbers has a least one ...                            *)
LEMMA Least ==
  ASSUME NEW T \in SUBSET Nat, T # {}
  PROVE  \E x \in T : \A y \in T : x <= y
<1> DEFINE R == OpToRel(<, Nat)
<1>1. T \subseteq Nat
  OBVIOUS
<1>2. IsWellFoundedOn(R, Nat)
  BY NatLessThanWellFounded
<1>3. \A x, y \in Nat : y < x => <<y, x>> \in R
  BY DEF OpToRel
<1> HIDE DEF R
<1>4. PICK x \in T : \A y \in T : <<y, x>> \notin R
  BY <1>1, <1>2, WFMin
<1>5. ASSUME NEW y \in T PROVE x <= y
  <2>1. x \in Nat /\ y \in Nat /\ ~(y < x)
    BY <1>1, <1>3, <1>4
  <2> QED
    BY <2>1
<1> QED
  BY <1>5

(* ... so that a set with 0 and all successors of its elements holds all.  *)
LEMMA Induction ==
  ASSUME NEW S \in SUBSET Nat, 0 \in S, \A n \in Nat : n \in S => n + 1 \in S
  PROVE  \A n \in Nat : n \in S
<1> SUFFICES ASSUME NEW n \in Nat, n \notin S PROVE FALSE
  OBVIOUS
<1> DEFINE T == {m \in Nat : m \notin S}
<1>1. PICK x \in T : \A y \in T : x <= y
  BY Least
<1>2. x - 1 \in Nat /\ x - 1 \notin T
  BY <1>1
<1> QED
  BY <1>1, <1>2

(* The recursion over the nodes defines a function.                        *)
LEMMA ActualTensorDef ==
  /\ ActualTensor[0] = [t \in Tensor |-> t]
  /\ \A n \in Node :
        ActualTensor[n + 1] = TakePlace(ActualTensor[n], n)
<1> DEFINE id == [t \in Tensor |-> t]
           Rec(f, n) == f = [i \in 0..n |-> IF i = 0 THEN id
                                            ELSE TakePlace(f[i - 1], i - 1)]
           S == {n \in Nat : \E f : Rec(f, n)}
<1> HIDE DEF id
<1>1. 0 \in S
  <2>1. Rec([i \in 0..0 |-> id], 0)
    OBVIOUS
  <2> QED
    BY <2>1
<1>2. ASSUME NEW n \in Nat, n \in S PROVE n + 1 \in S
  <2>1. PICK f : Rec(f, n)
    BY <1>2
  <2> DEFINE g == [i \in 0..(n + 1) |-> IF i = n + 1 THEN TakePlace(f[n], n)
                                                     ELSE f[i]]
  <2>2. ASSUME NEW i \in 0..(n + 1)
        PROVE  g[i] = IF i = 0 THEN id ELSE TakePlace(g[i - 1], i - 1)
    <3>1. CASE i = n + 1
      BY <3>1
    <3>2. CASE i # n + 1
      <4>1. i \in 0..n /\ g[i] = f[i] /\ (i # 0 => g[i - 1] = f[i - 1])
        BY <3>2
      <4> QED
        BY <2>1, <4>1
    <3> QED
      BY <3>1, <3>2
  <2>3. Rec(g, n + 1)
    BY <2>2
  <2> HIDE DEF g, Rec
  <2>4. n + 1 \in Nat /\ \E h : Rec(h, n + 1)
    BY <2>3
  <2> QED
    BY <2>4
<1>3. NumNodes \in S
  BY <1>1, <1>2, Induction, PlannerAssumption
<1>4. Rec(ActualTensor, NumNodes)
  <2>1. \E f : Rec(f, NumNodes)
    BY <1>3
  <2> QED
    BY <2>1 DEF ActualTensor, id
<1>5. ASSUME NEW i \in 0..NumNodes
      PROVE  ActualTensor[i] =
                IF i = 0 THEN id ELSE TakePlace(ActualTensor[i - 1], i - 1)
  BY <1>4
<1>6. 0 \in 0..NumNodes
  BY PlannerAssumption
<1>7. ASSUME NEW n \in Node
      PROVE  ActualTensor[n + 1] = TakePlace(ActualTensor[n], n)
  <2>1. n + 1 \in 0..NumNodes /\ n + 1 # 0 /\ (n + 1) - 1 = n
    BY PlannerAssumption DEF Node
  <2>2. ActualTensor[n + 1] = TakePlace(ActualTensor[(n + 1) - 1], (n + 1) - 1)
    BY <1>5, <2>1
  <2> QED
    BY <2>1, <2>2
<1> QED
  BY <1>5, <1>6, <1>7 DEF id

(* A tensor stands for itself, or is the output of one of the first i      *)
(* nodes and lies on a tensor that stands for itself and is not computed   *)
(* later.                                                                  *)
Sharing(actual, i) ==
    /\ actual \in [Tensor -> Tensor]
    /\ \A t \in Tensor : actual[actual[t]] = actual[t]
    /\ \A t \in Tensor : actual[t] # t =>
          \E n \in Node : /\ n < i
                          /\ t = graph.out[n]
                          /\ \A k \in Node : actual[t] = graph.out[k] => k < n

(* The input chosen is an input.                                           *)
LEMMA FirstCandidateOK ==
  ASSUME graph \in Graphs, NEW n \in Node, Candidates(n) # {}
  PROVE  /\ FirstCandidate(n) \in Tensor
         /\ \A k \in Node : FirstCandidate(n) = graph.out[k] => k < n
<1>1. /\ Candidates(n) \subseteq {1, 2}
      /\ Candidates(n) \subseteq DOMAIN graph.in[n]
  BY DEF Candidates, ShareablePositions
<1> DEFINE j == CHOOSE j \in Candidates(n) : \A k \in Candidates(n) : j <= k
<1>2. \E m \in Candidates(n) : \A k \in Candidates(n) : m <= k
  BY <1>1, Least
<1>3. j \in DOMAIN graph.in[n]
  BY <1>1, <1>2
<1>4. FirstCandidate(n) = graph.in[n][j]
  BY DEF FirstCandidate
<1> HIDE DEF j
<1>5. graph.in[n][j] \in Tensor
  BY <1>3, GraphOK
<1>6. \A k \in Node : graph.in[n][j] = graph.out[k] => k < n
  BY <1>3, GraphAssumption
<1> QED
  BY <1>4, <1>5, <1>6

(* One more output takes the place of its input.                           *)
LEMMA TakePlaceOK ==
  ASSUME graph \in Graphs, NEW n \in Node, NEW A, Sharing(A, n)
  PROVE  Sharing(TakePlace(A, n), n + 1)
<1> DEFINE x == FirstCandidate(n)
           out == graph.out[n]
           B == [A EXCEPT ![out] = A[x]]
<1>1. /\ A \in [Tensor -> Tensor] /\ out \in Tensor /\ n \in Int
      /\ Node \subseteq Int
  BY GraphOK DEF Sharing, Node
<1>2. \A i, k \in Node : graph.out[i] = graph.out[k] => i = k
  BY GraphAssumption DEF TensorsOf
<1>3. CASE TakePlace(A, n) = A
  BY <1>1, <1>3 DEF Sharing
<1>4. CASE TakePlace(A, n) = B /\ Candidates(n) # {}
  <2>1. x \in Tensor /\ \A k \in Node : x = graph.out[k] => k < n
    BY <1>4, FirstCandidateOK
  <2> HIDE DEF x, out
  <2>2. \A t \in Tensor : t # out => A[t] # out
    <3> SUFFICES ASSUME NEW t \in Tensor, t # out, A[t] = out PROVE FALSE
      OBVIOUS
    <3>1. PICK m \in Node :
            m < n /\ \A k \in Node : A[t] = graph.out[k] => k < m
      BY DEF Sharing
    <3>2. n < m
      BY <3>1 DEF out
    <3>3. m \in Int /\ n \in Int /\ m < n
      BY <3>1 DEF Node
    <3> QED
      BY <3>2, <3>3
  <2>3. A[x] # out /\ A[x] \in Tensor /\ x # out
    <3>1. x # out
      BY <1>1, <2>1 DEF out
    <3> QED
      BY <1>1, <2>1, <2>2, <3>1
  <2>4. /\ B \in [Tensor -> Tensor] /\ B[out] = A[x]
        /\ \A t \in Tensor : t # out => B[t] = A[t]
    BY <1>1, <2>3
  <2> HIDE DEF B
  <2>5. ASSUME NEW t \in Tensor PROVE B[B[t]] = B[t]
    BY <1>1, <2>1, <2>2, <2>3, <2>4 DEF Sharing
  <2>6. ASSUME NEW t \in Tensor, B[t] # t
        PROVE  \E m \in Node :
                  /\ m < n + 1
                  /\ t = graph.out[m]
                  /\ \A k \in Node : B[t] = graph.out[k] => k < m
    <3>1. CASE t = out
      <4>1. ASSUME NEW k \in Node, A[x] = graph.out[k] PROVE k < n
        <5>1. CASE A[x] = x
          BY <2>1, <4>1, <5>1
        <5>2. CASE A[x] # x
          <6>1. PICK m \in Node :
                  m < n /\ \A l \in Node : A[x] = graph.out[l] => l < m
            BY <2>1, <5>2 DEF Sharing
          <6>2. k < m
            BY <4>1, <6>1
          <6> QED
            BY <1>1, <6>1, <6>2
        <5> QED
          BY <5>1, <5>2
      <4>2. n < n + 1 /\ t = graph.out[n] /\ B[t] = A[x]
        BY <1>1, <2>4, <3>1 DEF out
      <4> QED
        BY <4>1, <4>2
    <3>2. CASE t # out
      <4>1. B[t] = A[t] /\ A[t] # t
        BY <2>4, <2>6, <3>2
      <4>2. PICK m \in Node : /\ m < n
                              /\ t = graph.out[m]
                              /\ \A k \in Node : A[t] = graph.out[k] => k < m
        BY <4>1 DEF Sharing
      <4>3. m < n + 1
        BY <1>1, <4>2
      <4> QED
        BY <4>1, <4>2, <4>3
    <3> QED
      BY <3>1, <3>2
  <2> QED
    BY <1>4, <2>4, <2>5, <2>6 DEF Sharing
<1> QED
  BY <1>3, <1>4 DEF TakePlace

(* What IdentifyInPlaceTensors computes, for every graph.                  *)
LEMMA InPlaceOK ==
  ASSUME graph \in Graphs
  PROVE  Sharing(IdentifyInPlaceTensors, NumNodes)
<1> DEFINE S == {i \in Nat : i <= NumNodes => Sharing(ActualTensor[i], i)}
<1>1. 0 \in S
  BY ActualTensorDef DEF Sharing
<1>2. ASSUME NEW n \in Nat, n \in S PROVE n + 1 \in S
  <2> SUFFICES ASSUME n + 1 <= NumNodes
               PROVE  Sharing(ActualTensor[n + 1], n + 1)
    OBVIOUS
  <2>1. n \in Node /\ n <= NumNodes
    BY PlannerAssumption DEF Node
  <2> QED
    BY <1>2, <2>1, ActualTensorDef, TakePlaceOK
<1>3. NumNodes \in S
  BY <1>1, <1>2, Induction, PlannerAssumption
<1> QED
  BY <1>3, PlannerAssumption DEF IdentifyInPlaceTensors

-----------------------------------------------------------------------------
(* The inductive invariant of the data pointers                            *)

Pointers == [at : {"null", "heap", "arena"}, base : Nat, offset : Nat]

InArena(t) == data[t].at = "arena"

(* The outputs that are sized when their node is executed.                 *)
Dynamic == {t \in Tensor :
              \E i \in Node : graph.op[i] = "dynamic" /\ t = graph.out[i]}

(* They, and no other, have been recognised up to the node that is         *)
(* prepared next.                                                          *)
Recognised ==
    /\ \A i \in Node :
          /\ graph.op[i] = "dynamic"
          /\ i < IF pc = "prepare" THEN prep ELSE nextPrepare
          => type[graph.out[i]] # "arena"
    /\ \A t \in Tensor : type[t] # "arena" => t \in Dynamic

(* A tensor has a pointer into the arena only if it, or what it lies on,   *)
(* will get a new one when the buffer moves.                               *)
Movable ==
    /\ \A t \in Tensor : type[t] # "arena" => ~InArena(t)
    /\ \A t \in Tensor \ pending : allocs[t].size = 0 =>
          /\ shared[t] = t => ~InArena(t)
          /\ shared[t] \in Dynamic => ~InArena(t)

PointerInv ==
    /\ data \in [Tensor -> Pointers]
    /\ Sharing(shared, NumNodes)
    /\ Recognised
    /\ Movable
    /\ pc # "place" => pending = {}
    /\ ~planned => \A t \in Tensor : ~InArena(t)
    /\ \A t \in Tensor : InArena(t) => data[t].base = buffer.base

(* A dynamic output is never placed in the arena.                          *)
LEMMA DynamicUnplaced ==
  ASSUME ArenaInv, Recognised, NEW t \in Dynamic
  PROVE  allocs[t].size = 0
<1>1. PICK i \in Node : graph.op[i] = "dynamic" /\ t = graph.out[i]
  BY DEF Dynamic
<1>2. t \in Tensor /\ allocs[t].size \in Nat
  BY DEF Dynamic, ArenaInv, ArenaTypeOK, Allocs
<1>3. ASSUME allocs[t].size > 0 PROVE FALSE
  <2>1. /\ type[t] = "arena" /\ allocs[t].first \in Node
        /\ allocs[t].first < nextPrepare
        /\ t \in TensorsOf(graph, allocs[t].first)
    BY <1>2, <1>3 DEF ArenaInv, PlacedOK
  <2>2. t \in TensorsOf(graph, i) /\ graph \in Graphs
    BY <1>1 DEF TensorsOf, ArenaInv, ArenaTypeOK
  <2>3. i = allocs[t].first
    BY <2>1, <2>2, FirstUseOK
  <2>4. i < IF pc = "prepare" THEN prep ELSE nextPrepare
    BY <2>1, <2>3 DEF ArenaInv, Stages, ArenaTypeOK, Node
  <2> QED
    BY <1>1, <2>1, <2>4 DEF Recognised
<1> QED
  BY <1>2, <1>3

(* A step that sets no pointer into the arena and moves no buffer.         *)
LEMMA PointerStep ==
  ASSUME PointerInv, UNCHANGED <<graph, shared, buffer, planned>>,
         data' \in [Tensor -> Pointers], Recognised',
         pc' # "place" => pending' = {},
         \A t \in Tensor : data'[t] = data[t] \/ data'[t].at # "arena",
         \A t \in Tensor : type'[t] = type[t] \/ data'[t].at # "arena",
         \A t \in Tensor \ pending' :
            \/ t \notin pending /\ allocs[t].size = 0
            \/ allocs'[t].size # 0
            \/ data'[t].at # "arena"
  PROVE  PointerInv'
<1>1. Dynamic' = Dynamic
  BY DEF Dynamic
<1>2. Sharing(shared, NumNodes)'
  BY DEF PointerInv, Sharing
<1>3. ASSUME NEW t \in Tensor, type'[t] # "arena" PROVE data'[t].at # "arena"
  BY <1>3 DEF PointerInv, Movable, InArena
<1>4. ASSUME NEW t \in Tensor \ pending', allocs'[t].size = 0,
             shared[t] = t \/ shared[t] \in Dynamic
      PROVE  data'[t].at # "arena"
  BY <1>4 DEF PointerInv, Movable, InArena
<1>5. Movable'
  BY <1>1, <1>3, <1>4 DEF Movable, InArena
<1>6. (~planned => \A t \in Tensor : ~InArena(t))'
  BY DEF PointerInv, InArena
<1>7. (\A t \in Tensor : InArena(t) => data[t].base = buffer.base)'
  BY DEF PointerInv, InArena
<1> QED
  BY <1>2, <1>5, <1>6, <1>7 DEF PointerInv

(* A step that leaves types and pointers alone and prepares nothing.       *)
LEMMA PointersKept ==
  ASSUME PointerInv, UNCHANGED <<graph, shared, buffer, planned, data>>,
         UNCHANGED <<type, allocs, pending>>, Recognised',
         pc # "place", pc' # "place"
  PROVE  PointerInv'
  BY PointerStep DEF PointerInv

(* The dynamic outputs stay recognised while the driver goes on.           *)
LEMMA RecognisedKept ==
  ASSUME ArenaInv, ArenaInv', Recognised, UNCHANGED <<graph, type>>,
         (IF pc = "prepare" THEN prep ELSE nextPrepare)' <=
            IF pc = "prepare" THEN prep ELSE nextPrepare
  PROVE  Recognised'
<1> DEFINE m == IF pc = "prepare" THEN prep ELSE nextPrepare
<1>1. m \in Int /\ m' \in Int
  BY DEF ArenaInv, ArenaTypeOK, Node
<1>2. ASSUME NEW i \in Node, i < m' PROVE i < m
  BY <1>1, <1>2 DEF Node
<1>3. Dynamic' = Dynamic
  BY DEF Dynamic
<1> QED
  BY <1>2, <1>3 DEF Recognised

(* The steps of the driver that leave the tensors alone.                   *)
LEMMA DriverPointers ==
  ASSUME ArenaInv, ArenaInv', PointerInv, UNCHANGED <<bytes, data, type>>,
         AllocateTensors \/ PrepareFails \/ Invoke \/ PrepareRest
            \/ ExecuteStatic \/ InvokeReturns
  PROVE  PointerInv'
<1> USE DEF AllocateTensors, PrepareFails, Invoke, PrepareRest, ExecuteStatic,
            Executing, InvokeReturns, Return
<1>1. /\ UNCHANGED <<graph, shared, buffer, planned, data>>
      /\ UNCHANGED <<type, allocs, pending>>
      /\ pc # "place" /\ pc' # "place"
  BY DEF tensorVars, arenaVars, plannerVars, loopVars
<1>2. /\ prep \in Node /\ nextPrepare \in 0..NumNodes /\ 0 <= nextPrepare
      /\ pc = "prepare" => nextPrepare <= prep
      /\ prep <= prep /\ nextPrepare <= nextPrepare
  BY DEF ArenaInv, ArenaTypeOK, Stages, Node
<1>3. (IF pc = "prepare" THEN prep ELSE nextPrepare)' <=
         IF pc = "prepare" THEN prep ELSE nextPrepare
  BY <1>2
<1>4. Recognised'
  BY <1>1, <1>3, RecognisedKept DEF PointerInv
<1> QED
  BY <1>1, <1>4, PointersKept

(* A tensor that turns dynamic, or changes its size, loses its pointer.    *)
LEMMA PreparePointers ==
  ASSUME ArenaInv, ArenaInv', PointerInv, Prepare(prep),
         PrepareOp \/ PrepareFails
  PROVE  PointerInv'
<1>1. /\ pc = "prepare" /\ pc' # "place"
      /\ UNCHANGED <<graph, shared, buffer, planned, allocs, pending>>
  BY DEF PrepareOp, PrepareFails, Return, arenaVars, plannerVars, loopVars
<1>2. prep \in Node /\ graph.out[prep] \in Tensor /\ prep \in Int
  BY GraphOK DEF ArenaInv, ArenaTypeOK, Node
<1>3. /\ type \in [Tensor -> {"arena", "dynamic"}]
      /\ \A t \in Tensor : type'[t] = type[t] \/ type'[t] = "dynamic"
      /\ graph.op[prep] = "dynamic" => type'[graph.out[prep]] = "dynamic"
  BY <1>2 DEF Prepare, ArenaInv, ArenaTypeOK
<1>4. PICK b \in PreparedBytes(prep), R \in SUBSET SizedByPrepare(prep) :
        data' = [t \in Tensor |->
                  IF \/ b[t] # bytes[t]
                     \/ t \in R
                     \/ /\ t = graph.out[prep]
                        /\ graph.op[prep] = "dynamic"
                        /\ type[t] # "dynamic"
                  THEN NullPtr
                  ELSE data[t]]
  BY DEF Prepare
<1>5. NullPtr \in Pointers /\ NullPtr.at # "arena"
  BY DEF NullPtr, Pointers
<1>6. /\ data' \in [Tensor -> Pointers]
      /\ \A t \in Tensor : data'[t] = data[t] \/ data'[t].at # "arena"
  BY <1>4, <1>5 DEF PointerInv
<1>7. \A t \in Tensor : type'[t] = type[t] \/ data'[t].at # "arena"
  BY <1>3, <1>4, <1>5 DEF Prepare
<1>8. Recognised'
  <2>a. \A t \in Tensor : type'[t] # "arena" => t \in Dynamic'
    <3>1. Dynamic' = Dynamic
      BY <1>1 DEF Dynamic
    <3>2. \A t \in Tensor : type'[t] = type[t] \/ t \in Dynamic
      BY <1>2 DEF Prepare, Dynamic, ArenaInv, ArenaTypeOK
    <3> QED
      BY <3>1, <3>2 DEF PointerInv, Recognised
  <2> SUFFICES ASSUME NEW i \in Node, graph.op[i] = "dynamic",
                      i < (IF pc = "prepare" THEN prep ELSE nextPrepare)'
               PROVE  type'[graph.out[i]] # "arena"
    BY <1>1, <2>a DEF Recognised
  <2>1. i < prep + 1
    BY <1>1, <1>2 DEF PrepareOp, PrepareFails, Return, ArenaInv, Stages,
       ArenaTypeOK, Node
  <2>2. CASE i = prep
    BY <1>3, <2>2
  <2>3. CASE i # prep
    <3>1. i < prep
      BY <1>2, <2>1, <2>3 DEF Node
    <3>2. graph.out[i] \in Tensor
      BY GraphOK DEF ArenaInv, ArenaTypeOK
    <3> QED
      BY <1>1, <1>3, <3>1, <3>2 DEF PointerInv, Recognised
  <2> QED
    BY <2>2, <2>3
<1>9. pending = {}
  BY <1>1 DEF PointerInv
<1>10. \A t \in Tensor \ pending' :
         (t \notin pending /\ allocs[t].size = 0) \/ allocs'[t].size # 0
  BY <1>1
<1> QED
  BY <1>1, <1>6, <1>7, <1>8, <1>9, <1>10, PointerStep

(* An output gets its memory from the heap, and what is planned anew loses *)
(* its pointer.                                                            *)
LEMMA ExecutePointers ==
  ASSUME ArenaInv, ArenaInv', PointerInv, ExecuteDynamic \/ ExecuteFails
  PROVE  PointerInv'
<1> DEFINE out == graph.out[node]
<1>1. /\ pc = "execute" /\ pc' # "place" /\ pc' # "prepare"
      /\ UNCHANGED <<graph, shared, buffer, planned, pending, type>>
  BY DEF ExecuteDynamic, ExecuteFails, Executing, Return, arenaVars,
     plannerVars, loopVars
<1>2. /\ HeapPtr \in Pointers /\ HeapPtr.at # "arena"
      /\ NullPtr \in Pointers /\ NullPtr.at # "arena"
      /\ data \in [Tensor -> Pointers] /\ pending = {}
  BY <1>1 DEF HeapPtr, NullPtr, Pointers, PointerInv
<1>3. nextPrepare' <= nextPrepare
  BY <1>1 DEF ExecuteDynamic, ExecuteFails, Executing, ArenaInv, Stages,
     ArenaTypeOK
<1>4. Recognised'
  BY <1>1, <1>3, RecognisedKept DEF PointerInv
<1>5. CASE ExecuteFails
  <2>1. /\ data' \in [Tensor -> Pointers] /\ UNCHANGED allocs
        /\ \A t \in Tensor : data'[t] = data[t] \/ data'[t] = HeapPtr
    BY <1>2, <1>5 DEF ExecuteFails, plannerVars
  <2> QED
    BY <1>1, <1>2, <1>4, <2>1, PointerStep
<1>6. CASE ExecuteDynamic
  <2>1. PICK replan \in BOOLEAN :
          /\ data' = [t \in Tensor |->
                        IF t = out THEN HeapPtr
                        ELSE IF replan /\ Dropped(t, node) THEN NullPtr
                        ELSE data[t]]
          /\ IF replan THEN ResetAllocationsAfter(node) ELSE UNCHANGED allocs
    BY <1>6 DEF ExecuteDynamic
  <2>2. /\ data' \in [Tensor -> Pointers]
        /\ \A t \in Tensor : data'[t] = data[t] \/ data'[t].at # "arena"
    BY <1>2, <2>1
  <2>3. ASSUME NEW t \in Tensor
        PROVE  \/ allocs'[t] = allocs[t]
               \/ data'[t].at # "arena"
    BY <1>2, <2>1 DEF ResetAllocationsAfter
  <2> QED
    BY <1>1, <1>2, <1>4, <2>2, <2>3, PointerStep
<1> QED
  BY <1>5, <1>6

(* The sharing is planned while no tensor points into the arena.           *)
LEMMA PlanPointers ==
  ASSUME ArenaInv, ArenaInv', PointerInv, Plan
  PROVE  PointerInv'
<1>1. /\ pc = "plan" /\ pc' = "place" /\ planned' = TRUE /\ pending = {}
      /\ UNCHANGED <<graph, data, type, allocs, buffer, nextPrepare>>
  BY DEF Plan, CalculateAllocations, tensorVars, PointerInv
<1>2. Recognised'
  <2>1. nextPrepare <= nextPrepare
    BY DEF ArenaInv, ArenaTypeOK
  <2> QED
    BY <1>1, <2>1, RecognisedKept DEF PointerInv
<1>3. CASE planned
  <2>1. UNCHANGED <<shared, planned>>
    BY <1>1, <1>3 DEF Plan
  <2> QED
    BY <1>1, <1>2, <2>1, PointerStep DEF PointerInv
<1>4. CASE ~planned
  <2>1. \A t \in Tensor : data[t].at # "arena"
    BY <1>4 DEF PointerInv, InArena
  <2>2. shared' = IdentifyInPlaceTensors /\ graph \in Graphs
    BY <1>4 DEF Plan, PlanAllocations, ArenaInv, ArenaTypeOK
  <2>3. Sharing(IdentifyInPlaceTensors, NumNodes)
    BY <2>2, InPlaceOK
  <2> DEFINE A == IdentifyInPlaceTensors
  <2> HIDE DEF A
  <2>4. Sharing(shared, NumNodes)'
    BY <1>1, <2>2, <2>3 DEF Sharing, A
  <2>5. Movable'
    BY <1>1, <2>1 DEF Movable, InArena
  <2> QED
    BY <1>1, <1>2, <2>1, <2>4, <2>5 DEF PointerInv, InArena
<1> QED
  BY <1>3, <1>4

(* What is shared lies on a tensor whose node was prepared before, so that *)
(* it is no dynamic output; what is placed gets memory of its own.         *)
LEMMA PlacePointers ==
  ASSUME ArenaInv, ArenaInv', PointerInv, Place
  PROVE  PointerInv'
<1>1. pc = "place" /\ UNCHANGED <<pc, planned, nextPrepare>>
  BY DEF Place, driverVars
<1>2. UNCHANGED <<graph, data, type, buffer>>
  BY DEF Place, KeepShared, BeginAllocate, Visit, EndAllocate, tensorVars,
     arenaVars
<1>3. Recognised'
  <2>1. nextPrepare <= nextPrepare
    BY DEF ArenaInv, ArenaTypeOK
  <2> QED
    BY <1>1, <1>2, <2>1, RecognisedKept DEF PointerInv
<1>4. ASSUME NEW t \in pending, KeepShared(t) PROVE PointerInv'
  <2>1. /\ shared[t] # t /\ type[shared[t]] = "arena"
        /\ pending' = pending \ {t} /\ UNCHANGED <<shared, allocs>>
    BY <1>4 DEF KeepShared, plannerVars
  <2>2. t \in Tensor /\ graph \in Graphs
    BY <1>1, <1>4 DEF ArenaInv, PendingOK, ArenaTypeOK
  <2>3. PICK i \in nextPlan..prep : t \in TensorsOf(graph, i)
    BY <1>1, <1>4 DEF ArenaInv, PendingOK
  <2>4. PICK n \in Node :
          /\ t = graph.out[n]
          /\ \A k \in Node : shared[t] = graph.out[k] => k < n
    BY <2>1, <2>2 DEF PointerInv, Sharing
  <2>5. i \in Node /\ n = i
    <3>1. i \in Node
      BY PlannerAssumption DEF ArenaInv, ArenaTypeOK, Node
    <3>2. t \in TensorsOf(graph, n)
      BY <2>4 DEF TensorsOf
    <3>3. FirstUse(t) = i /\ FirstUse(t) = n
      BY <2>2, <2>3, <3>1, <3>2, FirstUseOK
    <3> QED
      BY <3>1, <3>3
  <2>6. shared[t] \notin Dynamic
    <3> SUFFICES ASSUME NEW k \in Node, graph.op[k] = "dynamic",
                        shared[t] = graph.out[k]
                 PROVE  FALSE
      BY DEF Dynamic
    <3>1. k < n
      BY <2>4
    <3>2. /\ n <= prep /\ nextPrepare = prep + 1
          /\ prep \in Int /\ n \in Int /\ k \in Int
      BY <1>1, <2>5 DEF ArenaInv, Stages, ArenaTypeOK, Node
    <3>3. k < nextPrepare
      BY <3>1, <3>2
    <3> QED
      BY <1>1, <2>1, <3>3 DEF PointerInv, Recognised
  <2>7. Movable'
    <3>1. Dynamic' = Dynamic
      BY <1>2 DEF Dynamic
    <3> QED
      BY <1>2, <2>1, <2>6, <3>1 DEF PointerInv, Movable, InArena
  <2>8. Sharing(shared, NumNodes)'
    BY <1>2, <2>1 DEF PointerInv, Sharing
  <2> QED
    BY <1>1, <1>2, <1>3, <2>7, <2>8 DEF PointerInv, InArena
<1>5. ASSUME NEW t \in pending, BeginAllocate(t) PROVE PointerInv'
  <2>1. /\ shared' = [shared EXCEPT ![t] = t]
        /\ UNCHANGED <<allocs, pending>>
    BY <1>5 DEF BeginAllocate
  <2>2. shared \in [Tensor -> Tensor] /\ t \in Tensor
    BY <1>1, <1>5 DEF PointerInv, Sharing, ArenaInv, PendingOK
  <2>3. /\ shared' \in [Tensor -> Tensor] /\ shared'[t] = t
        /\ \A u \in Tensor : u # t => shared'[u] = shared[u]
    BY <2>1, <2>2
  <2>4. \A u \in Tensor : shared'[shared'[u]] = shared'[u]
    BY <2>2, <2>3 DEF PointerInv, Sharing
  <2>5. Sharing(shared, NumNodes)'
    BY <1>2, <2>3, <2>4 DEF PointerInv, Sharing
  <2>6. Movable'
    <3>1. Dynamic' = Dynamic
      BY <1>2 DEF Dynamic
    <3> QED
      BY <1>2, <1>5, <2>1, <2>3, <3>1 DEF PointerInv, Movable, InArena
  <2> QED
    BY <1>1, <1>2, <1>3, <2>5, <2>6 DEF PointerInv, InArena
<1>6. ASSUME NEW a \in scan.todo, Visit(a) PROVE PointerInv'
  <2>1. UNCHANGED <<shared, allocs, pending>>
    BY <1>6 DEF Visit, plannerVars
  <2> QED
    BY <1>1, <1>2, <1>3, <2>1, PointerStep DEF PointerInv
<1>7. CASE EndAllocate
  <2> DEFINE t == scan.tensor
  <2>1. t \in pending
    BY <1>7 DEF EndAllocate, ArenaInv, ScanOK
  <2>2. /\ t \in Tensor /\ allocs[t].size < bytes[t]
        /\ bytes[t] \in Bytes /\ allocs[t] \in Allocs
    BY <1>1, <2>1 DEF ArenaInv, PendingOK, ArenaTypeOK
  <2>3. bytes[t] # 0
    <3>1. bytes[t] \in Nat /\ allocs[t].size \in Nat
      BY <2>2, PlannerAssumption DEF Allocs
    <3> QED
      BY <2>2, <3>1
  <2>4. /\ pending' = pending \ {t} /\ UNCHANGED shared
        /\ allocs \in [Tensor -> Allocs]
        /\ \A u \in Tensor : u # t => allocs'[u] = allocs[u]
        /\ allocs'[t].size = bytes[t]
    BY <1>7, <2>2 DEF EndAllocate, ArenaInv, ArenaTypeOK
  <2>5. \A u \in Tensor \ pending' :
           (u \notin pending /\ allocs[u].size = 0) \/ allocs'[u].size # 0
    BY <2>3, <2>4
  <2> QED
    BY <1>1, <1>2, <1>3, <2>4, <2>5, PointerStep DEF PointerInv
<1> QED
  BY <1>4, <1>5, <1>6, <1>7 DEF Place

(* When the buffer moves, every pointer into it is set anew.               *)
LEMMA PlacedPointers ==
  ASSUME ArenaInv, ArenaInv', PointerInv, Placed
  PROVE  PointerInv'
<1> DEFINE grows == highWater > buffer.size
           base == IF grows THEN buffer.base + 1 ELSE buffer.base
<1>1. /\ pc = "place" /\ pending = {} /\ pc' # "place" /\ pc' # "prepare"
      /\ UNCHANGED <<graph, type, allocs, shared, pending, planned,
                     nextPrepare>>
  BY DEF Placed, EndAllocations, Return, plannerVars, loopVars
<1>2. /\ buffer'.base = base
      /\ data' = [t \in Tensor |-> IF grows \/ t \in allocated
                                   THEN Resolved(t, base) ELSE data[t]]
  BY DEF Placed, EndAllocations, Commit
<1>3. base \in Nat /\ (~grows => base = buffer.base)
  BY DEF ArenaInv, ArenaTypeOK
<1> HIDE DEF base, grows
<1>4. Recognised' /\ planned
  <2>1. nextPrepare <= nextPrepare
    BY DEF ArenaInv, ArenaTypeOK
  <2>2. planned
    BY <1>1 DEF ArenaInv, Planner
  <2> QED
    BY <1>1, <2>1, <2>2, RecognisedKept DEF PointerInv
<1>5. /\ data \in [Tensor -> Pointers] /\ shared \in [Tensor -> Tensor]
      /\ allocs \in [Tensor -> Allocs]
      /\ \A t \in Tensor : shared[shared[t]] = shared[t]
  BY DEF PointerInv, Sharing, ArenaInv, ArenaTypeOK
<1>6. ASSUME NEW t \in Tensor, shared[t] = t \/ type[t] # "arena"
      PROVE  /\ Owned(t, base) \in Pointers
             /\ Owned(t, base).at = "arena" =>
                  /\ Owned(t, base).base = base
                  /\ type[t] = "arena" /\ allocs[t].size # 0
  <2>1. CASE type[t] = "arena" /\ allocs[t].size # 0
    <3>1. allocs[t].offset \in Nat
      BY <1>5 DEF Allocs
    <3>2. Owned(t, base) = [at |-> "arena", base |-> base,
                            offset |-> allocs[t].offset]
      BY <2>1 DEF Owned
    <3> QED
      BY <1>3, <2>1, <3>1, <3>2 DEF Pointers
  <2>2. CASE ~(type[t] = "arena" /\ allocs[t].size # 0)
    <3>1. Owned(t, base) = data[t]
      BY <2>2 DEF Owned
    <3>2. data[t].at # "arena"
      BY <1>1, <1>6, <2>2 DEF PointerInv, Movable, InArena
    <3> QED
      BY <1>5, <3>1, <3>2
  <2> QED
    BY <2>1, <2>2
<1>7. ASSUME NEW t \in Tensor
      PROVE  /\ data'[t] \in Pointers
             /\ data'[t].at = "arena" =>
                  /\ data'[t].base = base /\ type[t] = "arena"
                  /\ allocs[t].size = 0 => /\ shared[t] # t
                                           /\ shared[t] \notin Dynamic
  <2> DEFINE s == shared[t]
  <2>1. s \in Tensor /\ shared[s] = s
    BY <1>5
  <2>2. CASE ~(grows \/ t \in allocated)
    <3>1. data'[t] = data[t] /\ base = buffer.base
      BY <1>2, <1>3, <2>2
    <3> QED
      BY <1>1, <1>5, <3>1 DEF PointerInv, Movable, InArena
  <2>3. CASE grows \/ t \in allocated
    <3>1. data'[t] = Resolved(t, base)
      BY <1>2, <2>3
    <3>2. CASE type[t] = "arena" /\ type[s] = "arena"
      <4>1. data'[t] = Owned(s, base)
        BY <3>1, <3>2 DEF Resolved
      <4>2. s \in Dynamic => allocs[s].size = 0
        BY DynamicUnplaced DEF PointerInv
      <4> QED
        BY <1>6, <2>1, <3>2, <4>1, <4>2
    <3>3. CASE ~(type[t] = "arena" /\ type[s] = "arena")
      <4>1. data'[t] = Owned(t, base)
        BY <3>1, <3>3 DEF Resolved
      <4>2. CASE s = t \/ type[t] # "arena"
        <5>1. /\ data'[t] \in Pointers
              /\ data'[t].at = "arena" =>
                   /\ data'[t].base = base
                   /\ type[t] = "arena" /\ allocs[t].size # 0
          BY <1>6, <4>1, <4>2
        <5> QED
          BY <5>1
      <4>3. CASE s # t /\ type[t] = "arena"
        <5>1. s \in Dynamic
          BY <2>1, <3>3, <4>3 DEF PointerInv, Recognised
        <5>2. CASE allocs[t].size = 0
          <6>1. data'[t] = data[t] /\ data[t].at # "arena"
            BY <1>1, <4>1, <5>1, <5>2 DEF Owned, PointerInv, Movable, InArena
          <6> QED
            BY <1>5, <6>1
        <5>3. CASE allocs[t].size # 0
          <6>1. data'[t] = [at |-> "arena", base |-> base,
                            offset |-> allocs[t].offset]
            BY <4>1, <4>3, <5>3 DEF Owned
          <6>2. allocs[t].offset \in Nat
            BY <1>5 DEF Allocs
          <6> QED
            BY <1>3, <4>3, <5>3, <6>1, <6>2 DEF Pointers
        <5> QED
          BY <5>2, <5>3
      <4> QED
        BY <4>2, <4>3
    <3> QED
      BY <3>2, <3>3
  <2> QED
    BY <2>2, <2>3
<1>8. data' \in [Tensor -> Pointers]
  BY <1>2, <1>7
<1>9. Sharing(shared, NumNodes)'
  BY <1>1 DEF PointerInv, Sharing
<1>10. Movable'
  <2>1. Dynamic' = Dynamic
    BY <1>1 DEF Dynamic
  <2> QED
    BY <1>1, <1>7, <2>1 DEF Movable, InArena
<1>11. (\A t \in Tensor : InArena(t) => data[t].base = buffer.base)'
  BY <1>2, <1>7 DEF InArena
<1> QED
  BY <1>1, <1>4, <1>8, <1>9, <1>10, <1>11 DEF PointerInv

(* No tensor has a pointer at first.                                       *)
LEMMA PointerInit ==
  ASSUME Init
  PROVE  PointerInv
<1> USE DEF Init, PlannerInit
<1>1. NullPtr \in Pointers /\ NullPtr.at # "arena"
  BY DEF NullPtr, Pointers
<1>2. Sharing(shared, NumNodes)
  BY DEF Sharing
<1>3. Recognised
  BY PlannerAssumption DEF Recognised, Node
<1>4. Movable
  BY <1>1 DEF Movable, InArena
<1> QED
  BY <1>1, <1>2, <1>3, <1>4 DEF PointerInv, InArena

(* Nothing happens.                                                        *)
LEMMA PointerStutter ==
  ASSUME PointerInv, UNCHANGED vars
  PROVE  PointerInv'
<1> USE DEF vars, tensorVars, arenaVars, plannerVars, loopVars, driverVars
<1>1. Dynamic' = Dynamic
  BY DEF Dynamic
<1>2. Recognised' /\ Movable'
  BY <1>1 DEF PointerInv, Recognised, Movable, InArena
<1>3. Sharing(shared, NumNodes)'
  BY DEF PointerInv, Sharing
<1> QED
  BY <1>2, <1>3 DEF PointerInv, InArena

(* Every step of the subgraph.                                             *)
LEMMA PointerNext ==
  ArenaInv /\ ArenaInv' /\ PointerInv /\ [Next]_vars => PointerInv'
<1> SUFFICES ASSUME ArenaInv, ArenaInv', PointerInv, [Next]_vars
             PROVE  PointerInv'
  OBVIOUS
<1>1. CASE Plan \/ Place \/ Placed
  BY <1>1, PlanPointers, PlacePointers, PlacedPointers
<1>2. CASE ExecuteDynamic \/ ExecuteFails
  BY <1>2, ExecutePointers
<1>3. CASE (PrepareOp \/ PrepareFails) /\ Prepare(prep)
  BY <1>3, PreparePointers
<1>4. CASE /\ UNCHANGED <<bytes, data, type>>
           /\ \/ AllocateTensors \/ PrepareFails \/ Invoke \/ PrepareRest
              \/ ExecuteStatic \/ InvokeReturns
  BY <1>4, DriverPointers
<1>5. CASE UNCHANGED vars
  BY <1>5, PointerStutter
<1> QED
  BY <1>1, <1>2, <1>3, <1>4, <1>5
  DEF Next, PrepareOp, PrepareFails, AllocateTensors, Invoke, PrepareRest,
      ExecuteStatic, InvokeReturns, tensorVars

(***************************************************************************)
(* The invariant of the data pointers holds for every graph: a pointer     *)
(* into the arena is one that Commit will set anew.                        *)
(***************************************************************************)
THEOREM PointerInductive == Spec => []PointerInv
<1>1. Init => PointerInv
  BY PointerInit
<1> QED
  BY <1>1, ArenaInductive, PointerNext, PTL DEF Spec

(***************************************************************************)
(* No tensor keeps a pointer into a buffer that the arena has freed: the   *)
(* ones that arena_planner.cc does not visit in ResolveTensorAllocation    *)
(* have none; and every placed tensor lies within the committed buffer.    *)
(***************************************************************************)
THEOREM PointersCorrect == Spec => []PointersCurrent
<1>1. ASSUME ArenaInv, PointerInv PROVE PointersCurrent
  <2>1. \A t \in Tensor : data[t].at = "arena" => data[t].base = buffer.base
    BY <1>1 DEF PointerInv, InArena
  <2>2. ASSUME pc # "place", NEW t \in Tensor
        PROVE  allocs[t].offset + allocs[t].size <= buffer.size
    <3>1. /\ allocs[t].offset \in Nat /\ allocs[t].size \in Nat
          /\ highWater \in Nat /\ buffer.size \in Nat
      BY <1>1 DEF ArenaInv, ArenaTypeOK, Allocs
    <3>2. /\ allocs[t].offset + allocs[t].size <= highWater
          /\ highWater <= buffer.size
      BY <1>1, <2>2 DEF ArenaInv, WithinBuffer
    <3> QED
      BY <3>1, <3>2
  <2> QED
    BY <2>1, <2>2 DEF PointersCurrent
<1> QED
  BY <1>1, ArenaInductive, PointerInductive, PTL
=============================================================================
