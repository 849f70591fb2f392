------------------------------ MODULE Subgraph ------------------------------
(***************************************************************************)
(* What TfLiteInterpreterAllocateTensors and TfLiteInterpreterInvoke do    *)
(* for the plugin (tensorflow/lite/core/subgraph.cc): the nodes are        *)
(* prepared up to the first whose output size is known only after it ran,  *)
(* their tensors are placed by the memory planner, and the rest is         *)
(* prepared and placed in the middle of Invoke.  The plugin allocates once *)
(* and invokes any number of times, and goes on after a failed Invoke.     *)
(***************************************************************************)
EXTENDS MemoryPlanner

VARIABLES
    pc,             \* "idle", "prepare", "plan", "place" or "execute"
    call,           \* the function running: "allocate" or "invoke"
    status,         \* what the last call returned; "none" before any
    invokable,      \* state_ = kStateInvokable
    planned,        \* memory_planner_ exists
    nextPrepare,    \* next_execution_plan_index_to_prepare_
    nextPlan,       \* next_execution_plan_index_to_plan_allocation_
    prep,           \* the node PrepareOpsStartingAt has come to
    node,           \* the node InvokeImpl has come to
    intact          \* history: the tensors that hold what was last written
                    \* to them since Invoke began

driverVars == <<pc, call, status, invokable, planned, nextPrepare, nextPlan,
                prep, node, intact>>
vars == <<tensorVars, arenaVars, plannerVars, loopVars, driverVars>>

Init ==
    /\ PlannerInit
    /\ pc = "idle"
    /\ call = "allocate"
    /\ status = "none"
    /\ invokable = FALSE
    /\ planned = FALSE
    /\ nextPrepare = 0
    /\ nextPlan = 0
    /\ prep = 0
    /\ node = 0
    /\ intact = {}

Inputs(i) == {graph.in[i][j] : j \in DOMAIN graph.in[i]}

Return(s) ==
    /\ pc' = "idle"
    /\ status' = s

-----------------------------------------------------------------------------
(* PrepareOpsAndTensors.                                                   *)

AllocateTensors ==
    /\ pc = "idle"
    /\ status = "none"
    /\ pc' = "prepare"
    /\ call' = "allocate"
    /\ nextPrepare' = 0
    /\ nextPlan' = 0
    /\ prep' = 0
    /\ UNCHANGED <<tensorVars, arenaVars, plannerVars, loopVars, status,
                   invokable, planned, node, intact>>

(* The tensors whose size follows from a size known only at run time.      *)
Resizable ==
    LET Upto[i \in 0..NumNodes] ==
            IF i = 0
            THEN {}
            ELSE LET before == Upto[i - 1]
                     n == i - 1
                 IN IF \/ graph.op[n] = "dynamic"
                       \/ Inputs(n) \intersect before # {}
                    THEN before \union {graph.out[n]} \union graph.temp[n]
                    ELSE before
    IN Upto[NumNodes]

(***************************************************************************)
(* The sizes node i's Prepare can give its output and temporaries.  An     *)
(* operator that leaves its data alone keeps the size; a dynamic output is *)
(* sized when the node is executed.                                        *)
(***************************************************************************)
SizedByPrepare(i) ==
    Resizable \intersect
        (graph.temp[i] \union
            (IF graph.op[i] = "dynamic" THEN {} ELSE {graph.out[i]}))

PreparedBytes(i) ==
    {[t \in Tensor |->
        IF graph.op[i] = "unmodified" /\ t = graph.out[i]
        THEN bytes[graph.in[i][1]]
        ELSE IF t \in SizedByPrepare(i) THEN b[t] ELSE bytes[t]] :
     b \in [SizedByPrepare(i) -> Bytes]}

(* What node i's Prepare does to its tensors.  An arena tensor with a new  *)
(* shape loses its pointer, also when its size stays (ResizeTensorImpl),   *)
(* and so does one that turns dynamic (SetTensorToDynamic).                *)
Prepare(i) ==
    /\ \E b \in PreparedBytes(i), reshaped \in SUBSET SizedByPrepare(i) :
          /\ bytes' = b
          /\ data' = [t \in Tensor |->
                IF \/ b[t] # bytes[t]
                   \/ t \in reshaped
                   \/ /\ t = graph.out[i]
                      /\ graph.op[i] = "dynamic"
                      /\ type[t] # "dynamic"
                THEN NullPtr
                ELSE data[t]]
    /\ type' = IF graph.op[i] = "dynamic"
               THEN [type EXCEPT ![graph.out[i]] = "dynamic"]
               ELSE type

PrepareOp ==
    /\ pc = "prepare"
    /\ Prepare(prep)
    /\ IF graph.op[prep] = "dynamic" \/ prep = NumNodes - 1
       THEN /\ pc' = "plan"
            /\ nextPrepare' = prep + 1
            /\ UNCHANGED prep
       ELSE /\ prep' = prep + 1
            /\ UNCHANGED <<pc, nextPrepare>>
    /\ UNCHANGED <<graph, arenaVars, plannerVars, loopVars, call, status,
                   invokable, planned, nextPlan, node, intact>>

(* The operator may have resized tensors before it reports the error.      *)
PrepareFails ==
    /\ pc = "prepare"
    /\ Prepare(prep) \/ UNCHANGED <<bytes, data, type>>
    /\ Return("error")
    /\ UNCHANGED <<graph, arenaVars, plannerVars, loopVars, call, invokable,
                   planned, nextPrepare, nextPlan, prep, node, intact>>

(* The planner is created, and lifetimes are planned, only once.           *)
Plan ==
    /\ pc = "plan"
    /\ IF planned THEN UNCHANGED <<shared, lastUse>> ELSE PlanAllocations
    /\ planned' = TRUE
    /\ CalculateAllocations(nextPlan, prep)
    /\ pc' = "place"
    /\ UNCHANGED <<call, status, invokable, nextPrepare, nextPlan, prep,
                   node, intact>>

Place ==
    /\ pc = "place"
    /\ \/ \E t \in pending : KeepShared(t) \/ BeginAllocate(t)
       \/ \E a \in scan.todo : Visit(a)
       \/ EndAllocate
    /\ UNCHANGED driverVars

Placed ==
    /\ pc = "place"
    /\ EndAllocations
    /\ nextPlan' = prep + 1
    /\ IF call = "allocate"
       THEN /\ Return("ok")
            /\ invokable' = TRUE
       ELSE /\ pc' = "execute"
            /\ UNCHANGED <<status, invokable>>
    /\ UNCHANGED <<call, planned, nextPrepare, prep, node, intact>>

-----------------------------------------------------------------------------
(* InvokeImpl.                                                             *)

(* The caller has just copied its samples into the input tensors.          *)
Invoke ==
    /\ pc = "idle"
    /\ status # "none"
    /\ IF invokable
       THEN /\ pc' = "execute"
            /\ call' = "invoke"
            /\ node' = 0
            /\ intact' = graph.inputs
            /\ UNCHANGED status
       ELSE /\ status' = "error"
            /\ UNCHANGED <<pc, call, node, intact>>
    /\ UNCHANGED <<tensorVars, arenaVars, plannerVars, loopVars, invokable,
                   planned, nextPrepare, nextPlan, prep>>

PrepareRest ==
    /\ pc = "execute"
    /\ node < NumNodes
    /\ node = nextPrepare
    /\ pc' = "prepare"
    /\ prep' = node
    /\ UNCHANGED <<tensorVars, arenaVars, plannerVars, loopVars, call,
                   status, invokable, planned, nextPrepare, nextPlan, node,
                   intact>>

HasMemory(t) == data[t] # NullPtr \/ bytes[t] = 0

Executing ==
    /\ pc = "execute"
    /\ node < NumNodes
    /\ node # nextPrepare

(* Two tensors that lie on a common byte.                                  *)
Overlap(t, u) ==
    /\ data[t].at = "arena" /\ data[u].at = "arena"
    /\ bytes[t] > 0 /\ bytes[u] > 0
    /\ data[t].offset < data[u].offset + bytes[u]
    /\ data[u].offset < data[t].offset + bytes[t]

(* What the operator of node i writes to: an operator that leaves its data *)
(* alone copies nothing when its output has taken the place of its input.  *)
Written(i) ==
    graph.temp[i]
      \union
    (IF graph.op[i] = "unmodified" /\ data[graph.out[i]] = data[graph.in[i][1]]
     THEN {}
     ELSE {graph.out[i]})

IntactAfter(i) ==
    {t \in intact : \A w \in Written(i) : ~Overlap(t, w)}
      \union {graph.out[i]}

ExecuteStatic ==
    /\ Executing
    /\ graph.op[node] # "dynamic"
    /\ \A t \in Inputs(node) : HasMemory(t)
    /\ intact' = IntactAfter(node)
    /\ node' = node + 1
    /\ UNCHANGED <<tensorVars, arenaVars, plannerVars, loopVars, pc, call,
                   status, invokable, planned, nextPrepare, nextPlan, prep>>

(* An output that changes its shape, which may leave its size as it is,    *)
(* forces the nodes after it to be prepared again, and their tensors to be *)
(* placed again.                                                           *)
ExecuteDynamic ==
    /\ Executing
    /\ graph.op[node] = "dynamic"
    /\ \A t \in Inputs(node) : HasMemory(t)
    /\ LET out == graph.out[node]
       IN \E b \in Bytes : \E resized \in {b # bytes[out], TRUE} :
            LET replan == resized /\ nextPlan > node + 1
            IN /\ bytes' = [bytes EXCEPT ![out] = b]
               /\ nextPrepare' = IF resized THEN node + 1 ELSE nextPrepare
               /\ nextPlan' = IF replan THEN node + 1 ELSE nextPlan
               /\ data' = [t \in Tensor |->
                     IF t = out THEN HeapPtr
                     ELSE IF replan /\ Dropped(t, node) THEN NullPtr
                     ELSE data[t]]
               /\ IF replan THEN ResetAllocationsAfter(node)
                  ELSE UNCHANGED <<allocs, active, lastActive>>
    /\ intact' = IntactAfter(node)
    /\ node' = node + 1
    /\ UNCHANGED <<graph, type, highWater, buffer, shared, lastUse, loopVars,
                   pc, call, status, invokable, planned, prep>>

(* An operator fails, or one of its inputs lacks data; a dynamic output    *)
(* may have got its new size by then.                                      *)
ExecuteFails ==
    /\ Executing
    /\ \/ UNCHANGED <<bytes, data>>
       \/ /\ graph.op[node] = "dynamic"
          /\ \A t \in Inputs(node) : HasMemory(t)
          /\ \E b \in Bytes : bytes' = [bytes EXCEPT ![graph.out[node]] = b]
          /\ data' = [data EXCEPT ![graph.out[node]] = HeapPtr]
    /\ Return("error")
    /\ intact' = {}
    /\ UNCHANGED <<graph, type, arenaVars, plannerVars, loopVars, call,
                   invokable, planned, nextPrepare, nextPlan, prep, node>>

InvokeReturns ==
    /\ pc = "execute"
    /\ node = NumNodes
    /\ Return("ok")
    /\ UNCHANGED <<tensorVars, arenaVars, plannerVars, loopVars, call,
                   invokable, planned, nextPrepare, nextPlan, prep, node,
                   intact>>

Next ==
    \/ AllocateTensors
    \/ PrepareOp
    \/ PrepareFails
    \/ Plan
    \/ Place
    \/ Placed
    \/ Invoke
    \/ PrepareRest
    \/ ExecuteStatic
    \/ ExecuteDynamic
    \/ ExecuteFails
    \/ InvokeReturns

Spec == Init /\ [][Next]_vars

-----------------------------------------------------------------------------
(***************************************************************************)
(* Properties.                                                             *)
(***************************************************************************)

(* Two tensors that are needed at a common node never share a byte of the  *)
(* arena, also when the later one was placed in the middle of an Invoke    *)
(* and when a resize threw half of the plan away.                          *)
Disjoint(a, b) ==
    a.offset + a.size <= b.offset \/ b.offset + b.size <= a.offset

NoOverlap ==
    \A t, u \in Tensor :
        \/ t = u
        \/ allocs[t].size = 0
        \/ allocs[u].size = 0
        \/ allocs[t].last < allocs[u].first
        \/ allocs[u].last < allocs[t].first
        \/ Disjoint(allocs[t], allocs[u])

(* The arena remembers every placed tensor that is needed at or after the  *)
(* next node to be placed: otherwise a later tensor could be put onto it.  *)
Tracked ==
    \A t \in Tensor :
        allocs[t].size > 0 /\ allocs[t].last >= nextPlan =>
            allocs[t] \in active

(* Whenever a node is executed, its operands have memory, its inputs hold  *)
(* what was written to them, its temporaries lie apart from its operands,  *)
(* and its output lies on an input only when it has taken its place.       *)
OperandsIntact ==
    Executing =>
        LET out == graph.out[node]
            operands == Inputs(node) \union {out}
        IN /\ Inputs(node) \subseteq intact
           /\ \A t \in Inputs(node) : HasMemory(t)
           /\ HasMemory(out) \/ graph.op[node] = "dynamic"
           /\ \A s \in graph.temp[node] :
                 HasMemory(s) /\ \A t \in operands : ~Overlap(s, t)
           /\ \A t \in Inputs(node) :
                 Overlap(t, out) => /\ data[t] = data[out]
                                    /\ ShareablePositions(node) # {}

(* After an Invoke that succeeded, the outputs hold what was computed and  *)
(* the inputs what the caller wrote.                                       *)
ResultIntact ==
    pc = "execute" /\ node = NumNodes =>
        graph.inputs \union graph.outputs \subseteq intact

(* No tensor is left with a pointer into a buffer that has been freed, and *)
(* every placed tensor lies within the buffer (ResolveAlloc never fails).  *)
PointersCurrent ==
    /\ \A t \in Tensor :
          data[t].at = "arena" => data[t].base = buffer.base
    /\ pc # "place" => \A t \in Tensor :
          allocs[t].offset + allocs[t].size <= buffer.size
=============================================================================
