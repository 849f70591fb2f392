--------------------------- MODULE MemoryPlanner ----------------------------
(***************************************************************************)
(* Where TensorFlow Lite puts the tensors that load_model allocates and    *)
(* run_inference computes: tensorflow/lite/simple_memory_arena.cc and      *)
(* arena_planner.cc.  Every tensor is placed at an offset of one buffer,   *)
(* two tensors may share bytes when their usage intervals do not meet, and *)
(* an in-place operator may write over its input.  Subgraph.tla drives     *)
(* this module.  Modelled: the arena for kTfLiteArenaRw tensors, of nodes  *)
(* with one output each.                                                   *)
(***************************************************************************)
EXTENDS Integers, FiniteSets, Sequences

CONSTANTS
    Tensor,         \* tensor indexes
    NumNodes,       \* length of the execution plan
    Bytes,          \* sizes a tensor can have
    Graphs,         \* the graphs a model file can hold
    Alignment,      \* kDefaultTensorAlignment
    ScalarBytes     \* kScalarTensorBytes

Node == 0..(NumNodes - 1)

(* kNodeNotAssigned and kLastActiveNodeUndefined: after every node.        *)
Never == NumNodes

Operator == {"plain", "unmodified", "modified", "dynamic"}

(***************************************************************************)
(* in: the input tensors of a node in order; out: its output; temp: its    *)
(* temporaries; op: whether its output may take the place of an input      *)
(* (inplace_operator) or gets its size only when the node is executed.     *)
(***************************************************************************)
Graph ==
    [op : [Node -> Operator], in : [Node -> Seq(Tensor)],
     out : [Node -> Tensor], temp : [Node -> SUBSET Tensor],
     inputs : SUBSET Tensor, outputs : SUBSET Tensor]

(* The tensors whose memory is first needed at node i.                     *)
TensorsOf(g, i) ==
    {g.out[i]} \union g.temp[i] \union (IF i = 0 THEN g.inputs ELSE {})

ASSUME PlannerAssumption ==
    /\ Tensor \subseteq Nat
    /\ NumNodes \in Nat \ {0}
    /\ Bytes \subseteq Nat
    /\ Alignment \in Nat \ {0}
    /\ ScalarBytes \in Nat

(* The schema of a model: one producer per tensor, and the operators in    *)
(* execution order, so that a tensor is computed before it is read.        *)
ASSUME GraphAssumption ==
    \A g \in Graphs :
        /\ g \in Graph
        /\ \A i, j \in Node :
              i # j => TensorsOf(g, i) \intersect TensorsOf(g, j) = {}
        /\ \A i \in Node : g.op[i] = "unmodified" => g.in[i] # <<>>
        /\ \A i, k \in Node : \A j \in DOMAIN g.in[i] :
              g.in[i][j] = g.out[k] => k < i

VARIABLES
    graph,          \* the graph that was loaded
    bytes, type,    \* size and allocation_type of each tensor
    data,           \* data.raw of each tensor
    active,         \* active_allocs_ (a set: it is scanned by offset)
    highWater,      \* high_water_mark_
    buffer,         \* underlying_buffer_: its size and how often it moved
    allocs,         \* allocs_
    shared,         \* actual_tensor_id_ (a tensor that owns its memory
                    \* stands for itself)
    lastUse,        \* dealloc_node_
    lastActive,     \* last_active_node_
    allocated,      \* tensors_allocated of the running ExecuteAllocations
    pending,        \* those that still have to be placed
    scan            \* the local variables of SimpleMemoryArena::Allocate

tensorVars  == <<graph, bytes, type, data>>
arenaVars   == <<active, highWater, buffer>>
plannerVars == <<allocs, shared, lastUse, lastActive>>
loopVars    == <<allocated, pending, scan>>

Unset == -1

NoAlloc == [tensor |-> Unset, offset |-> 0, size |-> 0,
            first |-> Unset, last |-> Unset]

NullPtr == [at |-> "null", base |-> 0, offset |-> 0]
HeapPtr == [at |-> "heap", base |-> 0, offset |-> 0]

NoScan == [tensor |-> Unset, todo |-> {}, current |-> 0,
           best |-> Unset, fit |-> Unset]

PlannerInit ==
    /\ graph \in Graphs
    /\ bytes \in [Tensor -> Bytes]
    /\ type = [t \in Tensor |-> "arena"]
    /\ data = [t \in Tensor |-> NullPtr]
    /\ active = {}
    /\ highWater = 0
    /\ buffer = [size |-> 0, base |-> 0]
    /\ allocs = [t \in Tensor |-> NoAlloc]
    /\ shared = [t \in Tensor |-> t]
    /\ lastUse = [t \in Tensor |-> Never]
    /\ lastActive = Never
    /\ allocated = {}
    /\ pending = {}
    /\ scan = NoScan

-----------------------------------------------------------------------------
(* PlanAllocations: lifetimes, and who may take whose place.               *)

(* alloc_node_ *)
FirstUse(t) == CHOOSE i \in Node : t \in TensorsOf(graph, i)

(* refcounts_ before sharing *)
References(t) ==
      Cardinality(UNION {{<<i, j>> : j \in {k \in DOMAIN graph.in[i] :
                                               graph.in[i][k] = t}} :
                         i \in Node})
    + (IF t \in graph.inputs THEN 1 ELSE 0)
    + (IF t \in graph.outputs THEN 1 ELSE 0)

(* The inputs the operators of reshape.cc and add.cc let be shared.        *)
ShareablePositions(i) ==
    CASE graph.op[i] = "unmodified" -> {1}
      [] graph.op[i] = "modified"   -> {1, 2}
      [] OTHER                      -> {}

InputTensorCanBeShared(i, t) ==
    /\ graph.op[i] = "modified" =>
          /\ bytes[t] = bytes[graph.out[i]]
          /\ bytes[t] > ScalarBytes
          /\ References(t) <= 1
    /\ t \notin graph.inputs
    /\ graph.out[i] \notin graph.outputs
    /\ type[t] \in {"arena", type[graph.out[i]]}

(* The inputs of node i whose place its output may take, and the first.    *)
Candidates(i) ==
    {j \in ShareablePositions(i) \intersect DOMAIN graph.in[i] :
        InputTensorCanBeShared(i, graph.in[i][j])}

FirstCandidate(i) ==
    graph.in[i][CHOOSE j \in Candidates(i) : \A k \in Candidates(i) : j <= k]

(* The output of node n takes the place of what its input stands for.      *)
TakePlace(actual, n) ==
    LET root == actual[FirstCandidate(n)]
    IN IF \/ Candidates(n) = {}
          \/ graph.op[n] = "modified" /\ References(root) > 1
       THEN actual
       ELSE [actual EXCEPT ![graph.out[n]] = root]

(* actual_tensor_id_ after the first i nodes                               *)
ActualTensor[i \in 0..NumNodes] ==
    IF i = 0 THEN [t \in Tensor |-> t]
             ELSE TakePlace(ActualTensor[i - 1], i - 1)

IdentifyInPlaceTensors == ActualTensor[NumNodes]

(* The last node of a set of nodes, if it has one.                         *)
LastOf(nodes) ==
    IF \E i \in nodes : \A k \in nodes : k <= i
    THEN CHOOSE i \in nodes : \A k \in nodes : k <= i
    ELSE Never

(***************************************************************************)
(* dealloc_node_: the node at which the reference count of a tensor, and   *)
(* of what takes its place, reaches zero.  Inputs and outputs hold one     *)
(* more reference; temporaries belong to one node.                         *)
(***************************************************************************)
LastUse_Unshared(actual, t) ==
    IF t \in graph.inputs \union graph.outputs
    THEN Never
    ELSE LastOf({i \in Node : \/ t \in graph.temp[i]
                              \/ \E j \in DOMAIN graph.in[i] :
                                    graph.in[i][j] = t})

LastUse_InputFreed(actual, t) ==
    IF t \in graph.outputs
    THEN Never
    ELSE LastOf({i \in Node : \/ t \in graph.temp[i]
                              \/ \E j \in DOMAIN graph.in[i] :
                                    actual[graph.in[i][j]] = t})

LastUse(actual, t) ==
    IF t \in graph.inputs \union graph.outputs
    THEN Never
    ELSE LastOf({i \in Node : \/ t \in graph.temp[i]
                              \/ \E j \in DOMAIN graph.in[i] :
                                    actual[graph.in[i][j]] = t})

(* What PlanAllocations computes once, when the planner is created.        *)
PlanAllocations ==
    /\ shared' = IdentifyInPlaceTensors
    /\ lastUse' = [t \in Tensor |-> LastUse(IdentifyInPlaceTensors, t)]

-----------------------------------------------------------------------------
(* ExecuteAllocations(first, last): CalculateAllocations, one tensor at a  *)
(* time and one step per turn of the loop in SimpleMemoryArena::Allocate,  *)
(* then Commit and the data pointers.                                      *)

(* GetTensorsToAllocate and the loop that keeps what has too little memory.*)
TensorsToAllocate(first, last) ==
    {t \in UNION {TensorsOf(graph, i) : i \in first..last} :
        type[t] = "arena" /\ allocs[t].size < bytes[t]}

(* PurgeActiveAllocs *)
Alive_OffByOne(a, first) == a.last > first

Alive(a, first) == a.last >= first

CalculateAllocations(first, last) ==
    LET wanted == TensorsToAllocate(first, last)
    IN /\ allocated' = wanted
       /\ pending' = wanted
       /\ active' = CASE wanted = {} -> active
                      [] wanted # {} /\ first < lastActive -> {}
                      [] OTHER -> {a \in active : Alive(a, first)}
       /\ lastActive' = last
       /\ UNCHANGED <<tensorVars, highWater, buffer, allocs, scan>>

(* CreateTensorAllocationVector: t is placed before u.                     *)
WholeRun(t) == FirstUse(t) = 0 /\ lastUse[t] = Never

PlacedBefore(t, u) ==
    CASE WholeRun(t) /\ WholeRun(u) -> t < u
      [] WholeRun(t) # WholeRun(u)  -> WholeRun(t)
      [] OTHER -> \/ bytes[t] > bytes[u]
                  \/ bytes[t] = bytes[u] /\ FirstUse(t) < FirstUse(u)

NextToPlace(t) ==
    /\ t \in pending
    /\ scan = NoScan
    /\ \A u \in pending : ~PlacedBefore(u, t)

(* The output takes the place of a tensor of the same size in the arena.   *)
KeepShared(t) ==
    /\ NextToPlace(t)
    /\ shared[t] # t
    /\ type[shared[t]] = "arena"
    /\ bytes[shared[t]] = bytes[t]
    /\ pending' = pending \ {t}
    /\ UNCHANGED <<tensorVars, arenaVars, plannerVars, allocated, scan>>

(* The sharing that was planned is not possible any more, or never was.    *)
BeginAllocate(t) ==
    /\ NextToPlace(t)
    /\ \/ shared[t] = t
       \/ type[shared[t]] # "arena"
       \/ bytes[shared[t]] # bytes[t]
    /\ shared' = [shared EXCEPT ![t] = t]
    /\ scan' = [NoScan EXCEPT !.tensor = t, !.todo = active]
    /\ UNCHANGED <<tensorVars, arenaVars, allocs, lastUse, lastActive,
                   allocated, pending>>

AlignTo(offset) ==
    IF offset % Alignment = 0
    THEN offset
    ELSE offset + (Alignment - (offset % Alignment))

Larger(m, n) == IF m >= n THEN m ELSE n

(* Usage interval of alloc a and of the tensor being placed do not meet.   *)
Apart(a, t) == a.last < FirstUse(t) \/ a.first > lastUse[t]

(* A gap that is large enough and smaller than the best one so far.        *)
Fits_Unaligned(a) ==
    /\ scan.current + bytes[scan.tensor] <= a.offset
    /\ scan.fit = Unset \/ a.offset - AlignTo(scan.current) < scan.fit

Fits(a) ==
    /\ AlignTo(scan.current) + bytes[scan.tensor] <= a.offset
    /\ scan.fit = Unset \/ a.offset - AlignTo(scan.current) < scan.fit

(* One turn of the loop: the active allocations are visited by offset.     *)
Visit(a) ==
    /\ a \in scan.todo
    /\ \A b \in scan.todo : a.offset <= b.offset
    /\ LET fit == IF Fits(a) THEN a.offset - scan.current ELSE scan.fit
       IN scan' =
            IF Apart(a, scan.tensor)
            THEN [scan EXCEPT !.todo = @ \ {a}]
            ELSE [scan EXCEPT
                    !.best = IF Fits(a) THEN AlignTo(scan.current) ELSE @,
                    !.fit = fit,
                    !.current = Larger(@, a.offset + a.size),
                    !.todo = IF fit = 0 THEN {} ELSE @ \ {a}]
    /\ UNCHANGED <<tensorVars, arenaVars, plannerVars, allocated, pending>>

EndAllocate ==
    /\ scan # NoScan
    /\ scan.todo = {}
    /\ LET t == scan.tensor
           offset == IF scan.best = Unset THEN AlignTo(scan.current)
                                          ELSE scan.best
           new == [tensor |-> t, offset |-> offset, size |-> bytes[t],
                   first |-> FirstUse(t), last |-> lastUse[t]]
       IN /\ highWater' = Larger(highWater, offset + bytes[t])
          /\ allocs' = [allocs EXCEPT ![t] = new]
          /\ active' = active \union {new}
          /\ pending' = pending \ {t}
    /\ scan' = NoScan
    /\ UNCHANGED <<tensorVars, buffer, shared, lastUse, lastActive, allocated>>

(* ResolveTensorAllocation: the pointer of a tensor that owns its memory   *)
(* is set anew when it has memory, the others follow their root.           *)
Owned(t, base) ==
    IF type[t] = "arena" /\ allocs[t].size # 0
    THEN [at |-> "arena", base |-> base, offset |-> allocs[t].offset]
    ELSE data[t]

Resolved(t, base) ==
    IF type[t] = "arena" /\ type[shared[t]] = "arena"
    THEN Owned(shared[t], base)
    ELSE Owned(t, base)

(* Commit: the buffer grows to the high-water mark; when it moves, every   *)
(* pointer into it has to follow.                                          *)
Commit_Forgetful ==
    LET grows == highWater > buffer.size
        base == IF grows THEN buffer.base + 1 ELSE buffer.base
    IN /\ buffer' = [size |-> Larger(buffer.size, highWater), base |-> base]
       /\ data' = [t \in Tensor |-> IF t \in allocated
                                    THEN Resolved(t, base) ELSE data[t]]

Commit ==
    LET grows == highWater > buffer.size
        base == IF grows THEN buffer.base + 1 ELSE buffer.base
    IN /\ buffer' = [size |-> Larger(buffer.size, highWater), base |-> base]
       /\ data' = [t \in Tensor |-> IF grows \/ t \in allocated
                                    THEN Resolved(t, base) ELSE data[t]]

EndAllocations ==
    /\ pending = {}
    /\ scan = NoScan
    /\ Commit
    /\ UNCHANGED <<graph, bytes, type, active, highWater, plannerVars,
                   loopVars>>

-----------------------------------------------------------------------------
(* ResetAllocationsAfter(node): what is needed later only is planned anew. *)
Dropped(t, node) ==
    allocs[t].first > node /\ allocs[t].size > 0 /\ type[t] = "arena"

(* CalculateActiveAllocs, or PurgeAfter when nothing later was placed.     *)
ActiveAt_Ending(kept, node) ==
    IF lastActive > node
    THEN {a \in {kept[t] : t \in Tensor} : a.first <= node /\ a.last = node}
    ELSE {a \in active : a.first <= node}

ActiveAt(kept, node) ==
    IF lastActive > node
    THEN {a \in {kept[t] : t \in Tensor} : a.first <= node /\ a.last >= node}
    ELSE {a \in active : a.first <= node}

ResetAllocationsAfter(node) ==
    LET kept == [t \in Tensor |-> IF Dropped(t, node) THEN NoAlloc
                                                     ELSE allocs[t]]
    IN /\ allocs' = kept
       /\ active' = ActiveAt(kept, node)
       /\ lastActive' = node
=============================================================================
