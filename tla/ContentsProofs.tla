--------------------------- MODULE ContentsProofs ---------------------------
(***************************************************************************)
(* Theorems about the contents of tensors in Subgraph, for every graph     *)
(* whose in-place operators only pass their data on (RESHAPE and its       *)
(* like), every size and every alignment.                                  *)
(***************************************************************************)
EXTENDS SubgraphProofs

(***************************************************************************)
(* No operator modifies its input in place: those that do may write over   *)
(* a tensor that is still read under another name.  Tensors are read after *)
(* they were computed, and temporaries are nothing else.                   *)
(***************************************************************************)
PassingOn ==
    \A g \in Graphs :
        /\ \A i \in Node :
              /\ g.op[i] # "modified"
              /\ \A j \in DOMAIN g.in[i] :
                    g.in[i][j] \in g.inputs \union {g.out[k] : k \in Node}
              /\ g.out[i] \notin g.inputs \union g.temp[i]
              /\ g.temp[i] \intersect g.inputs = {}
        /\ g.outputs \subseteq g.inputs \union {g.out[k] : k \in Node}

-----------------------------------------------------------------------------
(* The inductive invariant                                                 *)

(* t has been written when node n is executed.                             *)
Made(t, n) ==
    t \in graph.inputs \/ \E k \in Node : k < n /\ t = graph.out[k]

(* t is read when node n is executed, or later.                            *)
Needed(t, n) ==
    \/ t \in graph.inputs \union graph.outputs
    \/ \E m \in Node : m >= n /\ t \in Inputs(m)

(* A tensor that lies on another is the output of an operator that passes  *)
(* its data on, and lies where the input of that operator lies.            *)
Passing(actual) ==
    \A t \in Tensor : actual[t] # t =>
        /\ t \notin graph.outputs
        /\ \E n, k \in Node :
              /\ t = graph.out[n] /\ graph.op[n] = "unmodified"
              /\ actual[t] = graph.out[k] /\ k < n
              /\ \/ actual[t] \in Dynamic
                 \/ actual[graph.in[n][1]] = actual[t]

(* The memory of a tensor is kept until its last reader, under whichever   *)
(* name it is read.                                                        *)
LifeOK ==
    /\ \A m \in Node : \A t \in Inputs(m) : lastUse[shared[t]] >= m
    /\ \A m \in Node : \A t \in graph.temp[m] \union {graph.out[m]} :
          lastUse[t] >= m
    /\ \A t \in graph.inputs \union graph.outputs : lastUse[t] = Never
    /\ \A t \in Tensor : shared[t] # t => lastUse[t] = Never

(* Data that is passed on keeps its size.                                  *)
SizePassed ==
    \A n \in Node :
        /\ graph.op[n] = "unmodified"
        /\ n < IF pc = "prepare" THEN prep ELSE nextPrepare
        /\ graph.in[n][1] \notin Dynamic
        => bytes[graph.out[n]] = bytes[graph.in[n][1]]

(* The tensors t of node i for which CalculateAllocations has decided.     *)
Decided(t, i) ==
    \/ i < nextPlan
    \/ pc = "place" /\ i <= prep /\ t \notin pending

Settled ==
    \A i \in Node : \A t \in TensorsOf(graph, i) :
        Decided(t, i) /\ type[t] = "arena" =>
            /\ shared[t] = t => allocs[t].size = bytes[t]
            /\ bytes[t] > 0 => type[shared[t]] = "arena"

(* Nothing else is placed, and what is placed is kept for its lifetime.    *)
Unplaced ==
    \A t \in Tensor : allocs[t].size > 0 =>
        /\ Decided(t, allocs[t].first)
        /\ allocs[t].last = lastUse[t]

(* The loop places tensors that lie on no other, and Commit sets the       *)
(* pointers of all tensors it had to decide on.                            *)
LoopOK ==
    /\ scan # NoScan => shared[scan.tensor] = scan.tensor
    /\ pc = "place" =>
          \A i \in nextPlan..prep : \A t \in TensorsOf(graph, i) :
              type[t] = "arena" /\ bytes[t] > 0 => t \in allocated

(* A tensor points to where it, or what it lies on, was placed.            *)
DataOK ==
    \A i \in Node : \A t \in TensorsOf(graph, i) :
        i < nextPlan /\ type[t] = "arena" /\ bytes[t] > 0 =>
            /\ InArena(t)
            /\ data[t].offset = allocs[shared[t]].offset

(* What an Invoke has computed so far.                                     *)
Computed ==
    /\ pc = "execute" => call # "allocate"
    /\ pc # "idle" /\ call # "allocate" =>
          /\ \A t \in Tensor : Made(t, node) /\ Needed(t, node) => t \in intact
          /\ \A k \in Node :
                k < node /\ graph.op[k] = "dynamic" =>
                    data[graph.out[k]].at = "heap"

ContentsInv ==
    /\ Passing(shared)
    /\ LifeOK
    /\ SizePassed
    /\ Settled
    /\ Unplaced
    /\ LoopOK
    /\ DataOK
    /\ Computed

-----------------------------------------------------------------------------
(* The graph                                                               *)

(* Who computes what.                                                      *)
LEMMA Producers ==
  ASSUME PassingOn, graph \in Graphs
  PROVE  /\ \A i, k \in Node : graph.out[i] = graph.out[k] => i = k
         /\ \A i, k \in Node : graph.out[i] \notin graph.temp[k]
         /\ \A i \in Node : graph.out[i] \notin graph.inputs
         /\ \A i \in Node : graph.temp[i] \intersect graph.inputs = {}
         /\ \A i, k \in Node :
               \A t \in graph.temp[i] \intersect graph.temp[k] : i = k
<1>1. \A i, k \in Node :
         i # k => TensorsOf(graph, i) \intersect TensorsOf(graph, k) = {}
  BY GraphAssumption
<1>2. \A i \in Node : /\ graph.out[i] \notin graph.inputs \union graph.temp[i]
                      /\ graph.temp[i] \intersect graph.inputs = {}
  BY DEF PassingOn
<1> QED
  BY <1>1, <1>2 DEF TensorsOf

(* A tensor that is read has been computed.                                *)
LEMMA ReadMade ==
  ASSUME PassingOn, graph \in Graphs, NEW i \in Node, NEW t \in Inputs(i)
  PROVE  t \in Tensor /\ Made(t, i)
<1>1. PICK j \in DOMAIN graph.in[i] : t = graph.in[i][j]
  BY DEF Inputs
<1>2. t \in graph.inputs \union {graph.out[k] : k \in Node}
  BY <1>1 DEF PassingOn
<1>3. \A k \in Node : t = graph.out[k] => k < i
  BY <1>1, GraphAssumption
<1>4. t \in Tensor
  BY <1>1, GraphOK
<1> QED
  BY <1>2, <1>3, <1>4 DEF Made

(* A tensor that passes its data on has a first input.                     *)
LEMMA FirstInput ==
  ASSUME graph \in Graphs, NEW i \in Node, graph.op[i] = "unmodified"
  PROVE  /\ graph.in[i][1] \in Inputs(i)
         /\ 1 \in DOMAIN graph.in[i]
<1>1. graph.in[i] \in Seq(Tensor) /\ graph.in[i] # <<>>
  BY GraphOK
<1>2. 1 \in DOMAIN graph.in[i]
  BY <1>1
<1> QED
  BY <1>2 DEF Inputs

(* What has been computed before a node belongs to an earlier one, or is   *)
(* an input.                                                               *)
LEMMA MadeOK ==
  ASSUME PassingOn, graph \in Graphs, NEW n \in Int, NEW t, Made(t, n),
         NEW k \in Node, n <= k
  PROVE  t # graph.out[k] /\ t \notin graph.temp[k]
<1>1. CASE t \in graph.inputs
  BY <1>1, Producers
<1>2. ASSUME NEW m \in Node, m < n, t = graph.out[m]
      PROVE  t # graph.out[k] /\ t \notin graph.temp[k]
  <2>1. m # k
    BY <1>2 DEF Node
  <2> QED
    BY <1>2, <2>1, Producers
<1> QED
  BY <1>1, <1>2 DEF Made

(* Where what has been computed is needed first.                           *)
LEMMA MadeAt ==
  ASSUME graph \in Graphs, NEW n \in Node, NEW t, Made(t, n)
  PROVE  \E i \in Node : i <= n /\ t \in TensorsOf(graph, i)
<1>1. 0 \in Node /\ 0 <= n /\ Node \subseteq Int
  BY PlannerAssumption DEF Node
<1>2. CASE t \in graph.inputs
  BY <1>1, <1>2 DEF TensorsOf
<1>3. ASSUME NEW k \in Node, k < n, t = graph.out[k]
      PROVE  k <= n /\ t \in TensorsOf(graph, k)
  BY <1>1, <1>3 DEF TensorsOf
<1> QED
  BY <1>2, <1>3 DEF Made

-----------------------------------------------------------------------------
(* Who passes what on                                                      *)

(* One more output takes the place of its input.                           *)
LEMMA TakePlacePassing ==
  ASSUME PassingOn, graph \in Graphs, NEW n \in Node, NEW A,
         Sharing(A, n), Passing(A)
  PROVE  Passing(TakePlace(A, n))
<1> DEFINE x == graph.in[n][1]
           out == graph.out[n]
           B == [A EXCEPT ![out] = A[x]]
<1>1. /\ graph.op[n] # "modified" /\ out \in Tensor
      /\ A \in [Tensor -> Tensor] /\ Node \subseteq Int
  BY GraphOK DEF PassingOn, Sharing, Node
<1>2. CASE TakePlace(A, n) = A
  BY <1>2
<1>3. CASE TakePlace(A, n) # A
  <2>1. Candidates(n) # {}
    BY <1>3 DEF TakePlace
  <2>2. graph.op[n] = "unmodified" /\ Candidates(n) = {1}
    BY <1>1, <2>1 DEF Candidates, ShareablePositions
  <2>3. FirstCandidate(n) = x
    BY <2>2 DEF FirstCandidate
  <2>4. x \notin graph.inputs /\ out \notin graph.outputs
    BY <2>2 DEF Candidates, InputTensorCanBeShared
  <2>5. x \in Tensor /\ Made(x, n)
    BY <2>2, FirstInput, ReadMade
  <2>6. PICK k \in Node : k < n /\ x = graph.out[k]
    BY <2>4, <2>5 DEF Made
  <2>7. x # out
    BY <1>1, <2>6, Producers
  <2>8. TakePlace(A, n) = B
    BY <1>3, <2>3 DEF TakePlace
  <2>9. /\ B[out] = A[x] /\ B[x] = A[x]
        /\ \A t \in Tensor : t # out => B[t] = A[t]
    BY <1>1, <2>5, <2>7
  <2>10. \E m \in Node : A[x] = graph.out[m] /\ m < n
    <3>1. CASE A[x] = x
      BY <2>6, <3>1
    <3>2. CASE A[x] # x
      <4>1. PICK p, m \in Node :
              x = graph.out[p] /\ A[x] = graph.out[m] /\ m < p
        BY <2>5, <3>2 DEF Passing
      <4>2. p = k
        BY <2>6, <4>1, Producers
      <4>3. m < n
        BY <1>1, <2>6, <4>1, <4>2
      <4> QED
        BY <4>1, <4>3
    <3> QED
      BY <3>1, <3>2
  <2> HIDE DEF x, out, B
  <2>11. ASSUME NEW t \in Tensor, B[t] # t
         PROVE  /\ t \notin graph.outputs
                /\ \E p, m \in Node :
                      /\ t = graph.out[p] /\ graph.op[p] = "unmodified"
                      /\ B[t] = graph.out[m] /\ m < p
                      /\ \/ B[t] \in Dynamic
                         \/ B[graph.in[p][1]] = B[t]
    <3>1. CASE t = out
      <4>1. PICK m \in Node : B[t] = graph.out[m] /\ m < n
        BY <2>9, <2>10, <3>1
      <4>2. t = graph.out[n] /\ B[graph.in[n][1]] = B[t]
        BY <2>9, <3>1 DEF x, out
      <4> QED
        BY <2>2, <2>4, <3>1, <4>1, <4>2
    <3>2. CASE t # out
      <4>1. B[t] = A[t] /\ A[t] # t
        BY <2>9, <2>11, <3>2
      <4>2. PICK p, m \in Node :
              /\ t = graph.out[p] /\ graph.op[p] = "unmodified"
              /\ A[t] = graph.out[m] /\ m < p
              /\ \/ A[t] \in Dynamic
                 \/ A[graph.in[p][1]] = A[t]
        BY <4>1 DEF Passing
      <4>3. p < n
        <5>1. PICK q \in Node : q < n /\ t = graph.out[q]
          BY <4>1 DEF Sharing
        <5> QED
          BY <4>2, <5>1, Producers
      <4>4. graph.in[p][1] \in Tensor /\ graph.in[p][1] # out
        <5>1. graph.in[p][1] \in Inputs(p)
          BY <4>2, FirstInput
        <5>2. graph.in[p][1] \in Tensor /\ Made(graph.in[p][1], p)
          BY <5>1, ReadMade
        <5>3. p \in Int /\ p <= n
          BY <1>1, <4>3
        <5> QED
          BY <5>2, <5>3, MadeOK DEF out
      <4>5. B[graph.in[p][1]] = A[graph.in[p][1]]
        BY <2>9, <4>4
      <4>6. t \notin graph.outputs
        BY <4>1 DEF Passing
      <4> QED
        BY <4>1, <4>2, <4>5, <4>6
    <3> QED
      BY <3>1, <3>2
  <2> QED
    BY <2>8, <2>11 DEF Passing
<1> QED
  BY <1>2, <1>3

(* What IdentifyInPlaceTensors computes from such a graph.                 *)
LEMMA InPlacePassing ==
  ASSUME PassingOn, graph \in Graphs
  PROVE  Passing(IdentifyInPlaceTensors)
<1> DEFINE S == {i \in Nat : i <= NumNodes => /\ Sharing(ActualTensor[i], i)
                                              /\ Passing(ActualTensor[i])}
<1>1. 0 \in S
  BY ActualTensorDef DEF Sharing, Passing
<1>2. ASSUME NEW n \in Nat, n \in S PROVE n + 1 \in S
  <2> SUFFICES ASSUME n + 1 <= NumNodes
               PROVE  /\ Sharing(ActualTensor[n + 1], n + 1)
                      /\ Passing(ActualTensor[n + 1])
    OBVIOUS
  <2>1. n \in Node /\ n <= NumNodes
    BY PlannerAssumption DEF Node
  <2> QED
    BY <1>2, <2>1, ActualTensorDef, TakePlaceOK, TakePlacePassing
<1>3. NumNodes \in S
  BY <1>1, <1>2, Induction, PlannerAssumption
<1> QED
  BY <1>3, PlannerAssumption DEF IdentifyInPlaceTensors

-----------------------------------------------------------------------------
(* Lifetimes                                                               *)

(* The last node is a node of the set, and no other is later.              *)
LEMMA LastOfOK ==
  ASSUME NEW S \in SUBSET Node
  PROVE  /\ LastOf(S) \in S \union {Never}
         /\ \A m \in S : LastOf(S) >= m
<1>1. \A m \in Node : Never >= m
  BY PlannerAssumption DEF Node, Never
<1>2. CASE \E i \in S : \A k \in S : k <= i
  <2> DEFINE l == CHOOSE i \in S : \A k \in S : k <= i
  <2>1. l \in S /\ \A k \in S : k <= l
    BY <1>2
  <2>2. LastOf(S) = l
    BY <1>2 DEF LastOf
  <2> QED
    BY <2>1, <2>2 DEF Node
<1>3. CASE ~\E i \in S : \A k \in S : k <= i
  BY <1>1, <1>3 DEF LastOf
<1> QED
  BY <1>2, <1>3

(* The lifetimes that PlanAllocations computes.                            *)
LEMMA PlannedLife ==
  ASSUME PassingOn, graph \in Graphs, NEW A, Sharing(A, NumNodes), Passing(A)
  PROVE  /\ \A m \in Node : \A t \in Inputs(m) : LastUse(A, A[t]) >= m
         /\ \A m \in Node : \A t \in graph.temp[m] \union {graph.out[m]} :
               LastUse(A, t) >= m
         /\ \A t \in graph.inputs \union graph.outputs : LastUse(A, t) = Never
         /\ \A t \in Tensor : A[t] # t => LastUse(A, t) = Never
<1> DEFINE Readers(t) == {i \in Node : \/ t \in graph.temp[i]
                                       \/ \E j \in DOMAIN graph.in[i] :
                                             A[graph.in[i][j]] = t}
<1>1. /\ Node \subseteq Int /\ A \in [Tensor -> Tensor]
      /\ \A t \in Tensor : A[A[t]] = A[t]
      /\ \A m \in Node : Never >= m
  BY PlannerAssumption DEF Node, Sharing, Never
<1>2. ASSUME NEW t
      PROVE  /\ LastUse(A, t) \in Readers(t) \union {Never}
             /\ \A m \in Readers(t) : LastUse(A, t) >= m
  <2>1. CASE t \in graph.inputs \union graph.outputs
    BY <1>1, <2>1 DEF LastUse
  <2>2. CASE t \notin graph.inputs \union graph.outputs
    <3>1. LastUse(A, t) = LastOf(Readers(t)) /\ Readers(t) \in SUBSET Node
      BY <2>2 DEF LastUse
    <3> QED
      BY <3>1, LastOfOK
  <2> QED
    BY <2>1, <2>2
<1>3. ASSUME NEW m \in Node, NEW t \in Inputs(m)
      PROVE  LastUse(A, A[t]) >= m
  <2>1. m \in Readers(A[t])
    BY <1>3 DEF Inputs
  <2> QED
    BY <1>2, <2>1
<1>4. ASSUME NEW m \in Node, NEW t \in graph.temp[m]
      PROVE  LastUse(A, t) >= m
  BY <1>2, <1>4
<1>5. ASSUME NEW m \in Node PROVE LastUse(A, graph.out[m]) >= m
  <2> DEFINE t == graph.out[m]
  <2>1. ASSUME NEW i \in Readers(t) PROVE i >= m
    <3>1. t \notin graph.temp[i]
      BY Producers
    <3>2. PICK j \in DOMAIN graph.in[i] : A[graph.in[i][j]] = t
      BY <3>1
    <3> DEFINE u == graph.in[i][j]
    <3>3. u \in Inputs(i)
      BY DEF Inputs
    <3>4. u \in Tensor /\ \A k \in Node : u = graph.out[k] => k < i
      BY <3>3, ReadMade, GraphAssumption
    <3>5. CASE u = t
      BY <1>1, <3>4, <3>5
    <3>6. CASE u # t
      <4>1. PICK n, k \in Node :
              u = graph.out[n] /\ A[u] = graph.out[k] /\ k < n
        BY <3>2, <3>4, <3>6 DEF Passing
      <4>2. k = m
        BY <3>2, <4>1, Producers
      <4>3. n < i
        BY <3>4, <4>1
      <4> QED
        BY <1>1, <4>1, <4>2, <4>3
    <3> QED
      BY <3>5, <3>6
  <2> QED
    BY <1>1, <1>2, <2>1
<1>6. ASSUME NEW t \in Tensor, A[t] # t PROVE LastUse(A, t) = Never
  <2>1. ASSUME NEW i \in Readers(t) PROVE FALSE
    <3>1. t \notin graph.temp[i]
      BY <1>6, Producers DEF Passing
    <3>2. PICK j \in DOMAIN graph.in[i] : A[graph.in[i][j]] = t
      BY <3>1
    <3>3. graph.in[i][j] \in Tensor
      BY GraphOK
    <3> QED
      BY <1>1, <1>6, <3>2, <3>3
  <2> QED
    BY <1>2, <2>1
<1>7. \A t \in graph.inputs \union graph.outputs : LastUse(A, t) = Never
  BY DEF LastUse
<1> QED
  BY <1>3, <1>4, <1>5, <1>6, <1>7

-----------------------------------------------------------------------------
(* Sizes                                                                   *)

(* Data that is passed on keeps its size over any number of operators.     *)
LEMMA SameSize ==
  ASSUME PassingOn, graph \in Graphs, Sharing(shared, NumNodes),
         Passing(shared), SizePassed, NEW n \in Node,
         n < IF pc = "prepare" THEN prep ELSE nextPrepare,
         (IF pc = "prepare" THEN prep ELSE nextPrepare) \in Int,
         shared[graph.out[n]] # graph.out[n],
         shared[graph.out[n]] \notin Dynamic
  PROVE  bytes[graph.out[n]] = bytes[shared[graph.out[n]]]
<1> DEFINE F == IF pc = "prepare" THEN prep ELSE nextPrepare
           Same(t) == bytes[t] = bytes[shared[t]]
           S == {m \in Nat : \A k \in Node :
                   /\ k < m /\ k < F
                   /\ shared[graph.out[k]] # graph.out[k]
                   /\ shared[graph.out[k]] \notin Dynamic
                   => Same(graph.out[k])}
<1>1. 0 \in S /\ Node \subseteq Nat
  BY DEF Node
<1>2. ASSUME NEW m \in Nat, m \in S PROVE m + 1 \in S
  <2> SUFFICES ASSUME NEW k \in Node, k < m + 1, k < F,
                      shared[graph.out[k]] # graph.out[k],
                      shared[graph.out[k]] \notin Dynamic
               PROVE  Same(graph.out[k])
    OBVIOUS
  <2> DEFINE t == graph.out[k]
             x == graph.in[k][1]
  <2>1. t \in Tensor
    BY GraphOK
  <2>2. graph.op[k] = "unmodified" /\ shared[x] = shared[t]
    <3>1. PICK p \in Node : /\ t = graph.out[p] /\ graph.op[p] = "unmodified"
                            /\ shared[graph.in[p][1]] = shared[t]
      BY <2>1 DEF Passing
    <3>2. p = k
      BY <3>1, Producers
    <3> QED
      BY <3>1, <3>2
  <2>3. x \in Tensor /\ Made(x, k)
    BY <2>2, FirstInput, ReadMade
  <2>4. x \notin Dynamic => bytes[t] = bytes[x]
    BY <2>2 DEF SizePassed
  <2>5. CASE shared[x] = x
    BY <2>2, <2>4, <2>5
  <2>6. CASE shared[x] # x
    <3>1. PICK p \in Node : x = graph.out[p] /\ graph.op[p] = "unmodified"
      BY <2>3, <2>6 DEF Passing
    <3>2. p < k
      <4>1. PICK q \in Node : q < k /\ x = graph.out[q]
        BY <2>3, <3>1, Producers DEF Made
      <4> QED
        BY <3>1, <4>1, Producers
    <3>3. p < m /\ p < F
      BY <1>1, <3>2
    <3>4. x \notin Dynamic
      BY <3>1, Producers DEF Dynamic
    <3>5. Same(x)
      BY <1>2, <2>2, <2>6, <3>1, <3>3
    <3> QED
      BY <2>2, <2>4, <3>4, <3>5
  <2> QED
    BY <2>5, <2>6
<1>3. n + 1 \in S
  BY <1>1, <1>2, Induction
<1> QED
  BY <1>1, <1>3

-----------------------------------------------------------------------------
(* Steps in general                                                        *)

(* How far nodes are prepared.                                             *)
LEMMA Frontier ==
  ASSUME ArenaInv
  PROVE  /\ (IF pc = "prepare" THEN prep ELSE nextPrepare) \in Int
         /\ nextPlan <= IF pc = "prepare" THEN prep ELSE nextPrepare
         /\ nextPlan \in Int /\ prep \in Node /\ prep \in Int
         /\ graph \in Graphs /\ Node \subseteq Int
  BY DEF ArenaInv, ArenaTypeOK, Stages, Node

(* What a tensor lies on belongs to an earlier node.                       *)
LEMMA RootOf ==
  ASSUME PassingOn, graph \in Graphs, Passing(shared), NEW i \in Node,
         NEW t \in TensorsOf(graph, i), shared[t] # t
  PROVE  /\ t = graph.out[i] /\ graph.op[i] = "unmodified"
         /\ t \notin Dynamic /\ t \notin graph.outputs
         /\ \/ shared[t] \in Dynamic
            \/ shared[graph.in[i][1]] = shared[t]
         /\ \E k \in Node : k < i /\ shared[t] = graph.out[k]
<1>1. t \in Tensor
  BY GraphOK
<1>2. PICK n, k \in Node :
        /\ t = graph.out[n] /\ graph.op[n] = "unmodified"
        /\ shared[t] = graph.out[k] /\ k < n
        /\ \/ shared[t] \in Dynamic
           \/ shared[graph.in[n][1]] = shared[t]
  BY <1>1 DEF Passing
<1>3. t \notin graph.outputs
  BY <1>1 DEF Passing
<1>4. n = i
  <2>1. t \in TensorsOf(graph, n)
    BY <1>2 DEF TensorsOf
  <2> QED
    BY <2>1, FirstUseOK
<1>5. t \notin Dynamic
  BY <1>2, Producers DEF Dynamic
<1> QED
  BY <1>2, <1>3, <1>4, <1>5

(* Where a tensor lies once CalculateAllocations has decided.              *)
LEMMA Occupies ==
  ASSUME PassingOn, ArenaInv, PointerInv, ContentsInv, NEW i \in Node,
         NEW t \in TensorsOf(graph, i), type[t] = "arena", bytes[t] > 0,
         i < nextPlan \/ (pc = "place" /\ i <= prep /\ pending = {})
  PROVE  /\ t \in Tensor /\ shared[t] \in Tensor
         /\ type[shared[t]] = "arena"
         /\ allocs[shared[t]].size = bytes[t]
         /\ \E k \in Node : k <= i /\ shared[t] \in TensorsOf(graph, k)
<1> DEFINE r == shared[t]
<1>1. /\ graph \in Graphs /\ Node \subseteq Int /\ t \in Tensor
      /\ nextPlan \in Int /\ prep \in Int
  BY Frontier, GraphOK
<1>2. r \in Tensor /\ shared[r] = r
  BY <1>1 DEF PointerInv, Sharing
<1>3. Decided(t, i) /\ type[r] = "arena"
  <2>1. Decided(t, i)
    BY DEF Decided
  <2> QED
    BY <2>1 DEF ContentsInv, Settled
<1>4. CASE r = t
  BY <1>1, <1>2, <1>3, <1>4 DEF ContentsInv, Settled
<1>5. CASE r # t
  <2>1. /\ t = graph.out[i]
        /\ \E k \in Node : k < i /\ r = graph.out[k]
    BY <1>1, <1>5, RootOf DEF ContentsInv
  <2>2. PICK k \in Node : k < i /\ r = graph.out[k]
    BY <2>1
  <2>3. i < IF pc = "prepare" THEN prep ELSE nextPrepare
    BY <1>1, Frontier DEF ArenaInv, Stages
  <2>4. (IF pc = "prepare" THEN prep ELSE nextPrepare) \in Int
    BY Frontier
  <2>5. r \notin Dynamic
    <3> SUFFICES ASSUME NEW q \in Node, graph.op[q] = "dynamic",
                        r = graph.out[q]
                 PROVE  FALSE
      BY DEF Dynamic
    <3>1. q = k
      BY <1>1, <2>2, Producers
    <3>2. q < IF pc = "prepare" THEN prep ELSE nextPrepare
      BY <1>1, <2>2, <2>3, <2>4, <3>1
    <3> QED
      BY <1>3, <3>2 DEF PointerInv, Recognised
  <2>6. bytes[t] = bytes[r]
    BY <1>1, <1>5, <2>1, <2>3, <2>4, <2>5, SameSize DEF PointerInv, ContentsInv
  <2>7. r \in TensorsOf(graph, k) /\ k <= i /\ Decided(r, k)
    <3>1. r \in TensorsOf(graph, k)
      BY <2>2 DEF TensorsOf
    <3>2. k \in Int /\ i \in Int /\ k < i
      BY <1>1, <2>2
    <3>3. k <= i /\ (i < nextPlan => k < nextPlan) /\ (i <= prep => k <= prep)
      BY <1>1, <3>2
    <3> QED
      BY <3>1, <3>3 DEF Decided
  <2>8. allocs[r].size = bytes[r]
    BY <1>2, <1>3, <2>7 DEF ContentsInv, Settled
  <2> QED
    BY <1>1, <1>2, <1>3, <2>6, <2>7, <2>8
<1> QED
  BY <1>4, <1>5

(* A step that plans nothing.                                              *)
LEMMA PlanKept ==
  ASSUME Passing(shared), LifeOK, UNCHANGED <<graph, shared, lastUse>>
  PROVE  Passing(shared)' /\ LifeOK'
  BY DEF Passing, LifeOK, Dynamic, Inputs

(* A step outside of the placing that leaves the tensors alone.            *)
LEMMA ContentsKept ==
  ASSUME ArenaInv, ArenaInv', ContentsInv, pc # "place", pc' # "place",
         UNCHANGED <<graph, bytes, type, data>>,
         UNCHANGED <<allocs, shared, lastUse, scan, nextPlan>>,
         (IF pc = "prepare" THEN prep ELSE nextPrepare)' <=
            IF pc = "prepare" THEN prep ELSE nextPrepare,
         Computed'
  PROVE  ContentsInv'
<1>1. Passing(shared)' /\ LifeOK'
  BY PlanKept DEF ContentsInv
<1>2. SizePassed'
  <2> DEFINE m == IF pc = "prepare" THEN prep ELSE nextPrepare
  <2>1. m \in Int /\ m' \in Int
    BY DEF ArenaInv, ArenaTypeOK, Node
  <2>2. ASSUME NEW i \in Node, i < m' PROVE i < m
    BY <2>1, <2>2 DEF Node
  <2>3. Dynamic' = Dynamic
    BY DEF Dynamic
  <2> QED
    BY <2>2, <2>3 DEF SizePassed, ContentsInv
<1>3. Settled' /\ Unplaced'
  BY DEF ContentsInv, Settled, Unplaced, Decided, TensorsOf
<1>4. LoopOK' /\ DataOK'
  BY DEF ContentsInv, LoopOK, DataOK, TensorsOf, InArena
<1> QED
  BY <1>1, <1>2, <1>3, <1>4 DEF ContentsInv

(* The steps of the driver that execute nothing.                           *)
LEMMA DriverContents ==
  ASSUME ArenaInv, ArenaInv', ContentsInv, UNCHANGED <<bytes, data, type>>,
         AllocateTensors \/ PrepareFails \/ Invoke \/ PrepareRest
            \/ InvokeReturns
  PROVE  ContentsInv'
<1> USE DEF AllocateTensors, PrepareFails, Invoke, PrepareRest, InvokeReturns,
            Return
<1>1. /\ UNCHANGED <<graph, bytes, type, data>>
      /\ UNCHANGED <<allocs, shared, lastUse, scan>>
      /\ pc # "place" /\ pc' # "place"
  BY DEF tensorVars, arenaVars, plannerVars, loopVars
<1>2. UNCHANGED nextPlan
  BY DEF ArenaInv, Planner
<1>3. /\ prep \in Node /\ nextPrepare \in 0..NumNodes /\ 0 <= nextPrepare
      /\ pc = "prepare" => nextPrepare <= prep
      /\ prep <= prep /\ nextPrepare <= nextPrepare
  BY DEF ArenaInv, ArenaTypeOK, Stages, Node
<1>4. (IF pc = "prepare" THEN prep ELSE nextPrepare)' <=
         IF pc = "prepare" THEN prep ELSE nextPrepare
  BY <1>3
<1>5. Computed'
  <2>1. CASE AllocateTensors \/ PrepareFails \/ InvokeReturns
    BY <2>1 DEF Computed
  <2>2. CASE PrepareRest
    BY <1>1, <2>2 DEF ContentsInv, Computed, Made, Needed, Inputs
  <2>3. CASE Invoke
    <3>1. CASE ~invokable
      BY <2>3, <3>1 DEF Computed
    <3>2. CASE invokable
      <4>1. \A k \in Node : ~(k < 0)
        BY DEF Node
      <4>2. /\ node' = 0 /\ intact' = graph.inputs /\ graph' = graph
            /\ call' = "invoke"
        BY <1>1, <2>3, <3>2
      <4>3. \A t \in Tensor : Made(t, node)' => t \in intact'
        BY <4>1, <4>2 DEF Made
      <4> QED
        BY <4>1, <4>2, <4>3 DEF Computed
    <3> QED
      BY <3>1, <3>2
  <2> QED
    BY <2>1, <2>2, <2>3
<1> QED
  BY <1>1, <1>2, <1>4, <1>5, ContentsKept

-----------------------------------------------------------------------------
(* Preparing and planning                                                  *)

(* Prepare changes the tensors of its own node only, and an operator that  *)
(* passes its data on passes its size on.                                  *)
LEMMA PrepareContents ==
  ASSUME PassingOn, ArenaInv, ArenaInv', ContentsInv, Prepare(prep),
         PrepareOp \/ PrepareFails
  PROVE  ContentsInv'
<1> DEFINE T == {graph.out[prep]} \union graph.temp[prep]
<1>1. /\ pc = "prepare" /\ pc' # "place" /\ pc' # "execute"
      /\ UNCHANGED <<graph, allocs, shared, lastUse, scan, nextPlan>>
      /\ UNCHANGED <<call, node, intact>>
  BY DEF PrepareOp, PrepareFails, Return, arenaVars, plannerVars, loopVars
<1>2. /\ graph \in Graphs /\ prep \in Node /\ Node \subseteq Int
      /\ nextPlan \in Int /\ nextPlan <= prep
      /\ call # "allocate" => node <= prep
      /\ node \in Int
  BY <1>1, Frontier DEF ArenaInv, Stages, ArenaTypeOK
<1>3. PICK b \in PreparedBytes(prep), R \in SUBSET SizedByPrepare(prep) :
        /\ bytes' = b
        /\ data' = [t \in Tensor |->
                      IF \/ b[t] # bytes[t]
                         \/ t \in R
                         \/ /\ t = graph.out[prep]
                            /\ graph.op[prep] = "dynamic"
                            /\ type[t] # "dynamic"
                      THEN NullPtr
                      ELSE data[t]]
  BY DEF Prepare
<1>4. PICK c \in [SizedByPrepare(prep) -> Bytes] :
        b = [t \in Tensor |->
               IF graph.op[prep] = "unmodified" /\ t = graph.out[prep]
               THEN bytes[graph.in[prep][1]]
               ELSE IF t \in SizedByPrepare(prep) THEN c[t] ELSE bytes[t]]
  BY DEF PreparedBytes
<1>5. SizedByPrepare(prep) \subseteq T
  BY DEF SizedByPrepare
<1> HIDE DEF T
<1>6. ASSUME NEW t \in Tensor, t \notin T
      PROVE  bytes'[t] = bytes[t] /\ data'[t] = data[t]
  BY <1>3, <1>4, <1>5, <1>6 DEF T
<1>7. ASSUME NEW t \in Tensor, t \notin T PROVE type'[t] = type[t]
  BY <1>7 DEF Prepare, T, ArenaInv, ArenaTypeOK
<1>8. ASSUME NEW n \in Node, n <= prep, NEW t, Made(t, n) PROVE t \notin T
  BY <1>2, <1>8, MadeOK DEF T
<1>9. ASSUME NEW n \in Node, n < prep, NEW t \in TensorsOf(graph, n)
      PROVE  t \notin T /\ t \in Tensor
  <2>1. n # prep
    BY <1>2, <1>9
  <2>2. TensorsOf(graph, n) \intersect TensorsOf(graph, prep) = {}
    BY <1>2, <2>1, GraphAssumption
  <2> QED
    BY <1>2, <2>2, GraphOK DEF T, TensorsOf
<1>10. ASSUME NEW n \in Node, n < nextPlan, NEW t \in TensorsOf(graph, n)
       PROVE  /\ t \in Tensor /\ UNCHANGED <<bytes[t], data[t], type[t]>>
              /\ shared[t] \in Tensor /\ type'[shared[t]] = type[shared[t]]
  <2>1. n < prep
    BY <1>2, <1>10
  <2>2. t \notin T /\ t \in Tensor
    BY <2>1, <1>9
  <2>3. CASE shared[t] = t
    BY <1>6, <1>7, <2>2, <2>3
  <2>4. CASE shared[t] # t
    <3>1. PICK k \in Node : k < n /\ shared[t] = graph.out[k]
      BY <1>2, <2>4, RootOf DEF ContentsInv
    <3>2. k < prep /\ shared[t] \in TensorsOf(graph, k)
      BY <1>2, <2>1, <3>1 DEF TensorsOf
    <3>3. shared[t] \notin T /\ shared[t] \in Tensor
      BY <1>9, <3>2
    <3> QED
      BY <1>6, <1>7, <2>2, <3>3
  <2> QED
    BY <2>3, <2>4
<1>11. Passing(shared)' /\ LifeOK'
  BY <1>1, PlanKept DEF ContentsInv
<1>12. SizePassed'
  <2> SUFFICES ASSUME NEW n \in Node, graph.op[n] = "unmodified",
                      n < (IF pc = "prepare" THEN prep ELSE nextPrepare)',
                      graph.in[n][1] \notin Dynamic
               PROVE  bytes'[graph.out[n]] = bytes'[graph.in[n][1]]
    BY <1>1 DEF SizePassed, Dynamic
  <2>1. n <= prep
    <3>1. n < prep + 1
      BY <1>1, <1>2 DEF PrepareOp, PrepareFails, Return, ArenaInv, Stages,
         ArenaTypeOK
    <3> QED
      BY <1>2, <3>1
  <2>2. graph.in[n][1] \in Tensor /\ Made(graph.in[n][1], n)
    BY <1>2, FirstInput, ReadMade
  <2>3. bytes'[graph.in[n][1]] = bytes[graph.in[n][1]]
    BY <1>6, <1>8, <2>1, <2>2
  <2>4. CASE n = prep
    <3>1. graph.out[n] \in Tensor
      BY <1>2, GraphOK
    <3> QED
      BY <1>3, <1>4, <2>3, <2>4, <3>1
  <2>5. CASE n # prep
    <3>1. n < prep /\ graph.out[n] \in TensorsOf(graph, n)
      BY <1>2, <2>1, <2>5 DEF TensorsOf
    <3>2. bytes'[graph.out[n]] = bytes[graph.out[n]]
      BY <1>6, <1>9, <3>1
    <3> QED
      BY <1>1, <2>3, <3>1, <3>2 DEF ContentsInv, SizePassed
  <2> QED
    BY <2>4, <2>5
<1>13. Settled'
  <2> SUFFICES ASSUME NEW i \in Node, NEW t \in TensorsOf(graph, i),
                      i < nextPlan, type'[t] = "arena"
               PROVE  /\ shared[t] = t => allocs[t].size = bytes'[t]
                      /\ bytes'[t] > 0 => type'[shared[t]] = "arena"
    BY <1>1 DEF Settled, Decided, TensorsOf
  <2> QED
    BY <1>10 DEF ContentsInv, Settled, Decided
<1>14. Unplaced' /\ LoopOK'
  BY <1>1 DEF ContentsInv, Unplaced, Decided, LoopOK
<1>15. DataOK'
  <2> SUFFICES ASSUME NEW i \in Node, NEW t \in TensorsOf(graph, i),
                      i < nextPlan, type'[t] = "arena", bytes'[t] > 0
               PROVE  /\ data'[t].at = "arena"
                      /\ data'[t].offset = allocs[shared[t]].offset
    BY <1>1 DEF DataOK, InArena, TensorsOf
  <2> QED
    BY <1>10 DEF ContentsInv, DataOK, InArena
<1>16. Computed'
  <2> SUFFICES ASSUME call # "allocate"
               PROVE  /\ \A t \in Tensor :
                            Made(t, node) /\ Needed(t, node) => t \in intact
                      /\ \A k \in Node :
                            k < node /\ graph.op[k] = "dynamic" =>
                                data'[graph.out[k]].at = "heap"
    BY <1>1 DEF Computed, Made, Needed, Inputs
  <2>1. ASSUME NEW k \in Node, k < node, graph.op[k] = "dynamic"
        PROVE  data'[graph.out[k]].at = "heap"
    <3>1. k < prep /\ graph.out[k] \in TensorsOf(graph, k)
      BY <1>2, <2>1 DEF TensorsOf
    <3>2. data'[graph.out[k]] = data[graph.out[k]]
      BY <1>6, <1>9, <3>1
    <3> QED
      BY <1>1, <2>1, <3>2 DEF ContentsInv, Computed
  <2> QED
    BY <1>1, <2>1 DEF ContentsInv, Computed
<1> QED
  BY <1>11, <1>12, <1>13, <1>14, <1>15, <1>16 DEF ContentsInv

(* Planning decides on the tensors that need no memory.                    *)
LEMMA PlanContents ==
  ASSUME PassingOn, ArenaInv, ArenaInv', ContentsInv, Plan
  PROVE  ContentsInv'
<1> DEFINE wanted == TensorsToAllocate(nextPlan, prep)
<1>1. /\ pc = "plan" /\ pc' = "place" /\ scan = NoScan
      /\ pending' = wanted /\ allocated' = wanted
      /\ UNCHANGED <<graph, bytes, type, data, allocs, scan>>
      /\ UNCHANGED <<call, nextPrepare, nextPlan, prep, node, intact>>
  BY DEF Plan, CalculateAllocations, tensorVars, ArenaInv, ScanOK
<1>2. /\ graph \in Graphs /\ Node \subseteq Int /\ prep \in Int
      /\ nextPlan \in Int /\ bytes \in [Tensor -> Nat]
      /\ \A t \in Tensor : allocs[t].size \in Nat
      /\ ~planned => nextPlan = 0
  BY Frontier, PlannerAssumption DEF ArenaInv, ArenaTypeOK, Allocs, Planner
<1>3. Passing(shared)' /\ LifeOK'
  <2>1. CASE planned
    BY <1>1, <2>1, PlanKept DEF Plan, ContentsInv
  <2>2. CASE ~planned
    <3> DEFINE A == IdentifyInPlaceTensors
    <3>1. shared' = A /\ lastUse' = [t \in Tensor |-> LastUse(A, t)]
      BY <2>2 DEF Plan, PlanAllocations
    <3>2. Sharing(A, NumNodes) /\ Passing(A)
      BY <1>2, InPlaceOK, InPlacePassing
    <3> HIDE DEF A
    <3>3. Passing(shared)'
      BY <1>1, <3>1, <3>2 DEF Passing, Dynamic
    <3>4. /\ A \in [Tensor -> Tensor]
          /\ \A m \in Node : /\ Inputs(m) \subseteq Tensor
                             /\ graph.out[m] \in Tensor
                             /\ graph.temp[m] \subseteq Tensor
          /\ graph.inputs \union graph.outputs \subseteq Tensor
      <4>1. A \in [Tensor -> Tensor]
        BY <3>2 DEF Sharing
      <4>2. graph \in Graph
        BY <1>2, GraphAssumption
      <4> QED
        BY <1>2, <4>1, <4>2, GraphOK, ReadMade DEF Graph
    <3>5. /\ \A m \in Node : \A t \in Inputs(m) : lastUse'[A[t]] >= m
          /\ \A m \in Node : \A t \in graph.temp[m] \union {graph.out[m]} :
                lastUse'[t] >= m
          /\ \A t \in graph.inputs \union graph.outputs : lastUse'[t] = Never
          /\ \A t \in Tensor : A[t] # t => lastUse'[t] = Never
      <4>1. \A t \in Tensor : lastUse'[t] = LastUse(A, t)
        BY <3>1
      <4> QED
        BY <1>2, <3>2, <3>4, <4>1, PlannedLife
    <3>6. LifeOK'
      BY <1>1, <3>1, <3>5 DEF LifeOK, Inputs
    <3> QED
      BY <3>3, <3>6
  <2> QED
    BY <2>1, <2>2
<1>4. SizePassed'
  BY <1>1 DEF ContentsInv, SizePassed, Dynamic
<1>5. ASSUME NEW i \in Node, i < nextPlan
      PROVE  UNCHANGED <<shared, lastUse>>
  <2>1. planned
    BY <1>2, <1>5 DEF Node
  <2> QED
    BY <2>1 DEF Plan
<1>6. ASSUME NEW i \in Node, NEW t \in TensorsOf(graph, i), ~(i < nextPlan)
      PROVE  t \in Tensor /\ allocs[t].size = 0
  <2>1. t \in Tensor
    BY <1>2, <1>6, GraphOK
  <2>2. ASSUME allocs[t].size > 0 PROVE FALSE
    <3>1. /\ allocs[t].first \in Node
          /\ t \in TensorsOf(graph, allocs[t].first)
      BY <2>1, <2>2 DEF ArenaInv, PlacedOK
    <3>2. allocs[t].first < nextPlan
      BY <1>1, <2>1, <2>2 DEF ContentsInv, Unplaced, Decided
    <3>3. allocs[t].first = i
      BY <1>2, <1>6, <3>1, FirstUseOK
    <3> QED
      BY <1>6, <3>2, <3>3
  <2> QED
    BY <1>2, <2>1, <2>2
<1>7. ASSUME NEW i \in Node, NEW t \in TensorsOf(graph, i), ~(i < nextPlan),
             i <= prep, type[t] = "arena", bytes[t] > 0
      PROVE  t \in wanted
  <2>1. i \in nextPlan..prep
    BY <1>2, <1>7
  <2>2. allocs[t].size < bytes[t]
    BY <1>2, <1>6, <1>7
  <2> QED
    BY <1>7, <2>1, <2>2 DEF TensorsToAllocate
<1>8. Settled'
  <2> SUFFICES ASSUME NEW i \in Node, NEW t \in TensorsOf(graph, i),
                      i < nextPlan \/ (i <= prep /\ t \notin wanted),
                      type[t] = "arena"
               PROVE  /\ shared'[t] = t => allocs[t].size = bytes[t]
                      /\ bytes[t] > 0 => type[shared'[t]] = "arena"
    BY <1>1 DEF Settled, Decided, TensorsOf
  <2>1. CASE i < nextPlan
    BY <1>5, <2>1 DEF ContentsInv, Settled, Decided
  <2>2. CASE ~(i < nextPlan)
    <3>1. t \in Tensor /\ allocs[t].size = 0 /\ ~(bytes[t] > 0)
      BY <1>6, <1>7, <2>2
    <3>2. bytes[t] = 0
      BY <1>2, <3>1
    <3> QED
      BY <3>1, <3>2
  <2> QED
    BY <2>1, <2>2
<1>9. Unplaced'
  <2> SUFFICES ASSUME NEW t \in Tensor, allocs[t].size > 0
               PROVE  /\ allocs[t].first < nextPlan
                      /\ allocs[t].last = lastUse'[t]
    BY <1>1 DEF Unplaced, Decided
  <2>1. /\ allocs[t].first < nextPlan
        /\ allocs[t].last = lastUse[t]
    BY <1>1 DEF ContentsInv, Unplaced, Decided
  <2>2. allocs[t].first \in Node
    BY DEF ArenaInv, PlacedOK
  <2> QED
    BY <1>5, <2>1, <2>2
<1>10. LoopOK'
  <2> SUFFICES ASSUME NEW i \in nextPlan..prep, NEW t \in TensorsOf(graph, i),
                      type[t] = "arena", bytes[t] > 0
               PROVE  t \in wanted
    BY <1>1 DEF LoopOK, TensorsOf
  <2>1. i \in Node /\ ~(i < nextPlan) /\ i <= prep
    BY <1>2, PlannerAssumption DEF ArenaInv, ArenaTypeOK, Node
  <2> QED
    BY <1>7, <2>1
<1>11. DataOK'
  <2> SUFFICES ASSUME NEW i \in Node, NEW t \in TensorsOf(graph, i),
                      i < nextPlan, type[t] = "arena", bytes[t] > 0
               PROVE  /\ data[t].at = "arena"
                      /\ data[t].offset = allocs[shared'[t]].offset
    BY <1>1 DEF DataOK, InArena, TensorsOf
  <2> QED
    BY <1>5 DEF ContentsInv, DataOK, InArena
<1>12. Computed'
  BY <1>1 DEF ContentsInv, Computed, Made, Needed, Inputs
<1> QED
  BY <1>3, <1>4, <1>8, <1>9, <1>10, <1>11, <1>12 DEF ContentsInv

-----------------------------------------------------------------------------
(* Placing                                                                 *)

(* A tensor that waits to be placed belongs to the nodes being placed.     *)
LEMMA PendingAt ==
  ASSUME ArenaInv, pc = "place", NEW t \in pending
  PROVE  /\ t \in Tensor /\ type[t] = "arena"
         /\ \E i \in Node : /\ nextPlan <= i /\ i <= prep
                            /\ t \in TensorsOf(graph, i)
         /\ \A i \in Node : i < nextPlan => t \notin TensorsOf(graph, i)
<1>1. PICK i \in nextPlan..prep : t \in TensorsOf(graph, i)
  BY DEF ArenaInv, PendingOK
<1>2. /\ i \in Node /\ nextPlan <= i /\ i <= prep
      /\ graph \in Graphs /\ Node \subseteq Int /\ nextPlan \in Int
  <2>1. i \in Node
    BY PlannerAssumption DEF ArenaInv, ArenaTypeOK, Node
  <2> QED
    BY <2>1, Frontier
<1>3. ASSUME NEW k \in Node, k < nextPlan, t \in TensorsOf(graph, k)
      PROVE  FALSE
  <2>1. k = i
    BY <1>1, <1>2, <1>3, FirstUseOK
  <2> QED
    BY <1>2, <1>3, <2>1
<1> QED
  BY <1>1, <1>2, <1>3 DEF ArenaInv, PendingOK

(* A tensor takes the place of another.                                    *)
LEMMA KeepSharedContents ==
  ASSUME ArenaInv, ContentsInv, pc = "place", UNCHANGED driverVars,
         NEW t \in pending, KeepShared(t)
  PROVE  ContentsInv'
<1>1. /\ shared[t] # t /\ type[shared[t]] = "arena"
      /\ pending' = pending \ {t}
      /\ UNCHANGED <<graph, bytes, type, data, allocs, shared, lastUse>>
      /\ UNCHANGED <<allocated, scan>>
      /\ UNCHANGED <<pc, call, nextPrepare, nextPlan, prep, node, intact>>
  BY DEF KeepShared, tensorVars, plannerVars, driverVars
<1>2. Passing(shared)' /\ LifeOK' /\ SizePassed'
  BY <1>1, PlanKept DEF ContentsInv, SizePassed, Dynamic
<1>3. Settled'
  BY <1>1 DEF ContentsInv, Settled, Decided, TensorsOf
<1>4. Unplaced'
  BY <1>1 DEF ContentsInv, Unplaced, Decided
<1>5. LoopOK' /\ DataOK'
  BY <1>1 DEF ContentsInv, LoopOK, DataOK, InArena, TensorsOf
<1>6. Computed'
  BY <1>1 DEF ContentsInv, Computed, Made, Needed, Inputs
<1> QED
  BY <1>2, <1>3, <1>4, <1>5, <1>6 DEF ContentsInv

(* A sharing that was planned is given up only when the tensor underneath  *)
(* has turned out to be dynamic.                                           *)
LEMMA BeginContents ==
  ASSUME PassingOn, ArenaInv, PointerInv, ContentsInv, pc = "place",
         UNCHANGED driverVars, NEW t \in pending, BeginAllocate(t)
  PROVE  ContentsInv'
<1>1. /\ \/ shared[t] = t
         \/ type[shared[t]] # "arena"
         \/ bytes[shared[t]] # bytes[t]
      /\ shared' = [shared EXCEPT ![t] = t] /\ scan'.tensor = t
      /\ UNCHANGED <<graph, bytes, type, data, allocs, lastUse, allocated>>
      /\ UNCHANGED pending
      /\ UNCHANGED <<pc, call, nextPrepare, nextPlan, prep, node, intact>>
  BY DEF BeginAllocate, tensorVars, driverVars, NoScan
<1>2. /\ t \in Tensor /\ shared \in [Tensor -> Tensor]
      /\ shared'[t] = t
      /\ \A u \in Tensor : u # t => shared'[u] = shared[u]
  BY <1>1, PendingAt DEF PointerInv, Sharing
<1>3. PICK i \in Node : /\ nextPlan <= i /\ i <= prep
                        /\ t \in TensorsOf(graph, i)
  BY PendingAt
<1>4. ASSUME shared[t] # t PROVE shared[t] \in Dynamic
  <2>1. CASE type[shared[t]] # "arena"
    BY <1>2, <2>1 DEF PointerInv, Recognised
  <2>2. CASE bytes[shared[t]] # bytes[t]
    <3>1. t = graph.out[i]
      BY <1>3, <1>4, RootOf, Frontier DEF ContentsInv
    <3>2. i < IF pc = "prepare" THEN prep ELSE nextPrepare
      BY <1>3, Frontier DEF ArenaInv, Stages
    <3> QED
      BY <1>4, <2>2, <3>1, <3>2, SameSize, Frontier DEF ContentsInv, PointerInv
  <2> QED
    BY <1>1, <1>4, <2>1, <2>2
<1>5. Passing(shared)'
  <2> SUFFICES ASSUME NEW u \in Tensor, shared'[u] # u
               PROVE  /\ u \notin graph.outputs
                      /\ \E n, k \in Node :
                            /\ u = graph.out[n] /\ graph.op[n] = "unmodified"
                            /\ shared'[u] = graph.out[k] /\ k < n
                            /\ \/ shared'[u] \in Dynamic
                               \/ shared'[graph.in[n][1]] = shared'[u]
    BY <1>1 DEF Passing, Dynamic
  <2>1. u # t /\ shared'[u] = shared[u]
    BY <1>2
  <2>2. PICK n, k \in Node :
          /\ u = graph.out[n] /\ graph.op[n] = "unmodified"
          /\ shared[u] = graph.out[k] /\ k < n
          /\ \/ shared[u] \in Dynamic
             \/ shared[graph.in[n][1]] = shared[u]
    BY <2>1 DEF ContentsInv, Passing
  <2>3. graph.in[n][1] \in Tensor
    BY <2>2, FirstInput, ReadMade, Frontier
  <2>4. shared'[u] \in Dynamic \/ shared'[graph.in[n][1]] = shared'[u]
    <3>1. CASE shared[graph.in[n][1]] # shared[u]
      BY <2>1, <2>2, <3>1
    <3>2. CASE shared[graph.in[n][1]] = shared[u] /\ graph.in[n][1] # t
      BY <1>2, <2>1, <2>3, <3>2
    <3>3. CASE shared[t] = shared[u] /\ graph.in[n][1] = t
      BY <1>2, <1>4, <2>1, <3>3
    <3> QED
      BY <3>1, <3>2, <3>3
  <2>5. u \notin graph.outputs
    BY <2>1 DEF ContentsInv, Passing
  <2> QED
    BY <2>1, <2>2, <2>4, <2>5
<1>6. LifeOK'
  <2>1. shared[t] # t => lastUse[t] = Never
    BY <1>2 DEF ContentsInv, LifeOK
  <2>2. ASSUME NEW m \in Node, NEW u \in Inputs(m)
        PROVE  lastUse[shared'[u]] >= m
    <3>1. u \in Tensor /\ lastUse[shared[u]] >= m
      BY <2>2, ReadMade, Frontier DEF ContentsInv, LifeOK
    <3>2. CASE u = t /\ shared[t] # t
      <4>1. Never >= m
        BY PlannerAssumption DEF Never, Node
      <4> QED
        BY <1>2, <2>1, <3>2, <4>1
    <3> QED
      BY <1>2, <3>1, <3>2
  <2>3. \A u \in Tensor : shared'[u] # u => lastUse[u] = Never
    BY <1>2 DEF ContentsInv, LifeOK
  <2> QED
    BY <1>1, <2>2, <2>3 DEF ContentsInv, LifeOK, Inputs
<1>7. SizePassed'
  BY <1>1 DEF ContentsInv, SizePassed, Dynamic
<1>8. ASSUME NEW j \in Node, NEW u \in TensorsOf(graph, j), Decided(u, j)
      PROVE  shared'[u] = shared[u]
  <2>1. u # t
    BY <1>8, PendingAt DEF Decided
  <2>2. u \in Tensor
    BY <1>8, GraphOK, Frontier
  <2> QED
    BY <1>2, <2>1, <2>2
<1>9. Settled'
  <2> SUFFICES ASSUME NEW j \in Node, NEW u \in TensorsOf(graph, j),
                      Decided(u, j), type[u] = "arena"
               PROVE  /\ shared'[u] = u => allocs[u].size = bytes[u]
                      /\ bytes[u] > 0 => type[shared'[u]] = "arena"
    BY <1>1 DEF Settled, Decided, TensorsOf
  <2> QED
    BY <1>8 DEF ContentsInv, Settled
<1>10. Unplaced' /\ LoopOK'
  BY <1>1, <1>2 DEF ContentsInv, Unplaced, Decided, LoopOK, TensorsOf
<1>11. DataOK'
  <2> SUFFICES ASSUME NEW j \in Node, NEW u \in TensorsOf(graph, j),
                      j < nextPlan, type[u] = "arena", bytes[u] > 0
               PROVE  /\ data[u].at = "arena"
                      /\ data[u].offset = allocs[shared'[u]].offset
    BY <1>1 DEF DataOK, InArena, TensorsOf
  <2> QED
    BY <1>8 DEF ContentsInv, DataOK, InArena, Decided
<1>12. Computed'
  BY <1>1 DEF ContentsInv, Computed, Made, Needed, Inputs
<1> QED
  BY <1>5, <1>6, <1>7, <1>9, <1>10, <1>11, <1>12 DEF ContentsInv

(* One turn of the loop.                                                   *)
LEMMA VisitContents ==
  ASSUME ArenaInv, ContentsInv, pc = "place", UNCHANGED driverVars,
         NEW a \in scan.todo, Visit(a)
  PROVE  ContentsInv'
<1>1. /\ UNCHANGED <<graph, bytes, type, data, allocs, shared, lastUse>>
      /\ UNCHANGED <<allocated, pending>>
      /\ UNCHANGED <<pc, call, nextPrepare, nextPlan, prep, node, intact>>
  BY DEF Visit, tensorVars, plannerVars, driverVars
<1>2. scan # NoScan /\ scan \in Scans
  BY DEF NoScan, ArenaInv, ScanOK
<1>3. scan'.tensor = scan.tensor
  BY <1>2 DEF Visit, Scans
<1>4. Passing(shared)' /\ LifeOK' /\ SizePassed'
  BY <1>1, PlanKept DEF ContentsInv, SizePassed, Dynamic
<1>5. Settled' /\ Unplaced' /\ DataOK'
  BY <1>1 DEF ContentsInv, Settled, Unplaced, Decided, DataOK, InArena,
     TensorsOf
<1>6. LoopOK'
  BY <1>1, <1>2, <1>3 DEF ContentsInv, LoopOK, TensorsOf
<1>7. Computed'
  BY <1>1 DEF ContentsInv, Computed, Made, Needed, Inputs
<1> QED
  BY <1>4, <1>5, <1>6, <1>7 DEF ContentsInv

(* A tensor gets its memory.                                               *)
LEMMA EndContents ==
  ASSUME PassingOn, ArenaInv, PointerInv, ContentsInv, pc = "place",
         UNCHANGED driverVars, EndAllocate
  PROVE  ContentsInv'
<1> DEFINE t == scan.tensor
<1>1. /\ pending' = pending \ {t} /\ scan' = NoScan
      /\ UNCHANGED <<graph, bytes, type, data, shared, lastUse, allocated>>
      /\ UNCHANGED <<pc, call, nextPrepare, nextPlan, prep, node, intact>>
  BY DEF EndAllocate, tensorVars, driverVars
<1>2. /\ t \in pending /\ shared[t] = t
  BY DEF EndAllocate, ArenaInv, ScanOK, ContentsInv, LoopOK
<1>3. t \in Tensor /\ type[t] = "arena"
  BY <1>2, PendingAt
<1>4. PICK i \in Node : /\ nextPlan <= i /\ i <= prep
                        /\ t \in TensorsOf(graph, i)
  BY <1>2, PendingAt
<1>5. /\ allocs \in [Tensor -> Allocs]
      /\ \A u \in Tensor : u # t => allocs'[u] = allocs[u]
      /\ allocs'[t].size = bytes[t]
      /\ allocs'[t].first = FirstUse(t)
      /\ allocs'[t].last = lastUse[t]
  BY <1>3 DEF EndAllocate, ArenaInv, ArenaTypeOK
<1>6. FirstUse(t) = i
  BY <1>4, FirstUseOK, Frontier
<1> HIDE DEF t
<1>7. Passing(shared)' /\ LifeOK' /\ SizePassed'
  BY <1>1, PlanKept DEF ContentsInv, SizePassed, Dynamic
<1>8. Settled'
  <2> SUFFICES ASSUME NEW j \in Node, NEW u \in TensorsOf(graph, j),
                      Decided(u, j) \/ u = t, type[u] = "arena"
               PROVE  /\ shared[u] = u => allocs'[u].size = bytes[u]
                      /\ bytes[u] > 0 => type[shared[u]] = "arena"
    BY <1>1 DEF Settled, Decided, TensorsOf
  <2>1. u \in Tensor
    BY GraphOK, Frontier
  <2> QED
    BY <1>2, <1>3, <1>5, <2>1 DEF ContentsInv, Settled
<1>9. Unplaced'
  <2> SUFFICES ASSUME NEW u \in Tensor, allocs'[u].size > 0
               PROVE  /\ \/ allocs'[u].first < nextPlan
                         \/ allocs'[u].first <= prep /\ u \notin pending'
                      /\ allocs'[u].last = lastUse[u]
    BY <1>1 DEF Unplaced, Decided
  <2>1. CASE u = t
    BY <1>1, <1>4, <1>5, <1>6, <2>1 DEF Decided
  <2>2. CASE u # t
    BY <1>1, <1>5, <2>2 DEF ContentsInv, Unplaced, Decided
  <2> QED
    BY <2>1, <2>2
<1>10. LoopOK'
  BY <1>1 DEF ContentsInv, LoopOK, TensorsOf
<1>11. DataOK'
  <2> SUFFICES ASSUME NEW j \in Node, NEW u \in TensorsOf(graph, j),
                      j < nextPlan, type[u] = "arena", bytes[u] > 0
               PROVE  /\ data[u].at = "arena"
                      /\ data[u].offset = allocs'[shared[u]].offset
    BY <1>1 DEF DataOK, InArena, TensorsOf
  <2>1. PICK k \in Node : k <= j /\ shared[u] \in TensorsOf(graph, k)
    BY Occupies
  <2>2. k < nextPlan /\ shared[u] \in Tensor
    BY <2>1, Frontier, Occupies
  <2>3. shared[u] # t
    BY <1>2, <2>1, <2>2, PendingAt
  <2> QED
    BY <1>5, <2>2, <2>3 DEF ContentsInv, DataOK, InArena
<1>12. Computed'
  BY <1>1 DEF ContentsInv, Computed, Made, Needed, Inputs
<1> QED
  BY <1>7, <1>8, <1>9, <1>10, <1>11, <1>12 DEF ContentsInv

(* Commit gives every tensor its place, and moves none that has one.       *)
LEMMA PlacedContents ==
  ASSUME PassingOn, ArenaInv, ArenaInv', PointerInv, ContentsInv, Placed
  PROVE  ContentsInv'
<1> DEFINE grows == highWater > buffer.size
           base == IF grows THEN buffer.base + 1 ELSE buffer.base
<1>1. /\ pc = "place" /\ pending = {} /\ pc' # "place" /\ pc' # "prepare"
      /\ scan = NoScan /\ nextPlan' = prep + 1
      /\ pc' = "execute" => call # "allocate"
      /\ UNCHANGED <<graph, bytes, type, allocs, shared, lastUse, scan>>
      /\ UNCHANGED <<call, nextPrepare, prep, node, intact>>
  BY DEF Placed, EndAllocations, Return, plannerVars, loopVars
<1>2. data' = [t \in Tensor |-> IF grows \/ t \in allocated
                                THEN Resolved(t, base) ELSE data[t]]
  BY DEF Placed, EndAllocations, Commit
<1> HIDE DEF base, grows
<1>3. /\ graph \in Graphs /\ Node \subseteq Int /\ prep \in Int
      /\ nextPlan \in Int /\ nextPlan <= prep /\ nextPrepare = prep + 1
      /\ call # "allocate" => node <= prep
      /\ node \in Int
  BY <1>1, Frontier DEF ArenaInv, Stages, ArenaTypeOK
<1>4. Passing(shared)' /\ LifeOK' /\ SizePassed'
  BY <1>1, PlanKept DEF ContentsInv, SizePassed, Dynamic
<1>5. \A i \in Node : i < prep + 1 <=> i < nextPlan \/ i <= prep
  BY <1>3
<1>6. Settled'
  BY <1>1, <1>5 DEF ContentsInv, Settled, Decided, TensorsOf
<1>7. Unplaced' /\ LoopOK'
  <2>1. \A t \in Tensor : allocs[t].size > 0 => allocs[t].first \in Node
    BY DEF ArenaInv, PlacedOK
  <2> QED
    BY <1>1, <1>5, <2>1 DEF ContentsInv, Unplaced, Decided, LoopOK
<1>8. DataOK'
  <2> SUFFICES ASSUME NEW i \in Node, NEW t \in TensorsOf(graph, i),
                      i <= prep, type[t] = "arena", bytes[t] > 0
               PROVE  /\ data'[t].at = "arena"
                      /\ data'[t].offset = allocs[shared[t]].offset
    BY <1>1, <1>3 DEF DataOK, InArena, TensorsOf
  <2>1. /\ t \in Tensor /\ type[shared[t]] = "arena"
        /\ allocs[shared[t]].size = bytes[t]
    BY <1>1, Occupies
  <2>2. CASE grows \/ t \in allocated
    <3>1. data'[t] = Owned(shared[t], base)
      BY <1>2, <2>1, <2>2 DEF Resolved
    <3>2. allocs[shared[t]].size # 0
      BY <2>1
    <3> QED
      BY <2>1, <3>1, <3>2 DEF Owned
  <2>3. CASE ~(grows \/ t \in allocated)
    <3>1. data'[t] = data[t]
      BY <1>2, <2>1, <2>3
    <3>2. i < nextPlan
      <4>1. i \notin nextPlan..prep
        BY <1>1, <2>3 DEF ContentsInv, LoopOK
      <4> QED
        BY <1>3, <4>1
    <3> QED
      BY <3>1, <3>2 DEF ContentsInv, DataOK, InArena
  <2> QED
    BY <2>2, <2>3
<1>9. Computed'
  <2>1. ASSUME NEW k \in Node, k < node, graph.op[k] = "dynamic",
               call # "allocate"
        PROVE  data'[graph.out[k]].at = "heap"
    <3>1. graph.out[k] \in Tensor /\ type[graph.out[k]] # "arena"
      <4>1. k < nextPrepare
        BY <1>3, <2>1
      <4> QED
        BY <1>1, <1>3, <2>1, <4>1, GraphOK DEF PointerInv, Recognised
    <3>2. data'[graph.out[k]] = data[graph.out[k]]
      BY <1>2, <3>1 DEF Resolved, Owned
    <3> QED
      BY <1>1, <2>1, <3>2 DEF ContentsInv, Computed
  <2> QED
    BY <1>1, <2>1 DEF ContentsInv, Computed, Made, Needed, Inputs
<1> QED
  BY <1>4, <1>6, <1>7, <1>8, <1>9 DEF ContentsInv

-----------------------------------------------------------------------------
(* Executing                                                               *)

(* What a pointer into the arena means.                                    *)
LEMMA Lies ==
  ASSUME PassingOn, ArenaInv, PointerInv, ContentsInv, NEW i \in Node,
         NEW t \in TensorsOf(graph, i), i < nextPlan, InArena(t), bytes[t] > 0
  PROVE  /\ t \in Tensor /\ shared[t] \in Tensor /\ type[t] = "arena"
         /\ type[shared[t]] = "arena"
         /\ allocs[shared[t]] \in Allocs
         /\ data[t].offset = allocs[shared[t]].offset
         /\ allocs[shared[t]].size = bytes[t]
         /\ allocs[shared[t]].first <= i
         /\ allocs[shared[t]].last = lastUse[shared[t]]
<1>1. t \in Tensor /\ graph \in Graphs
  BY GraphOK, Frontier
<1>2. type[t] = "arena"
  BY <1>1 DEF PointerInv, Movable
<1>3. /\ shared[t] \in Tensor /\ type[shared[t]] = "arena"
      /\ allocs[shared[t]].size = bytes[t]
      /\ \E k \in Node : k <= i /\ shared[t] \in TensorsOf(graph, k)
  BY <1>2, Occupies
<1>4. PICK k \in Node : k <= i /\ shared[t] \in TensorsOf(graph, k)
  BY <1>3
<1>5. data[t].offset = allocs[shared[t]].offset
  BY <1>2 DEF ContentsInv, DataOK
<1>6. allocs[shared[t]] \in Allocs
  BY <1>3 DEF ArenaInv, ArenaTypeOK
<1>7. allocs[shared[t]].last = lastUse[shared[t]]
  BY <1>3 DEF ContentsInv, Unplaced
<1>8. /\ allocs[shared[t]].first \in Node
      /\ shared[t] \in TensorsOf(graph, allocs[shared[t]].first)
  BY <1>3 DEF ArenaInv, PlacedOK
<1>9. allocs[shared[t]].first = k
  BY <1>1, <1>4, <1>8, FirstUseOK
<1> QED
  BY <1>1, <1>2, <1>3, <1>4, <1>5, <1>6, <1>7, <1>9

(* Tensors that lie on different ones and are needed at node n are apart.  *)
LEMMA Separate ==
  ASSUME PassingOn, ArenaInv, PointerInv, ContentsInv,
         NEW n \in Node, n < nextPlan,
         NEW i \in Node, i <= n, NEW t \in TensorsOf(graph, i),
         NEW j \in Node, j <= n, NEW u \in TensorsOf(graph, j),
         shared[t] # shared[u],
         lastUse[shared[t]] >= n, lastUse[shared[u]] >= n
  PROVE  ~Overlap(t, u)
<1> SUFFICES ASSUME Overlap(t, u) PROVE FALSE
  OBVIOUS
<1> DEFINE a == allocs[shared[t]]
           b == allocs[shared[u]]
<1>1. /\ InArena(t) /\ InArena(u) /\ bytes[t] > 0 /\ bytes[u] > 0
      /\ data[t].offset < data[u].offset + bytes[u]
      /\ data[u].offset < data[t].offset + bytes[t]
  BY DEF Overlap, InArena
<1>2. i < nextPlan /\ j < nextPlan /\ i \in Int /\ j \in Int /\ n \in Int
  BY Frontier
<1>3. /\ shared[t] \in Tensor /\ a \in Allocs
      /\ data[t].offset = a.offset /\ a.size = bytes[t] /\ a.first <= i
      /\ a.last = lastUse[shared[t]]
  BY <1>1, <1>2, Lies
<1>4. /\ shared[u] \in Tensor /\ b \in Allocs
      /\ data[u].offset = b.offset /\ b.size = bytes[u] /\ b.first <= j
      /\ b.last = lastUse[shared[u]]
  BY <1>1, <1>2, Lies
<1>5. \/ a.size = 0 \/ b.size = 0 \/ a.last < b.first \/ b.last < a.first
      \/ a.offset + a.size <= b.offset \/ b.offset + b.size <= a.offset
  BY <1>3, <1>4 DEF ArenaInv, NoOverlap, Disjoint
<1> HIDE DEF a, b
<1>6. /\ a.offset \in Nat /\ a.size \in Nat /\ a.first \in Int
      /\ a.last \in Int
      /\ b.offset \in Nat /\ b.size \in Nat /\ b.first \in Int
      /\ b.last \in Int
  BY <1>3, <1>4 DEF Allocs
<1>7. a.first <= n /\ b.first <= n /\ a.last >= n /\ b.last >= n
  BY <1>2, <1>3, <1>4, <1>6
<1>8. /\ a.size > 0 /\ b.size > 0
      /\ a.offset < b.offset + b.size /\ b.offset < a.offset + a.size
  BY <1>1, <1>3, <1>4
<1> QED
  BY <1>2, <1>5, <1>6, <1>7, <1>8

(* What has been computed and is still read is kept at node n.             *)
LEMMA LiveAt ==
  ASSUME PassingOn, ArenaInv, ContentsInv, NEW n \in Node, NEW t \in Tensor,
         Made(t, n), Needed(t, n)
  PROVE  lastUse[shared[t]] >= n
<1>1. Never >= n /\ Node \subseteq Int /\ graph \in Graphs
  BY PlannerAssumption, Frontier DEF Never, Node
<1>2. CASE t \in graph.inputs \union graph.outputs
  <2>1. shared[t] = t
    <3> SUFFICES ASSUME shared[t] # t PROVE FALSE
      OBVIOUS
    <3>1. t \notin graph.outputs /\ \E k \in Node : t = graph.out[k]
      BY DEF ContentsInv, Passing
    <3> QED
      BY <1>1, <1>2, <3>1, Producers
  <2>2. lastUse[t] = Never
    BY <1>2 DEF ContentsInv, LifeOK
  <2> QED
    BY <1>1, <2>1, <2>2
<1>3. ASSUME NEW m \in Node, m >= n, t \in Inputs(m)
      PROVE  lastUse[shared[t]] >= n
  <2>1. lastUse[shared[t]] >= m
    BY <1>3 DEF ContentsInv, LifeOK
  <2>2. lastUse[shared[t]] \in Int
    <3>1. shared[t] \in Tensor
      <4>1. CASE shared[t] = t
        BY <4>1
      <4>2. CASE shared[t] # t
        <5>1. PICK k \in Node : shared[t] = graph.out[k]
          BY <4>2 DEF ContentsInv, Passing
        <5> QED
          BY <1>1, <5>1, GraphOK
      <4> QED
        BY <4>1, <4>2
    <3> QED
      BY <3>1 DEF ArenaInv, ArenaTypeOK
  <2> QED
    BY <1>1, <1>3, <2>1, <2>2
<1> QED
  BY <1>2, <1>3 DEF Needed

(* What node n writes to as its own is apart from what was computed.       *)
LEMMA OwnApart ==
  ASSUME PassingOn, ArenaInv, PointerInv, ContentsInv,
         NEW n \in Node, n < nextPlan, NEW t \in Tensor,
         Made(t, n), Needed(t, n),
         NEW w \in graph.temp[n] \union {graph.out[n]}, shared[w] = w
  PROVE  ~Overlap(t, w)
<1>1. graph \in Graphs /\ Node \subseteq Int /\ n <= n
  BY Frontier
<1>2. PICK i \in Node : i <= n /\ t \in TensorsOf(graph, i)
  BY <1>1, MadeAt
<1>3. w \in TensorsOf(graph, n)
  BY DEF TensorsOf
<1>4. lastUse[shared[t]] >= n /\ lastUse[w] >= n
  BY LiveAt DEF ContentsInv, LifeOK
<1>5. shared[t] # w
  <2>1. CASE shared[t] = t
    BY <1>1, <2>1, MadeOK
  <2>2. CASE shared[t] # t
    <3>1. PICK k \in Node : k < i /\ shared[t] = graph.out[k]
      BY <1>1, <1>2, <2>2, RootOf DEF ContentsInv
    <3>2. k # n
      BY <1>1, <1>2, <3>1
    <3> QED
      BY <1>1, <3>1, <3>2, Producers
  <2> QED
    BY <2>1, <2>2
<1> QED
  BY <1>1, <1>2, <1>3, <1>4, <1>5, Separate

(* A temporary lies on nothing else.                                       *)
LEMMA TempOwn ==
  ASSUME PassingOn, graph \in Graphs, Passing(shared), NEW n \in Node,
         NEW w \in graph.temp[n]
  PROVE  shared[w] = w /\ w \notin Dynamic
<1>1. w \in TensorsOf(graph, n)
  BY DEF TensorsOf
<1>2. w # graph.out[n]
  BY Producers
<1>3. w \notin Dynamic
  BY Producers DEF Dynamic
<1> QED
  BY <1>1, <1>2, <1>3, RootOf

(* An output that has taken a place has taken that of its input.           *)
LEMMA OutPassed ==
  ASSUME PassingOn, ArenaInv, PointerInv, ContentsInv,
         NEW n \in Node, n < nextPlan, shared[graph.out[n]] # graph.out[n],
         InArena(graph.out[n]), bytes[graph.out[n]] > 0
  PROVE  /\ graph.op[n] = "unmodified"
         /\ shared[graph.in[n][1]] = shared[graph.out[n]]
         /\ data[graph.in[n][1]] = data[graph.out[n]]
<1> DEFINE t == graph.out[n]
           x == graph.in[n][1]
           F == IF pc = "prepare" THEN prep ELSE nextPrepare
<1>1. /\ graph \in Graphs /\ Node \subseteq Int /\ nextPlan \in Int
      /\ F \in Int /\ nextPlan <= F
  BY Frontier
<1>2. t \in TensorsOf(graph, n)
  BY DEF TensorsOf
<1>3. t \in Tensor /\ shared[t] \in Tensor /\ type[shared[t]] = "arena"
      /\ data[t].offset = allocs[shared[t]].offset
  BY <1>2, Lies
<1>4. /\ graph.op[n] = "unmodified"
      /\ shared[t] \in Dynamic \/ shared[x] = shared[t]
      /\ \E k \in Node : k < n /\ shared[t] = graph.out[k]
  BY <1>1, <1>2, RootOf DEF ContentsInv
<1>5. shared[t] \notin Dynamic
  <2>1. PICK k \in Node : k < n /\ shared[t] = graph.out[k]
    BY <1>4
  <2> SUFFICES ASSUME NEW q \in Node, graph.op[q] = "dynamic",
                      shared[t] = graph.out[q]
               PROVE  FALSE
    BY DEF Dynamic
  <2>2. q = k
    BY <1>1, <2>1, Producers
  <2>3. q < F
    BY <1>1, <2>1, <2>2
  <2> QED
    BY <1>3, <2>3 DEF PointerInv, Recognised
<1>6. shared[x] = shared[t]
  BY <1>4, <1>5
<1>7. x \in Tensor /\ Made(x, n)
  BY <1>1, <1>4, FirstInput, ReadMade
<1>8. PICK i \in Node : i <= n /\ x \in TensorsOf(graph, i)
  BY <1>1, <1>7, MadeAt
<1>9. x \notin Dynamic
  <2>1. CASE shared[x] = x
    BY <1>5, <1>6, <2>1
  <2>2. CASE shared[x] # x
    BY <1>1, <1>8, <2>2, RootOf DEF ContentsInv
  <2> QED
    BY <2>1, <2>2
<1>10. bytes[x] = bytes[t]
  <2>1. n < F
    BY <1>1
  <2> QED
    BY <1>4, <1>9, <2>1 DEF ContentsInv, SizePassed
<1>11. type[x] = "arena" /\ i < nextPlan
  BY <1>1, <1>7, <1>8, <1>9 DEF PointerInv, Recognised
<1>12. InArena(x) /\ data[x].offset = allocs[shared[x]].offset
  BY <1>8, <1>10, <1>11 DEF ContentsInv, DataOK
<1>13. /\ data[x] \in Pointers /\ data[t] \in Pointers
       /\ data[x].at = data[t].at /\ data[x].base = data[t].base
       /\ data[x].offset = data[t].offset
  BY <1>3, <1>6, <1>7, <1>12 DEF PointerInv, InArena
<1>14. data[x] = data[t]
  BY <1>13 DEF Pointers
<1> QED
  BY <1>4, <1>6, <1>14

(* Executing node n spares what was computed and is still read.            *)
LEMMA Survives ==
  ASSUME PassingOn, ArenaInv, PointerInv, ContentsInv,
         NEW n \in Node, n < nextPlan, NEW t \in Tensor,
         Made(t, n), Needed(t, n), NEW w \in Written(n)
  PROVE  ~Overlap(t, w)
<1>1. graph \in Graphs
  BY Frontier
<1>2. CASE w \in graph.temp[n]
  BY <1>1, <1>2, TempOwn, OwnApart DEF ContentsInv
<1>3. CASE w = graph.out[n] /\ shared[w] = w
  BY <1>3, OwnApart
<1>4. CASE w = graph.out[n] /\ shared[w] # w
  <2> SUFFICES ASSUME Overlap(t, w) PROVE FALSE
    OBVIOUS
  <2>1. InArena(w) /\ bytes[w] > 0
    BY DEF Overlap, InArena
  <2>2. /\ graph.op[n] = "unmodified"
        /\ data[graph.in[n][1]] = data[graph.out[n]]
    BY <1>4, <2>1, OutPassed
  <2>3. graph.out[n] \notin graph.temp[n]
    BY <1>1, Producers
  <2> QED
    BY <1>4, <2>2, <2>3 DEF Written
<1> QED
  BY <1>2, <1>3, <1>4 DEF Written

(* What is still read after node n was computed by then, and survives.     *)
LEMMA AfterNode ==
  ASSUME PassingOn, ArenaInv, PointerInv, ContentsInv, Executing,
         NEW t \in Tensor, Made(t, node + 1), Needed(t, node + 1)
  PROVE  t \in IntactAfter(node)
<1>1. /\ pc = "execute" /\ node \in Node /\ node < nextPlan
      /\ Node \subseteq Int /\ call # "allocate"
  <2>1. /\ pc = "execute" /\ node < NumNodes /\ node # nextPrepare
        /\ node \in 0..NumNodes /\ nextPlan \in Int /\ Node \subseteq Int
        /\ nextPrepare = nextPlan /\ node <= nextPrepare
    BY Frontier DEF Executing, ArenaInv, ArenaTypeOK, Stages
  <2>2. call # "allocate"
    BY <2>1 DEF ContentsInv, Computed
  <2> QED
    BY <2>1, <2>2, PlannerAssumption DEF Node
<1>2. CASE t = graph.out[node]
  BY <1>2 DEF IntactAfter
<1>3. CASE t # graph.out[node]
  <2>1. Made(t, node)
    <3>1. ASSUME NEW k \in Node, k < node + 1, t = graph.out[k]
          PROVE  k < node
      BY <1>1, <1>3, <3>1
    <3> QED
      BY <3>1 DEF Made
  <2>2. Needed(t, node)
    <3>1. \A m \in Node : m >= node + 1 => m >= node
      BY <1>1
    <3> QED
      BY <3>1 DEF Needed
  <2>3. t \in intact
    BY <1>1, <2>1, <2>2 DEF ContentsInv, Computed
  <2>4. \A w \in Written(node) : ~Overlap(t, w)
    BY <1>1, <2>1, <2>2, Survives
  <2> QED
    BY <2>3, <2>4 DEF IntactAfter
<1> QED
  BY <1>2, <1>3

(* A node whose output has its size is executed.                           *)
LEMMA ExecuteStaticContents ==
  ASSUME PassingOn, ArenaInv, ArenaInv', PointerInv, ContentsInv,
         ExecuteStatic
  PROVE  ContentsInv'
<1>1. /\ Executing /\ pc = "execute" /\ pc' = "execute"
      /\ graph.op[node] # "dynamic"
      /\ node' = node + 1 /\ intact' = IntactAfter(node)
      /\ UNCHANGED <<graph, bytes, type, data>>
      /\ UNCHANGED <<allocs, shared, lastUse, scan, nextPlan>>
      /\ UNCHANGED <<call, nextPrepare>>
  BY DEF ExecuteStatic, Executing, tensorVars, plannerVars, loopVars
<1>2. nextPrepare <= nextPrepare /\ node \in Int /\ Node \subseteq Int
  BY DEF ArenaInv, ArenaTypeOK, Node
<1>3. ASSUME NEW k \in Node, k < node + 1, graph.op[k] = "dynamic"
      PROVE  data[graph.out[k]].at = "heap"
  <2>1. k < node
    BY <1>1, <1>2, <1>3
  <2> QED
    BY <1>1, <1>3, <2>1 DEF ContentsInv, Computed
<1>4. \A t \in Tensor :
         Made(t, node + 1) /\ Needed(t, node + 1) => t \in IntactAfter(node)
  BY <1>1, AfterNode
<1>5. Computed'
  <2>1. call # "allocate"
    BY <1>1 DEF ContentsInv, Computed
  <2> QED
    BY <1>1, <1>3, <1>4, <2>1 DEF Computed, Made, Needed, Inputs
<1> QED
  BY <1>1, <1>2, <1>5, ContentsKept

(* A dynamic output gets its size and its memory, and what was placed for  *)
(* the nodes from nextPlan' on is forgotten.                               *)
LEMMA ResizeContents ==
  ASSUME PassingOn, ArenaInv, PointerInv, ContentsInv,
         pc = "execute", pc' \in {"execute", "idle"},
         UNCHANGED <<graph, type, shared, lastUse, scan>>,
         NEW out, type[out] # "arena", out \in Dynamic,
         nextPlan' \in Int, nextPlan' <= nextPlan,
         nextPrepare' \in Int, nextPrepare' <= nextPrepare,
         \A t \in Tensor : t # out => bytes'[t] = bytes[t],
         \A t \in Tensor :
            \/ allocs[t].size > 0 /\ allocs[t].first >= nextPlan'
            \/ allocs'[t] = allocs[t] /\ (t # out => data'[t] = data[t]),
         \A t \in Tensor : allocs'[t].size > 0 =>
            allocs'[t] = allocs[t] /\ allocs[t].first < nextPlan',
         Computed'
  PROVE  ContentsInv'
<1>1. /\ graph \in Graphs /\ Node \subseteq Int /\ nextPlan \in Int
      /\ nextPrepare \in Int
  BY Frontier DEF ArenaInv, ArenaTypeOK
<1>2. Passing(shared)' /\ LifeOK'
  BY PlanKept DEF ContentsInv
<1>3. SizePassed'
  <2> SUFFICES ASSUME NEW n \in Node, graph.op[n] = "unmodified",
                      n < nextPrepare', graph.in[n][1] \notin Dynamic
               PROVE  bytes'[graph.out[n]] = bytes'[graph.in[n][1]]
    BY DEF SizePassed, Dynamic
  <2>1. n < nextPrepare
    BY <1>1
  <2>2. bytes[graph.out[n]] = bytes[graph.in[n][1]]
    BY <2>1 DEF ContentsInv, SizePassed
  <2>3. graph.in[n][1] \in Tensor /\ graph.out[n] \in Tensor
    BY <1>1, FirstInput, ReadMade, GraphOK
  <2>4. graph.out[n] \notin Dynamic
    BY <1>1, Producers DEF Dynamic
  <2> QED
    BY <2>2, <2>3, <2>4
<1>4. ASSUME NEW i \in Node, i < nextPlan', NEW t \in TensorsOf(graph, i)
      PROVE  /\ t \in Tensor /\ allocs'[t] = allocs[t]
             /\ t # out => data'[t] = data[t] /\ bytes'[t] = bytes[t]
  <2>1. t \in Tensor
    BY <1>1, GraphOK
  <2>2. ASSUME allocs[t].size > 0 PROVE ~(allocs[t].first >= nextPlan')
    <3>1. /\ allocs[t].first \in Node
          /\ t \in TensorsOf(graph, allocs[t].first)
      BY <2>1, <2>2 DEF ArenaInv, PlacedOK
    <3>2. allocs[t].first = i
      BY <1>1, <3>1, FirstUseOK
    <3> QED
      BY <1>1, <1>4, <3>2
  <2> QED
    BY <2>1, <2>2
<1>5. ASSUME NEW i \in Node, i < nextPlan', NEW t \in TensorsOf(graph, i)
      PROVE  allocs'[shared[t]] = allocs[shared[t]]
  <2>1. CASE shared[t] = t
    BY <1>4, <1>5, <2>1
  <2>2. CASE shared[t] # t
    <3>1. PICK k \in Node : k < i /\ shared[t] = graph.out[k]
      BY <1>1, <2>2, RootOf DEF ContentsInv
    <3>2. shared[t] \in TensorsOf(graph, k)
      BY <3>1 DEF TensorsOf
    <3>3. k < nextPlan'
      BY <1>1, <1>5, <3>1
    <3> QED
      BY <1>4, <3>2, <3>3
  <2> QED
    BY <2>1, <2>2
<1>6. \A i \in Node : i < nextPlan' => i < nextPlan
  BY <1>1
<1>7. Settled'
  <2> SUFFICES ASSUME NEW i \in Node, NEW t \in TensorsOf(graph, i),
                      i < nextPlan', type[t] = "arena"
               PROVE  /\ shared[t] = t => allocs'[t].size = bytes'[t]
                      /\ bytes'[t] > 0 => type[shared[t]] = "arena"
    BY DEF Settled, Decided, TensorsOf
  <2> QED
    BY <1>4, <1>6 DEF ContentsInv, Settled, Decided
<1>8. Unplaced' /\ LoopOK'
  BY DEF ContentsInv, Unplaced, Decided, LoopOK
<1>9. DataOK'
  <2> SUFFICES ASSUME NEW i \in Node, NEW t \in TensorsOf(graph, i),
                      i < nextPlan', type[t] = "arena", bytes'[t] > 0
               PROVE  /\ data'[t].at = "arena"
                      /\ data'[t].offset = allocs'[shared[t]].offset
    BY DEF DataOK, InArena, TensorsOf
  <2> QED
    BY <1>4, <1>5, <1>6 DEF ContentsInv, DataOK, InArena
<1> QED
  BY <1>2, <1>3, <1>7, <1>8, <1>9 DEF ContentsInv

(* An operator fails, perhaps after it has resized its output.             *)
LEMMA ExecuteFailsContents ==
  ASSUME PassingOn, ArenaInv, ArenaInv', PointerInv, ContentsInv,
         ExecuteFails
  PROVE  ContentsInv'
<1>1. /\ pc = "execute" /\ pc' = "idle" /\ node \in Node
      /\ node < nextPrepare
      /\ UNCHANGED <<graph, type, allocs, shared, lastUse, scan>>
      /\ UNCHANGED <<nextPlan, nextPrepare>>
  <2>1. /\ pc = "execute" /\ node < NumNodes /\ node # nextPrepare
        /\ node \in 0..NumNodes /\ nextPrepare \in 0..NumNodes
        /\ node <= nextPrepare
    BY DEF ExecuteFails, Executing, ArenaInv, ArenaTypeOK, Stages
  <2> QED
    BY <2>1, PlannerAssumption
    DEF ExecuteFails, Return, plannerVars, loopVars, Node
<1>2. /\ nextPlan' \in Int /\ nextPlan' <= nextPlan
      /\ nextPrepare' \in Int /\ nextPrepare' <= nextPrepare
      /\ graph \in Graphs
  BY <1>1 DEF ArenaInv, ArenaTypeOK
<1>3. Computed'
  BY <1>1 DEF Computed
<1>4. CASE UNCHANGED <<bytes, data>>
  <2>1. (IF pc = "prepare" THEN prep ELSE nextPrepare)' <=
           IF pc = "prepare" THEN prep ELSE nextPrepare
    BY <1>1, <1>2
  <2> QED
    BY <1>1, <1>3, <1>4, <2>1, ContentsKept
<1>5. CASE ~UNCHANGED <<bytes, data>>
  <2>1. PICK out : out = graph.out[node]
    OBVIOUS
  <2>2. /\ graph.op[node] = "dynamic"
        /\ \E b \in Bytes : bytes' = [bytes EXCEPT ![out] = b]
        /\ data' = [data EXCEPT ![out] = HeapPtr]
    BY <1>5, <2>1 DEF ExecuteFails
  <2>3. out \in Dynamic /\ type[out] # "arena"
    BY <1>1, <1>2, <2>1, <2>2, GraphOK DEF Dynamic, PointerInv, Recognised
  <2>4. \A t \in Tensor :
           t # out => bytes'[t] = bytes[t] /\ data'[t] = data[t]
    BY <2>2 DEF ArenaInv, ArenaTypeOK, PointerInv
  <2>5. \A t \in Tensor : allocs[t].size > 0 => allocs[t].first < nextPlan'
    BY <1>1 DEF ContentsInv, Unplaced, Decided
  <2> QED
    BY <1>1, <1>2, <1>3, <2>3, <2>4, <2>5, ResizeContents
<1> QED
  BY <1>4, <1>5

(* A node whose output gets its size now is executed: the nodes before it  *)
(* keep their memory.                                                      *)
LEMMA ExecuteDynamicContents ==
  ASSUME PassingOn, ArenaInv, ArenaInv', PointerInv, ContentsInv,
         ExecuteDynamic
  PROVE  ContentsInv'
<1>1. PICK out : out = graph.out[node]
  OBVIOUS
<1>2. PICK b \in Bytes, resized \in BOOLEAN, replan \in BOOLEAN :
        /\ bytes' = [bytes EXCEPT ![out] = b]
        /\ nextPrepare' = IF resized THEN node + 1 ELSE nextPrepare
        /\ nextPlan' = IF replan THEN node + 1 ELSE nextPlan
        /\ data' = [t \in Tensor |->
              IF t = out THEN HeapPtr
              ELSE IF replan /\ Dropped(t, node) THEN NullPtr
              ELSE data[t]]
        /\ IF replan THEN ResetAllocationsAfter(node)
           ELSE UNCHANGED <<allocs, active, lastActive>>
  BY <1>1 DEF ExecuteDynamic
<1>3. /\ Executing /\ pc = "execute" /\ pc' = "execute"
      /\ graph.op[node] = "dynamic"
      /\ node' = node + 1 /\ intact' = IntactAfter(node)
      /\ UNCHANGED <<graph, type, shared, lastUse, scan, call>>
  BY DEF ExecuteDynamic, Executing, loopVars
<1>4. /\ node \in Node /\ node \in Int /\ node < nextPrepare
      /\ nextPrepare = nextPlan /\ nextPlan \in Int
      /\ graph \in Graphs /\ Node \subseteq Int
  <2>1. /\ node < NumNodes /\ node # nextPrepare
        /\ node \in 0..NumNodes /\ nextPrepare \in 0..NumNodes
        /\ node <= nextPrepare /\ nextPrepare = nextPlan
    BY <1>3 DEF Executing, ArenaInv, ArenaTypeOK, Stages
  <2> QED
    BY <2>1, PlannerAssumption, Frontier DEF Node
<1>5. /\ nextPlan' \in Int /\ nextPlan' <= nextPlan
      /\ nextPrepare' \in Int /\ nextPrepare' <= nextPrepare
  BY <1>2, <1>4
<1>6. out \in Dynamic /\ type[out] # "arena"
  BY <1>1, <1>3, <1>4, GraphOK DEF Dynamic, PointerInv, Recognised
<1>7. \A t \in Tensor : t # out => bytes'[t] = bytes[t]
  BY <1>2 DEF ArenaInv, ArenaTypeOK
<1>8. \A t \in Tensor : allocs[t].size > 0 => allocs[t].first < nextPlan
  BY <1>3 DEF ContentsInv, Unplaced, Decided
<1>9. /\ \A t \in Tensor :
            /\ allocs[t].first \in Int
            /\ allocs[t].size > 0 => type[t] = "arena"
      /\ NoAlloc.size = 0
  BY DEF ArenaInv, ArenaTypeOK, Allocs, PlacedOK, NoAlloc
<1>10. ASSUME NEW t \in Tensor
       PROVE  \/ allocs[t].size > 0 /\ allocs[t].first >= nextPlan'
              \/ allocs'[t] = allocs[t] /\ (t # out => data'[t] = data[t])
  <2>1. CASE replan /\ Dropped(t, node)
    BY <1>2, <1>4, <1>9, <2>1 DEF Dropped
  <2>2. CASE ~(replan /\ Dropped(t, node))
    BY <1>2, <2>2 DEF ResetAllocationsAfter
  <2> QED
    BY <2>1, <2>2
<1>11. ASSUME NEW t \in Tensor, allocs'[t].size > 0
       PROVE  allocs'[t] = allocs[t] /\ allocs[t].first < nextPlan'
  <2>1. CASE ~replan
    BY <1>2, <1>8, <1>11, <2>1
  <2>2. CASE replan
    <3>1. allocs'[t] = IF Dropped(t, node) THEN NoAlloc ELSE allocs[t]
      BY <1>2, <2>2 DEF ResetAllocationsAfter
    <3>2. ~Dropped(t, node) /\ allocs'[t] = allocs[t]
      BY <1>9, <1>11, <3>1
    <3>3. ~(allocs[t].first > node)
      BY <1>9, <1>11, <3>2 DEF Dropped
    <3> QED
      BY <1>2, <1>4, <1>9, <2>2, <3>2, <3>3
  <2> QED
    BY <2>1, <2>2
<1>12. Computed'
  <2>1. call # "allocate"
    BY <1>3 DEF ContentsInv, Computed
  <2>2. \A t \in Tensor :
           Made(t, node + 1) /\ Needed(t, node + 1) => t \in IntactAfter(node)
    BY <1>3, AfterNode
  <2>3. ASSUME NEW k \in Node, k < node + 1, graph.op[k] = "dynamic"
        PROVE  data'[graph.out[k]].at = "heap"
    <3>1. graph.out[k] \in Tensor
      BY <1>4, GraphOK
    <3>2. CASE graph.out[k] = out
      BY <1>2, <3>1, <3>2 DEF HeapPtr
    <3>3. CASE graph.out[k] # out
      <4>1. k < node
        BY <1>1, <1>4, <2>3, <3>3
      <4>2. k < nextPrepare
        BY <1>4, <4>1
      <4>3. type[graph.out[k]] # "arena"
        BY <1>3, <2>3, <4>2 DEF PointerInv, Recognised
      <4>4. data'[graph.out[k]] = data[graph.out[k]]
        BY <1>2, <3>1, <3>3, <4>3 DEF Dropped
      <4> QED
        BY <1>3, <2>1, <2>3, <4>1, <4>4 DEF ContentsInv, Computed
    <3> QED
      BY <3>2, <3>3
  <2> QED
    BY <1>3, <2>1, <2>2, <2>3 DEF Computed, Made, Needed, Inputs
<1> QED
  BY <1>3, <1>5, <1>6, <1>7, <1>10, <1>11, <1>12, ResizeContents

-----------------------------------------------------------------------------
(* The theorems about contents                                             *)

(* Nothing is planned, placed or computed at first.                        *)
LEMMA ContentsInit ==
  ASSUME Init
  PROVE  ContentsInv
<1> USE DEF Init, PlannerInit
<1>1. graph \in Graphs /\ graph \in Graph
  BY GraphAssumption
<1>2. /\ \A i \in Node : ~(i < 0) /\ Never >= i
      /\ NoAlloc.size = 0
  BY PlannerAssumption DEF Node, Never, NoAlloc
<1>3. /\ \A m \in Node : /\ Inputs(m) \subseteq Tensor
                         /\ graph.out[m] \in Tensor
                         /\ graph.temp[m] \subseteq Tensor
      /\ graph.inputs \union graph.outputs \subseteq Tensor
  <2>1. \A m \in Node : Inputs(m) \subseteq Tensor
    BY <1>1, GraphOK DEF Inputs
  <2> QED
    BY <1>1, <2>1 DEF Graph
<1>4. Passing(shared)
  BY DEF Passing
<1>5. LifeOK
  BY <1>2, <1>3 DEF LifeOK
<1>6. SizePassed /\ Settled /\ Unplaced
  BY <1>2 DEF SizePassed, Settled, Unplaced, Decided
<1>7. LoopOK /\ DataOK /\ Computed
  BY <1>2 DEF LoopOK, DataOK, Computed
<1> QED
  BY <1>4, <1>5, <1>6, <1>7 DEF ContentsInv

(* Nothing happens.                                                        *)
LEMMA ContentsStutter ==
  ASSUME ContentsInv, UNCHANGED vars
  PROVE  ContentsInv'
<1> USE DEF vars, tensorVars, arenaVars, plannerVars, loopVars, driverVars
<1>1. Passing(shared)' /\ LifeOK'
  BY PlanKept DEF ContentsInv
<1>2. SizePassed'
  BY DEF ContentsInv, SizePassed, Dynamic
<1>3. Settled' /\ Unplaced'
  BY DEF ContentsInv, Settled, Unplaced, Decided, TensorsOf
<1>4. LoopOK' /\ DataOK'
  BY DEF ContentsInv, LoopOK, DataOK, InArena, TensorsOf
<1>5. Computed'
  BY DEF ContentsInv, Computed, Made, Needed, Inputs
<1> QED
  BY <1>1, <1>2, <1>3, <1>4, <1>5 DEF ContentsInv

(* Every step of the subgraph.                                             *)
LEMMA ContentsNext ==
  ASSUME PassingOn, ArenaInv, ArenaInv', PointerInv, ContentsInv,
         [Next]_vars
  PROVE  ContentsInv'
<1>1. CASE Place
  <2>1. pc = "place" /\ UNCHANGED driverVars
    BY <1>1 DEF Place
  <2>2. ASSUME NEW t \in pending, KeepShared(t) \/ BeginAllocate(t)
        PROVE  ContentsInv'
    BY <2>1, <2>2, KeepSharedContents, BeginContents
  <2>3. ASSUME NEW a \in scan.todo, Visit(a)
        PROVE  ContentsInv'
    BY <2>1, <2>3, VisitContents
  <2>4. CASE EndAllocate
    BY <2>1, <2>4, EndContents
  <2> QED
    BY <1>1, <2>2, <2>3, <2>4 DEF Place
<1>2. CASE Plan \/ Placed
  BY <1>2, PlanContents, PlacedContents
<1>3. CASE (PrepareOp \/ PrepareFails) /\ Prepare(prep)
  BY <1>3, PrepareContents
<1>4. CASE /\ UNCHANGED <<bytes, data, type>>
           /\ \/ AllocateTensors \/ PrepareFails \/ Invoke \/ PrepareRest
              \/ InvokeReturns
  BY <1>4, DriverContents
<1>5. CASE ExecuteStatic \/ ExecuteDynamic \/ ExecuteFails
  BY <1>5, ExecuteStaticContents, ExecuteDynamicContents,
     ExecuteFailsContents
<1>6. CASE UNCHANGED vars
  BY <1>6, ContentsStutter
<1> QED
  BY <1>1, <1>2, <1>3, <1>4, <1>5, <1>6
  DEF Next, PrepareOp, PrepareFails, AllocateTensors, Invoke, PrepareRest,
      InvokeReturns, tensorVars

(***************************************************************************)
(* The invariant of the contents holds for every graph whose in-place      *)
(* operators only pass their data on, through resizes, moves of the buffer *)
(* and failed calls: arena_planner.cc keeps the memory of a tensor for as  *)
(* long as it is read under any of its names.                              *)
(***************************************************************************)
THEOREM ContentsInductive ==
  ASSUME PassingOn
  PROVE  Spec => []ContentsInv
<1>1. Init => ContentsInv
  BY ContentsInit
<1>2. ArenaInv /\ ArenaInv' /\ PointerInv /\ ContentsInv /\ [Next]_vars
        => ContentsInv'
  BY ContentsNext
<1> QED
  BY <1>1, <1>2, ArenaInductive, PointerInductive, PTL DEF Spec

(* An arena tensor of a node that was placed has its memory.               *)
LEMMA PlacedMemory ==
  ASSUME ArenaInv, ContentsInv, NEW i \in Node, i < nextPlan,
         NEW t \in TensorsOf(graph, i), type[t] = "arena"
  PROVE  HasMemory(t)
<1>1. bytes[t] \in Nat
  BY GraphOK, Frontier, PlannerAssumption DEF ArenaInv, ArenaTypeOK
<1>2. CASE bytes[t] = 0
  BY <1>2 DEF HasMemory
<1>3. CASE bytes[t] > 0
  BY <1>3 DEF ContentsInv, DataOK, InArena, HasMemory, NullPtr
<1> QED
  BY <1>1, <1>2, <1>3

(* What is read has memory: in the arena, or from the heap.                *)
LEMMA InputMemory ==
  ASSUME PassingOn, ArenaInv, PointerInv, ContentsInv, pc = "execute",
         node \in Node, node < nextPlan, NEW t \in Inputs(node)
  PROVE  HasMemory(t)
<1>1. /\ graph \in Graphs /\ Node \subseteq Int /\ nextPlan \in Int
      /\ call # "allocate" /\ t \in Tensor /\ Made(t, node)
  <2>1. graph \in Graphs
    BY Frontier
  <2> QED
    BY <2>1, Frontier, ReadMade DEF ContentsInv, Computed
<1>2. CASE type[t] = "arena"
  <2>1. PICK i \in Node : i <= node /\ t \in TensorsOf(graph, i)
    BY <1>1, MadeAt
  <2>2. i < nextPlan
    BY <1>1, <2>1
  <2> QED
    BY <1>2, <2>1, <2>2, PlacedMemory
<1>3. CASE type[t] # "arena"
  <2>1. PICK k \in Node : graph.op[k] = "dynamic" /\ t = graph.out[k]
    BY <1>1, <1>3 DEF PointerInv, Recognised, Dynamic
  <2>2. k < node
    BY <1>1, <2>1, Producers DEF Made
  <2>3. data[t].at = "heap"
    BY <1>1, <2>1, <2>2 DEF ContentsInv, Computed
  <2> QED
    BY <2>3 DEF HasMemory, NullPtr
<1> QED
  BY <1>2, <1>3

(* Where an output lies is kept at its node.                               *)
LEMMA OutLives ==
  ASSUME PassingOn, ArenaInv, PointerInv, ContentsInv,
         NEW n \in Node, n < nextPlan,
         InArena(graph.out[n]), bytes[graph.out[n]] > 0
  PROVE  /\ lastUse[shared[graph.out[n]]] >= n
         /\ shared[graph.out[n]] \notin graph.temp[n]
<1>1. graph \in Graphs
  BY Frontier
<1>2. CASE shared[graph.out[n]] = graph.out[n]
  BY <1>1, <1>2, Producers DEF ContentsInv, LifeOK
<1>3. CASE shared[graph.out[n]] # graph.out[n]
  <2>1. /\ graph.op[n] = "unmodified"
        /\ shared[graph.in[n][1]] = shared[graph.out[n]]
    BY <1>3, OutPassed
  <2>2. graph.in[n][1] \in Inputs(n)
    BY <1>1, <2>1, FirstInput
  <2>3. lastUse[shared[graph.out[n]]] >= n
    BY <2>1, <2>2 DEF ContentsInv, LifeOK
  <2>4. \E k \in Node : shared[graph.out[n]] = graph.out[k]
    <3>1. graph.out[n] \in TensorsOf(graph, n)
      BY DEF TensorsOf
    <3> QED
      BY <1>1, <1>3, <3>1, RootOf DEF ContentsInv
  <2> QED
    BY <1>1, <2>3, <2>4, Producers
<1> QED
  BY <1>2, <1>3

(* A temporary is apart from the output of its node.                       *)
LEMMA TempApart ==
  ASSUME PassingOn, ArenaInv, PointerInv, ContentsInv,
         NEW n \in Node, n < nextPlan, NEW s \in graph.temp[n]
  PROVE  ~Overlap(s, graph.out[n])
<1> SUFFICES ASSUME Overlap(s, graph.out[n]) PROVE FALSE
  OBVIOUS
<1>1. InArena(graph.out[n]) /\ bytes[graph.out[n]] > 0
  BY DEF Overlap, InArena
<1>2. graph \in Graphs /\ n <= n
  BY Frontier
<1>3. shared[s] = s
  BY <1>2, TempOwn DEF ContentsInv
<1>4. /\ lastUse[shared[graph.out[n]]] >= n
      /\ shared[graph.out[n]] # s
  BY <1>1, OutLives
<1>5. lastUse[s] >= n
  BY DEF ContentsInv, LifeOK
<1>6. s \in TensorsOf(graph, n) /\ graph.out[n] \in TensorsOf(graph, n)
  BY DEF TensorsOf
<1> QED
  BY <1>2, <1>3, <1>4, <1>5, <1>6, Separate

(* An output lies on an input only when it has taken its place.            *)
LEMMA OutApart ==
  ASSUME PassingOn, ArenaInv, PointerInv, ContentsInv,
         NEW n \in Node, n < nextPlan, NEW t \in Inputs(n),
         Overlap(t, graph.out[n])
  PROVE  data[t] = data[graph.out[n]] /\ ShareablePositions(n) # {}
<1> DEFINE out == graph.out[n]
<1>1. /\ InArena(out) /\ bytes[out] > 0
      /\ InArena(t) /\ bytes[t] > 0
  BY DEF Overlap, InArena
<1>2. /\ graph \in Graphs /\ n <= n /\ Node \subseteq Int
      /\ nextPlan \in Int /\ n >= n
  BY Frontier
<1>3. t \in Tensor /\ Made(t, n) /\ Needed(t, n)
  BY <1>2, ReadMade DEF Needed
<1>4. shared[out] # out
  BY <1>3, OwnApart
<1>5. graph.op[n] = "unmodified"
  BY <1>1, <1>4, OutPassed
<1>6. PICK i \in Node : i <= n /\ t \in TensorsOf(graph, i)
  BY <1>2, <1>3, MadeAt
<1>7. out \in TensorsOf(graph, n)
  BY DEF TensorsOf
<1>8. lastUse[shared[t]] >= n /\ lastUse[shared[out]] >= n
  BY <1>1, OutLives DEF ContentsInv, LifeOK
<1>9. shared[t] = shared[out]
  BY <1>2, <1>6, <1>7, <1>8, Separate
<1>10. data[t].offset = data[out].offset /\ out \in Tensor
  <2>1. i < nextPlan
    BY <1>2, <1>6
  <2>2. data[t].offset = allocs[shared[t]].offset
    BY <1>1, <1>6, <2>1, Lies
  <2>3. data[out].offset = allocs[shared[out]].offset /\ out \in Tensor
    BY <1>1, <1>7, Lies
  <2> QED
    BY <1>9, <2>2, <2>3
<1>11. /\ data[t] \in Pointers /\ data[out] \in Pointers
       /\ data[t].at = data[out].at /\ data[t].base = data[out].base
  BY <1>1, <1>3, <1>10 DEF PointerInv, InArena
<1>12. data[t] = data[out]
  BY <1>10, <1>11 DEF Pointers
<1> QED
  BY <1>5, <1>12 DEF ShareablePositions

(***************************************************************************)
(* For every such graph, whenever InvokeImpl comes to a node, its operands *)
(* have memory, its inputs hold what was written to them, its temporaries  *)
(* lie apart from its operands, and its output lies on an input only when  *)
(* it has taken its place.                                                 *)
(***************************************************************************)
THEOREM OperandsCorrect ==
  ASSUME PassingOn
  PROVE  Spec => []OperandsIntact
<1>1. ASSUME ArenaInv, PointerInv, ContentsInv PROVE OperandsIntact
  <2> SUFFICES ASSUME Executing PROVE OperandsIntact
    BY DEF OperandsIntact
  <2>1. /\ pc = "execute" /\ node \in Node /\ node < nextPlan
        /\ graph \in Graphs /\ call # "allocate" /\ node >= node
        /\ nextPrepare = nextPlan
    <3>1. /\ pc = "execute" /\ node < NumNodes /\ node # nextPrepare
          /\ node \in 0..NumNodes /\ nextPrepare \in 0..NumNodes
          /\ node <= nextPrepare /\ nextPrepare = nextPlan
          /\ graph \in Graphs
      BY <1>1 DEF Executing, ArenaInv, ArenaTypeOK, Stages
    <3>2. call # "allocate"
      BY <1>1, <3>1 DEF ContentsInv, Computed
    <3> QED
      BY <3>1, <3>2, PlannerAssumption DEF Node
  <2>2. \A t \in Inputs(node) :
           t \in Tensor /\ Made(t, node) /\ Needed(t, node)
    BY <2>1, ReadMade DEF Needed
  <2>3. Inputs(node) \subseteq intact
    BY <1>1, <2>1, <2>2 DEF ContentsInv, Computed
  <2>4. \A t \in Inputs(node) : HasMemory(t)
    BY <1>1, <2>1, InputMemory
  <2>5. HasMemory(graph.out[node]) \/ graph.op[node] = "dynamic"
    <3> SUFFICES ASSUME graph.op[node] # "dynamic"
                 PROVE  HasMemory(graph.out[node])
      OBVIOUS
    <3>1. graph.out[node] \notin Dynamic /\ graph.out[node] \in Tensor
      BY <2>1, Producers, GraphOK DEF Dynamic
    <3>2. type[graph.out[node]] = "arena"
      BY <1>1, <3>1 DEF PointerInv, Recognised
    <3>3. graph.out[node] \in TensorsOf(graph, node)
      BY DEF TensorsOf
    <3> QED
      BY <1>1, <2>1, <3>2, <3>3, PlacedMemory
  <2>6. ASSUME NEW s \in graph.temp[node]
        PROVE  /\ HasMemory(s)
               /\ \A t \in Inputs(node) \union {graph.out[node]} :
                     ~Overlap(s, t)
    <3>1. s \in TensorsOf(graph, node)
      BY DEF TensorsOf
    <3>2. shared[s] = s /\ s \notin Dynamic
      BY <1>1, <2>1, TempOwn DEF ContentsInv
    <3>3. type[s] = "arena"
      <4>1. s \in Tensor
        BY <2>1, <3>1, GraphOK
      <4> QED
        BY <1>1, <3>2, <4>1 DEF PointerInv, Recognised
    <3>4. HasMemory(s)
      BY <1>1, <2>1, <3>1, <3>3, PlacedMemory
    <3>5. ASSUME NEW t \in Inputs(node) PROVE ~Overlap(s, t)
      <4>1. ~Overlap(t, s)
        BY <1>1, <2>1, <2>2, <3>2, OwnApart
      <4> QED
        BY <4>1 DEF Overlap
    <3>6. ~Overlap(s, graph.out[node])
      BY <1>1, <2>1, TempApart
    <3> QED
      BY <3>4, <3>5, <3>6
  <2>7. ASSUME NEW t \in Inputs(node), Overlap(t, graph.out[node])
        PROVE  /\ data[t] = data[graph.out[node]]
               /\ ShareablePositions(node) # {}
    BY <1>1, <2>1, <2>7, OutApart
  <2> QED
    BY <2>3, <2>4, <2>5, <2>6, <2>7 DEF OperandsIntact
<1> QED
  BY <1>1, ArenaInductive, PointerInductive, ContentsInductive, PTL

(***************************************************************************)
(* For every such graph, after an Invoke that succeeded the outputs hold   *)
(* what was computed, and the inputs still what the caller wrote.          *)
(***************************************************************************)
THEOREM ResultCorrect ==
  ASSUME PassingOn
  PROVE  Spec => []ResultIntact
<1>1. ASSUME ArenaInv, ContentsInv PROVE ResultIntact
  <2> SUFFICES ASSUME pc = "execute", node = NumNodes,
                      NEW t \in graph.inputs \union graph.outputs
               PROVE  t \in intact
    BY DEF ResultIntact
  <2>1. graph \in Graphs /\ call # "allocate"
    BY <1>1 DEF ArenaInv, ArenaTypeOK, ContentsInv, Computed
  <2>2. t \in Tensor
    BY <2>1, GraphAssumption DEF Graph
  <2>3. \A k \in Node : k < NumNodes
    BY PlannerAssumption DEF Node
  <2>4. t \in graph.inputs \union {graph.out[k] : k \in Node}
    BY <2>1 DEF PassingOn
  <2>5. Made(t, node) /\ Needed(t, node)
    BY <2>3, <2>4 DEF Made, Needed
  <2> QED
    BY <1>1, <2>1, <2>2, <2>5 DEF ContentsInv, Computed
<1> QED
  BY <1>1, ArenaInductive, ContentsInductive, PTL
=============================================================================
