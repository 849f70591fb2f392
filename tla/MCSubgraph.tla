----------------------------- MODULE MCSubgraph -----------------------------
EXTENDS Subgraph

(* Node i computes tensor i + 1; tensor 0 is the input of the graph, the   *)
(* last node computes its output, and the highest tensor is a temporary.   *)
Chain(op, in, scratch) ==
    [op |-> [i \in Node |-> op[i + 1]],
     in |-> [i \in Node |-> in[i + 1]],
     out |-> [i \in Node |-> i + 1],
     temp |-> [i \in Node |-> IF i = scratch THEN {NumNodes + 1} ELSE {}],
     inputs |-> {0},
     outputs |-> {NumNodes}]

TensorVal == 0..(NumNodes + 1)

GraphsVal ==
    { \* a diamond without sharing
      Chain(<<"plain", "plain", "plain", "plain">>,
            <<<<0>>, <<1>>, <<1, 2>>, <<3>>>>, 1),
      \* an operand that outlives a resize
      Chain(<<"plain", "dynamic", "plain", "plain">>,
            <<<<0>>, <<1>>, <<2>>, <<1, 3>>>>, 2),
      \* two resizes
      Chain(<<"dynamic", "plain", "dynamic", "plain">>,
            <<<<0>>, <<1>>, <<2>>, <<2, 3>>>>, 3),
      \* a reshape and an in-place operator after it
      Chain(<<"plain", "unmodified", "modified", "plain">>,
            <<<<0>>, <<1>>, <<2>>, <<3, 3>>>>, 3),
      \* a reshape whose root is still read after a resize
      Chain(<<"plain", "unmodified", "dynamic", "plain">>,
            <<<<0>>, <<1>>, <<1>>, <<2, 3>>>>, 3),
      \* in place on one input, the other one dynamic
      Chain(<<"plain", "dynamic", "modified", "plain">>,
            <<<<0>>, <<0>>, <<1, 2>>, <<3, 0>>>>, 2),
      \* in place after a resize
      Chain(<<"dynamic", "plain", "modified", "plain">>,
            <<<<0>>, <<1>>, <<2>>, <<3, 1>>>>, 1) }

(* A modifying operator on a reshape of a reshape that is read once more.  *)
AliasGraphs ==
    { Chain(<<"plain", "unmodified", "unmodified", "modified", "plain">>,
            <<<<0>>, <<1>>, <<2>>, <<3>>, <<2, 4>>>>, 4) }
=============================================================================
