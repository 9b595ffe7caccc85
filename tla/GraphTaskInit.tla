---------------------------- MODULE GraphTaskInit ----------------------------
(***************************************************************************)
(* The two graph searches Engine::execute makes before it starts a         *)
(* GraphTask, step by step as engine.cpp writes them:                      *)
(*   - compute_dependencies, a worklist that counts incoming edges and     *)
(*     does not expand nodes numbered below the smallest output;           *)
(*   - init_to_execute, an iterative depth-first search that marks the     *)
(*     nodes with a path to an output, told by the topological numbers     *)
(*     where it need not look.                                             *)
(* One action is one iteration of the loop.  The graph and the outputs are *)
(* chosen in the initial state, so that a run covers every small graph;    *)
(* the results are compared with the definitions of BackwardGraph.         *)
(***************************************************************************)
EXTENDS BackwardGraph, SequencesExt

CONSTANTS
  Node,      \* numbered in the order in which the forward pass made them
  Graph,     \* the graphs to explore: edges lead to older nodes
  root

VARIABLES E, outputs, accumulate_grad,   \* the call
          pc,
          queue, seen, dependencies,     \* compute_dependencies
          stack,                         \* init_to_execute: frames
          needed, captures               \* exec_info_

vars == <<E, outputs, accumulate_grad, pc, queue, seen, dependencies, stack,
          needed, captures>>

call == <<E, outputs, accumulate_grad>>

\* Node::update_topological_nr: one more than the largest among the next
\* functions, set while the node is made.
topological_nr ==
  LET nr[n \in Node] ==
        IF Succ(E, n) = {} THEN 0 ELSE 1 + Max({nr[m] : m \in Succ(E, n)})
  IN  nr

min_topo_nr == compute_min_topological_nr(topological_nr, outputs)

Init ==
  /\ E \in Graph
  /\ outputs \in SUBSET Node
  /\ accumulate_grad \in (IF outputs = {} THEN {TRUE} ELSE BOOLEAN)
  /\ pc = "dependencies"
  /\ queue = <<root>>
  /\ seen = {}
  /\ dependencies = [n \in Node |-> 0]
  /\ stack = <<>>
  /\ needed = {}
  /\ captures = {}

\* Mutant: a function reached twice is queued twice.
CountEdgeTwice(st, m) ==
  IF m = NoNode THEN st
  ELSE [dependencies |-> [st.dependencies EXCEPT ![m] = @ + 1],
        queue |-> Append(st.queue, m),
        seen |-> st.seen \cup {m}]

\* for (const auto& edge : fn->next_edges()): count, and queue what is new.
CountEdge(st, m) ==
  IF m = NoNode THEN st
  ELSE [dependencies |-> [st.dependencies EXCEPT ![m] = @ + 1],
        queue |-> IF m \in st.seen THEN st.queue ELSE Append(st.queue, m),
        seen |-> st.seen \cup {m}]

ExpandNode ==
  /\ pc = "dependencies"
  /\ queue # <<>>
  /\ LET fn   == Last(queue)
         rest == [dependencies |-> dependencies, queue |-> Front(queue), seen |-> seen]
         st   == IF topological_nr[fn] < min_topo_nr THEN rest
                 ELSE FoldLeft(CountEdge, rest, E[fn])
     IN  /\ dependencies' = st.dependencies
         /\ queue' = st.queue
         /\ seen' = st.seen
  /\ UNCHANGED <<call, pc, stack, needed, captures>>

\* compute_dependencies is done; with outputs, init_to_execute marks them and
\* starts its search at the root.
StartSearch ==
  /\ pc = "dependencies"
  /\ queue = <<>>
  /\ \/ /\ outputs # {}
        /\ pc' = "search"
        /\ stack' = <<[fn |-> root, next |-> 1]>>
        /\ needed' = IF accumulate_grad THEN outputs ELSE {}
        /\ captures' = IF accumulate_grad THEN {} ELSE outputs
     \/ /\ outputs = {}
        /\ pc' = "done"
        /\ UNCHANGED <<stack, needed, captures>>
  /\ seen' = {}
  /\ UNCHANGED <<call, queue, dependencies>>

should_execute(n) == n \in needed \cup captures

frame == Last(stack)

\* get_next_fn() until a child that was not seen; 0 when there is none.
FirstUnseen ==
  LET new == {i \in frame.next .. Len(E[frame.fn]) :
                E[frame.fn][i] \notin seen \cup {NoNode}}
  IN  IF new = {} THEN 0 ELSE Min(new)

\* (1) the children passed over, all seen before
Revisited ==
  {E[frame.fn][i] : i \in frame.next ..
      (IF FirstUnseen = 0 THEN Len(E[frame.fn]) ELSE FirstUnseen - 1)} \ {NoNode}

\* Mutant: step (1) is left out.
NeededWithoutRevisit == needed

NeededByRevisit ==
  needed \cup (IF \E m \in Revisited : should_execute(m) THEN {frame.fn} ELSE {})

\* Mutant: a child as old as the oldest output is pruned too.
DescendPrunesOutput ==
  /\ pc = "search"
  /\ stack # <<>>
  /\ FirstUnseen # 0
  /\ LET child == E[frame.fn][FirstUnseen]
         moved == Append(Front(stack), [frame EXCEPT !.next = FirstUnseen + 1])
     IN  /\ seen' = seen \cup {child}
         /\ stack' = IF topological_nr[child] <= min_topo_nr THEN moved
                     ELSE Append(moved, [fn |-> child, next |-> 1])
  /\ needed' = NeededByRevisit
  /\ UNCHANGED <<call, pc, queue, dependencies, captures>>

\* (2) go down into a new child, unless it is older than every output
Descend ==
  /\ pc = "search"
  /\ stack # <<>>
  /\ FirstUnseen # 0
  /\ LET child == E[frame.fn][FirstUnseen]
         moved == Append(Front(stack), [frame EXCEPT !.next = FirstUnseen + 1])
     IN  /\ seen' = seen \cup {child}
         /\ stack' = IF topological_nr[child] < min_topo_nr THEN moved
                     ELSE Append(moved, [fn |-> child, next |-> 1])
  /\ needed' = NeededByRevisit
  /\ UNCHANGED <<call, pc, queue, dependencies, captures>>

\* (3) no child is left: the node is final, and counts for its parent
Ascend ==
  /\ pc = "search"
  /\ stack # <<>>
  /\ FirstUnseen = 0
  /\ stack' = Front(stack)
  /\ LET final == NeededByRevisit
     IN  needed' = IF stack' # <<>> /\ frame.fn \in final \cup captures
                   THEN final \cup {Last(stack').fn} ELSE final
  /\ UNCHANGED <<call, pc, queue, seen, dependencies, captures>>

FinishSearch ==
  /\ pc = "search"
  /\ stack = <<>>
  /\ pc' = "done"
  /\ UNCHANGED <<call, queue, seen, dependencies, stack, needed, captures>>

Done == pc = "done" /\ UNCHANGED vars

Next == ExpandNode \/ StartSearch \/ Descend \/ Ascend \/ FinishSearch \/ Done

Spec == Init /\ [][Next]_vars

------------------------------------------------------------------------------
ExpandedNodes == Expanded(E, topological_nr, root, min_topo_nr)

\* compute_dependencies: a function waits for exactly the edges of the
\* functions that are reachable and not pruned, duplicates included.
DependenciesAreEdges ==
  pc = "done" =>
    \A n \in Node :
      dependencies[n] = Cardinality(InEdges(E, ExpandedNodes, n))

\* init_to_execute: among the functions a pass can reach, should_execute holds
\* of those with a path to an output ("Only nodes that have a path to any edge
\* in `outputs` should be executed") and needed_ of those that must be called.
ExecInfoIsReachability ==
  pc = "done" /\ outputs # {} =>
    \A n \in ExpandedNodes \cup {root} :
      /\ should_execute(n) <=> n \in ShouldExecute(E, outputs)
      /\ n \in needed <=> n \in Needed(E, outputs, accumulate_grad)

\* Pruning by topological number is sound for the engine: every edge that a
\* called function hands on was counted, and a function that will run waits
\* only for functions that are called (else a pass would never finish).
PlanIsExecutable ==
  pc = "done" /\ outputs # {} =>
    \A n \in ExpandedNodes \cup {root} :
      /\ n \in needed => n \in ExpandedNodes
      /\ should_execute(n) =>
           \A e \in InEdges(E, ExpandedNodes, n) : e[1] \in needed

==============================================================================
