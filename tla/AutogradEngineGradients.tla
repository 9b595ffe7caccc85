------------------------ MODULE AutogradEngineGradients ------------------------
(***************************************************************************)
(* The invariant behind "a function is called once, with all its           *)
(* gradients": dependencies_, not_ready_ and the input buffers of a pass   *)
(* agree with the gradients handed on, and a function is in one place at   *)
(* a time.  One lemma for each kind of step that can disturb it.           *)
(***************************************************************************)
EXTENDS AutogradEngineProofs, WellFoundedInduction

\* The gradient of some edge to n is still missing.
Incomplete(g, n) == ~(Awaited(g, n) \subseteq passed[g])

\* What holds of function n of pass g from the moment it is ready.
Ready(g, n) ==
  /\ ~Incomplete(g, n)
  /\ n \in needed[g] => n \in ExpandedBy[g]

\* A task in a queue, and a function about to be evaluated.
Untouched(g, n) ==
  /\ Ready(g, n)
  /\ inputs[g][n] = Awaited(g, n)
  /\ n \notin applied[g]

Holds(f, g, n) == pc[f] \in Working /\ task[f].g = g /\ task[f].fn = n

\* Nothing of a pass exists before it is called.
Empty(g) ==
  /\ passed[g] = {} /\ applied[g] = {} /\ not_ready[g] = {}
  /\ inputs[g] = [n \in Node |-> {}]
  /\ \A q \in Queue : \A t \in heap[q] : t.g # g
  /\ \A f \in Frame : Busy(f) => task[f].g # g

Fresh == \A g \in GraphTask : pc[g] = "none" => Empty(g)

\* GraphTask::dependencies_ and not_ready_ agree with the gradients handed on.
BooksOf(g, n) ==
  /\ dependencies[g][n] = Cardinality(Awaited(g, n) \ passed[g])
  /\ n \in not_ready[g] => /\ n \in should_execute[g]
                           /\ Incomplete(g, n)
                           /\ inputs[g][n] = Awaited(g, n) \cap passed[g]
  /\ n \in should_execute[g] \ not_ready[g] /\ Incomplete(g, n) =>
       Awaited(g, n) \cap passed[g] = {}
  /\ n \in applied[g] => ~Incomplete(g, n)

Books == \A g \in GraphTask : pc[g] # "none" => \A n \in Node : BooksOf(g, n)

\* Only a function that was called hands gradients on.
Origin == \A g \in GraphTask : \A e \in passed[g] : e[1] \in applied[g]

\* At most one queue entry or thread has a given function of a pass.
UniqueFor(g, n) ==
  /\ \A p, q \in Queue : \A t \in heap[p], u \in heap[q] :
       t.g = g /\ t.fn = n /\ u.g = g /\ u.fn = n => p = q /\ t = u
  /\ \A q \in Queue : \A t \in heap[q], f \in Frame :
       t.g = g /\ t.fn = n => ~Holds(f, g, n)
  /\ \A f, h \in Frame : Holds(f, g, n) /\ Holds(h, g, n) => f = h

Unique == \A g \in GraphTask, n \in Node : UniqueFor(g, n)

QueuedReady ==
  \A q \in Queue : \A t \in heap[q] : t.fn \in Node => Untouched(t.g, t.fn)

\* What a frame knows of the function it holds.
HeldAs(f, g, n) ==
  /\ Ready(g, n)
  /\ pc[f] = "eval" => Untouched(g, n)
  /\ pc[f] \in {"apply", "call"} =>
       /\ n \in needed[g] /\ n \in applied[g]
       /\ inputs[g][n] = Awaited(g, n)
       /\ \A e \in passed[g] : e[1] # n
  /\ pc[f] = "propagate" =>
       /\ n \in needed[g] /\ n \in applied[g]
       /\ \A e \in passed[g] : e[1] = n => e[2] < edge[f]

HeldReady ==
  \A f \in Frame : pc[f] \in Working /\ task[f].fn \in Node =>
    HeldAs(f, task[f].g, task[f].fn)

GradInv == Fresh /\ Books /\ Origin /\ Unique /\ QueuedReady /\ HeldReady

------------------------------------------------------------------------------
(***************************************************************************)
(* What a pass expands, and what it needs.                                 *)
(***************************************************************************)
LEMMA SuccNode ==
  ASSUME NEW n \in Node, NEW m \in Succ(next_edges, n)
  PROVE  /\ m \in Node /\ topological_nr[m] < topological_nr[n]
         /\ topological_nr[m] \in Nat /\ topological_nr[n] \in Nat
<1>1. m \in Node
  BY GraphAssumption, NextEdges DEF Succ
<1> QED BY <1>1, GraphAssumption

LEMMA SuccOfEdge ==
  ASSUME NEW n \in Node, NEW i \in 1..Len(next_edges[n]), next_edges[n][i] # NoNode
  PROVE  next_edges[n][i] \in Succ(next_edges, n)
BY NextEdges DEF Succ

\* The smallest number of an output is the number of one, and a bound of all.
LEMMA MinTopological ==
  ASSUME NEW g \in GraphTask
  PROVE  /\ min_topo_nr(g) \in Nat
         /\ \A n \in outputs[g] : topological_nr[n] >= min_topo_nr(g)
<1> DEFINE T == {topological_nr[n] : n \in outputs[g]}
<1>1. CASE outputs[g] = {}
  BY <1>1 DEF min_topo_nr, compute_min_topological_nr
<1>2. CASE outputs[g] # {}
  <2>1. T \subseteq Nat /\ T # {}
    BY <1>2, GraphAssumption, CallAssumption
  <2> DEFINE Less == {p \in Nat \X Nat : p[1] < p[2]}
  <2>2. IsWellFoundedOn(Less, Nat)
    BY Zenon, NatLessThanWellFounded DEF OpToRel
  <2>x. PICK x \in T : \A y \in T : ~(<<y, x>> \in Less)
    <3> HIDE DEF Less
    <3> QED BY Zenon, <2>1, <2>2, WFMin
  <2>3. \A y \in T : x <= y
    <3> SUFFICES ASSUME NEW y \in T PROVE x <= y
      OBVIOUS
    <3> HIDE DEF T
    <3>1. x \in Nat /\ y \in Nat
      BY <2>1
    <3>2. <<y, x>> \notin Less
      BY Zenon, <2>x
    <3> QED BY <3>1, <3>2
  <2>4. \E k \in T : \A n \in outputs[g] : k <= topological_nr[n]
    BY <2>3
  <2>5. min_topo_nr(g) = CHOOSE k \in T : \A n \in outputs[g] : k <= topological_nr[n]
    BY <1>2 DEF min_topo_nr, compute_min_topological_nr
  <2>6. min_topo_nr(g) \in T /\ \A n \in outputs[g] : min_topo_nr(g) <= topological_nr[n]
    BY <2>4, <2>5
  <2> QED BY <2>1, <2>6, GraphAssumption, CallAssumption
<1> QED BY <1>1, <1>2

LEMMA NeededIsNumbered ==
  ASSUME NEW g \in GraphTask, NEW n \in needed[g]
  PROVE  n \in Node /\ topological_nr[n] >= min_topo_nr(g)
<1> DEFINE S == {m \in Node : topological_nr[m] >= min_topo_nr(g)}
<1>0. /\ DOMAIN next_edges = Node /\ outputs[g] \subseteq Node
      /\ topological_nr \in [Node -> Nat]
  BY GraphAssumption, CallAssumption
<1>1. IsBackwardClosed(next_edges, outputs[g], S)
  <2>1. outputs[g] \subseteq S
    BY <1>0, MinTopological
  <2>2. ASSUME NEW k \in Node, NEW m \in Succ(next_edges, k) \cap S PROVE k \in S
    BY <1>0, <2>2, SuccNode, MinTopological
  <2> QED BY <1>0, <2>1, <2>2 DEF IsBackwardClosed
<1>2. ReachesOutput(next_edges, outputs[g]) \subseteq S
  BY <1>0, <1>1 DEF ReachesOutput
<1>3. CASE outputs[g] = {}
  BY <1>0, <1>3 DEF needed, Needed, min_topo_nr, compute_min_topological_nr
<1>4. CASE outputs[g] # {}
  <2>1. CASE n \in outputs[g]
    BY <1>0, <2>1, MinTopological
  <2>2. CASE n \in Node /\ Succ(next_edges, n) \cap ReachesOutput(next_edges, outputs[g]) # {}
    BY <1>0, <1>1, <1>2, <2>2 DEF IsBackwardClosed
  <2> QED BY <1>0, <1>4, <2>1, <2>2 DEF needed, Needed
<1> QED BY <1>3, <1>4

LEMMA ExpandedIsClosed ==
  ASSUME NEW g \in GraphTask
  PROVE  /\ ExpandedBy[g] \subseteq Node
         /\ topological_nr[root[g]] >= min_topo_nr(g) => root[g] \in ExpandedBy[g]
         /\ \A n \in ExpandedBy[g] : \A m \in Succ(next_edges, n) :
              topological_nr[m] >= min_topo_nr(g) => m \in ExpandedBy[g]
<1>0. DOMAIN next_edges = Node /\ root[g] \in Node
  BY GraphAssumption, CallAssumption
<1>1. ExpandedBy[g] \subseteq Node
  BY <1>0 DEF ExpandedBy, Expanded
<1>2. topological_nr[root[g]] >= min_topo_nr(g) => root[g] \in ExpandedBy[g]
  BY <1>0 DEF ExpandedBy, Expanded, IsExpandedSet
<1>3. ASSUME NEW n \in ExpandedBy[g], NEW m \in Succ(next_edges, n),
             topological_nr[m] >= min_topo_nr(g)
      PROVE  m \in ExpandedBy[g]
  <2>1. m \in Node
    BY <1>1, SuccNode
  <2> QED BY <1>0, <1>3, <2>1 DEF ExpandedBy, Expanded, IsExpandedSet
<1> QED BY <1>1, <1>2, <1>3

\* Nothing is sent to the root: numbers fall along the edges.
LEMMA RootWaitsForNothing ==
  ASSUME NEW g \in GraphTask
  PROVE  Awaited(g, root[g]) = {}
<1> DEFINE S == {n \in Node : topological_nr[n] <= topological_nr[root[g]]}
<1>0. /\ DOMAIN next_edges = Node /\ root[g] \in Node
      /\ topological_nr \in [Node -> Nat]
  BY GraphAssumption, CallAssumption
<1>1. IsExpandedSet(next_edges, topological_nr, root[g], min_topo_nr(g), S)
  <2>1. root[g] \in S
    BY <1>0
  <2>2. ASSUME NEW n \in S, NEW m \in Succ(next_edges, n) PROVE m \in S
    BY <1>0, SuccNode
  <2> QED BY <2>1, <2>2 DEF IsExpandedSet
<1>2. ExpandedBy[g] \subseteq S
  BY <1>0, <1>1 DEF ExpandedBy, Expanded
<1>3. ASSUME NEW e \in Awaited(g, root[g]) PROVE FALSE
  <2>1. PICK n \in ExpandedBy[g] : e \in {n} \X DOMAIN next_edges[n]
    BY DEF Awaited, InEdges, Edges
  <2>2. next_edges[n][e[2]] = root[g] /\ e[2] \in DOMAIN next_edges[n]
    BY <2>1 DEF Awaited, InEdges, Target
  <2>3. n \in S /\ root[g] \in Succ(next_edges, n)
    BY <1>0, <1>2, <2>2, GraphAssumption DEF Succ
  <2> QED BY <1>0, <2>3, SuccNode
<1> QED BY <1>3

\* The edge that an expanded function hands on is counted at its end, and there
\* alone.
LEMMA EdgeIsAwaited ==
  ASSUME NEW g \in GraphTask, NEW n \in ExpandedBy[g],
         NEW i \in 1..Len(next_edges[n]), next_edges[n][i] # NoNode
  PROVE  \A m \in Node : <<n, i>> \in Awaited(g, m) <=> m = next_edges[n][i]
<1>1. n \in Node
  BY ExpandedIsClosed
<1>2. i \in DOMAIN next_edges[n]
  BY <1>1, NextEdges
<1>3. <<n, i>> \in Edges(next_edges, ExpandedBy[g])
  BY <1>2 DEF Edges, Target
<1> QED BY <1>3 DEF Awaited, InEdges, Target

------------------------------------------------------------------------------
(***************************************************************************)
(* Steps that hand on no gradient, call no function and queue no function. *)
(***************************************************************************)
Evaluating == {"eval", "apply", "call", "propagate"}

LEMMA QuietStep ==
  ASSUME TypeOK, GradInv,
         UNCHANGED <<dependencies, not_ready, inputs, passed, applied>>,
         \A g \in GraphTask : pc'[g] = "none" <=> pc[g] = "none",
         \A q \in Queue : \A t \in heap'[q] :
           t \in heap[q] \/ (t.fn = NoNode /\ t.g \in GraphTask /\ pc[t.g] # "none"),
         \A f \in Frame : Busy(f)' => Busy(f) /\ task'[f] = task[f],
         \A f \in Frame : pc'[f] \in Working => pc[f] \in Working,
         \A f \in Frame : pc'[f] \in Evaluating =>
           \/ pc'[f] = pc[f] /\ edge'[f] = edge[f]
           \/ pc[f] \in {"apply", "call"} /\ pc'[f] # "eval"
           \/ pc[f] = "propagate" /\ pc'[f] = "propagate" /\ edge'[f] = edge[f] + 1
  PROVE  GradInv'
<1>0. \A f \in Frame : pc'[f] \in Working => pc[f] \in Working /\ task'[f] = task[f]
  BY DEF Busy
<1>1. \A g \in GraphTask, n \in Node :
        /\ Incomplete(g, n)' <=> Incomplete(g, n)
        /\ Ready(g, n)' <=> Ready(g, n)
        /\ Untouched(g, n)' <=> Untouched(g, n)
  BY DEF Incomplete, Ready, Untouched
<1>2. Fresh'
  <2> SUFFICES ASSUME NEW g \in GraphTask, pc[g] = "none"
               PROVE  Empty(g)'
    BY Zenon DEF Fresh
  <2>1. Empty(g)
    BY Zenon DEF GradInv, Fresh
  <2>2. \A q \in Queue : \A t \in heap'[q] : t.g # g
    BY <2>1 DEF Empty
  <2>3. \A f \in Frame : Busy(f)' => task'[f].g # g
    BY <2>1 DEF Empty
  <2> QED BY <2>1, <2>2, <2>3 DEF Empty
<1>3. Books'
  BY <1>1 DEF GradInv, Books, BooksOf
<1>4. Origin'
  BY DEF GradInv, Origin
<1>h. \A q \in Queue : \A t \in heap'[q] : t.fn \in Node => t \in heap[q]
  BY GraphAssumption
<1>5. Unique'
  <2>1. \A f \in Frame, g \in GraphTask, n \in Node : Holds(f, g, n)' => Holds(f, g, n)
    BY <1>0 DEF Holds
  <2> QED BY <1>h, <2>1 DEF GradInv, Unique, UniqueFor
<1>6. QueuedReady'
  <2>1. \A q \in Queue : \A t \in heap[q] : t.g \in GraphTask
    BY DEF TypeOK, NodeTask
  <2> QED BY Zenon, <1>1, <1>h, <2>1 DEF GradInv, QueuedReady
<1>7. HeldReady'
  <2> SUFFICES ASSUME NEW f \in Frame, pc'[f] \in Working, task'[f].fn \in Node,
                      NEW g, NEW n, g = task'[f].g, n = task'[f].fn
               PROVE  HeldAs(f, g, n)'
    BY DEF HeldReady
  <2>1. /\ pc[f] \in Working /\ task[f].g = g /\ task[f].fn = n
        /\ g \in GraphTask /\ n \in Node /\ edge[f] \in Nat
        /\ \A e \in passed[g] : e[2] \in Nat
    BY <1>0 DEF TypeOK, NodeTask, Busy, Edge
  <2>2. HeldAs(f, g, n)
    BY <2>1 DEF GradInv, HeldReady
  <2>3. pc'[f] = "eval" => pc[f] = "eval"
    BY DEF Evaluating
  <2>4. pc'[f] \in {"apply", "call"} => pc[f] \in {"apply", "call"}
    BY DEF Evaluating
  <2>5. pc'[f] = "propagate" =>
          \/ pc[f] \in {"apply", "call"}
          \/ pc[f] = "propagate" /\ (edge'[f] = edge[f] \/ edge'[f] = edge[f] + 1)
    BY DEF Evaluating
  <2> QED BY <1>1, <2>1, <2>2, <2>3, <2>4, <2>5 DEF HeldAs
<1> QED BY <1>2, <1>3, <1>4, <1>5, <1>6, <1>7 DEF GradInv

LEMMA PopStep ==
  ASSUME TypeOK, GradInv, NEW f \in Frame, Pop(f), local_ready_queue(f) \in Queue
  PROVE  GradInv'
<1> DEFINE q == local_ready_queue(f)
<1>0. /\ pc[f] = "pop" /\ ~Busy(f)
      /\ UNCHANGED <<dependencies, not_ready, inputs, passed, applied, edge>>
  BY DEF Pop, Busy, Working, Finishing, graphVars
<1>1. PICK t \in heap[q] :
        /\ heap' = [heap EXCEPT ![q] = @ \ {t}]
        /\ \/ pc' = [pc EXCEPT ![f] = "loop"] /\ UNCHANGED task
           \/ \E l \in {"eval", "decrement"} :
                task' = [task EXCEPT ![f] = t] /\ pc' = [pc EXCEPT ![f] = l]
  BY Zenon DEF Pop, Goto, Top
<1>2. /\ heap \in [Queue -> SUBSET NodeTask] /\ q \in Queue
      /\ pc \in [Frame -> Labels] /\ task \in [Frame -> NodeTask \cup {NoTask}]
      /\ t \in NodeTask /\ t.g \in GraphTask
  BY <1>1 DEF TypeOK, NodeTask
<1>h. \A p \in Queue : \A u \in heap'[p] : u \in heap[p]
  BY <1>1, <1>2
<1>n. t \notin heap'[q]
  BY <1>1, <1>2
<1>3. CASE pc' = [pc EXCEPT ![f] = "loop"] /\ UNCHANGED task
  <2>1. /\ \A h \in Frame : h # f => pc'[h] = pc[h]
        /\ pc'[f] = "loop" /\ pc'[f] \notin Working \cup Finishing \cup Evaluating
    BY <1>2, <1>3 DEF Working, Finishing, Evaluating
  <2>2. /\ \A g \in GraphTask : pc'[g] = "none" <=> pc[g] = "none"
        /\ \A h \in Frame : Busy(h)' => Busy(h) /\ task'[h] = task[h]
        /\ \A h \in Frame : pc'[h] \in Working => pc[h] \in Working
    BY <1>0, <1>3, <2>1 DEF Busy, Frame
  <2>3. \A p \in Queue : \A u \in heap'[p] :
          u \in heap[p] \/ (u.fn = NoNode /\ u.g \in GraphTask /\ pc[u.g] # "none")
    BY Zenon, <1>h
  <2>4. \A h \in Frame : pc'[h] \in Evaluating =>
          \/ pc'[h] = pc[h] /\ edge'[h] = edge[h]
          \/ pc[h] \in {"apply", "call"} /\ pc'[h] # "eval"
          \/ pc[h] = "propagate" /\ pc'[h] = "propagate" /\ edge'[h] = edge[h] + 1
    BY <1>0, <2>1
  <2>5. UNCHANGED <<dependencies, not_ready, inputs, passed, applied>>
    BY <1>0
  <2> QED BY Zenon, <2>2, <2>3, <2>4, <2>5, QuietStep
<1>4. ASSUME NEW l \in {"eval", "decrement"},
             task' = [task EXCEPT ![f] = t], pc' = [pc EXCEPT ![f] = l]
      PROVE  GradInv'
  <2>0. /\ \A h \in Frame : h # f => pc'[h] = pc[h] /\ task'[h] = task[h]
        /\ pc'[f] = l /\ task'[f] = t
        /\ \A g \in GraphTask : pc'[g] = "none" <=> pc[g] = "none"
    BY <1>0, <1>2, <1>4 DEF Frame
  <2>1. \A g \in GraphTask, n \in Node :
          /\ Incomplete(g, n)' <=> Incomplete(g, n)
          /\ Ready(g, n)' <=> Ready(g, n)
          /\ Untouched(g, n)' <=> Untouched(g, n)
    BY <1>0 DEF Incomplete, Ready, Untouched
  <2>2. Fresh'
    <3> SUFFICES ASSUME NEW g \in GraphTask, pc[g] = "none"
                 PROVE  Empty(g)'
      BY Zenon, <2>0 DEF Fresh
    <3>1. Empty(g)
      BY Zenon DEF GradInv, Fresh
    <3>2. \A h \in Frame : Busy(h)' => task'[h].g # g
      BY <1>2, <2>0, <3>1 DEF Empty, Busy
    <3> QED BY <1>0, <1>h, <3>1, <3>2 DEF Empty
  <2>3. Books'
    BY <1>0, <2>0, <2>1 DEF GradInv, Books, BooksOf
  <2>4. Origin'
    BY <1>0 DEF GradInv, Origin
  <2>5. Unique'
    <3> SUFFICES ASSUME NEW g \in GraphTask, NEW n \in Node
                 PROVE  UniqueFor(g, n)'
      BY Zenon DEF Unique
    <3>1. UniqueFor(g, n)
      BY Zenon DEF GradInv, Unique
    <3>2. \A h \in Frame : Holds(h, g, n)' =>
            Holds(h, g, n) \/ (h = f /\ t.g = g /\ t.fn = n)
      <4> SUFFICES ASSUME NEW h \in Frame, Holds(h, g, n)'
                   PROVE  Holds(h, g, n) \/ (h = f /\ t.g = g /\ t.fn = n)
        OBVIOUS
      <4>1. CASE h = f  BY <2>0, <4>1 DEF Holds
      <4>2. CASE h # f  BY Zenon, <2>0, <4>2 DEF Holds
      <4> QED BY <4>1, <4>2
    <3>3. ASSUME NEW p \in Queue, NEW u \in heap'[p], u.g = g, u.fn = n,
                 t.g = g, t.fn = n
          PROVE  FALSE
      <4>1. p = q /\ u = t
        BY Zenon, <1>2, <1>h, <3>1, <3>3 DEF UniqueFor
      <4> QED BY <1>n, <4>1
    <3> QED BY Zenon, <1>h, <3>1, <3>2, <3>3 DEF UniqueFor
  <2>6. QueuedReady'
    BY <1>2, <1>h, <2>1 DEF GradInv, QueuedReady, NodeTask
  <2>7. HeldReady'
    <3> SUFFICES ASSUME NEW h \in Frame, pc'[h] \in Working, task'[h].fn \in Node,
                        NEW g, NEW n, g = task'[h].g, n = task'[h].fn
                 PROVE  HeldAs(h, g, n)'
      BY DEF HeldReady
    <3>1. CASE h = f
      <4>1. Untouched(g, n) /\ Ready(g, n) /\ g \in GraphTask /\ n \in Node
        BY <1>2, <2>0, <3>1 DEF GradInv, QueuedReady, Untouched
      <4> QED BY <2>0, <2>1, <3>1, <4>1 DEF HeldAs
    <3>2. CASE h # f
      <4>1. pc[h] \in Working /\ task[h].g = g /\ task[h].fn = n /\ g \in GraphTask /\ n \in Node
        BY <2>0, <3>2 DEF TypeOK, NodeTask, Busy
      <4>2. HeldAs(h, g, n)
        BY <4>1 DEF GradInv, HeldReady
      <4> QED BY <1>0, <2>0, <2>1, <3>2, <4>1, <4>2 DEF HeldAs
    <3> QED BY <3>1, <3>2
  <2> QED BY <2>2, <2>3, <2>4, <2>5, <2>6, <2>7 DEF GradInv
<1> QED BY <1>1, <1>3, <1>4

LEMMA EvaluateStep ==
  ASSUME TypeOK, GradInv, NEW f \in Frame, NEW g \in GraphTask, NEW n \in Node,
         g = task[f].g, n = task[f].fn, Evaluate(f)
  PROVE  GradInv'
<1>0. /\ pc[f] = "eval" /\ pc[f] \in Working /\ Busy(f) /\ Holds(f, g, n)
      /\ pc \in [Frame -> Labels] /\ applied \in [GraphTask -> SUBSET Node]
  BY DEF Evaluate, Working, Busy, Holds, TypeOK
<1>u. UNCHANGED <<heap, dependencies, not_ready, inputs, passed, task, edge>>
  BY Zenon DEF Evaluate, graphVars
<1>1. Untouched(g, n) /\ Ready(g, n) /\ ~Incomplete(g, n) /\ n \notin applied[g]
  BY <1>0 DEF GradInv, HeldReady, HeldAs, Untouched, Ready
<1>2. CASE pc' = [pc EXCEPT ![f] = "decrement"] /\ UNCHANGED applied
  <2>1. /\ \A h \in Frame : h # f => pc'[h] = pc[h]
        /\ pc'[f] = "decrement" /\ pc'[f] \notin Evaluating
    BY <1>0, <1>2 DEF Evaluating
  <2>2. /\ \A h \in GraphTask : pc'[h] = "none" <=> pc[h] = "none"
        /\ \A h \in Frame : Busy(h)' => Busy(h) /\ task'[h] = task[h]
        /\ \A h \in Frame : pc'[h] \in Working => pc[h] \in Working
    BY <1>0, <1>u, <2>1 DEF Busy, Frame
  <2>3. \A q \in Queue : \A t \in heap'[q] :
          t \in heap[q] \/ (t.fn = NoNode /\ t.g \in GraphTask /\ pc[t.g] # "none")
    BY <1>u
  <2>4. \A h \in Frame : pc'[h] \in Evaluating =>
          \/ pc'[h] = pc[h] /\ edge'[h] = edge[h]
          \/ pc[h] \in {"apply", "call"} /\ pc'[h] # "eval"
          \/ pc[h] = "propagate" /\ pc'[h] = "propagate" /\ edge'[h] = edge[h] + 1
    BY <1>u, <2>1
  <2>5. UNCHANGED <<dependencies, not_ready, inputs, passed, applied>>
    BY <1>2, <1>u
  <2> QED BY Zenon, <2>2, <2>3, <2>4, <2>5, QuietStep
<1>3. CASE /\ n \in needed[g] /\ pc' = [pc EXCEPT ![f] = "apply"]
           /\ applied' = [applied EXCEPT ![g] = @ \cup {n}]
  <2>0. /\ \A h \in Frame : h # f => pc'[h] = pc[h]
        /\ pc'[f] = "apply" /\ pc'[f] \in Working
        /\ \A h \in GraphTask : pc'[h] = "none" <=> pc[h] = "none"
    BY <1>0, <1>3 DEF Frame, Working
  <2>a. /\ applied'[g] = applied[g] \cup {n}
        /\ \A h \in GraphTask : h # g => applied'[h] = applied[h]
    BY <1>0, <1>3
  <2>b. \A h \in Frame : /\ pc'[h] \in Working <=> pc[h] \in Working
                         /\ Busy(h)' <=> Busy(h)
                         /\ task'[h] = task[h]
    BY <1>0, <1>u, <2>0 DEF Busy
  <2>1. \A k \in GraphTask, m \in Node :
          /\ Incomplete(k, m)' <=> Incomplete(k, m)
          /\ Ready(k, m)' <=> Ready(k, m)
          /\ Holds(f, k, m)' <=> Holds(f, k, m)
          /\ Untouched(k, m) /\ ~(k = g /\ m = n) => Untouched(k, m)'
    BY <1>u, <2>a, <2>b DEF Incomplete, Ready, Untouched, Holds
  <2>2. Fresh'
    <3> SUFFICES ASSUME NEW k \in GraphTask, pc[k] = "none"
                 PROVE  Empty(k)'
      BY Zenon, <2>0 DEF Fresh
    <3>1. Empty(k)
      BY Zenon DEF GradInv, Fresh
    <3>2. k # g
      BY <1>0, <3>1 DEF Empty
    <3> QED BY <1>u, <2>a, <2>b, <3>1, <3>2 DEF Empty
  <2>3. Books'
    <3> SUFFICES ASSUME NEW k \in GraphTask, pc[k] # "none", NEW m \in Node
                 PROVE  BooksOf(k, m)'
      BY Zenon, <2>0 DEF Books
    <3>1. BooksOf(k, m)
      BY DEF GradInv, Books
    <3>2. m \in applied'[k] => ~Incomplete(k, m)
      BY <1>1, <2>a, <3>1 DEF BooksOf
    <3> QED BY <1>u, <2>1, <3>1, <3>2 DEF BooksOf
  <2>4. Origin'
    BY <1>u, <2>a DEF GradInv, Origin
  <2>5. Unique'
    <3>1. \A h \in Frame, k \in GraphTask, m \in Node : Holds(h, k, m)' <=> Holds(h, k, m)
      BY <2>b DEF Holds
    <3> QED BY <1>u, <3>1 DEF GradInv, Unique, UniqueFor
  <2>6. QueuedReady'
    <3> SUFFICES ASSUME NEW q \in Queue, NEW t \in heap[q], t.fn \in Node
                 PROVE  Untouched(t.g, t.fn)'
      BY <1>u DEF QueuedReady
    <3>1. t.g \in GraphTask /\ Untouched(t.g, t.fn)
      BY DEF GradInv, QueuedReady, TypeOK, NodeTask
    <3>2. ~(t.g = g /\ t.fn = n)
      BY <1>0 DEF GradInv, Unique, UniqueFor
    <3> QED BY <2>1, <3>1, <3>2
  <2>7. HeldReady'
    <3> SUFFICES ASSUME NEW h \in Frame, pc[h] \in Working, NEW k, NEW m \in Node,
                        k = task[h].g, m = task[h].fn
                 PROVE  HeldAs(h, k, m)'
      BY <2>b DEF HeldReady
    <3>1. k \in GraphTask /\ HeldAs(h, k, m)
      BY DEF GradInv, HeldReady, TypeOK, NodeTask, Busy
    <3>2. CASE h = f
      <4>1. \A e \in passed[g] : e[1] # n
        BY <1>1 DEF GradInv, Origin
      <4> QED BY <1>1, <1>3, <1>u, <2>0, <2>1, <2>a, <3>2, <4>1 DEF HeldAs, Untouched
    <3>3. CASE h # f
      <4>1. ~(k = g /\ m = n)
        BY <1>0, <3>3 DEF GradInv, Unique, UniqueFor, Holds
      <4> QED BY <1>u, <2>0, <2>1, <2>a, <3>1, <3>3, <4>1 DEF HeldAs
    <3> QED BY <3>2, <3>3
  <2> QED BY <2>2, <2>3, <2>4, <2>5, <2>6, <2>7 DEF GradInv
<1> QED BY <1>2, <1>3 DEF Evaluate, Goto
================================================================================
