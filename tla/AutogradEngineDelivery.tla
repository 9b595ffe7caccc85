------------------------ MODULE AutogradEngineDelivery -------------------------
(***************************************************************************)
(* The steps that put a function into a ready queue keep GradInv: the call *)
(* that queues its root, and evaluate_function handing a gradient to the   *)
(* function at the end of an edge, which changes dependencies_, not_ready_,*)
(* the input buffer and the queue at once.                                 *)
(***************************************************************************)
EXTENDS AutogradEngineGradients

\* A call starts: its root is ready, every other function waits for all of its
\* gradients.
LEMMA EnqueueStep ==
  ASSUME TypeOK, GradInv, NEW g \in GraphTask, NEW from, NEW cpu \in Queue,
         Enqueue(g, from, cpu),
         pc[g] = "none", pc'[g] \in {"loop", "add_to_pool"},
         \A h \in Frame : h # g =>
           pc'[h] = pc[h] \/ (pc[h] = "apply" /\ pc'[h] = "call")
  PROVE  GradInv'
<1> DEFINE r == root[g]
           q == ready_queue(cpu, device[r])
           t == [g |-> g, fn |-> r, by |-> g]
<1>0. /\ r \in Node /\ q \in Queue /\ t \in NodeTask /\ g \in Frame
      /\ heap \in [Queue -> SUBSET NodeTask]
      /\ dependencies \in [GraphTask -> [Node -> Nat]]
  BY CallAssumption, ThreadAssumption DEF TypeOK, ready_queue, Queue, NodeTask, Frame
<1>u. UNCHANGED <<not_ready, inputs, passed, applied, task, edge>>
  BY Zenon DEF Enqueue
<1>h. \A p \in Queue : \A u \in heap'[p] : u \in heap[p] \/ (p = q /\ u = t)
  <2>1. heap' = [heap EXCEPT ![q] = @ \cup {t}]
    BY Zenon DEF Enqueue, push
  <2> QED BY <1>0, <2>1
<1>d. /\ \A n \in Node : dependencies'[g][n] = Cardinality(Awaited(g, n))
      /\ \A k \in GraphTask : k # g => dependencies'[k] = dependencies[k]
  <2>1. dependencies' = [dependencies EXCEPT ![g] = [n \in Node |-> Cardinality(Awaited(g, n))]]
    BY Zenon DEF Enqueue
  <2> QED BY <1>0, <2>1
<1>e. Empty(g)
  BY Zenon DEF GradInv, Fresh
<1>p. /\ \A k \in GraphTask : pc'[k] = "none" <=> pc[k] = "none" /\ k # g
      /\ \A h \in Frame : /\ pc'[h] \in Working <=> pc[h] \in Working
                          /\ Busy(h)' <=> Busy(h)
                          /\ task'[h] = task[h]
  BY <1>u DEF Frame, Busy, Working, Finishing
<1>1. \A k \in GraphTask, n \in Node :
        /\ Incomplete(k, n)' <=> Incomplete(k, n)
        /\ Ready(k, n)' <=> Ready(k, n)
        /\ Untouched(k, n)' <=> Untouched(k, n)
  BY <1>u DEF Incomplete, Ready, Untouched
<1>2. Fresh'
  <2> SUFFICES ASSUME NEW k \in GraphTask, pc[k] = "none", k # g
               PROVE  Empty(k)'
    BY Zenon, <1>p DEF Fresh
  <2>1. Empty(k)
    BY Zenon DEF GradInv, Fresh
  <2>2. \A p \in Queue : \A u \in heap'[p] : u.g # k
    BY <1>h, <2>1 DEF Empty
  <2> QED BY <1>u, <1>p, <2>1, <2>2 DEF Empty
<1>3. Books'
  <2> SUFFICES ASSUME NEW k \in GraphTask, pc'[k] # "none", NEW n \in Node
               PROVE  BooksOf(k, n)'
    BY Zenon DEF Books
  <2>1. CASE k = g
    <3>1. Awaited(g, n) \ passed[g] = Awaited(g, n)
      BY <1>e DEF Empty
    <3> QED BY Zenon, <1>d, <1>e, <1>u, <2>1, <3>1 DEF BooksOf, Empty
  <2>2. CASE k # g
    <3>1. BooksOf(k, n)
      BY <1>p, <2>2 DEF GradInv, Books
    <3> QED BY <1>d, <1>u, <1>1, <2>2, <3>1 DEF BooksOf
  <2> QED BY <2>1, <2>2
<1>4. Origin'
  BY <1>u DEF GradInv, Origin
<1>5. Unique'
  <2> SUFFICES ASSUME NEW k \in GraphTask, NEW n \in Node
               PROVE  UniqueFor(k, n)'
    BY Zenon DEF Unique
  <2>1. UniqueFor(k, n)
    BY Zenon DEF GradInv, Unique
  <2>2. \A f \in Frame : Holds(f, k, n)' <=> Holds(f, k, n)
    BY <1>p DEF Holds
  <2>3. CASE k = g
    <3>1. \A p \in Queue : \A u \in heap'[p] : u.g = g => p = q /\ u = t
      BY <1>e, <1>h DEF Empty
    <3>2. \A f \in Frame : ~Holds(f, g, n)
      BY <1>e DEF Empty, Holds, Busy
    <3> QED BY <2>2, <2>3, <3>1, <3>2 DEF UniqueFor
  <2>4. CASE k # g
    <3>1. \A p \in Queue : \A u \in heap'[p] : u.g = k => u \in heap[p]
      BY <1>h, <2>4
    <3> QED BY <2>1, <2>2, <3>1 DEF UniqueFor
  <2> QED BY <2>3, <2>4
<1>6. QueuedReady'
  <2> SUFFICES ASSUME NEW p \in Queue, NEW u \in heap'[p], u.fn \in Node
               PROVE  Untouched(u.g, u.fn)'
    BY Zenon DEF QueuedReady
  <2>1. CASE u = t
    <3>1. Awaited(g, r) = {}
      BY RootWaitsForNothing
    <3>2. r \in needed[g] => r \in ExpandedBy[g]
      BY NeededIsNumbered, ExpandedIsClosed
    <3>3. Untouched(g, r)
      BY <1>0, <1>e, <3>1, <3>2 DEF Untouched, Ready, Incomplete, Empty
    <3> QED BY <1>0, <1>1, <2>1, <3>3
  <2>2. CASE u \in heap[p]
    <3>1. u.g \in GraphTask /\ Untouched(u.g, u.fn)
      BY <1>0, <2>2 DEF GradInv, QueuedReady, NodeTask
    <3> QED BY <1>1, <3>1
  <2> QED BY <1>h, <2>1, <2>2
<1>7. HeldReady'
  <2> SUFFICES ASSUME NEW h \in Frame, pc[h] \in Working, NEW k, NEW m \in Node,
                      k = task[h].g, m = task[h].fn
               PROVE  HeldAs(h, k, m)'
    BY <1>p DEF HeldReady
  <2>1. k \in GraphTask /\ HeldAs(h, k, m)
    BY DEF GradInv, HeldReady, TypeOK, NodeTask, Busy
  <2>2. pc'[h] = pc[h] \/ (pc[h] = "apply" /\ pc'[h] = "call")
    BY DEF Working
  <2> QED BY <1>1, <1>u, <2>1, <2>2 DEF HeldAs
<1> QED BY <1>2, <1>3, <1>4, <1>5, <1>6, <1>7 DEF GradInv

------------------------------------------------------------------------------
\* Frame f, in function n of pass g, hands the gradient of edge e to m.
Delivers(f, g, n, i, m, e, q, t) ==
  /\ g = task[f].g /\ n = task[f].fn /\ i = edge[f]
  /\ i \in 1..Len(next_edges[n]) /\ m = next_edges[n][i]
  /\ e = <<n, i>>
  /\ q = ready_queue(cpu_ready_queue[g], device[m])
  /\ t = [g |-> g, fn |-> m, by |-> f]
  /\ pc[f] = "propagate" /\ dependencies[g][m] # 0
  /\ Deliver(f, g, e, m) /\ NextEdge(f) /\ UNCHANGED <<task, applied>>

LEMMA DeliverStep ==
  ASSUME TypeOK, GradInv, NEW f \in Frame, NEW g \in GraphTask, NEW n \in Node,
         NEW i, NEW m \in Node, NEW e, NEW q \in Queue, NEW t,
         Delivers(f, g, n, i, m, e, q, t)
  PROVE  GradInv'
<1> DEFINE accumulate == m \in not_ready[g] \/ m \in should_execute[g]
\* ---- before the step
<1>s. /\ g = task[f].g /\ n = task[f].fn /\ pc[f] = "propagate"
      /\ task' = task /\ applied' = applied
  BY Zenon DEF Delivers
<1>i. i \in 1..Len(next_edges[n]) /\ i = edge[f] /\ m = next_edges[n][i] /\ e = <<n, i>>
  BY Zenon DEF Delivers
<1>t. t = [g |-> g, fn |-> m, by |-> f]
  BY Zenon DEF Delivers
<1>f. /\ Holds(f, g, n) /\ Busy(f) /\ pc[f] \in Working
      /\ i \in Nat /\ e[1] = n /\ e[2] = i
      /\ t \in NodeTask /\ t.g = g /\ t.fn = m
  <2>1. i \in Nat
    BY <1>i, NextEdges
  <2> QED BY <1>s, <1>i, <1>t, <2>1 DEF Holds, Busy, Working, NodeTask
<1>y. /\ heap \in [Queue -> SUBSET NodeTask] /\ pc \in [Frame -> Labels]
      /\ dependencies \in [GraphTask -> [Node -> Nat]] /\ not_ready \in [GraphTask -> SUBSET Node]
      /\ inputs \in [GraphTask -> [Node -> SUBSET Edge]] /\ passed \in [GraphTask -> SUBSET Edge]
      /\ edge \in [Frame -> Nat]
  BY Zenon DEF TypeOK
<1>a. HeldAs(f, g, n)
  BY <1>s, <1>f DEF GradInv, HeldReady
<1>b. n \in ExpandedBy[g] /\ n \in applied[g] /\ e \notin passed[g]
  BY <1>s, <1>i, <1>a, <1>f DEF HeldAs, Ready
<1>c. \A k \in Node : e \in Awaited(g, k) <=> k = m
  <2>1. m # NoNode
    BY GraphAssumption
  <2> QED BY <1>i, <1>b, <2>1, EdgeIsAwaited
<1>d. Incomplete(g, m)
  BY <1>b, <1>c DEF Incomplete
<1>n. pc[g] # "none"
  BY <1>s, <1>f DEF GradInv, Fresh, Empty
<1>k. BooksOf(g, m)
  BY <1>n DEF GradInv, Books
<1>l. m \notin applied[g]
  BY <1>d, <1>k DEF BooksOf
\* ---- the step
<1>pc. /\ \A h \in Frame : h # f => pc'[h] = pc[h] /\ edge'[h] = edge[h]
       /\ \/ pc'[f] = "decrement"
          \/ pc'[f] = "propagate" /\ edge'[f] = i + 1
  <2>1. NextEdge(f) /\ i = edge[f] /\ pc[f] = "propagate"
    BY Zenon DEF Delivers
  <2> QED BY <1>y, <2>1 DEF NextEdge, Goto
<1>D. Deliver(f, g, e, m) /\ q = ready_queue(cpu_ready_queue[g], device[m])
  BY Zenon DEF Delivers
<1>p. /\ passed'[g] = passed[g] \cup {e}
      /\ \A k \in GraphTask : k # g => passed'[k] = passed[k]
  <2>1. passed' = [passed EXCEPT ![g] = @ \cup {e}]
    BY Zenon, <1>D DEF Deliver
  <2> QED BY <1>y, <2>1
<1>dep. /\ dependencies'[g][m] = dependencies[g][m] - 1
        /\ \A k \in GraphTask, j \in Node :
             ~(k = g /\ j = m) => dependencies'[k][j] = dependencies[k][j]
  <2>1. dependencies' = [dependencies EXCEPT ![g] = [dependencies[g] EXCEPT ![m] = @ - 1]]
    BY Zenon, <1>D DEF Deliver
  <2> QED BY <1>y, <2>1
<1>in. /\ accumulate =>
            inputs'[g][m] = (IF m \in not_ready[g] THEN inputs[g][m] ELSE {}) \cup {e}
       /\ \A k \in GraphTask, j \in Node : ~(k = g /\ j = m) => inputs'[k][j] = inputs[k][j]
       /\ \A k \in GraphTask : k # g => inputs'[k] = inputs[k]
  <2> DEFINE new == (IF m \in not_ready[g] THEN inputs[g][m] ELSE {}) \cup {e}
  <2>1. inputs' = IF accumulate THEN [inputs EXCEPT ![g] = [inputs[g] EXCEPT ![m] = new]]
                  ELSE inputs
    BY Zenon, <1>D DEF Deliver
  <2>2. CASE accumulate
    <3> HIDE DEF new, accumulate
    <3>1. inputs' = [inputs EXCEPT ![g] = [inputs[g] EXCEPT ![m] = new]]
      BY Zenon, <2>1, <2>2
    <3>2. /\ inputs'[g][m] = new
          /\ \A k \in GraphTask, j \in Node : ~(k = g /\ j = m) => inputs'[k][j] = inputs[k][j]
          /\ \A k \in GraphTask : k # g => inputs'[k] = inputs[k]
      BY <1>y, <3>1
    <3> QED BY <3>2 DEF new
  <2>3. CASE ~accumulate
    BY Zenon, <2>1, <2>3
  <2> QED BY <2>2, <2>3
<1>nr. /\ accumulate /\ dependencies[g][m] = 1 => m \notin not_ready'[g]
       /\ accumulate /\ dependencies[g][m] # 1 => m \in not_ready'[g]
       /\ ~accumulate => m \notin not_ready'[g]
       /\ \A k \in GraphTask, j \in Node :
            ~(k = g /\ j = m) => (j \in not_ready'[k] <=> j \in not_ready[k])
       /\ \A k \in GraphTask : k # g => not_ready'[k] = not_ready[k]
  <2>1. \/ /\ accumulate /\ dependencies[g][m] = 1
           /\ not_ready' = [not_ready EXCEPT ![g] = @ \ {m}]
        \/ /\ accumulate /\ dependencies[g][m] # 1
           /\ not_ready' = [not_ready EXCEPT ![g] = @ \cup {m}]
        \/ /\ ~accumulate
           /\ not_ready' = not_ready
    BY Zenon, <1>D DEF Deliver
  <2> QED BY <1>y, <2>1
<1>h. \A p \in Queue : \A u \in heap'[p] :
        u \in heap[p] \/ (p = q /\ u = t /\ accumulate /\ dependencies[g][m] = 1)
  <2>1. \/ accumulate /\ dependencies[g][m] = 1 /\ heap' = [heap EXCEPT ![q] = @ \cup {t}]
        \/ heap' = heap
    BY Zenon, <1>D, <1>t DEF Deliver, push
  <2> HIDE DEF accumulate
  <2> QED BY <1>y, <2>1
\* ---- the books of m and of the others
<1>1. /\ dependencies'[g][m] = Cardinality(Awaited(g, m) \ passed'[g])
      /\ Incomplete(g, m)' <=> dependencies[g][m] # 1
  <2> DEFINE A == Awaited(g, m) \ passed[g]
  <2>1. IsFiniteSet(A) /\ e \in A /\ dependencies[g][m] = Cardinality(A)
    BY <1>b, <1>c, <1>k, FiniteAwaited, FS_Subset DEF BooksOf
  <2>2. A \ {e} = Awaited(g, m) \ passed'[g]
    BY <1>p
  <2> HIDE DEF A
  <2>3. IsFiniteSet(A \ {e}) /\ Cardinality(A \ {e}) = Cardinality(A) - 1
    BY Zenon, <2>1, FS_RemoveElement
  <2>4. A \ {e} = {} <=> Cardinality(A \ {e}) = 0
    BY Zenon, <2>3, FS_EmptySet
  <2>5. Incomplete(g, m)' <=> A \ {e} # {}
    BY <2>2 DEF Incomplete
  <2>6. Cardinality(A) \in Nat
    BY <2>1, FS_CardinalityType
  <2> QED BY <1>dep, <2>1, <2>2, <2>3, <2>4, <2>5, <2>6
<1>2. \A k \in GraphTask, j \in Node : ~(k = g /\ j = m) =>
        /\ Incomplete(k, j)' <=> Incomplete(k, j)
        /\ Awaited(k, j) \ passed'[k] = Awaited(k, j) \ passed[k]
        /\ Awaited(k, j) \cap passed'[k] = Awaited(k, j) \cap passed[k]
  BY <1>c, <1>p DEF Incomplete
<1>3. accumulate => /\ m \in should_execute[g]
                    /\ inputs'[g][m] = Awaited(g, m) \cap passed'[g]
  BY <1>c, <1>d, <1>k, <1>p, <1>in DEF BooksOf
<1>4. \A k \in GraphTask, j \in Node : Ready(k, j) => ~(k = g /\ j = m) /\ Ready(k, j)'
  BY <1>d, <1>2 DEF Ready
<1>5. \A k \in GraphTask, j \in Node : Untouched(k, j) => Untouched(k, j)'
  BY <1>s, <1>4, <1>in DEF Untouched
<1>6. accumulate /\ dependencies[g][m] = 1 => Untouched(g, m)'
  <2> SUFFICES ASSUME accumulate, dependencies[g][m] = 1 PROVE Untouched(g, m)'
    OBVIOUS
  <2>1. m \in needed[g] => m \in ExpandedBy[g]
    BY <1>i, <1>b, NeededIsNumbered, ExpandedIsClosed, SuccOfEdge, GraphAssumption
  <2>2. ~Incomplete(g, m)'
    BY <1>1
  <2>3. inputs'[g][m] = Awaited(g, m)
    BY <1>3, <2>2 DEF Incomplete
  <2> QED BY <1>s, <1>l, <2>1, <2>2, <2>3 DEF Untouched, Ready
\* ---- the invariant
<1>7. Fresh'
  <2> SUFFICES ASSUME NEW k \in GraphTask, pc'[k] = "none"
               PROVE  Empty(k)'
    BY Zenon DEF Fresh
  <2>1. pc[k] = "none" /\ k # g
    BY <1>n, <1>pc DEF Frame
  <2>2. Empty(k)
    BY Zenon, <2>1 DEF GradInv, Fresh
  <2>3. \A p \in Queue : \A u \in heap'[p] : u.g # k
    BY <1>f, <1>h, <2>1, <2>2 DEF Empty
  <2>4. \A h \in Frame : Busy(h)' => Busy(h)
    BY <1>f, <1>pc DEF Busy
  <2> QED BY <1>s, <1>in, <1>nr, <1>p, <2>1, <2>2, <2>3, <2>4 DEF Empty
<1>8. Books'
  <2> SUFFICES ASSUME NEW k \in GraphTask, pc'[k] # "none", NEW j \in Node
               PROVE  BooksOf(k, j)'
    BY Zenon DEF Books
  <2>1. CASE k = g /\ j = m
    <3>1. BooksOf(g, m)'
      BY <1>s, <1>1, <1>3, <1>l, <1>nr DEF BooksOf
    <3> QED BY <2>1, <3>1
  <2>2. CASE ~(k = g /\ j = m)
    <3>1. BooksOf(k, j)
      BY <1>s, <1>f, <1>pc DEF GradInv, Books, Frame
    <3>2. /\ dependencies'[k][j] = dependencies[k][j] /\ inputs'[k][j] = inputs[k][j]
          /\ j \in not_ready'[k] <=> j \in not_ready[k]
          /\ Incomplete(k, j)' <=> Incomplete(k, j)
          /\ Awaited(k, j) \ passed'[k] = Awaited(k, j) \ passed[k]
          /\ Awaited(k, j) \cap passed'[k] = Awaited(k, j) \cap passed[k]
      BY Zenon, <1>2, <1>dep, <1>in, <1>nr, <2>2
    <3> QED BY Zenon, <1>s, <3>1, <3>2 DEF BooksOf
  <2> QED BY <2>1, <2>2
<1>9. Origin'
  BY <1>s, <1>b, <1>f, <1>p DEF GradInv, Origin
<1>10. Unique'
  <2> SUFFICES ASSUME NEW k \in GraphTask, NEW j \in Node
               PROVE  UniqueFor(k, j)'
    BY Zenon DEF Unique
  <2>1. UniqueFor(k, j)
    BY Zenon DEF GradInv, Unique
  <2>2. \A h \in Frame : Holds(h, k, j)' => Holds(h, k, j)
    BY <1>s, <1>f, <1>pc DEF Holds
  <2>3. CASE k = g /\ j = m
    <3>1. \A p \in Queue : \A u \in heap[p] : ~(u.g = g /\ u.fn = m)
      BY <1>4 DEF GradInv, QueuedReady, Untouched
    <3>2. \A h \in Frame : ~Holds(h, g, m)
      BY <1>4 DEF GradInv, HeldReady, HeldAs, Holds
    <3>3. \A p \in Queue : \A u \in heap'[p] : u.g = g /\ u.fn = m => p = q /\ u = t
      BY <1>h, <3>1
    <3> QED BY <2>2, <2>3, <3>2, <3>3 DEF UniqueFor
  <2>4. CASE ~(k = g /\ j = m)
    <3>1. \A p \in Queue : \A u \in heap'[p] : u.g = k /\ u.fn = j => u \in heap[p]
      BY <1>f, <1>h, <2>4
    <3> QED BY <2>1, <2>2, <3>1 DEF UniqueFor
  <2> QED BY <2>3, <2>4
<1>11. QueuedReady'
  <2> SUFFICES ASSUME NEW p \in Queue, NEW u \in heap'[p], u.fn \in Node
               PROVE  Untouched(u.g, u.fn)'
    BY Zenon DEF QueuedReady
  <2>1. CASE u = t /\ accumulate /\ dependencies[g][m] = 1
    BY <1>f, <1>6, <2>1
  <2>2. CASE u \in heap[p]
    <3>1. u.g \in GraphTask /\ Untouched(u.g, u.fn)
      BY <1>y, <2>2 DEF GradInv, QueuedReady, NodeTask
    <3> QED BY <1>5, <3>1
  <2> QED BY <1>h, <2>1, <2>2
<1>12. HeldReady'
  <2> SUFFICES ASSUME NEW h \in Frame, pc[h] \in Working, NEW k, NEW j \in Node,
                      k = task[h].g, j = task[h].fn
               PROVE  HeldAs(h, k, j)'
    BY <1>s, <1>f, <1>pc DEF HeldReady
  <2>1. k \in GraphTask /\ HeldAs(h, k, j)
    BY DEF GradInv, HeldReady, TypeOK, NodeTask, Busy
  <2>2. CASE h = f
    <3>1. \A d \in passed'[g] : d[1] = n => d[2] < i + 1
      <4> SUFFICES ASSUME NEW d \in passed'[g], d[1] = n PROVE d[2] < i + 1
        OBVIOUS
      <4>1. CASE d = e
        BY <1>f, <4>1
      <4>2. CASE d \in passed[g]
        <5>1. d[2] \in Nat /\ d[2] < i
          <6>1. d \in Edge
            BY <1>y, <4>2
          <6>2. d[2] < i
            BY <1>s, <1>i, <1>a, <4>2 DEF HeldAs
          <6> QED BY <6>1, <6>2 DEF Edge
        <5> QED BY <1>f, <5>1
      <4> QED BY <1>p, <4>1, <4>2
    <3>2. Ready(g, n)' /\ n \in needed[g] /\ n \in applied'[g]
      BY <1>s, <1>4, <1>a DEF HeldAs
    <3> QED BY <1>s, <1>pc, <2>2, <3>1, <3>2 DEF HeldAs
  <2>3. CASE h # f
    <3>1. ~(k = g /\ j = n)
      BY <1>f, <2>3 DEF GradInv, Unique, UniqueFor, Holds
    <3>2. \A d \in passed'[k] : d[1] = j => d \in passed[k]
      BY <1>f, <1>p, <2>1, <3>1
    <3>3. inputs'[k][j] = inputs[k][j] /\ Ready(k, j)'
      BY Zenon, <1>4, <1>in, <2>1 DEF HeldAs
    <3> QED BY <1>s, <1>5, <1>pc, <2>1, <2>3, <3>2, <3>3 DEF HeldAs
  <2> QED BY <2>2, <2>3
<1> QED BY <1>7, <1>8, <1>9, <1>10, <1>11, <1>12 DEF GradInv
================================================================================
