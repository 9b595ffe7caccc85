------------------------- MODULE AutogradEngineTypes -------------------------
(***************************************************************************)
(* The inductive invariant of AutogradEngine that its theorems rest on,    *)
(* and the proof that every step keeps the types: who a call returns to,   *)
(* what the pool's queue holds, and that outstanding_tasks_ is never       *)
(* smaller than the number of tasks in queues and in threads' hands.       *)
(***************************************************************************)
EXTENDS AutogradEngine, FiniteSetTheorems, TLAPS

(***************************************************************************)
(* The inductive invariant.                                                *)
(***************************************************************************)

\* A frame that made a reentrant call waits for it, for that call alone.
CallsNest ==
  /\ \A g \in executing : /\ parent[g] \in Frame => pc[parent[g]] = "call"
                          /\ parent[g] # NoTask
                          /\ pc[g] # "none"
  /\ \A g, h \in executing : parent[g] = parent[h] => g = h
  /\ \A g \in GraphTask \ pooled : pc[g] \notin {"none", "exited"} => g \in executing
  /\ \A g \in GraphTask : pc[g] \in {"add_to_pool", "queued"} => g \in pooled

\* The pool's queue holds graph tasks that no thread drives, each once.
PoolQueue ==
  /\ \A i \in 1..Len(graphtasks_queue) : pc[graphtasks_queue[i]] = "queued"
  /\ \A i, j \in 1..Len(graphtasks_queue) :
       graphtasks_queue[i] = graphtasks_queue[j] => i = j

\* A frame that evaluates has a function, and its loop over the function's
\* outputs stays within them.
Evaluation ==
  \A f \in Frame :
    /\ pc[f] \in {"eval", "apply", "call", "propagate"} => task[f].fn \in Node
    /\ pc[f] = "propagate" => edge[f] \in 1..Len(next_edges[task[f].fn])

\* The units of outstanding_tasks_ of g that somebody will give back.
Tokens(g) ==
  {p \in Queue \X NodeTask : p[2] \in heap[p[1]] /\ p[2].g = g}
    \cup {p \in Frame \X {NoTask} : pc[p[1]] \in Working /\ task[p[1]].g = g}

Counted == \A g \in GraphTask : Cardinality(Tokens(g)) <= outstanding_tasks[g]

IInv == TypeOK /\ CallsNest /\ PoolQueue /\ Evaluation /\ Counted

------------------------------------------------------------------------------
LEMMA NextEdges ==
  ASSUME NEW n \in Node
  PROVE  /\ next_edges[n] \in Seq(Node \cup {NoNode})
         /\ Len(next_edges[n]) \in Nat
         /\ DOMAIN next_edges[n] = 1..Len(next_edges[n])
BY GraphAssumption

\* What a frame holds while it works on a task.
LEMMA TaskOf ==
  ASSUME TypeOK, Evaluation, NEW f \in Frame, Busy(f)
  PROVE  /\ task[f] \in NodeTask
         /\ task[f].g \in GraphTask
         /\ task[f].fn \in Node \cup {NoNode}
         /\ pc[f] \in {"eval", "apply", "call", "propagate"} => task[f].fn \in Node
BY DEF TypeOK, NodeTask, Evaluation

\* The queues a frame uses.
LEMMA QueueOf ==
  ASSUME TypeOK, NEW f \in Frame
  PROVE  /\ local_ready_queue(f) \in Queue
         /\ worker_device(f) \in Device \cup {CPU_DEVICE}
         /\ \A g \in GraphTask, d \in Device \cup {CPU_DEVICE} :
              ready_queue(cpu_ready_queue[g], d) \in Queue
BY DEF TypeOK, local_ready_queue, worker_device, ready_queue, Frame, Queue

\* A working frame holds a unit of outstanding_tasks_.
LEMMA FiniteTokens ==
  ASSUME NEW g \in GraphTask
  PROVE  IsFiniteSet(Tokens(g))
<1>1. IsFiniteSet(Frame) /\ IsFiniteSet(Queue)
  BY Zenon, FS_Union, ThreadAssumption DEF Frame, Queue
<1>2. IsFiniteSet(NodeTask)
  <2> DEFINE P == (GraphTask \X (Node \cup {NoNode})) \X Frame
             F == [p \in P |-> [g |-> p[1][1], fn |-> p[1][2], by |-> p[2]]]
  <2>1. IsFiniteSet(Node \cup {NoNode})
    BY FS_AddElement, GraphAssumption
  <2>2. IsFiniteSet(P)
    BY Zenon, <1>1, <2>1, FS_Product, ThreadAssumption
  <2>3. F \in Surjection(P, NodeTask)
    <3>1. F \in [P -> NodeTask]
      BY DEF NodeTask
    <3>2. ASSUME NEW t \in NodeTask PROVE \E p \in P : F[p] = t
      <4> DEFINE p == <<<<t.g, t.fn>>, t.by>>
      <4>1. p \in P /\ F[p] = [g |-> t.g, fn |-> t.fn, by |-> t.by]
        BY DEF NodeTask
      <4>2. t = [g |-> t.g, fn |-> t.fn, by |-> t.by]
        BY DEF NodeTask
      <4> QED BY <4>1, <4>2
    <3> QED BY <3>1, <3>2 DEF Surjection
  <2> QED BY <2>2, <2>3, FS_Surjection
<1>3. IsFiniteSet(Queue \X NodeTask) /\ IsFiniteSet(Frame \X {NoTask})
  BY Zenon, <1>1, <1>2, FS_Product, FS_Singleton
<1>4. IsFiniteSet((Queue \X NodeTask) \cup (Frame \X {NoTask}))
  BY Zenon, <1>3, FS_Union
<1> QED BY <1>4, FS_Subset DEF Tokens

LEMMA WorkingHoldsUnit ==
  ASSUME TypeOK, Evaluation, Counted, NEW f \in Frame, pc[f] \in Working
  PROVE  outstanding_tasks[task[f].g] > 0
<1> DEFINE g == task[f].g
<1>1. g \in GraphTask
  BY TaskOf DEF Busy
<1>2. <<f, NoTask>> \in Tokens(g)
  BY DEF Tokens
<1>3. Cardinality(Tokens(g)) # 0 /\ Cardinality(Tokens(g)) \in Nat
  BY <1>1, <1>2, FiniteTokens, FS_EmptySet, FS_CardinalityType
<1>4. Cardinality(Tokens(g)) <= outstanding_tasks[g] /\ outstanding_tasks[g] \in Nat
  BY <1>1 DEF Counted, TypeOK
<1> QED BY <1>3, <1>4

\* A graph has finitely many edges, so the dependency counts are numbers.
LEMMA FiniteEdges ==
  ASSUME NEW S \in SUBSET Node
  PROVE  IsFiniteSet(Edges(next_edges, S))
<1> DEFINE F == [n \in S |-> {n} \X DOMAIN next_edges[n]]
           T == {{n} \X DOMAIN next_edges[n] : n \in S}
<1>1. IsFiniteSet(S)
  BY FS_Subset, GraphAssumption
<1>2. F \in Surjection(S, T)
  BY Zenon DEF Surjection
<1>3. IsFiniteSet(T)
  BY <1>1, <1>2, FS_Surjection
<1>4. ASSUME NEW U \in T PROVE IsFiniteSet(U)
  <2>1. PICK n \in S : U = {n} \X DOMAIN next_edges[n]
    OBVIOUS
  <2>2. Len(next_edges[n]) \in Nat /\ DOMAIN next_edges[n] = 1..Len(next_edges[n])
    BY NextEdges
  <2>3. IsFiniteSet(DOMAIN next_edges[n])
    BY <2>2, FS_Interval
  <2> QED BY Zenon, <2>1, <2>3, FS_Product, FS_Singleton
<1>5. IsFiniteSet(UNION T)
  BY Zenon, <1>3, <1>4, FS_UNION
<1> QED BY <1>5, FS_Subset DEF Edges

LEMMA FiniteAwaited ==
  ASSUME NEW g \in GraphTask, NEW n
  PROVE  /\ Awaited(g, n) \subseteq Edge
         /\ IsFiniteSet(Awaited(g, n))
         /\ Cardinality(Awaited(g, n)) \in Nat
<1>1. ExpandedBy[g] \subseteq Node
  BY GraphAssumption DEF ExpandedBy, Expanded
<1>2. IsFiniteSet(Awaited(g, n))
  BY <1>1, FiniteEdges, FS_Subset DEF Awaited, InEdges
<1>3. Awaited(g, n) \subseteq Edge
  BY <1>1, GraphAssumption DEF Awaited, InEdges, Edges, Edge
<1> QED BY <1>2, <1>3, FS_CardinalityType

------------------------------------------------------------------------------
(***************************************************************************)
(* Every step keeps the types.                                             *)
(***************************************************************************)
LEMMA TypePush ==
  ASSUME heap \in [Queue -> SUBSET NodeTask], outstanding_tasks \in [GraphTask -> Nat],
         NEW q \in Queue, NEW t \in NodeTask, push(q, t)
  PROVE  heap' \in [Queue -> SUBSET NodeTask] /\ outstanding_tasks' \in [GraphTask -> Nat]
<1>1. heap[q] \cup {t} \in SUBSET NodeTask /\ t.g \in GraphTask
  BY DEF NodeTask
<1>2. heap' \in [Queue -> SUBSET NodeTask]
  BY <1>1 DEF push
<1>3. outstanding_tasks' \in [GraphTask -> Nat]
  BY <1>1 DEF push
<1> QED BY <1>2, <1>3

LEMMA TypeNextEdge ==
  ASSUME mutex \in [GraphTask -> Frame \cup {NoTask}], edge \in [Frame -> Nat],
         NEW f \in Frame, task[f].g \in GraphTask, NextEdge(f)
  PROVE  mutex' \in [GraphTask -> Frame \cup {NoTask}] /\ edge' \in [Frame -> Nat]
<1>1. mutex' = mutex \/ mutex' = [mutex EXCEPT ![task[f].g] = NoTask]
  BY DEF NextEdge
<1>2. edge' = [edge EXCEPT ![f] = @ + 1] \/ edge' = [edge EXCEPT ![f] = 0]
  BY DEF NextEdge
<1>3. mutex' \in [GraphTask -> Frame \cup {NoTask}]
  BY <1>1
<1>4. edge' \in [Frame -> Nat]
  BY <1>2
<1> QED BY <1>3, <1>4

LEMMA TypeEnqueue ==
  ASSUME IInv, NEW g \in GraphTask, NEW from \in Frame \cup User,
         NEW cpu \in Queue, Enqueue(g, from, cpu)
  PROVE  /\ heap' \in [Queue -> SUBSET NodeTask]
         /\ outstanding_tasks' \in [GraphTask -> Nat]
         /\ dependencies' \in [GraphTask -> [Node -> Nat]]
         /\ executing' \subseteq GraphTask
         /\ parent' \in [GraphTask -> Frame \cup User \cup {NoTask}]
         /\ cpu_ready_queue' \in [GraphTask -> Queue]
<1> DEFINE t == [g |-> g, fn |-> root[g], by |-> g]
           q == ready_queue(cpu, device[root[g]])
<1>1. t \in NodeTask /\ q \in Queue
  BY CallAssumption, ThreadAssumption DEF NodeTask, Frame, Queue, ready_queue
<1>2. heap' = [heap EXCEPT ![q] = @ \cup {t}] /\ outstanding_tasks' = [outstanding_tasks EXCEPT ![g] = @ + 1]
  BY DEF Enqueue, push
<1>3. [n \in Node |-> Cardinality(Awaited(g, n))] \in [Node -> Nat]
  BY FiniteAwaited
<1> QED BY <1>1, <1>2, <1>3 DEF Enqueue, IInv, TypeOK

LEMMA TypeCalls ==
  ASSUME IInv, NEW g \in GraphTask
  PROVE  /\ \A u \in User : Execute(u, g) => TypeOK'
         /\ \A f \in Frame : ReentrantExecute(f, g) => TypeOK'
         /\ AddThreadPoolTask(g) => TypeOK'
         /\ WaitReturns(g) => TypeOK'
<1> USE NoTaskAssumption, ThreadAssumption
<1>0. TypeOK /\ CallsNest
  BY DEF IInv
<1>1. ASSUME NEW u \in User, Execute(u, g) PROVE TypeOK'
  <2>1. Enqueue(g, u, u) /\ u \in Queue
    BY <1>1 DEF Execute, Queue
  <2>2. /\ heap' \in [Queue -> SUBSET NodeTask]
        /\ outstanding_tasks' \in [GraphTask -> Nat]
        /\ dependencies' \in [GraphTask -> [Node -> Nat]]
        /\ executing' \subseteq GraphTask
        /\ parent' \in [GraphTask -> Frame \cup User \cup {NoTask}]
        /\ cpu_ready_queue' \in [GraphTask -> Queue]
    BY <2>1, TypeEnqueue
  <2>3. pc' = [pc EXCEPT ![g] = "loop"] /\ pc[g] = "none" /\ task' = task
    BY <1>1 DEF Execute, Enqueue, Goto
  <2>4. pc' \in [Frame -> Labels] /\ \A h \in Frame : (Busy(h) <=> task[h] # NoTask)'
    BY Zenon, <1>0, <2>3 DEF TypeOK, Busy, Labels, Working, Finishing, Frame
  <2> QED BY Zenon, <1>0, <1>1, <2>2, <2>4 DEF TypeOK, Execute, Enqueue, poolVars
<1>2. ASSUME NEW f \in Frame, ReentrantExecute(f, g) PROVE TypeOK'
  <2>1. Enqueue(g, f, local_ready_queue(f)) /\ local_ready_queue(f) \in Queue
        /\ worker_device(f) \in Device \cup {CPU_DEVICE}
    BY <1>0, <1>2, QueueOf DEF ReentrantExecute
  <2>2. /\ heap' \in [Queue -> SUBSET NodeTask]
        /\ outstanding_tasks' \in [GraphTask -> Nat]
        /\ dependencies' \in [GraphTask -> [Node -> Nat]]
        /\ executing' \subseteq GraphTask
        /\ parent' \in [GraphTask -> Frame \cup User \cup {NoTask}]
        /\ cpu_ready_queue' \in [GraphTask -> Queue]
    BY <2>1, TypeEnqueue
  <2>3. PICK l \in {"loop", "add_to_pool"} : pc' = [pc EXCEPT ![f] = "call", ![g] = l]
    BY <1>2 DEF ReentrantExecute
  <2>4. pc' \in [Frame -> Labels] /\ \A h \in Frame : (Busy(h) <=> task[h] # NoTask)'
    <3>1. pc[g] = "none" /\ pc[f] = "apply" /\ task' = task /\ f # g
      BY <1>2 DEF ReentrantExecute, Enqueue
    <3>2. pc \in [Frame -> Labels] /\ g \in Frame
      BY <1>0 DEF TypeOK, Frame
    <3>3. pc' \in [Frame -> Labels]
      BY <2>3, <3>2 DEF Labels, Working, Finishing
    <3>4. \A h \in Frame : Busy(h)' <=> Busy(h)
      BY <2>3, <3>1, <3>2 DEF Busy, Working, Finishing
    <3> QED BY <1>0, <3>1, <3>3, <3>4 DEF TypeOK
  <2>5. total_depth(f) \in Nat /\ nested_calls(f) \in Nat
    BY <1>0 DEF TypeOK, total_depth, nested_calls, Frame
  <2>6. /\ owner' \in [GraphTask -> Device \cup {CPU_DEVICE}]
        /\ reentrant_depth' \in [GraphTask -> Nat]
    BY <1>0, <1>2, <2>1, <2>5 DEF TypeOK, ReentrantExecute
  <2>7. /\ mutex' = mutex \/ mutex' = [mutex EXCEPT ![g] = f]
        /\ pooled' = pooled \/ pooled' = pooled \cup {g}
        /\ \/ current_depth' = current_depth
           \/ current_depth' = [current_depth EXCEPT ![g] = nested_calls(f) + 1]
    BY <1>2 DEF ReentrantExecute
  <2>8. /\ mutex' \in [GraphTask -> Frame \cup {NoTask}]
        /\ pooled' \subseteq GraphTask
        /\ current_depth' \in [GraphTask -> Nat]
    <3>1. /\ mutex \in [GraphTask -> Frame \cup {NoTask}]
          /\ pooled \subseteq GraphTask
          /\ current_depth \in [GraphTask -> Nat]
      BY <1>0 DEF TypeOK
    <3>2. nested_calls(f) + 1 \in Nat
      BY <2>5
    <3>3. mutex' \in [GraphTask -> Frame \cup {NoTask}]
      BY <2>7, <3>1
    <3>4. current_depth' \in [GraphTask -> Nat]
      BY <2>7, <3>1, <3>2
    <3> QED BY <2>7, <3>1, <3>3, <3>4
  <2> QED BY Zenon, <1>0, <1>2, <2>2, <2>4, <2>6, <2>8 DEF TypeOK, ReentrantExecute, Enqueue, poolVars
<1>3. AddThreadPoolTask(g) => TypeOK'
  <2> SUFFICES ASSUME AddThreadPoolTask(g) PROVE TypeOK'
    OBVIOUS
  <2>1. pc' \in [Frame -> Labels] /\ \A h \in Frame : (Busy(h) <=> task[h] # NoTask)'
    BY Zenon, <1>0 DEF TypeOK, AddThreadPoolTask, Goto, Busy, Labels, Working, Finishing, Frame
  <2>2. graphtasks_queue' \in Seq(GraphTask) /\ arriving' \in Nat
        /\ mutex' \in [GraphTask -> Frame \cup {NoTask}]
    BY <1>0 DEF TypeOK, AddThreadPoolTask
  <2> QED BY Zenon, <1>0, <2>1, <2>2 DEF TypeOK, AddThreadPoolTask, taskVars, graphVars, callVars
<1>4. WaitReturns(g) => TypeOK'
  <2> SUFFICES ASSUME WaitReturns(g) PROVE TypeOK'
    OBVIOUS
  <2>1. parent[g] \in Frame => pc[parent[g]] = "call"
    BY <1>0 DEF WaitReturns, CallsNest
  <2>2. pc' \in [Frame -> Labels] /\ \A h \in Frame : (Busy(h) <=> task[h] # NoTask)'
    BY <1>0, <2>1 DEF TypeOK, WaitReturns, ReturnTo, Busy, Labels, Working, Finishing
  <2> QED BY <1>0, <2>2 DEF TypeOK, WaitReturns, taskVars, graphVars, poolVars
<1> QED BY <1>1, <1>2, <1>3, <1>4

LEMMA TypePool ==
  IInv /\ PoolStep => TypeOK'
<1> SUFFICES ASSUME IInv, PoolStep PROVE TypeOK'
  OBVIOUS
<1>1. CASE PoolThreadWaits
  BY <1>1 DEF IInv, TypeOK, PoolThreadWaits, taskVars, graphVars, callVars, Busy
<1>2. CASE PoolThreadTakes
  <2> DEFINE g == Head(graphtasks_queue)
  <2>1. /\ graphtasks_queue \in Seq(GraphTask) /\ graphtasks_queue # <<>>
        /\ g \in GraphTask /\ g = graphtasks_queue[1] /\ 1 \in 1..Len(graphtasks_queue)
        /\ Tail(graphtasks_queue) \in Seq(GraphTask)
    BY <1>2 DEF IInv, TypeOK, PoolThreadTakes
  <2>2. pc[g] = "queued"
    BY <2>1 DEF IInv, PoolQueue
  <2>3. \E l \in {"loop", "exited"} : Goto(g, l)
    BY <1>2 DEF PoolThreadTakes
  <2>4. pc' \in [Frame -> Labels] /\ \A h \in Frame : (Busy(h) <=> task[h] # NoTask)'
    BY Zenon, <1>2, <2>1, <2>2, <2>3 DEF IInv, TypeOK, PoolThreadTakes, Goto, Busy, Labels, Working, Finishing, Frame
  <2>5. num_workers' \in Nat /\ arriving' \in Nat
    <3>1. num_workers \in Nat /\ arriving \in Nat
      BY DEF IInv, TypeOK
    <3> QED BY <1>2, <3>1 DEF PoolThreadTakes
  <2> QED BY Zenon, <1>2, <2>1, <2>4, <2>5 DEF IInv, TypeOK, PoolThreadTakes, taskVars, graphVars, callVars
<1> QED BY <1>1, <1>2 DEF PoolStep

LEMMA TypeDecrement ==
  ASSUME NEW x \in [GraphTask -> [Node -> Nat]], NEW g \in GraphTask, NEW n \in Node,
         x[g][n] # 0
  PROVE  [x[g] EXCEPT ![n] = @ - 1] \in [Node -> Nat]
OBVIOUS

LEMMA TypeFrame ==
  ASSUME IInv, NEW f \in Frame, FrameStep(f)
  PROVE  TypeOK'
<1> USE NoTaskAssumption
<1>0. TypeOK /\ CallsNest /\ Evaluation /\ Counted
  BY DEF IInv
<1>yh. heap \in [Queue -> SUBSET NodeTask] /\ outstanding_tasks \in [GraphTask -> Nat]
  BY <1>0, Zenon DEF TypeOK
<1>yd. dependencies \in [GraphTask -> [Node -> Nat]]
  BY <1>0, Zenon DEF TypeOK
<1>yn. not_ready \in [GraphTask -> SUBSET Node]
  BY <1>0, Zenon DEF TypeOK
<1>yc. captured_vars \in [GraphTask -> [Node -> SUBSET Edge]]
  BY <1>0, Zenon DEF TypeOK
<1>yf. final_callbacks \in [GraphTask -> SUBSET Node]
  BY <1>0, Zenon DEF TypeOK
<1>ym. mutex \in [GraphTask -> Frame \cup {NoTask}]
  BY <1>0, Zenon DEF TypeOK
<1>yi. inputs \in [GraphTask -> [Node -> SUBSET Edge]]
  BY <1>0, Zenon DEF TypeOK
<1>ye. edge \in [Frame -> Nat]
  BY <1>0, Zenon DEF TypeOK
<1>yp. passed \in [GraphTask -> SUBSET Edge]
  BY <1>0, Zenon DEF TypeOK
<1>ya. applied \in [GraphTask -> SUBSET Node]
  BY <1>0, Zenon DEF TypeOK
<1> DEFINE g == task[f].g
           n == task[f].fn
<1>t. Busy(f) => /\ task[f] \in NodeTask
                 /\ g \in GraphTask
                 /\ n \in Node \cup {NoNode}
                 /\ pc[f] \in {"eval", "apply", "call", "propagate"} => n \in Node
  BY <1>0, TaskOf
<1>q. /\ local_ready_queue(f) \in Queue
      /\ \A h \in GraphTask, d \in Device \cup {CPU_DEVICE} :
           ready_queue(cpu_ready_queue[h], d) \in Queue
  BY <1>0, QueueOf
\* A step that moves f between two places where it is busy, or two where it
\* is not, and leaves the tasks alone.
<1>p. ASSUME NEW l \in Labels, Goto(f, l), task' = task,
             pc[f] \in Working \cup Finishing <=> l \in Working \cup Finishing
      PROVE  pc' \in [Frame -> Labels] /\ \A h \in Frame : (Busy(h) <=> task[h] # NoTask)'
  BY <1>0, <1>p DEF TypeOK, Goto, Busy
<1> USE DEF taskVars, graphVars, callVars, poolVars
<1>1. CASE LoopAgain(f)
  BY <1>0, <1>1, <1>p DEF LoopAgain, TypeOK, Labels, Working, Finishing
<1>2. CASE LoopExit(f)
  <2>1. CASE f \in pooled /\ Goto(f, "exited") /\ arriving' = arriving + 1 /\ UNCHANGED executing
    BY <1>0, <1>2, <1>p, <2>1 DEF LoopExit, TypeOK, Labels, Working, Finishing
  <2>2. CASE f \notin pooled /\ pc' = [ReturnTo(f, pc) EXCEPT ![f] = "exited"]
             /\ executing' = executing \ {f} /\ UNCHANGED arriving
    <3>1. f \in executing /\ pc[f] = "loop"
      BY <1>0, <1>2, <2>2 DEF LoopExit, CallsNest
    <3>2. parent[f] \in Frame => pc[parent[f]] = "call"
      BY <1>0, <3>1 DEF CallsNest
    <3>3. pc' \in [Frame -> Labels] /\ \A h \in Frame : (Busy(h) <=> task[h] # NoTask)'
      BY Zenon, <1>0, <1>2, <2>2, <3>1, <3>2 DEF LoopExit, TypeOK, ReturnTo, Labels, Working, Finishing, Busy
    <3> QED BY <1>0, <1>2, <2>2, <3>3 DEF LoopExit, TypeOK
  <2> QED BY <1>2, <2>1, <2>2 DEF LoopExit
<1>3. CASE Pop(f)
  <2> DEFINE q == local_ready_queue(f)
  <2>1. PICK t \in Top(q) :
          /\ heap' = [heap EXCEPT ![q] = @ \ {t}]
          /\ \/ Goto(f, "loop") /\ UNCHANGED task
             \/ \E l \in {"eval", "decrement"} : task' = [task EXCEPT ![f] = t] /\ Goto(f, l)
    BY Zenon, <1>3 DEF Pop
  <2>2. t \in NodeTask
    BY <1>0, <1>q, <2>1 DEF TypeOK, Top
  <2>3. heap' \in [Queue -> SUBSET NodeTask]
    BY <1>0, <1>q, <2>1 DEF TypeOK
  <2>4. pc[f] = "pop"
    BY <1>3 DEF Pop
  <2>5. /\ task' \in [Frame -> NodeTask \cup {NoTask}]
        /\ pc' \in [Frame -> Labels] /\ \A h \in Frame : (Busy(h) <=> task[h] # NoTask)'
    <3>1. CASE Goto(f, "loop") /\ UNCHANGED task
      BY <1>0, <1>p, <2>4, <3>1 DEF TypeOK, Labels, Working, Finishing
    <3>2. CASE \E l \in {"eval", "decrement"} : task' = [task EXCEPT ![f] = t] /\ Goto(f, l)
      BY <1>0, <2>2, <3>2 DEF TypeOK, Goto, Labels, Working, Finishing, Busy
    <3> QED BY <2>1, <3>1, <3>2
  <2> QED BY <1>0, <1>3, <2>3, <2>5 DEF Pop, TypeOK
<1>4. CASE Evaluate(f)
  <2>1. Busy(f) /\ g \in GraphTask /\ n \in Node
    BY <1>4, <1>t DEF Evaluate, Busy, Working
  <2>2. captured_vars' \in [GraphTask -> [Node -> SUBSET Edge]]
    <3>1. captured_vars' = captured_vars \/ captured_vars' = [captured_vars EXCEPT ![g][n] = inputs[g][n]]
      BY <1>4 DEF Evaluate
    <3>2. inputs[g][n] \in SUBSET Edge
      BY <1>yi, <2>1
    <3>3. [captured_vars[g] EXCEPT ![n] = inputs[g][n]] \in [Node -> SUBSET Edge]
      BY <1>yc, <1>yi, <2>1, <3>2
    <3>4. captured_vars' = captured_vars
          \/ captured_vars' = [captured_vars EXCEPT ![g] = [captured_vars[g] EXCEPT ![n] = inputs[g][n]]]
      BY <3>1
    <3> QED BY Zenon, <1>yc, <1>yi, <2>1, <3>3, <3>4
  <2>3. applied' \in [GraphTask -> SUBSET Node]
    <3>1. applied' = applied \/ applied' = [applied EXCEPT ![g] = @ \cup {n}]
      BY <1>4 DEF Evaluate
    <3>2. applied[g] \cup {n} \in SUBSET Node
      BY <1>ya, <2>1
    <3> QED BY <1>ya, <2>1, <3>1, <3>2
  <2>4. pc' \in [Frame -> Labels] /\ \A h \in Frame : (Busy(h) <=> task[h] # NoTask)'
    <3>1. PICK l \in {"apply", "decrement"} : Goto(f, l) /\ pc[f] = "eval" /\ task' = task
      BY <1>4 DEF Evaluate
    <3> QED BY <1>p, <3>1 DEF Labels, Working, Finishing
  <2> QED BY Zenon, <1>0, <1>4, <2>2, <2>3, <2>4 DEF TypeOK, Evaluate
<1>5. CASE ApplyThrows(f)
  BY <1>0, <1>5, <1>p DEF ApplyThrows, TypeOK, Labels, Working, Finishing
<1>6. CASE ApplyReturns(f)
  <2>1. Busy(f) /\ g \in GraphTask /\ n \in Node
    BY <1>6, <1>t DEF ApplyReturns, Busy, Working
  <2>2. final_callbacks' \in [GraphTask -> SUBSET Node]
    <3>1. final_callbacks' = final_callbacks \/ final_callbacks' = [final_callbacks EXCEPT ![g] = @ \cup {n}]
      BY <1>6 DEF ApplyReturns
    <3>2. final_callbacks[g] \cup {n} \in SUBSET Node
      BY <1>yf, <2>1
    <3> QED BY <1>yf, <2>1, <3>1, <3>2
  <2>3. mutex' \in [GraphTask -> Frame \cup {NoTask}]
    <3>1. mutex' = mutex \/ mutex' = [mutex EXCEPT ![g] = f]
      BY <1>6 DEF ApplyReturns
    <3> QED BY <1>ym, <2>1, <3>1
  <2>4. edge' \in [Frame -> Nat]
    <3>1. edge' = edge \/ edge' = [edge EXCEPT ![f] = 1]
      BY <1>6 DEF ApplyReturns
    <3> QED BY <1>ye, <3>1
  <2>5. pc' \in [Frame -> Labels] /\ \A h \in Frame : (Busy(h) <=> task[h] # NoTask)'
    <3>1. PICK l \in {"decrement", "propagate"} : Goto(f, l) /\ pc[f] = "apply" /\ task' = task
      BY <1>6 DEF ApplyReturns
    <3> QED BY <1>p, <3>1 DEF Labels, Working, Finishing
  <2> QED BY Zenon, <1>0, <1>6, <2>2, <2>3, <2>4, <2>5 DEF TypeOK, ApplyReturns
<1>7. CASE SkipEdge(f)
  <2>1. Busy(f) /\ g \in GraphTask
    BY Zenon, <1>7, <1>t DEF SkipEdge, Busy, Working
  <2>2. mutex' \in [GraphTask -> Frame \cup {NoTask}] /\ edge' \in [Frame -> Nat]
    BY Zenon, <1>7, <1>ym, <1>ye, <2>1, TypeNextEdge DEF SkipEdge
  <2>3. pc' \in [Frame -> Labels] /\ \A h \in Frame : (Busy(h) <=> task[h] # NoTask)'
    BY Zenon, <1>0, <1>7, <1>p DEF SkipEdge, NextEdge, TypeOK, Busy, Labels, Working, Finishing
  <2> QED BY Zenon, <1>0, <1>7, <2>2, <2>3 DEF TypeOK, SkipEdge
<1>8. CASE PassEdge(f)
  <2> DEFINE m == next_edges[n][edge[f]]
             q == ready_queue(cpu_ready_queue[g], device[m])
             t == [g |-> g, fn |-> m, by |-> f]
             e == <<n, edge[f]>>
  <2>1. Busy(f) /\ g \in GraphTask /\ n \in Node /\ m \in Node
    <3>1. Busy(f) /\ g \in GraphTask /\ n \in Node /\ pc[f] = "propagate" /\ m # NoNode
      BY Zenon, <1>8, <1>t DEF PassEdge, Busy, Working
    <3>2. edge[f] \in 1..Len(next_edges[n]) /\ next_edges[n] \in Seq(Node \cup {NoNode})
      BY <1>0, <3>1, NextEdges DEF Evaluation
    <3> QED BY <3>1, <3>2
  <2>2. q \in Queue /\ t \in NodeTask /\ e \in Edge
    BY <1>q, <1>ye, <2>1, ThreadAssumption DEF NodeTask, Edge
  <2>3. CASE dependencies[g][m] = 0 /\ DependencyNotFound(f)
    <3>1. mutex' \in [GraphTask -> Frame \cup {NoTask}] /\ edge' \in [Frame -> Nat]
      BY Zenon, <1>ym, <1>ye, <2>1, <2>3 DEF DependencyNotFound
    <3>2. pc' \in [Frame -> Labels] /\ \A h \in Frame : (Busy(h) <=> task[h] # NoTask)'
      BY Zenon, <1>8, <1>p, <2>3 DEF PassEdge, DependencyNotFound, Labels, Working, Finishing
    <3> QED BY Zenon, <1>0, <1>8, <2>3, <3>1, <3>2 DEF TypeOK, PassEdge, DependencyNotFound
  <2>4. CASE dependencies[g][m] # 0 /\ Deliver(f, g, e, m) /\ NextEdge(f)
    <3>1. mutex' \in [GraphTask -> Frame \cup {NoTask}] /\ edge' \in [Frame -> Nat]
      BY Zenon, <1>ym, <1>ye, <2>1, <2>4, TypeNextEdge
    <3>2. pc' \in [Frame -> Labels] /\ \A h \in Frame : (Busy(h) <=> task[h] # NoTask)'
      BY Zenon, <1>0, <1>8, <1>p, <2>4 DEF PassEdge, NextEdge, TypeOK, Busy, Labels, Working, Finishing
    <3>3. dependencies' \in [GraphTask -> [Node -> Nat]]
      <4>1. [dependencies[g] EXCEPT ![m] = @ - 1] \in [Node -> Nat]
        BY Zenon, <1>yd, <2>1, <2>4, TypeDecrement
      <4>2. dependencies' = [dependencies EXCEPT ![g] = [dependencies[g] EXCEPT ![m] = @ - 1]]
        BY Zenon, <2>4 DEF Deliver
      <4> QED BY Zenon, <1>yd, <2>1, <4>1, <4>2
    <3>4. passed' \in [GraphTask -> SUBSET Edge]
      <4>1. passed[g] \cup {e} \in SUBSET Edge
        BY <1>yp, <2>1, <2>2
      <4>2. passed' = [passed EXCEPT ![g] = @ \cup {e}]
        BY Zenon, <2>4 DEF Deliver
      <4> QED BY <1>yd, <1>yp, <2>1, <4>1, <4>2
    <3>5. inputs' \in [GraphTask -> [Node -> SUBSET Edge]]
      <4>1. PICK S \in {inputs[g][m], {}} :
              inputs' = inputs \/ inputs' = [inputs EXCEPT ![g] = [inputs[g] EXCEPT ![m] = S \cup {e}]]
        BY Zenon, <2>4 DEF Deliver
      <4>2. S \cup {e} \in SUBSET Edge
        <5>1. inputs[g][m] \in SUBSET Edge
          BY Zenon, <1>yi, <2>1
        <5> QED BY Zenon, <2>2, <4>1, <5>1
      <4>3. [inputs[g] EXCEPT ![m] = S \cup {e}] \in [Node -> SUBSET Edge]
        BY Zenon, <1>yi, <2>1, <4>2
      <4> QED BY Zenon, <1>yi, <1>yd, <2>1, <4>1, <4>3
    <3>6. not_ready' \in [GraphTask -> SUBSET Node]
      <4>1. not_ready[g] \ {m} \in SUBSET Node /\ not_ready[g] \cup {m} \in SUBSET Node
        BY <1>yn, <2>1
      <4>2. \/ not_ready' = not_ready
            \/ not_ready' = [not_ready EXCEPT ![g] = @ \ {m}]
            \/ not_ready' = [not_ready EXCEPT ![g] = @ \cup {m}]
        BY Zenon, <2>4 DEF Deliver
      <4> QED BY Zenon, <1>yd, <1>yn, <2>1, <4>1, <4>2
    <3>7. heap' \in [Queue -> SUBSET NodeTask] /\ outstanding_tasks' \in [GraphTask -> Nat]
      <4>1. push(q, t) \/ UNCHANGED <<heap, outstanding_tasks>>
        BY Zenon, <2>4 DEF Deliver
      <4> QED BY <1>yd, <1>yh, <2>2, <4>1, TypePush
    <3> QED BY Zenon, <1>0, <1>8, <3>1, <3>2, <3>3, <3>4, <3>5, <3>6, <3>7 DEF TypeOK, PassEdge
  <2> QED BY Zenon, <1>8, <2>3, <2>4 DEF PassEdge
<1>9. CASE SetException(f)
  BY Zenon, <1>0, <1>9, <1>p DEF SetException, TypeOK, Labels, Working, Finishing
<1>10. CASE SignalException(f)
  BY Zenon, <1>0, <1>10, <1>p DEF SignalException, TypeOK, Labels, Working, Finishing
<1>11. CASE SetError(f)
  BY Zenon, <1>0, <1>11, <1>p DEF SetError, TypeOK, Labels, Working, Finishing
<1>12. CASE Decrement(f)
  <2>1. Busy(f) /\ g \in GraphTask /\ outstanding_tasks[g] > 0
    BY Zenon, <1>0, <1>12, <1>t, WorkingHoldsUnit DEF Decrement, Busy, Working
  <2>2. outstanding_tasks' \in [GraphTask -> Nat]
    BY <1>yh, <1>12, <2>1 DEF Decrement
  <2> QED BY Zenon, <1>0, <1>12, <1>p, <2>2 DEF Decrement, TypeOK, Labels, Working, Finishing
<1>13. CASE CheckCompleted(f)
  <2>1. task' \in [Frame -> NodeTask \cup {NoTask}] /\ pc' \in [Frame -> Labels]
        /\ \A h \in Frame : (Busy(h) <=> task[h] # NoTask)'
    <3>1. CASE Goto(f, "mark") /\ UNCHANGED task
      BY <1>0, <1>13, <1>p, <3>1 DEF CheckCompleted, TypeOK, Labels, Working, Finishing
    <3>2. CASE Goto(f, "loop") /\ task' = [task EXCEPT ![f] = NoTask]
      BY <1>0, <3>2 DEF TypeOK, Goto, Labels, Working, Finishing, Busy
    <3> QED BY Zenon, <1>13, <3>1, <3>2 DEF CheckCompleted
  <2> QED BY <1>0, <1>13, <2>1 DEF CheckCompleted, TypeOK
<1>14. CASE MarkCompleted(f)
  BY Zenon, <1>0, <1>14, <1>p DEF MarkCompleted, TypeOK, Labels, Working, Finishing
<1>15. CASE AwaitFuture(f)
  BY Zenon, <1>0, <1>15, <1>p DEF AwaitFuture, TypeOK, Labels, Working, Finishing
<1>16. CASE RunCallback(f)
  <2>1. g \in GraphTask
    BY Zenon, <1>16, <1>t DEF RunCallback, Busy, Finishing
  <2>2. PICK k \in final_callbacks[g] : final_callbacks' = [final_callbacks EXCEPT ![g] = @ \ {k}]
    BY Zenon, <1>16 DEF RunCallback
  <2>3. final_callbacks' \in [GraphTask -> SUBSET Node]
    BY <1>yf, <2>1, <2>2
  <2>4. \A h \in Frame : (Busy(h) <=> task[h] # NoTask)'
    BY <1>0, <1>16 DEF RunCallback, TypeOK, Busy
  <2> QED BY Zenon, <1>0, <1>16, <2>3, <2>4 DEF RunCallback, TypeOK
<1>17. CASE PostProcessingThrows(f)
  BY Zenon, <1>0, <1>17, <1>p DEF PostProcessingThrows, TypeOK, Labels, Working, Finishing
<1>18. CASE CompleteFuture(f)
  BY Zenon, <1>0, <1>18, <1>p DEF CompleteFuture, TypeOK, Labels, Working, Finishing
<1>19. CASE Notify(f)
  <2> DEFINE q == ready_queue(cpu_ready_queue[g], owner[g])
             t == [g |-> g, fn |-> NoNode, by |-> f]
  <2>1. g \in GraphTask
    BY Zenon, <1>19, <1>t DEF Notify, Busy, Finishing
  <2>2. q \in Queue /\ t \in NodeTask
    BY <1>0, <1>q, <2>1 DEF NodeTask, TypeOK
  <2>3. heap' \in [Queue -> SUBSET NodeTask] /\ outstanding_tasks' \in [GraphTask -> Nat]
    <3>1. push(q, t) \/ UNCHANGED <<heap, outstanding_tasks>>
      BY Zenon, <1>19 DEF Notify
    <3> QED BY <1>yh, <2>2, <3>1, TypePush
  <2>4. Goto(f, "loop") /\ task' = [task EXCEPT ![f] = NoTask]
    BY <1>19 DEF Notify
  <2>5. task' \in [Frame -> NodeTask \cup {NoTask}] /\ pc' \in [Frame -> Labels]
        /\ \A h \in Frame : (Busy(h) <=> task[h] # NoTask)'
    BY <1>0, <2>4 DEF TypeOK, Goto, Labels, Working, Finishing, Busy
  <2> QED BY Zenon, <1>0, <1>19, <2>3, <2>5 DEF Notify, TypeOK
<1> QED BY <1>1, <1>2, <1>3, <1>4, <1>5, <1>6, <1>7, <1>8, <1>9, <1>10, <1>11,
           <1>12, <1>13, <1>14, <1>15, <1>16, <1>17, <1>18, <1>19 DEF FrameStep
==============================================================================
