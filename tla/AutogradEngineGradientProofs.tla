--------------------- MODULE AutogradEngineGradientProofs ----------------------
(***************************************************************************)
(* GradInv is an invariant of the engine, and what follows from it: every  *)
(* function of a pass is called at most once, with all the gradients that  *)
(* are sent to it, and no gradient arrives that was not counted.           *)
(***************************************************************************)
EXTENDS AutogradEngineDelivery

------------------------------------------------------------------------------
(***************************************************************************)
(* Every step.                                                             *)
(***************************************************************************)

\* A quiet step of one frame.
LEMMA QuietFrame ==
  ASSUME TypeOK, GradInv, NEW f \in Frame, NEW l,
         pc' = [pc EXCEPT ![f] = l], pc[f] # "none", l # "none",
         UNCHANGED <<dependencies, not_ready, inputs, passed, applied>>,
         \A q \in Queue : \A t \in heap'[q] :
           t \in heap[q] \/ (t.fn = NoNode /\ t.g \in GraphTask /\ pc[t.g] # "none"),
         \A h \in Frame : h # f => task'[h] = task[h] /\ edge'[h] = edge[h],
         l \in Working \cup Finishing => Busy(f) /\ task'[f] = task[f],
         l \in Working => pc[f] \in Working,
         l \in Evaluating =>
           \/ pc[f] \in {"apply", "call"} /\ l # "eval"
           \/ pc[f] = "propagate" /\ l = "propagate" /\ edge'[f] = edge[f] + 1
  PROVE  GradInv'
<1>1. pc'[f] = l /\ \A h \in Frame : h # f => pc'[h] = pc[h]
  BY DEF TypeOK
<1>2. \A g \in GraphTask : pc'[g] = "none" <=> pc[g] = "none"
  BY <1>1 DEF Frame
<1>3. \A h \in Frame : Busy(h)' => Busy(h) /\ task'[h] = task[h]
  BY <1>1 DEF Busy
<1>4. \A h \in Frame : pc'[h] \in Working => pc[h] \in Working
  BY <1>1
<1>5. \A h \in Frame : pc'[h] \in Evaluating =>
        \/ pc'[h] = pc[h] /\ edge'[h] = edge[h]
        \/ pc[h] \in {"apply", "call"} /\ pc'[h] # "eval"
        \/ pc[h] = "propagate" /\ pc'[h] = "propagate" /\ edge'[h] = edge[h] + 1
  BY <1>1
<1> QED BY <1>2, <1>3, <1>4, <1>5, QuietStep

LEMMA QuietFrameStep ==
  ASSUME IInv, GradInv, NEW f \in Frame, FrameStep(f),
         ~LoopExit(f), ~Pop(f), ~Evaluate(f), ~PassEdge(f)
  PROVE  GradInv'
<1>0. TypeOK /\ pc[f] \in Running /\ \A h \in Frame : h # f => task'[h] = task[h] /\ edge'[h] = edge[h]
  BY FrameMoves DEF IInv
<1>r. pc[f] # "none"
  BY <1>0 DEF Running, Working, Finishing
<1>h. ASSUME heap' = heap
      PROVE  \A q \in Queue : \A t \in heap'[q] :
               t \in heap[q] \/ (t.fn = NoNode /\ t.g \in GraphTask /\ pc[t.g] # "none")
  BY <1>h
<1>A. ASSUME NEW l, pc' = [pc EXCEPT ![f] = l],
             UNCHANGED <<dependencies, not_ready, inputs, passed, applied>>, heap' = heap,
             \/ l \in {"loop", "pop"}
             \/ task' = task /\ pc[f] \in Working /\ l \in (Working \cup Finishing) \ Evaluating
             \/ task' = task /\ pc[f] \in Finishing /\ l \in Finishing
      PROVE  GradInv'
  <2>1. l # "none" /\ l \notin Evaluating
    BY <1>A DEF Working, Finishing, Evaluating
  <2>2. l \in Working => pc[f] \in Working
    BY <1>A DEF Working, Finishing
  <2>3. l \in Working \cup Finishing => Busy(f) /\ task'[f] = task[f]
    BY <1>A DEF Working, Finishing, Busy
  <2> QED BY Zenon, <1>0, <1>r, <1>h, <1>A, <2>1, <2>2, <2>3, QuietFrame
<1> USE DEF Goto, graphVars
<1>1. CASE LoopAgain(f)
  BY Zenon, <1>1, <1>A DEF LoopAgain
<1>2. CASE ApplyThrows(f)
  <2>1. pc' = [pc EXCEPT ![f] = "throw"] /\ task' = task /\ pc[f] = "apply"
        /\ UNCHANGED <<dependencies, not_ready, inputs, passed, applied>> /\ heap' = heap
    BY <1>2 DEF ApplyThrows
  <2> QED BY Zenon, <1>A, <2>1 DEF Working, Finishing, Evaluating
<1>3. CASE ApplyReturns(f)
  <2>1. /\ pc[f] = "apply" /\ task' = task /\ heap' = heap
        /\ UNCHANGED <<dependencies, not_ready, inputs, passed, applied>>
        /\ \E l \in {"decrement", "propagate"} : pc' = [pc EXCEPT ![f] = l]
    BY <1>3 DEF ApplyReturns
  <2>2. PICK l \in {"decrement", "propagate"} : pc' = [pc EXCEPT ![f] = l]
    BY Zenon, <2>1
  <2>3. l # "none" /\ l \in Working /\ l # "eval" /\ pc[f] \in Working /\ Busy(f) /\ task'[f] = task[f]
    BY <2>1 DEF Working, Busy
  <2> QED BY Zenon, <1>0, <1>h, <1>r, <2>1, <2>2, <2>3, QuietFrame
<1>4. CASE SkipEdge(f)
  <2>1. /\ pc[f] = "propagate" /\ task' = task /\ heap' = heap /\ NextEdge(f)
        /\ UNCHANGED <<dependencies, not_ready, inputs, passed, applied>>
    BY <1>4 DEF SkipEdge
  <2>2. CASE pc' = [pc EXCEPT ![f] = "decrement"]
    BY Zenon, <1>A, <2>1, <2>2 DEF Working, Finishing, Evaluating
  <2>3. CASE pc' = pc /\ edge' = [edge EXCEPT ![f] = @ + 1]
    <3>1. pc' = [pc EXCEPT ![f] = "propagate"] /\ edge'[f] = edge[f] + 1
      BY <1>0, <2>1, <2>3 DEF TypeOK
    <3>2. "propagate" \in Working /\ Busy(f) /\ task'[f] = task[f]
      BY <2>1 DEF Working, Busy
    <3> QED BY Zenon, <1>0, <1>h, <1>r, <2>1, <3>1, <3>2, QuietFrame
  <2> QED BY <2>1, <2>2, <2>3 DEF NextEdge
<1>5. CASE SetException(f)
  <2>1. pc' = [pc EXCEPT ![f] = "signal"] /\ task' = task /\ pc[f] = "throw"
        /\ UNCHANGED <<dependencies, not_ready, inputs, passed, applied>> /\ heap' = heap
    BY <1>5 DEF SetException
  <2> QED BY Zenon, <1>A, <2>1 DEF Working, Finishing, Evaluating
<1>6. CASE SignalException(f)
  <2>1. /\ task' = task /\ pc[f] = "signal"
        /\ UNCHANGED <<dependencies, not_ready, inputs, passed, applied>> /\ heap' = heap
        /\ \E l \in {"decrement", "set_error"} : pc' = [pc EXCEPT ![f] = l]
    BY Zenon, <1>6 DEF SignalException
  <2> QED BY Zenon, <1>A, <2>1 DEF Working, Finishing, Evaluating
<1>7. CASE SetError(f)
  <2>1. pc' = [pc EXCEPT ![f] = "decrement"] /\ task' = task /\ pc[f] = "set_error"
        /\ UNCHANGED <<dependencies, not_ready, inputs, passed, applied>> /\ heap' = heap
    BY <1>7 DEF SetError
  <2> QED BY Zenon, <1>A, <2>1 DEF Working, Finishing, Evaluating
<1>8. CASE Decrement(f)
  <2>1. pc' = [pc EXCEPT ![f] = "check"] /\ task' = task /\ pc[f] = "decrement"
        /\ UNCHANGED <<dependencies, not_ready, inputs, passed, applied>> /\ heap' = heap
    BY <1>8 DEF Decrement
  <2> QED BY Zenon, <1>A, <2>1 DEF Working, Finishing, Evaluating
<1>9. CASE CheckCompleted(f)
  <2>1. /\ pc[f] = "check" /\ heap' = heap
        /\ UNCHANGED <<dependencies, not_ready, inputs, passed, applied>>
        /\ \/ pc' = [pc EXCEPT ![f] = "mark"] /\ task' = task
           \/ pc' = [pc EXCEPT ![f] = "loop"]
    BY <1>9 DEF CheckCompleted
  <2> QED BY <1>A, <2>1 DEF Finishing
<1>10. CASE MarkCompleted(f)
  <2>1. /\ task' = task /\ pc[f] = "mark"
        /\ UNCHANGED <<dependencies, not_ready, inputs, passed, applied>> /\ heap' = heap
        /\ \E l \in {"await", "post"} : pc' = [pc EXCEPT ![f] = l]
    BY Zenon, <1>10 DEF MarkCompleted
  <2> QED BY Zenon, <1>A, <2>1 DEF Finishing
<1>11. CASE AwaitFuture(f) \/ PostProcessingThrows(f) \/ CompleteFuture(f)
  <2>1. /\ task' = task /\ pc[f] \in {"await", "post"} /\ pc' = [pc EXCEPT ![f] = "notify"]
        /\ UNCHANGED <<dependencies, not_ready, inputs, passed, applied>> /\ heap' = heap
    BY Zenon, <1>11 DEF AwaitFuture, PostProcessingThrows, CompleteFuture
  <2> QED BY Zenon, <1>A, <2>1 DEF Finishing
<1>12. CASE RunCallback(f)
  <2>1. /\ task' = task /\ pc[f] = "post" /\ pc' = pc /\ heap' = heap
        /\ UNCHANGED <<dependencies, not_ready, inputs, passed, applied>>
    BY <1>12 DEF RunCallback
  <2>2. pc' = [pc EXCEPT ![f] = "post"]
    BY <1>0, <2>1 DEF TypeOK
  <2> QED BY Zenon, <1>A, <2>1, <2>2 DEF Finishing
<1>13. CASE Notify(f)
  <2> DEFINE g == task[f].g
             q == ready_queue(cpu_ready_queue[g], owner[g])
             t == [g |-> g, fn |-> NoNode, by |-> f]
  <2>1. /\ pc[f] = "notify" /\ pc' = [pc EXCEPT ![f] = "loop"]
        /\ UNCHANGED <<dependencies, not_ready, inputs, passed, applied>>
        /\ heap' = heap \/ heap' = [heap EXCEPT ![q] = @ \cup {t}]
    BY Zenon, <1>13 DEF Notify, push
  <2>2. Busy(f) /\ g \in GraphTask /\ pc[g] # "none"
    <3>1. Busy(f)
      BY <2>1 DEF Busy, Finishing
    <3>2. g \in GraphTask
      BY <1>0, <3>1, TaskOf DEF IInv
    <3> QED BY <3>1, <3>2 DEF GradInv, Fresh, Empty
  <2>3. heap \in [Queue -> SUBSET NodeTask]
    BY <1>0 DEF TypeOK
  <2>4. \A p \in Queue : \A u \in heap'[p] :
          u \in heap[p] \/ (u.fn = NoNode /\ u.g \in GraphTask /\ pc[u.g] # "none")
    <3> SUFFICES ASSUME NEW p \in Queue, NEW u \in heap'[p], u \notin heap[p]
                 PROVE  u.fn = NoNode /\ u.g \in GraphTask /\ pc[u.g] # "none"
      OBVIOUS
    <3>1. u = t
      BY <2>1, <2>3
    <3> QED BY <2>2, <3>1
  <2>5. "loop" # "none" /\ "loop" \notin Working \cup Finishing /\ "loop" \notin Evaluating
    BY DEF Working, Finishing, Evaluating
  <2> QED BY Zenon, <1>0, <1>r, <2>1, <2>4, <2>5, QuietFrame
<1> QED BY Zenon, <1>1, <1>2, <1>3, <1>4, <1>5, <1>6, <1>7, <1>8, <1>9, <1>10, <1>11, <1>12, <1>13
        DEF FrameStep

\* A call returns, or is handed to the pool or taken from it.
LEMMA QuietCalls ==
  ASSUME TypeOK, GradInv,
         UNCHANGED <<heap, dependencies, not_ready, inputs, passed, applied, task, edge>>,
         \A h \in Frame :
           \/ pc'[h] = pc[h]
           \/ pc[h] = "call" /\ pc'[h] \in {"apply", "throw"}
           \/ pc[h] \in {"loop", "add_to_pool", "queued"} /\ pc'[h] \in {"loop", "queued", "exited"}
  PROVE  GradInv'
<1>1. \A g \in GraphTask : pc'[g] = "none" <=> pc[g] = "none"
  BY DEF Frame
<1>2. \A h \in Frame : Busy(h)' => Busy(h) /\ task'[h] = task[h]
  BY DEF Busy, Working, Finishing
<1>3. \A h \in Frame : pc'[h] \in Working => pc[h] \in Working
  BY DEF Working
<1>4. \A h \in Frame : pc'[h] \in Evaluating =>
        \/ pc'[h] = pc[h] /\ edge'[h] = edge[h]
        \/ pc[h] \in {"apply", "call"} /\ pc'[h] # "eval"
        \/ pc[h] = "propagate" /\ pc'[h] = "propagate" /\ edge'[h] = edge[h] + 1
  BY DEF Evaluating
<1>5. \A q \in Queue : \A t \in heap'[q] :
        t \in heap[q] \/ (t.fn = NoNode /\ t.g \in GraphTask /\ pc[t.g] # "none")
  OBVIOUS
<1> QED BY <1>1, <1>2, <1>3, <1>4, <1>5, QuietStep

LEMMA PassEdgeStep ==
  ASSUME IInv, GradInv, NEW f \in Frame, PassEdge(f)
  PROVE  GradInv'
<1> DEFINE g == task[f].g
           n == task[f].fn
           i == edge[f]
           m == next_edges[n][i]
<1>0. TypeOK /\ pc[f] = "propagate" /\ m # NoNode /\ Busy(f) /\ UNCHANGED <<task, applied>>
  BY DEF IInv, PassEdge, Busy, Working
<1>1. g \in GraphTask /\ n \in Node
  BY <1>0, TaskOf DEF IInv
<1>2. i \in 1..Len(next_edges[n])
  BY <1>0 DEF IInv, Evaluation
<1>3. m \in Node
  BY <1>0, <1>1, <1>2, NextEdges
<1>4. CASE DependencyNotFound(f)
  <2>1. /\ pc' = [pc EXCEPT ![f] = "throw"] /\ heap' = heap
        /\ UNCHANGED <<dependencies, not_ready, inputs, passed, applied>>
    BY Zenon, <1>0, <1>4 DEF DependencyNotFound, Goto, graphVars
  <2>2. \A h \in Frame : h # f => task'[h] = task[h] /\ edge'[h] = edge[h]
    BY <1>0, <1>4 DEF DependencyNotFound, TypeOK
  <2>3. \A q \in Queue : \A t \in heap'[q] :
          t \in heap[q] \/ (t.fn = NoNode /\ t.g \in GraphTask /\ pc[t.g] # "none")
    BY <2>1
  <2>4. "throw" \in Working /\ "throw" \notin Evaluating /\ pc[f] \in Working /\ task'[f] = task[f]
    BY <1>0 DEF Working, Evaluating
  <2> QED BY Zenon, <1>0, <2>1, <2>2, <2>3, <2>4, QuietFrame
<1>5. CASE dependencies[g][m] # 0 /\ Deliver(f, g, <<n, i>>, m) /\ NextEdge(f)
  <2>1. ready_queue(cpu_ready_queue[g], device[m]) \in Queue
    BY <1>0, <1>1, <1>3, QueueOf, ThreadAssumption
  <2>2. Delivers(f, g, n, i, m, <<n, i>>, ready_queue(cpu_ready_queue[g], device[m]),
                 [g |-> g, fn |-> m, by |-> f])
    BY Zenon, <1>0, <1>2, <1>5 DEF Delivers
  <2> HIDE DEF g, n, i, m
  <2> QED BY <1>0, <1>1, <1>3, <2>1, <2>2, DeliverStep
<1> QED BY Zenon, <1>4, <1>5 DEF PassEdge

LEMMA GradInvStep ==
  IInv /\ GradInv /\ [Next]_vars => GradInv'
<1> SUFFICES ASSUME IInv, GradInv, [Next]_vars PROVE GradInv'
  OBVIOUS
<1>0. TypeOK /\ pc \in [Frame -> Labels] /\ GraphTask \subseteq Frame /\ CallsNest
  BY DEF IInv, TypeOK, Frame
<1> USE DEF graphVars
<1>1. ASSUME NEW u \in User, NEW g \in GraphTask, Execute(u, g) PROVE GradInv'
  <2>1. Enqueue(g, u, u) /\ pc[g] = "none" /\ pc' = [pc EXCEPT ![g] = "loop"] /\ u \in Queue
    BY <1>1 DEF Execute, Goto, Queue
  <2>2. pc'[g] = "loop" /\ \A h \in Frame : h # g => pc'[h] = pc[h]
    BY <1>0, <2>1
  <2> QED BY <1>0, <2>1, <2>2, EnqueueStep
<1>2. ASSUME NEW f \in Frame, NEW g \in GraphTask, ReentrantExecute(f, g) PROVE GradInv'
  <2>1. /\ Enqueue(g, f, local_ready_queue(f)) /\ local_ready_queue(f) \in Queue
        /\ pc[f] = "apply" /\ pc[g] = "none"
    BY <1>0, <1>2, QueueOf DEF ReentrantExecute
  <2>2. PICK l \in {"loop", "add_to_pool"} : pc' = [pc EXCEPT ![f] = "call", ![g] = l]
    BY <1>2 DEF ReentrantExecute
  <2>3. /\ pc'[g] \in {"loop", "add_to_pool"}
        /\ \A h \in Frame : h # g => pc'[h] = pc[h] \/ (pc[h] = "apply" /\ pc'[h] = "call")
    BY <1>0, <2>1, <2>2
  <2> QED BY <1>0, <2>1, <2>3, EnqueueStep
<1>3. ASSUME NEW f \in Frame, LoopExit(f) PROVE GradInv'
  <2>1. /\ UNCHANGED <<heap, dependencies, not_ready, inputs, passed, applied, task, edge>>
        /\ pc[f] = "loop" /\ f \in GraphTask
    BY Zenon, <1>3 DEF LoopExit
  <2>2. CASE pc' = [pc EXCEPT ![f] = "exited"]
    <3>1. \A h \in Frame : pc'[h] = pc[h] \/ (pc[h] = "loop" /\ pc'[h] = "exited")
      BY <1>0, <2>1, <2>2
    <3> QED BY <1>0, <2>1, <3>1, QuietCalls
  <2>3. CASE f \notin pooled /\ pc' = [ReturnTo(f, pc) EXCEPT ![f] = "exited"]
    <3>1. f \in executing
      BY <1>0, <2>1, <2>3 DEF CallsNest
    <3>2. parent[f] \in Frame => pc[parent[f]] = "call"
      BY <1>0, <3>1 DEF CallsNest
    <3>3. \A h \in Frame : \/ pc'[h] = pc[h]
                           \/ pc[h] = "call" /\ pc'[h] \in {"apply", "throw"}
                           \/ pc[h] = "loop" /\ pc'[h] = "exited"
      BY <1>0, <2>1, <2>3, <3>2 DEF ReturnTo
    <3> QED BY <1>0, <2>1, <3>3, QuietCalls
  <2> QED BY Zenon, <1>3, <2>2, <2>3 DEF LoopExit, Goto
<1>4. ASSUME NEW g \in GraphTask, AddThreadPoolTask(g) PROVE GradInv'
  <2>1. /\ UNCHANGED <<heap, dependencies, not_ready, inputs, passed, applied, task, edge>>
        /\ pc[g] = "add_to_pool" /\ pc' = [pc EXCEPT ![g] = "queued"]
    BY Zenon, <1>4 DEF AddThreadPoolTask, Goto
  <2>2. \A h \in Frame : pc'[h] = pc[h] \/ (pc[h] = "add_to_pool" /\ pc'[h] = "queued")
    BY <1>0, <2>1
  <2> QED BY <1>0, <2>1, <2>2, QuietCalls
<1>5. ASSUME NEW g \in GraphTask, WaitReturns(g) PROVE GradInv'
  <2>1. /\ UNCHANGED <<heap, dependencies, not_ready, inputs, passed, applied, task, edge>>
        /\ g \in executing /\ pc' = ReturnTo(g, pc)
    BY Zenon, <1>5 DEF WaitReturns
  <2>2. parent[g] \in Frame => pc[parent[g]] = "call"
    BY <1>0, <2>1 DEF CallsNest
  <2>3. \A h \in Frame : pc'[h] = pc[h] \/ (pc[h] = "call" /\ pc'[h] \in {"apply", "throw"})
    BY <1>0, <2>1, <2>2 DEF ReturnTo
  <2> QED BY <1>0, <2>1, <2>3, QuietCalls
<1>6. CASE PoolThreadTakes
  <2> DEFINE g == Head(graphtasks_queue)
  <2>1. /\ UNCHANGED <<heap, dependencies, not_ready, inputs, passed, applied, task, edge>>
        /\ graphtasks_queue # <<>>
        /\ pc' = [pc EXCEPT ![g] = IF IsAlive(g) THEN "loop" ELSE "exited"]
    BY Zenon, <1>6 DEF PoolThreadTakes, Goto
  <2>2. graphtasks_queue \in Seq(GraphTask) /\ 1 \in 1..Len(graphtasks_queue)
        /\ g = graphtasks_queue[1]
    BY <1>0, <2>1 DEF TypeOK
  <2>3. g \in GraphTask /\ pc[g] = "queued"
    BY <2>2 DEF IInv, PoolQueue
  <2>4. \A h \in Frame : pc'[h] = pc[h] \/ (pc[h] = "queued" /\ pc'[h] \in {"loop", "exited"})
    BY <1>0, <2>1, <2>3
  <2> QED BY <1>0, <2>1, <2>4, QuietCalls
<1>7. CASE PoolThreadWaits \/ UNCHANGED vars
  <2>1. /\ UNCHANGED <<heap, dependencies, not_ready, inputs, passed, applied, task, edge>>
        /\ pc' = pc
    BY Zenon, <1>7 DEF PoolThreadWaits, vars
  <2> QED BY <1>0, <2>1, QuietCalls
<1>8. ASSUME NEW f \in Frame, FrameStep(f) PROVE GradInv'
  <2>1. CASE Pop(f)
    BY <1>0, <2>1, QueueOf, PopStep
  <2>2. CASE Evaluate(f)
    <3>1. Busy(f) /\ pc[f] = "eval"
      BY <2>2 DEF Evaluate, Busy, Working
    <3>2. task[f].g \in GraphTask /\ task[f].fn \in Node
      BY <1>0, <3>1, TaskOf DEF IInv
    <3> QED BY Zenon, <1>0, <2>2, <3>2, EvaluateStep
  <2> QED BY <1>3, <1>8, <2>1, <2>2, PassEdgeStep, QuietFrameStep
<1> QED BY Zenon, <1>1, <1>2, <1>3, <1>4, <1>5, <1>6, <1>7, <1>8
        DEF Next, CallStep, HandOver, PoolStep, Finished

LEMMA InitGradInv == Init => GradInv
<1> SUFFICES ASSUME Init PROVE GradInv
  OBVIOUS
<1>1. /\ \A f \in Frame : pc[f] \in {"loop", "none"} /\ pc[f] \notin Working /\ ~Busy(f)
      /\ \A g \in GraphTask : pc[g] = "none"
  BY ThreadAssumption DEF Init, Frame, Busy, Working, Finishing
<1>2. /\ \A q \in Queue : heap[q] = {}
      /\ \A g \in GraphTask : /\ passed[g] = {} /\ applied[g] = {} /\ not_ready[g] = {}
                              /\ inputs[g] = [n \in Node |-> {}]
  BY DEF Init
<1> QED BY <1>1, <1>2
        DEF GradInv, Fresh, Empty, Books, Origin, Unique, UniqueFor, QueuedReady, HeldReady, Holds

\* The bookkeeping of every pass agrees with the gradients handed on, in every
\* reachable state.
THEOREM GradInvariance == Spec => []GradInv
BY InitGradInv, GradInvStep, Invariance, PTL DEF Spec

------------------------------------------------------------------------------
\* Whenever a function is evaluated, every gradient that compute_dependencies
\* counted for it is in its input buffer, whatever the number of threads and the
\* order in which they handed the gradients on.
THEOREM GradientsComplete == Spec => []GradientsAreComplete
<1>1. IInv /\ GradInv => GradientsAreComplete
  <2> SUFFICES ASSUME IInv, GradInv, NEW f \in Frame, pc[f] \in {"eval", "apply", "call"}
               PROVE  inputs[task[f].g][task[f].fn] = Awaited(task[f].g, task[f].fn)
    BY DEF GradientsAreComplete
  <2>1. pc[f] \in Working /\ task[f].fn \in Node
    BY DEF IInv, Evaluation, Working
  <2>2. HeldAs(f, task[f].g, task[f].fn)
    BY <2>1 DEF GradInv, HeldReady
  <2> QED BY Zenon, <2>2 DEF HeldAs, Untouched
<1> QED BY <1>1, Invariance, GradInvariance, PTL

\* "dependency not found" is never raised by evaluate_function: an edge out of a
\* function that runs was counted by compute_dependencies, pruning included, and
\* is handed on once.
THEOREM DependencyFound == Spec => []DependencyIsFound
<1>1. IInv /\ GradInv => DependencyIsFound
  <2> SUFFICES ASSUME IInv, GradInv, NEW f \in Frame, pc[f] = "propagate",
                      next_edges[task[f].fn][edge[f]] # NoNode
               PROVE  dependencies[task[f].g][next_edges[task[f].fn][edge[f]]] > 0
    BY DEF DependencyIsFound
  <2> DEFINE g == task[f].g
             n == task[f].fn
             i == edge[f]
             m == next_edges[n][i]
  <2>1. Busy(f) /\ pc[f] \in Working /\ n \in Node /\ i \in 1..Len(next_edges[n])
    BY DEF IInv, Evaluation, Working, Busy
  <2>2. g \in GraphTask
    BY <2>1, TaskOf DEF IInv
  <2>3. m \in Node
    BY <2>1, NextEdges
  <2>4. Ready(g, n) /\ n \in needed[g] /\ (\A e \in passed[g] : e[1] = n => e[2] < i)
    BY Zenon, <2>1 DEF GradInv, HeldReady, HeldAs
  <2>5. n \in ExpandedBy[g]
    BY <2>4 DEF Ready
  <2>6. <<n, i>> \in Awaited(g, m)
    BY <2>1, <2>2, <2>3, <2>5, EdgeIsAwaited
  <2>7. <<n, i>> \notin passed[g]
    <3>1. \A e \in passed[g] : e[1] = n => e[2] # i
      BY <2>1, <2>4 DEF IInv, TypeOK
    <3> QED BY <3>1
  <2>8. pc[g] # "none"
    BY <2>1, <2>2 DEF GradInv, Fresh, Empty
  <2>9. dependencies[g][m] = Cardinality(Awaited(g, m) \ passed[g])
    BY <2>2, <2>3, <2>8 DEF GradInv, Books, BooksOf
  <2>10. IsFiniteSet(Awaited(g, m) \ passed[g])
    BY Zenon, <2>2, <2>3, FiniteAwaited, FS_Difference
  <2>11. Cardinality(Awaited(g, m) \ passed[g]) # 0
    BY <2>6, <2>7, <2>10, FS_EmptySet
  <2>12. Cardinality(Awaited(g, m) \ passed[g]) \in Nat
    BY <2>10, FS_CardinalityType
  <2> QED BY <2>9, <2>11, <2>12
<1> QED BY <1>1, Invariance, GradInvariance, PTL

\* A function of a pass is called at most once: the step that calls it finds that
\* it was not called before.
THEOREM FunctionCalledOnce == Spec => CalledOnce
<1>1. IInv /\ GradInv => \A f \in Frame : pc[f] = "eval" => task[f].fn \notin applied[task[f].g]
  <2> SUFFICES ASSUME IInv, GradInv, NEW f \in Frame, pc[f] = "eval"
               PROVE  task[f].fn \notin applied[task[f].g]
    OBVIOUS
  <2>1. pc[f] \in Working /\ task[f].fn \in Node
    BY DEF IInv, Evaluation, Working
  <2>2. HeldAs(f, task[f].g, task[f].fn)
    BY <2>1 DEF GradInv, HeldReady
  <2> QED BY Zenon, <2>2 DEF HeldAs, Untouched
<1>2. IInv /\ GradInv =>
        [\A f \in Frame : pc[f] = "eval" /\ pc'[f] = "apply"
                            => task[f].fn \notin applied[task[f].g]]_vars
  BY <1>1
<1> QED BY <1>2, Invariance, GradInvariance, PTL DEF CalledOnce
================================================================================
