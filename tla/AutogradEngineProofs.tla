------------------------ MODULE AutogradEngineProofs -------------------------
(***************************************************************************)
(* Every step of AutogradEngine keeps outstanding_tasks_ at or above the   *)
(* units still to be given back; hence the inductive invariant, and the    *)
(* theorems about types and about the reentrant pool.                      *)
(***************************************************************************)
EXTENDS AutogradEngineCalls

\* Steps that neither take a task from a queue nor give a unit back.
LEMMA CountedPush ==
  ASSUME IInv,
         \A h \in Frame : /\ pc'[h] \in Working <=> pc[h] \in Working
                          /\ pc[h] \in Working => task'[h] = task[h],
         \/ UNCHANGED <<heap, outstanding_tasks>>
         \/ \E q \in Queue, t \in NodeTask : push(q, t)
  PROVE  Counted'
<1> SUFFICES ASSUME NEW g \in GraphTask
             PROVE  Cardinality(Tokens(g)') <= outstanding_tasks'[g]
  BY DEF Counted
<1>0. /\ heap \in [Queue -> SUBSET NodeTask] /\ outstanding_tasks \in [GraphTask -> Nat]
      /\ IsFiniteSet(Tokens(g)) /\ Cardinality(Tokens(g)) \in Nat
      /\ Cardinality(Tokens(g)) <= outstanding_tasks[g]
  BY FiniteTokens, FS_CardinalityType DEF IInv, TypeOK, Counted
<1>1. CASE UNCHANGED <<heap, outstanding_tasks>>
  <2>1. Tokens(g)' = Tokens(g)
    BY <1>1 DEF Tokens
  <2> QED BY <1>0, <1>1, <2>1
<1>2. ASSUME NEW q \in Queue, NEW t \in NodeTask, push(q, t)
      PROVE  Cardinality(Tokens(g)') <= outstanding_tasks'[g]
  <2>1. t.g \in GraphTask
    BY DEF NodeTask
  <2>2. /\ heap' = [heap EXCEPT ![q] = @ \cup {t}]
        /\ outstanding_tasks' = [outstanding_tasks EXCEPT ![t.g] = @ + 1]
    BY <1>2 DEF push
  <2>3. CASE t.g = g
    <3>1. Tokens(g)' \in SUBSET (Tokens(g) \cup {<<q, t>>})
      BY <1>0, <2>2 DEF Tokens
    <3>2. /\ IsFiniteSet(Tokens(g) \cup {<<q, t>>})
          /\ Cardinality(Tokens(g) \cup {<<q, t>>}) \in {Cardinality(Tokens(g)), Cardinality(Tokens(g)) + 1}
      BY Zenon, <1>0, FS_AddElement
    <3>3. /\ Cardinality(Tokens(g)') <= Cardinality(Tokens(g) \cup {<<q, t>>})
          /\ Cardinality(Tokens(g)') \in Nat
      BY <3>1, <3>2, FS_Subset, FS_CardinalityType
    <3> QED BY <1>0, <2>2, <2>3, <3>2, <3>3
  <2>4. CASE t.g # g
    <3>1. \A p \in Queue \X NodeTask : p[2].g = g => (p[2] \in heap'[p[1]] <=> p[2] \in heap[p[1]])
      BY <1>0, <2>2, <2>4
    <3>2. Tokens(g)' = Tokens(g)
      BY <3>1 DEF Tokens
    <3> QED BY <1>0, <2>1, <2>2, <2>4, <3>2
  <2> QED BY <2>3, <2>4
<1> QED BY <1>1, <1>2

LEMMA CountedPop ==
  ASSUME IInv, NEW f \in Frame, Pop(f)
  PROVE  Counted'
<1> SUFFICES ASSUME NEW g \in GraphTask
             PROVE  Cardinality(Tokens(g)') <= outstanding_tasks'[g]
  BY DEF Counted
<1> DEFINE q == local_ready_queue(f)
<1>0. /\ heap \in [Queue -> SUBSET NodeTask] /\ outstanding_tasks \in [GraphTask -> Nat]
      /\ IsFiniteSet(Tokens(g)) /\ Cardinality(Tokens(g)) \in Nat
      /\ Cardinality(Tokens(g)) <= outstanding_tasks[g]
      /\ pc \in [Frame -> Labels] /\ task \in [Frame -> NodeTask \cup {NoTask}]
      /\ q \in Queue /\ pc[f] = "pop" /\ outstanding_tasks' = outstanding_tasks
  BY Zenon, FiniteTokens, FS_CardinalityType, QueueOf DEF IInv, TypeOK, Counted, Pop, taskVars
<1>1. PICK t \in heap[q] :
        /\ heap' = [heap EXCEPT ![q] = @ \ {t}]
        /\ \/ pc' = [pc EXCEPT ![f] = "loop"] /\ UNCHANGED task
           \/ \E l \in {"eval", "decrement"} :
                task' = [task EXCEPT ![f] = t] /\ pc' = [pc EXCEPT ![f] = l]
  BY Zenon DEF Pop, Goto, Top
<1>2. t \in NodeTask
  BY <1>0
<1>3. CASE pc' = [pc EXCEPT ![f] = "loop"] /\ UNCHANGED task
  <2>1. Tokens(g)' \in SUBSET Tokens(g)
    BY <1>0, <1>1, <1>3 DEF Tokens, Working
  <2> QED BY <1>0, <2>1, FS_Subset, FS_CardinalityType
<1>4. ASSUME NEW l \in {"eval", "decrement"},
             task' = [task EXCEPT ![f] = t], pc' = [pc EXCEPT ![f] = l]
      PROVE  Cardinality(Tokens(g)') <= outstanding_tasks'[g]
  <2>1. CASE t.g = g
    <3> DEFINE T == Tokens(g) \ {<<q, t>>}
    <3>1. <<q, t>> \in Tokens(g)
      BY <1>0, <1>1, <1>2, <2>1 DEF Tokens
    <3>2. Tokens(g)' \in SUBSET (T \cup {<<f, NoTask>>})
      <4> SUFFICES ASSUME NEW p \in Tokens(g)' PROVE p \in T \cup {<<f, NoTask>>}
        OBVIOUS
      <4>1. CASE p \in Queue \X NodeTask /\ p[2] \in heap'[p[1]] /\ p[2].g = g
        BY <1>0, <1>1, <4>1 DEF Tokens
      <4>2. CASE p \in Frame \X {NoTask} /\ pc'[p[1]] \in Working /\ task'[p[1]].g = g
        <5>1. CASE p[1] = f
          BY <4>2, <5>1
        <5>2. CASE p[1] # f
          <6>1. p \in Tokens(g)
            BY <1>0, <1>4, <4>2, <5>2 DEF Tokens
          <6>2. p[2] = NoTask
            BY <4>2
          <6> QED BY <1>2, <6>1, <6>2, NoTaskAssumption
        <5> QED BY <5>1, <5>2
      <4> QED BY <4>1, <4>2 DEF Tokens
    <3>3. IsFiniteSet(T) /\ Cardinality(T) = Cardinality(Tokens(g)) - 1
      BY <1>0, <3>1, FS_RemoveElement
    <3>4. /\ IsFiniteSet(T \cup {<<f, NoTask>>})
          /\ Cardinality(T \cup {<<f, NoTask>>}) \in {Cardinality(T), Cardinality(T) + 1}
      BY Zenon, <3>3, FS_AddElement
    <3>5. /\ Cardinality(Tokens(g)') <= Cardinality(T \cup {<<f, NoTask>>})
          /\ Cardinality(Tokens(g)') \in Nat
      BY <3>2, <3>4, FS_Subset, FS_CardinalityType
    <3> QED BY <1>0, <3>3, <3>4, <3>5
  <2>2. CASE t.g # g
    <3>1. Tokens(g)' \in SUBSET Tokens(g)
      BY <1>0, <1>1, <1>4, <2>2 DEF Tokens, Working
    <3> QED BY <1>0, <3>1, FS_Subset, FS_CardinalityType
  <2> QED BY <2>1, <2>2
<1> QED BY <1>1, <1>3, <1>4

LEMMA CountedDecrement ==
  ASSUME IInv, NEW f \in Frame, Decrement(f)
  PROVE  Counted'
<1> SUFFICES ASSUME NEW g \in GraphTask
             PROVE  Cardinality(Tokens(g)') <= outstanding_tasks'[g]
  BY DEF Counted
<1>0. /\ outstanding_tasks \in [GraphTask -> Nat]
      /\ IsFiniteSet(Tokens(g)) /\ Cardinality(Tokens(g)) \in Nat
      /\ Cardinality(Tokens(g)) <= outstanding_tasks[g]
      /\ pc \in [Frame -> Labels] /\ task' = task /\ heap' = heap
      /\ pc[f] = "decrement" /\ pc' = [pc EXCEPT ![f] = "check"]
      /\ outstanding_tasks' = [outstanding_tasks EXCEPT ![task[f].g] = @ - 1]
  BY FiniteTokens, FS_CardinalityType DEF IInv, TypeOK, Counted, Decrement, Goto
<1>1. CASE task[f].g = g
  <2>1. <<f, NoTask>> \in Tokens(g)
    BY <1>0, <1>1 DEF Tokens, Working
  <2>2. Tokens(g)' = Tokens(g) \ {<<f, NoTask>>}
    <3>1. \A h \in Frame : pc'[h] \in Working <=> pc[h] \in Working /\ h # f
      BY <1>0 DEF Working
    <3>2. <<f, NoTask>> \notin Queue \X NodeTask
      BY NoTaskAssumption
    <3>3. \A p : p \in Tokens(g)' <=> p \in Tokens(g) /\ p # <<f, NoTask>>
      BY <1>0, <3>1, <3>2 DEF Tokens
    <3> QED BY <3>3
  <2>3. Cardinality(Tokens(g)') = Cardinality(Tokens(g)) - 1
    BY Zenon, <1>0, <2>1, <2>2, FS_RemoveElement
  <2>4. outstanding_tasks'[g] = outstanding_tasks[g] - 1
    BY <1>0, <1>1
  <2> QED BY <1>0, <2>3, <2>4
<1>2. CASE task[f].g # g
  <2>1. Tokens(g)' = Tokens(g)
    BY <1>0, <1>2 DEF Tokens, Working
  <2> QED BY <1>0, <1>2, <2>1
<1> QED BY <1>1, <1>2

LEMMA CountedStep ==
  IInv /\ [Next]_vars => Counted'
<1> SUFFICES ASSUME IInv, [Next]_vars PROVE Counted'
  OBVIOUS
<1>0. /\ TypeOK /\ CallsNest /\ Evaluation
      /\ pc \in [Frame -> Labels] /\ GraphTask \subseteq Frame
      /\ \A h \in Frame : Busy(h) => task[h] \in NodeTask /\ task[h].g \in GraphTask
  BY Zenon, TaskOf DEF IInv, TypeOK, Frame
<1> DEFINE SameWork == \A h \in Frame : /\ pc'[h] \in Working <=> pc[h] \in Working
                                        /\ pc[h] \in Working => task'[h] = task[h]
<1>1. ASSUME NEW g \in GraphTask, NEW from, NEW cpu \in Queue, Enqueue(g, from, cpu)
      PROVE  \E q \in Queue, t \in NodeTask : push(q, t)
  <2> DEFINE q == ready_queue(cpu, device[root[g]])
             t == [g |-> g, fn |-> root[g], by |-> g]
  <2>1. q \in Queue /\ t \in NodeTask
    BY CallAssumption, ThreadAssumption DEF NodeTask, Frame, Queue, ready_queue
  <2> QED BY <1>1, <2>1 DEF Enqueue
<1>2. ASSUME NEW u \in User, NEW g \in GraphTask, Execute(u, g) PROVE Counted'
  <2>1. Enqueue(g, u, u) /\ u \in Queue
    BY <1>2 DEF Execute, Queue
  <2>2. SameWork
    BY <1>0, <1>2 DEF Execute, Enqueue, Goto, Working
  <2>3. \E q \in Queue, t \in NodeTask : push(q, t)
    BY <1>1, <2>1
  <2> QED BY <2>2, <2>3, CountedPush
<1>3. ASSUME NEW f \in Frame, NEW g \in GraphTask, ReentrantExecute(f, g) PROVE Counted'
  <2>1. Enqueue(g, f, local_ready_queue(f)) /\ local_ready_queue(f) \in Queue
    BY <1>0, <1>3, QueueOf DEF ReentrantExecute
  <2>2. PICK l \in {"loop", "add_to_pool"} : pc' = [pc EXCEPT ![f] = "call", ![g] = l]
    BY <1>3 DEF ReentrantExecute
  <2>3. pc[f] = "apply" /\ pc[g] = "none" /\ task' = task
    BY <1>3 DEF ReentrantExecute, Enqueue
  <2>4. SameWork
    BY <1>0, <2>2, <2>3 DEF Working
  <2>5. \E q \in Queue, t \in NodeTask : push(q, t)
    BY <1>1, <2>1
  <2> QED BY <2>4, <2>5, CountedPush
<1>4. ASSUME NEW f \in GraphTask, LoopExit(f) PROVE Counted'
  <2>1. \A h \in Frame \ {f} : pc'[h] # pc[h] =>
          h = parent[f] /\ f \in executing /\ pc'[h] \in {"throw", "apply"}
    BY Zenon, <1>0, <1>4 DEF LoopExit, Goto, ReturnTo, CallsNest
  <2>2. \A h \in Frame \ {f} : pc'[h] # pc[h] => pc[h] = "call" /\ pc'[h] \in {"throw", "apply"}
    BY <1>0, <2>1 DEF CallsNest
  <2>3. pc'[f] = "exited" /\ pc[f] = "loop" /\ UNCHANGED <<task, heap, outstanding_tasks>>
    BY <1>0, <1>4 DEF LoopExit, Goto, ReturnTo, taskVars
  <2>4. SameWork
    BY <2>2, <2>3 DEF Working
  <2> QED BY <2>3, <2>4, CountedPush
<1>5. ASSUME NEW g \in GraphTask, AddThreadPoolTask(g) PROVE Counted'
  <2>1. SameWork
    BY <1>0, <1>5 DEF AddThreadPoolTask, Goto, Working
  <2> QED BY <1>5, <2>1, CountedPush DEF AddThreadPoolTask, taskVars
<1>6. ASSUME NEW g \in GraphTask, WaitReturns(g) PROVE Counted'
  <2>1. \A h \in Frame : pc'[h] # pc[h] =>
          h = parent[g] /\ g \in executing /\ pc'[h] \in {"throw", "apply"}
    BY <1>0, <1>6 DEF WaitReturns, ReturnTo
  <2>2. SameWork
    BY <1>0, <1>6, <2>1 DEF CallsNest, Working, WaitReturns
  <2> QED BY <1>6, <2>2, CountedPush DEF WaitReturns, taskVars
<1>7. CASE PoolStep
  <2>1. CASE PoolThreadWaits
    <3>1. SameWork
      BY <2>1 DEF PoolThreadWaits
    <3> QED BY <2>1, <3>1, CountedPush DEF PoolThreadWaits, taskVars
  <2>2. CASE PoolThreadTakes
    <3> DEFINE g == Head(graphtasks_queue)
    <3>1. PICK l \in {"loop", "exited"} : pc' = [pc EXCEPT ![g] = l]
      BY Zenon, <2>2 DEF PoolThreadTakes, Goto
    <3>2. g = graphtasks_queue[1] /\ 1 \in 1..Len(graphtasks_queue) /\ g \in GraphTask
      BY <2>2 DEF PoolThreadTakes, IInv, TypeOK
    <3>3. pc[g] = "queued"
      BY <3>2 DEF IInv, PoolQueue
    <3>4. SameWork
      BY <1>0, <2>2, <3>1, <3>2, <3>3 DEF PoolThreadTakes, Working
    <3> QED BY <2>2, <3>4, CountedPush DEF PoolThreadTakes, taskVars
  <2> QED BY <1>7, <2>1, <2>2 DEF PoolStep
<1>8. CASE UNCHANGED vars
  BY <1>8, CountedPush DEF vars, taskVars
<1>9. ASSUME NEW f \in Frame, FrameStep(f), ~LoopExit(f), ~Pop(f), ~Decrement(f)
      PROVE  Counted'
  <2>1. \A h \in Frame \ {f} : pc'[h] = pc[h] /\ task'[h] = task[h]
    BY <1>0, <1>9, FrameMoves
  <2> USE DEF Goto, Working
  <2>2. /\ pc'[f] \in Working <=> pc[f] \in Working
        /\ pc[f] \in Working => task'[f] = task[f]
    <3>1. CASE LoopAgain(f)  BY <1>0, <3>1 DEF LoopAgain
    <3>2. CASE Evaluate(f)
      <4>1. pc[f] = "eval" /\ task' = task /\ \E l \in {"apply", "decrement"} : pc' = [pc EXCEPT ![f] = l]
        BY <3>2 DEF Evaluate
      <4> QED BY <1>0, <4>1
    <3>3. CASE ApplyThrows(f)  BY <1>0, <3>3 DEF ApplyThrows
    <3>4. CASE ApplyReturns(f)  BY <1>0, <3>4 DEF ApplyReturns
    <3>5. CASE SkipEdge(f)  BY <1>0, <3>5 DEF SkipEdge, NextEdge
    <3>6. CASE PassEdge(f)
      <4>1. pc[f] = "propagate" /\ task' = task
        BY Zenon, <3>6 DEF PassEdge
      <4>2. pc' = pc \/ \E l \in {"throw", "decrement"} : pc' = [pc EXCEPT ![f] = l]
        BY Zenon, <3>6 DEF PassEdge, DependencyNotFound, NextEdge
      <4> QED BY <1>0, <4>1, <4>2
    <3>7. CASE SetException(f)  BY <1>0, <3>7 DEF SetException
    <3>8. CASE SignalException(f)  BY <1>0, <3>8 DEF SignalException
    <3>9. CASE SetError(f)  BY <1>0, <3>9 DEF SetError
    <3>10. CASE CheckCompleted(f)  BY <1>0, <3>10 DEF CheckCompleted
    <3>11. CASE MarkCompleted(f)  BY <1>0, <3>11 DEF MarkCompleted
    <3>12. CASE AwaitFuture(f)  BY <1>0, <3>12 DEF AwaitFuture
    <3>13. CASE RunCallback(f)  BY <1>0, <3>13 DEF RunCallback
    <3>14. CASE PostProcessingThrows(f)  BY <1>0, <3>14 DEF PostProcessingThrows
    <3>15. CASE CompleteFuture(f)  BY <1>0, <3>15 DEF CompleteFuture
    <3>16. CASE Notify(f)  BY <1>0, <3>16 DEF Notify
    <3> QED BY Zenon, <1>9, <3>1, <3>2, <3>3, <3>4, <3>5, <3>6, <3>7, <3>8, <3>9, <3>10,
               <3>11, <3>12, <3>13, <3>14, <3>15, <3>16 DEF FrameStep
  <2>3. SameWork
    BY <2>1, <2>2
  <2>4. \/ UNCHANGED <<heap, outstanding_tasks>>
        \/ \E q \in Queue, t \in NodeTask : push(q, t)
    <3>1. CASE PassEdge(f)
      <4> DEFINE g == task[f].g
                 m == next_edges[task[f].fn][edge[f]]
                 q == ready_queue(cpu_ready_queue[g], device[m])
                 t == [g |-> g, fn |-> m, by |-> f]
      <4>1. g \in GraphTask /\ m \in Node
        <5>1. g \in GraphTask /\ task[f].fn \in Node /\ edge[f] \in 1..Len(next_edges[task[f].fn]) /\ m # NoNode
          BY Zenon, <1>0, <3>1 DEF PassEdge, Busy, Evaluation
        <5>2. next_edges[task[f].fn] \in Seq(Node \cup {NoNode})
          BY <5>1, NextEdges
        <5> QED BY <5>1, <5>2
      <4>2. q \in Queue /\ t \in NodeTask
        BY Zenon, <1>0, <4>1, QueueOf, ThreadAssumption DEF NodeTask
      <4>3. UNCHANGED <<heap, outstanding_tasks>> \/ push(q, t)
        BY Zenon, <3>1 DEF PassEdge, DependencyNotFound, Deliver
      <4> QED BY <4>2, <4>3
    <3>2. CASE Notify(f)
      <4> DEFINE g == task[f].g
                 q == ready_queue(cpu_ready_queue[g], owner[g])
                 t == [g |-> g, fn |-> NoNode, by |-> f]
      <4>1. g \in GraphTask
        BY Zenon, <1>0, <3>2 DEF Notify, Busy, Finishing
      <4>2. q \in Queue /\ t \in NodeTask
        BY Zenon, <1>0, <4>1, QueueOf DEF NodeTask, TypeOK
      <4>3. UNCHANGED <<heap, outstanding_tasks>> \/ push(q, t)
        BY Zenon, <3>2 DEF Notify
      <4> QED BY Zenon, <4>2, <4>3
    <3>3. CASE ~PassEdge(f) /\ ~Notify(f)
      BY Zenon, <1>9, <3>3 DEF FrameStep, LoopAgain, Evaluate, ApplyThrows, ApplyReturns, SkipEdge,
         SetException, SignalException, SetError, CheckCompleted, MarkCompleted, AwaitFuture,
         RunCallback, PostProcessingThrows, CompleteFuture, taskVars
    <3> QED BY <3>1, <3>2, <3>3
  <2> QED BY <2>3, <2>4, CountedPush
<1>10. ASSUME NEW f \in Frame, LoopExit(f) PROVE f \in GraphTask
  BY Zenon, <1>10 DEF LoopExit
<1> QED BY <1>2, <1>3, <1>4, <1>5, <1>6, <1>7, <1>8, <1>9, <1>10, CountedPop, CountedDecrement
        DEF Next, CallStep, HandOver, Finished

------------------------------------------------------------------------------
LEMMA InitIInv == Init => IInv
<1> SUFFICES ASSUME Init PROVE IInv
  OBVIOUS
<1>1. TypeOK
  <2>1. (CHOOSE q \in Queue : TRUE) \in Queue
    BY ThreadAssumption DEF Queue
  <2> QED BY <2>1 DEF Init, TypeOK, Labels, Working, Finishing, Busy, Frame
<1>2. CallsNest /\ PoolQueue /\ Evaluation
  BY ThreadAssumption DEF Init, CallsNest, PoolQueue, Evaluation, Frame
<1>3. Counted
  <2>1. ASSUME NEW g \in GraphTask PROVE Tokens(g) = {}
    BY DEF Init, Tokens, Working
  <2>2. ASSUME NEW g \in GraphTask PROVE Cardinality(Tokens(g)) = 0 /\ outstanding_tasks[g] = 0
    BY Zenon, <2>1, FS_EmptySet DEF Init
  <2> QED BY <2>2 DEF Counted
<1> QED BY <1>1, <1>2, <1>3 DEF IInv

LEMMA IInvStep == IInv /\ [Next]_vars => IInv'
<1> SUFFICES ASSUME IInv, [Next]_vars PROVE IInv'
  OBVIOUS
<1>1. TypeOK'
  <2>1. CASE UNCHANGED vars
    BY <2>1 DEF IInv, TypeOK, vars, taskVars, graphVars, callVars, poolVars, Busy
  <2> QED BY <2>1, TypeCalls, TypePool, TypeFrame DEF Next, CallStep, HandOver, Finished
<1> QED BY <1>1, CallsStep, EvaluationStep, CountedStep DEF IInv

\* The inductive invariant holds in every reachable state.
THEOREM Invariance == Spec => []IInv
BY InitIInv, IInvStep, PTL DEF Spec

\* Types are kept in every execution, for any graph, any set of calls and any
\* number of devices; in particular outstanding_tasks_ is never decremented
\* below zero and "dependencies" never wraps (thread_main, evaluate_function).
THEOREM TypeCorrect == Spec => []TypeOK
<1>1. IInv => TypeOK
  BY DEF IInv
<1> QED BY <1>1, Invariance, PTL

\* No task handed to the reentrant pool is left without a thread, however the
\* pool threads that arrive, wait and leave interleave with
\* add_thread_pool_task.
THEOREM PoolHasEnoughWorkers == Spec => []EnoughWorkers
<1>1. Init => EnoughWorkers
  BY DEF Init, EnoughWorkers
<1>2. IInv /\ EnoughWorkers /\ [Next]_vars => EnoughWorkers'
  <2> SUFFICES ASSUME IInv, EnoughWorkers, [Next]_vars PROVE EnoughWorkers'
    OBVIOUS
  <2>0. /\ TypeOK /\ num_workers \in Nat /\ arriving \in Nat
        /\ graphtasks_queue \in Seq(GraphTask) /\ Len(graphtasks_queue) \in Nat
    BY DEF IInv, TypeOK
  <2> USE DEF EnoughWorkers
  <2>1. CASE UNCHANGED poolVars
    BY <2>1 DEF poolVars
  <2>2. ASSUME NEW g \in GraphTask, AddThreadPoolTask(g) PROVE EnoughWorkers'
    <3>1. Len(graphtasks_queue') = Len(graphtasks_queue) + 1
      BY <2>0, <2>2 DEF AddThreadPoolTask
    <3> QED BY <2>0, <2>2, <3>1 DEF AddThreadPoolTask
  <2>3. ASSUME NEW f \in Frame, LoopExit(f) PROVE EnoughWorkers'
    BY <2>0, <2>3 DEF LoopExit
  <2>4. CASE PoolThreadWaits
    BY <2>0, <2>4 DEF PoolThreadWaits
  <2>5. CASE PoolThreadTakes
    <3>1. Len(graphtasks_queue') = Len(graphtasks_queue) - 1
      BY <2>0, <2>5 DEF PoolThreadTakes
    <3> QED BY <2>0, <2>5, <3>1 DEF PoolThreadTakes
  <2>6. ASSUME NEW f \in Frame, FrameStep(f), ~LoopExit(f) PROVE UNCHANGED poolVars
    BY <2>0, <2>6, FrameMoves
  <2>7. ASSUME NEW f \in Frame, CallStep(f) PROVE UNCHANGED poolVars
    BY <2>7 DEF CallStep, ReentrantExecute
  <2>8. ASSUME NEW u \in User, NEW g \in GraphTask, Execute(u, g) PROVE UNCHANGED poolVars
    BY <2>8 DEF Execute
  <2>9. ASSUME NEW g \in GraphTask, WaitReturns(g) PROVE UNCHANGED poolVars
    BY <2>9 DEF WaitReturns
  <2>10. CASE UNCHANGED vars
    BY <2>1, <2>10 DEF vars
  <2> QED BY <2>1, <2>2, <2>3, <2>4, <2>5, <2>6, <2>7, <2>8, <2>9, <2>10
          DEF Next, HandOver, PoolStep, Finished
<1> QED BY <1>1, <1>2, Invariance, PTL DEF Spec

==============================================================================
