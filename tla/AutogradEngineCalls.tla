------------------------- MODULE AutogradEngineCalls -------------------------
(***************************************************************************)
(* Every step of AutogradEngine keeps calls nested, the pool's queue       *)
(* sound, and a frame's loop over the edges of its function in bounds.     *)
(***************************************************************************)
EXTENDS AutogradEngineTypes

\* Where a frame is when thread_main is running.
Running == ({"loop", "pop"} \cup Working \cup Finishing) \ {"call"}

\* All but LoopExit move one running frame and touch neither calls nor pool.
LEMMA FrameMoves ==
  ASSUME TypeOK, NEW f \in Frame, FrameStep(f), ~LoopExit(f)
  PROVE  /\ pc[f] \in Running
         /\ \E l \in Running : pc' = [pc EXCEPT ![f] = l]
         /\ \A h \in Frame \ {f} : task'[h] = task[h] /\ edge'[h] = edge[h]
         /\ UNCHANGED callVars /\ UNCHANGED poolVars
<1> USE DEF Running, Working, Finishing, Goto
<1>y. task \in [Frame -> NodeTask \cup {NoTask}] /\ edge \in [Frame -> Nat]
  BY DEF TypeOK
<1>1. CASE LoopAgain(f)  BY Zenon, <1>1 DEF LoopAgain
<1>2. CASE Pop(f)  BY <1>y, <1>2 DEF Pop
<1>3. CASE Evaluate(f)  BY <1>3 DEF Evaluate
<1>4. CASE ApplyThrows(f)  BY Zenon, <1>4 DEF ApplyThrows
<1>5. CASE ApplyReturns(f)  BY Zenon, <1>y, <1>5 DEF ApplyReturns
<1>6. pc = [pc EXCEPT ![f] = pc[f]]
  BY DEF TypeOK
<1>7. NextEdge(f) => /\ \E l \in {pc[f], "decrement"} : pc' = [pc EXCEPT ![f] = l]
                     /\ \A h \in Frame \ {f} : edge'[h] = edge[h]
  BY <1>6, <1>y DEF NextEdge
<1>8. CASE SkipEdge(f)  BY <1>7, <1>8 DEF SkipEdge
<1>9. CASE PassEdge(f)  BY <1>y, <1>7, <1>9 DEF PassEdge, DependencyNotFound
<1>10. CASE SetException(f)  BY Zenon, <1>10 DEF SetException
<1>11. CASE SignalException(f)  BY Zenon, <1>11 DEF SignalException
<1>12. CASE SetError(f)  BY Zenon, <1>12 DEF SetError
<1>13. CASE Decrement(f)  BY Zenon, <1>13 DEF Decrement
<1>14. CASE CheckCompleted(f)  BY <1>y, <1>14 DEF CheckCompleted
<1>15. CASE MarkCompleted(f)  BY Zenon, <1>15 DEF MarkCompleted
<1>16. CASE AwaitFuture(f)  BY Zenon, <1>16 DEF AwaitFuture
<1>17. CASE RunCallback(f)  BY <1>6, <1>17 DEF RunCallback
<1>18. CASE PostProcessingThrows(f)  BY Zenon, <1>18 DEF PostProcessingThrows
<1>19. CASE CompleteFuture(f)  BY Zenon, <1>19 DEF CompleteFuture
<1>20. CASE Notify(f)  BY Zenon, <1>y, <1>20 DEF Notify
<1> QED BY Zenon, <1>1, <1>2, <1>3, <1>4, <1>5, <1>8, <1>9, <1>10, <1>11, <1>12, <1>13,
           <1>14, <1>15, <1>16, <1>17, <1>18, <1>19, <1>20 DEF FrameStep

\* Where a call returns to, and with which result.
LEMMA Returns ==
  ASSUME IInv, NEW g \in executing
  PROVE  ReturnTo(g, pc) =
           IF parent[g] \in Frame
           THEN [pc EXCEPT ![parent[g]] =
                   IF future_result[g] = "error" THEN "throw" ELSE "apply"]
           ELSE pc
BY Zenon DEF IInv, TypeOK, ReturnTo

LEMMA CallsStep ==
  IInv /\ [Next]_vars => CallsNest' /\ PoolQueue'
<1> SUFFICES ASSUME IInv, [Next]_vars PROVE CallsNest' /\ PoolQueue'
  OBVIOUS
<1>0. CallsNest /\ PoolQueue /\ pc \in [Frame -> Labels] /\ executing \subseteq GraphTask
      /\ graphtasks_queue \in Seq(GraphTask) /\ GraphTask \subseteq Frame
      /\ parent \in [GraphTask -> Frame \cup User \cup {NoTask}]
  BY DEF IInv, TypeOK, Frame
<1>d. \A i \in 1..Len(graphtasks_queue) : graphtasks_queue[i] \in GraphTask
  BY <1>0
<1>1. ASSUME NEW u \in User, NEW g \in GraphTask, Execute(u, g)
      PROVE  CallsNest' /\ PoolQueue'
  <2>1. /\ pc' = [pc EXCEPT ![g] = "loop"] /\ pc[g] = "none"
        /\ parent' = [parent EXCEPT ![g] = u] /\ executing' = executing \cup {g}
        /\ \A h \in executing : parent[h] # u
        /\ pooled' = pooled /\ graphtasks_queue' = graphtasks_queue
    BY <1>1 DEF Execute, Enqueue, Goto, poolVars
  <2>2. u \notin Frame /\ u # NoTask /\ g \notin executing
    BY <1>0, <2>1, ThreadAssumption, NoTaskAssumption DEF Frame, CallsNest
  <2>3. CallsNest'
    BY <1>0, <2>1, <2>2 DEF CallsNest
  <2>4. PoolQueue'
    BY <1>0, <1>d, <2>1 DEF PoolQueue
  <2> QED BY <2>3, <2>4
<1>2. ASSUME NEW f \in Frame, NEW g \in GraphTask, ReentrantExecute(f, g)
      PROVE  CallsNest' /\ PoolQueue'
  <2>1. /\ pc[g] = "none" /\ pc[f] = "apply"
        /\ parent' = [parent EXCEPT ![g] = f] /\ executing' = executing \cup {g}
        /\ graphtasks_queue' = graphtasks_queue
    BY <1>2 DEF ReentrantExecute, Enqueue, poolVars
  <2>2. \/ pc' = [pc EXCEPT ![f] = "call", ![g] = "add_to_pool"] /\ pooled' = pooled \cup {g}
        \/ pc' = [pc EXCEPT ![f] = "call", ![g] = "loop"] /\ pooled' = pooled
    BY <1>2 DEF ReentrantExecute
  <2>3. g \notin executing /\ f # NoTask /\ \A h \in executing : parent[h] # f
    BY <1>0, <2>1, NoTaskAssumption DEF CallsNest
  <2>4. CallsNest'
    <3>1. CASE pc' = [pc EXCEPT ![f] = "call", ![g] = "add_to_pool"] /\ pooled' = pooled \cup {g}
      BY <1>0, <2>1, <2>3, <3>1 DEF CallsNest
    <3>2. CASE pc' = [pc EXCEPT ![f] = "call", ![g] = "loop"] /\ pooled' = pooled
      BY <1>0, <2>1, <2>3, <3>2 DEF CallsNest
    <3> QED BY <2>2, <3>1, <3>2
  <2>5. PoolQueue'
    BY <1>0, <1>d, <2>1, <2>2 DEF PoolQueue
  <2> QED BY <2>4, <2>5
<1>3. ASSUME NEW f \in Frame, FrameStep(f), ~LoopExit(f)
      PROVE  CallsNest' /\ PoolQueue'
  <2>1. /\ pc[f] \in Running
        /\ UNCHANGED <<parent, executing, pooled, graphtasks_queue>>
    BY <1>3, FrameMoves DEF IInv, callVars, poolVars
  <2>2. PICK l \in Running : pc' = [pc EXCEPT ![f] = l]
    BY <1>3, FrameMoves DEF IInv
  <2>3. CallsNest'
    BY <1>0, <2>1, <2>2 DEF CallsNest, Running, Working, Finishing
  <2>4. PoolQueue'
    BY <1>0, <1>d, <2>1, <2>2 DEF PoolQueue, Running, Working, Finishing
  <2> QED BY <2>3, <2>4
<1>4. ASSUME NEW f \in GraphTask, LoopExit(f)
      PROVE  CallsNest' /\ PoolQueue'
  <2>1. pc[f] = "loop" /\ UNCHANGED <<parent, pooled, graphtasks_queue>>
    BY <1>4 DEF LoopExit
  <2>2. CASE f \in pooled /\ Goto(f, "exited") /\ UNCHANGED executing
    <3>1. CallsNest'
      BY <1>0, <2>1, <2>2 DEF CallsNest, Goto
    <3>2. PoolQueue'
      BY <1>0, <1>d, <2>1, <2>2 DEF PoolQueue, Goto
    <3> QED BY <3>1, <3>2
  <2>3. CASE f \notin pooled /\ pc' = [ReturnTo(f, pc) EXCEPT ![f] = "exited"]
             /\ executing' = executing \ {f}
    <3>1. f \in executing
      BY <1>0, <2>1, <2>3 DEF CallsNest
    <3>2. PICK l \in {"apply", "throw"} :
            pc' = IF parent[f] \in Frame THEN [pc EXCEPT ![parent[f]] = l, ![f] = "exited"]
                  ELSE [pc EXCEPT ![f] = "exited"]
      BY Zenon, <2>3, <3>1, Returns
    <3>3. parent[f] \in Frame => pc[parent[f]] = "call"
      BY <1>0, <3>1 DEF CallsNest
    <3>4. CallsNest'
      <4>1. \A h \in Frame : pc'[h] = IF h = f THEN "exited" ELSE IF h = parent[f] THEN l ELSE pc[h]
        BY <1>0, <2>1, <3>2, <3>3
      <4>2. \A h \in executing' : h \in GraphTask /\ h # f /\ h \in executing /\ parent[h] # parent[f]
        BY <1>0, <2>3, <3>1 DEF CallsNest
      <4>3. \A h \in executing' : /\ parent[h] \in Frame => pc'[parent[h]] = "call"
                                  /\ parent[h] # NoTask
                                  /\ pc'[h] # "none"
        BY <1>0, <2>1, <4>1, <4>2 DEF CallsNest
      <4>4. \A h \in GraphTask \ pooled : pc'[h] \notin {"none", "exited"} => h \in executing'
        BY <1>0, <2>3, <3>3, <4>1 DEF CallsNest
      <4>5. \A h \in GraphTask : pc'[h] \in {"add_to_pool", "queued"} => h \in pooled
        BY <1>0, <4>1 DEF CallsNest
      <4> QED BY <1>0, <2>1, <4>2, <4>3, <4>4, <4>5 DEF CallsNest
    <3>5. PoolQueue'
      BY <1>0, <1>d, <2>1, <3>2, <3>3 DEF PoolQueue
    <3> QED BY <3>4, <3>5
  <2> QED BY <1>4, <2>2, <2>3 DEF LoopExit
<1>5. ASSUME NEW g \in GraphTask, AddThreadPoolTask(g)
      PROVE  CallsNest' /\ PoolQueue'
  <2>1. /\ pc[g] = "add_to_pool" /\ pc' = [pc EXCEPT ![g] = "queued"]
        /\ UNCHANGED <<parent, executing, pooled>>
        /\ graphtasks_queue' = Append(graphtasks_queue, g)
    BY <1>5 DEF AddThreadPoolTask, callVars, Goto
  <2>2. CallsNest'
    BY <1>0, <2>1 DEF CallsNest
  <2>3. /\ Len(graphtasks_queue') = Len(graphtasks_queue) + 1
        /\ graphtasks_queue'[Len(graphtasks_queue) + 1] = g
        /\ \A i \in 1..Len(graphtasks_queue) : graphtasks_queue'[i] = graphtasks_queue[i]
    BY <1>0, <2>1
  <2>4. \A i \in 1..Len(graphtasks_queue) : graphtasks_queue[i] # g
    BY <1>0, <2>1 DEF PoolQueue
  <2>5. PoolQueue'
    BY <1>0, <1>d, <2>1, <2>3, <2>4 DEF PoolQueue
  <2> QED BY <2>2, <2>5
<1>6. ASSUME NEW g \in GraphTask, WaitReturns(g)
      PROVE  CallsNest' /\ PoolQueue'
  <2>1. /\ g \in executing /\ g \in pooled
        /\ UNCHANGED <<parent, pooled, graphtasks_queue>>
        /\ executing' = executing \ {g} /\ pc' = ReturnTo(g, pc)
    BY <1>6 DEF WaitReturns, poolVars
  <2>2. PICK l \in {"apply", "throw"} :
          pc' = IF parent[g] \in Frame THEN [pc EXCEPT ![parent[g]] = l] ELSE pc
    BY <2>1, Returns
  <2>3. parent[g] \in Frame => pc[parent[g]] = "call"
    BY <1>0, <2>1 DEF CallsNest
  <2>4. CallsNest'
    BY <1>0, <2>1, <2>2, <2>3 DEF CallsNest
  <2>5. PoolQueue'
    BY <1>0, <1>d, <2>1, <2>2, <2>3 DEF PoolQueue
  <2> QED BY <2>4, <2>5
<1>7. CASE PoolThreadWaits
  BY <1>0, <1>7 DEF PoolThreadWaits, callVars, CallsNest, PoolQueue
<1>8. CASE PoolThreadTakes
  <2> DEFINE g == Head(graphtasks_queue)
  <2>1. /\ graphtasks_queue # <<>> /\ graphtasks_queue' = Tail(graphtasks_queue)
        /\ UNCHANGED <<parent, executing, pooled>>
    BY <1>8 DEF PoolThreadTakes, callVars
  <2>2. PICK l \in {"loop", "exited"} : pc' = [pc EXCEPT ![g] = l]
    BY Zenon, <1>8 DEF PoolThreadTakes, Goto
  <2>3. /\ g = graphtasks_queue[1] /\ 1 \in 1..Len(graphtasks_queue)
        /\ Len(graphtasks_queue') = Len(graphtasks_queue) - 1
        /\ Len(graphtasks_queue) \in Nat
        /\ \A i \in 1..Len(graphtasks_queue') : /\ graphtasks_queue'[i] = graphtasks_queue[i+1]
                                                /\ i + 1 \in 1..Len(graphtasks_queue)
    BY <1>0, <2>1
  <2>4. g \in GraphTask /\ pc[g] = "queued" /\ g \in pooled
    BY <1>0, <1>d, <2>3 DEF PoolQueue, CallsNest
  <2>5. CallsNest'
    BY <1>0, <2>1, <2>2, <2>4 DEF CallsNest
  <2>6. \A i \in 1..Len(graphtasks_queue') : graphtasks_queue'[i] # g
    <3> SUFFICES ASSUME NEW i \in 1..Len(graphtasks_queue'), graphtasks_queue'[i] = g PROVE FALSE
      OBVIOUS
    <3>1. i + 1 = 1
      BY <1>0, <2>3 DEF PoolQueue
    <3> QED BY <3>1
  <2>7. \A i, j \in 1..Len(graphtasks_queue') : graphtasks_queue'[i] = graphtasks_queue'[j] => i = j
    BY <1>0, <2>3 DEF PoolQueue
  <2>8. \A i \in 1..Len(graphtasks_queue') : pc'[graphtasks_queue'[i]] = "queued"
    BY <1>0, <1>d, <2>2, <2>3, <2>4, <2>6 DEF PoolQueue
  <2> QED BY <2>5, <2>7, <2>8 DEF PoolQueue
<1>9. CASE UNCHANGED vars
  BY <1>0, <1>9 DEF vars, callVars, poolVars, CallsNest, PoolQueue
<1>10. ASSUME NEW f \in Frame, LoopExit(f) PROVE f \in GraphTask
  BY Zenon, <1>10 DEF LoopExit
<1> QED BY <1>1, <1>2, <1>3, <1>4, <1>5, <1>6, <1>7, <1>8, <1>9, <1>10
        DEF Next, CallStep, HandOver, PoolStep, Finished

------------------------------------------------------------------------------
(***************************************************************************)
(* The loop over a function's outputs.                                     *)
(***************************************************************************)
LEMMA EvaluationStep ==
  IInv /\ [Next]_vars => Evaluation'
<1> SUFFICES ASSUME IInv, [Next]_vars PROVE Evaluation'
  OBVIOUS
<1>0. /\ TypeOK /\ CallsNest /\ Evaluation /\ PoolQueue
      /\ pc \in [Frame -> Labels] /\ GraphTask \subseteq Frame
      /\ task \in [Frame -> NodeTask \cup {NoTask}]
      /\ edge \in [Frame -> Nat]
  BY DEF IInv, TypeOK, Frame
\* Steps that touch neither the tasks nor the loops.
<1>1. ASSUME UNCHANGED <<task, edge>>,
             \A h \in Frame :
               /\ pc'[h] = "propagate" => pc[h] = "propagate"
               /\ pc'[h] \in {"eval", "apply", "call"} =>
                    pc[h] \in {"eval", "apply", "call", "propagate"}
      PROVE  Evaluation'
  BY <1>0, <1>1 DEF Evaluation
<1>2. ASSUME NEW u \in User, NEW g \in GraphTask, Execute(u, g) PROVE Evaluation'
  BY <1>0, <1>1, <1>2 DEF Execute, Enqueue, Goto
<1>3. ASSUME NEW f \in Frame, NEW g \in GraphTask, ReentrantExecute(f, g) PROVE Evaluation'
  <2>1. PICK l \in {"loop", "add_to_pool"} : pc' = [pc EXCEPT ![f] = "call", ![g] = l]
    BY <1>3 DEF ReentrantExecute
  <2>2. pc[f] = "apply" /\ UNCHANGED <<task, edge>>
    BY <1>3 DEF ReentrantExecute, Enqueue
  <2> QED BY <1>0, <1>1, <2>1, <2>2
<1>4. ASSUME NEW f \in GraphTask, LoopExit(f) PROVE Evaluation'
  <2>1. \A h \in Frame \ {f} : pc'[h] # pc[h] => h = parent[f] /\ f \in executing
    BY Zenon, <1>0, <1>4 DEF LoopExit, Goto, ReturnTo, CallsNest
  <2>2. \A h \in Frame : pc'[h] # "propagate" \/ pc'[h] = pc[h]
    BY Zenon, <1>0, <1>4 DEF LoopExit, Goto, ReturnTo
  <2>3. \A h \in Frame : pc'[h] # pc[h] => h = f \/ pc[h] = "call"
    BY <1>0, <2>1 DEF CallsNest
  <2>4. pc'[f] = "exited" /\ UNCHANGED <<task, edge>>
    BY <1>0, <1>4 DEF LoopExit, Goto, ReturnTo
  <2> QED BY <1>1, <2>2, <2>3, <2>4
<1>5. ASSUME NEW g \in GraphTask, AddThreadPoolTask(g) PROVE Evaluation'
  BY <1>0, <1>1, <1>5 DEF AddThreadPoolTask, Goto
<1>6. ASSUME NEW g \in GraphTask, WaitReturns(g) PROVE Evaluation'
  <2>1. \A h \in Frame : pc'[h] # pc[h] => h = parent[g] /\ g \in executing /\ pc'[h] # "propagate"
    BY <1>0, <1>6 DEF WaitReturns, ReturnTo
  <2>2. \A h \in Frame : pc'[h] # pc[h] => pc[h] = "call" /\ pc'[h] # "propagate"
    BY <1>0, <2>1 DEF CallsNest
  <2>3. UNCHANGED <<task, edge>>
    BY <1>6 DEF WaitReturns
  <2> QED BY <1>1, <2>2, <2>3
<1>7. CASE PoolStep
  <2>1. CASE PoolThreadWaits
    BY <1>0, <1>1, <2>1 DEF PoolThreadWaits
  <2>2. CASE PoolThreadTakes
    BY <1>0, <1>1, <2>2 DEF PoolThreadTakes, Goto
  <2> QED BY <1>7, <2>1, <2>2 DEF PoolStep
<1>8. CASE UNCHANGED vars
  BY <1>0, <1>1, <1>8 DEF vars
<1>9. ASSUME NEW f \in Frame, FrameStep(f), ~LoopExit(f) PROVE Evaluation'
  <2>1. \A h \in Frame \ {f} : pc'[h] = pc[h] /\ task'[h] = task[h] /\ edge'[h] = edge[h]
    BY <1>0, <1>9, FrameMoves
  <2> SUFFICES /\ pc'[f] \in {"eval", "apply", "call", "propagate"} => task'[f].fn \in Node
               /\ pc'[f] = "propagate" => edge'[f] \in 1..Len(next_edges[task'[f].fn])
    BY <1>0, <2>1 DEF Evaluation
  <2>2. CASE LoopAgain(f)  BY <1>0, <2>2 DEF LoopAgain, Goto
  <2>3. CASE Pop(f)
    <3>1. PICK t \in Top(local_ready_queue(f)) :
            \/ pc' = [pc EXCEPT ![f] = "loop"]
            \/ /\ task' = [task EXCEPT ![f] = t]
               /\ pc' = [pc EXCEPT ![f] = IF t.fn # NoNode /\ ~has_error[t.g]
                                          THEN "eval" ELSE "decrement"]
      BY <2>3 DEF Pop, Goto
    <3>2. t \in NodeTask
      BY Zenon, <1>0, QueueOf DEF TypeOK, Top
    <3>3. t.fn \in Node \cup {NoNode}
      BY <3>2 DEF NodeTask
    <3> QED BY <1>0, <3>1, <3>3
  <2>4. CASE Evaluate(f)
    <3>1. pc[f] = "eval" /\ task' = task /\ \E l \in {"apply", "decrement"} : pc' = [pc EXCEPT ![f] = l]
      BY <2>4 DEF Evaluate, Goto
    <3> QED BY <1>0, <3>1 DEF Evaluation
  <2>5. CASE ApplyThrows(f)  BY <1>0, <2>5 DEF ApplyThrows, Goto
  <2>6. CASE ApplyReturns(f)
    <3>1. pc[f] = "apply" /\ task' = task /\ task[f].fn \in Node
      BY <1>0, <2>6 DEF ApplyReturns, Evaluation
    <3>2. Len(next_edges[task[f].fn]) \in Nat
      BY <3>1, NextEdges
    <3>3. \/ pc' = [pc EXCEPT ![f] = "decrement"]
          \/ /\ pc' = [pc EXCEPT ![f] = "propagate"] /\ edge' = [edge EXCEPT ![f] = 1]
             /\ Len(next_edges[task[f].fn]) > 0
      BY Zenon, <2>6 DEF ApplyReturns, Goto
    <3> QED BY <1>0, <3>1, <3>2, <3>3
  <2>7. ASSUME pc[f] = "propagate", task' = task, NextEdge(f)
        PROVE  /\ pc'[f] \in {"eval", "apply", "call", "propagate"} => task'[f].fn \in Node
               /\ pc'[f] = "propagate" => edge'[f] \in 1..Len(next_edges[task'[f].fn])
    <3>1. task[f].fn \in Node /\ edge[f] \in 1..Len(next_edges[task[f].fn])
      BY <1>0, <2>7 DEF Evaluation
    <3>2. Len(next_edges[task[f].fn]) \in Nat
      BY <3>1, NextEdges
    <3>3. \/ pc' = [pc EXCEPT ![f] = "decrement"]
          \/ /\ pc' = pc /\ edge' = [edge EXCEPT ![f] = @ + 1]
             /\ edge[f] # Len(next_edges[task[f].fn])
      BY <2>7 DEF NextEdge, Goto
    <3> QED BY <1>0, <2>7, <3>1, <3>2, <3>3
  <2>8. CASE SkipEdge(f)  BY <2>7, <2>8 DEF SkipEdge
  <2>9. CASE PassEdge(f)
    <3>1. CASE DependencyNotFound(f)
      BY <1>0, <3>1 DEF DependencyNotFound, Goto
    <3>2. CASE NextEdge(f)
      BY Zenon, <2>7, <2>9, <3>2 DEF PassEdge
    <3> QED BY Zenon, <2>9, <3>1, <3>2 DEF PassEdge
  <2>10. CASE SetException(f)  BY <1>0, <2>10 DEF SetException, Goto
  <2>11. CASE SignalException(f)  BY <1>0, <2>11 DEF SignalException, Goto
  <2>12. CASE SetError(f)  BY <1>0, <2>12 DEF SetError, Goto
  <2>13. CASE Decrement(f)  BY <1>0, <2>13 DEF Decrement, Goto
  <2>14. CASE CheckCompleted(f)  BY <1>0, <2>14 DEF CheckCompleted, Goto
  <2>15. CASE MarkCompleted(f)  BY <1>0, <2>15 DEF MarkCompleted, Goto
  <2>16. CASE AwaitFuture(f)  BY <1>0, <2>16 DEF AwaitFuture, Goto
  <2>17. CASE RunCallback(f)  BY <1>0, <2>17 DEF RunCallback
  <2>18. CASE PostProcessingThrows(f)  BY <1>0, <2>18 DEF PostProcessingThrows, Goto
  <2>19. CASE CompleteFuture(f)  BY <1>0, <2>19 DEF CompleteFuture, Goto
  <2>20. CASE Notify(f)  BY <1>0, <2>20 DEF Notify, Goto
  <2> QED BY Zenon, <1>9, <2>2, <2>3, <2>4, <2>5, <2>6, <2>8, <2>9, <2>10, <2>11, <2>12,
             <2>13, <2>14, <2>15, <2>16, <2>17, <2>18, <2>19, <2>20 DEF FrameStep
<1>10. ASSUME NEW f \in Frame, LoopExit(f) PROVE f \in GraphTask
  BY Zenon, <1>10 DEF LoopExit
<1> QED BY <1>2, <1>3, <1>4, <1>5, <1>6, <1>7, <1>8, <1>9, <1>10
        DEF Next, CallStep, HandOver, Finished
==============================================================================
