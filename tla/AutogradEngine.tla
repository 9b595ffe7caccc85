---------------------------- MODULE AutogradEngine ----------------------------
(***************************************************************************)
(* The execution of backward passes by torch::autograd::Engine             *)
(* (torch/csrc/autograd/engine.{h,cpp}).                                   *)
(*                                                                         *)
(* A call of Engine::execute makes a GraphTask and drives it by running    *)
(* thread_main on the calling thread; device threads run thread_main too,  *)
(* for ever; a call made from inside a function that is being evaluated is *)
(* reentrant and, beyond max_recursion_depth_ nested calls on one thread,  *)
(* is handed to a pool thread.  What runs concurrently is therefore a set  *)
(* of activations of thread_main, here called frames: one for every        *)
(* device, and one for every graph task that is being driven.  A frame     *)
(* whose function made a reentrant call is blocked (pc = "call") until     *)
(* that call returns.                                                      *)
(*                                                                         *)
(* The thread-local variables worker_device, local_ready_queue,            *)
(* total_depth and current_depth keep one value as long as a frame is on   *)
(* top of its thread's stack, so they are functions of the frame.          *)
(***************************************************************************)
EXTENDS BackwardGraph

CONSTANTS
  Node, GraphTask, User, Device,
  CPU_DEVICE,
  NoTask,
  max_recursion_depth,  \* Engine::max_recursion_depth_ (MAX_DEPTH)
  next_edges,           \* Node::next_edges: function -> sequence of functions
  topological_nr, sequence_nr,
  device,               \* where a function's input gradients live
  root,                 \* graph task -> root function of the call
  outputs,              \* graph task -> the "inputs=" functions of the call
  accumulate_grad,      \* graph task -> backward() (TRUE) or grad() (FALSE)
  caller,               \* graph task -> the user thread or function calling it
  throws,               \* functions that may raise
  queues_callback       \* functions that call Engine::queue_callback

ASSUME GraphAssumption ==
  /\ IsFiniteSet(Node) /\ NoNode \notin Node
  /\ next_edges \in [Node -> Seq(Node \cup {NoNode})]
  /\ topological_nr \in [Node -> Nat]
  /\ \A n \in Node : \A m \in Succ(next_edges, n) :
       topological_nr[m] < topological_nr[n]
  /\ sequence_nr \in [Node -> Nat]

ASSUME CallAssumption ==
  /\ root \in [GraphTask -> Node]
  /\ outputs \in [GraphTask -> SUBSET Node]
  /\ accumulate_grad \in [GraphTask -> BOOLEAN]
  /\ \A g \in GraphTask : accumulate_grad[g] \/ outputs[g] # {}
  /\ caller \in [GraphTask -> User \cup Node]
  /\ throws \subseteq Node
  /\ queues_callback \subseteq Node

ASSUME ThreadAssumption ==
  /\ IsFiniteSet(GraphTask) /\ IsFiniteSet(Device) /\ IsFiniteSet(User)
  /\ User \cap Device = {} /\ User \cap Node = {}
  /\ GraphTask \cap (User \cup Device) = {}
  /\ User # {}
  /\ CPU_DEVICE \notin Device
  /\ device \in [Node -> Device \cup {CPU_DEVICE}]
  /\ max_recursion_depth \in Nat

Frame == Device \cup GraphTask

\* One ready queue per device and one per user thread (init_local_ready_queue).
Queue == User \cup Device

(***************************************************************************)
(* A NodeTask.  fn = NoNode is the dummy task that wakes an owner.  The    *)
(* heap is a multiset: "by", the frame that pushed the task, keeps two     *)
(* dummies of one graph task apart.                                        *)
(***************************************************************************)
NodeTask == [g : GraphTask, fn : Node \cup {NoNode}, by : Frame]

Edge == Node \X Nat

ASSUME NoTaskAssumption == NoTask \notin NodeTask \cup Frame \cup User

(***************************************************************************)
(* The plan of a graph task, fixed before it is shared.                    *)
(***************************************************************************)
min_topo_nr(g) == compute_min_topological_nr(topological_nr, outputs[g])

\* Mutant: "topological_nr() <= min_topo_nr" prunes the outputs themselves.
ExpandedByStrict ==
  [g \in GraphTask |-> Expanded(next_edges, topological_nr, root[g], min_topo_nr(g) + 1)]

ExpandedBy ==
  [g \in GraphTask |-> Expanded(next_edges, topological_nr, root[g], min_topo_nr(g))]

Awaited(g, n) == InEdges(next_edges, ExpandedBy[g], n)

should_execute == [g \in GraphTask |-> ShouldExecute(next_edges, outputs[g])]

needed == [g \in GraphTask |-> Needed(next_edges, outputs[g], accumulate_grad[g])]

captures == [g \in GraphTask |-> Captured(outputs[g], accumulate_grad[g])]

VARIABLES
  \* ---- ReadyQueue::heap_ of every queue
  heap,
  \* ---- GraphTask
  outstanding_tasks, has_error, future_completed, future_result,
  dependencies, not_ready, captured_vars, final_callbacks,
  owner, cpu_ready_queue, reentrant_depth,
  mutex,            \* the frame that holds GraphTask::mutex_, or NoTask
  inputs,           \* InputBuffer of a function: the edges accumulated in it
  \* ---- frames of thread_main
  pc, task, edge, current_depth,
  \* ---- calls of Engine::execute
  executing,        \* calls that have not returned (they own the task)
  parent,           \* the frame or user thread that made the call
  pooled,           \* tasks driven by a thread of the reentrant pool
  \* ---- ThreadPoolShared
  graphtasks_queue, num_workers,
  arriving,         \* pool threads about to take the pool's mutex_
  \* ---- history
  passed,           \* edges whose gradient was handed on
  applied           \* functions that were called

taskVars  == <<outstanding_tasks, has_error, future_completed, future_result>>
graphVars == <<dependencies, not_ready, inputs, passed>>
callVars  == <<owner, cpu_ready_queue, reentrant_depth, current_depth,
               executing, parent, pooled>>
poolVars  == <<graphtasks_queue, num_workers, arriving>>

vars == <<heap, taskVars, graphVars, captured_vars, final_callbacks, mutex,
          pc, task, edge, callVars, poolVars, applied>>

------------------------------------------------------------------------------
\* worker_device and local_ready_queue of the thread that runs frame f.
worker_device(f) == IF f \in Device THEN f ELSE owner[f]

local_ready_queue(f) == IF f \in Device THEN f ELSE cpu_ready_queue[f]

total_depth(f) == IF f \in Device THEN 0 ELSE reentrant_depth[f]

nested_calls(f) == IF f \in Device THEN 0 ELSE current_depth[f]

\* ready_queue and ready_queue_by_index
ready_queue(cpu, d) == IF d = CPU_DEVICE THEN cpu ELSE d

\* A frame at one of these places holds a shared_ptr to task[f].g and has not
\* yet given back its unit of outstanding_tasks_.
Working == {"eval", "apply", "call", "propagate", "throw", "signal",
            "set_error", "decrement"}
\* After the decrement it still holds the pointer.
Finishing == {"check", "mark", "await", "post", "notify"}

Busy(f) == pc[f] \in Working \cup Finishing

\* base_.lock() succeeds: somebody owns the GraphTask.
IsAlive(g) ==
  \/ g \in executing
  \/ g \in pooled /\ (pc[g] \in {"loop", "pop"} \/ Busy(g))
  \/ \E f \in Frame : Busy(f) /\ task[f].g = g

(***************************************************************************)
(* CompareNodeTaskTime: dummies first, then the deeper reentrant task,     *)
(* then the larger sequence number.  The depth of a task whose GraphTask   *)
(* has expired reads as INT_MAX, but the heap is not re-ordered when it    *)
(* expires, so with such a task in the heap nothing is known of the order. *)
(***************************************************************************)
RunsBefore(t, u) ==
  \/ t.fn = NoNode /\ u.fn # NoNode
  \/ /\ t.fn # NoNode /\ u.fn # NoNode
     /\ \/ reentrant_depth[t.g] > reentrant_depth[u.g]
        \/ /\ reentrant_depth[t.g] = reentrant_depth[u.g]
           /\ sequence_nr[t.fn] > sequence_nr[u.fn]

Top(q) ==
  {t \in heap[q] : \/ \A u \in heap[q] : ~RunsBefore(u, t)
                   \/ \E u \in heap[q] : u.fn # NoNode /\ ~IsAlive(u.g)}

\* Mutant: incrementOutstandingTasks left false.
PushWithoutIncrement(q, t) ==
  /\ heap' = [heap EXCEPT ![q] = @ \cup {t}]
  /\ UNCHANGED outstanding_tasks

\* ReadyQueue::push
push(q, t) ==
  /\ heap' = [heap EXCEPT ![q] = @ \cup {t}]
  /\ outstanding_tasks' = [outstanding_tasks EXCEPT ![t.g] = @ + 1]

Goto(f, l) == pc' = [pc EXCEPT ![f] = l]

------------------------------------------------------------------------------
Init ==
  /\ heap = [q \in Queue |-> {}]
  /\ outstanding_tasks = [g \in GraphTask |-> 0]
  /\ has_error = [g \in GraphTask |-> FALSE]
  /\ future_completed = [g \in GraphTask |-> FALSE]
  /\ future_result = [g \in GraphTask |-> "none"]
  /\ dependencies = [g \in GraphTask |-> [n \in Node |-> 0]]
  /\ not_ready = [g \in GraphTask |-> {}]
  /\ captured_vars = [g \in GraphTask |-> [n \in Node |-> {}]]
  /\ final_callbacks = [g \in GraphTask |-> {}]
  /\ owner = [g \in GraphTask |-> CPU_DEVICE]
  /\ cpu_ready_queue = [g \in GraphTask |-> CHOOSE q \in Queue : TRUE]
  /\ reentrant_depth = [g \in GraphTask |-> 0]
  /\ mutex = [g \in GraphTask |-> NoTask]
  /\ inputs = [g \in GraphTask |-> [n \in Node |-> {}]]
  /\ pc = [f \in Frame |-> IF f \in Device THEN "loop" ELSE "none"]
  /\ task = [f \in Frame |-> NoTask]
  /\ edge = [f \in Frame |-> 0]
  /\ current_depth = [g \in GraphTask |-> 0]
  /\ executing = {}
  /\ parent = [g \in GraphTask |-> NoTask]
  /\ pooled = {}
  /\ graphtasks_queue = <<>>
  /\ num_workers = 0
  /\ arriving = 0
  /\ passed = [g \in GraphTask |-> {}]
  /\ applied = [g \in GraphTask |-> {}]

(***************************************************************************)
(* Engine::execute up to the point where the task is driven: the GraphTask *)
(* is made, its dependencies are computed, and the root is pushed.         *)
(***************************************************************************)
Enqueue(g, from, cpu) ==
  /\ executing' = executing \cup {g}
  /\ parent' = [parent EXCEPT ![g] = from]
  /\ cpu_ready_queue' = [cpu_ready_queue EXCEPT ![g] = cpu]
  /\ dependencies' = [dependencies EXCEPT ![g] =
                        [n \in Node |-> Cardinality(Awaited(g, n))]]
  /\ push(ready_queue(cpu, device[root[g]]),
          [g |-> g, fn |-> root[g], by |-> g])
  /\ UNCHANGED <<has_error, future_completed, future_result, not_ready, inputs,
                 passed, captured_vars, final_callbacks, task, edge, applied>>

\* A call from a thread whose worker_device is NO_DEVICE: it becomes the owner.
Execute(u, g) ==
  /\ caller[g] = u
  /\ pc[g] = "none"
  /\ \A h \in executing : parent[h] # u
  /\ Enqueue(g, u, u)
  /\ owner' = [owner EXCEPT ![g] = CPU_DEVICE]
  /\ Goto(g, "loop")
  /\ UNCHANGED <<reentrant_depth, current_depth, pooled, mutex, poolVars>>

(***************************************************************************)
(* A reentrant call: the function that frame f evaluates calls execute.    *)
(* At the maximal depth the caller keeps mutex_ until it has handed the    *)
(* task to the pool (Engine::execute_with_graph_task).                     *)
(***************************************************************************)
ReentrantExecute(f, g) ==
  /\ pc[f] = "apply"
  /\ caller[g] = task[f].fn
  /\ pc[g] = "none"
  /\ Enqueue(g, f, local_ready_queue(f))
  /\ owner' = [owner EXCEPT ![g] = worker_device(f)]
  /\ reentrant_depth' = [reentrant_depth EXCEPT ![g] = total_depth(f) + 1]
  /\ \/ /\ nested_calls(f) >= max_recursion_depth
        /\ pc' = [pc EXCEPT ![f] = "call", ![g] = "add_to_pool"]
        /\ mutex' = [mutex EXCEPT ![g] = f]
        /\ pooled' = pooled \cup {g}
        /\ UNCHANGED current_depth
     \/ /\ nested_calls(f) < max_recursion_depth
        /\ pc' = [pc EXCEPT ![f] = "call", ![g] = "loop"]
        /\ current_depth' = [current_depth EXCEPT ![g] = nested_calls(f) + 1]
        /\ UNCHANGED <<mutex, pooled>>
  /\ UNCHANGED poolVars

\* Mutant: create_thread tests < instead of <=.
AddThreadPoolTaskTooFewThreads(g) ==
  /\ pc[g] = "add_to_pool"
  /\ arriving' = IF num_workers < Len(graphtasks_queue)
                 THEN arriving + 1 ELSE arriving
  /\ graphtasks_queue' = Append(graphtasks_queue, g)
  /\ mutex' = [mutex EXCEPT ![g] = NoTask]
  /\ Goto(g, "queued")
  /\ UNCHANGED <<heap, taskVars, graphVars, captured_vars, final_callbacks,
                 task, edge, callVars, num_workers, applied>>

\* Engine::add_thread_pool_task, and the unlock when execute_with_graph_task
\* returns; the caller goes on to fut->wait().
AddThreadPoolTask(g) ==
  /\ pc[g] = "add_to_pool"
  /\ arriving' = IF num_workers <= Len(graphtasks_queue)
                 THEN arriving + 1 ELSE arriving
  /\ graphtasks_queue' = Append(graphtasks_queue, g)
  /\ mutex' = [mutex EXCEPT ![g] = NoTask]
  /\ Goto(g, "queued")
  /\ UNCHANGED <<heap, taskVars, graphVars, captured_vars, final_callbacks,
                 task, edge, callVars, num_workers, applied>>

(***************************************************************************)
(* Engine::reentrant_thread_init: a pool thread counts itself as available *)
(* only while it waits with nothing in the queue.                          *)
(***************************************************************************)
PoolThreadWaits ==
  /\ arriving > 0
  /\ graphtasks_queue = <<>>
  /\ arriving' = arriving - 1
  /\ num_workers' = num_workers + 1
  /\ UNCHANGED <<heap, taskVars, graphVars, captured_vars, final_callbacks,
                 mutex, pc, task, edge, callVars, graphtasks_queue, applied>>

PoolThreadTakes ==
  /\ graphtasks_queue # <<>>
  /\ graphtasks_queue' = Tail(graphtasks_queue)
  /\ LET g    == Head(graphtasks_queue)
         back == IF IsAlive(g) THEN 0 ELSE 1
     IN  /\ \/ /\ num_workers > 0
               /\ num_workers' = num_workers - 1
               /\ arriving' = arriving + back
            \/ /\ arriving > 0
               /\ arriving' = (arriving - 1) + back
               /\ UNCHANGED num_workers
         /\ Goto(g, IF IsAlive(g) THEN "loop" ELSE "exited")
  /\ UNCHANGED <<heap, taskVars, graphVars, captured_vars, final_callbacks,
                 mutex, task, edge, callVars, applied>>

------------------------------------------------------------------------------
(***************************************************************************)
(* Engine::thread_main, frame f.                                           *)
(***************************************************************************)

\* Mutant: the error of a reentrant call is dropped.
ReturnToDropsError(g, p) ==
  [h \in Frame |-> IF h = parent[g] THEN "apply" ELSE p[h]]

\* The result of call g reaches the code that made it: an error is rethrown
\* into the function that called backward.
ReturnTo(g, p) ==
  [h \in Frame |->
     IF h # parent[g] THEN p[h]
     ELSE IF future_result[g] = "error" THEN "throw" ELSE "apply"]

\* while (graph_task == nullptr || !graph_task->future_result_->completed())
LoopAgain(f) ==
  /\ pc[f] = "loop"
  /\ f \in GraphTask => future_result[f] = "none"
  /\ Goto(f, "pop")
  /\ UNCHANGED <<heap, taskVars, graphVars, captured_vars, final_callbacks,
                 mutex, task, edge, callVars, poolVars, applied>>

\* thread_main returns; without the pool, execute returns with it.
LoopExit(f) ==
  /\ pc[f] = "loop"
  /\ f \in GraphTask /\ future_result[f] # "none"
  /\ \/ /\ f \in pooled
        /\ Goto(f, "exited")
        /\ arriving' = arriving + 1
        /\ UNCHANGED executing
     \/ /\ f \notin pooled
        /\ pc' = [ReturnTo(f, pc) EXCEPT ![f] = "exited"]
        /\ executing' = executing \ {f}
        /\ UNCHANGED arriving
  /\ UNCHANGED <<heap, taskVars, graphVars, captured_vars, final_callbacks,
                 mutex, task, edge, owner, cpu_ready_queue, reentrant_depth,
                 current_depth, parent, pooled, graphtasks_queue, num_workers,
                 applied>>

\* fut->wait() in Engine::execute, for a task that was handed to the pool.
WaitReturns(g) ==
  /\ g \in pooled /\ g \in executing
  /\ pc[g] # "add_to_pool"
  /\ future_result[g] # "none"
  /\ pc' = ReturnTo(g, pc)
  /\ executing' = executing \ {g}
  /\ UNCHANGED <<heap, taskVars, graphVars, captured_vars, final_callbacks,
                 mutex, task, edge, owner, cpu_ready_queue, reentrant_depth,
                 current_depth, parent, pooled, poolVars, applied>>

\* local_ready_queue->pop(), and what is decided on the task at once: skip an
\* expired one, skip the function of a dummy or of a failed graph task.
Pop(f) ==
  /\ pc[f] = "pop"
  /\ \E t \in Top(local_ready_queue(f)) :
       /\ heap' = [heap EXCEPT ![local_ready_queue(f)] = @ \ {t}]
       /\ \/ /\ ~IsAlive(t.g)
             /\ Goto(f, "loop")
             /\ UNCHANGED task
          \/ /\ IsAlive(t.g)
             /\ task' = [task EXCEPT ![f] = t]
             /\ Goto(f, IF t.fn # NoNode /\ ~has_error[t.g]
                        THEN "eval" ELSE "decrement")
  /\ UNCHANGED <<taskVars, graphVars, captured_vars, final_callbacks, mutex,
                 edge, callVars, poolVars, applied>>

\* Mutant: a captured function is taken not to be needed.
EvaluateCapturesOnly(f) ==
  LET g == task[f].g
      n == task[f].fn
  IN  /\ pc[f] = "eval"
      /\ \/ /\ n \in captures[g]
            /\ captured_vars' = [captured_vars EXCEPT ![g][n] = inputs[g][n]]
            /\ Goto(f, "decrement")
            /\ UNCHANGED applied
         \/ /\ n \notin captures[g]
            /\ Goto(f, IF n \in needed[g] THEN "apply" ELSE "decrement")
            /\ applied' = [applied EXCEPT ![g] = @ \cup ({n} \cap needed[g])]
            /\ UNCHANGED captured_vars
      /\ UNCHANGED <<heap, taskVars, graphVars, final_callbacks, mutex, task,
                     edge, callVars, poolVars>>

\* Mutant: a function that is needed is not captured as well.
EvaluateForgetsCapture(f) ==
  LET g == task[f].g
      n == task[f].fn
  IN  /\ pc[f] = "eval"
      /\ captured_vars' = IF n \in captures[g] \ needed[g]
                          THEN [captured_vars EXCEPT ![g][n] = inputs[g][n]]
                          ELSE captured_vars
      /\ Goto(f, IF n \in needed[g] THEN "apply" ELSE "decrement")
      /\ applied' = [applied EXCEPT ![g] = @ \cup ({n} \cap needed[g])]
      /\ UNCHANGED <<heap, taskVars, graphVars, final_callbacks, mutex, task,
                     edge, callVars, poolVars>>

\* evaluate_function up to call_function: capture the incoming gradient, and
\* return early if the function itself is not needed.
Evaluate(f) ==
  LET g == task[f].g
      n == task[f].fn
  IN  /\ pc[f] = "eval"
      /\ \/ /\ n \in captures[g]
            /\ mutex[g] = NoTask
            /\ captured_vars' = [captured_vars EXCEPT ![g][n] = inputs[g][n]]
         \/ /\ n \notin captures[g]
            /\ UNCHANGED captured_vars
      /\ \/ /\ n \in needed[g]
            /\ Goto(f, "apply")
            /\ applied' = [applied EXCEPT ![g] = @ \cup {n}]
         \/ /\ n \notin needed[g]
            /\ Goto(f, "decrement")
            /\ UNCHANGED applied
      /\ UNCHANGED <<heap, taskVars, graphVars, final_callbacks, mutex, task,
                     edge, callVars, poolVars>>

\* call_function raises: in a hook, in the function, in validate_outputs.
ApplyThrows(f) ==
  /\ pc[f] = "apply"
  /\ task[f].fn \in throws
  /\ Goto(f, "throw")
  /\ UNCHANGED <<heap, taskVars, graphVars, captured_vars, final_callbacks,
                 mutex, task, edge, callVars, poolVars, applied>>

\* call_function returns, after the backward calls the function makes; with
\* outputs to hand on, the frame takes GraphTask::mutex_.
ApplyReturns(f) ==
  LET g == task[f].g
      n == task[f].fn
  IN  /\ pc[f] = "apply"
      /\ \A h \in GraphTask : caller[h] = n => pc[h] # "none"
      /\ final_callbacks' = IF n \in queues_callback
                            THEN [final_callbacks EXCEPT ![g] = @ \cup {n}]
                            ELSE final_callbacks
      /\ \/ /\ Len(next_edges[n]) = 0
            /\ Goto(f, "decrement")
            /\ UNCHANGED <<mutex, edge>>
         \/ /\ Len(next_edges[n]) > 0
            /\ mutex[g] = NoTask
            /\ mutex' = [mutex EXCEPT ![g] = f]
            /\ edge' = [edge EXCEPT ![f] = 1]
            /\ Goto(f, "propagate")
      /\ UNCHANGED <<heap, taskVars, graphVars, captured_vars, task, callVars,
                     poolVars, applied>>

\* The end of one iteration of the loop over the outputs.
NextEdge(f) ==
  LET n == task[f].fn
  IN  IF edge[f] = Len(next_edges[n])
      THEN /\ mutex' = [mutex EXCEPT ![task[f].g] = NoTask]
           /\ edge' = [edge EXCEPT ![f] = 0]
           /\ Goto(f, "decrement")
      ELSE /\ edge' = [edge EXCEPT ![f] = @ + 1]
           /\ UNCHANGED <<mutex, pc>>

(***************************************************************************)
(* One iteration of the loop over the outputs in evaluate_function.        *)
(***************************************************************************)
SkipEdge(f) ==
  /\ pc[f] = "propagate"
  /\ next_edges[task[f].fn][edge[f]] = NoNode
  /\ NextEdge(f)
  /\ UNCHANGED <<heap, taskVars, graphVars, captured_vars, final_callbacks,
                 task, callVars, poolVars, applied>>

\* "dependency not found"; the lock_guard releases mutex_
DependencyNotFound(f) ==
  /\ mutex' = [mutex EXCEPT ![task[f].g] = NoTask]
  /\ edge' = [edge EXCEPT ![f] = 0]
  /\ Goto(f, "throw")
  /\ UNCHANGED <<heap, outstanding_tasks, graphVars>>

\* Mutant: a function is ready one gradient too early.
DeliverEarly(f, g, e, m) ==
  /\ dependencies' = [dependencies EXCEPT ![g][m] = @ - 1]
  /\ passed' = [passed EXCEPT ![g] = @ \cup {e}]
  /\ inputs' = [inputs EXCEPT ![g][m] = @ \cup {e}]
  /\ push(ready_queue(cpu_ready_queue[g], device[m]),
          [g |-> g, fn |-> m, by |-> f])
  /\ UNCHANGED not_ready

\* The gradient of edge e reaches function m of graph task g.
Deliver(f, g, e, m) ==
  LET is_ready   == dependencies[g][m] = 1
      accumulate == m \in not_ready[g] \/ m \in should_execute[g]
  IN  /\ dependencies' = [dependencies EXCEPT ![g][m] = @ - 1]
      /\ passed' = [passed EXCEPT ![g] = @ \cup {e}]
      /\ inputs' = IF accumulate
                   THEN [inputs EXCEPT ![g][m] =
                           (IF m \in not_ready[g] THEN @ ELSE {}) \cup {e}]
                   ELSE inputs
      /\ \/ /\ accumulate /\ is_ready
            /\ push(ready_queue(cpu_ready_queue[g], device[m]),
                    [g |-> g, fn |-> m, by |-> f])
            /\ not_ready' = [not_ready EXCEPT ![g] = @ \ {m}]
         \/ /\ accumulate /\ ~is_ready
            /\ not_ready' = [not_ready EXCEPT ![g] = @ \cup {m}]
            /\ UNCHANGED <<heap, outstanding_tasks>>
         \/ /\ ~accumulate
            /\ UNCHANGED <<heap, outstanding_tasks, not_ready>>

PassEdge(f) ==
  LET g == task[f].g
      m == next_edges[task[f].fn][edge[f]]
  IN  /\ pc[f] = "propagate"
      /\ m # NoNode
      /\ IF dependencies[g][m] = 0
         THEN DependencyNotFound(f)
         ELSE /\ Deliver(f, g, <<task[f].fn, edge[f]>>, m)
              /\ NextEdge(f)
      /\ UNCHANGED <<has_error, future_completed, future_result, captured_vars,
                     final_callbacks, task, callVars, poolVars, applied>>

\* GraphTask::set_exception: has_error_, then the race for future_completed_,
\* then setError by the winner.
SetException(f) ==
  /\ pc[f] = "throw"
  /\ has_error' = [has_error EXCEPT ![task[f].g] = TRUE]
  /\ Goto(f, "signal")
  /\ UNCHANGED <<heap, outstanding_tasks, future_completed, future_result,
                 graphVars, captured_vars, final_callbacks, mutex, task, edge,
                 callVars, poolVars, applied>>

SignalException(f) ==
  /\ pc[f] = "signal"
  /\ future_completed' = [future_completed EXCEPT ![task[f].g] = TRUE]
  /\ Goto(f, IF future_completed[task[f].g] THEN "decrement" ELSE "set_error")
  /\ UNCHANGED <<heap, outstanding_tasks, has_error, future_result, graphVars,
                 captured_vars, final_callbacks, mutex, task, edge, callVars,
                 poolVars, applied>>

SetError(f) ==
  /\ pc[f] = "set_error"
  /\ future_result' = [future_result EXCEPT ![task[f].g] = "error"]
  /\ Goto(f, "decrement")
  /\ UNCHANGED <<heap, outstanding_tasks, has_error, future_completed,
                 graphVars, captured_vars, final_callbacks, mutex, task, edge,
                 callVars, poolVars, applied>>

\* --local_graph_task->outstanding_tasks_
Decrement(f) ==
  /\ pc[f] = "decrement"
  /\ outstanding_tasks' = [outstanding_tasks EXCEPT ![task[f].g] = @ - 1]
  /\ Goto(f, "check")
  /\ UNCHANGED <<heap, has_error, future_completed, future_result, graphVars,
                 captured_vars, final_callbacks, mutex, task, edge, callVars,
                 poolVars, applied>>

\* GraphTask::completed (exit_on_error_ is false for every task of execute)
CheckCompleted(f) ==
  /\ pc[f] = "check"
  /\ \/ /\ outstanding_tasks[task[f].g] = 0
        /\ Goto(f, "mark")
        /\ UNCHANGED task
     \/ /\ outstanding_tasks[task[f].g] # 0
        /\ Goto(f, "loop")
        /\ task' = [task EXCEPT ![f] = NoTask]
  /\ UNCHANGED <<heap, taskVars, graphVars, captured_vars, final_callbacks,
                 mutex, edge, callVars, poolVars, applied>>

\* Mutant: future_completed_ is not tested, only set.
MarkCompletedAlways(f) ==
  /\ pc[f] = "mark"
  /\ future_completed' = [future_completed EXCEPT ![task[f].g] = TRUE]
  /\ Goto(f, "post")
  /\ UNCHANGED <<heap, outstanding_tasks, has_error, future_result, graphVars,
                 captured_vars, final_callbacks, mutex, task, edge, callVars,
                 poolVars, applied>>

(***************************************************************************)
(* GraphTask::mark_as_completed_and_run_post_processing.  One frame wins   *)
(* the exchange; the others wait for the future.                           *)
(***************************************************************************)
MarkCompleted(f) ==
  /\ pc[f] = "mark"
  /\ future_completed' = [future_completed EXCEPT ![task[f].g] = TRUE]
  /\ Goto(f, IF future_completed[task[f].g] THEN "await" ELSE "post")
  /\ UNCHANGED <<heap, outstanding_tasks, has_error, future_result, graphVars,
                 captured_vars, final_callbacks, mutex, task, edge, callVars,
                 poolVars, applied>>

AwaitFuture(f) ==
  /\ pc[f] = "await"
  /\ future_result[task[f].g] # "none"
  /\ Goto(f, "notify")
  /\ UNCHANGED <<heap, taskVars, graphVars, captured_vars, final_callbacks,
                 mutex, task, edge, callVars, poolVars, applied>>

\* exec_post_processing runs the callbacks one by one, without their lock.
RunCallback(f) ==
  LET g == task[f].g
  IN  /\ pc[f] = "post"
      /\ mutex[g] = NoTask
      /\ not_ready[g] = {}
      /\ \E n \in final_callbacks[g] :
           final_callbacks' = [final_callbacks EXCEPT ![g] = @ \ {n}]
      /\ UNCHANGED <<heap, taskVars, graphVars, captured_vars, mutex, pc, task,
                     edge, callVars, poolVars, applied>>

\* "could not compute gradients for some functions", or a callback raises
PostProcessingThrows(f) ==
  LET g == task[f].g
  IN  /\ pc[f] = "post"
      /\ mutex[g] = NoTask
      /\ not_ready[g] # {} \/ final_callbacks[g] \cap throws # {}
      /\ future_result' = [future_result EXCEPT ![g] = "error"]
      /\ Goto(f, "notify")
      /\ UNCHANGED <<heap, outstanding_tasks, has_error, future_completed,
                     graphVars, captured_vars, final_callbacks, mutex, task,
                     edge, callVars, poolVars, applied>>

CompleteFuture(f) ==
  LET g == task[f].g
  IN  /\ pc[f] = "post"
      /\ mutex[g] = NoTask
      /\ not_ready[g] = {} /\ final_callbacks[g] = {}
      /\ future_result' = [future_result EXCEPT ![g] = "value"]
      /\ Goto(f, "notify")
      /\ UNCHANGED <<heap, outstanding_tasks, has_error, future_completed,
                     graphVars, captured_vars, final_callbacks, mutex, task,
                     edge, callVars, poolVars, applied>>

\* Mutant: no dummy task is sent.
NotifyNobody(f) ==
  /\ pc[f] = "notify"
  /\ task' = [task EXCEPT ![f] = NoTask]
  /\ Goto(f, "loop")
  /\ UNCHANGED <<heap, outstanding_tasks, has_error, future_completed,
                 future_result, graphVars, captured_vars, final_callbacks,
                 mutex, edge, callVars, poolVars, applied>>

\* Wake the owner with a dummy task unless this thread is the owner.
Notify(f) ==
  LET g == task[f].g
  IN  /\ pc[f] = "notify"
      /\ \/ /\ worker_device(f) # owner[g]
            /\ push(ready_queue(cpu_ready_queue[g], owner[g]),
                    [g |-> g, fn |-> NoNode, by |-> f])
         \/ /\ worker_device(f) = owner[g]
            /\ UNCHANGED <<heap, outstanding_tasks>>
      /\ task' = [task EXCEPT ![f] = NoTask]
      /\ Goto(f, "loop")
      /\ UNCHANGED <<has_error, future_completed, future_result, graphVars,
                     captured_vars, final_callbacks, mutex, edge, callVars,
                     poolVars, applied>>

FrameStep(f) ==
  \/ LoopAgain(f) \/ LoopExit(f) \/ Pop(f)
  \/ Evaluate(f) \/ ApplyThrows(f) \/ ApplyReturns(f)
  \/ SkipEdge(f) \/ PassEdge(f)
  \/ SetException(f) \/ SignalException(f) \/ SetError(f)
  \/ Decrement(f) \/ CheckCompleted(f)
  \/ MarkCompleted(f) \/ AwaitFuture(f)
  \/ RunCallback(f) \/ PostProcessingThrows(f) \/ CompleteFuture(f)
  \/ Notify(f)

CallStep(f) == \E g \in GraphTask : ReentrantExecute(f, g)

PoolStep == PoolThreadWaits \/ PoolThreadTakes

HandOver(g) == AddThreadPoolTask(g) \/ WaitReturns(g)

\* Every call was made and has returned; the device threads sleep for ever.
AllReturned == executing = {} /\ \A g \in GraphTask : caller[g] \in User => pc[g] # "none"

Finished == AllReturned /\ UNCHANGED vars

Next ==
  \/ \E u \in User, g \in GraphTask : Execute(u, g)
  \/ \E f \in Frame : FrameStep(f) \/ CallStep(f)
  \/ \E g \in GraphTask : HandOver(g)
  \/ PoolStep
  \/ Finished

(***************************************************************************)
(* Every thread that can take a step eventually does: the operating system *)
(* schedules it, functions and callbacks terminate.                        *)
(***************************************************************************)
Fairness ==
  /\ \A f \in Frame : WF_vars(FrameStep(f) \/ CallStep(f))
  /\ \A g \in GraphTask : WF_vars(HandOver(g))
  /\ WF_vars(PoolStep)

Spec == Init /\ [][Next]_vars

FairSpec == Spec /\ Fairness

------------------------------------------------------------------------------
Labels == {"none", "add_to_pool", "queued", "loop", "pop", "exited"}
            \cup Working \cup Finishing

\* Types of the engine's state.
TypeOK ==
  /\ heap \in [Queue -> SUBSET NodeTask]
  /\ outstanding_tasks \in [GraphTask -> Nat]
  /\ has_error \in [GraphTask -> BOOLEAN]
  /\ future_completed \in [GraphTask -> BOOLEAN]
  /\ future_result \in [GraphTask -> {"none", "value", "error"}]
  /\ dependencies \in [GraphTask -> [Node -> Nat]]
  /\ not_ready \in [GraphTask -> SUBSET Node]
  /\ captured_vars \in [GraphTask -> [Node -> SUBSET Edge]]
  /\ final_callbacks \in [GraphTask -> SUBSET Node]
  /\ owner \in [GraphTask -> Device \cup {CPU_DEVICE}]
  /\ cpu_ready_queue \in [GraphTask -> Queue]
  /\ reentrant_depth \in [GraphTask -> Nat]
  /\ mutex \in [GraphTask -> Frame \cup {NoTask}]
  /\ inputs \in [GraphTask -> [Node -> SUBSET Edge]]
  /\ pc \in [Frame -> Labels]
  /\ task \in [Frame -> NodeTask \cup {NoTask}]
  /\ \A f \in Frame : Busy(f) <=> task[f] # NoTask
  /\ edge \in [Frame -> Nat]
  /\ current_depth \in [GraphTask -> Nat]
  /\ executing \subseteq GraphTask
  /\ parent \in [GraphTask -> Frame \cup User \cup {NoTask}]
  /\ pooled \subseteq GraphTask
  /\ graphtasks_queue \in Seq(GraphTask)
  /\ num_workers \in Nat
  /\ arriving \in Nat
  /\ passed \in [GraphTask -> SUBSET Edge]
  /\ applied \in [GraphTask -> SUBSET Node]

QueuedTasks(g) == {t \in UNION {heap[q] : q \in Queue} : t.g = g}

WorkingOn(g) == {f \in Frame : pc[f] \in Working /\ task[f].g = g}

\* outstanding_tasks_ counts exactly the tasks of a live GraphTask that are in
\* some ReadyQueue or in the hands of a thread (ReadyQueue::push and the
\* decrement of thread_main, dummies included).
OutstandingIsExact ==
  \A g \in GraphTask : IsAlive(g) =>
    outstanding_tasks[g] = Cardinality(QueuedTasks(g))
                             + Cardinality(WorkingOn(g))

\* A function runs, or is captured, only with the sum of every gradient that
\* any function of the pass sends it, however the producers were interleaved
\* over the threads (the dependency count of evaluate_function).
GradientsAreComplete ==
  \A f \in Frame : pc[f] \in {"eval", "apply", "call"} =>
    inputs[task[f].g][task[f].fn] = Awaited(task[f].g, task[f].fn)

\* "dependency not found" is never raised: compute_dependencies, with its
\* pruning by topological number, counted every edge that is handed on.
DependencyIsFound ==
  \A f \in Frame : pc[f] = "propagate" =>
    LET m == next_edges[task[f].fn][edge[f]]
    IN  m # NoNode => dependencies[task[f].g][m] > 0

\* "could not compute gradients for some functions" is never raised: when the
\* last task of a pass without errors is done, nothing waits for gradients.
NothingLeftWaiting ==
  \A f \in Frame : pc[f] = "post" => not_ready[task[f].g] = {}

\* A backward call succeeds only if the whole pass happened: every function it
\* needs was called, every gradient grad() returns was captured complete,
\* every final callback ran, and no thread met an error.
SuccessMeansDone ==
  \A g \in GraphTask : future_result[g] = "value" =>
    /\ ~has_error[g]
    /\ final_callbacks[g] = {}
    /\ ExpandedBy[g] \cap needed[g] \subseteq applied[g]
    /\ \A n \in ExpandedBy[g] \cap captures[g] :
         captured_vars[g][n] = Awaited(g, n)

\* No function is called twice in a pass: the step that calls one finds it not
\* called before (dependencies_.erase makes a function ready once).
CalledOnce ==
  [][\A f \in Frame :
       pc[f] = "eval" /\ pc'[f] = "apply"
         => task[f].fn \notin applied[task[f].g]]_vars

\* The result of a pass is set once, and nothing of the pass is called after
\* its success (future_completed_ elects one thread).
ResultIsFinal ==
  [][\A g \in GraphTask :
       /\ future_result[g] # "none" => future_result'[g] = future_result[g]
       /\ future_result[g] = "value" =>
            /\ applied'[g] = applied[g]
            /\ has_error'[g] = has_error[g]]_vars

\* A failed reentrant call fails the pass that made it: the error is rethrown
\* into the calling function (fut->value() in Engine::execute), whose thread
\* records it before it gives the task back.
NestedErrorFailsOuter ==
  \A g \in GraphTask :
    /\ caller[g] \in Node
    /\ future_result[g] = "error"
    => \E h \in GraphTask : /\ caller[g] \in applied[h]
                            /\ future_result[h] # "value"

\* Every task handed to the reentrant pool has a thread coming for it: the
\* threads that wait and those on their way to the queue are enough
\* (add_thread_pool_task decides whether to start one).
EnoughWorkers == Len(graphtasks_queue) <= num_workers + arriving

\* Every backward call returns: the owner is not left asleep in pop() when
\* another thread finishes its graph task (the dummy task of thread_main).
BackwardReturns ==
  \A g \in GraphTask : g \in executing ~> g \notin executing

==============================================================================
