------------------------------- MODULE Reducer -------------------------------
(***************************************************************************)
(* The gradient reducer of DistributedDataParallel                         *)
(* (torch/csrc/distributed/c10d/reducer.cpp) in every process of a group,  *)
(* driven by DistributedDataParallel.forward (torch/nn/parallel/           *)
(* distributed.py) and by the hooks of the autograd engine.  All methods   *)
(* hold mutex_, so that each is one step up to where it waits for the      *)
(* process group.  Gradients are dense, of one type and on one device,     *)
(* there is no communication hook, and the group has one collective in     *)
(* progress per position: the k-th one of a process meets the k-th ones of *)
(* the others (external: c10d::ProcessGroup).                              *)
(***************************************************************************)
EXTENDS Integers, Sequences, FiniteSets, FiniteSetsExt, SequencesExt

CONSTANTS
  Rank, Root,        \* the processes, and rank 0
  Param,             \* parameter indices 1..n
  Bytes,             \* the size of each parameter
  Limits,            \* <<first_bucket_bytes_cap_, bucket_bytes_cap_>>
  Gradient(_, _),    \* what a hook call finds added, by rank and iteration
  Undef,             \* an undefined gradient
  Scenarios          \* how DDP is set up and what the script does, see ScenarioOK

VARIABLES
  scenario,
  pc,                \* where the script of each rank is in its iteration
  iter,              \* the iteration
  graph,             \* the autograd graph of the iteration
  todo,              \* hook calls still to come in this backward pass
  sink,              \* _DDPSink has queued delay_all_reduce
  reducer,           \* the Reducer of each rank
  uses               \* history: the graphs, by iteration

vars == <<scenario, pc, iter, graph, todo, sink, reducer, uses>>

N == Cardinality(Rank)

\* In each iteration the script may clear the gradients first, and runs forward
\* and backward, inside no_sync() or not.  A graph says how often the hook of
\* each parameter fires and which parameters get a gradient.
ScenarioOK(s) ==
  /\ {s.static_graph, s.find_unused_parameters, s.gradient_as_bucket_view} \subseteq BOOLEAN
  /\ \A i \in DOMAIN s.script :
       /\ s.script[i].sync \in BOOLEAN
       /\ s.script[i].zero_grad \in {"keep", "zero", "none"}
  /\ \A g \in s.graphs :
       /\ g.hooks \in [Param -> 0..2]
       /\ g.used # {} /\ \A p \in g.used : g.hooks[p] > 0
       /\ ~s.static_graph => g.hooks \in [Param -> 0..1]

ASSUME ScenarioAssumption == \A s \in Scenarios : ScenarioOK(s)
ASSUME RankAssumption == Root \in Rank /\ IsFiniteSet(Rank) /\ Cardinality(Rank) > 1

sync(r) == scenario.script[iter[r]].sync

-------------------------------------------------------------------------------
(* Buckets.                                                                 *)

\* compute_bucket_assignment_by_size for parameters in the order given.
compute_bucket_assignment_by_size(order) ==
  LET add(acc, p) ==
        LET size == acc.size + Bytes[p]
        IN IF size >= Limits[acc.limit]
             THEN [result |-> Append(acc.result, acc.bucket \cup {p}),
                   bucket |-> {}, size |-> 0,
                   limit |-> IF acc.limit < Len(Limits) THEN acc.limit + 1 ELSE acc.limit]
             ELSE [acc EXCEPT !.bucket = @ \cup {p}, !.size = size]
      acc == FoldLeft(add, [result |-> <<>>, bucket |-> {}, size |-> 0, limit |-> 1], order)
  IN IF acc.bucket = {} THEN acc.result ELSE Append(acc.result, acc.bucket)

\* The constructor: buckets in the reverse order of the parameters.
InitReducer ==
  [grad |-> [p \in Param |-> Undef],
   alias |-> {},                       \* gradients that are views of a bucket
   contents |-> [p \in Param |-> 0],   \* the buckets, by parameter
   buckets |-> Reverse(compute_bucket_assignment_by_size([p \in Param |-> p])),
   perIterationReadyParams |-> {},
   next_bucket |-> 0,
   expect_autograd_hooks |-> FALSE,
   require_finalize |-> FALSE,
   has_marked_unused_parameters |-> FALSE,
   unused_parameters |-> {},
   local_used_map |-> {},
   local_used_map_reduced |-> FALSE,
   num_iterations |-> 0,
   numGradHooksTriggeredMap |-> [p \in Param |-> 0],
   numGradHooksTriggeredMapPerIteration |-> [p \in Param |-> 0],
   has_rebuilt_bucket |-> FALSE,
   rebuilt_param_indices |-> <<>>,
   issued |-> <<>>,                    \* the collectives started
   bucket_work |-> 0,                  \* where those of the buckets begin in it
   local_used_work |-> 0,              \* where that of local_used_map is
   callback |-> FALSE,                 \* finalize_backward is queued in the engine
   error |-> "none"]

Init ==
  /\ scenario \in Scenarios
  /\ pc = [r \in Rank |-> "idle"]
  /\ iter = [r \in Rank |-> 0]
  /\ graph = [r \in Rank |-> Undef]
  /\ todo = [r \in Rank |-> [p \in Param |-> 0]]
  /\ sink = [r \in Rank |-> FALSE]
  /\ reducer = [r \in Rank |-> InitReducer]
  /\ uses = [r \in Rank |-> <<>>]

dynamic_graph_find_unused == ~scenario.static_graph /\ scenario.find_unused_parameters
static_graph_first_iteration(s) == scenario.static_graph /\ s.num_iterations = 1
static_graph_after_first_iteration(s) == scenario.static_graph /\ s.num_iterations > 1
should_rebuild_buckets(s) ==
  (scenario.static_graph \/ ~scenario.find_unused_parameters) /\ ~s.has_rebuilt_bucket

-------------------------------------------------------------------------------
(* Gradients and their buckets.  Below, s is the state of one reducer.      *)

Grad(s, p) == IF p \in s.alias THEN s.contents[p] ELSE s.grad[p]

Defined(s) == {p \in Param : Grad(s, p) # Undef}

SetGrad(s, p, v) ==
  IF p \in s.alias THEN [s EXCEPT !.contents[p] = v] ELSE [s EXCEPT !.grad[p] = v]

\* AccumulateGrad.
accumulateGrad(s, p, g) == SetGrad(s, p, IF p \in Defined(s) THEN Grad(s, p) + g ELSE g)

\* optimizer.zero_grad, with set_to_none or without.
zero_grad(s, how) ==
  CASE how = "keep" -> s
    [] how = "zero" -> [s EXCEPT !.contents = [p \in Param |-> IF p \in s.alias THEN 0 ELSE @[p]],
                                 !.grad = [p \in Param |-> IF p \in Defined(s) THEN 0 ELSE @[p]]]
    [] how = "none" -> [s EXCEPT !.alias = {}, !.grad = [p \in Param |-> Undef]]

\* mark_variable_ready_dense for the parameters S: gradients are divided on
\* their way into the bucket, undefined ones are zeros there.
mark_variable_ready_dense(s, S) ==
  IF /\ dynamic_graph_find_unused \/ static_graph_first_iteration(s)
     /\ s.local_used_map \cap (S \ Defined(s)) # {}
    THEN [s EXCEPT !.error = "undefined gradient still allreduced"]
    ELSE [s EXCEPT
           !.contents = [p \in Param |-> IF p \notin S THEN @[p]
                                         ELSE IF p \in Defined(s) THEN Grad(s, p) \div N ELSE 0],
           !.alias = IF scenario.gradient_as_bucket_view THEN @ \cup (S \cap Defined(s)) ELSE @]

all_reduce_bucket(s, b) ==
  [op |-> "bucket", vars |-> s.buckets[b], iteration |-> s.num_iterations,
   data |-> s.contents, used |-> {}]

\* Mutant: a rank that used all parameters does not take part.
all_reduce_partial_used_map(s) ==
  IF s.local_used_map = Param THEN s
  ELSE [s EXCEPT !.issued = Append(@, [op |-> "local_used_map", vars |-> {}, iteration |-> s.num_iterations,
                                       data |-> [p \in Param |-> 0], used |-> s.local_used_map]),
                 !.local_used_work = Len(s.issued) + 1]

all_reduce_local_used_map(s) ==
  [s EXCEPT !.issued = Append(@, [op |-> "local_used_map", vars |-> {}, iteration |-> s.num_iterations,
                                  data |-> [p \in Param |-> 0], used |-> s.local_used_map]),
            !.local_used_work = Len(s.issued) + 1]

\* mark_bucket_ready: buckets are reduced in sequence, as far as the next one
\* that is not ready.
mark_bucket_ready(s) ==
  LET ready(b) == s.buckets[b] \subseteq s.perIterationReadyParams
      next == Max({n \in s.next_bucket..Len(s.buckets) : \A b \in s.next_bucket + 1 .. n : ready(b)})
  IN [s EXCEPT !.next_bucket = next,
               !.bucket_work = IF s.next_bucket = 0 THEN Len(s.issued) ELSE @,
               !.issued = @ \o [k \in 1..next - s.next_bucket |-> all_reduce_bucket(s, s.next_bucket + k)]]

\* mark_variable_ready for each of the parameters S, in any order.
mark_variable_ready(s, S) ==
  LET marked == mark_variable_ready_dense(
                  [s EXCEPT !.perIterationReadyParams = @ \cup S, !.require_finalize = TRUE], S)
      reduced == mark_bucket_ready(marked)
  IN IF S = {} THEN s
     ELSE IF S \cap s.perIterationReadyParams # {} THEN [s EXCEPT !.error = "marked ready twice"]
     ELSE IF reduced.next_bucket < Len(s.buckets) THEN reduced
     ELSE [IF dynamic_graph_find_unused THEN all_reduce_local_used_map(reduced) ELSE reduced
             EXCEPT !.callback = TRUE]

push_rebuilt_params(s, order) ==
  IF should_rebuild_buckets(s) THEN [s EXCEPT !.rebuilt_param_indices = @ \o order] ELSE s

-------------------------------------------------------------------------------
(* The backward pass.                                                       *)

autograd_hook(s, p) ==
  LET used == IF (dynamic_graph_find_unused \/ static_graph_first_iteration(s)) /\ p \in Defined(s)
                THEN [s EXCEPT !.local_used_map = @ \cup {p}] ELSE s
      unused == IF s.has_marked_unused_parameters THEN {} ELSE s.unused_parameters
      told == [used EXCEPT !.has_marked_unused_parameters = TRUE]
      last == mark_variable_ready(push_rebuilt_params(told, <<p>>), unused \cup {p})
      left == s.numGradHooksTriggeredMapPerIteration[p]
  IN CASE ~s.expect_autograd_hooks -> s
       [] s.expect_autograd_hooks /\ static_graph_first_iteration(s) ->
            [used EXCEPT !.numGradHooksTriggeredMap[p] = @ + 1]
       [] s.expect_autograd_hooks /\ static_graph_after_first_iteration(s) ->
            IF left = 0 THEN [s EXCEPT !.error = "training graph has changed"]
            ELSE [IF left = 1 THEN last ELSE mark_variable_ready(told, unused)
                    EXCEPT !.numGradHooksTriggeredMapPerIteration[p] = left - 1]
       [] OTHER -> last

\* A rank goes on with reducer s, unless a check has thrown.
Proceed(r, s, next) ==
  /\ reducer' = [reducer EXCEPT ![r] = s]
  /\ pc' = [pc EXCEPT ![r] = IF s.error = "none" THEN next ELSE "failed"]

\* The gradient accumulator of p runs, if it gets a gradient, and its hook.
Hook(r, p) ==
  /\ pc[r] = "backward"
  /\ todo[r][p] > 0
  /\ todo' = [todo EXCEPT ![r][p] = @ - 1]
  /\ LET s == IF p \in graph[r].used
                THEN accumulateGrad(reducer[r], p, Gradient(r, iter[r])) ELSE reducer[r]
     IN Proceed(r, autograd_hook(s, p), "backward")
  /\ UNCHANGED <<scenario, iter, graph, sink, uses>>

HooksDone(r) == pc[r] = "backward" /\ \A p \in Param : todo[r][p] = 0

\* delay_all_reduce up to its finalize_backward, at the end of the backward pass.
DelayAllReduce(r) ==
  LET s == reducer[r]
      prepared == [all_reduce_local_used_map(s) EXCEPT
                     !.unused_parameters = {p \in Param : s.numGradHooksTriggeredMap[p] = 0},
                     !.require_finalize = TRUE]
      copied == mark_variable_ready_dense(prepared, Param)
  IN /\ HooksDone(r)
     /\ sink[r]
     /\ sink' = [sink EXCEPT ![r] = FALSE]
     /\ Proceed(r, [copied EXCEPT
                      !.bucket_work = Len(copied.issued),
                      !.issued = @ \o [b \in DOMAIN s.buckets |-> all_reduce_bucket(copied, b)],
                      !.callback = TRUE],
                "backward")
     /\ UNCHANGED <<scenario, iter, graph, todo, uses>>

\* Collective k of everybody has been started, and so it completes.
Completes(k) == \A q \in Rank : k <= Len(reducer[q].issued)

\* Mutant: only the local map is looked at.
lookup_never(s) == FALSE

\* The reduced local_used_map is looked at only if a parameter was not used here.
lookup(s) ==
  /\ scenario.static_graph \/ scenario.find_unused_parameters
  /\ ~s.local_used_map_reduced
  /\ s.local_used_map # Param

\* What finalize_backward waits for: the buckets, and local_used_map, at the
\* latest before it is used again.
wait(s) ==
  /\ \A b \in DOMAIN s.buckets : Completes(s.bucket_work + b)
  /\ (lookup(s) \/ dynamic_graph_find_unused \/ static_graph_first_iteration(s))
       => Completes(s.local_used_work)

\* The parameters whose gradient finalize_bucket_dense writes.
globally_used(map) ==
  IF scenario.static_graph \/ scenario.find_unused_parameters THEN map ELSE Param

\* The callback of a static graph begins with the parameters that have no hook.
add_unused(s) ==
  IF static_graph_after_first_iteration(s)
    THEN push_rebuilt_params(s, SetToSeq(s.unused_parameters)) ELSE s

\* The first two assertions of finalize_backward fail.
unexpected(s) == ~s.expect_autograd_hooks \/ ~s.require_finalize

finalize_backward(r) ==
  LET s == reducer[r]
      map == IF lookup(s) THEN UNION {reducer[q].issued[s.local_used_work].used : q \in Rank}
             ELSE s.local_used_map
      used == globally_used(map)
      result == [p \in Param |->
                   LET b == CHOOSE b \in DOMAIN s.buckets : p \in s.buckets[b]
                   IN MapThenSumSet(LAMBDA q : reducer[q].issued[s.bucket_work + b].data[p], Rank)]
      view == scenario.gradient_as_bucket_view
  IN Proceed(r, [add_unused(s) EXCEPT
          !.callback = FALSE,
          !.expect_autograd_hooks = FALSE,
          !.require_finalize = FALSE,
          !.contents = result,
          !.grad = [p \in Param |-> IF ~view /\ p \in used THEN result[p] ELSE @[p]],
          !.alias = IF view THEN @ \cup (used \ Defined(s)) ELSE @,
          !.local_used_map = IF dynamic_graph_find_unused THEN {} ELSE map,
          !.local_used_map_reduced = ~dynamic_graph_find_unused /\ (lookup(s) \/ @),
          !.error = IF view /\ (Defined(s) \cap used) \ s.alias # {}
                      THEN "gradient is not the bucket view"
                    ELSE "none"], "idle")

\* The engine runs the callback queued at the end of the backward pass.  The
\* assertions come before the waiting.
FinalizeBackward(r) ==
  /\ HooksDone(r)
  /\ ~sink[r]
  /\ reducer[r].callback
  /\ \/ /\ ~unexpected(reducer[r])
        /\ wait(reducer[r])
        /\ finalize_backward(r)
     \/ /\ unexpected(reducer[r])
        /\ Proceed(r, [add_unused(reducer[r]) EXCEPT
                         !.callback = FALSE, !.expect_autograd_hooks = FALSE,
                         !.error = "finalize_backward not expected"], "failed")
  /\ UNCHANGED <<scenario, iter, graph, todo, sink, uses>>

\* Nothing was queued: backward() returns.
EndBackward(r) ==
  /\ HooksDone(r)
  /\ ~sink[r]
  /\ ~reducer[r].callback
  /\ pc' = [pc EXCEPT ![r] = "idle"]
  /\ UNCHANGED <<scenario, iter, graph, todo, sink, reducer, uses>>

-------------------------------------------------------------------------------
(* DistributedDataParallel.forward.                                         *)

\* prepare_for_forward, and rebuild_buckets up to the broadcast.
Forward(r) ==
  LET i == iter[r] + 1
      cleared == zero_grad(reducer[r], scenario.script[i].zero_grad)
      s == IF scenario.script[i].sync THEN [cleared EXCEPT !.num_iterations = @ + 1] ELSE cleared
      rebuild == should_rebuild_buckets(s) /\ s.rebuilt_param_indices # <<>>
  IN /\ pc[r] = "idle"
     /\ i \in DOMAIN scenario.script
     /\ iter' = [iter EXCEPT ![r] = i]
     /\ IF s.require_finalize
          THEN Proceed(r, [s EXCEPT !.error = "prior reduction not finished"], "failed")
          ELSE IF rebuild /\ Len(s.rebuilt_param_indices) # Cardinality(Param)
          THEN Proceed(r, [s EXCEPT !.error = "rebuilt parameter indices size"], "failed")
          ELSE IF rebuild
          THEN Proceed(r, [s EXCEPT !.issued = Append(@,
                             [op |-> "broadcast", vars |-> {}, iteration |-> 0,
                              data |-> compute_bucket_assignment_by_size(s.rebuilt_param_indices),
                              used |-> {}])], "rebuild")
          ELSE Proceed(r, s, "module")
     /\ UNCHANGED <<scenario, graph, todo, sink, uses>>

\* Mutant: every rank keeps its own assignment.
RebuildOwnBuckets(r) ==
  LET s == reducer[r]
      k == Len(s.issued)
  IN /\ pc[r] = "rebuild"
     /\ Proceed(r, [s EXCEPT
          !.buckets = s.issued[k].data,
          !.has_rebuilt_bucket = TRUE,
          !.rebuilt_param_indices = <<>>,
          !.contents = [p \in Param |-> IF scenario.gradient_as_bucket_view /\ p \in Defined(s)
                                          THEN Grad(s, p) ELSE 0],
          !.alias = IF scenario.gradient_as_bucket_view THEN Defined(s) ELSE @], "module")
     /\ UNCHANGED <<scenario, iter, graph, todo, sink, uses>>

\* sync_bucket_indices has the buckets of rank 0: initialize_buckets.  Its two
\* broadcasts, of the indices and of the sizes, follow each other at once on
\* every rank and are one here.
RebuildBuckets(r) ==
  LET s == reducer[r]
      k == Len(s.issued)
  IN /\ pc[r] = "rebuild"
     /\ k <= Len(reducer[Root].issued)
     /\ Proceed(r, [s EXCEPT
          !.buckets = reducer[Root].issued[k].data,
          !.has_rebuilt_bucket = TRUE,
          !.rebuilt_param_indices = <<>>,
          !.contents = [p \in Param |-> IF scenario.gradient_as_bucket_view /\ p \in Defined(s)
                                          THEN Grad(s, p) ELSE 0],
          !.alias = IF scenario.gradient_as_bucket_view THEN Defined(s) ELSE @,
          !.error = IF s.expect_autograd_hooks THEN "initialize_buckets during autograd" ELSE "none"],
          "module")
     /\ UNCHANGED <<scenario, iter, graph, todo, sink, uses>>

\* Mutant: the parameters marked ready are not cleared.
prepare_keeps_ready(s, g) ==
  [s EXCEPT
    !.expect_autograd_hooks = TRUE,
    !.next_bucket = 0,
    !.numGradHooksTriggeredMapPerIteration =
        IF scenario.static_graph THEN s.numGradHooksTriggeredMap ELSE @,
    !.has_marked_unused_parameters = FALSE,
    !.unused_parameters = IF dynamic_graph_find_unused THEN {p \in Param : g.hooks[p] = 0} ELSE @]

\* prepare_for_backward; the search finds the parameters with no hook to come.
prepare_for_backward(s, g) ==
  [s EXCEPT
    !.expect_autograd_hooks = TRUE,
    !.next_bucket = 0,
    !.numGradHooksTriggeredMapPerIteration =
        IF scenario.static_graph THEN s.numGradHooksTriggeredMap ELSE @,
    !.has_marked_unused_parameters = FALSE,
    !.perIterationReadyParams = {},
    !.unused_parameters = IF dynamic_graph_find_unused THEN {p \in Param : g.hooks[p] = 0} ELSE @]

\* Mutant: prepare_for_backward is called in no_sync() too.
RunModulePrepare(r, g) ==
  /\ pc[r] = "module"
  /\ g \in scenario.graphs
  /\ scenario.static_graph /\ graph[r] # Undef => g = graph[r]
  /\ graph' = [graph EXCEPT ![r] = g]
  /\ todo' = [todo EXCEPT ![r] = g.hooks]
  /\ uses' = [uses EXCEPT ![r] = Append(@, g)]
  /\ sink' = [sink EXCEPT ![r] = static_graph_first_iteration(reducer[r])]
  /\ Proceed(r, prepare_for_backward(reducer[r], g), "backward")
  /\ UNCHANGED <<scenario, iter>>

\* The module runs and yields a graph, the same every time if DDP was told so.
\* Then the backward pass begins.
RunModule(r, g) ==
  /\ pc[r] = "module"
  /\ g \in scenario.graphs
  /\ scenario.static_graph /\ graph[r] # Undef => g = graph[r]
  /\ graph' = [graph EXCEPT ![r] = g]
  /\ todo' = [todo EXCEPT ![r] = g.hooks]
  /\ uses' = [uses EXCEPT ![r] = Append(@, g)]
  /\ sink' = [sink EXCEPT ![r] = static_graph_first_iteration(reducer[r])]
  /\ Proceed(r, IF sync(r) THEN prepare_for_backward(reducer[r], g) ELSE reducer[r], "backward")
  /\ UNCHANGED <<scenario, iter>>

-------------------------------------------------------------------------------

Step(r) ==
  \/ Forward(r)
  \/ RebuildBuckets(r)
  \/ \E g \in scenario.graphs : RunModule(r, g)
  \/ \E p \in Param : Hook(r, p)
  \/ DelayAllReduce(r)
  \/ FinalizeBackward(r)
  \/ EndBackward(r)

Next == \E r \in Rank : Step(r)

Spec == Init /\ [][Next]_vars

-------------------------------------------------------------------------------
(* Properties.                                                              *)

\* The collectives of the ranks meet their like: at each position everybody
\* starts the same operation, on the same bucket, of the same iteration,
\* whatever the order of the hooks and whichever parameters each rank uses.
SameCollectives ==
  \A q, r \in Rank : \A k \in DOMAIN reducer[q].issued \cap DOMAIN reducer[r].issued :
    LET a == reducer[q].issued[k]
        b == reducer[r].issued[k]
    IN a.op = b.op /\ a.vars = b.vars /\ a.iteration = b.iteration

\* What rank r alone would have accumulated in p since gradients were cleared,
\* up to iteration i.
Cleared(i) == Max({1} \cup {j \in 1..i : scenario.script[j].zero_grad # "keep"})

Alone(r, p, i) ==
  MapThenSumSet(LAMBDA j : IF p \in uses[r][j].used THEN uses[r][j].hooks[p] * Gradient(r, j) ELSE 0, Cleared(i)..i)

\* Somebody used p in iteration i, or p has been reduced whenever it was used.
Reduced(p, i) ==
  \/ \E r \in Rank : p \in uses[r][i].used
  \/ \A j \in Cleared(i)..i : scenario.script[j].sync \/ \A r \in Rank : p \notin uses[r][j].used

\* Rank r has just finished a backward pass that was to be synchronized.
Synchronized(r) ==
  pc[r] = "idle" /\ iter[r] > 0 /\ sync(r) /\ ~reducer[r].require_finalize

GradIs(r, p, sum) ==
  IF p \in Defined(reducer[r]) THEN N * Grad(reducer[r], p) = sum ELSE sum = 0

\* After a synchronized backward pass each gradient is the average of what all
\* ranks have accumulated, and a parameter that has got no gradient on any rank
\* keeps an undefined one.  Not claimed of gradients accumulated in no_sync()
\* that nobody adds to now.
GradIsAverage ==
  \A r \in Rank : Synchronized(r) =>
    \A p \in Param : Reduced(p, iter[r]) =>
      /\ GradIs(r, p, MapThenSumSet(LAMBDA q : Alone(q, p, iter[r]), Rank))
      /\ p \in Defined(reducer[r]) => \E q \in Rank : \E j \in 1..iter[r] : p \in uses[q][j].used

\* no_sync: the gradients accumulated are synchronized in the first
\* forward-backward pass after it.
NoSyncIsMadeUp ==
  \A r \in Rank : Synchronized(r) =>
    \A p \in Param : GradIs(r, p, MapThenSumSet(LAMBDA q : Alone(q, p, iter[r]), Rank))

\* A no_sync() iteration while the only synchronized one so far is the first of
\* a static graph: num_iterations is still 1 and _DDPSink queues delay_all_reduce.
FirstIterationAgain(r) == ~sync(r) /\ static_graph_first_iteration(reducer[r])

\* In no_sync() a backward pass starts no collective, whatever the iterations
\* before it have left in the reducer.  The code has one exception: after the
\* first synchronized iteration of a static graph, delay_all_reduce, queued
\* again, starts those of all buckets, once and at the end of the pass.
NoSyncStaysLocal ==
  [][\A r \in Rank : pc[r] = "backward" /\ ~sync(r) =>
       \/ reducer'[r].issued = reducer[r].issued
       \/ FirstIterationAgain(r) /\ DelayAllReduce(r)]_vars

\* The graph leaves a parameter without a hook that DDP waits for.
Incomplete(r) ==
  /\ ~scenario.static_graph /\ ~scenario.find_unused_parameters
  /\ graph[r] # Undef /\ \E p \in Param : graph[r].hooks[p] = 0

\* No check of the reducer fails, but the one that reports a graph that leaves
\* out parameters without find_unused_parameters, and the one that the second
\* delay_all_reduce of a static graph meets in no_sync().
ChecksHold ==
  \A r \in Rank : pc[r] = "failed" =>
    \/ Incomplete(r) /\ reducer[r].error = "prior reduction not finished"
    \/ FirstIterationAgain(r) /\ reducer[r].error = "finalize_backward not expected"

\* Rank r has a step to take: it is neither at the end of its script nor
\* waiting for others.
CanStep(r) ==
  \/ pc[r] = "idle" /\ iter[r] < Len(scenario.script)
  \/ pc[r] = "module"
  \/ pc[r] = "rebuild" /\ Len(reducer[r].issued) <= Len(reducer[Root].issued)
  \/ pc[r] = "backward" /\ (HooksDone(r) /\ ~sink[r] /\ reducer[r].callback
                               => unexpected(reducer[r]) \/ wait(reducer[r]))

\* Nobody waits for ever: as long as a rank is in its script, some rank has a
\* step to take, and every step leads on in the script.  Excepted are scripts
\* that leave out parameters.  Ranks whose checks have failed have stopped
\* (ChecksHold), but must not leave others waiting.
NobodyIsStuck ==
  \/ \A r \in Rank : pc[r] \in {"idle", "failed"}
  \/ \E r \in Rank : CanStep(r) \/ Incomplete(r)
===============================================================================
