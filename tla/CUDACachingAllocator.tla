------------------------ MODULE CUDACachingAllocator ------------------------
(***************************************************************************)
(* The CUDA caching allocator as a program uses it: THCCachingAllocator,   *)
(* which finds the Block of a pointer in a map under a mutex of its own,   *)
(* on top of the DeviceCachingAllocator of one GPU, and CUDAGraph          *)
(* (aten/src/ATen/cuda/CUDAGraph.cpp), whose captures allocate from        *)
(* private pools.  Threads allocate and free tensors, kernels use them on  *)
(* streams, and the GPU executes those in stream order.                    *)
(*                                                                         *)
(* The program keeps the documented rules: a tensor used on a stream other *)
(* than its own is recorded there, one capture is underway at a time, and  *)
(* no kernel runs outside it meanwhile.                                    *)
(***************************************************************************)
EXTENDS DeviceCachingAllocator

CONSTANTS
  Thread,
  Graph,             \* CUDAGraph objects, each used for one capture
  DefaultStream,
  Scenarios          \* what the program does, see ScenarioOK

VARIABLES
  scenario,
  d,                 \* the DeviceCachingAllocator and the CUDA runtime
  allocated_blocks,  \* THCCachingAllocator: pointer -> Block
  thread,            \* where each thread is in malloc or free, and its block
  tensor,            \* pointers the program holds
  graph              \* the CUDAGraph objects

vars == <<scenario, d, allocated_blocks, thread, tensor, graph>>

\* A program uses some of the threads and graphs, allocates requests of some
\* sizes on some streams (home) and launches kernels on others.  It may call
\* CUDAGraph::reset itself, and keep the object until it exits or drop it
\* before.  The active blocks and the kernels queued on a stream are bounded.
ScenarioOK(c) ==
  /\ c.threads \subseteq Thread /\ c.home \cup c.streams \subseteq Stream /\ c.graphs \subseteq Graph
  /\ c.sizes \subseteq 1..Capacity /\ c.resets \in {"never", "kept", "dropped"}
  /\ c.max_active \in Nat /\ c.max_work \in Nat

ASSUME ScenarioAssumption == \A c \in Scenarios : ScenarioOK(c)
ASSUME StreamAssumption == DefaultStream \in Stream /\ IsFiniteSet(Stream)

Idle == [pc |-> "idle", b |-> Null]

NewGraph == [state |-> "new", has_graph |-> FALSE, has_graph_exec |-> FALSE, id |-> Null,
             mempool |-> Null, stream |-> Null, baked |-> {}]

Init ==
  /\ scenario \in Scenarios
  /\ d = InitAllocator
  /\ allocated_blocks = << >>
  /\ thread = [t \in Thread |-> Idle]
  /\ tensor = {}
  /\ graph = [g \in Graph |-> NewGraph]

-------------------------------------------------------------------------------
(* Threads.                                                                 *)

\* THCCachingAllocator::malloc returns from the device allocator.
Malloc(t, size, s) ==
  /\ thread[t] = Idle
  /\ Cardinality(d.active_blocks) < scenario.max_active
  /\ \E r \in {MallocBlock(d, size, s)} :
       /\ r.err = "cudaSuccess"
       /\ d' = r.d
       /\ thread' = [thread EXCEPT ![t] = [pc |-> "add", b |-> r.b]]
  /\ UNCHANGED <<scenario, allocated_blocks, tensor, graph>>

\* It throws: out of memory once everything is released, or at once during a
\* capture.
MallocThrows(t, size, s) ==
  /\ thread[t] = Idle
  /\ Cardinality(d.active_blocks) < scenario.max_active
  /\ \E r \in {MallocBlock(d, size, s)} : r.err # "cudaSuccess" /\ d' = r.d
  /\ UNCHANGED <<scenario, allocated_blocks, thread, tensor, graph>>

add_allocated_block(t) ==
  /\ thread[t].pc = "add"
  /\ LET ptr == d.block[thread[t].b].ptr
     IN /\ allocated_blocks' = [p \in DOMAIN allocated_blocks \cup {ptr} |->
              IF p = ptr THEN thread[t].b ELSE allocated_blocks[p]]
        /\ tensor' = tensor \cup {ptr}
  /\ thread' = [thread EXCEPT ![t] = Idle]
  /\ UNCHANGED <<scenario, d, graph>>

\* Mutant: the entry stays in the map.
get_allocated_block_kept(t, ptr) ==
  /\ thread[t] = Idle
  /\ thread' = [thread EXCEPT ![t] = [pc |-> "free", b |-> allocated_blocks[ptr]]]
  /\ tensor' = tensor \ {ptr}
  /\ UNCHANGED <<scenario, d, allocated_blocks, graph>>

\* THCCachingAllocator::free first takes the block out of the map.
get_allocated_block(t, ptr) ==
  /\ thread[t] = Idle
  /\ thread' = [thread EXCEPT ![t] = [pc |-> "free", b |-> allocated_blocks[ptr]]]
  /\ allocated_blocks' = Restrict(allocated_blocks, DOMAIN allocated_blocks \ {ptr})
  /\ tensor' = tensor \ {ptr}
  /\ UNCHANGED <<scenario, d, graph>>

Free(t) ==
  /\ thread[t].pc = "free"
  /\ d' = FreeBlock(d, thread[t].b)
  /\ thread' = [thread EXCEPT ![t] = Idle]
  /\ UNCHANGED <<scenario, allocated_blocks, tensor, graph>>

\* A kernel is launched on s and the tensor recorded there.
Launch(ptr, s) ==
  /\ d.captures_underway = 0
  /\ Len(d.work[s]) < scenario.max_work
  /\ LET b == allocated_blocks[ptr]
     IN d' = recordStream([d EXCEPT !.work[s] =
                             Append(@, [ptr |-> ptr, size |-> d.block[b].size])], b, s)
  /\ UNCHANGED <<scenario, allocated_blocks, thread, tensor, graph>>

\* External: the GPU executes the next kernel or event of a stream.
Execute(s) ==
  /\ d.work[s] # << >>
  /\ d' = [d EXCEPT !.work[s] = Tail(@)]
  /\ UNCHANGED <<scenario, allocated_blocks, thread, tensor, graph>>

\* release_cached_blocks throws while a capture is underway.
EmptyCache ==
  /\ d.captures_underway = 0
  /\ d' = release_cached_blocks(d)
  /\ UNCHANGED <<scenario, allocated_blocks, thread, tensor, graph>>

-------------------------------------------------------------------------------
(* Graphs.                                                                  *)

\* The capture gets a pool of its own, or shares the one of a graph that is
\* still there (CUDAGraph::pool).  The assertion on the use_count of a shared pool
\* is a guard: a program that meets it is not followed further.
capture_begin(g, s, mempool) ==
  /\ graph[g].state = "new"
  /\ s # DefaultStream
  /\ d.captures_underway = 0
  /\ \/ mempool = g
     \/ \E h \in Graph : graph[h].state = "captured" /\ graph[h].mempool = mempool
  /\ mempool \in DOMAIN d.graph_pools => d.graph_pools[mempool].use_count > 0
  /\ graph' = [graph EXCEPT ![g] = [@ EXCEPT !.state = "capturing", !.id = g,
                                             !.mempool = mempool, !.stream = s]]
  /\ d' = notifyCaptureBegin([d EXCEPT !.capturing[s] = g], g, mempool)
  /\ UNCHANGED <<scenario, allocated_blocks, thread, tensor>>

\* The kernel is recorded, with the address of its tensor.
Record(g, ptr) ==
  /\ graph[g].state = "capturing"
  /\ LET b == allocated_blocks[ptr]
     IN /\ d.block[b].pool.owner = graph[g].mempool
        /\ graph' = [graph EXCEPT ![g].baked = @ \cup {ptr}]
        /\ d' = recordStream(d, b, graph[g].stream)
  /\ UNCHANGED <<scenario, allocated_blocks, thread, tensor>>

\* CUDA may find the capture invalid; then the object owns no graph.  If
\* cudaGraphInstantiate fails it owns one that cannot be replayed.
capture_end(g, valid, instantiated) ==
  /\ graph[g].state = "capturing"
  /\ d' = [notifyCaptureEnd(d, graph[g].id) EXCEPT !.capturing[graph[g].stream] = Null]
  /\ graph' = [graph EXCEPT ![g].state = IF valid /\ instantiated THEN "captured" ELSE "failed",
                            ![g].has_graph = valid /\ ~instantiated,
                            ![g].has_graph_exec = valid /\ instantiated]
  /\ UNCHANGED <<scenario, allocated_blocks, thread, tensor>>

OwnsGraph(g) == graph[g].has_graph \/ graph[g].has_graph_exec

reset(g) == IF OwnsGraph(g) THEN notifyCaptureDestroy(d, graph[g].mempool) ELSE d

resetThrows(g) == OwnsGraph(g) /\ notifyCaptureDestroyThrows(d, graph[g].mempool)

\* reset() leaves has_graph_ and has_graph_exec_ as they are, and does not get
\* to cudaGraphExecDestroy when notifyCaptureDestroy throws.
Reset(g) ==
  /\ scenario.resets # "never"
  /\ graph[g].state \in {"captured", "failed"}
  /\ d' = reset(g)
  /\ graph' = IF resetThrows(g) THEN graph
              ELSE [graph EXCEPT ![g].state = "reset", ![g].baked = {}]
  /\ UNCHANGED <<scenario, allocated_blocks, thread, tensor>>

\* ~CUDAGraph; when it throws the process ends.
Destroy(g) ==
  /\ ~resetThrows(g)
  /\ \/ graph[g].state \in {"captured", "failed"}
     \/ graph[g].state = "reset" /\ scenario.resets = "dropped"
  /\ d' = reset(g)
  /\ graph' = [graph EXCEPT ![g].state = "gone", ![g].baked = {}]
  /\ UNCHANGED <<scenario, allocated_blocks, thread, tensor>>

Next ==
  \/ \E t \in scenario.threads, size \in scenario.sizes, s \in scenario.home : Malloc(t, size, s) \/ MallocThrows(t, size, s)
  \/ \E t \in scenario.threads : add_allocated_block(t) \/ Free(t)
  \/ \E t \in scenario.threads, ptr \in tensor : get_allocated_block(t, ptr)
  \/ \E ptr \in tensor, s \in scenario.streams : Launch(ptr, s)
  \/ \E s \in Stream : Execute(s)
  \/ EmptyCache
  \/ \E g \in scenario.graphs, s \in scenario.home, mempool \in scenario.graphs : capture_begin(g, s, mempool)
  \/ \E g \in scenario.graphs, ptr \in tensor : Record(g, ptr)
  \/ \E g \in scenario.graphs, valid, instantiated \in BOOLEAN : capture_end(g, valid, instantiated)
  \/ \E g \in scenario.graphs : Reset(g) \/ Destroy(g)

Spec == Init /\ [][Next]_vars

-------------------------------------------------------------------------------
(* Properties.                                                              *)

Blocks == DOMAIN d.block

Allocated == {b \in Blocks : d.block[b].allocated}

\* The Block objects of a segment are a doubly linked list, in address order and
\* without gaps, from its first byte to its last, all of one pool and stream;
\* no two neighbours are both free; each block is in exactly one of
\* active_blocks and its pool, the former when it is in use; and the segments
\* are exactly those CUDA has given out, for a pool that exists.  Splitting,
\* merging, and cudaFree without asking whether a block is split (as
\* release_available_cached_blocks does) all have to keep this.
HeapIsWellFormed ==
  /\ \A b \in Blocks :
       LET x == d.block[b]
           base == getBaseAllocation(d, b)
       IN /\ x.size > 0
          /\ x.next # Null =>
               /\ x.next \in Blocks
               /\ LET y == d.block[x.next]
                  IN /\ y.prev = b /\ y.ptr = x.ptr + x.size
                     /\ y.pool = x.pool /\ y.stream = x.stream
                     /\ in_use(d, b) \/ in_use(d, x.next)
          /\ x.prev # Null => x.prev \in Blocks /\ d.block[x.prev].next = b
          /\ base.ptr \in DOMAIN d.segment /\ d.segment[base.ptr] = base.size
          /\ x.pool.owner \in DOMAIN d.graph_pools \cup {Null}
          /\ (b \in d.active_blocks) = in_use(d, b)
          /\ (b \in d.pooled) = ~in_use(d, b)
  /\ {d.block[b].ptr : b \in {c \in Blocks : d.block[c].prev = Null}} = DOMAIN d.segment
  /\ d.active_blocks \cup d.pooled = Blocks

SumSizes(S) == MapThenSumSet(LAMBDA b : d.block[b].size, S)

\* Every statistic equals what it counts, in each pool kind, after any mix of
\* splits, merges, deferred frees and releases: update_stat's assertion against
\* negative values never fires, and memory_stats() tells the truth.
StatsAreExact ==
  /\ \A small \in BOOLEAN :
       LET all == {b \in Blocks : d.block[b].pool.small = small}
           allocated == {b \in all : d.block[b].allocated}
           active == all \cap d.active_blocks
           inactive == {b \in all \cap d.pooled : is_split(d, b)}
           heads == {b \in all : d.block[b].prev = Null}
           size(b) == getBaseAllocation(d, b).size
           exact == [allocation |-> Cardinality(allocated),
                     allocated_bytes |-> SumSizes(allocated),
                     segment |-> Cardinality(heads), reserved_bytes |-> SumSizes(all),
                     active |-> Cardinality(active), active_bytes |-> SumSizes(active),
                     inactive_split |-> Cardinality(inactive),
                     inactive_split_bytes |-> SumSizes(inactive),
                     oversize_allocations |-> MapThenSumSet(
                        LAMBDA b : oversize(d.block[b].size), allocated),
                     oversize_segments |-> MapThenSumSet(LAMBDA b : oversize(size(b)), heads)]
       IN \A n \in StatName : d.stats[n][small] = exact[n]
  /\ d.total_allocated_memory = SumSizes(Blocks)

Overlap(use, x) == use.ptr < x.ptr + x.size /\ x.ptr < use.ptr + use.size

\* Memory that can be handed out, or has been, is used by no kernel that is
\* still queued, but for kernels of its own stream and of the streams recorded
\* for its present use: recordStream, the events, their deferral during a
\* capture and process_events together keep a block from the next user until
\* every stream is done with it.
NoReuseWhileUsed ==
  \A b \in Blocks :
    d.block[b].event_count = 0 =>
      \A s \in Stream : \A i \in DOMAIN d.work[s] :
        ~IsEvent(d.work[s][i]) /\ Overlap(d.work[s][i], d.block[b])
          => s \in {d.block[b].stream} \cup d.block[b].stream_uses

\* A pointer the program holds is found in the map, with the block at that
\* address, which is allocated and which no thread is freeing: the two mutexes
\* of malloc and free are taken in an order that never mixes up an address that
\* one thread gives back and another one gets.
LookupIsRight ==
  /\ DOMAIN allocated_blocks = tensor
  /\ \A ptr \in tensor :
       LET b == allocated_blocks[ptr]
       IN /\ b \in Blocks /\ d.block[b].ptr = ptr /\ d.block[b].allocated
          /\ \A t \in Thread : thread[t].b # b

\* The addresses that a live graph has recorded stay in its private pool: they
\* are neither returned to CUDA nor given to tensors of another pool.
GraphMemoryStays ==
  \A g \in Graph : \A ptr \in graph[g].baked :
    \E b \in Blocks : /\ d.block[b].ptr <= ptr /\ ptr < d.block[b].ptr + d.block[b].size
                      /\ d.block[b].pool.owner = graph[g].mempool

Needed(m) == m \in DOMAIN d.graph_pools /\ d.graph_pools[m].use_count > 0

Released ==
  /\ \A a \in DOMAIN d.segment : \E b \in Blocks :
       /\ getBaseAllocation(d, b).ptr = a
       /\ b \in Allocated \/ Needed(d.block[b].pool.owner)
  /\ \A m \in DOMAIN d.graph_pools :
       Needed(m) \/ \E b \in Allocated : d.block[b].pool.owner = m

\* After emptyCache, and when malloc reports that the device is out of memory,
\* the only segments left hold an allocated block or belong to a pool that a
\* graph still needs, and the other private pools are gone: what waited for
\* events has been waited for, and free neighbours have been merged.
ReleaseIsComplete ==
  [][\/ EmptyCache
     \/ \E t \in scenario.threads, size \in scenario.sizes, s \in scenario.home :
          MallocThrows(t, size, s) /\ d.captures_underway = 0
     => Released']_vars

=============================================================================
