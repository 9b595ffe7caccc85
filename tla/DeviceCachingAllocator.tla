----------------------- MODULE DeviceCachingAllocator -----------------------
(***************************************************************************)
(* The DeviceCachingAllocator of one GPU (c10/cuda/                        *)
(* CUDACachingAllocator.cpp).  Every public method runs under its mutex,   *)
(* so that each is one transformation of the allocator's state d; what     *)
(* the CUDA runtime keeps (the segments, the work queued on each stream    *)
(* and which streams are being captured) is part of d too, marked          *)
(* external.  A Block object is a number, in use from new to delete.       *)
(***************************************************************************)
EXTENDS Integers, Sequences, FiniteSets, FiniteSetsExt, SequencesExt

CONSTANTS
  kMinBlockSize, kSmallSize, kSmallBuffer, kLargeBuffer, kMinLargeAlloc, kRoundLarge,
  max_split_size,    \* of PYTORCH_CUDA_ALLOC_CONF
  Capacity,          \* memory of the device, or what setMemoryFraction allows
  Stream,
  Null               \* nullptr, and the owner of the pools no graph has

\* The constants of the code stand in these ratios; parseArgs takes a whole
\* number of MiB (kSmallSize) above kLargeBuffer.
ASSUME SizeAssumption ==
  /\ {kMinBlockSize, kSmallSize, max_split_size} \subseteq Nat \ {0}
  /\ kSmallSize % kMinBlockSize = 0
  /\ kSmallBuffer = 2 * kSmallSize /\ kRoundLarge = 2 * kSmallSize
  /\ kMinLargeAlloc = 10 * kSmallSize /\ kLargeBuffer = 20 * kSmallSize
  /\ max_split_size > kLargeBuffer /\ max_split_size % kSmallSize = 0

StatName == {"allocation", "allocated_bytes", "segment", "reserved_bytes", "active",
             "active_bytes", "inactive_split", "inactive_split_bytes",
             "oversize_allocations", "oversize_segments"}

InitAllocator ==
  [block |-> << >>, pooled |-> {}, active_blocks |-> {}, cuda_events |-> << >>,
   needs_events_deferred_until_no_capture |-> << >>, captures_underway |-> 0,
   graph_pools |-> << >>, graph_pools_freeable |-> {}, capture_to_pool_map |-> << >>,
   total_allocated_memory |-> 0, stats |-> [n \in StatName |-> [small \in BOOLEAN |-> 0]],
   segment |-> << >>, work |-> [s \in Stream |-> << >>], capturing |-> [s \in Stream |-> Null]]

is_split(d, b) == d.block[b].prev # Null \/ d.block[b].next # Null

PutBlock(d, b, x) == [d EXCEPT !.block = [c \in DOMAIN @ \cup {b} |-> IF c = b THEN x ELSE @[c]]]

NewBlock(d) == Min(1..(Cardinality(DOMAIN d.block) + 1) \ DOMAIN d.block)

\* update_stat_array for the aggregate and for the pool's own statistics: one
\* counter per pool kind, the aggregate being their sum.
update_stats(d, small, change) ==
  [d EXCEPT !.stats = [n \in StatName |->
     IF n \in DOMAIN change THEN [d.stats[n] EXCEPT ![small] = @ + change[n]] ELSE d.stats[n]]]

oversize(size) == IF size >= max_split_size THEN 1 ELSE 0

-------------------------------------------------------------------------------
(* External: the CUDA runtime.  A stream executes its work in order; an     *)
(* event is complete once its stream has reached it.                        *)

IsEvent(e) == "block" \in DOMAIN e

cudaEventQuery(d, e) == e \notin ToSet(d.work[e.stream])

\* The host waits until the stream has executed all work up to the event.
cudaEventSynchronize(d, e) ==
  IF cudaEventQuery(d, e) THEN d
  ELSE [d EXCEPT !.work[e.stream] = SubSeq(@, SelectInSeq(@, LAMBDA i : i = e) + 1, Len(@))]

\* The lowest address with room; it fails when the device is full.
Base(d, size) ==
  Min({a \in {0} \cup {c + d.segment[c] : c \in DOMAIN d.segment} :
         \A c \in DOMAIN d.segment : a + size <= c \/ c + d.segment[c] <= a})

cudaMalloc(d, size) ==
  LET a == Base(d, size)
  IN [d EXCEPT !.segment = [c \in DOMAIN @ \cup {a} |-> IF c = a THEN size ELSE @[c]]]

\* cudaFree waits for the device.
cudaFree(d, ptr) ==
  [d EXCEPT !.segment = Restrict(@, DOMAIN @ \ {ptr}), !.work = [s \in Stream |-> << >>]]

-------------------------------------------------------------------------------
(* Freeing.                                                                 *)

\* What keeps a block from being merged, and snapshot's "active".
in_use(d, b) ==
  d.block[b].allocated \/ d.block[b].event_count > 0 \/ d.block[b].stream_uses # {}

\* The neighbour src, if it is free, becomes part of dst.
try_merge_blocks(d, dst, src) ==
  IF src = Null \/ in_use(d, src) THEN d
  ELSE LET x == d.block[src]
           y == d.block[dst]
           before == y.prev = src
           link(c) == CASE c = dst /\ before ->
                             [y EXCEPT !.ptr = x.ptr, !.prev = x.prev, !.size = @ + x.size]
                        [] c = dst /\ ~before -> [y EXCEPT !.next = x.next, !.size = @ + x.size]
                        [] c # dst /\ before /\ c = x.prev -> [d.block[c] EXCEPT !.next = dst]
                        [] c # dst /\ ~before /\ c = x.next -> [d.block[c] EXCEPT !.prev = dst]
                        [] OTHER -> d.block[c]
       IN update_stats(
            [d EXCEPT !.pooled = @ \ {src}, !.block = [c \in DOMAIN @ \ {src} |-> link(c)]],
            y.pool.small, [inactive_split |-> -1, inactive_split_bytes |-> -x.size])

\* Mutant: the bytes that leave active_bytes are those of the merged block.
ToPoolMergedSize(d, b, original_block_size) ==
  update_stats(
    [d EXCEPT !.active_blocks = @ \ {b}, !.pooled = @ \cup {b}],
    d.block[b].pool.small,
    [active |-> -1, active_bytes |-> -d.block[b].size,
     inactive_split |-> IF is_split(d, b) THEN 1 ELSE 0,
     inactive_split_bytes |-> IF is_split(d, b) THEN d.block[b].size ELSE 0])

\* The end of free_block, once the block is merged with its neighbours.
ToPool(d, b, original_block_size) ==
  update_stats(
    [d EXCEPT !.active_blocks = @ \ {b}, !.pooled = @ \cup {b}],
    d.block[b].pool.small,
    [active |-> -1, active_bytes |-> -original_block_size,
     inactive_split |-> IF is_split(d, b) THEN 1 ELSE 0,
     inactive_split_bytes |-> IF is_split(d, b) THEN d.block[b].size ELSE 0])

free_block(d, b) ==
  ToPool(try_merge_blocks(try_merge_blocks(d, b, d.block[b].prev), b, d.block[b].next),
         b, d.block[b].size)

insert_events(d, b) ==
  LET events == [i \in 1..Cardinality(d.block[b].stream_uses) |->
                   [block |-> b, stream |-> SetToSeq(d.block[b].stream_uses)[i]]]
  IN [d EXCEPT !.block[b].stream_uses = {},
               !.block[b].event_count = @ + Len(events),
               !.work = [s \in Stream |->
                  @[s] \o SelectSeq(events, LAMBDA e : e.stream = s)],
               !.cuda_events = @ \o events]

insert_events_deferred_until_no_capture(d) ==
  [FoldLeft(insert_events, d, d.needs_events_deferred_until_no_capture)
     EXCEPT !.needs_events_deferred_until_no_capture = << >>]

RetireEvent(d, e) ==
  LET counted == [d EXCEPT !.block[e.block].event_count = @ - 1]
  IN IF counted.block[e.block].event_count = 0 THEN free_block(counted, e.block) ELSE counted

\* Mutant: a block is freed once the first of its streams is done.
process_first_events(d) ==
  LET done == SelectSeq(d.cuda_events, LAMBDA v : cudaEventQuery(d, v))
  IN FoldLeft(LAMBDA f, v : IF v.block \in f.active_blocks
                THEN free_block([f EXCEPT !.block[v.block].event_count = 0], v.block) ELSE f,
              [d EXCEPT !.cuda_events = SelectSeq(@, LAMBDA v :
                          \A w \in ToSet(done) : w.block # v.block)], done)

\* The loop of process_events retires the events at the front of the queue, up
\* to the first one that is not complete.
process_front_events(d) ==
  LET n == CHOOSE n \in 0..Len(d.cuda_events) :
             /\ \A i \in 1..n : cudaEventQuery(d, d.cuda_events[i])
             /\ n < Len(d.cuda_events) => ~cudaEventQuery(d, d.cuda_events[n + 1])
  IN FoldLeft(RetireEvent,
              [d EXCEPT !.cuda_events = SubSeq(@, n + 1, Len(@))], SubSeq(d.cuda_events, 1, n))

process_events(d) == process_front_events(insert_events_deferred_until_no_capture(d))

synchronize_all_events(d) ==
  FoldLeft(LAMBDA f, v : RetireEvent(cudaEventSynchronize(f, v), v),
           [d EXCEPT !.cuda_events = << >>], d.cuda_events)

synchronize_and_free_events(d) ==
  synchronize_all_events(insert_events_deferred_until_no_capture(d))

\* DeviceCachingAllocator::free.
FreeBlock(d, b) ==
  LET x == d.block[b]
      marked == update_stats([d EXCEPT !.block[b].allocated = FALSE], x.pool.small,
                  [allocation |-> -1, allocated_bytes |-> -x.size,
                   oversize_allocations |-> -oversize(x.size)])
  IN IF x.stream_uses = {} THEN free_block(marked, b)
     ELSE IF d.captures_underway > 0
     THEN [marked EXCEPT !.needs_events_deferred_until_no_capture = Append(@, b)]
     ELSE insert_events(marked, b)

recordStream(d, b, s) ==
  IF s = d.block[b].stream THEN d ELSE [d EXCEPT !.block[b].stream_uses = @ \cup {s}]

\* The segment a block is part of, walking prev and then next.
getBaseAllocation(d, b) ==
  LET head[c \in DOMAIN d.block] == IF d.block[c].prev = Null THEN c ELSE head[d.block[c].prev]
      total[c \in DOMAIN d.block] ==
        d.block[c].size + IF d.block[c].next = Null THEN 0 ELSE total[d.block[c].next]
  IN [ptr |-> d.block[head[b]].ptr, size |-> total[head[b]]]

-------------------------------------------------------------------------------
(* Returning segments to CUDA.                                              *)

release_block(d, b) ==
  LET x == d.block[b]
      freed == [cudaFree(d, x.ptr) EXCEPT
                  !.total_allocated_memory = @ - x.size,
                  !.graph_pools = [m \in DOMAIN @ |-> IF m = x.pool.owner
                     THEN [@[m] EXCEPT !.cudaMalloc_count = @ - 1] ELSE @[m]],
                  !.pooled = @ \ {b},
                  !.block = Restrict(@, DOMAIN @ \ {b})]
  IN update_stats(freed, x.pool.small,
       [segment |-> -1, reserved_bytes |-> -x.size, oversize_segments |-> -oversize(x.size)])

InPool(d, pool) == {b \in d.pooled : d.block[b].pool = pool}

release_blocks(d, owner, small) ==
  FoldLeft(release_block, d,
    SetToSeq({b \in InPool(d, [owner |-> owner, small |-> small]) : ~is_split(d, b)}))

EraseIfEmpty(d, m) ==
  IF d.graph_pools[m].cudaMalloc_count > 0 THEN d
  ELSE [d EXCEPT !.graph_pools = Restrict(@, DOMAIN @ \ {m}),
                 !.graph_pools_freeable = @ \ {m}]

release_freeable_pool(d, m) ==
  EraseIfEmpty(release_blocks(release_blocks(d, m, TRUE), m, FALSE), m)

\* Mutant: blocks that wait for events are not waited for.
release_idle_blocks(d) ==
  FoldLeft(release_freeable_pool, release_blocks(release_blocks(d, Null, FALSE), Null, TRUE),
           SetToSeq(d.graph_pools_freeable))

\* The code asserts that no capture is underway: see EmptyCache and malloc.
release_cached_blocks(d) ==
  FoldLeft(release_freeable_pool,
    release_blocks(release_blocks(synchronize_and_free_events(d), Null, FALSE), Null, TRUE),
    SetToSeq(d.graph_pools_freeable))

\* BlockComparator among the blocks of one stream.
Before(d, b, c) ==
  \/ d.block[b].size < d.block[c].size
  \/ d.block[b].size = d.block[c].size /\ d.block[b].ptr < d.block[c].ptr

\* pool.blocks.lower_bound: the smallest block of the stream that fits.
lower_bound(d, pool, s, size) ==
  LET fit == {b \in InPool(d, pool) : d.block[b].stream = s /\ d.block[b].size >= size}
  IN IF fit = {} THEN Null ELSE CHOOSE b \in fit : \A c \in fit \ {b} : Before(d, b, c)

\* The oversize blocks that release_available_cached_blocks gives back: one that
\* is large enough, or the largest ones until they are enough together.
AvailableBlocks(d, pool, s, size) ==
  LET key == IF size < max_split_size THEN max_split_size ELSE size
      b == lower_bound(d, pool, s, key)
      large == SetToSortSeq({c \in InPool(d, pool) :
                               d.block[c].stream = s /\ d.block[c].size >= max_split_size},
                            LAMBDA x, y : Before(d, y, x))
      total[i \in 0..Len(large)] == IF i = 0 THEN 0 ELSE total[i - 1] + d.block[large[i]].size
      n == Min({i \in 0..Len(large) : total[i] >= key} \cup {Len(large)})
  IN IF b # Null THEN [blocks |-> <<b>>, enough |-> TRUE]
     ELSE [blocks |-> SubSeq(large, 1, n), enough |-> total[n] >= key]

-------------------------------------------------------------------------------
(* Allocating.                                                              *)

round_size(size) ==
  IF size < kMinBlockSize THEN kMinBlockSize
  ELSE kMinBlockSize * ((size + kMinBlockSize - 1) \div kMinBlockSize)

get_allocation_size(size) ==
  IF size <= kSmallSize THEN kSmallBuffer
  ELSE IF size < kMinLargeAlloc THEN kLargeBuffer
  ELSE kRoundLarge * ((size + kRoundLarge - 1) \div kRoundLarge)

get_pool(d, size, s) ==
  [owner |-> IF d.captures_underway > 0 /\ d.capturing[s] # Null
               THEN d.capture_to_pool_map[d.capturing[s]] ELSE Null,
   small |-> size <= kSmallSize]

\* Mutant: oversize requests split too.
should_split_always(d, b, size) ==
  LET remaining == d.block[b].size - size
  IN IF d.block[b].pool.small THEN remaining >= kMinBlockSize ELSE remaining > kSmallSize

should_split(d, b, size) ==
  LET remaining == d.block[b].size - size
  IN IF d.block[b].pool.small THEN remaining >= kMinBlockSize
     ELSE size < max_split_size /\ remaining > kSmallSize

\* The outcome of an attempt to find a block: the state, the block and the error.
Outcome(d, b, err) == [d |-> d, b |-> b, err |-> err]

\* a || b in malloc: the next attempt is made when this one finds no block.
OrElse(r, next) ==
  IF r.b = Null /\ r.err \in {"cudaSuccess", "cudaErrorMemoryAllocation"} THEN next ELSE r

Fits(d, b, size) ==
  /\ size < max_split_size => d.block[b].size < max_split_size
  /\ size >= max_split_size => d.block[b].size < size + kLargeBuffer

get_free_block(d, pool, s, size) ==
  LET b == lower_bound(d, pool, s, size)
  IN IF b = Null \/ ~Fits(d, b, size) THEN Outcome(d, Null, "cudaSuccess")
     ELSE Outcome([d EXCEPT !.pooled = @ \ {b}], b, "cudaSuccess")

\* A new segment, and its Block.
AddSegment(d, pool, s, size, b) ==
  update_stats(
    [PutBlock(cudaMalloc(d, size), b,
       [stream |-> s, stream_uses |-> {}, size |-> size, pool |-> pool, ptr |-> Base(d, size),
        allocated |-> FALSE, prev |-> Null, next |-> Null, event_count |-> 0])
     EXCEPT !.total_allocated_memory = @ + size,
            !.graph_pools = [m \in DOMAIN @ |-> IF m = pool.owner
               THEN [@[m] EXCEPT !.cudaMalloc_count = @ + 1] ELSE @[m]]],
    pool.small, [segment |-> 1, reserved_bytes |-> size, oversize_segments |-> oversize(size)])

\* cudaMalloc is refused while a capture is underway, but for the captured
\* stream (cudaMallocMaybeCapturing); that error is thrown at once.
alloc_block(d, pool, s, size) ==
  CASE d.captures_underway > 0 /\ d.capturing[s] = Null -> Outcome(d, Null, "cudaError")
    [] ~(d.captures_underway > 0 /\ d.capturing[s] = Null)
         /\ d.total_allocated_memory + size > Capacity ->
         Outcome(d, Null, "cudaErrorMemoryAllocation")
    [] OTHER -> Outcome(AddSegment(d, pool, s, size, NewBlock(d)), NewBlock(d), "cudaSuccess")

\* The last two attempts of malloc, after some oversize blocks are released.
AllocReleased(d, enough, pool, s, size) ==
  OrElse(IF enough THEN alloc_block(d, pool, s, get_allocation_size(size))
                   ELSE Outcome(d, Null, "cudaErrorMemoryAllocation"),
         alloc_block(release_cached_blocks(d), pool, s, get_allocation_size(size)))

\* Releasing memory throws while a capture is underway: cudaFree is refused, and
\* synchronize_and_free_events asserts.
AllocReleasing(d, available, pool, s, size) ==
  IF d.captures_underway > 0 THEN Outcome(d, Null, "assert")
  ELSE AllocReleased(FoldLeft(release_block, d, available.blocks), available.enough,
                     pool, s, size)

FindBlock(d, pool, s, size) ==
  OrElse(get_free_block(d, pool, s, size),
    OrElse(alloc_block(d, pool, s, get_allocation_size(size)),
           AllocReleasing(d, AvailableBlocks(d, pool, s, size), pool, s, size)))

\* The block is cut in two: a new Block for the caller, at its front, while
\* the old one keeps the rest.
Split(d, b, size) ==
  LET x == d.block[b]
      n == NewBlock(d)
      front == [x EXCEPT !.size = size, !.next = b]
      linked == [c \in DOMAIN d.block |->
                   IF c = b THEN [x EXCEPT !.prev = n, !.ptr = @ + size, !.size = @ - size]
                   ELSE IF c = x.prev THEN [d.block[c] EXCEPT !.next = n]
                   ELSE d.block[c]]
  IN update_stats(
       [PutBlock([d EXCEPT !.block = linked], n, front) EXCEPT !.pooled = @ \cup {b}],
       x.pool.small,
       IF is_split(d, b) THEN [inactive_split_bytes |-> -size]
       ELSE [inactive_split_bytes |-> x.size - size, inactive_split |-> 1])

Activate(d, b) ==
  Outcome(
    update_stats([d EXCEPT !.block[b].allocated = TRUE, !.active_blocks = @ \cup {b}],
      d.block[b].pool.small,
      [allocation |-> 1, allocated_bytes |-> d.block[b].size,
       active |-> 1, active_bytes |-> d.block[b].size,
       oversize_allocations |-> oversize(d.block[b].size)]),
    b, "cudaSuccess")

\* The end of malloc, with what it has found.
TakeBlock(r, size) ==
  CASE r.b = Null -> r
    [] r.b # Null /\ should_split(r.d, r.b, size) ->
         Activate(Split(r.d, r.b, size), NewBlock(r.d))
    [] r.b # Null /\ ~should_split(r.d, r.b, size) /\ is_split(r.d, r.b) ->
         Activate(update_stats(r.d, r.d.block[r.b].pool.small,
                    [inactive_split |-> -1, inactive_split_bytes |-> -r.d.block[r.b].size]), r.b)
    [] OTHER -> Activate(r.d, r.b)

\* DeviceCachingAllocator::malloc.
MallocRounded(d, size, s) == TakeBlock(FindBlock(d, get_pool(d, size, s), s, size), size)

MallocBlock(d, size, s) ==
  MallocRounded(IF d.captures_underway = 0 THEN process_events(d) ELSE d, round_size(size), s)

-------------------------------------------------------------------------------
(* Captures.                                                                *)

\* The assertion on the use_count of a shared pool is a guard of capture_begin.
notifyCaptureBegin(d, id, mempool) ==
  LET pool == IF mempool \in DOMAIN d.graph_pools
                THEN [d.graph_pools[mempool] EXCEPT !.use_count = @ + 1]
                ELSE [use_count |-> 1, cudaMalloc_count |-> 0]
  IN [d EXCEPT !.captures_underway = @ + 1,
               !.graph_pools = [m \in DOMAIN @ \cup {mempool} |->
                                  IF m = mempool THEN pool ELSE @[m]],
               !.capture_to_pool_map = [i \in DOMAIN @ \cup {id} |->
                                  IF i = id THEN mempool ELSE @[i]]]

notifyCaptureEnd(d, id) ==
  [d EXCEPT !.captures_underway = @ - 1,
            !.capture_to_pool_map = Restrict(@, DOMAIN @ \ {id})]

\* Mutant: the first graph to go makes the shared pool freeable.
notifyCaptureDestroyAny(d, mempool) ==
  IF mempool \notin DOMAIN d.graph_pools THEN d
  ELSE [d EXCEPT !.graph_pools[mempool].use_count = @ - 1,
                 !.graph_pools_freeable = @ \cup {mempool}]

\* Its assertions: the pool is there, and has not been given up more often than
\* shared.
notifyCaptureDestroyThrows(d, mempool) ==
  \/ mempool \notin DOMAIN d.graph_pools
  \/ d.graph_pools[mempool].use_count <= 0
  \/ d.graph_pools[mempool].use_count = 1 /\ mempool \in d.graph_pools_freeable

\* What it has done when it returns or throws.
notifyCaptureDestroy(d, mempool) ==
  LET uc == d.graph_pools[mempool].use_count - 1
  IN IF mempool \notin DOMAIN d.graph_pools THEN d
     ELSE [d EXCEPT !.graph_pools[mempool].use_count = uc,
                    !.graph_pools_freeable = IF uc = 0 THEN @ \cup {mempool} ELSE @]

=============================================================================
