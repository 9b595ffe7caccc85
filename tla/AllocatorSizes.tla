--------------------------- MODULE AllocatorSizes ---------------------------
(***************************************************************************)
(* The size arithmetic of the CUDA caching allocator, for every value of   *)
(* its constants and every request: a segment holds the request it is      *)
(* made for, and no part of a split block counts as oversize.  The second  *)
(* is what lets release_available_cached_blocks cudaFree the blocks of at  *)
(* least max_split_size one by one without asking whether they are split.  *)
(***************************************************************************)
EXTENDS DeviceCachingAllocator, TLAPS

LEMMA Division ==
  ASSUME NEW a \in Nat, NEW n \in Nat, n > 0
  PROVE  /\ a \div n \in Nat
         /\ n * (a \div n) <= a
         /\ a < n * (a \div n) + n
  OBVIOUS

LEMMA Multiple ==
  ASSUME NEW a \in Nat, NEW n \in Nat, n > 0, a % n = 0
  PROVE  a = n * (a \div n)
  OBVIOUS

LEMMA Cancel ==
  ASSUME NEW x \in Nat, NEW y \in Nat, NEW n \in Nat, n > 0, n * x < n * y
  PROVE  x < y
  OBVIOUS

LEMMA Monotone ==
  ASSUME NEW x \in Nat, NEW y \in Nat, NEW n \in Nat, x <= y
  PROVE  n * x <= n * y
  OBVIOUS

\* Rounding a up to a multiple of n, as round_size and get_allocation_size do.
LEMMA RoundedUp ==
  ASSUME NEW a \in Nat, NEW n \in Nat, n > 0
  PROVE  LET up == n * ((a + n - 1) \div n) IN up \in Nat /\ a <= up /\ up < a + n
<1>1. a + n - 1 \in Nat
  OBVIOUS
<1>2. (a + n - 1) \div n \in Nat
  BY <1>1, Division
<1>3. n * ((a + n - 1) \div n) <= a + n - 1 /\ a + n - 1 < n * ((a + n - 1) \div n) + n
  BY <1>1, Division
<1>4. \A q \in Nat : n * q \in Nat
  OBVIOUS
<1> QED
  BY <1>1, <1>2, <1>3, <1>4

\* round_size never loses bytes and adds less than one kMinBlockSize (requests
\* of zero bytes do not reach it); what is rounded from a request of at most
\* kSmallSize still is one, so that malloc sends it to the small pool (get_pool
\* sees the rounded size).
THEOREM RoundSize ==
  ASSUME NEW size \in Nat
  PROVE  /\ round_size(size) \in Nat
         /\ size <= round_size(size)
         /\ size > 0 => round_size(size) < size + kMinBlockSize
         /\ size <= kSmallSize => round_size(size) <= kSmallSize
<1>1. kMinBlockSize \in Nat /\ kMinBlockSize > 0 /\ kSmallSize \in Nat /\ kSmallSize > 0
  BY SizeAssumption
<1>2. CASE size < kMinBlockSize
  <2>1. kMinBlockSize <= kSmallSize
    <3>1. kSmallSize % kMinBlockSize = 0
      BY SizeAssumption
    <3>2. kSmallSize = kMinBlockSize * (kSmallSize \div kMinBlockSize)
      BY <1>1, <3>1, Multiple
    <3>3. kSmallSize \div kMinBlockSize \in Nat
      BY <1>1, Division
    <3>4. kSmallSize \div kMinBlockSize # 0
      BY <1>1, <3>2
    <3>5. kMinBlockSize * 1 <= kMinBlockSize * (kSmallSize \div kMinBlockSize)
      BY <1>1, <3>3, <3>4, Monotone
    <3> QED
      BY <1>1, <3>2, <3>5
  <2> QED
    BY <1>1, <1>2, <2>1 DEF round_size
<1>3. CASE ~(size < kMinBlockSize)
  <2> DEFINE q == (size + kMinBlockSize - 1) \div kMinBlockSize
             k == kSmallSize \div kMinBlockSize
  <2>1. round_size(size) = kMinBlockSize * q
    BY <1>3 DEF round_size
  <2>2. kMinBlockSize * q \in Nat /\ size <= kMinBlockSize * q /\ kMinBlockSize * q < size + kMinBlockSize
    BY <1>1, RoundedUp
  <2>3. kSmallSize = kMinBlockSize * k /\ k \in Nat
    BY <1>1, Multiple, Division, SizeAssumption
  <2>4. q \in Nat
    BY <1>1, Division
  <2>5. ASSUME size <= kSmallSize PROVE kMinBlockSize * q <= kSmallSize
    <3>1. kMinBlockSize * q < kMinBlockSize * k + kMinBlockSize
      BY <1>1, <2>2, <2>3, <2>5
    <3>2. kMinBlockSize * q < kMinBlockSize * (k + 1)
      <4> HIDE DEF q, k
      <4> QED
        BY <1>1, <2>3, <2>4, <3>1
    <3>3. q < k + 1
      BY <1>1, <2>3, <2>4, <3>2, Cancel
    <3>4. kMinBlockSize * q <= kMinBlockSize * k
      BY <1>1, <2>3, <2>4, <3>3, Monotone
    <3> QED
      BY <2>3, <3>4
  <2> QED
    BY <2>1, <2>2, <2>5
<1> QED
  BY <1>2, <1>3

\* The segment alloc_block asks cudaMalloc for holds the request, and for a
\* large request below max_split_size it exceeds max_split_size by at most one
\* kSmallSize.
THEOREM AllocationSize ==
  ASSUME NEW size \in Nat
  PROVE  /\ get_allocation_size(size) \in Nat
         /\ size <= get_allocation_size(size)
         /\ size < max_split_size => get_allocation_size(size) <= max_split_size + kSmallSize
<1>1. kSmallSize \in Nat /\ kSmallSize > 0 /\ max_split_size \in Nat
  BY SizeAssumption
<1>2. /\ kSmallBuffer = 2 * kSmallSize /\ kRoundLarge = 2 * kSmallSize
      /\ kMinLargeAlloc = 10 * kSmallSize /\ kLargeBuffer = 20 * kSmallSize
      /\ max_split_size > kLargeBuffer
  BY SizeAssumption
<1>3. CASE size <= kSmallSize
  <2>1. get_allocation_size(size) = kSmallBuffer
    BY <1>1, <1>3 DEF get_allocation_size
  <2> QED
    BY <1>1, <1>2, <1>3, <2>1
<1>4. CASE size > kSmallSize /\ size < kMinLargeAlloc
  <2>1. get_allocation_size(size) = kLargeBuffer
    BY <1>1, <1>4 DEF get_allocation_size
  <2> QED
    BY <1>1, <1>2, <1>4, <2>1
<1>5. CASE size > kSmallSize /\ ~(size < kMinLargeAlloc)
  <2> DEFINE q == (size + kRoundLarge - 1) \div kRoundLarge
             k == max_split_size \div kSmallSize
  <2>1. get_allocation_size(size) = kRoundLarge * q
    BY <1>1, <1>5 DEF get_allocation_size
  <2>2. kRoundLarge \in Nat /\ kRoundLarge > 0
    BY <1>1, <1>2
  <2>3. kRoundLarge * q \in Nat /\ size <= kRoundLarge * q /\ kRoundLarge * q < size + kRoundLarge
    BY <2>2, RoundedUp
  <2>4. max_split_size = kSmallSize * k /\ k \in Nat
    BY <1>1, Multiple, Division, SizeAssumption
  <2>5. q \in Nat
    <3>1. size + kRoundLarge - 1 \in Nat
      BY <2>2
    <3> QED
      BY <2>2, <3>1, Division
  <2>6. ASSUME size < max_split_size PROVE kRoundLarge * q <= max_split_size + kSmallSize
    <3> HIDE DEF q, k
    <3>1. kRoundLarge * q < kSmallSize * k + 2 * kSmallSize
      BY <1>1, <1>2, <2>3, <2>4, <2>6
    <3>2. kRoundLarge * q = kSmallSize * (2 * q) /\ kSmallSize * k + 2 * kSmallSize = kSmallSize * (k + 2)
      BY <1>1, <1>2, <2>4, <2>5
    <3>3. 2 * q < k + 2
      BY <1>1, <2>4, <2>5, <3>1, <3>2, Cancel
    <3>4. kSmallSize * (2 * q) <= kSmallSize * (k + 1)
      BY <1>1, <2>4, <2>5, <3>3, Monotone
    <3>5. kSmallSize * (k + 1) = kSmallSize * k + kSmallSize
      BY <1>1, <2>4
    <3> QED
      BY <2>4, <3>2, <3>4, <3>5
  <2> QED
    BY <2>1, <2>3, <2>6
<1> QED
  BY <1>1, <1>3, <1>4, <1>5

\* A segment made for a large request below max_split_size may itself be of
\* max_split_size or more, but as soon as should_split cuts it for a large
\* request both parts are below: no part of a split is oversize.
THEOREM PartsAreNotOversize ==
  ASSUME NEW d, NEW b, NEW request \in Nat, NEW size \in Nat,
         request < max_split_size, size > kSmallSize,
         ~d.block[b].pool.small, d.block[b].size = get_allocation_size(request),
         should_split(d, b, size)
  PROVE  oversize(size) = 0 /\ oversize(d.block[b].size - size) = 0
<1>1. kSmallSize \in Nat /\ max_split_size \in Nat
  BY SizeAssumption
<1>2. get_allocation_size(request) \in Nat /\ get_allocation_size(request) <= max_split_size + kSmallSize
  BY AllocationSize
<1>3. size < max_split_size
  BY DEF should_split
<1>4. d.block[b].size - size < max_split_size /\ d.block[b].size - size \in Int
  BY <1>1, <1>2
<1> QED
  BY <1>1, <1>3, <1>4 DEF oversize
=============================================================================
