--------------------------- MODULE MCAutogradEngine ---------------------------
(***************************************************************************)
(* Small instances of AutogradEngine.  Functions are called by the letters *)
(* of the graphs below; d1 is a GPU, c the CPU.                            *)
(***************************************************************************)
EXTENDS AutogradEngine, TLC

CONSTANTS r, a, b, l, s, p, q, g1, g2, g3, g4, g5, u1, u2, d1

Leaf == <<>>

(***************************************************************************)
(* A diamond over both devices.  The first edge of a and the second of b   *)
(* are not valid.                                                          *)
(*      r(c) -> a(d1) -> l(d1)                                             *)
(*      r(c) -> b(c)  -> l(d1)                                             *)
(***************************************************************************)
DiamondNodes == {r, a, b, l}

DiamondEdges == (r :> <<a, b>>) @@ (a :> <<NoNode, l>>) @@ (b :> <<l, NoNode>>) @@ (l :> Leaf)

DiamondTopo == (r :> 2) @@ (a :> 1) @@ (b :> 1) @@ (l :> 0)

DiamondSeq == (r :> 3) @@ (a :> 2) @@ (b :> 1) @@ (l :> 4)

DiamondDevice == (r :> CPU_DEVICE) @@ (a :> d1) @@ (b :> CPU_DEVICE) @@ (l :> d1)

\* Two user threads run backward() over the diamond at the same time.
TwoUsersRoot == (g1 :> r) @@ (g2 :> r)
TwoUsersOutputs == (g1 :> {}) @@ (g2 :> {})
TwoUsersAccumulate == (g1 :> TRUE) @@ (g2 :> TRUE)
TwoUsersCaller == (g1 :> u1) @@ (g2 :> u2)

(***************************************************************************)
(* Reentrant calls from both devices while the outer pass g1 goes on.  a   *)
(* calls grad(): g2 captures s and q, where s also has to run and q joins  *)
(* both devices.  b calls backward(inputs=s): g3 accumulates into s and    *)
(* never runs or expands q.  p, in g3, calls backward() from deep enough   *)
(* for the pool, twice: g4 and g5 start at q.                              *)
(*      r(c) -> a(d1), b(c)     p(c) -> l(c) -> s(d1) -> q(c)              *)
(*                                      l(c) -> q(c)                       *)
(***************************************************************************)
NestedNodes == {r, a, b, p, l, s, q}

NestedEdges ==
  [n \in NestedNodes |->
     CASE n = r -> <<a, b>> [] n = p -> <<l>> [] n = l -> <<q, s>> [] n = s -> <<q>>
       [] OTHER -> Leaf]

NestedTopo ==
  [n \in NestedNodes |->
     CASE n = p -> 3 [] n = l -> 2 [] n \in {r, s} -> 1 [] OTHER -> 0]

NestedSeq ==
  [n \in NestedNodes |->
     CASE n = q -> 1 [] n = s -> 2 [] n = l -> 3 [] n = p -> 4 [] n \in {a, b} -> 5 [] n = r -> 6]

NestedDevice == [n \in NestedNodes |-> IF n \in {a, s} THEN d1 ELSE CPU_DEVICE]

NestedRoot == (g1 :> r) @@ (g2 :> l) @@ (g3 :> p) @@ (g4 :> q) @@ (g5 :> q)
NestedOutputs == (g1 :> {}) @@ (g2 :> {s, q}) @@ (g3 :> {s}) @@ (g4 :> {}) @@ (g5 :> {})
NestedAccumulate == [g \in {g1, g2, g3, g4, g5} |-> g # g2]
NestedCaller == (g1 :> u1) @@ (g2 :> a) @@ (g3 :> b) @@ (g4 :> p) @@ (g5 :> p)
==============================================================================
