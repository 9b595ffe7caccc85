---------------------------- MODULE BackwardGraph ----------------------------
(***************************************************************************)
(* What Engine::execute must know about the autograd graph before it      *)
(* starts: how many gradients every function waits for                     *)
(* (compute_dependencies) and which functions have to run at all           *)
(* (init_to_execute).  The definitions here are the mathematical ones: the *)
(* loops of engine.cpp that compute them are in GraphTaskInit, which is    *)
(* checked against them; AutogradEngine uses them directly, because        *)
(* execute() runs both loops before any other thread can see the task.     *)
(*                                                                         *)
(* A graph is a function E from nodes to sequences of nodes: E[n][i] is    *)
(* the function at the end of n.next_edge(i), or NoNode when that edge is  *)
(* not valid (an output that does not require grad).                       *)
(***************************************************************************)
EXTENDS Naturals, FiniteSets, Sequences

CONSTANT NoNode

Succ(E, n) == {E[n][i] : i \in DOMAIN E[n]} \ {NoNode}

\* compute_min_topological_nr: 0 when the call names no outputs
compute_min_topological_nr(topo, out) ==
  IF out = {} THEN 0
  ELSE CHOOSE k \in {topo[n] : n \in out} : \A n \in out : k <= topo[n]

(***************************************************************************)
(* The nodes whose edges compute_dependencies expands: the root and what   *)
(* is reachable from it, cut at nodes numbered below the smallest output   *)
(* ("child created before the first output cannot have an edge to it").    *)
(* The least fixed point is written as the intersection of the closed      *)
(* sets.                                                                   *)
(***************************************************************************)
IsExpandedSet(E, topo, root, min, S) ==
  /\ topo[root] >= min => root \in S
  /\ \A n \in S : \A m \in Succ(E, n) : topo[m] >= min => m \in S

Expanded(E, topo, root, min) ==
  LET closed == {S \in SUBSET DOMAIN E : IsExpandedSet(E, topo, root, min, S)}
  IN  {n \in DOMAIN E : \A S \in closed : n \in S}

\* An edge is a pair <<function, output number>>.
Target(E, e) == E[e[1]][e[2]]

Edges(E, S) ==
  {e \in UNION {{n} \X DOMAIN E[n] : n \in S} : Target(E, e) # NoNode}

\* The gradients that node n waits for.
InEdges(E, S, n) == {e \in Edges(E, S) : Target(E, e) = n}

(***************************************************************************)
(* The nodes that must run when the call names outputs: an output, or a    *)
(* node with a path to one ("Only nodes that have a path to any edge in    *)
(* outputs should be executed").                                           *)
(***************************************************************************)
IsBackwardClosed(E, out, S) ==
  /\ out \subseteq S
  /\ \A n \in DOMAIN E : Succ(E, n) \cap S # {} => n \in S

ReachesOutput(E, out) ==
  LET closed == {S \in SUBSET DOMAIN E : IsBackwardClosed(E, out, S)}
  IN  {n \in DOMAIN E : \A S \in closed : n \in S}

\* ExecInfo::should_execute; an empty exec_info_ (no outputs) runs everything
ShouldExecute(E, out) == IF out = {} THEN DOMAIN E ELSE ReachesOutput(E, out)

(***************************************************************************)
(* ExecInfo::needed_: the function itself is called.  An output of grad()  *)
(* is only captured, unless it also lies on the way to another output.     *)
(***************************************************************************)
Needed(E, out, accumulate) ==
  IF out = {} THEN DOMAIN E
  ELSE LET reaches == ReachesOutput(E, out)
       IN  {n \in DOMAIN E : Succ(E, n) \cap reaches # {}}
             \cup (IF accumulate THEN out ELSE {})

\* Functions whose incoming gradient grad() returns (ExecInfo::captures_).
Captured(out, accumulate) == IF accumulate THEN {} ELSE out
==============================================================================
