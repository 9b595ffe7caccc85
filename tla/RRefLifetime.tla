----------------------------- MODULE RRefLifetime -----------------------------
(***************************************************************************)
(* What the RRef protocol promises: a shared pointer across workers.  The  *)
(* owner keeps the value as long as there is a reference to it anywhere,   *)
(* including references that are still on their way to a worker.           *)
(***************************************************************************)
CONSTANT Ref

VARIABLES stored,     \* the owner keeps the value for others
          refs        \* references that exist

vars == <<stored, refs>>

Init == stored = FALSE /\ refs = {}

\* A reference is made before or after the value is there.
Acquire(f) == refs' = refs \cup {f} /\ stored' \in {stored, TRUE}

\* The function of a remote() call runs.
Store == stored' = TRUE /\ UNCHANGED refs

Release == refs' \subseteq refs /\ UNCHANGED stored

\* The value goes away with or after the last reference.
Reclaim == refs' \subseteq refs /\ refs' = {} /\ stored' = FALSE

Next == Release \/ Reclaim \/ Store \/ \E f \in Ref : Acquire(f)

Spec == Init /\ [][Next]_vars
==============================================================================
