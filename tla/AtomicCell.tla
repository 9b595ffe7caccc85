------------------------------ MODULE AtomicCell ------------------------------
(***************************************************************************)
(* What LeftRight<T> (c10/util/LeftRight.h) promises its callers: one value, *)
(* that every write replaces in one step and that every read sees whole, as *)
(* it was at one moment of the read, until the read is over.                *)
(***************************************************************************)
CONSTANTS Reader,     \* threads that read
          Writer,     \* calls of write(), each with its writeFunc
          Value,      \* states of the protected T
          InitValue,  \* the state the constructor leaves it in
          NoValue,    \* what a thread that is not reading holds
          writeFunc   \* writeFunc[w][v]: the state call w turns v into

VARIABLES value,      \* the current state
          seen        \* seen[r]: the state the read of r is working on

vars == <<value, seen>>

Init ==
  /\ value = InitValue
  /\ seen = [r \in Reader |-> NoValue]

Write(w) ==
  /\ value' = writeFunc[w][value]
  /\ UNCHANGED seen

BeginRead(r) ==
  /\ seen[r] = NoValue
  /\ seen' = [seen EXCEPT ![r] = value]
  /\ UNCHANGED value

EndRead(r) ==
  /\ seen' = [seen EXCEPT ![r] = NoValue]
  /\ UNCHANGED value

Next ==
  \/ \E w \in Writer : Write(w)
  \/ \E r \in Reader : BeginRead(r) \/ EndRead(r)

Spec == Init /\ [][Next]_vars
===============================================================================
