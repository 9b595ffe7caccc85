----------------------------- MODULE MCLeftRight -----------------------------
(***************************************************************************)
(* A small instance of LeftRight: the two write functions do not commute,  *)
(* so instances that get different writes, or the same ones in different   *)
(* orders, differ.                                                         *)
(***************************************************************************)
EXTENDS LeftRight, TLC

CONSTANTS r1, r2, r3, w1, w2

Modulus == 5

Values == 0..(Modulus - 1)

WriteFuncs ==
  (w1 :> [v \in Values |-> (v + 1) % Modulus]) @@ (w2 :> [v \in Values |-> (2 * v) % Modulus])
==============================================================================
