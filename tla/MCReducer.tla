------------------------------ MODULE MCReducer ------------------------------
(* Instances of Reducer: two ranks and three parameters in two buckets.     *)
EXTENDS Reducer

MCParam == 1..3
MCBytes == <<1, 2, 1>>
MCLimits == <<1, 3>>

\* Divisible by N as often as there are iterations.
MCGradient(r, i) == 8 * (IF r = Root THEN 1 ELSE 10) * (10 ^ (2 * (i - 1)))

G(hooks, used) == [hooks |-> hooks, used |-> used]
all == G(<<1, 1, 1>>, {1, 2, 3})

it(s, z) == [sync |-> s, zero_grad |-> z]

Dynamic(view, script) ==
  [static_graph |-> FALSE, find_unused_parameters |-> TRUE, gradient_as_bucket_view |-> view,
   script |-> script,
   graphs |-> {all, G(<<1, 0, 1>>, {1, 3}), G(<<1, 1, 0>>, {2}), G(<<0, 1, 0>>, {2})}]

Plain(view, script) ==
  [static_graph |-> FALSE, find_unused_parameters |-> FALSE, gradient_as_bucket_view |-> view,
   script |-> script, graphs |-> {all, G(<<0, 1, 1>>, {2, 3})}]

Static(view, script) ==
  [static_graph |-> TRUE, find_unused_parameters |-> FALSE, gradient_as_bucket_view |-> view,
   script |-> script,
   graphs |-> {G(<<1, 2, 1>>, {1, 2}), G(<<0, 2, 1>>, {2, 3})}]

MCScenarios ==
  {Dynamic(FALSE, <<it(TRUE, "none")>>)}
    \cup {Dynamic(v, <<it(TRUE, "none"), it(TRUE, z)>>) : v \in BOOLEAN, z \in {"keep", "zero", "none"}}
    \cup {Dynamic(v, <<it(FALSE, "none"), it(TRUE, "keep")>>) : v \in BOOLEAN}
    \cup {Plain(v, <<it(TRUE, "none"), it(b, "keep"), it(TRUE, "none")>>) : v \in BOOLEAN, b \in BOOLEAN}
    \cup {Static(v, <<it(b, "none"), it(TRUE, "keep"), it(TRUE, "keep")>>) : v \in BOOLEAN, b \in BOOLEAN}
    \* no_sync() right after the first synchronized iteration, and later
    \cup {Static(v, <<it(TRUE, "none"), it(FALSE, "keep"), it(TRUE, "keep")>>) : v \in BOOLEAN}
    \cup {Static(FALSE, <<it(TRUE, "none"), it(TRUE, "keep"), it(FALSE, "keep")>>)}

\* Gradients accumulated in no_sync().
AfterNoSync == {Dynamic(FALSE, <<it(FALSE, "none"), it(TRUE, "keep")>>)}
===============================================================================
