-------------------------- MODULE MCTensorPipeAgent --------------------------
(***************************************************************************)
(* Small instances of TensorPipeAgent: two workers, a and b, two calls.    *)
(***************************************************************************)
EXTENDS TensorPipeAgent, TLC

CONSTANTS a, b, c1, c2, x1

call(from, to, kind, of) ==
  [from |-> from, to |-> to, kind |-> kind, of |-> of, rpc |-> NoRpc, try |-> 0]

attempt(from, to, kind, try) ==
  [from |-> from, to |-> to, kind |-> kind, of |-> from, rpc |-> x1, try |-> try]

\* The function of the first call calls back.
Nested == (c1 :> call(a, b, "main", a)) @@ (c2 :> call(b, a, "function", c1))

\* A callback of the first call makes the second one.
FollowUp == (c1 :> call(a, b, "main", a)) @@ (c2 :> call(a, b, "callback", c1))

\* sendWithRetries() and its retry.
Retried == (c1 :> attempt(a, b, "main", 0)) @@ (c2 :> attempt(a, b, "retry", 1))

\* Two calls in a row.
TwoCalls == (c1 :> call(a, b, "main", a)) @@ (c2 :> call(a, b, "main", a))

run(calls, quitters, breakable, deviceErrors) ==
  [calls |-> calls, quitters |-> quitters, breakable |-> breakable, deviceErrors |-> deviceErrors]

AgentScenarios ==
  {run(Nested, {}, {}, {<<b, a>>}), run(FollowUp, {}, {<<a, b>>}, {}), run(Retried, {a}, {}, {<<a, b>>})}

NoFaults == {run(FollowUp, {}, {}, {})}

DeviceErrorThenBreak == {run(TwoCalls, {}, {<<a, b>>}, {<<a, b>>})}
==============================================================================
