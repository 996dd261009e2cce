------------------------------- MODULE MCKernel -------------------------------
(* Kernel on small instances: a task above the idle task and one of its own   *)
(* priority, as the router and the board's tasks are.                        *)
EXTENDS Kernel

CONSTANTS idle, low, high

MCTasks == {idle, low, high}
MCOperations == (idle :> {}) @@ (low :> {"send", "delay"}) @@ (high :> {"receive"})
MCDelays == [MCOperations EXCEPT ![low] = {"delay"}]
MCPriority == [t \in MCTasks |-> IF t = high THEN 1 ELSE 0]
=============================================================================
