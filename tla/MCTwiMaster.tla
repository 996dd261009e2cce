----------------------------- MODULE MCTwiMaster -----------------------------
(* TwiMaster on small instances: one task writes, one writes and reads.       *)
EXTENDS TwiMaster

CONSTANTS csp, main

MCTasks == {csp, main}
MCToWrite == [t \in MCTasks |-> IF t = csp THEN 1 ELSE 2]
MCToRead == [t \in MCTasks |-> IF t = csp THEN 0 ELSE 2]
MCOnlyWrite == [t \in MCTasks |-> 0]
=============================================================================
