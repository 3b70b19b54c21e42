-------------------------- MODULE MCDedupExecution --------------------------
(***************************************************************************)
(* Instances of DedupExecution for TLC.                                    *)
(***************************************************************************)
EXTENDS DedupExecution

\* Three copies of a text.  One plan keeps the first, a later review of the same
\* group was approved with the second to be kept.
MCDocs == {"d1", "d2", "d3"}
MCPaths == {"p1", "p2", "p3"}
MCInodes == {"i1", "i2", "i3", "spare"}
MCContents == {"text", "other"}

MCSourceOf == [d \in MCDocs |-> CASE d = "d1" -> "p1" [] d = "d2" -> "p2" [] d = "d3" -> "p3"]
MCFileAt == [p \in MCPaths |-> CASE p = "p1" -> "i1" [] p = "p2" -> "i2" [] p = "p3" -> "i3"]
MCHeld == [i \in MCInodes |-> "text"]

MCPlans == {"keep1", "keep2"}
MCCanonical == [p \in MCPlans |-> IF p = "keep1" THEN "d1" ELSE "d2"]
MCActions == [p \in MCPlans |-> IF p = "keep1" THEN <<"d2", "d3">> ELSE <<"d1">>]

MCExecutions == {"x1", "x2", "y1"}
MCPlanOf == [x \in MCExecutions |-> IF x = "y1" THEN "keep2" ELSE "keep1"]

MCExecutors == {"e1", "e2"}
MCRecoverers == {"r1", "r2"}

\* An execution that other programs get in the way of, and its recovery.
Disturbed == [executions |-> {"x1"}, callers |-> {"e1", "r1"}, mortal |-> {"e1", "r1"},
              disturbances |-> {"remove", "write", "rename", "error"}, touches |-> 2]

Replaced == [Disturbed EXCEPT !.disturbances = {"replace", "write"}]

\* The same plan is authorized twice, and revoked.
Revoked == [executions |-> {"x1", "x2"}, callers |-> {"e1", "e2"}, mortal |-> {},
            disturbances |-> {"revoke"}, touches |-> 0]

\* Recovery comes while the executor is at work.
Overlap == [executions |-> {"x1"}, callers |-> {"e1", "r1"}, mortal |-> {},
            disturbances |-> {"haste", "rename", "error", "revoke"}, touches |-> 0]

Rivals == [executions |-> {"x1"}, callers |-> MCExecutors \cup MCRecoverers, mortal |-> {},
           disturbances |-> {"haste"}, touches |-> 0]

\* The executor dies, the recovery does not.
Recovered == [executions |-> {"x1"}, callers |-> {"e1", "r1"}, mortal |-> {"e1"},
              disturbances |-> {"haste", "error"}, touches |-> 0]

\* Plans that disagree, one executor at a time.
Opposed == [executions |-> {"x1", "y1"}, callers |-> {"e1"}, mortal |-> {"e1"},
            disturbances |-> {"error"}, touches |-> 0]

SafetyScenarios == {Disturbed, Replaced, Revoked, Overlap, Rivals, Recovered, Opposed}
=============================================================================
