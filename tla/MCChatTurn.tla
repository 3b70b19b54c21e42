----------------------------- MODULE MCChatTurn -----------------------------
(***************************************************************************)
(* Instances of ChatTurn for TLC.                                          *)
(***************************************************************************)
EXTENDS ChatTurn

MCTurns == 1..2

Base == [turns |-> 2, overlap |-> TRUE, tooled |-> {1}, remembering |-> {}, faults |-> {},
         before |-> 0, deletes |-> FALSE, calm |-> FALSE, reviews |-> 0]

\* One turn after the other, after up to nine exchanges: to the cut of the history at
\* 20 messages and beyond.
Long == {[Base EXCEPT !.before = n, !.overlap = FALSE, !.tooled = {}, !.calm = TRUE] : n \in 0..9}

\* Two turns that fail where they can, and two that both call tools.
Failing == [Base EXCEPT !.faults = {"model", "leave", "query", "insert"}]
Together == [Base EXCEPT !.tooled = {1, 2}, !.faults = {"query"}]

\* The conversation is deleted while a turn proposes memories and a person reviews them.
Deleted == [Base EXCEPT !.remembering = {1}, !.deletes = TRUE, !.reviews = 1]

\* Two turns more, past message 24.
LongScenarios == {[s EXCEPT !.before = @ + 2] : s \in Long}

AllScenarios == Long \cup {Failing, Together, Deleted}
=============================================================================
