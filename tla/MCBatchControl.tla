--------------------------- MODULE MCBatchControl ---------------------------
(***************************************************************************)
(* Instances of BatchControl and of ResourceGuard for TLC.  The two share  *)
(* no state: what a resume learns from its guard is a free choice among    *)
(* the verdicts on the disks in BatchControl.  A behaviour of this module  *)
(* is therefore one of a control plane or one of a guard.                  *)
(***************************************************************************)
EXTENDS BatchControl, ResourceGuard

CONSTANTS o1, o2, r1

\* A reason of each kind, and both ways to abort.
OneOfEachKind ==
    {"MANUAL_PAUSE", "MANUAL_ABORT", "SAFETY_INVARIANT_VIOLATION_DETECTED",
     "RUNTIME_BUDGET_EXCEEDED"}

Race == [active |-> Sessions, ticks |-> 0, deaths |-> 0]
Crashes(o) == [active |-> {o} \cup Reconcilers, ticks |-> 4, deaths |-> 2]
Alone(o) == [active |-> {o}, ticks |-> 6, deaths |-> 0]

EveryScenario == {Race} \cup {Crashes(o) : o \in Operators} \cup {Alone(o) : o \in Operators}

OperatorSymmetry == Permutations(Operators)
-----------------------------------------------------------------------------
VARIABLE subject    \* what this behaviour is about

ControlInit ==
    /\ subject = "control"
    /\ Init
    /\ GuardInit /\ workspaceFree = CHOOSE free \in WorkspaceSamples : TRUE
    /\ postgresFree = CHOOSE free \in PostgresSamples : TRUE

AloneGuardInit ==
    /\ subject = "guard"
    /\ GuardInit
    /\ Init /\ scenario = Race

EitherInit == ControlInit \/ AloneGuardInit

EitherNext ==
    /\ UNCHANGED subject
    /\ \/ subject = "control" /\ Next /\ UNCHANGED guardVars
       \/ subject = "guard" /\ GuardNext /\ UNCHANGED vars

EitherSpec == EitherInit /\ [][EitherNext]_<<vars, guardVars, subject>>
=============================================================================
