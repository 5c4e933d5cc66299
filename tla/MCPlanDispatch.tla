--------------------------- MODULE MCPlanDispatch ---------------------------
(***************************************************************************)
(* Instances of PlanDispatch for TLC.                                      *)
(***************************************************************************)
EXTENDS PlanDispatch

CONSTANTS o1, o2, r1, r2

(* Two runs over the same orders offer the same candidate; or the second   *)
(* one shares one order with the first.                                    *)
OneOrder == [r \in Runs |-> {o1}]
Overlapping == [r \in Runs |-> IF r = r1 THEN {o1} ELSE {o1, o2}]
=============================================================================
