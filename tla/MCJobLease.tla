----------------------------- MODULE MCJobLease -----------------------------
(***************************************************************************)
(* JobLease for TLC: two ticks of one pod, which overlap once the budget   *)
(* has freed the latch, compete for the rows.  A unit of time is ten       *)
(* seconds; the budget of 45 s is 5 units.                                 *)
(***************************************************************************)
EXTENDS JobLease, TLC

CONSTANTS k1, p1, a1, a2

MCKindOf == [j \in OneShot |-> k1]
MCPodOf == (a1 :> p1) @@ (a2 :> p1)
MCHandles == (0 :> {k1})
MCSchedules == (0 :> {})
JobSymmetry == Permutations(OneShot)
=============================================================================
