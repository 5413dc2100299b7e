----------------------------- MODULE MCJobQueue -----------------------------
(***************************************************************************)
(* Small instances of JobQueue for TLC: two pods that each run one tick at *)
(* a time, on one release or half way through a rollout.                   *)
(***************************************************************************)
EXTENDS JobQueue, TLC

CONSTANTS k1, p1, p2, a1, b1

MCKindOf == [j \in OneShot |-> k1]
MCPodOf == (a1 :> p1) @@ (b1 :> p2)

\* Both releases handle the kind, or only release 1 does; no schedule, or one
\* that release 1 drops.
MCHandles == [v \in Release |-> {k1}]
AddedKind == [v \in Release |-> IF v = 0 THEN {} ELSE {k1}]
NoSchedules == [v \in Release |-> {}]
DroppedSchedule == [v \in Release |-> IF v = 0 THEN {k1} ELSE {}]
=============================================================================
