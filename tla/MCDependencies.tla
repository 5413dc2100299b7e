--------------------------- MODULE MCDependencies ---------------------------
(***************************************************************************)
(* Small instances of Dependencies for TLC: two tasks in each of two       *)
(* projects, with an edge each way between the projects to start with.     *)
(***************************************************************************)
EXTENDS Dependencies

CONSTANTS a1, a2, b1, b2

MCProjectOf == [t \in Task |-> IF t \in {a1, a2} THEN 1 ELSE 2]

\* One edge short of a loop in either project.
Bridges == {<<a2, b1>>, <<b2, a1>>}
Links == Bridges \cup {<<a1, a2>>, <<b1, b2>>, <<a1, b1>>, <<b1, a1>>}
=============================================================================
