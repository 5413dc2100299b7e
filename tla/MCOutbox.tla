------------------------------ MODULE MCOutbox ------------------------------
(***************************************************************************)
(* Small instances of Outbox for TLC: two edits of one card, which may     *)
(* merge, and a move of another.                                           *)
(***************************************************************************)
EXTENDS Outbox

CONSTANTS o1, o2, o3, card, other

MCEntity == [o \in Op |-> IF o = o3 THEN other ELSE card]
Interchangeable == Permutations(Account) \cup Permutations(Run)
=============================================================================
