---------------------------- MODULE MCMembership ----------------------------
(***************************************************************************)
(* A small instance of Membership for TLC.                                 *)
(***************************************************************************)
EXTENDS Membership, TLC
CONSTANTS u1, u2, u3

NoRoles == <<>>

\* Leaving or an empty list, a list that is out of date, a newcomer, a demotion
\* and a promotion.
Bodies == {[ids |-> {}, roles |-> NoRoles],
           [ids |-> {u2}, roles |-> NoRoles],
           [ids |-> {u1, u3}, roles |-> (u3 :> "viewer")],
           [ids |-> Omitted, roles |-> (u2 :> "viewer")]}
=============================================================================
