------------------------------ MODULE MCSeries ------------------------------
(***************************************************************************)
(* A small instance of Series for TLC: a daily rule and one that ends.     *)
(***************************************************************************)
EXTENDS Series
Daily == 0 .. MaxDay + 1
Once == {1}
Rules == {Daily, Once}
=============================================================================
