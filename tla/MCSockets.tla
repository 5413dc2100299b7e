----------------------------- MODULE MCSockets ------------------------------
(***************************************************************************)
(* A small instance of Sockets for TLC.                                    *)
(***************************************************************************)
EXTENDS Sockets, TLC
=============================================================================
