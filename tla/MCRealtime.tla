----------------------------- MODULE MCRealtime -----------------------------
(***************************************************************************)
(* A small instance of Realtime for TLC: one card; the configuration bounds  *)
(* the writes and the faults.                                              *)
(***************************************************************************)
EXTENDS Realtime
=============================================================================
