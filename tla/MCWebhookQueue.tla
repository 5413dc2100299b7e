--------------------------- MODULE MCWebhookQueue ---------------------------
(***************************************************************************)
(* Small instances of WebhookQueue for TLC.  Events are interchangeable,   *)
(* and so are batches and registrations.                                   *)
(***************************************************************************)
EXTENDS WebhookQueue, TLC

Interchangeable == Permutations(Event) \cup Permutations(Batch) \cup Permutations(Hook)
=============================================================================
