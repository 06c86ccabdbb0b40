--------------------------- MODULE MCTaskPolling ---------------------------
(***************************************************************************)
(* Instances of TaskPolling for TLC.                                       *)
(***************************************************************************)
EXTENDS TaskPolling

CONSTANTS alice, bob, t1, t2

=============================================================================
