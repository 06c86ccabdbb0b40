-------------------------- MODULE MCRequestStream --------------------------
(***************************************************************************)
(* Instances of RequestStream for TLC.                                     *)
(***************************************************************************)
EXTENDS RequestStream

CONSTANTS p1, p2

=============================================================================
