------------------------- MODULE MCStdioConnection -------------------------
(***************************************************************************)
(* Instances of StdioConnection for TLC.                                   *)
(***************************************************************************)
EXTENDS StdioConnection, TLC

\* Request IDs, call objects and subscription objects are interchangeable.
Symmetry == Permutations(RequestIds) \cup Permutations(Calls) \cup Permutations(Subs)

=============================================================================
