------------------------------ MODULE MCOAuth ------------------------------
(***************************************************************************)
(* Instances of OAuth for TLC.                                             *)
(***************************************************************************)
EXTENDS OAuth

CONSTANTS c1, c2, x, y, as, other

\* One caller knows the scope it needs, the other learns of its own by a challenge.
OneAsks == [c \in Calls |-> IF c = c1 THEN {} ELSE {x}]
EachNeeds == [c \in Calls |-> IF c = c1 THEN {y} ELSE {x}]

=============================================================================
