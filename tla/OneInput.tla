------------------------------ MODULE OneInput ------------------------------
(***************************************************************************)
(* How the pure rules of the platform are checked: a behaviour is one      *)
(* question asked of them, its input taken from a small set. The modules   *)
(* that extend this one have an action per question and the invariants     *)
(* that relate the answers; MCPlatform puts them together.                 *)
(***************************************************************************)
CONSTANT Cases          \* the questions a run asks

VARIABLE input

None(case) == [case |-> "none", next |-> case]

Init == input \in {None(c) : c \in Cases}

Asked(case) == input = None(case)
=============================================================================
