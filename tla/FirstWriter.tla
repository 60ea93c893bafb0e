----------------------------- MODULE FirstWriter ------------------------------
(***************************************************************************)
(* What the guards of this system promise: a family of registers that are  *)
(* written at most once and never change again, whoever tries to write,    *)
(* how often, and whatever crashes in between.  A cell holds the set of    *)
(* its winners, which is empty or a singleton.                             *)
(***************************************************************************)
CONSTANTS Cells, Writers

VARIABLE cell

Init == cell = [c \in Cells |-> {}]

Win(c, w) == cell[c] = {} /\ cell' = [cell EXCEPT ![c] = {w}]

Next == \E c \in Cells, w \in Writers : Win(c, w)

Spec == Init /\ [][Next]_cell
=============================================================================
