----------------------------- MODULE MCReviews -----------------------------
(* Two file names, "plan" and "plan.md": the first is a part of the second *)
(* and listed before it, and the two differ in the extension only.         *)
EXTENDS Reviews, TLC
CONSTANTS plan, planmd
MCNames    == {plan, planmd}
MCOrder    == <<plan, planmd>>
MCContains == plan :> {plan, planmd} @@ planmd :> {planmd}
MCAlike    == [n \in MCNames |-> {plan, planmd}]
=============================================================================
