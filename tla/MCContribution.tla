--------------------------- MODULE MCContribution ---------------------------
(* The instance of Contribution that TLC checks.                           *)
EXTENDS Contribution

\* One of the two models of the catalog is selected.
MCSelections == {{"m1"}}
=============================================================================
