------------------------------ MODULE MCInsights ------------------------------
(***************************************************************************)
(* Two safety and two benign facets; a prompt that is refused for the      *)
(* higher of two categories and contains keywords all the same, one that   *)
(* is allowed with keywords of two facets and one without any.  The        *)
(* threshold is 2, so that a facet is suppressed, reaches it and passes it *)
(* within three requests; one restart and two overlapping polls.           *)
(***************************************************************************)
EXTENDS Insights

FacetOf == [c \in {1, 2} |-> IF c = 1 THEN "phishing_fraud" ELSE "weapons"]
Order == [f \in {"coding", "writing"} |-> IF f = "coding" THEN 1 ELSE 2]

Refused(s1, s2) == [decision |-> "DENY", score |-> <<s1, s2>>, threshold |-> <<3, 3>>,
                    hits |-> [f \in {"coding", "writing"} |-> 1]]
Allowed(c, w) == [decision |-> "ALLOW", score |-> <<0, 2>>, threshold |-> <<3, 3>>,
                  hits |-> [f \in {"coding", "writing"} |-> IF f = "coding" THEN c ELSE w]]
Some == {Refused(3, 4), Allowed(1, 1), Allowed(0, 0)}
================================================================================
