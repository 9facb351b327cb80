---------------------------- MODULE MCGraphFeed ----------------------------
(* The instance of GraphFeed that TLC checks.                              *)
EXTENDS GraphFeed
=============================================================================
