-------------------------- MODULE MCRequestLifecycle --------------------------
(***************************************************************************)
(* MCRequestLifecycle.cfg: one request of either endpoint with everything  *)
(* that can befall it, and its envelope sent straight to the enclave as    *)
(* well.  MCTrustRace.cfg checks a claim of the code's comments that the   *)
(* code does not keep.                                                     *)
(***************************************************************************)
EXTENDS RequestLifecycle
================================================================================
