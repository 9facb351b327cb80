----------------------------- MODULE MCProveQueue -----------------------------
(***************************************************************************)
(* ProveQueue with room for two waiting jobs and three rows: with four     *)
(* ids the table overflows, and a caller stalled between its two critical  *)
(* sections makes evict rotate an unfinished job to the back.              *)
(***************************************************************************)
EXTENDS ProveQueue
================================================================================
