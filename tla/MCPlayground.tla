----------------------------- MODULE MCPlayground -----------------------------
(***************************************************************************)
(* MCPlayground.cfg: two requests of one tab and a restart of the          *)
(* coordinator.  MCStalePoll.cfg checks what the proof panel says of a     *)
(* verified proof.                                                         *)
(***************************************************************************)
EXTENDS Playground
================================================================================
