---------------------------- MODULE MCCredentials ----------------------------
(***************************************************************************)
(* MCCredentials.cfg: two requests in flight over two credentials, each of *)
(* weight zero or two, with a day change and one incident: a PATCH, a      *)
(* crash, an answer that is lost, or accounting that throws.               *)
(* MCMidnight.cfg checks the comment on rollUsageDay.                      *)
(***************************************************************************)
EXTENDS Credentials

\* Slots are interchangeable; credentials are not, since ids are ordered.
SlotSymmetry == Permutations(Slots)
================================================================================
