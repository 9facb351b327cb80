-------------------------- MODULE MCProofPipeline --------------------------
(***************************************************************************)
(* The proof pipeline with a rules document in which every way to match is *)
(* exercised by prompts of at most MaxText characters: a word, a prefix, a *)
(* phrase and its plural, a squashed needle, a hard block, a modifier and  *)
(* its suppressor.                                                         *)
(***************************************************************************)
EXTENDS ProofPipeline

MCRules ==
    [intentBonus |-> 1, constructionBonus |-> 1,
     intentPhrases |-> {<<"s">>},
     constructionVerbs |-> {<<"s", "s", "b">>},
     modifierSuppressors |-> {<<"s", "s">>},
     thresholds |-> [c \in {"P1", "P2"} |-> IF c = "P1" THEN 2 ELSE 3],
     targets |-> {[id |-> "word", category |-> "P1", weight |-> 2, phrases |-> {<<"b", "b">>, <<"b", "mk">>}],
                  [id |-> "phrase", category |-> "P2", weight |-> 3,
                   phrases |-> {<<"b", " ", "b">>, <<"zw">>}]},
     hardBlocks |-> {[id |-> "block", phrases |-> {<<"s", "B", "$">>}]},
     modifiers |-> {[id |-> "fiction", weight |-> 0 - 1, phrases |-> {<<"b">>}]}]
=============================================================================
