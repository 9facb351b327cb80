---------------------------- MODULE PolicyEngine ----------------------------
(***************************************************************************)
(* Safety Policy v1 as pure operators: the TypeScript engine               *)
(* (packages/policy/src/engine.ts) and the Rust engine that is compiled    *)
(* into the guest (prover/policy-core).  Each keeps its own shape: the     *)
(* TypeScript normaliser makes four passes and the matcher normalises the  *)
(* needle at every use; Rust walks the text once, prepares the needles     *)
(* ahead of time and seeks a prefix in an ordered token set.  The policy   *)
(* identity of the two sides is here as well.                              *)
(*                                                                         *)
(* The alphabet has one character for every class that the normalisers     *)
(* tell apart; texts are sequences of them.                                *)
(***************************************************************************)
EXTENDS Integers, Sequences, SequencesExt, FiniteSetsExt

CONSTANTS
    PREFIX_MIN,     \* shortest word that matches as a prefix (4 in the code)
    SQUASH_MIN,     \* shortest needle searched in the squashed text (8)
    SAFE_INTEGER,   \* Number.MAX_SAFE_INTEGER
    Rules           \* the rules document, see RulesType

ASSUME PolicyAssumption == /\ PREFIX_MIN \in Nat \ {0}
                           /\ SQUASH_MIN \in Nat \ {0}
                           /\ SAFE_INTEGER \in Nat /\ SAFE_INTEGER % 2 = 1

\* "b" and "s" are letters ("s" also the plural); "B" is a capital or
\* compatibility form of "b"; "mk" is a combining mark, and "bm" and "sm" are
\* the letters composed with it; "$" is a symbol that the leetspeak table maps
\* to "s"; "zw" is a zero-width character; "nel" is U+0085, white space to Rust
\* and an ordinary character to JavaScript; "u17" is a symbol of Unicode 17
\* (U+20C1), known to Rust's tables and unassigned in those of Node.
Char == {"b", "s", "B", "mk", "bm", "sm", "$", "zw", " ", "nel", "u17"}

Phrase == Seq(Char)

\* A rules document.  Phrases are sets: only the existence of a match counts.
RulesType ==
    [intentBonus : Int, constructionBonus : Int,
     intentPhrases : SUBSET Phrase, constructionVerbs : SUBSET Phrase,
     modifierSuppressors : SUBSET Phrase,
     thresholds : [{"P1", "P2"} -> Int],
     targets : SUBSET [id : STRING, category : {"P1", "P2"}, weight : Int,
                       phrases : SUBSET Phrase],
     hardBlocks : SUBSET [id : STRING, phrases : SUBSET Phrase],
     modifiers : SUBSET [id : STRING, weight : Int, phrases : SUBSET Phrase]]

ASSUME RulesAssumption == Rules \in RulesType
-----------------------------------------------------------------------------
(* What both normalisers begin with: NFKC and lower case over the whole    *)
(* text, while its zero-width characters are still there.                  *)

FoldCase(c) == IF c = "B" THEN "b" ELSE c

\* A mark is composed with the letter right before it, and with nothing else.
ComposesAt(t, k) == /\ k - 1 \in DOMAIN t /\ k \in DOMAIN t
                    /\ t[k - 1] \in {"b", "B", "s"} /\ t[k] = "mk"

\* What becomes of the k-th character.
FoldedAt(t, k) ==
    CASE ComposesAt(t, k)     -> <<>>
      [] ComposesAt(t, k + 1) -> IF t[k] = "s" THEN <<"sm">> ELSE <<"bm">>
      [] OTHER                -> <<FoldCase(t[k])>>

Folded(t) == FlattenSeq([k \in DOMAIN t |-> FoldedAt(t, k)])
-----------------------------------------------------------------------------
(* Character classes.                                                      *)

fold_leet(c) == IF c = "$" THEN "s" ELSE c

is_zero_widthNone(c) == FALSE

is_zero_width(c) == c = "zw"

is_js_whitespace(c) == c = " "

\* [\s\p{P}\p{S}] by the tables of Node (Unicode 16) ...
JsCollapsible(c) == is_js_whitespace(c) \/ c = "$"

\* ... and by those that policy-core is built with (Unicode 17).
is_collapsible(c) == is_js_whitespace(c) \/ c \in {"$", "u17"}

is_collapsible_rust_ws(c) == is_collapsible(c) \/ c = "nel"
-----------------------------------------------------------------------------
(* engine.ts *)

Mapped(Op(_), t) == [i \in DOMAIN t |-> Op(t[i])]

\* replace(/[zero width]/g, "")
Strip(t) == FlattenSeq([k \in DOMAIN t |-> IF is_zero_width(t[k]) THEN <<>> ELSE <<t[k]>>])

\* replace(/[\s\p{P}\p{S}]+/gu, " "): a run becomes one space, at its first character.
Collapse(t) ==
    FlattenSeq([k \in DOMAIN t |-> CASE ~JsCollapsible(t[k]) -> <<t[k]>>
                                     [] JsCollapsible(t[k]) /\ k > 1 /\ JsCollapsible(t[k - 1]) -> <<>>
                                     [] OTHER -> <<" ">>])

\* String.prototype.trim
Trim(t) ==
    LET solid == {i \in DOMAIN t : ~is_js_whitespace(t[i])}
    IN  IF solid = {} THEN <<>> ELSE SubSeq(t, Min(solid), Max(solid))

normalize(text) == Trim(Collapse(Mapped(fold_leet, Strip(Folded(text)))))

Squash(t) == SelectSeq(t, LAMBDA c : c # " ")

\* The pieces between the spaces, without the empty ones.
Tokens(t) ==
    LET Space(i) == i \notin DOMAIN t \/ t[i] = " "
    IN  {SubSeq(t, r[1], r[2]) :
           r \in {q \in (DOMAIN t) \X (DOMAIN t) :
                    /\ q[1] <= q[2] /\ Space(q[1] - 1) /\ Space(q[2] + 1)
                    /\ \A i \in q[1] .. q[2] : ~Space(i)}}

buildCorpus(t) == [padded |-> <<" ">> \o t \o <<" ">>,
                   tokens |-> Tokens(t), squashed |-> Squash(t)]

\* String.prototype.includes
Includes(hay, s) ==
    \E i \in 1 .. (Len(hay) - Len(s) + 1) : SubSeq(hay, i, i + Len(s) - 1) = s

match(corpus, raw) ==
    LET n == normalize(raw)
    IN  /\ n # <<>>
        /\ \/ /\ Includes(n, <<" ">>)
              /\ \/ Includes(corpus.padded, <<" ">> \o n \o <<" ">>)
                 \/ Includes(corpus.padded, <<" ">> \o n \o <<"s", " ">>)
           \/ /\ ~Includes(n, <<" ">>)
              /\ \/ n \in corpus.tokens
                 \/ Len(n) >= PREFIX_MIN /\ \E tok \in corpus.tokens : IsPrefix(n, tok)
           \/ /\ Len(Squash(n)) >= SQUASH_MIN
              /\ Includes(corpus.squashed, Squash(n))

PhrasesOf(S) == UNION {x.phrases : x \in S}

\* Every phrase of the rules document.
AllPhrases ==
    Rules.intentPhrases \cup Rules.constructionVerbs \cup Rules.modifierSuppressors
      \cup PhrasesOf(Rules.targets) \cup PhrasesOf(Rules.hardBlocks) \cup PhrasesOf(Rules.modifiers)

\* The same to both versions of the Unicode tables.
VersionStable(t) == \A i \in DOMAIN t : t[i] # "u17"

\* policy/v1/rules.json is plain ASCII.
ASSUME PhrasesAssumption == \A p \in AllPhrases : VersionStable(p)

\* The score of one category, from what matched in it.
Score(hits, intent, construction, reduction) ==
    LET sum == MapThenSumSet(LAMBDA t : t.weight, hits)
               + (IF hits # {} /\ intent THEN Rules.intentBonus ELSE 0)
               + (IF hits # {} /\ construction THEN Rules.constructionBonus ELSE 0)
               + (IF hits # {} THEN reduction ELSE 0)
    IN  Max({sum, 0})

\* A hard block ends the evaluation with nothing scored.
HardBlocked(id) == [decision |-> "DENY", scores |-> [c \in {} |-> 0],
                    intent |-> FALSE, construction |-> FALSE,
                    hardBlock |-> {id}, modifiers |-> {}]

\* evaluate, given the phrases that match.
Verdict(matched) ==
    LET Hit(ps)      == ps \cap matched # {}
        blocks       == {h \in Rules.hardBlocks : Hit(h.phrases)}
        intent       == Hit(Rules.intentPhrases)
        construction == Hit(Rules.constructionVerbs)
        applied      == IF Hit(Rules.modifierSuppressors) THEN {}
                        ELSE {m \in Rules.modifiers : Hit(m.phrases)}
        reduction    == MapThenSumSet(LAMBDA m : m.weight, applied)
        scores       == [c \in DOMAIN Rules.thresholds |->
                           Score({t \in Rules.targets : t.category = c /\ Hit(t.phrases)},
                                 intent, construction, reduction)]
    IN  IF blocks # {} THEN HardBlocked((CHOOSE h \in blocks : TRUE).id)
        ELSE [decision |-> IF \E c \in DOMAIN scores : scores[c] >= Rules.thresholds[c]
                           THEN "DENY" ELSE "ALLOW",
              scores |-> scores, intent |-> intent, construction |-> construction,
              hardBlock |-> {}, modifiers |-> {m.id : m \in applied}]

evaluate(text) ==
    LET corpus == buildCorpus(normalize(text))
    IN  Verdict({p \in AllPhrases : match(corpus, p)})
-----------------------------------------------------------------------------
(* prover/policy-core *)

\* One step of the character walk: `out` so far, and whether a run of
\* collapsible characters is pending.
WalkRustSpaces(acc, raw) ==
    LET c == fold_leet(raw)
    IN  CASE is_zero_width(raw)        -> acc
          [] is_collapsible_rust_ws(c) -> [acc EXCEPT !.pending = TRUE]
          [] OTHER -> [out |-> acc.out \o (IF acc.pending /\ acc.out # <<>> THEN <<" ">> ELSE <<>>)
                                       \o <<c>>,
                       pending |-> FALSE]

Walk(acc, raw) ==
    LET c == fold_leet(raw)
    IN  CASE is_zero_width(raw) -> acc
          [] ~is_zero_width(raw) /\ is_collapsible(c) -> [acc EXCEPT !.pending = TRUE]
          [] OTHER -> [out |-> acc.out \o (IF acc.pending /\ acc.out # <<>> THEN <<" ">> ELSE <<>>)
                                       \o <<c>>,
                       pending |-> FALSE]

normalize_rs(text) ==
    LET folded == Folded(text)
        walk[k \in 0 .. Len(folded)] ==
            IF k = 0 THEN [out |-> <<>>, pending |-> FALSE] ELSE Walk(walk[k - 1], folded[k])
    IN  walk[Len(folded)].out

\* Needle::prepare
prepare(raw) ==
    LET n == normalize_rs(raw)
        phrase == Includes(n, <<" ">>)
    IN  [normalized      |-> n,
         padded          |-> IF phrase THEN {<<" ">> \o n \o <<" ">>,
                                             <<" ">> \o n \o <<"s", " ">>} ELSE {},
         token           |-> ~phrase,
         prefix_eligible |-> ~phrase /\ Len(n) >= PREFIX_MIN,
         squashed        |-> IF Len(Squash(n)) >= SQUASH_MIN THEN {Squash(n)} ELSE {}]

\* The order of the characters' UTF-8 bytes.
ByteRank(c) == CASE c = " " -> 1 [] c = "$" -> 2 [] c = "B" -> 3 [] c = "b" -> 4
                 [] c = "s" -> 5 [] c = "nel" -> 6 [] c = "mk" -> 7 [] c = "bm" -> 8
                 [] c = "sm" -> 9 [] c = "zw" -> 10 [] OTHER -> 11

\* a <= b in the order of BTreeSet<String>
AtOrBelow(a, b) ==
    \/ IsPrefix(a, b)
    \/ \E i \in DOMAIN a \cap DOMAIN b :
         /\ SubSeq(a, 1, i - 1) = SubSeq(b, 1, i - 1)
         /\ ByteRank(a[i]) < ByteRank(b[i])

\* Seek the first token at or above the needle and test that one only.
any_token_starts_with(tokens, needle) ==
    LET range == {t \in tokens : AtOrBelow(needle, t)}
    IN  /\ range # {}
        /\ IsPrefix(needle, CHOOSE t \in range : \A u \in range : AtOrBelow(t, u))

match_prepared(corpus, needle) ==
    /\ needle.normalized # <<>>
    /\ \/ \E s \in needle.padded : Includes(corpus.padded, s)
       \/ needle.token /\ needle.normalized \in corpus.tokens
       \/ needle.prefix_eligible /\ any_token_starts_with(corpus.tokens, needle.normalized)
       \/ \E s \in needle.squashed : Includes(corpus.squashed, s)

\* Every phrase, prepared once (baked into the image).
PreparedRules == [p \in AllPhrases |-> prepare(p)]

evaluate_prepared(text) ==
    LET corpus == buildCorpus(normalize_rs(text))
    IN  Verdict({p \in AllPhrases : match_prepared(corpus, PreparedRules[p])})
-----------------------------------------------------------------------------
(* The policy identity: canonical manifest bytes, as the set of its        *)
(* entries, each with its place.  A key outside the BMP sorts before a     *)
(* private-use key in JavaScript (UTF-16 code units) and after it in       *)
(* Rust's own order.                                                       *)

Key == {"ascii", "private", "astral"}

Value == [kind : {"int"}, n : 0 .. (2 * SAFE_INTEGER)]
           \cup [kind : {"float"}, n : {0}]
           \cup [kind : {"nfc", "nfd"}, n : {0}]

Manifests == UNION {[ks -> Value] : ks \in SUBSET Key}

Utf16Rank(k) == CASE k = "ascii" -> 1 [] k = "astral" -> 2 [] k = "private" -> 3

Entries(m, Rank(_), Canon(_)) ==
    {<<Cardinality({l \in DOMAIN m : Rank(l) <= Rank(k)}), k, Canon(m[k])>> : k \in DOMAIN m}

\* String(value) of a number JSON.parse has already rounded to a double: above
\* the safe range only every other integer exists.  A string is NFC-normalised.
CanonicalJs(v) ==
    CASE v.kind = "int" /\ v.n <= SAFE_INTEGER + 1 -> <<"int", v.n>>
      [] v.kind = "int" /\ v.n > SAFE_INTEGER + 1  -> <<"int", 2 * (v.n \div 2)>>
      [] v.kind = "float"                          -> <<"js float", 0>>
      [] OTHER                                     -> <<"string", 0>>

PortableInteger(v) == v.kind # "float"

Portable(v) == v.kind \notin {"int", "float"} \/ (v.kind = "int" /\ v.n <= SAFE_INTEGER)

\* packages/policy/src/index.ts: what the package's policy id is the hash of.
canonical(m) == Entries(m, Utf16Rank, CanonicalJs)

loadPolicyPackage(m) == <<canonical(m), "rules", "guest image id">>

CanonicalRs(v) == IF v.kind = "int" THEN <<"int", v.n>> ELSE <<"string", 0>>

\* POLICY_ID_V2, what it is the hash of: the empty set when a value is refused.
policy_identity(m) ==
    IF \A k \in DOMAIN m : Portable(m[k])
    THEN {<<Entries(m, Utf16Rank, CanonicalRs), "rules">>} ELSE {}
=============================================================================
