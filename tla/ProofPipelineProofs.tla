------------------------ MODULE ProofPipelineProofs ------------------------
(***************************************************************************)
(* Proofs about ProofPipeline: its invariant, what an accepted proof says, *)
(* the policy identity, and, from "The policy engine's texts" on, that the *)
(* two policy engines agree on every text.                                 *)
(***************************************************************************)
EXTENDS ProofPipeline, FiniteSetTheorems, NaturalsInduction, SequenceTheorems, WellFoundedInduction, TLAPS

(* Lists of checks.  A check is a pair of its name and whether it holds.   *)

\* The first check that fails is the one that is named; the ones before it hold.
LEMMA FirstFailureNames ==
    ASSUME NEW n \in Nat, NEW checks, DOMAIN checks = 1 .. n
    PROVE  \/ FirstFailure(checks) = None /\ \A i \in 1 .. n : ~(~checks[i][2])
           \/ \E i \in 1 .. n : /\ FirstFailure(checks) = checks[i][1] /\ ~checks[i][2]
                                /\ \A k \in 1 .. n : k < i => ~(~checks[k][2])
<1> DEFINE F == {i \in DOMAIN checks : ~checks[i][2]}
<1>0. CASE F = {}
  BY <1>0 DEF FirstFailure
<1> SUFFICES ASSUME F # {} PROVE \E i \in 1 .. n : /\ FirstFailure(checks) = checks[i][1] /\ ~checks[i][2]
                                                  /\ \A k \in 1 .. n : k < i => ~(~checks[k][2])
  BY <1>0
<1>1. F \in SUBSET Nat
  OBVIOUS
<1> DEFINE R == {ss \in Nat \X Nat : ss[1] < ss[2]}
<1>2. IsWellFoundedOn(R, Nat)
  BY NatLessThanWellFounded DEF OpToRel
<1>3. PICK i \in F : \A k \in F : <<k, i>> \notin R
  BY <1>1, <1>2, WFMin
<1> HIDE DEF F
<1>4. ASSUME NEW k \in F PROVE i <= k
  <2>1. i \in Nat /\ k \in Nat
    BY <1>1
  <2>2. k < i => <<k, i>> \in R
    BY <2>1
  <2> QED
    BY <1>3, <2>1, <2>2
<1> DEFINE c == CHOOSE j \in F : \A k \in F : j <= k
<1>5. c \in F /\ \A k \in F : c <= k
  BY <1>4
<1>6. FirstFailure(checks) = checks[c][1]
  BY DEF FirstFailure, F
<1> HIDE DEF c
<1>7. c \in 1 .. n /\ ~checks[c][2] /\ \A k \in 1 .. n : k < c => ~(~checks[k][2])
  BY <1>5 DEF F
<1> QED
  BY <1>6, <1>7

\* A list of checks in which every check that fails has a name passes iff every check holds.
LEMMA PassesIffAllHold ==
    ASSUME NEW n \in Nat, NEW checks, DOMAIN checks = 1 .. n,
           \A i \in 1 .. n : checks[i][2] \in BOOLEAN,
           \A i \in 1 .. n : ~checks[i][2] => checks[i][1] # None
    PROVE  FirstFailure(checks) = None <=> \A i \in 1 .. n : checks[i][2]
BY FirstFailureNames

\* A list of n elements of S.
IsList(s, n, S) == s \in Seq(S) /\ Len(s) = n

\* u is a list of m elements and then n: those of s, those of t.
IsJoin(u, s, t, m, n, S) ==
    /\ IsList(u, m + n, S)
    /\ \A i \in 1 .. m : u[i] = s[i]
    /\ \A i \in 1 .. n : u[m + i] = t[i]

\* The places of two lists in the one that joins them.
LEMMA Joined ==
    ASSUME NEW S, NEW m \in Nat, NEW n \in Nat,
           NEW s, IsList(s, m, S), NEW t, IsList(t, n, S)
    PROVE  IsJoin(s \o t, s, t, m, n, S)
<1>0. s \in Seq(S) /\ t \in Seq(S) /\ Len(s) = m /\ Len(t) = n
  BY DEF IsList
<1>1. /\ s \o t \in Seq(S) /\ Len(s \o t) = Len(s) + Len(t)
      /\ \A i \in 1 .. Len(s) + Len(t) : (s \o t)[i] = IF i <= Len(s) THEN s[i] ELSE t[i - Len(s)]
  BY <1>0, ConcatProperties
<1>2. \A i \in 1 .. n : m + i \in 1 .. m + n /\ ~(m + i <= m) /\ (m + i) - m = i
  OBVIOUS
<1> QED
  BY <1>0, <1>1, <1>2 DEF IsList, IsJoin

\* Where the checks of the lists that run_checks puts together end up.
LEMMA SixteenChecks ==
    ASSUME NEW S, NEW c1 \in S, NEW c2 \in S, NEW c3 \in S, NEW c4 \in S, NEW c5 \in S,
           NEW c6 \in S, NEW c7 \in S, NEW c8 \in S, NEW c9 \in S, NEW c10 \in S, NEW c11 \in S,
           NEW c12 \in S, NEW c13 \in S, NEW c14 \in S, NEW c15 \in S, NEW c16 \in S
    PROVE  LET t == <<c1>> \o <<c2, c3, c4, c5>> \o <<c6, c7, c8, c9, c10, c11, c12>>
                      \o <<c13>> \o <<c14, c15, c16>>
           IN  /\ DOMAIN t = 1 .. 16
               /\ t[1] = c1 /\ t[2] = c2 /\ t[3] = c3 /\ t[4] = c4 /\ t[5] = c5 /\ t[6] = c6
               /\ t[7] = c7 /\ t[8] = c8 /\ t[9] = c9 /\ t[10] = c10 /\ t[11] = c11
               /\ t[12] = c12 /\ t[13] = c13 /\ t[14] = c14 /\ t[15] = c15 /\ t[16] = c16
<1> DEFINE a == <<c1>>
           b == <<c2, c3, c4, c5>>
           c == <<c6, c7, c8, c9, c10, c11, c12>>
           d == <<c13>>
           e == <<c14, c15, c16>>
<1>1. IsList(a, 1, S) /\ a[1] = c1
  BY DEF IsList
<1>2. IsList(b, 4, S) /\ b[1] = c2 /\ b[2] = c3 /\ b[3] = c4 /\ b[4] = c5
  BY DEF IsList
<1>3. /\ IsList(c, 7, S) /\ c[1] = c6 /\ c[2] = c7 /\ c[3] = c8 /\ c[4] = c9
      /\ c[5] = c10 /\ c[6] = c11 /\ c[7] = c12
  BY DEF IsList
<1>4. IsList(d, 1, S) /\ d[1] = c13
  BY DEF IsList
<1>5. IsList(e, 3, S) /\ e[1] = c14 /\ e[2] = c15 /\ e[3] = c16
  BY DEF IsList
<1> DEFINE ab == a \o b
           abc == ab \o c
           abcd == abc \o d
           t == abcd \o e
<1> HIDE DEF a, b, c, d, e
<1>6. /\ IsList(ab, 5, S) /\ ab[1] = a[1]
      /\ \A i \in 1 .. 4 : ab[1 + i] = b[i]
  <2>1. IsJoin(ab, a, b, 1, 4, S)
    BY <1>1, <1>2, 1 \in Nat, 4 \in Nat, Joined
  <2> HIDE DEF ab
  <2> QED
    BY ONLY <2>1, 1 + 4 = 5 DEF IsJoin
<1> HIDE DEF ab
<1>7. /\ IsList(abc, 12, S)
      /\ \A i \in 1 .. 5 : abc[i] = ab[i]
      /\ \A i \in 1 .. 7 : abc[5 + i] = c[i]
  <2>1. IsJoin(abc, ab, c, 5, 7, S)
    BY <1>3, <1>6, 5 \in Nat, 7 \in Nat, Joined
  <2> HIDE DEF abc
  <2> QED
    BY ONLY <2>1, 5 + 7 = 12 DEF IsJoin
<1> HIDE DEF abc
<1>8. /\ IsList(abcd, 13, S)
      /\ \A i \in 1 .. 12 : abcd[i] = abc[i]
      /\ abcd[12 + 1] = d[1]
  <2>1. IsJoin(abcd, abc, d, 12, 1, S)
    BY <1>4, <1>7, 12 \in Nat, 1 \in Nat, Joined
  <2> HIDE DEF abcd
  <2> QED
    BY ONLY <2>1, 12 + 1 = 13 DEF IsJoin
<1> HIDE DEF abcd
<1>9. /\ IsList(t, 16, S)
      /\ \A i \in 1 .. 13 : t[i] = abcd[i]
      /\ \A i \in 1 .. 3 : t[13 + i] = e[i]
  <2>1. IsJoin(t, abcd, e, 13, 3, S)
    BY <1>5, <1>8, 13 \in Nat, 3 \in Nat, Joined
  <2> HIDE DEF t
  <2> QED
    BY ONLY <2>1, 13 + 3 = 16 DEF IsJoin
<1>10. t = <<c1>> \o <<c2, c3, c4, c5>> \o <<c6, c7, c8, c9, c10, c11, c12>>
             \o <<c13>> \o <<c14, c15, c16>>
  BY DEF a, b, c, d, e, ab, abc, abcd
<1> HIDE DEF t
<1>11. DOMAIN t = 1 .. 16
  BY <1>9 DEF IsList
<1>12. t[1] = c1 /\ t[2] = c2 /\ t[3] = c3 /\ t[4] = c4 /\ t[5] = c5
  BY <1>1, <1>2, <1>6, <1>7, <1>8, <1>9
<1>13. /\ t[6] = c6 /\ t[7] = c7 /\ t[8] = c8 /\ t[9] = c9
       /\ t[10] = c10 /\ t[11] = c11 /\ t[12] = c12
  BY <1>3, <1>7, <1>8, <1>9
<1>14. t[13] = c13 /\ t[14] = c14 /\ t[15] = c15 /\ t[16] = c16
  BY <1>4, <1>5, <1>8, <1>9
<1> QED
  BY <1>10, <1>11, <1>12, <1>13, <1>14

\* The same for the lists of the TypeScript verifier.
LEMMA FourteenChecks ==
    ASSUME NEW S, NEW c1 \in S, NEW c2 \in S, NEW c3 \in S, NEW c4 \in S, NEW c5 \in S,
           NEW c6 \in S, NEW c7 \in S, NEW c8 \in S, NEW c9 \in S, NEW c10 \in S, NEW c11 \in S,
           NEW c12 \in S, NEW c13 \in S, NEW c14 \in S
    PROVE  LET t == <<c1, c2, c3, c4>> \o <<c5, c6, c7, c8, c9, c10, c11>> \o <<c12, c13, c14>>
           IN  /\ DOMAIN t = 1 .. 14
               /\ t[1] = c1 /\ t[2] = c2 /\ t[3] = c3 /\ t[4] = c4 /\ t[5] = c5 /\ t[6] = c6
               /\ t[7] = c7 /\ t[8] = c8 /\ t[9] = c9 /\ t[10] = c10 /\ t[11] = c11
               /\ t[12] = c12 /\ t[13] = c13 /\ t[14] = c14
<1> DEFINE a == <<c1, c2, c3, c4>>
           b == <<c5, c6, c7, c8, c9, c10, c11>>
           c == <<c12, c13, c14>>
<1>1. IsList(a, 4, S) /\ a[1] = c1 /\ a[2] = c2 /\ a[3] = c3 /\ a[4] = c4
  BY DEF IsList
<1>2. /\ IsList(b, 7, S) /\ b[1] = c5 /\ b[2] = c6 /\ b[3] = c7 /\ b[4] = c8
      /\ b[5] = c9 /\ b[6] = c10 /\ b[7] = c11
  BY DEF IsList
<1>3. IsList(c, 3, S) /\ c[1] = c12 /\ c[2] = c13 /\ c[3] = c14
  BY DEF IsList
<1> DEFINE ab == a \o b
           t == ab \o c
<1> HIDE DEF a, b, c
<1>4. /\ IsList(ab, 11, S)
      /\ \A i \in 1 .. 4 : ab[i] = a[i]
      /\ \A i \in 1 .. 7 : ab[4 + i] = b[i]
  <2>1. IsJoin(ab, a, b, 4, 7, S)
    BY <1>1, <1>2, 4 \in Nat, 7 \in Nat, Joined
  <2> HIDE DEF ab
  <2> QED
    BY ONLY <2>1, 4 + 7 = 11 DEF IsJoin
<1> HIDE DEF ab
<1>5. /\ IsList(t, 14, S)
      /\ \A i \in 1 .. 11 : t[i] = ab[i]
      /\ \A i \in 1 .. 3 : t[11 + i] = c[i]
  <2>1. IsJoin(t, ab, c, 11, 3, S)
    BY <1>3, <1>4, 11 \in Nat, 3 \in Nat, Joined
  <2> HIDE DEF t
  <2> QED
    BY ONLY <2>1, 11 + 3 = 14 DEF IsJoin
<1>6. t = <<c1, c2, c3, c4>> \o <<c5, c6, c7, c8, c9, c10, c11>> \o <<c12, c13, c14>>
  BY DEF a, b, c, ab
<1> HIDE DEF t
<1>7. DOMAIN t = 1 .. 14
  BY <1>5 DEF IsList
<1>8. t[1] = c1 /\ t[2] = c2 /\ t[3] = c3 /\ t[4] = c4
  BY <1>1, <1>4, <1>5
<1>9. /\ t[5] = c5 /\ t[6] = c6 /\ t[7] = c7 /\ t[8] = c8
      /\ t[9] = c9 /\ t[10] = c10 /\ t[11] = c11
  BY <1>2, <1>4, <1>5
<1>10. t[12] = c12 /\ t[13] = c13 /\ t[14] = c14
  BY <1>3, <1>5
<1> QED
  BY <1>6, <1>7, <1>8, <1>9, <1>10

\* run_checks accepts a file iff every check holds; when it refuses one over a check that the
\* TypeScript verifier makes as well, the manifest is good and one of those checks fails.
LEMMA RunChecks ==
    ASSUME NEW m, NEW r, NEW hs, NEW e
    PROVE  /\ run_checks(m, r, hs, e) = None <=>
                /\ check_manifest(m)
                /\ m.receiptCodec = "bincode-v1"
                /\ r.file.frame = "intact" /\ r.file.body = "intact" /\ r.file.trailing = "none"
                /\ r.file.claim = m.imageIdHex
                /\ SealValid(r)
                /\ r.journal.object = "yes"
                /\ r.journal.keys = "exact"
                /\ r.journal.protocolVersion = m.journalVersion
                /\ r.journal.decision \in {"ALLOW", "DENY"}
                /\ r.journal.requestCommitment # "malformed"
                /\ r.journal.proofNonce # "malformed"
                /\ r.journal.policyId # "malformed" /\ r.journal.policyId = m.manifestPolicy
                /\ check_rules_digest(m, hs.policyDir)
                /\ Meets(e.commitment, r.journal.requestCommitment)
                /\ Meets(e.decision, r.journal.decision)
                /\ Meets(e.proofNonce, r.journal.proofNonce)
           /\ run_checks(m, r, hs, e)
                \notin {None, "manifest", "receipt-decodes", "image-id", "seal", "rules-digest"}
              => /\ check_manifest(m)
                 /\ ~(/\ m.receiptCodec = "bincode-v1" /\ r.journal.object = "yes"
                      /\ r.journal.keys = "exact" /\ r.journal.protocolVersion = m.journalVersion
                      /\ r.journal.decision \in {"ALLOW", "DENY"}
                      /\ r.journal.requestCommitment # "malformed"
                      /\ r.journal.proofNonce # "malformed"
                      /\ r.journal.policyId # "malformed" /\ r.journal.policyId = m.manifestPolicy
                      /\ Meets(e.commitment, r.journal.requestCommitment)
                      /\ Meets(e.decision, r.journal.decision)
                      /\ Meets(e.proofNonce, r.journal.proofNonce))
<1>1. PICK b1 \in BOOLEAN : b1 = (check_manifest(m))
  BY (check_manifest(m)) \in BOOLEAN, Zenon DEF check_manifest
<1>2. PICK b2 \in BOOLEAN : b2 = (m.receiptCodec = "bincode-v1")
  BY (m.receiptCodec = "bincode-v1") \in BOOLEAN, Zenon
<1>3. PICK b3 \in BOOLEAN : b3 = (r.file.frame = "intact" /\ r.file.body = "intact" /\ r.file.trailing = "none")
  BY (r.file.frame = "intact" /\ r.file.body = "intact" /\ r.file.trailing = "none") \in BOOLEAN, Zenon
<1>4. PICK b4 \in BOOLEAN : b4 = (r.file.claim = m.imageIdHex)
  BY (r.file.claim = m.imageIdHex) \in BOOLEAN, Zenon
<1>5. PICK b5 \in BOOLEAN : b5 = (SealValid(r))
  BY (SealValid(r)) \in BOOLEAN, Zenon DEF SealValid
<1>6. PICK b6 \in BOOLEAN : b6 = (r.journal.object = "yes")
  BY (r.journal.object = "yes") \in BOOLEAN, Zenon
<1>7. PICK b7 \in BOOLEAN : b7 = (r.journal.keys = "exact")
  BY (r.journal.keys = "exact") \in BOOLEAN, Zenon
<1>8. PICK b8 \in BOOLEAN : b8 = (r.journal.protocolVersion = m.journalVersion)
  BY (r.journal.protocolVersion = m.journalVersion) \in BOOLEAN, Zenon
<1>9. PICK b9 \in BOOLEAN : b9 = (r.journal.decision \in {"ALLOW", "DENY"})
  BY (r.journal.decision \in {"ALLOW", "DENY"}) \in BOOLEAN, Zenon
<1>10. PICK b10 \in BOOLEAN : b10 = (r.journal.requestCommitment # "malformed")
  BY (r.journal.requestCommitment # "malformed") \in BOOLEAN, Zenon
<1>11. PICK b11 \in BOOLEAN : b11 = (r.journal.proofNonce # "malformed")
  BY (r.journal.proofNonce # "malformed") \in BOOLEAN, Zenon
<1>12. PICK b12 \in BOOLEAN : b12 = (r.journal.policyId # "malformed" /\ r.journal.policyId = m.manifestPolicy)
  BY (r.journal.policyId # "malformed" /\ r.journal.policyId = m.manifestPolicy) \in BOOLEAN, Zenon
<1>13. PICK b13 \in BOOLEAN : b13 = (check_rules_digest(m, hs.policyDir))
  BY (check_rules_digest(m, hs.policyDir)) \in BOOLEAN, Zenon DEF check_rules_digest
<1>14. PICK b14 \in BOOLEAN : b14 = (Meets(e.commitment, r.journal.requestCommitment))
  BY (Meets(e.commitment, r.journal.requestCommitment)) \in BOOLEAN, Zenon DEF Meets
<1>15. PICK b15 \in BOOLEAN : b15 = (Meets(e.decision, r.journal.decision))
  BY (Meets(e.decision, r.journal.decision)) \in BOOLEAN, Zenon DEF Meets
<1>16. PICK b16 \in BOOLEAN : b16 = (Meets(e.proofNonce, r.journal.proofNonce))
  BY (Meets(e.proofNonce, r.journal.proofNonce)) \in BOOLEAN, Zenon DEF Meets
<1> DEFINE c1 == <<"manifest", b1>>
           c2 == <<"receipt-codec", b2>>
           c3 == <<"receipt-decodes", b3>>
           c4 == <<"image-id", b4>>
           c5 == <<"seal", b5>>
           c6 == <<"journal-parses", b6>>
           c7 == <<"journal-key-set", b7>>
           c8 == <<"journal-protocol-version", b8>>
           c9 == <<"journal-decision", b9>>
           c10 == <<"journal-request-commitment", b10>>
           c11 == <<"journal-proof-nonce", b11>>
           c12 == <<"policy-id", b12>>
           c13 == <<"rules-digest", b13>>
           c14 == <<"expect-commitment", b14>>
           c15 == <<"expect-decision", b15>>
           c16 == <<"expect-proof-nonce", b16>>
<1>17. c1[1] = "manifest" /\ c1[2] = b1 /\ c2[1] = "receipt-codec" /\ c2[2] = b2 /\
      c3[1] = "receipt-decodes" /\ c3[2] = b3 /\ c4[1] = "image-id" /\ c4[2] = b4 /\
      c5[1] = "seal" /\ c5[2] = b5 /\ c6[1] = "journal-parses" /\ c6[2] = b6 /\
      c7[1] = "journal-key-set" /\ c7[2] = b7 /\
      c8[1] = "journal-protocol-version" /\ c8[2] = b8 /\
      c9[1] = "journal-decision" /\ c9[2] = b9 /\
      c10[1] = "journal-request-commitment" /\ c10[2] = b10 /\
      c11[1] = "journal-proof-nonce" /\ c11[2] = b11 /\ c12[1] = "policy-id" /\ c12[2] = b12 /\
      c13[1] = "rules-digest" /\ c13[2] = b13 /\
      c14[1] = "expect-commitment" /\ c14[2] = b14 /\
      c15[1] = "expect-decision" /\ c15[2] = b15 /\
      c16[1] = "expect-proof-nonce" /\ c16[2] = b16
  OBVIOUS
<1> HIDE DEF c1, c2, c3, c4, c5, c6, c7, c8, c9, c10, c11, c12, c13, c14, c15, c16
<1> DEFINE S == {c1, c2, c3, c4, c5, c6, c7, c8, c9, c10, c11, c12, c13, c14, c15, c16}
<1>18. /\ c1 \in S /\ c2 \in S /\ c3 \in S /\ c4 \in S /\ c5 \in S /\ c6 \in S /\ c7 \in S /\ c8 \in S
      /\ c9 \in S /\ c10 \in S /\ c11 \in S /\ c12 \in S /\ c13 \in S /\ c14 \in S /\ c15 \in S
      /\ c16 \in S
  OBVIOUS
<1> HIDE DEF S
<1> DEFINE t == <<c1>> \o <<c2, c3, c4, c5>> \o <<c6, c7, c8, c9, c10, c11, c12>> \o <<c13>> \o <<c14, c15, c16>>
<1>19. /\ DOMAIN t = 1 .. 16
      /\ t[1] = c1 /\ t[2] = c2 /\ t[3] = c3 /\ t[4] = c4 /\ t[5] = c5 /\ t[6] = c6 /\ t[7] = c7 /\
         t[8] = c8 /\ t[9] = c9 /\ t[10] = c10 /\ t[11] = c11 /\ t[12] = c12 /\ t[13] = c13 /\
         t[14] = c14 /\ t[15] = c15 /\ t[16] = c16
  BY <1>18, SixteenChecks
<1> HIDE DEF t
<1>20. \A i \in 1 .. 16 : t[i][1] # None /\ t[i][2] \in BOOLEAN
  BY <1>17, <1>19 DEF None
<1>21. FirstFailure(t) = None <=> b1 /\ b2 /\ b3 /\ b4 /\ b5 /\ b6 /\ b7 /\ b8 /\ b9 /\ b10 /\ b11 /\ b12 /\ b13 /\ b14 /\ b15 /\
                                 b16
  <2>1. FirstFailure(t) = None <=> \A i \in 1 .. 16 : t[i][2]
    BY <1>19, <1>20, 16 \in Nat, PassesIffAllHold
  <2> QED
    BY <1>17, <1>19, <2>1
<1>22. FirstFailure(t) \notin {None, "manifest", "receipt-decodes", "image-id", "seal", "rules-digest"}
        => b1 /\ ~(b2 /\ b6 /\ b7 /\ b8 /\ b9 /\ b10 /\ b11 /\ b12 /\ b14 /\ b15 /\ b16)
  <2> SUFFICES ASSUME FirstFailure(t) \notin {None, "manifest", "receipt-decodes", "image-id",
                                             "seal", "rules-digest"}
               PROVE  b1 /\ ~(b2 /\ b6 /\ b7 /\ b8 /\ b9 /\ b10 /\ b11 /\ b12 /\ b14 /\ b15 /\ b16)
    OBVIOUS
  <2>1. PICK i \in 1 .. 16 : /\ FirstFailure(t) = t[i][1] /\ ~t[i][2]
                             /\ \A k \in 1 .. 16 : k < i => ~(~t[k][2])
    BY <1>19, 16 \in Nat, FirstFailureNames
  <2>2. i \notin {1, 3, 4, 5, 13}
    BY <1>17, <1>19, <2>1
  <2>3. b1
    BY <1>17, <1>19, <2>1, <2>2
  <2> QED
    BY <1>17, <1>19, <2>1, <2>2, <2>3
<1>23. run_checks(m, r, hs, e) = FirstFailure(t)
  <2>1. check_receipt(m, r) = << <<"receipt-codec", b2>>, <<"receipt-decodes", b3>>,
                                 <<"image-id", b4>>, <<"seal", b5>> >>
    BY <1>2, <1>3, <1>4, <1>5, Zenon DEF check_receipt
  <2>2. check_journal(m, r.journal)
          = << <<"journal-parses", b6>>, <<"journal-key-set", b7>>, <<"journal-protocol-version", b8>>,
               <<"journal-decision", b9>>, <<"journal-request-commitment", b10>>,
               <<"journal-proof-nonce", b11>>, <<"policy-id", b12>> >>
    BY <1>6, <1>7, <1>8, <1>9, <1>10, <1>11, <1>12, Zenon DEF check_journal
  <2>3. check_expectations(r.journal, e)
          = << <<"expect-commitment", b14>>, <<"expect-decision", b15>>, <<"expect-proof-nonce", b16>> >>
    BY <1>14, <1>15, <1>16, Zenon DEF check_expectations
  <2> QED
    BY ONLY <1>1, <1>13, <2>1, <2>2, <2>3, Zenon
       DEF run_checks, t, c1, c2, c3, c4, c5, c6, c7, c8, c9, c10, c11, c12, c13, c14, c15, c16
<1> QED
  BY <1>1, <1>2, <1>3, <1>4, <1>5, <1>6, <1>7, <1>8, <1>9, <1>10, <1>11, <1>12, <1>13, <1>14, <1>15, <1>16,
     <1>21, <1>22, <1>23, Zenon

\* Every check of verifyReceipt holds; mm is the manifest with the version it defaults to.
TsHolds(m, mm, r, e) ==
    /\ m.imageIdHex # "malformed" /\ m.manifestPolicy # "malformed"
    /\ m.rulesDigest # "malformed" /\ VersionOrDefault(m) = "1"
    /\ m.receiptCodec # "other"
    /\ frameJournal(r)
    /\ r.file.inner # "fake"
    /\ r.journal.object = "yes"
    /\ r.journal.keys = "exact"
    /\ r.journal.protocolVersion = mm.journalVersion
    /\ r.journal.decision \in {"ALLOW", "DENY"}
    /\ r.journal.requestCommitment # "malformed"
    /\ r.journal.proofNonce # "malformed"
    /\ r.journal.policyId # "malformed" /\ r.journal.policyId = mm.manifestPolicy
    /\ Meets(e.commitment, r.journal.requestCommitment)
    /\ Meets(e.decision, r.journal.decision)
    /\ Meets(e.proofNonce, r.journal.proofNonce)

\* The TypeScript verifier accepts a file iff every check of its own holds.
LEMMA TsChecks ==
    ASSUME NEW m, NEW r, NEW e, NEW mm, mm = [m EXCEPT !.journalVersion = VersionOrDefault(m)]
    PROVE  verifyReceipt(m, r, e) = None <=> TsHolds(m, mm, r, e)
<1>1. PICK b1 \in BOOLEAN : b1 = (m.imageIdHex # "malformed" /\ m.manifestPolicy # "malformed" /\ m.rulesDigest # "malformed" /\ VersionOrDefault(m) = "1")
  BY (m.imageIdHex # "malformed" /\ m.manifestPolicy # "malformed" /\ m.rulesDigest # "malformed" /\ VersionOrDefault(m) = "1") \in BOOLEAN, Zenon
<1>2. PICK b2 \in BOOLEAN : b2 = (m.receiptCodec # "other")
  BY (m.receiptCodec # "other") \in BOOLEAN, Zenon
<1>3. PICK b3 \in BOOLEAN : b3 = (frameJournal(r))
  BY (frameJournal(r)) \in BOOLEAN, Zenon DEF frameJournal
<1>4. PICK b4 \in BOOLEAN : b4 = (r.file.inner # "fake")
  BY (r.file.inner # "fake") \in BOOLEAN, Zenon
<1>5. PICK b5 \in BOOLEAN : b5 = (r.journal.object = "yes")
  BY (r.journal.object = "yes") \in BOOLEAN, Zenon
<1>6. PICK b6 \in BOOLEAN : b6 = (r.journal.keys = "exact")
  BY (r.journal.keys = "exact") \in BOOLEAN, Zenon
<1>7. PICK b7 \in BOOLEAN : b7 = (r.journal.protocolVersion = mm.journalVersion)
  BY (r.journal.protocolVersion = mm.journalVersion) \in BOOLEAN, Zenon
<1>8. PICK b8 \in BOOLEAN : b8 = (r.journal.decision \in {"ALLOW", "DENY"})
  BY (r.journal.decision \in {"ALLOW", "DENY"}) \in BOOLEAN, Zenon
<1>9. PICK b9 \in BOOLEAN : b9 = (r.journal.requestCommitment # "malformed")
  BY (r.journal.requestCommitment # "malformed") \in BOOLEAN, Zenon
<1>10. PICK b10 \in BOOLEAN : b10 = (r.journal.proofNonce # "malformed")
  BY (r.journal.proofNonce # "malformed") \in BOOLEAN, Zenon
<1>11. PICK b11 \in BOOLEAN : b11 = (r.journal.policyId # "malformed" /\ r.journal.policyId = mm.manifestPolicy)
  BY (r.journal.policyId # "malformed" /\ r.journal.policyId = mm.manifestPolicy) \in BOOLEAN, Zenon
<1>12. PICK b12 \in BOOLEAN : b12 = (Meets(e.commitment, r.journal.requestCommitment))
  BY (Meets(e.commitment, r.journal.requestCommitment)) \in BOOLEAN, Zenon DEF Meets
<1>13. PICK b13 \in BOOLEAN : b13 = (Meets(e.decision, r.journal.decision))
  BY (Meets(e.decision, r.journal.decision)) \in BOOLEAN, Zenon DEF Meets
<1>14. PICK b14 \in BOOLEAN : b14 = (Meets(e.proofNonce, r.journal.proofNonce))
  BY (Meets(e.proofNonce, r.journal.proofNonce)) \in BOOLEAN, Zenon DEF Meets
<1> DEFINE c1 == <<"manifest", b1>>
           c2 == <<"receipt-codec", b2>>
           c3 == <<"receipt-decodes", b3>>
           c4 == <<"seal", b4>>
           c5 == <<"journal-parses", b5>>
           c6 == <<"journal-key-set", b6>>
           c7 == <<"journal-protocol-version", b7>>
           c8 == <<"journal-decision", b8>>
           c9 == <<"journal-request-commitment", b9>>
           c10 == <<"journal-proof-nonce", b10>>
           c11 == <<"policy-id", b11>>
           c12 == <<"expect-commitment", b12>>
           c13 == <<"expect-decision", b13>>
           c14 == <<"expect-proof-nonce", b14>>
<1>15. c1[1] = "manifest" /\ c1[2] = b1 /\ c2[1] = "receipt-codec" /\ c2[2] = b2 /\
      c3[1] = "receipt-decodes" /\ c3[2] = b3 /\ c4[1] = "seal" /\ c4[2] = b4 /\
      c5[1] = "journal-parses" /\ c5[2] = b5 /\ c6[1] = "journal-key-set" /\ c6[2] = b6 /\
      c7[1] = "journal-protocol-version" /\ c7[2] = b7 /\
      c8[1] = "journal-decision" /\ c8[2] = b8 /\
      c9[1] = "journal-request-commitment" /\ c9[2] = b9 /\
      c10[1] = "journal-proof-nonce" /\ c10[2] = b10 /\ c11[1] = "policy-id" /\ c11[2] = b11 /\
      c12[1] = "expect-commitment" /\ c12[2] = b12 /\
      c13[1] = "expect-decision" /\ c13[2] = b13 /\
      c14[1] = "expect-proof-nonce" /\ c14[2] = b14
  OBVIOUS
<1> HIDE DEF c1, c2, c3, c4, c5, c6, c7, c8, c9, c10, c11, c12, c13, c14
<1> DEFINE S == {c1, c2, c3, c4, c5, c6, c7, c8, c9, c10, c11, c12, c13, c14}
<1>16. /\ c1 \in S /\ c2 \in S /\ c3 \in S /\ c4 \in S /\ c5 \in S /\ c6 \in S /\ c7 \in S /\ c8 \in S
      /\ c9 \in S /\ c10 \in S /\ c11 \in S /\ c12 \in S /\ c13 \in S /\ c14 \in S
  OBVIOUS
<1> HIDE DEF S
<1> DEFINE t == <<c1, c2, c3, c4>> \o <<c5, c6, c7, c8, c9, c10, c11>> \o <<c12, c13, c14>>
<1>17. /\ DOMAIN t = 1 .. 14
      /\ t[1] = c1 /\ t[2] = c2 /\ t[3] = c3 /\ t[4] = c4 /\ t[5] = c5 /\ t[6] = c6 /\ t[7] = c7 /\
         t[8] = c8 /\ t[9] = c9 /\ t[10] = c10 /\ t[11] = c11 /\ t[12] = c12 /\ t[13] = c13 /\
         t[14] = c14
  BY <1>16, FourteenChecks
<1> HIDE DEF t
<1>18. \A i \in 1 .. 14 : t[i][1] # None /\ t[i][2] \in BOOLEAN
  BY <1>15, <1>17 DEF None
<1>19. FirstFailure(t) = None <=> b1 /\ b2 /\ b3 /\ b4 /\ b5 /\ b6 /\ b7 /\ b8 /\ b9 /\ b10 /\ b11 /\ b12 /\ b13 /\ b14
  <2>1. FirstFailure(t) = None <=> \A i \in 1 .. 14 : t[i][2]
    BY <1>17, <1>18, 14 \in Nat, PassesIffAllHold
  <2> QED
    BY <1>15, <1>17, <2>1
<1>20. verifyReceipt(m, r, e) = FirstFailure(t)
  <2>1. check_journal(mm, r.journal)
          = << <<"journal-parses", b5>>, <<"journal-key-set", b6>>, <<"journal-protocol-version", b7>>,
               <<"journal-decision", b8>>, <<"journal-request-commitment", b9>>,
               <<"journal-proof-nonce", b10>>, <<"policy-id", b11>> >>
    BY <1>5, <1>6, <1>7, <1>8, <1>9, <1>10, <1>11, Zenon DEF check_journal
  <2>2. check_expectations(r.journal, e)
          = << <<"expect-commitment", b12>>, <<"expect-decision", b13>>, <<"expect-proof-nonce", b14>> >>
    BY <1>12, <1>13, <1>14, Zenon DEF check_expectations
  <2> QED
    BY ONLY <1>1, <1>2, <1>3, <1>4, <2>1, <2>2,
            mm = [m EXCEPT !.journalVersion = VersionOrDefault(m)], Zenon
       DEF verifyReceipt, t, c1, c2, c3, c4, c5, c6, c7, c8, c9, c10, c11, c12, c13, c14
<1> QED
  BY <1>1, <1>2, <1>3, <1>4, <1>5, <1>6, <1>7, <1>8, <1>9, <1>10, <1>11, <1>12, <1>13, <1>14,
     <1>19, <1>20, Zenon DEF TsHolds

\* Every check of run_checks holds.
RsHolds(m, r, hs, e) ==
    /\ check_manifest(m)
    /\ m.receiptCodec = "bincode-v1"
    /\ r.file.frame = "intact" /\ r.file.body = "intact" /\ r.file.trailing = "none"
    /\ r.file.claim = m.imageIdHex
    /\ SealValid(r)
    /\ r.journal.object = "yes"
    /\ r.journal.keys = "exact"
    /\ r.journal.protocolVersion = m.journalVersion
    /\ r.journal.decision \in {"ALLOW", "DENY"}
    /\ r.journal.requestCommitment # "malformed"
    /\ r.journal.proofNonce # "malformed"
    /\ r.journal.policyId # "malformed" /\ r.journal.policyId = m.manifestPolicy
    /\ check_rules_digest(m, hs.policyDir)
    /\ Meets(e.commitment, r.journal.requestCommitment)
    /\ Meets(e.decision, r.journal.decision)
    /\ Meets(e.proofNonce, r.journal.proofNonce)

\* The reference verifier accepts exactly what passes every check.
LEMMA RsAccepts ==
    ASSUME NEW m, NEW r, NEW hs, NEW e
    PROVE  run_checks(m, r, hs, e) = None <=> RsHolds(m, r, hs, e)
BY ONLY RunChecks, Zenon DEF RsHolds
-----------------------------------------------------------------------------
(* The inductive invariant. *)

\* A receipt file: what it shows, and the claim and the journal its seal covers.
ReceiptFile == [file : FileField, journal : JournalField,
                sealed : [claim : {"pinned", "other"}, journal : JournalField]]

\* What the coordinator stores.
ReceiptDoc == [version : {"ctn-receipt-1", "other"}, requestCommitment : {"own", "other"},
               policyId : {"pinned"}, decision : {"ALLOW"}, zkReceiptDigest : SUBSET ReceiptFile,
               route : {"named", "other"}]

Claims == [commitment : {"own", "other"}, decision : {"ALLOW", "DENY"}, proofNonce : {"own", "other"}]

BindingDoc == [decisionReceiptDigest : {"own"}, artifactDigest : ReceiptFile, policyId : {"pinned"}, decision : {"ALLOW", "DENY"},
               proofVerified : {TRUE}]

\* The enclave signs in its first boot only, and a receipt only about this request.
Signatures == {Sign(0, {})}
                \cup [by : {1}, over : {x \in ReceiptDoc : x.requestCommitment = "own"}]

SignedBinding == [binding : BindingDoc, signature : [by : {1}, over : BindingDoc]]

Bundles == [receipt : ReceiptDoc, receiptSignature : Signatures, artifact : SUBSET ReceiptFile,
            decoded : SUBSET Claims, binding : SUBSET SignedBinding, words : SUBSET {"prompt"}]

\* What a seal of the pinned image can cover: its journal about some request, and about this one
\* only with the decision of the gate.
RealSeal(r) ==
    r.sealed.claim = "pinned" =>
        \E d \in {"ALLOW", "DENY"}, c \in {"own", "other"}, n \in {"own", "other"} :
            r.sealed.journal = Journal(d, c, n) /\ (c = "own" => d = decision)

\* Which parts exist at which stage.
StageInv ==
    /\ stage \notin {"build", "nobuild", "compose"} => decision \in {"ALLOW", "DENY"}
    /\ stage \notin {"generated", "settled", "failed"} => file = {}
    /\ stage # "settled" => bundle.artifact = {} /\ bundle.decoded = {} /\ bundle.binding = {}
    /\ stage = "settled" => bundle.decoded # {}
    /\ stage \in {"build", "nobuild", "compose"} => bundle.receiptSignature = Sign(0, {})
    /\ boot = 2 => stage \in {"settled", "failed"}

SealInv ==
    /\ bundle \in Bundles
    /\ file \in SUBSET ReceiptFile
    /\ \A r \in file \cup bundle.artifact : RealSeal(r)

\* As long as nothing was damaged or exchanged.
HonestInv ==
    faults = 0 =>
        /\ release = Manifest /\ host = GoodHost
        /\ file # {} => \E r \in Delivered : file = {r}
        /\ bundle.receiptSignature # Sign(0, {}) =>
             /\ decision = "ALLOW" /\ bundle.receiptSignature = Sign(1, bundle.receipt)
             /\ bundle.receipt.requestCommitment = "own"
             /\ bundle.receipt.zkReceiptDigest \in {{}, file}
        /\ stage = "settled" =>
             /\ bundle.artifact = file /\ bundle.decoded = {DecodedJournal(decision)}
             /\ \E r \in Delivered :
                  /\ file = {r} /\ Genuine(r)
                  /\ bundle.binding = {[binding   |-> ProofBinding(decision, r),
                                        signature |-> Sign(1, ProofBinding(decision, r))]}

PipelineInv == TypeOK /\ StageInv /\ SealInv /\ BoundIsGenuine /\ HonestInv
-----------------------------------------------------------------------------
\* Every receipt that the daemon may hand over is a receipt file with a real seal.
LEMMA DeliveredShape ==
    ASSUME decision \in {"ALLOW", "DENY"}, NEW r \in Delivered
    PROVE  r \in ReceiptFile /\ RealSeal(r)
<1>1. ASSUME NEW d \in {"ALLOW", "DENY"}, NEW c \in {"own", "other"}, NEW n \in {"own", "other"},
             NEW claim \in {"pinned", "other"}, NEW inner \in {"composite", "groth16", "fake"},
             r = Receipt(Journal(d, c, n), claim, inner)
      PROVE  /\ r \in ReceiptFile /\ r.sealed.claim = claim /\ r.sealed.journal = Journal(d, c, n)
  <2>1. Journal(d, c, n) \in JournalField
    BY DEF Journal, JournalField
  <2> QED
    BY <1>1, <2>1 DEF Receipt, ReceiptFile, FileField
<1>2. ASSUME NEW inner \in {"composite", "groth16", "fake"},
             r = Receipt(Journal(decision, "own", "own"), "pinned", inner)
      PROVE  r \in ReceiptFile /\ RealSeal(r)
  BY <1>1, <1>2 DEF RealSeal
<1>3. ASSUME NEW d \in {"ALLOW", "DENY"},
             r = Receipt(Journal(d, "other", "other"), "pinned", "composite")
      PROVE  r \in ReceiptFile /\ RealSeal(r)
  BY <1>1, <1>3 DEF RealSeal
<1>4. CASE r = Receipt(Journal(decision, "own", "other"), "pinned", "composite")
  BY <1>1, <1>4 DEF RealSeal
<1>5. ASSUME NEW d \in {"ALLOW", "DENY"},
             r = Receipt(Journal(d, "own", "own"), "other", "composite")
      PROVE  r \in ReceiptFile /\ RealSeal(r)
  BY <1>1, <1>5 DEF RealSeal
<1> QED
  BY <1>2, <1>3, <1>4, <1>5 DEF Delivered

\* A file whose seal is valid and that meets the gate's expectations is genuine.
LEMMA SealedForGate ==
    ASSUME decision \in {"ALLOW", "DENY"}, NEW r \in ReceiptFile, RealSeal(r), SealValid(r),
           Meets("own", r.journal.requestCommitment)
    PROVE  /\ r.file.inner # "fake" /\ r.sealed.claim = "pinned" /\ r.sealed.journal = r.journal
           /\ r.journal.requestCommitment = "own" /\ r.journal.decision = decision
           /\ Meets("own", r.journal.proofNonce) => Genuine(r)
<1>1. r.sealed = [claim |-> "pinned", journal |-> r.journal] /\ r.file.inner # "fake"
  BY DEF SealValid
<1>2. r.journal.requestCommitment = "own"
  BY DEF Meets, None
<1>3. PICK d \in {"ALLOW", "DENY"}, c \in {"own", "other"}, n \in {"own", "other"} :
        r.journal = Journal(d, c, n) /\ (c = "own" => d = decision)
  BY <1>1 DEF RealSeal
<1>4. c = "own" /\ d = decision /\ r.journal.decision = decision /\ r.journal.proofNonce = n
  BY <1>2, <1>3 DEF Journal
<1>5. Meets("own", r.journal.proofNonce) => n = "own"
  BY <1>4 DEF Meets, None
<1> QED
  BY <1>1, <1>2, <1>3, <1>4, <1>5 DEF Genuine

\* A step that leaves the files, the bundle, the verdict and the verifier's machine alone, and is
\* not the one that settles, keeps what is known of them.
LEMMA PartsKept ==
    ASSUME PipelineInv, UNCHANGED <<decision, release, host, file, bundle, faults>>,
           stage' = "settled" => stage = "settled"
    PROVE  SealInv' /\ BoundIsGenuine' /\ HonestInv'
<1>1. Delivered' = Delivered /\ (\A r : Genuine(r)' <=> Genuine(r)) /\ (\A r : RealSeal(r)' <=> RealSeal(r))
  BY DEF Delivered, Genuine, RealSeal
<1>2. SealInv'
  BY <1>1 DEF PipelineInv, SealInv
<1>3. BoundIsGenuine'
  BY <1>1 DEF PipelineInv, BoundIsGenuine
<1>4. HonestInv'
  BY <1>1 DEF PipelineInv, HonestInv
<1> QED
  BY <1>2, <1>3, <1>4

LEMMA SmallSets == /\ Cardinality({}) <= 1
                   /\ \A x : Cardinality({x}) <= 1
<1>1. Cardinality({}) = 0
  BY FS_EmptySet
<1>2. ASSUME NEW x PROVE Cardinality({x}) = 1
  BY FS_Singleton
<1> QED
  BY <1>1, <1>2

\* Every step of the pipeline keeps the invariant.
LEMMA PipelineStep == PipelineInv /\ [Next]_vars => PipelineInv'
<1> SUFFICES ASSUME PipelineInv, [Next]_vars
             PROVE  PipelineInv'
  OBVIOUS
<1>0. TypeOK /\ StageInv /\ SealInv /\ BoundIsGenuine /\ HonestInv
  BY DEF PipelineInv
<1>1. CASE Build
  <2>1. PICK m \in Manifests : manifest' = {m} /\ stage' \in {"nobuild", "build"}
    BY <1>1 DEF Build
  <2>2. stage = "build" /\ UNCHANGED <<text, decision, body, release, host, file, bundle, boot, faults>>
    BY <1>1 DEF Build
  <2>3. TypeOK'
    BY <1>0, <2>1, <2>2, SmallSets DEF TypeOK, Stage
  <2>4. StageInv'
    BY <1>0, <2>1, <2>2 DEF StageInv
  <2> QED
    BY <2>1, <2>2, <2>3, <2>4, PartsKept DEF PipelineInv
<1>2. CASE Release
  <2>1. /\ stage = "build" /\ stage' = "compose" /\ manifest' = {}
        /\ UNCHANGED <<text, decision, body, release, host, file, bundle, boot, faults>>
    BY <1>2 DEF Release
  <2>2. TypeOK'
    BY <1>0, <2>1, SmallSets DEF TypeOK, Stage
  <2>3. StageInv'
    BY <1>0, <2>1 DEF StageInv
  <2> QED
    BY <2>1, <2>2, <2>3, PartsKept DEF PipelineInv
<1>3. CASE Type
  <2>1. /\ stage = "compose" /\ Len(text) < MaxText
        /\ UNCHANGED <<stage, manifest, decision, body, release, host, file, bundle, boot, faults>>
    BY <1>3 DEF Type
  <2>2. PICK c \in Char : text' = Append(text, c)
    BY <1>3 DEF Type
  <2>3. text' \in Phrase /\ Len(text') <= MaxText
    <3>1. text \in Seq(Char) /\ Len(text) \in Nat
      BY <1>0 DEF TypeOK, Phrase
    <3> HIDE DEF Char
    <3>2. text' \in Seq(Char) /\ Len(text') = Len(text) + 1
      BY <2>2, <3>1
    <3> QED
      BY <2>1, <3>1, <3>2, PipelineAssumption DEF Phrase
  <2>4. TypeOK'
    BY <1>0, <2>1, <2>3 DEF TypeOK
  <2>5. StageInv'
    BY <1>0, <2>1 DEF StageInv
  <2> QED
    BY <2>1, <2>4, <2>5, PartsKept DEF PipelineInv
<1>4. CASE Submit
  <2>1. /\ stage = "compose" /\ stage' = "submitted" /\ text' = <<>>
        /\ decision' = evaluate_prepared(text).decision
        /\ UNCHANGED <<manifest, body, release, host, file, bundle, boot, faults>>
    BY <1>4 DEF Submit
  <2>2. decision' \in {"ALLOW", "DENY"}
    <3>1. evaluate_prepared(text).decision \in {"ALLOW", "DENY"}
      BY DEF evaluate_prepared, Verdict, HardBlocked
    <3> QED
      BY <2>1, <3>1
  <2>3. file = {} /\ bundle.artifact = {} /\ bundle.binding = {} /\ bundle.receiptSignature = Sign(0, {})
    BY <1>0, <2>1 DEF StageInv
  <2>4. <<>> \in Phrase /\ Len(<<>>) = 0
    BY DEF Phrase
  <2>5. TypeOK'
    BY <1>0, <2>1, <2>2, <2>4, PipelineAssumption DEF TypeOK, Stage
  <2>6. StageInv'
    BY <1>0, <2>1, <2>2 DEF StageInv
  <2>7. SealInv'
    BY <1>0, <2>1, <2>3 DEF SealInv
  <2>8. BoundIsGenuine'
    BY <2>1, <2>3 DEF BoundIsGenuine
  <2>9. HonestInv'
    BY <1>0, <2>1, <2>3 DEF HonestInv
  <2> QED
    BY <2>5, <2>6, <2>7, <2>8, <2>9 DEF PipelineInv
<1>5. CASE Post
  <2>1. /\ stage = "submitted" /\ stage' = "posted"
        /\ UNCHANGED <<manifest, text, decision, release, host, file, bundle, boot, faults>>
    BY <1>5 DEF Post
  <2>2. PICK b \in Body : body' = {b}
    BY <1>5 DEF Post
  <2>3. TypeOK'
    BY <1>0, <2>1, <2>2, SmallSets DEF TypeOK, Stage
  <2>4. StageInv'
    BY <1>0, <2>1 DEF StageInv
  <2> QED
    BY <2>1, <2>3, <2>4, PartsKept DEF PipelineInv
<1>6. CASE fromGuestJournal
  <2>1. /\ stage = "posted" /\ stage' \in {"gated", "refused"} /\ body' = {}
        /\ UNCHANGED <<manifest, text, decision, release, host, file, bundle, boot, faults>>
    BY <1>6 DEF fromGuestJournal
  <2>2. TypeOK'
    BY <1>0, <2>1, SmallSets DEF TypeOK, Stage
  <2>3. StageInv'
    BY <1>0, <2>1 DEF StageInv
  <2> QED
    BY <2>1, <2>2, <2>3, PartsKept DEF PipelineInv
<1>7. CASE ComputeReceiptSigned
  <2> DEFINE r == ComputeReceipt("ALLOW", file)
  <2>1. /\ stage \in {"gated", "generated", "settled"} /\ decision = "ALLOW" /\ boot = 1
        /\ bundle' = [bundle EXCEPT !.receipt = r, !.receiptSignature = Sign(boot, r)]
        /\ UNCHANGED <<stage, manifest, text, decision, body, release, host, file, boot, faults>>
    BY <1>7 DEF ComputeReceiptSigned
  <2>2. r \in ReceiptDoc /\ r.requestCommitment = "own" /\ r.zkReceiptDigest = file
    BY <1>0 DEF SealInv, ReceiptDoc, ComputeReceipt
  <2> HIDE DEF r
  <2>3. Sign(1, r) \in Signatures /\ Sign(1, r) # Sign(0, {})
    BY <2>2 DEF Signatures, Sign
  <2>4. /\ bundle' \in Bundles /\ bundle'.receipt = r /\ bundle'.receiptSignature = Sign(1, r)
        /\ bundle'.artifact = bundle.artifact /\ bundle'.decoded = bundle.decoded
        /\ bundle'.binding = bundle.binding
    <3>1. PICK sig \in Signatures : sig = Sign(1, r)
      BY <2>3
    <3>2. bundle' = [bundle EXCEPT !.receipt = r, !.receiptSignature = sig]
      BY <2>1, <3>1
    <3> QED
      BY <1>0, <2>2, <3>1, <3>2 DEF SealInv, Bundles
  <2>5. TypeOK'
    BY <1>0, <2>1 DEF TypeOK
  <2>6. StageInv'
    BY <1>0, <2>1, <2>4 DEF StageInv
  <2>7. Delivered' = Delivered /\ (\A x : Genuine(x)' <=> Genuine(x)) /\ (\A x : RealSeal(x)' <=> RealSeal(x))
    BY <2>1 DEF Delivered, Genuine, RealSeal
  <2>8. SealInv'
    BY <1>0, <2>1, <2>4, <2>7 DEF SealInv
  <2>9. BoundIsGenuine'
    BY <1>0, <2>4, <2>7 DEF BoundIsGenuine
  <2>10. HonestInv'
    BY <1>0, <2>1, <2>2, <2>4, <2>7 DEF HonestInv
  <2> QED
    BY <2>5, <2>6, <2>8, <2>9, <2>10 DEF PipelineInv
<1>8. CASE Generated
  <2>1. /\ stage = "gated" /\ stage' = "generated"
        /\ UNCHANGED <<manifest, text, decision, body, release, host, bundle, boot, faults>>
    BY <1>8 DEF Generated
  <2>2. PICK r \in Delivered : file' = {r}
    BY <1>8 DEF Generated
  <2>3. decision \in {"ALLOW", "DENY"} /\ file = {} /\ bundle.artifact = {}
    BY <1>0, <2>1 DEF StageInv
  <2>4. r \in ReceiptFile /\ RealSeal(r)
    BY <2>3, DeliveredShape
  <2>5. Delivered' = Delivered /\ (\A x : Genuine(x)' <=> Genuine(x)) /\ (\A x : RealSeal(x)' <=> RealSeal(x))
    BY <2>1 DEF Delivered, Genuine, RealSeal
  <2>6. TypeOK'
    <3>1. r.file \in FileField /\ r.journal \in JournalField
      BY <2>4 DEF ReceiptFile
    <3> QED
      BY <1>0, <2>1, <2>2, <3>1 DEF TypeOK, Stage
  <2>7. StageInv'
    BY <1>0, <2>1 DEF StageInv
  <2>8. SealInv'
    BY <1>0, <2>1, <2>2, <2>3, <2>4, <2>5 DEF SealInv
  <2>9. BoundIsGenuine'
    BY <1>0, <2>1, <2>5 DEF BoundIsGenuine
  <2>10. HonestInv'
    BY <1>0, <2>1, <2>2, <2>3, <2>5 DEF HonestInv
  <2> QED
    BY <2>6, <2>7, <2>8, <2>9, <2>10 DEF PipelineInv
<1>9. CASE Bind
  <2>1. stage = "generated" /\ UNCHANGED <<manifest, text, decision, body, release, host, file, boot, faults>>
    BY <1>9 DEF Bind
  <2>2. decision \in {"ALLOW", "DENY"} /\ boot = 1
    BY <1>0, <2>1 DEF StageInv, TypeOK
  <2>3. PICK r \in file :
          IF runReferenceVerify(release, r, host, GateExpectations)
          THEN LET p == ProofBinding(decision, r)
               IN  /\ stage' = "settled"
                   /\ bundle' = [bundle EXCEPT
                        !.artifact = file, !.decoded = {DecodedJournal(decision)},
                        !.binding = {[binding |-> p, signature |-> Sign(boot, p)]}]
          ELSE stage' = "failed" /\ UNCHANGED bundle
    BY <1>9 DEF Bind
  <2>4. CASE ~runReferenceVerify(release, r, host, GateExpectations)
    <3>1. stage' = "failed" /\ UNCHANGED bundle
      BY <2>3, <2>4
    <3>2. TypeOK'
      BY <1>0, <2>1, <3>1 DEF TypeOK, Stage
    <3>3. StageInv'
      BY <1>0, <2>1, <3>1 DEF StageInv
    <3> QED
      BY <2>1, <3>1, <3>2, <3>3, PartsKept DEF PipelineInv
  <2>5. CASE runReferenceVerify(release, r, host, GateExpectations)
    <3> DEFINE p == ProofBinding(decision, r)
               s == [binding |-> p, signature |-> Sign(1, p)]
               d == DecodedJournal(decision)
    <3>1. stage' = "settled" /\ bundle' = [bundle EXCEPT !.artifact = file, !.decoded = {d}, !.binding = {s}]
      BY <2>2, <2>3, <2>5
    <3>2. r \in ReceiptFile /\ RealSeal(r)
      BY <1>0 DEF SealInv
    <3>3. Genuine(r)
      <4>1. run_checks(release, r, host, GateExpectations) = None
        BY <2>5 DEF runReferenceVerify, prover_verify
      <4>2. /\ SealValid(r) /\ Meets(GateExpectations.commitment, r.journal.requestCommitment)
            /\ Meets(GateExpectations.proofNonce, r.journal.proofNonce)
        BY <4>1, RunChecks
      <4>3. GateExpectations.commitment = "own" /\ GateExpectations.proofNonce = "own"
        BY DEF GateExpectations
      <4> QED
        BY <2>2, <3>2, <4>2, <4>3, SealedForGate
    <3>4. d \in Claims /\ p \in BindingDoc /\ p.artifactDigest = r
      BY <2>2, <3>2 DEF DecodedJournal, Claims, ProofBinding, BindingDoc, zkArtifactDigest
    <3>5. s \in SignedBinding /\ s.binding = p
      <4> HIDE DEF p
      <4> QED
        BY <3>4 DEF SignedBinding, Sign
    <3>6. s = [binding |-> ProofBinding(decision, r), signature |-> Sign(1, ProofBinding(decision, r))]
          /\ d = DecodedJournal(decision)
      OBVIOUS
    <3> HIDE DEF s, d
    <3>7. /\ bundle' \in Bundles /\ bundle'.artifact = file /\ bundle'.decoded = {d}
          /\ bundle'.binding = {s} /\ bundle'.receipt = bundle.receipt
          /\ bundle'.receiptSignature = bundle.receiptSignature
      BY <1>0, <3>1, <3>4, <3>5 DEF SealInv, Bundles
    <3>8. Delivered' = Delivered /\ (\A x : Genuine(x)' <=> Genuine(x)) /\ (\A x : RealSeal(x)' <=> RealSeal(x))
      BY <2>1 DEF Delivered, Genuine, RealSeal
    <3>9. TypeOK'
      BY <1>0, <2>1, <3>1 DEF TypeOK, Stage
    <3>10. StageInv'
      BY <1>0, <2>1, <2>2, <3>1, <3>7 DEF StageInv
    <3>11. SealInv'
      BY <1>0, <2>1, <3>7, <3>8 DEF SealInv
    <3>12. BoundIsGenuine'
      BY <3>3, <3>4, <3>5, <3>7, <3>8 DEF BoundIsGenuine
    <3>13. HonestInv'
      <4>1. faults = 0 => /\ release = Manifest /\ host = GoodHost /\ \E x \in Delivered : file = {x}
                          /\ bundle.receiptSignature # Sign(0, {}) =>
                               /\ decision = "ALLOW" /\ bundle.receiptSignature = Sign(1, bundle.receipt)
                               /\ bundle.receipt.requestCommitment = "own"
                               /\ bundle.receipt.zkReceiptDigest \in {{}, file}
        BY <1>0 DEF HonestInv
      <4>2. faults = 0 => r \in Delivered /\ file = {r}
        BY <4>1
      <4>3. d' = DecodedJournal(decision') /\ bundle'.decoded = {DecodedJournal(decision')}
        BY <2>1, <3>6, <3>7 DEF d
      <4>4. faults = 0 => \E x \in Delivered' :
                  /\ file' = {x} /\ Genuine(x)'
                  /\ bundle'.binding = {[binding   |-> ProofBinding(decision', x),
                                         signature |-> Sign(1, ProofBinding(decision', x))]}
        BY <2>1, <3>3, <3>6, <3>7, <3>8, <4>2
      <4> QED
        BY <2>1, <3>7, <3>8, <4>1, <4>3, <4>4 DEF HonestInv
    <3> QED
      BY <3>9, <3>10, <3>11, <3>12, <3>13 DEF PipelineInv
  <2> QED
    BY <2>4, <2>5
<1>10. ASSUME Damaged
       PROVE  /\ UNCHANGED <<stage, manifest, text, decision, body, boot>>
              /\ faults' \in 0 .. MaxFaults /\ HonestInv'
              /\ (\A x : Genuine(x)' <=> Genuine(x)) /\ (\A x : RealSeal(x)' <=> RealSeal(x))
              /\ Delivered' = Delivered
  <2>1. UNCHANGED <<stage, manifest, text, decision, body, boot>> /\ faults' = faults + 1 /\ faults < MaxFaults
    BY <1>10 DEF Damaged
  <2>2. faults \in 0 .. MaxFaults
    BY <1>0 DEF TypeOK
  <2>3. faults' \in 0 .. MaxFaults /\ faults' # 0
    BY <2>1, <2>2, PipelineAssumption
  <2>4. HonestInv'
    BY <2>3 DEF HonestInv
  <2> QED
    BY <2>1, <2>3, <2>4 DEF Genuine, RealSeal, Delivered
<1>11. CASE DamageFile
  <2>1. stage = "generated" /\ Damaged /\ UNCHANGED <<release, host, bundle>>
    BY <1>11 DEF DamageFile
  <2>2. PICK r \in file : \/ \E f \in OneOff(FileField, r.file) : file' = {[r EXCEPT !.file = f]}
                          \/ \E j \in OneOff(JournalField, r.journal) : file' = {[r EXCEPT !.journal = j]}
    BY <1>11 DEF DamageFile
  <2>3. r \in ReceiptFile /\ RealSeal(r)
    BY <1>0 DEF SealInv
  <2>4. PICK x \in ReceiptFile : file' = {x} /\ x.sealed = r.sealed
    <3>1. ASSUME NEW f \in FileField
          PROVE  [r EXCEPT !.file = f] \in ReceiptFile /\ [r EXCEPT !.file = f].sealed = r.sealed
      BY <2>3 DEF ReceiptFile
    <3>2. ASSUME NEW j \in JournalField
          PROVE  [r EXCEPT !.journal = j] \in ReceiptFile /\ [r EXCEPT !.journal = j].sealed = r.sealed
      BY <2>3 DEF ReceiptFile
    <3> QED
      BY <2>2, <3>1, <3>2 DEF OneOff
  <2>5. RealSeal(x)
    BY <2>3, <2>4 DEF RealSeal
  <2>6. bundle.artifact = {}
    BY <1>0, <2>1 DEF StageInv
  <2>7. TypeOK'
    <3>1. x.file \in FileField /\ x.journal \in JournalField
      BY DEF ReceiptFile
    <3> QED
      BY <1>0, <1>10, <2>1, <2>4, <3>1 DEF TypeOK
  <2>8. StageInv'
    BY <1>0, <1>10, <2>1 DEF StageInv
  <2>9. SealInv'
    BY <1>0, <1>10, <2>1, <2>4, <2>5, <2>6 DEF SealInv
  <2>10. BoundIsGenuine'
    BY <1>0, <1>10, <2>1 DEF BoundIsGenuine
  <2> QED
    BY <1>10, <2>1, <2>7, <2>8, <2>9, <2>10 DEF PipelineInv
<1>12. CASE DamageRelease \/ DamageHost
  <2>1. Damaged /\ UNCHANGED <<file, bundle>>
    BY <1>12 DEF DamageRelease, DamageHost
  <2>2. release' \in ManifestField /\ host' \in HostField
    BY <1>0, <1>12 DEF DamageRelease, DamageHost, OneOff, TypeOK
  <2>3. TypeOK'
    BY <1>0, <1>10, <2>1, <2>2 DEF TypeOK
  <2>4. StageInv'
    BY <1>0, <1>10, <2>1 DEF StageInv
  <2>5. SealInv' /\ BoundIsGenuine'
    BY <1>0, <1>10, <2>1 DEF SealInv, BoundIsGenuine
  <2> QED
    BY <1>10, <2>1, <2>3, <2>4, <2>5 DEF PipelineInv
<1>13. CASE DamageBundle
  <2>1. stage = "settled" /\ Damaged /\ UNCHANGED <<release, host, file>>
    BY <1>13 DEF DamageBundle
  <2>2. decision \in {"ALLOW", "DENY"} /\ bundle \in Bundles /\ bundle.decoded # {}
    BY <1>0, <2>1 DEF StageInv, SealInv
  <2>3. /\ bundle' \in Bundles /\ bundle'.decoded # {}
        /\ bundle'.binding \subseteq bundle.binding
        /\ \A r \in bundle'.artifact : r \in bundle.artifact \/ r \in Delivered
    <3>1. ASSUME NEW r \in Delivered, bundle' = [bundle EXCEPT !.artifact = {r}]
          PROVE  <2>3!:
      <4>1. r \in ReceiptFile
        BY <2>2, DeliveredShape
      <4> QED
        BY <2>2, <3>1, <4>1 DEF Bundles
    <3>2. ASSUME NEW c \in {"own", "other"}, NEW n \in {"own", "other"}, NEW d \in {"ALLOW", "DENY"},
                 bundle' = [bundle EXCEPT !.decoded = {[commitment |-> c, decision |-> d, proofNonce |-> n]}]
          PROVE  <2>3!:
      <4> DEFINE x == [commitment |-> c, decision |-> d, proofNonce |-> n]
      <4>1. x \in Claims /\ bundle' = [bundle EXCEPT !.decoded = {x}]
        BY <3>2 DEF Claims
      <4> HIDE DEF x
      <4> QED
        BY <2>2, <4>1 DEF Bundles
    <3>3. CASE bundle' = [bundle EXCEPT !.binding = {}]
      BY <2>2, <3>3 DEF Bundles
    <3>4. CASE bundle' = [bundle EXCEPT !.artifact = {}]
      BY <2>2, <3>4 DEF Bundles
    <3>5. ASSUME NEW f \in {"requestCommitment", "version", "route"},
                 bundle' = [bundle EXCEPT !.receipt[f] = "other"]
          PROVE  <2>3!:
      <4> DEFINE x == [bundle.receipt EXCEPT ![f] = "other"]
      <4>1. x \in ReceiptDoc
        BY <2>2 DEF Bundles, ReceiptDoc
      <4>2. bundle' = [bundle EXCEPT !.receipt = x]
        BY <2>2, <3>5
      <4> HIDE DEF x
      <4> QED
        BY <2>2, <4>1, <4>2 DEF Bundles
    <3>6. CASE bundle' = [bundle EXCEPT !.words = {"prompt"}]
      BY <2>2, <3>6 DEF Bundles
    <3> QED
      BY <1>13, <3>1, <3>2, <3>3, <3>4, <3>5, <3>6 DEF DamageBundle
  <2>4. TypeOK'
    BY <1>0, <1>10, <2>1 DEF TypeOK
  <2>5. StageInv'
    BY <1>0, <1>10, <2>1, <2>3 DEF StageInv
  <2>6. SealInv'
    BY <1>0, <1>10, <2>1, <2>2, <2>3, DeliveredShape DEF SealInv
  <2>7. BoundIsGenuine'
    BY <1>0, <1>10, <2>1, <2>3 DEF BoundIsGenuine
  <2> QED
    BY <1>10, <2>1, <2>4, <2>5, <2>6, <2>7 DEF PipelineInv
<1>14. CASE EnclaveRestart
  <2>1. /\ boot' = 2 /\ stage \in {"gated", "generated", "settled"}
        /\ stage' = IF stage = "settled" THEN "settled" ELSE "failed"
        /\ UNCHANGED <<manifest, text, decision, body, release, host, file, bundle, faults>>
    BY <1>14 DEF EnclaveRestart
  <2>2. TypeOK'
    BY <1>0, <2>1 DEF TypeOK, Stage
  <2>3. StageInv'
    BY <1>0, <2>1 DEF StageInv
  <2> QED
    BY <2>1, <2>2, <2>3, PartsKept DEF PipelineInv
<1>15. CASE UNCHANGED vars
  <2>1. TypeOK' /\ StageInv'
    BY <1>0, <1>15 DEF vars, TypeOK, StageInv
  <2> QED
    BY <1>15, <2>1, PartsKept DEF vars, PipelineInv
<1> QED
  BY <1>1, <1>2, <1>3, <1>4, <1>5, <1>6, <1>7, <1>8, <1>9, <1>11, <1>12, <1>13, <1>14, <1>15 DEF Next

\* The service before its image is built.
LEMMA PipelineInit == Init => PipelineInv
<1> SUFFICES ASSUME Init
             PROVE  PipelineInv
  OBVIOUS
<1>1. Manifest \in ManifestField /\ GoodHost \in HostField
  BY DEF Manifest, ManifestField, GoodHost, HostField
<1>2. <<>> \in Phrase /\ Len(<<>>) = 0
  BY DEF Phrase
<1>3. TypeOK
  BY <1>1, <1>2, SmallSets, PipelineAssumption DEF Init, TypeOK, Stage
<1>4. /\ bundle.artifact = {} /\ bundle.decoded = {} /\ bundle.binding = {}
      /\ bundle.receiptSignature = Sign(0, {}) /\ bundle.receipt = ComputeReceipt("ALLOW", {})
  BY DEF Init, EmptyBundle
<1>5. bundle \in Bundles
  <2>1. ComputeReceipt("ALLOW", {}) \in ReceiptDoc
    BY DEF ComputeReceipt, ReceiptDoc
  <2>2. Sign(0, {}) \in Signatures
    BY DEF Signatures
  <2> QED
    BY <2>1, <2>2 DEF Init, EmptyBundle, Bundles
<1>6. StageInv
  BY <1>4 DEF Init, StageInv
<1>7. SealInv
  BY <1>4, <1>5 DEF Init, SealInv
<1>8. BoundIsGenuine /\ HonestInv
  BY <1>4 DEF Init, BoundIsGenuine, HonestInv
<1> QED
  BY <1>3, <1>6, <1>7, <1>8 DEF PipelineInv

\* The invariant holds in every state.
LEMMA PipelineInductive == Spec => []PipelineInv
BY PipelineInit, PipelineStep, PTL DEF Spec
-----------------------------------------------------------------------------
(* The theorems. *)

\* The state keeps its type, for every rules document, prompt length and number of faults.
THEOREM TypeCorrect == Spec => []TypeOK
<1>1. PipelineInv => TypeOK
  BY DEF PipelineInv
<1> QED
  BY <1>1, PipelineInductive, PTL

\* Whatever the daemon delivers and however often files, manifests and machines are damaged on the
\* way, the enclave signs a binding only for the receipt that the pinned image made about this
\* request, with the decision of the gate (tee-sim's prover.ts).
THEOREM BindingsAreGenuine == Spec => []BoundIsGenuine
<1>1. PipelineInv => BoundIsGenuine
  BY DEF PipelineInv
<1> QED
  BY <1>1, PipelineInductive, PTL

\* What verify-receipt accepts was made by the pinned image; the proof of a signed bundle, about
\* this request and with the decision of the gate (scripts/verify-receipt.ts).
THEOREM AcceptedGenuine == Spec => []AcceptedIsGenuine
<1>1. ASSUME PipelineInv
      PROVE  AcceptedIsGenuine
  <2>0. StageInv /\ SealInv /\ TypeOK
    BY <1>1 DEF PipelineInv
  <2>1. ASSUME NEW r \in file, verifyRawReceipt(release, r, host)
        PROVE  r.file.inner # "fake" /\ r.sealed = [claim |-> "pinned", journal |-> r.journal]
    <3>1. run_checks(release, r, host, NoExpectations) = None
      BY <2>1 DEF verifyRawReceipt, runProverVerify, prover_verify
    <3>2. SealValid(r)
      BY <3>1, RunChecks
    <3> QED
      BY <3>2 DEF SealValid
  <2>2. ASSUME stage = "settled",
               verifyCanonical(bundle.receipt, bundle.receiptSignature, boot),
               ScriptProof(release, bundle, host, boot), NEW r \in bundle.artifact
        PROVE  /\ r.file.inner # "fake" /\ r.sealed.claim = "pinned"
               /\ r.sealed.journal = r.journal
               /\ r.journal.requestCommitment = "own" /\ r.journal.decision = decision
    <3>1. bundle.receipt.requestCommitment = "own"
      <4>1. bundle.receiptSignature = Sign(boot, bundle.receipt) /\ boot \in {1, 2}
        BY <2>0, <2>2 DEF verifyCanonical, TypeOK
      <4>2. bundle.receiptSignature \in Signatures
        BY <2>0 DEF SealInv, Bundles
      <4>3. bundle.receiptSignature.by = boot /\ bundle.receiptSignature.over = bundle.receipt
        BY <4>1 DEF Sign
      <4>4. Sign(0, {}).by = 0
        BY DEF Sign
      <4> QED
        BY <4>1, <4>2, <4>3, <4>4 DEF Signatures
    <3>2. PICK d \in bundle.decoded : TRUE
      BY <2>0, <2>2 DEF StageInv
    <3>3. d \in Claims
      BY <2>0 DEF SealInv, Bundles
    <3> DEFINE e == [d EXCEPT !.commitment = bundle.receipt.requestCommitment]
    <3>4. e.commitment = "own"
      BY <3>1, <3>3 DEF Claims
    <3>5. verifyProofArtifact(release, r, host, e)
      BY <2>2, <3>2 DEF ScriptProof
    <3> HIDE DEF e
    <3>6. run_checks(release, r, host, e) = None
      BY <3>5 DEF verifyProofArtifact, runProverVerify, prover_verify
    <3>7. SealValid(r) /\ Meets(e.commitment, r.journal.requestCommitment)
      BY <3>6, RunChecks
    <3>8. r \in ReceiptFile /\ RealSeal(r) /\ decision \in {"ALLOW", "DENY"}
      BY <2>0, <2>2 DEF SealInv, Bundles, StageInv
    <3> QED
      BY <3>4, <3>7, <3>8, SealedForGate
  <2> QED
    BY <2>1, <2>2 DEF AcceptedIsGenuine
<1> QED
  BY <1>1, PipelineInductive, PTL

\* The TypeScript verifier accepts what the reference verifier accepts and decodes the same
\* journal; where it accepts more, it is over a check that it cannot make (packages/verify,
\* prover/verify).
THEOREM TwoVerifiersAgree == Spec => []VerifiersAgree
<1>1. ASSUME PipelineInv
      PROVE  VerifiersAgree
  <2> SUFFICES ASSUME NEW r \in file \cup bundle.artifact
               PROVE  LET rs == run_checks(release, r, host, GateExpectations)
                          ts == verifyReceipt(release, r, GateExpectations)
                      IN  /\ rs = None => ts = None /\ decodeJournal(r) = {r.journal}
                          /\ (ts = None /\ rs # None) =>
                               rs \in {"manifest", "receipt-decodes", "image-id", "seal", "rules-digest"}
    BY DEF VerifiersAgree
  <2> DEFINE rs == run_checks(release, r, host, GateExpectations)
             ts == verifyReceipt(release, r, GateExpectations)
  <2>1. release \in ManifestField
    BY <1>1 DEF PipelineInv, TypeOK
  <2>0. PICK mm : mm = [release EXCEPT !.journalVersion = VersionOrDefault(release)]
    OBVIOUS
  <2>2. mm.journalVersion = VersionOrDefault(release) /\ mm.manifestPolicy = release.manifestPolicy
    BY <2>0, <2>1 DEF ManifestField
  <2>3. ASSUME rs = None
        PROVE  ts = None /\ decodeJournal(r) = {r.journal}
    <3>1. check_manifest(release) /\ release.receiptCodec = "bincode-v1"
      BY <2>3, RunChecks
    <3>2. /\ release.imageIdHex # "malformed" /\ release.manifestPolicy # "malformed"
          /\ release.rulesDigest # "malformed" /\ release.journalVersion = "1"
          /\ VersionOrDefault(release) = "1" /\ release.receiptCodec # "other"
      BY <3>1 DEF check_manifest, VersionOrDefault
    <3>3. /\ r.file.frame = "intact" /\ r.file.trailing = "none" /\ SealValid(r)
          /\ r.journal.object = "yes" /\ r.journal.keys = "exact"
          /\ r.journal.protocolVersion = release.journalVersion
          /\ r.journal.decision \in {"ALLOW", "DENY"}
          /\ r.journal.requestCommitment # "malformed" /\ r.journal.proofNonce # "malformed"
          /\ r.journal.policyId # "malformed" /\ r.journal.policyId = release.manifestPolicy
          /\ Meets(GateExpectations.commitment, r.journal.requestCommitment)
          /\ Meets(GateExpectations.decision, r.journal.decision)
          /\ Meets(GateExpectations.proofNonce, r.journal.proofNonce)
      BY <2>3, RunChecks
    <3>4. frameJournal(r) /\ r.file.inner # "fake"
      BY <3>3 DEF frameJournal, SealValid
    <3>5. ts = None
      <4>1. r.journal.protocolVersion = mm.journalVersion /\ r.journal.policyId = mm.manifestPolicy
        BY <2>2, <3>2, <3>3
      <4>2. TsHolds(release, mm, r, GateExpectations)
        BY <3>2, <3>3, <3>4, <4>1 DEF TsHolds
      <4> QED
        BY <2>0, <4>2, TsChecks
    <3> QED
      BY <3>2, <3>3, <3>4, <3>5 DEF decodeJournal
  <2>4. ASSUME ts = None, rs # None,
               rs \notin {"manifest", "receipt-decodes", "image-id", "seal", "rules-digest"}
        PROVE  FALSE
    <3>1. /\ check_manifest(release)
          /\ ~(/\ release.receiptCodec = "bincode-v1" /\ r.journal.object = "yes"
               /\ r.journal.keys = "exact" /\ r.journal.protocolVersion = release.journalVersion
               /\ r.journal.decision \in {"ALLOW", "DENY"}
               /\ r.journal.requestCommitment # "malformed"
               /\ r.journal.proofNonce # "malformed"
               /\ r.journal.policyId # "malformed" /\ r.journal.policyId = release.manifestPolicy
               /\ Meets(GateExpectations.commitment, r.journal.requestCommitment)
               /\ Meets(GateExpectations.decision, r.journal.decision)
               /\ Meets(GateExpectations.proofNonce, r.journal.proofNonce))
      BY <2>4, RunChecks
    <3>2. /\ release.receiptCodec # "other" /\ r.journal.object = "yes"
          /\ r.journal.keys = "exact" /\ r.journal.protocolVersion = mm.journalVersion
          /\ r.journal.decision \in {"ALLOW", "DENY"}
          /\ r.journal.requestCommitment # "malformed"
          /\ r.journal.proofNonce # "malformed"
          /\ r.journal.policyId # "malformed" /\ r.journal.policyId = mm.manifestPolicy
          /\ Meets(GateExpectations.commitment, r.journal.requestCommitment)
          /\ Meets(GateExpectations.decision, r.journal.decision)
          /\ Meets(GateExpectations.proofNonce, r.journal.proofNonce)
      <4>1. TsHolds(release, mm, r, GateExpectations)
        BY <2>0, <2>4, TsChecks
      <4> QED
        BY ONLY <4>1 DEF TsHolds
    <3>3. release.receiptCodec = "bincode-v1" /\ release.journalVersion = VersionOrDefault(release)
      BY <2>1, <3>1, <3>2 DEF check_manifest, ManifestField, VersionOrDefault
    <3> QED
      BY <2>2, <3>1, <3>2, <3>3
  <2> QED
    BY <2>3, <2>4
<1> QED
  BY <1>1, PipelineInductive, PTL

\* A genuine receipt in a file that the daemon delivered, held against the good release on a good
\* machine, passes both verifiers.
LEMMA GenuinePasses ==
    ASSUME decision \in {"ALLOW", "DENY"}, NEW r \in Delivered, Genuine(r), NEW e,
           e.commitment = "own", e.decision = decision, e.proofNonce = "own"
    PROVE  run_checks(Manifest, r, GoodHost, e) = None /\ verifyReceipt(Manifest, r, e) = None
<1>1. r.journal = Journal(decision, "own", "own") /\ r.sealed = [claim |-> "pinned", journal |-> r.journal]
      /\ r.file.inner # "fake"
  BY DEF Genuine
<1>2. r.file.frame = "intact" /\ r.file.body = "intact" /\ r.file.trailing = "none" /\ r.file.claim = r.sealed.claim
  BY DEF Delivered, Receipt
<1>3. SealValid(r)
  BY <1>1, <1>2 DEF SealValid
<1>4. /\ r.journal.object = "yes" /\ r.journal.keys = "exact" /\ r.journal.protocolVersion = "1"
      /\ r.journal.decision = decision /\ r.journal.requestCommitment = "own"
      /\ r.journal.proofNonce = "own" /\ r.journal.policyId = "pinned"
  BY <1>1 DEF Journal
<1>5. /\ Meets(e.commitment, r.journal.requestCommitment) /\ Meets(e.decision, r.journal.decision)
      /\ Meets(e.proofNonce, r.journal.proofNonce)
  BY <1>4 DEF Meets
<1>6. check_manifest(Manifest) /\ check_rules_digest(Manifest, GoodHost.policyDir)
  BY DEF check_manifest, check_rules_digest, Manifest, GoodHost
<1>7. RsHolds(Manifest, r, GoodHost, e)
  BY <1>1, <1>2, <1>3, <1>4, <1>5, <1>6 DEF RsHolds, Manifest
<1>8. Manifest = [Manifest EXCEPT !.journalVersion = VersionOrDefault(Manifest)]
      /\ VersionOrDefault(Manifest) = "1"
  BY DEF Manifest, VersionOrDefault
<1>9. TsHolds(Manifest, Manifest, r, e)
  <2>1. frameJournal(r)
    BY <1>2, <1>4 DEF frameJournal
  <2> QED
    BY <1>1, <1>4, <1>5, <1>8, <2>1 DEF TsHolds, Manifest
<1> QED
  BY <1>7, <1>8, <1>9, RsAccepts, TsChecks

\* An undamaged bundle is accepted while the enclave that signed it lives, and rejected after a
\* restart; POST /verify accepts its proof in any case.
THEOREM HonestBundlesVerify == Spec => []HonestVerifies
<1>1. ASSUME PipelineInv
      PROVE  HonestVerifies
  <2> SUFFICES ASSUME Honest
               PROVE  /\ verifyComputeReceipt(bundle, boot) <=> boot = 1
                      /\ ScriptProof(release, bundle, host, boot) <=> boot = 1
                      /\ verifyEndpoint(release, bundle, host)
    BY DEF HonestVerifies
  <2>1. /\ stage = "settled" /\ release = Manifest /\ host = GoodHost /\ boot \in {1, 2}
        /\ decision = "ALLOW" /\ bundle.receiptSignature = Sign(1, bundle.receipt)
        /\ bundle.receipt.requestCommitment = "own"
        /\ bundle.receipt.zkReceiptDigest \in {{}, file}
        /\ bundle.artifact = file /\ bundle.decoded = {DecodedJournal(decision)}
    BY <1>1 DEF Honest, PipelineInv, HonestInv, TypeOK
  <2>2. PICK r \in Delivered :
          /\ file = {r} /\ Genuine(r)
          /\ bundle.binding = {[binding   |-> ProofBinding(decision, r),
                                signature |-> Sign(1, ProofBinding(decision, r))]}
    BY <1>1 DEF Honest, PipelineInv, HonestInv
  <2>3. bundle.receipt.decision = "ALLOW" /\ bundle.receipt.policyId = "pinned"
    BY <1>1 DEF PipelineInv, SealInv, Bundles, ReceiptDoc
  <2> DEFINE d == DecodedJournal(decision)
             p == ProofBinding(decision, r)
             s == [binding |-> p, signature |-> Sign(1, p)]
             f == [d EXCEPT !.commitment = bundle.receipt.requestCommitment]
  <2>4. d.commitment = "own" /\ d.decision = decision /\ d.proofNonce = "own" /\ f = d
    BY <2>1 DEF DecodedJournal
  <2>5. /\ p.decisionReceiptDigest # "" /\ p.artifactDigest = r /\ p.policyId = "pinned" /\ p.proofVerified /\ p.decision = decision
        /\ s.binding = p /\ s.signature = Sign(1, p)
    BY DEF ProofBinding, zkArtifactDigest
  <2>6. /\ bundle.binding = {s} /\ bundle.decoded = {d} /\ bundle.artifact = {r}
        /\ [d EXCEPT !.commitment = bundle.receipt.requestCommitment] = d
    BY <2>1, <2>2, <2>4
  <2> HIDE DEF d, p, s
  <2>7. \A c : verifyCanonical(c, Sign(1, c), boot) <=> boot = 1
    BY <2>1 DEF verifyCanonical, Sign
  <2>8. run_checks(release, r, host, d) = None /\ verifyReceipt(release, r, d) = None
    BY <2>1, <2>2, <2>4, GenuinePasses
  <2>9. host.release = "readable" /\ host.binary = "present"
    BY <2>1 DEF GoodHost
  <2>10. runReferenceVerify(release, r, host, d) /\ verifyProofArtifact(release, r, host, d)
    BY <2>8, <2>9 DEF runReferenceVerify, verifyProofArtifact, runProverVerify, prover_verify
  <2>11. verifyEndpoint(release, bundle, host)
    BY <2>6, <2>10 DEF verifyEndpoint
  <2>12. BindingAccepted(s, r, bundle.receipt.policyId, boot) <=> boot = 1
    BY <2>3, <2>5, <2>7 DEF BindingAccepted, zkArtifactDigest
  <2>13. ScriptProof(release, bundle, host, boot) <=> boot = 1
    BY <2>6, <2>9, <2>10, <2>12 DEF ScriptProof
  <2>14. verifyComputeReceipt(bundle, boot) <=> boot = 1
    <3>1. verifyCanonical(bundle.receipt, bundle.receiptSignature, boot) <=> boot = 1
      BY <2>1, <2>7
    <3>2. verifyCanonical(s.binding, s.signature, boot) <=> boot = 1
      BY <2>5, <2>7
    <3>3. bundle.receipt.zkReceiptDigest = {} \/ bundle.receipt.zkReceiptDigest = bundle.artifact
      BY <2>1
    <3>4. /\ \A x \in bundle.decoded : x.commitment = bundle.receipt.requestCommitment
          /\ \A x \in bundle.binding : x = s
          /\ s.binding.proofVerified /\ s.binding.policyId = bundle.receipt.policyId
          /\ s.binding.decisionReceiptDigest # ""
          /\ s.binding.decision = "ALLOW" /\ {s.binding.artifactDigest} = bundle.artifact
      BY <2>1, <2>3, <2>4, <2>5, <2>6
    <3> QED
      BY <2>3, <2>6, <3>1, <3>2, <3>3, <3>4 DEF verifyComputeReceipt
  <2> QED
    BY <2>11, <2>13, <2>14
<1> QED
  BY <1>1, PipelineInductive, PTL

(* The doors. *)

\* The answer of a list of three checks, spelled out.
LEMMA FirstOfThree ==
    ASSUME NEW t, DOMAIN t = 1 .. 3
    PROVE  FirstFailure(t) = IF ~t[1][2] THEN t[1][1] ELSE IF ~t[2][2] THEN t[2][1] ELSE IF ~t[3][2] THEN t[3][1] ELSE None
<1>1. PICK x : x = FirstFailure(t)
  OBVIOUS
<1>2. \/ x = None /\ \A i \in 1 .. 3 : ~(~t[i][2])
      \/ \E i \in 1 .. 3 : /\ x = t[i][1] /\ ~t[i][2]
                          /\ \A k \in 1 .. 3 : k < i => ~(~t[k][2])
  BY <1>1, 3 \in Nat, FirstFailureNames
<1> DEFINE b1 == t[1][2]
<1> DEFINE n1 == t[1][1]
<1> DEFINE b2 == t[2][2]
<1> DEFINE n2 == t[2][1]
<1> DEFINE b3 == t[3][2]
<1> DEFINE n3 == t[3][1]
<1>3. CASE x = None /\ \A i \in 1 .. 3 : ~(~t[i][2])
  <2>1. ~(~b1) /\ ~(~b2) /\ ~(~b3)
    BY <1>3
  <2> HIDE DEF b1, n1, b2, n2, b3, n3
  <2>2. x = IF ~b1 THEN n1 ELSE IF ~b2 THEN n2 ELSE IF ~b3 THEN n3 ELSE None
    BY <1>3, <2>1, Zenon
  <2> QED
    BY <1>1, <2>2, Zenon DEF b1, n1, b2, n2, b3, n3
<1>4. ASSUME NEW i \in 1 .. 3, x = t[i][1], ~t[i][2],
             \A k \in 1 .. 3 : k < i => ~(~t[k][2])
      PROVE  FirstFailure(t) = IF ~t[1][2] THEN t[1][1] ELSE IF ~t[2][2] THEN t[2][1] ELSE IF ~t[3][2] THEN t[3][1] ELSE None
  <2>0. i = 1 \/ i = 2 \/ i = 3
    OBVIOUS
  <2>1. CASE i = 1
    <3>1. ~b1 /\ x = n1
      BY <1>4, <2>1
    <3> HIDE DEF b1, n1, b2, n2, b3, n3
    <3>2. x = IF ~b1 THEN n1 ELSE IF ~b2 THEN n2 ELSE IF ~b3 THEN n3 ELSE None
      BY <3>1, Zenon
    <3> QED
      BY <1>1, <3>2, Zenon DEF b1, n1, b2, n2, b3, n3
  <2>2. CASE i = 2
    <3>1. ~(~b1) /\ ~b2 /\ x = n2
      BY <1>4, <2>2
    <3> HIDE DEF b1, n1, b2, n2, b3, n3
    <3>2. x = IF ~b1 THEN n1 ELSE IF ~b2 THEN n2 ELSE IF ~b3 THEN n3 ELSE None
      BY <3>1, Zenon
    <3> QED
      BY <1>1, <3>2, Zenon DEF b1, n1, b2, n2, b3, n3
  <2>3. CASE i = 3
    <3>1. ~(~b1) /\ ~(~b2) /\ ~b3 /\ x = n3
      BY <1>4, <2>3
    <3> HIDE DEF b1, n1, b2, n2, b3, n3
    <3>2. x = IF ~b1 THEN n1 ELSE IF ~b2 THEN n2 ELSE IF ~b3 THEN n3 ELSE None
      BY <3>1, Zenon
    <3> QED
      BY <1>1, <3>2, Zenon DEF b1, n1, b2, n2, b3, n3
  <2> QED
    BY <2>0, <2>1, <2>2, <2>3, Zenon
<1> QED
  BY <1>2, <1>3, <1>4, Zenon

\* The answer of a list of four checks, spelled out.
LEMMA FirstOfFour ==
    ASSUME NEW t, DOMAIN t = 1 .. 4
    PROVE  FirstFailure(t) = IF ~t[1][2] THEN t[1][1] ELSE IF ~t[2][2] THEN t[2][1] ELSE IF ~t[3][2] THEN t[3][1] ELSE IF ~t[4][2] THEN t[4][1] ELSE None
<1>1. PICK x : x = FirstFailure(t)
  OBVIOUS
<1>2. \/ x = None /\ \A i \in 1 .. 4 : ~(~t[i][2])
      \/ \E i \in 1 .. 4 : /\ x = t[i][1] /\ ~t[i][2]
                          /\ \A k \in 1 .. 4 : k < i => ~(~t[k][2])
  BY <1>1, 4 \in Nat, FirstFailureNames
<1> DEFINE b1 == t[1][2]
<1> DEFINE n1 == t[1][1]
<1> DEFINE b2 == t[2][2]
<1> DEFINE n2 == t[2][1]
<1> DEFINE b3 == t[3][2]
<1> DEFINE n3 == t[3][1]
<1> DEFINE b4 == t[4][2]
<1> DEFINE n4 == t[4][1]
<1>3. CASE x = None /\ \A i \in 1 .. 4 : ~(~t[i][2])
  <2>1. ~(~b1) /\ ~(~b2) /\ ~(~b3) /\ ~(~b4)
    BY <1>3
  <2> HIDE DEF b1, n1, b2, n2, b3, n3, b4, n4
  <2>2. x = IF ~b1 THEN n1 ELSE IF ~b2 THEN n2 ELSE IF ~b3 THEN n3 ELSE IF ~b4 THEN n4 ELSE None
    BY <1>3, <2>1, Zenon
  <2> QED
    BY <1>1, <2>2, Zenon DEF b1, n1, b2, n2, b3, n3, b4, n4
<1>4. ASSUME NEW i \in 1 .. 4, x = t[i][1], ~t[i][2],
             \A k \in 1 .. 4 : k < i => ~(~t[k][2])
      PROVE  FirstFailure(t) = IF ~t[1][2] THEN t[1][1] ELSE IF ~t[2][2] THEN t[2][1] ELSE IF ~t[3][2] THEN t[3][1] ELSE IF ~t[4][2] THEN t[4][1] ELSE None
  <2>0. i = 1 \/ i = 2 \/ i = 3 \/ i = 4
    OBVIOUS
  <2>1. CASE i = 1
    <3>1. ~b1 /\ x = n1
      BY <1>4, <2>1
    <3> HIDE DEF b1, n1, b2, n2, b3, n3, b4, n4
    <3>2. x = IF ~b1 THEN n1 ELSE IF ~b2 THEN n2 ELSE IF ~b3 THEN n3 ELSE IF ~b4 THEN n4 ELSE None
      BY <3>1, Zenon
    <3> QED
      BY <1>1, <3>2, Zenon DEF b1, n1, b2, n2, b3, n3, b4, n4
  <2>2. CASE i = 2
    <3>1. ~(~b1) /\ ~b2 /\ x = n2
      BY <1>4, <2>2
    <3> HIDE DEF b1, n1, b2, n2, b3, n3, b4, n4
    <3>2. x = IF ~b1 THEN n1 ELSE IF ~b2 THEN n2 ELSE IF ~b3 THEN n3 ELSE IF ~b4 THEN n4 ELSE None
      BY <3>1, Zenon
    <3> QED
      BY <1>1, <3>2, Zenon DEF b1, n1, b2, n2, b3, n3, b4, n4
  <2>3. CASE i = 3
    <3>1. ~(~b1) /\ ~(~b2) /\ ~b3 /\ x = n3
      BY <1>4, <2>3
    <3> HIDE DEF b1, n1, b2, n2, b3, n3, b4, n4
    <3>2. x = IF ~b1 THEN n1 ELSE IF ~b2 THEN n2 ELSE IF ~b3 THEN n3 ELSE IF ~b4 THEN n4 ELSE None
      BY <3>1, Zenon
    <3> QED
      BY <1>1, <3>2, Zenon DEF b1, n1, b2, n2, b3, n3, b4, n4
  <2>4. CASE i = 4
    <3>1. ~(~b1) /\ ~(~b2) /\ ~(~b3) /\ ~b4 /\ x = n4
      BY <1>4, <2>4
    <3> HIDE DEF b1, n1, b2, n2, b3, n3, b4, n4
    <3>2. x = IF ~b1 THEN n1 ELSE IF ~b2 THEN n2 ELSE IF ~b3 THEN n3 ELSE IF ~b4 THEN n4 ELSE None
      BY <3>1, Zenon
    <3> QED
      BY <1>1, <3>2, Zenon DEF b1, n1, b2, n2, b3, n3, b4, n4
  <2> QED
    BY <2>0, <2>1, <2>2, <2>3, <2>4, Zenon
<1> QED
  BY <1>2, <1>3, <1>4, Zenon

\* The daemon's early checks, in their order.
LEMMA ValidateIs ==
    ASSUME NEW b
    PROVE  validate(b) =
             IF ~(b.version = "1") THEN "version"
             ELSE IF ~(b.proofNonce # "malformed") THEN "proof nonce"
             ELSE IF ~parse_nonce(b) THEN "request nonce"
             ELSE IF ~(b.b64 = "ok") THEN "base64"
             ELSE None
<1>1. PICK b1 \in BOOLEAN : b1 = (b.version = "1")
  BY (b.version = "1") \in BOOLEAN, Zenon
<1>2. PICK b2 \in BOOLEAN : b2 = (b.proofNonce # "malformed")
  BY (b.proofNonce # "malformed") \in BOOLEAN, Zenon
<1>3. PICK b3 \in BOOLEAN : b3 = parse_nonce(b)
  BY parse_nonce(b) \in BOOLEAN, Zenon DEF parse_nonce
<1>4. PICK b4 \in BOOLEAN : b4 = (b.b64 = "ok")
  BY (b.b64 = "ok") \in BOOLEAN, Zenon
<1> DEFINE t == << <<"version", b1>>, <<"proof nonce", b2>>, <<"request nonce", b3>>, <<"base64", b4>> >>
<1>5. validate(b) = FirstFailure(t)
  BY <1>1, <1>2, <1>3, <1>4, Zenon DEF validate
<1>6. /\ DOMAIN t = 1 .. 4
      /\ t[1][1] = "version" /\ t[1][2] = b1
      /\ t[2][1] = "proof nonce" /\ t[2][2] = b2
      /\ t[3][1] = "request nonce" /\ t[3][2] = b3
      /\ t[4][1] = "base64" /\ t[4][2] = b4
  OBVIOUS
<1> HIDE DEF t
<1>7. FirstFailure(t) = IF ~b1 THEN "version" ELSE IF ~b2 THEN "proof nonce" ELSE IF ~b3 THEN "request nonce" ELSE IF ~b4 THEN "base64" ELSE None
  BY <1>6, FirstOfFour, Zenon
<1> QED
  BY <1>1, <1>2, <1>3, <1>4, <1>5, <1>7, Zenon

\* Why the guest rejects a frame, and why the line reader rejects a line.
GuestRejection(b) ==
    FirstFailure(<< <<"version", b.version = "1">>,
                    <<"proof nonce", b.proofNonce # "malformed">>,
                    <<from_json_bytes(b), from_json_bytes(b) = None>> >>)

StdinRejection(b) ==
    FirstFailure(<< <<"line", b.form \notin {"not json", "schema"}>>,
                    <<"base64", b.b64 = "ok">>,
                    <<"request nonce", parse_nonce_stdin(b)>> >>)

\* The guest's checks, in their order.
LEMMA GuestIs ==
    ASSUME NEW b
    PROVE  GuestRejection(b) =
             IF ~(b.version = "1") THEN "version"
             ELSE IF ~(b.proofNonce # "malformed") THEN "proof nonce"
             ELSE IF ~(from_json_bytes(b) = None) THEN from_json_bytes(b)
             ELSE None
<1>1. PICK b1 \in BOOLEAN : b1 = (b.version = "1")
  BY (b.version = "1") \in BOOLEAN, Zenon
<1>2. PICK b2 \in BOOLEAN : b2 = (b.proofNonce # "malformed")
  BY (b.proofNonce # "malformed") \in BOOLEAN, Zenon
<1>3. PICK b3 \in BOOLEAN : b3 = (from_json_bytes(b) = None)
  BY (from_json_bytes(b) = None) \in BOOLEAN, Zenon
<1> DEFINE t == << <<"version", b1>>, <<"proof nonce", b2>>, <<from_json_bytes(b), b3>> >>
<1>4. GuestRejection(b) = FirstFailure(t)
  BY <1>1, <1>2, <1>3, Zenon DEF GuestRejection
<1>5. /\ DOMAIN t = 1 .. 3
      /\ t[1][1] = "version" /\ t[1][2] = b1
      /\ t[2][1] = "proof nonce" /\ t[2][2] = b2
      /\ t[3][1] = from_json_bytes(b) /\ t[3][2] = b3
  OBVIOUS
<1> HIDE DEF t
<1>6. FirstFailure(t) = IF ~b1 THEN "version" ELSE IF ~b2 THEN "proof nonce" ELSE IF ~b3 THEN from_json_bytes(b) ELSE None
  BY <1>5, FirstOfThree, Zenon
<1> QED
  BY <1>1, <1>2, <1>3, <1>4, <1>6, Zenon

\* What --execute-stdin checks of a line before it runs the guest.
LEMMA StdinIs ==
    ASSUME NEW b
    PROVE  StdinRejection(b) =
             IF ~(b.form \notin {"not json", "schema"}) THEN "line"
             ELSE IF ~(b.b64 = "ok") THEN "base64"
             ELSE IF ~parse_nonce_stdin(b) THEN "request nonce"
             ELSE None
<1>1. PICK b1 \in BOOLEAN : b1 = (b.form \notin {"not json", "schema"})
  BY (b.form \notin {"not json", "schema"}) \in BOOLEAN, Zenon
<1>2. PICK b2 \in BOOLEAN : b2 = (b.b64 = "ok")
  BY (b.b64 = "ok") \in BOOLEAN, Zenon
<1>3. PICK b3 \in BOOLEAN : b3 = parse_nonce_stdin(b)
  BY parse_nonce_stdin(b) \in BOOLEAN, Zenon DEF parse_nonce_stdin
<1> DEFINE t == << <<"line", b1>>, <<"base64", b2>>, <<"request nonce", b3>> >>
<1>4. StdinRejection(b) = FirstFailure(t)
  BY <1>1, <1>2, <1>3, Zenon DEF StdinRejection
<1>5. /\ DOMAIN t = 1 .. 3
      /\ t[1][1] = "line" /\ t[1][2] = b1
      /\ t[2][1] = "base64" /\ t[2][2] = b2
      /\ t[3][1] = "request nonce" /\ t[3][2] = b3
  OBVIOUS
<1> HIDE DEF t
<1>6. FirstFailure(t) = IF ~b1 THEN "line" ELSE IF ~b2 THEN "base64" ELSE IF ~b3 THEN "request nonce" ELSE None
  BY <1>5, FirstOfThree, Zenon
<1> QED
  BY <1>1, <1>2, <1>3, <1>4, <1>6, Zenon

\* The three doors answer alike, on every body.
LEMMA DoorsAnswerAlike ==
    ASSUME NEW b \in Body, NEW verdict
    PROVE  LET e == execute(b, verdict)
               s == handle_stdin(b, verdict)
               p == prove(b, verdict)
           IN  /\ e.journal = p.journal
               /\ (b.form = "json" /\ b.requestNonce \notin {"own +", "other +"}) =>
                    s.journal = e.journal
               /\ (e.journal # {} /\ s.journal = {}) => s.reason = "request nonce"
               /\ (b.form = "json" /\ b.b64 = "ok" /\ b.requestNonce \in {"own", "other"}
                    /\ b.executor = "ok") => e.reason = s.reason
               /\ \A j \in e.journal \cup s.journal \cup p.journal : j.proofNonce # "malformed"
<1> DEFINE e == execute(b, verdict)
           s == handle_stdin(b, verdict)
           p == prove(b, verdict)
           j == Journal(verdict, request_commitment(b), b.proofNonce)
           runs == /\ b.executor = "ok" /\ b.version = "1" /\ b.proofNonce # "malformed"
                   /\ from_json_bytes(b) = None
<1>1. \A emit : /\ execute_frame_with(b, emit, verdict).journal = IF runs THEN {j} ELSE {}
                /\ execute_frame_with(b, emit, verdict).reason = None <=> runs
                /\ b.executor = "ok" =>
                     execute_frame_with(b, emit, verdict).reason = GuestRejection(b)
                /\ runs => execute_frame_with(b, emit, verdict).scores = emit
  <2> SUFFICES ASSUME NEW emit
               PROVE  /\ execute_frame_with(b, emit, verdict).journal = IF runs THEN {j} ELSE {}
                      /\ execute_frame_with(b, emit, verdict).reason = None <=> runs
                      /\ b.executor = "ok" =>
                           execute_frame_with(b, emit, verdict).reason = GuestRejection(b)
                      /\ runs => execute_frame_with(b, emit, verdict).scores = emit
    OBVIOUS
  <2>1. Guest(b, emit, verdict) = [reason |-> GuestRejection(b), scores |-> emit,
                                   journal |-> IF GuestRejection(b) # None THEN {} ELSE {j}]
    BY DEF Guest, GuestRejection
  <2>2. GuestRejection(b) = None <=>
          b.version = "1" /\ b.proofNonce # "malformed" /\ from_json_bytes(b) = None
    BY GuestIs DEF None
  <2>3. b.executor \in {"ok", "fails"}
    BY DEF Body
  <2> HIDE DEF j
  <2>4. CASE b.executor = "fails"
    BY <2>4 DEF execute_frame_with, None
  <2>5. CASE b.executor = "ok"
    <3>1. execute_frame_with(b, emit, verdict) = Guest(b, emit, verdict)
      BY <2>5 DEF execute_frame_with
    <3> QED
      BY <2>1, <2>2, <2>5, <3>1
  <2> QED
    BY <2>3, <2>4, <2>5
<1>2. j.keys = "exact" /\ j.object = "yes" /\ j.proofNonce = b.proofNonce
  BY DEF Journal
<1> HIDE DEF j
<1>3. validate(b) = None <=> /\ b.version = "1" /\ b.proofNonce # "malformed"
                             /\ parse_nonce(b) /\ b.b64 = "ok"
  BY ValidateIs DEF None
<1>4. StdinRejection(b) = None <=> /\ b.form \notin {"not json", "schema"} /\ b.b64 = "ok"
                                   /\ parse_nonce_stdin(b)
  BY StdinIs DEF None
<1>5. \A status, reason : Refuse(status, reason).journal = {} /\ Refuse(status, reason).reason = reason
  BY DEF Refuse
<1>6. p.journal = IF b.form = "json" /\ validate(b) = None /\ runs THEN {j} ELSE {}
  <2>1. execute_frame_with(b, FALSE, verdict).journal = IF runs THEN {j} ELSE {}
    BY <1>1
  <2> HIDE DEF runs
  <2>2. CASE b.form # "json"
    BY <1>5, <2>2, ZenonT(60) DEF prove
  <2>3. CASE b.form = "json" /\ validate(b) # None
    BY <1>5, <2>3 DEF prove
  <2>4. CASE b.form = "json" /\ validate(b) = None
    BY <2>1, <2>4 DEF prove
  <2> QED
    BY <2>2, <2>3, <2>4
<1>7. /\ e.journal = IF b.form = "json" /\ validate(b) = None /\ runs THEN {j} ELSE {}
      /\ b.form = "json" /\ validate(b) # None => e.reason = validate(b)
      /\ b.form = "json" /\ validate(b) = None /\ b.executor = "ok" => e.reason = GuestRejection(b)
  <2> DEFINE out == execute_frame_with(b, b.scores, verdict)
  <2>1. /\ out.journal = (IF runs THEN {j} ELSE {})
        /\ out.reason = None <=> runs
        /\ b.executor = "ok" => out.reason = GuestRejection(b)
        /\ runs => out.scores = b.scores
    BY <1>1
  <2>2. runs => shape_response(out, b.scores).journal = out.journal /\ shape_response(out, b.scores).reason = None
    BY <1>2, <2>1 DEF shape_response
  <2>3. e = CASE b.form # "json"           -> Refuse(400, json_rejection(b))
              [] b.form = "json" /\ validate(b) # None -> Refuse(400, validate(b))
              [] b.form = "json" /\ validate(b) = None /\ out.reason # None ->
                   Refuse(IF out.reason = "unclassified" THEN 500 ELSE 400, out.reason)
              [] OTHER                     -> shape_response(out, b.scores)
    BY DEF execute
  <2> HIDE DEF out, e
  <2>4. CASE b.form # "json"
    BY <1>5, <2>3, <2>4
  <2>5. CASE b.form = "json" /\ validate(b) # None
    BY <1>5, <2>3, <2>5
  <2>6. CASE b.form = "json" /\ validate(b) = None /\ ~runs
    <3>1. PICK status : e = Refuse(status, out.reason)
      BY <2>1, <2>3, <2>6
    <3> QED
      BY <1>5, <2>1, <2>6, <3>1
  <2>7. CASE b.form = "json" /\ validate(b) = None /\ runs
    BY <2>1, <2>2, <2>3, <2>7
  <2> QED
    BY <2>4, <2>5, <2>6, <2>7
<1>8. /\ s.journal = IF StdinRejection(b) = None /\ runs THEN {j} ELSE {}
      /\ StdinRejection(b) = None /\ b.executor = "ok" => s.reason = GuestRejection(b)
      /\ StdinRejection(b) # None => s.reason = StdinRejection(b)
  <2> DEFINE out == execute_frame_with(b, b.scores, verdict)
  <2>1. /\ out.journal = (IF runs THEN {j} ELSE {})
        /\ out.reason = None <=> runs
        /\ b.executor = "ok" => out.reason = GuestRejection(b)
    BY <1>1
  <2>2. s = CASE StdinRejection(b) # None -> Refuse(0, StdinRejection(b))
              [] StdinRejection(b) = None /\ out.reason # None -> Refuse(0, out.reason)
              [] OTHER -> [status |-> 0, reason |-> None, journal |-> out.journal, scores |-> out.scores]
    BY DEF handle_stdin, StdinRejection
  <2> HIDE DEF out, s
  <2>3. CASE StdinRejection(b) # None
    BY <1>5, <2>2, <2>3
  <2>4. CASE StdinRejection(b) = None /\ ~runs
    BY <1>5, <2>1, <2>2, <2>4
  <2>5. CASE StdinRejection(b) = None /\ runs
    BY <2>1, <2>2, <2>5
  <2> QED
    BY <2>3, <2>4, <2>5
<1> HIDE DEF e, s, p
<1>9. (b.form = "json" /\ b.b64 = "ok" /\ b.requestNonce \in {"own", "other"} /\ b.executor = "ok")
        => e.reason = s.reason
  <2> SUFFICES ASSUME b.form = "json", b.b64 = "ok", b.requestNonce \in {"own", "other"}, b.executor = "ok"
               PROVE  e.reason = s.reason
    OBVIOUS
  <2>0. parse_nonce(b) /\ parse_nonce_stdin(b)
    BY DEF parse_nonce, parse_nonce_stdin
  <2>1. s.reason = GuestRejection(b)
    BY <1>4, <1>8, <2>0
  <2>2. CASE validate(b) = None
    BY <1>7, <2>1, <2>2
  <2>3. CASE validate(b) # None
    <3>1. validate(b) = GuestRejection(b)
      BY <1>3, <2>0, <2>3, ValidateIs, GuestIs
    <3> QED
      BY <1>7, <2>1, <2>3, <3>1
  <2> QED
    BY <2>2, <2>3
<1>10. (b.form = "json" /\ b.requestNonce \notin {"own +", "other +"}) => s.journal = e.journal
  <2> SUFFICES ASSUME b.form = "json", b.requestNonce \notin {"own +", "other +"}
               PROVE  s.journal = e.journal
    OBVIOUS
  <2>1. parse_nonce(b) <=> parse_nonce_stdin(b)
    BY DEF parse_nonce, parse_nonce_stdin, Body
  <2>2. runs => (validate(b) = None <=> StdinRejection(b) = None)
    BY <1>3, <1>4, <2>1
  <2> HIDE DEF runs
  <2> QED
    BY <1>7, <1>8, <2>2
<1>11. e.journal = p.journal
  BY <1>6, <1>7
<1>13. (e.journal # {} /\ s.journal = {}) => s.reason = "request nonce"
  <2> SUFFICES ASSUME e.journal # {}, s.journal = {} PROVE s.reason = "request nonce"
    OBVIOUS
  <2>1. b.form = "json" /\ validate(b) = None /\ runs
    BY <1>7
  <2>2. StdinRejection(b) # None
    BY <1>8, <2>1
  <2>3. StdinRejection(b) = "request nonce"
    BY <1>3, <2>1, <2>2, StdinIs
  <2> QED
    BY <1>8, <2>2, <2>3
<1>12. \A x \in e.journal \cup s.journal \cup p.journal : x.proofNonce # "malformed"
  BY <1>2, <1>6, <1>7, <1>8
<1> QED
  BY <1>9, <1>10, <1>11, <1>12, <1>13 DEF e, s, p

\* DoorsAgree: POST /execute and POST /prove (server.rs) have one verdict on
\* every body, and --execute-stdin (main.rs) has it too unless the request nonce
\* has a digit pair with a sign, which its stricter parse_nonce refuses.
THEOREM DaemonDoorsAgree == Spec => []DoorsAgree
<1>1. ASSUME PipelineInv
      PROVE  DoorsAgree
  <2>1. body \in SUBSET Body
    BY <1>1 DEF PipelineInv, TypeOK
  <2> QED
    BY <2>1, DoorsAnswerAlike DEF DoorsAgree
<1> QED
  BY <1>1, PipelineInductive, PTL

\* A portable value has one canonical form: String() of a safe integer is the integer.
LEMMA PortableValues ==
    ASSUME NEW v \in Value, Portable(v)
    PROVE  CanonicalJs(v) = CanonicalRs(v)
<1>1. v.kind \in {"int", "nfc", "nfd"} /\ (v.kind = "int" => v.n \in Nat /\ v.n <= SAFE_INTEGER)
  BY PolicyAssumption DEF Value, Portable
<1>2. CASE v.kind = "int"
  BY <1>1, <1>2, PolicyAssumption DEF CanonicalJs, CanonicalRs
<1>3. CASE v.kind # "int"
  BY <1>1, <1>3 DEF CanonicalJs, CanonicalRs
<1> QED
  BY <1>2, <1>3

\* The first two of three.
LEMMA FirstTwo ==
    ASSUME NEW x, NEW y, NEW z
    PROVE  SubSeq(<<x, y, z>>, 1, 2) = <<x, y>>
<1> DEFINE S == {x, y, z}
<1>1. x \in S /\ y \in S /\ z \in S
  OBVIOUS
<1> HIDE DEF S
<1> DEFINE t == <<x, y, z>>
<1> DEFINE u == <<x, y>>
<1>2. t[1] = x /\ t[2] = y
  OBVIOUS
<1>3. u \in Seq(S) /\ Len(u) = 2 /\ u[1] = x /\ u[2] = y
  BY <1>1
<1> HIDE DEF t, u
<1>4. \A i \in 1 .. 2 : t[i] \in S
  BY <1>1, <1>2
<1>5. /\ SubSeq(t, 1, 2) \in Seq(S)
      /\ Len(SubSeq(t, 1, 2)) = IF 1 <= 2 THEN 2 - 1 + 1 ELSE 0
      /\ \A i \in 1 .. 2 - 1 + 1 : SubSeq(t, 1, 2)[i] = t[1 + i - 1]
  BY ONLY <1>4, 1 \in Int, 2 \in Int, SubSeqProperties
<1> DEFINE v == SubSeq(t, 1, 2)
<1>6. v \in Seq(S) /\ Len(v) = 2 /\ \A i \in 1 .. 2 : v[i] = t[1 + i - 1]
  BY <1>5
<1> HIDE DEF v
<1>7. v[1] = x /\ v[2] = y
  BY <1>2, <1>6
<1>8. v = u
  <2>1. Len(v) = Len(u) /\ \A i \in 1 .. Len(v) : v[i] = u[i]
    BY <1>3, <1>6, <1>7
  <2> QED
    BY <1>3, <1>6, <2>1, SeqEqual
<1> QED
  BY <1>8 DEF t, u, v

\* The build of the guest hashes the manifest bytes that the TypeScript package hashes, whenever it
\* does not refuse the manifest, for every range of safe integers (build.rs, canonical.ts).
THEOREM PolicyIdentitiesAgree == Spec => []IdentitiesAgree
<1>1. ASSUME NEW m \in Manifests
      PROVE  policy_identity(m) \subseteq {SubSeq(loadPolicyPackage(m), 1, 2)}
  <2>1. CASE ~(\A k \in DOMAIN m : Portable(m[k]))
    BY <2>1 DEF policy_identity
  <2>2. CASE \A k \in DOMAIN m : Portable(m[k])
    <3>1. ASSUME NEW k \in DOMAIN m
          PROVE  CanonicalJs(m[k]) = CanonicalRs(m[k])
      <4>1. m[k] \in Value /\ Portable(m[k])
        BY <2>2 DEF Manifests
      <4> QED
        BY <4>1, PortableValues
    <3>2. Entries(m, Utf16Rank, CanonicalRs) = canonical(m)
      BY <3>1 DEF canonical, Entries
    <3> DEFINE c == canonical(m)
    <3>3. SubSeq(<<c, "rules", "guest image id">>, 1, 2) = <<c, "rules">>
      <4> HIDE DEF c
      <4> QED
        BY FirstTwo, Zenon
    <3> QED
      BY <2>2, <3>2, <3>3 DEF policy_identity, loadPolicyPackage
  <2> QED
    BY <2>1, <2>2
<1>2. ASSUME PipelineInv
      PROVE  IdentitiesAgree
  <2>1. manifest \in SUBSET Manifests
    BY <1>2 DEF PipelineInv, TypeOK
  <2> QED
    BY <1>1, <2>1 DEF IdentitiesAgree
<1> QED
  BY <1>2, PipelineInductive, PTL

(* The policy engine's texts.  Recursion over a list, and the enclave's walk *)
(* over the characters of a text.                                          *)

\* Induction, for a set of naturals.
LEMMA NatInd ==
  ASSUME NEW T, 0 \in T, \A n \in Nat : n \in T => n + 1 \in T
  PROVE  \A n \in Nat : n \in T
<1> DEFINE R == {ss \in Nat \X Nat : ss[1] < ss[2]}
           U == Nat \ T
<1> SUFFICES ASSUME U # {} PROVE FALSE
  OBVIOUS
<1>1. IsWellFoundedOn(R, Nat)
  BY NatLessThanWellFounded DEF OpToRel
<1>2. PICK i \in U : \A j \in U : <<j, i>> \notin R
  BY <1>1, WFMin
<1>3. i \in Nat /\ i # 0 /\ i - 1 \in Nat
  OBVIOUS
<1>4. i - 1 \notin U
  <2>1. <<i - 1, i>> \in R
    BY <1>3
  <2> QED
    BY <1>2, <2>1
<1> QED
  BY <1>3, <1>4

\* f goes from its first value by the steps.
Unfolds(f, n, a, step) == f[0] = a /\ \A k \in 1..n : f[k] = step[<<k, f[k - 1]>>]

\* A function defined by its first value and by the step from one value to the next.
LEMMA Recursion ==
  ASSUME NEW n \in Nat, NEW A, NEW a \in A, NEW step \in [(1..n) \X A -> A]
  PROVE  \E f \in [0..n -> A] : Unfolds(f, n, a, step)
<1> DEFINE Good(m, f) == f[0] = a /\ \A k \in 1..m : f[k] = step[<<k, f[k - 1]>>]
           T == {m \in Nat : m <= n => \E f \in [0..m -> A] : Good(m, f)}
<1>1. 0 \in T
  <2>1. [i \in 0..0 |-> a] \in [0..0 -> A] /\ Good(0, [i \in 0..0 |-> a])
    OBVIOUS
  <2> QED
    BY <2>1
<1>2. ASSUME NEW m \in Nat, m \in T
      PROVE  m + 1 \in T
  <2> SUFFICES ASSUME m + 1 <= n
               PROVE  \E f \in [0..m + 1 -> A] : Good(m + 1, f)
    OBVIOUS
  <2>1. PICK f \in [0..m -> A] : Good(m, f)
    BY <1>2
  <2> DEFINE v == step[<<m + 1, f[m]>>]
             g == [i \in 0..m + 1 |-> IF i <= m THEN f[i] ELSE v]
  <2>2. v \in A
    OBVIOUS
  <2>3. g \in [0..m + 1 -> A]
    BY <2>2
  <2>4. g[m + 1] = v /\ \A i \in 0..m : g[i] = f[i]
    OBVIOUS
  <2> HIDE DEF g
  <2>5. \A k \in 1..m + 1 : g[k] = step[<<k, g[k - 1]>>]
    <3> SUFFICES ASSUME NEW k \in 1..m + 1 PROVE g[k] = step[<<k, g[k - 1]>>]
      OBVIOUS
    <3>1. CASE k = m + 1
      BY <2>4, <3>1
    <3>2. CASE k \in 1..m
      BY <2>1, <2>4, <3>2
    <3> QED
      BY <3>1, <3>2
  <2> QED
    BY <2>1, <2>3, <2>4, <2>5
<1>3. n \in T
  <2> HIDE DEF T
  <2> QED
    BY <1>1, <1>2, NatInd
<1> QED
  BY <1>3 DEF Unfolds


\* A text of one character.
LEMMA Single ==
  ASSUME NEW S, NEW x \in S
  PROVE  <<x>> \in Seq(S) /\ Len(<<x>>) = 1 /\ <<x>>[1] = x /\ <<x>> # <<>>
OBVIOUS

\* What the walk carries along.
Acc == [out : Phrase, pending : BOOLEAN]

\* Where the walk begins.
Start == [out |-> <<>>, pending |-> FALSE]

\* A step of the walk keeps its type.
LEMMA WalkType ==
  ASSUME NEW acc \in Acc, NEW c \in Char
  PROVE  Walk(acc, c) \in Acc /\ FoldCase(c) \in Char /\ fold_leet(c) \in Char
<1> DEFINE d == fold_leet(c)
           gap == IF acc.pending /\ acc.out # <<>> THEN <<" ">> ELSE <<>>
           more == acc.out \o gap \o <<d>>
<1>1. d \in Char /\ FoldCase(c) \in Char
  BY DEF fold_leet, FoldCase, Char
<1>2. acc.out \in Seq(Char) /\ gap \in Seq(Char) /\ <<d>> \in Seq(Char) /\ acc.pending \in BOOLEAN
  <2>1. acc.out \in Seq(Char) /\ acc.pending \in BOOLEAN
    BY DEF Acc, Phrase
  <2>2. " " \in Char
    BY DEF Char
  <2>3. <<>> \in Seq(Char) /\ <<" ">> \in Seq(Char) /\ <<d>> \in Seq(Char)
    <3> HIDE DEF d
    <3> QED
      BY <1>1, <2>2, Single, EmptySeq
  <2> QED
    BY <2>1, <2>3
<1>3. more \in Seq(Char)
  BY <1>2, ConcatProperties
<1>4. \/ Walk(acc, c) = acc
      \/ Walk(acc, c) = [acc EXCEPT !.pending = TRUE]
      \/ Walk(acc, c) = [out |-> more, pending |-> FALSE]
  BY DEF Walk
<1> HIDE DEF more
<1>5. [acc EXCEPT !.pending = TRUE] \in Acc /\ [out |-> more, pending |-> FALSE] \in Acc
  BY <1>3 DEF Acc, Phrase
<1> QED
  BY <1>1, <1>4, <1>5

\* w is the walk over the folded text f.
Walks(w, f) ==
  /\ w[0] = Start
  /\ \A k \in 1 .. Len(f) : w[k - 1] \in Acc /\ w[k] \in Acc /\ w[k] = Walk(w[k - 1], f[k])

\* normalize_rs is where a walk ends.
LEMMA WalkIs ==
  ASSUME NEW t, Folded(t) \in Phrase
  PROVE  \E w : Walks(w, Folded(t)) /\ normalize_rs(t) = w[Len(Folded(t))].out
<1> DEFINE folded == Folded(t)
           n == Len(folded)
           Is(h) == h = [k \in 0 .. Len(folded) |->
                           IF k = 0 THEN [out |-> <<>>, pending |-> FALSE]
                           ELSE Walk(h[k - 1], folded[k])]
           iter == CHOOSE h : Is(h)
           step == [x \in (1 .. n) \X Acc |-> Walk(x[2], folded[x[1]])]
<1>1. n \in Nat /\ folded \in [1 .. n -> Char] /\ Len(folded) = n
  BY DEF Phrase
<1>2. normalize_rs(t) = iter[n].out
  BY DEF normalize_rs
<1>3. step \in [(1 .. n) \X Acc -> Acc] /\ Start \in Acc
  <2>1. \A x \in (1 .. n) \X Acc : x[2] \in Acc /\ folded[x[1]] \in Char
    BY <1>1
  <2>2. \A x \in (1 .. n) \X Acc : Walk(x[2], folded[x[1]]) \in Acc
    <3> HIDE DEF folded
    <3> QED
      BY <2>1, WalkType
  <2>3. Start \in Acc
    BY DEF Start, Acc, Phrase
  <2> QED
    BY <2>2, <2>3
<1> HIDE DEF folded
<1>4. PICK f \in [0 .. n -> Acc] : Unfolds(f, n, Start, step)
  BY <1>1, <1>3, Recursion
<1>5. f[0] = Start /\ \A k \in 1 .. n : f[k] = Walk(f[k - 1], folded[k])
  <2> SUFFICES ASSUME NEW k \in 1 .. n PROVE f[k] = Walk(f[k - 1], folded[k])
    BY <1>4 DEF Unfolds
  <2>1. k - 1 \in 0 .. n /\ f[k - 1] \in Acc
    BY <1>1, <1>4
  <2> QED
    BY <1>4, <2>1 DEF Unfolds
<1>6. Is(f)
  BY <1>1, <1>4, <1>5 DEF Start
<1>7. Is(iter)
  BY <1>6
<1> HIDE DEF iter
<1> DEFINE rhs == [k \in 0 .. Len(folded) |->
                     IF k = 0 THEN [out |-> <<>>, pending |-> FALSE] ELSE Walk(iter[k - 1], folded[k])]
<1>8. iter = rhs
  BY <1>7
<1>9. rhs[0] = Start /\ \A k \in 1 .. n : rhs[k] = Walk(iter[k - 1], folded[k])
  BY <1>1 DEF Start
<1> HIDE DEF rhs, Is, step, n
<1>10. iter[0] = Start /\ \A k \in 1 .. n : iter[k] = Walk(iter[k - 1], folded[k])
  BY <1>8, <1>9
<1> DEFINE T == {m \in Nat : m <= n => iter[m] \in Acc}
<1>11. 0 \in T
  BY <1>3, <1>10
<1>12. ASSUME NEW m \in Nat, m \in T PROVE m + 1 \in T
  <2> SUFFICES ASSUME m + 1 <= n PROVE iter[m + 1] \in Acc
    OBVIOUS
  <2>1. m + 1 \in 1 .. n /\ (m + 1) - 1 = m /\ iter[m] \in Acc
    BY <1>1, <1>12
  <2>2. folded[m + 1] \in Char
    BY <1>1, <2>1
  <2> QED
    BY <1>10, <2>1, <2>2, WalkType
<1>13. \A m \in Nat : m \in T
  <2> HIDE DEF T
  <2> QED
    BY <1>11, <1>12, NatInd
<1>14. \A k \in 1 .. n : iter[k - 1] \in Acc /\ iter[k] \in Acc
  BY <1>1, <1>13
<1>15. Walks(iter, folded)
  BY <1>1, <1>10, <1>14 DEF Walks, n
<1> QED
  BY <1>2, <1>15 DEF n, folded



(* The fold over the whole text.                                           *)

\* f joins the lists of s one after the other.
Joins(f, s) == f[0] = <<>> /\ \A k \in 1 .. Len(s) : f[k] = f[k - 1] \o s[k]

\* FlattenSeq is where that ends.
LEMMA FlattenIs ==
  ASSUME NEW S, NEW s \in Seq(Seq(S))
  PROVE  \E f \in [0 .. Len(s) -> Seq(S)] : Joins(f, s) /\ FlattenSeq(s) = f[Len(s)]
<1> DEFINE n == Len(s)
           A == Seq(S)
           step == [x \in (1 .. n) \X A |-> x[2] \o s[x[1]]]
<1>1. n \in Nat /\ s \in [1 .. n -> A]
  OBVIOUS
<1>2. step \in [(1 .. n) \X A -> A] /\ <<>> \in A
  <2>1. \A x \in (1 .. n) \X A : x[2] \o s[x[1]] \in A
    BY <1>1, ConcatProperties
  <2> QED
    BY <2>1, EmptySeq
<1>3. PICK f \in [0 .. n -> A] : Unfolds(f, n, <<>>, step)
  <2> HIDE DEF n, A, step
  <2> QED
    BY <1>1, <1>2, Recursion
<1>4. Joins(f, s)
  <2> SUFFICES ASSUME NEW k \in 1 .. n PROVE f[k] = f[k - 1] \o s[k]
    BY <1>3 DEF Unfolds, Joins
  <2>1. k - 1 \in 0 .. n /\ f[k - 1] \in A
    <3> HIDE DEF n, A
    <3> QED
      BY <1>1, <1>3
  <2> QED
    BY <1>3, <2>1 DEF Unfolds
<1>5. CASE n = 0
  <2>1. s = <<>> /\ FlattenSeq(s) = s
    BY <1>5 DEF FlattenSeq
  <2> QED
    BY <1>3, <1>4, <1>5, <2>1 DEF Joins
<1>6. CASE n # 0
  <2> DEFINE Is(h) == h = [i \in 1 .. Len(s) |-> IF i = 1 THEN s[i] ELSE h[i - 1] \o s[i]]
             iter == CHOOSE h : Is(h)
             g == [i \in 1 .. n |-> f[i]]
  <2>1. FlattenSeq(s) = iter[n]
    BY <1>6 DEF FlattenSeq
  <2>2. f[1] = s[1]
    <3>1. 1 \in 1 .. n /\ 1 - 1 = 0 /\ s[1] \in Seq(S)
      BY <1>1, <1>6
    <3>2. f[1] = <<>> \o s[1]
      BY <1>4, <3>1 DEF Joins
    <3> QED
      BY <3>1, <3>2, ConcatEmptySeq
  <2>3. Is(g)
    <3>1. ASSUME NEW i \in 1 .. n, i # 1 PROVE f[i] = g[i - 1] \o s[i]
      <4>1. i - 1 \in 1 .. n
        BY <1>1, <3>1
      <4> QED
        BY <1>4, <3>1, <4>1 DEF Joins
    <3> QED
      BY <2>2, <3>1
  <2>4. Is(iter)
    BY <2>3
  <2> HIDE DEF iter
  <2> DEFINE rhs == [i \in 1 .. Len(s) |-> IF i = 1 THEN s[i] ELSE iter[i - 1] \o s[i]]
  <2>5. iter = rhs
    BY <2>4
  <2>6. \A i \in 1 .. n : rhs[i] = IF i = 1 THEN s[i] ELSE iter[i - 1] \o s[i]
    OBVIOUS
  <2> HIDE DEF rhs, Is, n
  <2>7. \A i \in 1 .. n : iter[i] = IF i = 1 THEN s[i] ELSE iter[i - 1] \o s[i]
    BY <2>5, <2>6
  <2> DEFINE T == {m \in Nat : m + 1 <= n => iter[m + 1] = f[m + 1]}
  <2>8. 0 \in T
    BY <1>1, <2>2, <2>7
  <2>9. ASSUME NEW m \in Nat, m \in T PROVE m + 1 \in T
    <3> SUFFICES ASSUME (m + 1) + 1 <= n PROVE iter[(m + 1) + 1] = f[(m + 1) + 1]
      OBVIOUS
    <3>1. (m + 1) + 1 \in 1 .. n /\ (m + 1) + 1 # 1 /\ ((m + 1) + 1) - 1 = m + 1 /\ m + 1 <= n
      BY <1>1
    <3>2. f[(m + 1) + 1] = f[m + 1] \o s[(m + 1) + 1]
      BY <1>4, <3>1 DEF Joins, n
    <3>3. iter[(m + 1) + 1] = iter[m + 1] \o s[(m + 1) + 1]
      BY <2>7, <3>1
    <3> QED
      BY <2>9, <3>1, <3>2, <3>3
  <2>10. \A m \in Nat : m \in T
    <3> HIDE DEF T
    <3> QED
      BY <2>8, <2>9, NatInd
  <2>11. iter[n] = f[n]
    <3>1. n - 1 \in Nat /\ (n - 1) + 1 = n /\ n <= n
      BY <1>1, <1>6
    <3> QED
      BY <2>10, <3>1
  <2> QED
    BY <1>3, <1>4, <2>1, <2>11 DEF n
<1> QED
  BY <1>5, <1>6

\* No list, nothing; one more list is put at the end.
LEMMA FlattenSnoc ==
  ASSUME NEW S, NEW s \in Seq(Seq(S)), NEW x \in Seq(S)
  PROVE  /\ FlattenSeq(s) \in Seq(S)
         /\ FlattenSeq(Append(s, x)) = FlattenSeq(s) \o x
         /\ s = <<>> => FlattenSeq(s) = <<>>
<1> DEFINE n == Len(s)
           u == Append(s, x)
<1>1. n \in Nat /\ u \in Seq(Seq(S)) /\ Len(u) = n + 1 /\ u[n + 1] = x /\ \A k \in 1 .. n : u[k] = s[k]
  BY AppendProperties
<1>2. PICK f \in [0 .. Len(s) -> Seq(S)] : Joins(f, s) /\ FlattenSeq(s) = f[Len(s)]
  BY FlattenIs
<1> HIDE DEF u
<1>3. PICK g \in [0 .. Len(u) -> Seq(S)] : Joins(g, u) /\ FlattenSeq(u) = g[Len(u)]
  BY <1>1, FlattenIs
<1> DEFINE T == {m \in Nat : m <= n => g[m] = f[m]}
<1>4. 0 \in T
  BY <1>2, <1>3 DEF Joins
<1>5. ASSUME NEW m \in Nat, m \in T PROVE m + 1 \in T
  <2> SUFFICES ASSUME m + 1 <= n PROVE g[m + 1] = f[m + 1]
    OBVIOUS
  <2>1. m + 1 \in 1 .. Len(s) /\ m + 1 \in 1 .. Len(u) /\ (m + 1) - 1 = m /\ m <= n
    BY <1>1
  <2>2. f[m + 1] = f[m] \o s[m + 1]
    BY <1>2, <2>1 DEF Joins
  <2>3. g[m + 1] = g[m] \o u[m + 1]
    BY <1>3, <2>1 DEF Joins
  <2> QED
    BY <1>1, <1>5, <2>1, <2>2, <2>3
<1>6. \A m \in Nat : m \in T
  <2> HIDE DEF T
  <2> QED
    BY <1>4, <1>5, NatInd
<1>7. g[n + 1] = g[n] \o x
  <2>1. n + 1 \in 1 .. Len(u) /\ (n + 1) - 1 = n
    BY <1>1
  <2> QED
    BY <1>1, <1>3, <2>1 DEF Joins
<1>8. g[n] = f[n]
  <2>1. n \in T
    BY <1>1, <1>6
  <2> HIDE DEF n
  <2> QED
    BY <1>1, <2>1
<1>9. FlattenSeq(u) = FlattenSeq(s) \o x
  BY <1>1, <1>2, <1>3, <1>7, <1>8
<1>10. s = <<>> => FlattenSeq(s) = <<>>
  BY <1>2 DEF Joins
<1>11. f[n] \in Seq(S)
  <2> DEFINE A == Seq(S)
  <2>1. n \in 0 .. n /\ f \in [0 .. n -> A]
    BY <1>1
  <2>2. f[n] \in A
    <3> HIDE DEF n, A
    <3> QED
      BY <2>1
  <2> QED
    BY <2>2
<1> QED
  BY <1>2, <1>9, <1>10, <1>11 DEF u

\* a is the beginning of b, place by place.
StartsWith(a, b) == Len(a) <= Len(b) /\ \A j \in 1 .. Len(a) : a[j] = b[j]

\* A character becomes nothing or one character, and none that only Unicode 17 knows.
LEMMA PieceIs ==
  ASSUME NEW t \in Phrase, NEW k \in 1 .. Len(t)
  PROVE  \/ FoldedAt(t, k) = <<>>
         \/ \E c \in Char : FoldedAt(t, k) = <<c>> /\ (c = "u17" => t[k] = "u17")
<1>1. t[k] \in Char
  BY DEF Phrase
<1>2. FoldCase(t[k]) \in Char /\ (FoldCase(t[k]) = "u17" => t[k] = "u17") /\ "sm" \in Char /\ "bm" \in Char
  BY <1>1 DEF FoldCase, Char
<1>3. \/ FoldedAt(t, k) = <<>> \/ FoldedAt(t, k) = <<"sm">> \/ FoldedAt(t, k) = <<"bm">>
      \/ FoldedAt(t, k) = <<FoldCase(t[k])>>
  BY DEF FoldedAt
<1> QED
  BY <1>2, <1>3

\* The pieces of a text.
Pieces(t) == [k \in DOMAIN t |-> FoldedAt(t, k)]

\* The fold of a text is a text, with no character of Unicode 17 if there was none.
LEMMA FoldedType ==
  ASSUME NEW t \in Phrase
  PROVE  /\ Pieces(t) \in Seq(Seq(Char)) /\ Len(Pieces(t)) = Len(t)
         /\ Folded(t) = FlattenSeq(Pieces(t)) /\ Folded(t) \in Phrase
         /\ VersionStable(t) => VersionStable(Folded(t))
<1> DEFINE n == Len(t)
           s == Pieces(t)
           S == Char \ {"u17"}
<1>1. n \in Nat /\ DOMAIN t = 1 .. n
  BY DEF Phrase
<1>2. \A k \in 1 .. n : FoldedAt(t, k) \in Seq(Char)
  <2> SUFFICES ASSUME NEW k \in 1 .. n PROVE FoldedAt(t, k) \in Seq(Char)
    OBVIOUS
  <2>1. CASE FoldedAt(t, k) = <<>>
    BY <2>1, EmptySeq
  <2>2. CASE \E c \in Char : FoldedAt(t, k) = <<c>>
    BY <2>2, Single
  <2> QED
    BY <2>1, <2>2, PieceIs
<1>3. s = [k \in 1 .. n |-> FoldedAt(t, k)]
  BY <1>1 DEF Pieces
<1>4. s \in Seq(Seq(Char)) /\ Len(s) = n
  <2> DEFINE A == Seq(Char)
  <2>1. \A k \in 1 .. n : FoldedAt(t, k) \in A
    BY <1>2
  <2> HIDE DEF A, n, s
  <2>2. s \in [1 .. n -> A]
    BY <1>3, <2>1
  <2>3. s \in Seq(A) /\ Len(s) = n
    BY <1>1, <2>2, SeqDef
  <2> QED
    BY <2>3 DEF A
<1>5. Folded(t) = FlattenSeq(s)
  BY DEF Folded, Pieces
<1>6. FlattenSeq(s) \in Seq(Char)
  <2>1. <<>> \in Seq(Char)
    BY EmptySeq
  <2> HIDE DEF s
  <2> QED
    BY <1>4, <2>1, FlattenSnoc
<1>7. ASSUME VersionStable(t) PROVE VersionStable(Folded(t))
  <2>1. \A k \in 1 .. n : FoldedAt(t, k) \in Seq(S)
    <3> SUFFICES ASSUME NEW k \in 1 .. n PROVE FoldedAt(t, k) \in Seq(S)
      OBVIOUS
    <3>0. t[k] # "u17"
      BY <1>1, <1>7 DEF VersionStable
    <3>1. CASE FoldedAt(t, k) = <<>>
      BY <3>1, EmptySeq
    <3>2. ASSUME NEW c \in Char, FoldedAt(t, k) = <<c>>, c = "u17" => t[k] = "u17"
          PROVE  FoldedAt(t, k) \in Seq(S)
      <4>1. c \in S
        BY <3>0, <3>2
      <4> HIDE DEF S
      <4> QED
        BY <3>2, <4>1, Single
    <3> QED
      BY <3>1, <3>2, PieceIs
  <2> DEFINE A == Seq(S)
  <2>2. \A k \in 1 .. n : FoldedAt(t, k) \in A
    BY <2>1
  <2> HIDE DEF A, n, s, S
  <2>3. s \in [1 .. n -> A]
    BY <1>3, <2>2
  <2>4. s \in Seq(A) /\ Len(s) = n
    BY <1>1, <2>3, SeqDef
  <2>5. s \in Seq(Seq(S)) /\ <<>> \in Seq(S)
    BY <2>4, EmptySeq DEF A
  <2>6. FlattenSeq(s) \in Seq(S)
    BY <2>5, FlattenSnoc
  <2>7. \A i \in DOMAIN FlattenSeq(s) : FlattenSeq(s)[i] \in S
    BY <2>6
  <2> QED
    BY <1>5, <2>7 DEF VersionStable, S
<1> QED
  BY <1>4, <1>5, <1>6, <1>7 DEF Phrase

\* The walk at what became of a character.
Step(acc, q) == IF q = <<>> THEN acc ELSE Walk(acc, q[1])

\* w is the walk over the text t, one place of t at a time.
Steps(w, t) ==
  /\ w[0] = Start
  /\ \A k \in 1 .. Len(t) : /\ w[k - 1] \in Acc /\ w[k] \in Acc
                            /\ w[k] = Step(w[k - 1], FoldedAt(t, k))

\* What is joined first stays where it is.
LEMMA JoinedStarts ==
  ASSUME NEW S, NEW s \in Seq(Seq(S)), NEW f \in [0 .. Len(s) -> Seq(S)], Joins(f, s),
         NEW k \in 0 .. Len(s)
  PROVE  StartsWith(f[k], f[Len(s)])
<1> DEFINE n == Len(s)
           T == {m \in Nat : k + m <= n => StartsWith(f[k], f[k + m])}
<1>1. n \in Nat /\ k \in Nat /\ k <= n
  OBVIOUS
<1>2. 0 \in T
  <2>1. k + 0 = k /\ Len(f[k]) \in Nat
    OBVIOUS
  <2> QED
    BY <2>1 DEF StartsWith
<1>3. ASSUME NEW m \in Nat, m \in T PROVE m + 1 \in T
  <2> SUFFICES ASSUME k + (m + 1) <= n PROVE StartsWith(f[k], f[k + (m + 1)])
    OBVIOUS
  <2> DEFINE a == f[k]
             b == f[k + m]
             c == s[k + (m + 1)]
  <2>1. k + (m + 1) \in 1 .. Len(s) /\ (k + (m + 1)) - 1 = k + m /\ k + m \in 0 .. Len(s)
    BY <1>1
  <2>2. f[k + (m + 1)] = b \o c
    BY <2>1 DEF Joins
  <2>3. a \in Seq(S) /\ b \in Seq(S) /\ c \in Seq(S)
    BY <2>1, SMTT(30)
  <2>4. StartsWith(a, b)
    BY <1>1, <1>3, <2>1
  <2> HIDE DEF a, b, c
  <2>5. /\ Len(a) \in Nat /\ Len(b) \in Nat /\ Len(c) \in Nat /\ Len(b \o c) = Len(b) + Len(c)
        /\ \A j \in 1 .. Len(b) : (b \o c)[j] = b[j]
    <3>1. /\ Len(b \o c) = Len(b) + Len(c)
          /\ \A j \in 1 .. Len(b) + Len(c) : (b \o c)[j] = IF j <= Len(b) THEN b[j] ELSE c[j - Len(b)]
      BY <2>3, ConcatProperties
    <3>2. Len(a) \in Nat /\ Len(b) \in Nat /\ Len(c) \in Nat
      BY <2>3
    <3>3. \A j \in 1 .. Len(b) : j \in 1 .. Len(b) + Len(c) /\ j <= Len(b)
      BY <3>2
    <3> QED
      BY <3>1, <3>2, <3>3
  <2>6. StartsWith(a, b \o c)
    <3>1. Len(a) <= Len(b) /\ \A j \in 1 .. Len(a) : a[j] = b[j]
      BY <2>4 DEF StartsWith
    <3>2. Len(a) <= Len(b \o c) /\ \A j \in 1 .. Len(a) : j \in 1 .. Len(b)
      BY <2>5, <3>1
    <3>3. \A j \in 1 .. Len(a) : a[j] = (b \o c)[j]
      BY <2>5, <3>1, <3>2
    <3> QED
      BY <3>2, <3>3 DEF StartsWith
  <2> QED
    BY <2>2, <2>6 DEF a
<1>4. \A m \in Nat : m \in T
  <2> HIDE DEF T
  <2> QED
    BY <1>2, <1>3, NatInd
<1>5. n - k \in Nat /\ k + (n - k) = n
  BY <1>1
<1>6. n - k \in T
  BY <1>4, <1>5
<1>7. StartsWith(f[k], f[k + (n - k)])
  BY <1>1, <1>5, <1>6
<1> QED
  BY <1>5, <1>7

\* normalize_rs is also where that walk ends.
LEMMA StepsAre ==
  ASSUME NEW t \in Phrase
  PROVE  \E w : Steps(w, t) /\ normalize_rs(t) = w[Len(t)].out
<1> DEFINE n == Len(t)
           s == Pieces(t)
           F == Folded(t)
<1>1. n \in Nat /\ DOMAIN t = 1 .. n /\ s \in Seq(Seq(Char)) /\ Len(s) = n /\ F \in Phrase /\ F = FlattenSeq(s)
  BY FoldedType DEF Phrase
<1>2. \A k \in 1 .. n : s[k] = FoldedAt(t, k)
  BY <1>1 DEF Pieces
<1>3. PICK v : Walks(v, F) /\ normalize_rs(t) = v[Len(F)].out
  BY <1>1, WalkIs
<1> HIDE DEF s, F
<1>4. PICK f \in [0 .. Len(s) -> Seq(Char)] : Joins(f, s) /\ FlattenSeq(s) = f[Len(s)]
  BY <1>1, FlattenIs
<1>5. \A k \in 0 .. n : f[k] \in Seq(Char) /\ Len(f[k]) \in Nat /\ StartsWith(f[k], F)
  <2>1. \A k \in 0 .. n : f[k] \in Seq(Char)
    BY <1>1, <1>4
  <2>2. \A k \in 0 .. n : Len(f[k]) \in Nat
    BY <2>1
  <2>3. F = f[Len(s)]
    BY <1>1, <1>4
  <2>4. \A k \in 0 .. Len(s) : StartsWith(f[k], f[Len(s)])
    BY <1>1, <1>4, JoinedStarts
  <2> QED
    BY <1>1, <2>1, <2>2, <2>3, <2>4
<1> DEFINE w == [k \in 0 .. n |-> v[Len(f[k])]]
<1>6. v[0] = Start /\ \A k \in 0 .. Len(F) : v[k] \in Acc
  <2>1. v[0] = Start /\ Start \in Acc
    BY <1>3 DEF Walks, Start, Acc, Phrase
  <2>2. Len(F) \in Nat
    BY <1>1 DEF Phrase
  <2> QED
    BY <1>3, <2>1, <2>2 DEF Walks
<1>7. ASSUME NEW k \in 0 .. n PROVE w[k] \in Acc /\ Len(f[k]) \in 0 .. Len(F)
  <2>1. Len(F) \in Nat
    BY <1>1 DEF Phrase
  <2>2. Len(f[k]) \in 0 .. Len(F)
    BY <1>5, <2>1 DEF StartsWith
  <2> QED
    BY <1>6, <2>2
<1>8. w[0] = Start
  <2>1. 0 \in 0 .. n /\ f[0] = <<>> /\ Len(<<>>) = 0
    BY <1>1, <1>4 DEF Joins
  <2> QED
    BY <1>6, <2>1
<1>9. ASSUME NEW k \in 1 .. n PROVE w[k - 1] \in Acc /\ w[k] \in Acc /\ w[k] = Step(w[k - 1], FoldedAt(t, k))
  <2>1. k - 1 \in 0 .. n /\ k \in 0 .. n
    BY <1>1
  <2>2. w[k - 1] \in Acc /\ w[k] \in Acc
    BY <1>7, <2>1
  <2> DEFINE a == f[k - 1]
             q == s[k]
             L == Len(a)
  <2>3. f[k] = a \o q /\ a \in Seq(Char) /\ L \in Nat /\ q = FoldedAt(t, k)
    BY <1>1, <1>2, <1>4, <1>5, <2>1 DEF Joins
  <2>4. w[k - 1] = v[L] /\ w[k] = v[Len(f[k])]
    BY <2>1
  <2> HIDE DEF a, q, w
  <2>5. CASE q = <<>>
    <3>1. f[k] = a
      BY <2>3, <2>5, ConcatEmptySeq
    <3> QED
      BY <2>2, <2>3, <2>4, <2>5, <3>1 DEF Step
  <2>6. ASSUME NEW c \in Char, q = <<c>> PROVE w[k] = Step(w[k - 1], FoldedAt(t, k))
    <3>1. q \in Seq(Char) /\ Len(q) = 1 /\ q[1] = c /\ q # <<>>
      BY <2>6, Single
    <3>2. /\ Len(a \o q) = L + Len(q)
          /\ \A j \in 1 .. L + Len(q) : (a \o q)[j] = IF j <= L THEN a[j] ELSE q[j - L]
      BY <2>3, <3>1, ConcatProperties
    <3>3. L + 1 \in 1 .. L + 1 /\ ~(L + 1 <= L) /\ (L + 1) - L = 1 /\ (L + 1) - 1 = L
      BY <2>3
    <3>4. Len(f[k]) = L + 1 /\ f[k][L + 1] = c
      BY <2>3, <3>1, <3>2, <3>3
    <3>5. L + 1 \in 1 .. Len(F) /\ F[L + 1] = c
      <4>1. L + 1 \in 0 .. Len(F) /\ StartsWith(f[k], F)
        BY <1>5, <1>7, <2>1, <3>4
      <4> QED
        BY <2>3, <3>4, <4>1 DEF StartsWith
    <3>6. v[L + 1] = Walk(v[L], c)
      BY <1>3, <3>3, <3>5 DEF Walks
    <3> QED
      BY <2>3, <2>4, <3>1, <3>4, <3>6 DEF Step
  <2>7. q = <<>> \/ \E c \in Char : q = <<c>>
    BY <2>3, PieceIs
  <2> QED
    BY <2>2, <2>5, <2>6, <2>7
<1>10. w[n] = v[Len(F)]
  <2>1. n \in 0 .. n /\ f[n] = F
    BY <1>1, <1>4
  <2> QED
    BY <2>1
<1> HIDE DEF w, n
<1>11. Steps(w, t)
  BY <1>8, <1>9 DEF Steps, n
<1> QED
  BY <1>3, <1>10, <1>11 DEF n

(* What the policy does not see: a capital, a leetspeak symbol, a zero-width *)
(* character.                                                              *)

\* The walk does the same at the pieces p and q.
Alike(p, q) == \A acc \in Acc : Step(acc, p) = Step(acc, q)

\* A leetspeak symbol is a letter, and a symbol of Unicode 17 is a space.
LEMMA LettersAlike == Alike(<<"s">>, <<"$">>) /\ Alike(<<"u17">>, <<" ">>) /\ \A p : Alike(p, p)
<1>1. fold_leet("s") = "s" /\ fold_leet("$") = "s" /\ ~is_zero_width("s") /\ ~is_zero_width("$")
  BY DEF fold_leet, is_zero_width
<1>2. \A acc : Walk(acc, "s") = Walk(acc, "$")
  BY <1>1 DEF Walk
<1>3. /\ fold_leet("u17") = "u17" /\ fold_leet(" ") = " " /\ ~is_zero_width("u17") /\ ~is_zero_width(" ")
      /\ is_collapsible("u17") /\ is_collapsible(" ")
  BY DEF fold_leet, is_zero_width, is_collapsible, is_js_whitespace
<1>4. \A acc : Walk(acc, "u17") = Walk(acc, " ")
  BY <1>3 DEF Walk
<1>5. \A acc, c : Step(acc, <<c>>) = Walk(acc, c)
  BY DEF Step
<1> QED
  BY <1>2, <1>4, <1>5 DEF Alike

\* Texts that are alike at every place are normalised to the same.
LEMMA AlikeTexts ==
  ASSUME NEW t \in Phrase, NEW u \in Phrase, Len(u) = Len(t),
         \A k \in 1 .. Len(t) : Alike(FoldedAt(t, k), FoldedAt(u, k))
  PROVE  normalize_rs(u) = normalize_rs(t)
<1> DEFINE n == Len(t)
<1>0. n \in Nat
  BY DEF Phrase
<1>1. PICK w : Steps(w, t) /\ normalize_rs(t) = w[Len(t)].out
  BY StepsAre
<1>2. PICK v : Steps(v, u) /\ normalize_rs(u) = v[Len(u)].out
  BY StepsAre
<1> DEFINE T == {m \in Nat : m <= n => v[m] = w[m]}
<1>3. 0 \in T
  BY <1>1, <1>2 DEF Steps
<1>4. ASSUME NEW m \in Nat, m \in T PROVE m + 1 \in T
  <2> SUFFICES ASSUME m + 1 <= n PROVE v[m + 1] = w[m + 1]
    OBVIOUS
  <2>1. m + 1 \in 1 .. Len(t) /\ m + 1 \in 1 .. Len(u) /\ (m + 1) - 1 = m /\ v[m] = w[m]
    BY <1>0, <1>4
  <2>2. w[m] \in Acc /\ w[m + 1] = Step(w[m], FoldedAt(t, m + 1))
    BY <1>1, <2>1 DEF Steps
  <2>3. v[m + 1] = Step(v[m], FoldedAt(u, m + 1))
    BY <1>2, <2>1 DEF Steps
  <2>4. Alike(FoldedAt(t, m + 1), FoldedAt(u, m + 1))
    BY <2>1
  <2> QED
    BY <2>1, <2>2, <2>3, <2>4 DEF Alike
<1>5. \A m \in Nat : m \in T
  <2> HIDE DEF T
  <2> QED
    BY <1>3, <1>4, NatInd
<1> QED
  BY <1>0, <1>1, <1>2, <1>5

\* The walk passes over a zero-width character.
LEMMA ZeroWidthPassed ==
  ASSUME NEW t \in Phrase, NEW u \in Phrase, NEW i \in 0 .. Len(t), Len(u) = Len(t) + 1,
         \A k \in 1 .. i : FoldedAt(u, k) = FoldedAt(t, k), FoldedAt(u, i + 1) = <<"zw">>,
         \A k \in i + 1 .. Len(t) : FoldedAt(u, k + 1) = FoldedAt(t, k)
  PROVE  normalize_rs(u) = normalize_rs(t)
<1> DEFINE n == Len(t)
<1>0. n \in Nat /\ i \in Nat /\ i <= n
  BY DEF Phrase
<1>1. PICK w : Steps(w, t) /\ normalize_rs(t) = w[Len(t)].out
  BY StepsAre
<1>2. PICK v : Steps(v, u) /\ normalize_rs(u) = v[Len(u)].out
  BY StepsAre
<1>3. v[i + 1] = v[i]
  <2>1. i + 1 \in 1 .. Len(u) /\ (i + 1) - 1 = i
    BY <1>0
  <2>2. v[i] \in Acc /\ v[i + 1] = Step(v[i], <<"zw">>)
    BY <1>2, <2>1 DEF Steps
  <2>3. is_zero_width("zw") /\ Step(v[i], <<"zw">>) = Walk(v[i], "zw")
    BY DEF is_zero_width, Step
  <2> QED
    BY <2>2, <2>3 DEF Walk
<1> DEFINE T == {m \in Nat : m <= n => (m <= i => v[m] = w[m]) /\ (i <= m => v[m + 1] = w[m])}
<1>4. 0 \in T
  <2>1. v[0] = w[0]
    BY <1>1, <1>2 DEF Steps
  <2>2. i <= 0 => i = 0
    BY <1>0
  <2> QED
    BY <1>3, <2>1, <2>2
<1>5. ASSUME NEW m \in Nat, m \in T PROVE m + 1 \in T
  <2> SUFFICES ASSUME m + 1 <= n
               PROVE  (m + 1 <= i => v[m + 1] = w[m + 1]) /\ (i <= m + 1 => v[(m + 1) + 1] = w[m + 1])
    OBVIOUS
  <2>1. m <= n /\ m + 1 \in 1 .. Len(t) /\ m + 1 \in 1 .. Len(u) /\ (m + 1) - 1 = m
          /\ (m + 1) + 1 \in 1 .. Len(u) /\ ((m + 1) + 1) - 1 = m + 1
    BY <1>0
  <2>2. w[m + 1] = Step(w[m], FoldedAt(t, m + 1))
    BY <1>1, <2>1 DEF Steps
  <2>3. v[m + 1] = Step(v[m], FoldedAt(u, m + 1))
    BY <1>2, <2>1 DEF Steps
  <2>4. v[(m + 1) + 1] = Step(v[m + 1], FoldedAt(u, (m + 1) + 1))
    BY <1>2, <2>1 DEF Steps
  <2>5. m + 1 <= i => v[m + 1] = w[m + 1]
    <3> SUFFICES ASSUME m + 1 <= i PROVE v[m + 1] = w[m + 1]
      OBVIOUS
    <3>1. v[m] = w[m] /\ FoldedAt(u, m + 1) = FoldedAt(t, m + 1)
      BY <1>0, <1>5, <2>1
    <3> QED
      BY <2>2, <2>3, <3>1
  <2>6. CASE i <= m
    <3>1. v[m + 1] = w[m] /\ FoldedAt(u, (m + 1) + 1) = FoldedAt(t, m + 1)
      BY <1>0, <1>5, <2>1, <2>6
    <3> QED
      BY <1>0, <2>2, <2>4, <2>6, <3>1
  <2>7. CASE m + 1 = i
    BY <1>3, <2>5, <2>7
  <2>8. CASE m + 1 < i
    BY <1>0, <2>5, <2>8
  <2> QED
    BY <1>0, <2>6, <2>7, <2>8
<1>6. \A m \in Nat : m \in T
  <2> HIDE DEF T
  <2> QED
    BY <1>4, <1>5, NatInd
<1>7. v[n + 1] = w[n]
  BY <1>0, <1>6
<1> QED
  BY <1>1, <1>2, <1>7

\* What Inserted is.
LEMMA InsertedIs ==
  ASSUME NEW t \in Phrase, NEW i \in 0 .. Len(t), NEW c \in Char
  PROVE  /\ Inserted(t, i, c) \in Phrase /\ Len(Inserted(t, i, c)) = Len(t) + 1
         /\ \A k \in 1 .. i : Inserted(t, i, c)[k] = t[k]
         /\ Inserted(t, i, c)[i + 1] = c
         /\ \A k \in i + 1 .. Len(t) : Inserted(t, i, c)[k + 1] = t[k]
<1> DEFINE n == Len(t)
           a == SubSeq(t, 1, i)
           b == SubSeq(t, i + 1, n)
           p == <<c>>
           ap == a \o p
           u == ap \o b
<1>0. n \in Nat /\ i \in Nat /\ i <= n /\ t \in Seq(Char) /\ \A k \in 1 .. n : t[k] \in Char
  BY DEF Phrase
<1>1. a \in Seq(Char) /\ Len(a) = i /\ \A k \in 1 .. i : a[k] = t[k]
  <2>1. 1 \in Int /\ i \in Int /\ \A k \in 1 .. i : t[k] \in Char
    BY <1>0
  <2>2. /\ SubSeq(t, 1, i) \in Seq(Char)
        /\ Len(SubSeq(t, 1, i)) = IF 1 <= i THEN i - 1 + 1 ELSE 0
        /\ \A k \in 1 .. i - 1 + 1 : SubSeq(t, 1, i)[k] = t[1 + k - 1]
    BY <2>1, SubSeqProperties
  <2> QED
    BY <1>0, <2>2
<1>2. b \in Seq(Char) /\ Len(b) = n - i /\ \A k \in 1 .. n - i : b[k] = t[i + k]
  <2>1. i + 1 \in Int /\ n \in Int /\ \A k \in i + 1 .. n : t[k] \in Char
    BY <1>0
  <2>2. /\ SubSeq(t, i + 1, n) \in Seq(Char)
        /\ Len(SubSeq(t, i + 1, n)) = IF i + 1 <= n THEN n - (i + 1) + 1 ELSE 0
        /\ \A k \in 1 .. n - (i + 1) + 1 : SubSeq(t, i + 1, n)[k] = t[(i + 1) + k - 1]
    BY <2>1, SubSeqProperties
  <2>3. n - (i + 1) + 1 = n - i /\ \A k \in 1 .. n - i : (i + 1) + k - 1 = i + k
    BY <1>0
  <2> QED
    BY <1>0, <2>2, <2>3
<1>3. p \in Seq(Char) /\ Len(p) = 1 /\ p[1] = c
  BY Single
<1> HIDE DEF a, b, p, n
<1>4. IsJoin(ap, a, p, i, 1, Char)
  BY <1>0, <1>1, <1>3, Joined DEF IsList
<1>5. IsList(ap, i + 1, Char) /\ (\A k \in 1 .. i : ap[k] = t[k]) /\ ap[i + 1] = c
  <2> HIDE DEF ap
  <2>1. 1 \in 1 .. 1
    OBVIOUS
  <2> QED
    BY <1>1, <1>3, <1>4, <2>1 DEF IsJoin
<1> HIDE DEF ap
<1>6. IsJoin(u, ap, b, i + 1, n - i, Char)
  <2>1. i + 1 \in Nat /\ n - i \in Nat /\ IsList(b, n - i, Char)
    BY <1>0, <1>2 DEF IsList
  <2> QED
    BY <1>5, <2>1, Joined
<1> HIDE DEF u
<1>7. /\ u \in Seq(Char) /\ Len(u) = n + 1
      /\ \A k \in 1 .. i : u[k] = t[k]
      /\ u[i + 1] = c
      /\ \A k \in i + 1 .. n : u[k + 1] = t[k]
  <2>1. (i + 1) + (n - i) = n + 1 /\ i + 1 \in 1 .. i + 1 /\ \A k \in 1 .. i : k \in 1 .. i + 1
    BY <1>0
  <2>2. u \in Seq(Char) /\ Len(u) = n + 1 /\ (\A k \in 1 .. i + 1 : u[k] = ap[k])
          /\ \A k \in 1 .. n - i : u[(i + 1) + k] = b[k]
    BY <1>6, <2>1 DEF IsJoin, IsList
  <2>3. ASSUME NEW k \in i + 1 .. n PROVE u[k + 1] = t[k]
    <3>1. k - i \in 1 .. n - i /\ i + (k - i) = k /\ (i + 1) + (k - i) = k + 1
      BY <1>0
    <3>2. u[(i + 1) + (k - i)] = b[k - i] /\ b[k - i] = t[i + (k - i)]
      BY <1>2, <2>2, <3>1
    <3> QED
      BY <3>1, <3>2
  <2> QED
    BY <1>5, <2>1, <2>2, <2>3
<1>8. Inserted(t, i, c) = u
  BY DEF Inserted, u, ap, a, b, p, n
<1> QED
  BY <1>7, <1>8 DEF n, Phrase

\* The verdict depends on the normalised text alone.
LEMMA VerdictOfNormalized ==
  ASSUME NEW t, NEW u, normalize_rs(u) = normalize_rs(t)
  PROVE  evaluate_prepared(u) = evaluate_prepared(t)
BY DEF evaluate_prepared

\* A zero-width character folds to itself and changes nothing around it, unless it is put between
\* a letter and its mark.
LEMMA ZeroWidthFolded ==
  ASSUME NEW t \in Phrase, NEW u \in Phrase, NEW i \in 0 .. Len(t), Len(u) = Len(t) + 1,
         \A k \in 1 .. i : u[k] = t[k], u[i + 1] = "zw", \A k \in i + 1 .. Len(t) : u[k + 1] = t[k],
         ~ComposesAt(t, i + 1)
  PROVE  /\ \A k \in 1 .. i : FoldedAt(u, k) = FoldedAt(t, k)
         /\ FoldedAt(u, i + 1) = <<"zw">>
         /\ \A k \in i + 1 .. Len(t) : FoldedAt(u, k + 1) = FoldedAt(t, k)
<1> DEFINE n == Len(t)
<1>0. n \in Nat /\ i \in Nat /\ i <= n /\ DOMAIN t = 1 .. n /\ DOMAIN u = 1 .. n + 1
  BY DEF Phrase
<1>1. ~ComposesAt(u, i + 1) /\ ~ComposesAt(u, (i + 1) + 1)
  <2>1. ((i + 1) + 1) - 1 = i + 1
    BY <1>0
  <2> QED
    BY <2>1 DEF ComposesAt
<1>2. FoldedAt(u, i + 1) = <<"zw">>
  BY <1>1 DEF FoldedAt, FoldCase
<1>3. ASSUME NEW k \in 1 .. i PROVE ComposesAt(u, k) <=> ComposesAt(t, k)
  <2>1. k \in 1 .. n /\ k \in 1 .. n + 1 /\ (k - 1 \in 1 .. n <=> k - 1 \in 1 .. i) /\ (k - 1 \in 1 .. n + 1 <=> k - 1 \in 1 .. i)
    BY <1>0
  <2> QED
    BY <1>0, <2>1 DEF ComposesAt
<1>4. ASSUME NEW k \in 1 .. i PROVE ComposesAt(u, k + 1) <=> ComposesAt(t, k + 1)
  <2>1. CASE k = i
    BY <1>1, <2>1
  <2>2. CASE k # i
    <3>1. k + 1 \in 1 .. i
      BY <1>0, <2>2
    <3> QED
      BY <1>3, <3>1
  <2> QED
    BY <2>1, <2>2
<1>5. ASSUME NEW k \in 1 .. i PROVE FoldedAt(u, k) = FoldedAt(t, k)
  BY <1>3, <1>4 DEF FoldedAt
<1>6. ASSUME NEW k \in Nat, i + 1 <= k PROVE ComposesAt(u, k + 1) <=> ComposesAt(t, k)
  <2>1. CASE k = i + 1
    BY <1>1, <2>1
  <2>2. CASE k # i + 1
    <3>1. /\ k + 1 \in 1 .. n + 1 <=> k \in 1 .. n
          /\ (k + 1) - 1 \in 1 .. n + 1 <=> k - 1 \in 1 .. n
          /\ k \in 1 .. n => k \in i + 1 .. n
          /\ k - 1 \in 1 .. n => k - 1 \in i + 1 .. n
          /\ (k - 1) + 1 = (k + 1) - 1
      BY <1>0, <1>6, <2>2
    <3>2. k \in 1 .. n => u[k + 1] = t[k]
      BY <3>1
    <3>3. k - 1 \in 1 .. n => u[(k + 1) - 1] = t[k - 1]
      BY <3>1
    <3> QED
      BY <1>0, <3>1, <3>2, <3>3 DEF ComposesAt
  <2> QED
    BY <2>1, <2>2
<1>7. ASSUME NEW k \in i + 1 .. n PROVE FoldedAt(u, k + 1) = FoldedAt(t, k)
  <2>1. k \in Nat /\ i + 1 <= k /\ k + 1 \in Nat /\ i + 1 <= k + 1
    BY <1>0
  <2>2. (ComposesAt(u, k + 1) <=> ComposesAt(t, k)) /\ (ComposesAt(u, (k + 1) + 1) <=> ComposesAt(t, k + 1))
    BY <1>6, <2>1
  <2>3. u[k + 1] = t[k]
    OBVIOUS
  <2> QED
    BY <2>2, <2>3 DEF FoldedAt
<1> QED
  BY <1>2, <1>5, <1>7

\* The same marks compose in both texts.
SameMarks(t, u) == \A k \in 1 .. Len(t) : ComposesAt(u, k) <=> ComposesAt(t, k)

\* The k-th character of u is one the walk cannot tell from that of t.
Swapped(t, u, k) ==
  /\ u[k] = "s" <=> (t[k] = "s" /\ u[k] # "$")
  /\ \/ FoldCase(u[k]) = FoldCase(t[k])
     \/ t[k] = "s" /\ u[k] = "$" /\ ~ComposesAt(t, k + 1)
     \/ t[k] = "u17" /\ u[k] = " "

\* A character put in the place of one that composes with the same marks.
LEMMA ReplacedFolded ==
  ASSUME NEW t \in Phrase, NEW u \in Phrase, Len(u) = Len(t),
         SameMarks(t, u), \A k \in 1 .. Len(t) : Swapped(t, u, k)
  PROVE  normalize_rs(u) = normalize_rs(t)
<1> DEFINE n == Len(t)
<1>0. n \in Nat /\ DOMAIN t = 1 .. n /\ DOMAIN u = 1 .. n
  <2>1. t \in Seq(Char) /\ u \in Seq(Char)
    BY DEF Phrase
  <2>2. DOMAIN t = 1 .. Len(t) /\ DOMAIN u = 1 .. Len(u) /\ Len(t) \in Nat
    BY <2>1
  <2> QED
    BY <2>2
<1>1. ASSUME NEW k \in 1 .. n PROVE ComposesAt(u, k + 1) <=> ComposesAt(t, k + 1)
  <2>1. CASE k + 1 \in 1 .. n
    BY <2>1 DEF SameMarks
  <2>2. CASE k + 1 \notin 1 .. n
    BY <1>0, <2>2 DEF ComposesAt
  <2> QED
    BY <2>1, <2>2
<1>2. ASSUME NEW k \in 1 .. n PROVE Alike(FoldedAt(t, k), FoldedAt(u, k))
  <2>1. /\ ComposesAt(u, k) <=> ComposesAt(t, k)
        /\ ComposesAt(u, k + 1) <=> ComposesAt(t, k + 1)
    BY <1>1 DEF SameMarks
  <2>2. CASE ComposesAt(t, k)
    <3>0. (k + 1) - 1 = k
      BY <1>0
    <3>1. ~ComposesAt(t, k + 1) /\ ~ComposesAt(u, k + 1)
      <4>1. ~ComposesAt(t, k + 1)
        BY <2>2, <3>0 DEF ComposesAt
      <4> QED
        BY <2>1, <4>1
    <3>2. FoldedAt(t, k) = <<>>
      BY <2>2, <3>1 DEF FoldedAt
    <3>3. FoldedAt(u, k) = <<>>
      BY <2>1, <2>2, <3>1 DEF FoldedAt
    <3> QED
      BY <3>2, <3>3, LettersAlike
  <2>3. CASE ~ComposesAt(t, k) /\ ComposesAt(t, k + 1)
    <3>1. (k + 1) - 1 = k
      BY <1>0
    <3>2. t[k] \in {"b", "B", "s"} /\ u[k] \in {"b", "B", "s"}
      <4>1. t[(k + 1) - 1] \in {"b", "B", "s"}
        BY <2>3 DEF ComposesAt
      <4>2. u[(k + 1) - 1] \in {"b", "B", "s"}
        BY <2>1, <2>3 DEF ComposesAt
      <4> QED
        BY <3>1, <4>1, <4>2
    <3>3. u[k] = "s" <=> t[k] = "s"
      BY <3>2 DEF Swapped
    <3>4. FoldedAt(u, k) = FoldedAt(t, k)
      BY <2>1, <2>3, <3>3 DEF FoldedAt
    <3> QED
      BY <3>4, LettersAlike
  <2>4. CASE ~ComposesAt(t, k) /\ ~ComposesAt(t, k + 1)
    <3>1. FoldedAt(t, k) = <<FoldCase(t[k])>> /\ FoldedAt(u, k) = <<FoldCase(u[k])>>
      BY <2>1, <2>4 DEF FoldedAt
    <3>2. CASE FoldCase(u[k]) = FoldCase(t[k])
      BY <3>1, <3>2, LettersAlike
    <3>3. CASE t[k] = "s" /\ u[k] = "$"
      BY <3>1, <3>3, LettersAlike DEF FoldCase
    <3>4. CASE t[k] = "u17" /\ u[k] = " "
      BY <3>1, <3>4, LettersAlike DEF FoldCase
    <3> QED
      BY <3>2, <3>3, <3>4 DEF Swapped
  <2> QED
    BY <2>2, <2>3, <2>4
<1> QED
  BY <1>2, AlikeTexts

\* No capital, leetspeak symbol or zero-width character put into the text
\* changes what the enclave's policy says of it, if it parts no letter from its mark.
LEMMA Obfuscated ==
  ASSUME text \in Phrase
  PROVE  ObfuscationIsFutile
<1> DEFINE v == evaluate_prepared(text)
<1>1. ASSUME NEW i \in 0 .. Len(text), ~ComposesAt(text, i + 1)
      PROVE  evaluate_prepared(Inserted(text, i, "zw")) = v
  <2> DEFINE u == Inserted(text, i, "zw")
  <2>1. "zw" \in Char
    BY DEF Char
  <2>2. /\ u \in Phrase /\ Len(u) = Len(text) + 1 /\ \A k \in 1 .. i : u[k] = text[k]
        /\ u[i + 1] = "zw" /\ \A k \in i + 1 .. Len(text) : u[k + 1] = text[k]
    BY <2>1, InsertedIs
  <2> HIDE DEF u
  <2>3. /\ \A k \in 1 .. i : FoldedAt(u, k) = FoldedAt(text, k)
        /\ FoldedAt(u, i + 1) = <<"zw">>
        /\ \A k \in i + 1 .. Len(text) : FoldedAt(u, k + 1) = FoldedAt(text, k)
    BY <1>1, <2>2, ZeroWidthFolded
  <2>4. normalize_rs(u) = normalize_rs(text)
    BY <2>2, <2>3, ZeroWidthPassed
  <2> QED
    BY <2>4, VerdictOfNormalized DEF u
<1>2. ASSUME NEW i \in DOMAIN text, NEW d \in Char,
             \/ text[i] = "b" /\ d = "B"
             \/ text[i] = "s" /\ d = "$" /\ ~ComposesAt(text, i + 1)
      PROVE  evaluate_prepared([text EXCEPT ![i] = d]) = v
  <2> DEFINE u == [text EXCEPT ![i] = d]
  <2>1. text \in Seq(Char) /\ i \in 1 .. Len(text) /\ Len(text) \in Nat /\ DOMAIN text = 1 .. Len(text)
    BY DEF Phrase
  <2>2. u \in Seq(Char) /\ Len(u) = Len(text)
          /\ \A j \in 1 .. Len(text) : u[j] = IF j = i THEN d ELSE text[j]
    BY <2>1, ExceptSeq
  <2> HIDE DEF u
  <2>3. DOMAIN u = 1 .. Len(text)
    BY <2>2
  <2>4. ASSUME NEW k \in 1 .. Len(text) PROVE ComposesAt(u, k) <=> ComposesAt(text, k)
    <3>1. u[k] = "mk" <=> text[k] = "mk"
      BY <1>2, <2>2
    <3>2. CASE k - 1 \in 1 .. Len(text) /\ k - 1 # i
      BY <2>1, <2>2, <2>3, <3>1, <3>2 DEF ComposesAt
    <3>3. CASE k - 1 \notin 1 .. Len(text)
      BY <2>1, <2>3, <3>3 DEF ComposesAt
    <3>4. CASE k - 1 = i /\ d = "B"
      <4>1. u[k - 1] = "B" /\ text[k - 1] = "b"
        BY <1>2, <2>1, <2>2, <3>4
      <4> QED
        BY <2>1, <2>3, <3>1, <3>4, <4>1 DEF ComposesAt
    <3>5. CASE k - 1 = i /\ d = "$"
      <4>1. u[k - 1] = "$" /\ i + 1 = k
        BY <2>1, <2>2, <3>5
      <4>2. ~ComposesAt(text, k)
        BY <1>2, <3>5, <4>1
      <4> QED
        BY <4>1, <4>2 DEF ComposesAt
    <3> QED
      BY <1>2, <3>2, <3>3, <3>4, <3>5
  <2>5. ASSUME NEW k \in 1 .. Len(text)
        PROVE  /\ u[k] = "s" <=> (text[k] = "s" /\ u[k] # "$")
               /\ \/ FoldCase(u[k]) = FoldCase(text[k])
                  \/ text[k] = "s" /\ u[k] = "$" /\ ~ComposesAt(text, k + 1)
                  \/ text[k] = "u17" /\ u[k] = " "
    BY <1>2, <2>2 DEF FoldCase
  <2>6. normalize_rs(u) = normalize_rs(text)
    BY <2>2, <2>4, <2>5, ReplacedFolded DEF Phrase, SameMarks, Swapped
  <2> QED
    BY <2>6, VerdictOfNormalized DEF u
<1>3. "B" \in Char /\ "$" \in Char
  BY DEF Char
<1>4. ASSUME NEW i \in DOMAIN text
      PROVE  /\ text[i] = "b" => evaluate_prepared([text EXCEPT ![i] = "B"]) = v
             /\ text[i] = "s" /\ ~ComposesAt(text, i + 1) => evaluate_prepared([text EXCEPT ![i] = "$"]) = v
  BY <1>2, <1>3
<1> QED
  BY <1>1, <1>4 DEF ObfuscationIsFutile


(* The browser's normaliser, which goes over the whole text once per step: *)
(* what each pass does when a character is put at the end.                 *)

\* s is the list of what e makes of the places 1 .. n.
Lists(s, e, n) == s = [k \in 1 .. n |-> e[k]]

\* A list with one place more.
LEMMA ListSnoc ==
  ASSUME NEW A, NEW n \in Nat, NEW e \in [1 .. n + 1 -> A], NEW s, NEW u,
         Lists(s, e, n), Lists(u, e, n + 1)
  PROVE  s \in Seq(A) /\ Len(s) = n /\ u = Append(s, e[n + 1]) /\ u \in Seq(A)
<1>1. /\ s = [k \in 1 .. n |-> e[k]] /\ u = [k \in 1 .. n + 1 |-> e[k]]
  BY DEF Lists
<1>2. s \in [1 .. n -> A] /\ u \in [1 .. n + 1 -> A] /\ e[n + 1] \in A
  BY <1>1
<1>3. s \in Seq(A) /\ Len(s) = n /\ u \in Seq(A) /\ Len(u) = n + 1
  BY <1>2, SeqDef
<1> DEFINE v == Append(s, e[n + 1])
<1>4. v \in Seq(A) /\ Len(v) = n + 1 /\ v[n + 1] = e[n + 1] /\ \A k \in 1 .. n : v[k] = s[k]
  BY <1>2, <1>3, AppendProperties
<1> HIDE DEF v
<1>5. ASSUME NEW k \in 1 .. n + 1 PROVE u[k] = v[k]
  <2>1. CASE k = n + 1
    BY <1>1, <1>4, <2>1
  <2>2. CASE k \in 1 .. n
    BY <1>1, <1>4, <2>2
  <2> QED
    BY <2>1, <2>2
<1>6. u = v
  BY <1>3, <1>4, <1>5, SeqEqual
<1> QED
  BY <1>3, <1>6 DEF v

\* The leetspeak pass, at one more character.
LEMMA LeetSnoc ==
  ASSUME NEW t \in Phrase, NEW c \in Char
  PROVE  /\ Mapped(fold_leet, t) \in Phrase /\ Len(Mapped(fold_leet, t)) = Len(t)
         /\ Mapped(fold_leet, Append(t, c)) = Append(Mapped(fold_leet, t), fold_leet(c))
<1> DEFINE n == Len(t)
           tc == Append(t, c)
           f == [k \in 1 .. n + 1 |-> fold_leet(tc[k])]
<1>1. n \in Nat /\ DOMAIN t = 1 .. n /\ t \in [1 .. n -> Char]
  BY DEF Phrase
<1>2. /\ DOMAIN tc = 1 .. n + 1 /\ tc[n + 1] = c /\ \A k \in 1 .. n : tc[k] = t[k]
  BY AppendProperties DEF Phrase
<1>3. \A k \in 1 .. n + 1 : tc[k] \in Char
  BY <1>1, <1>2
<1>4. \A d \in Char : fold_leet(d) \in Char
  BY DEF fold_leet, Char
<1> HIDE DEF tc, n
<1>5. f \in [1 .. n + 1 -> Char]
  BY <1>3, <1>4
<1>6. \A k \in 1 .. n : k \in 1 .. n + 1
  BY <1>1
<1>7. Lists(Mapped(fold_leet, t), f, n) /\ Lists(Mapped(fold_leet, tc), f, n + 1)
  BY <1>1, <1>2, <1>6 DEF Mapped, Lists
<1>8. f[n + 1] = fold_leet(c)
  BY <1>1, <1>2
<1> HIDE DEF f
<1>9. /\ Mapped(fold_leet, t) \in Seq(Char) /\ Len(Mapped(fold_leet, t)) = n
      /\ Mapped(fold_leet, tc) = Append(Mapped(fold_leet, t), f[n + 1])
  BY <1>1, <1>5, <1>7, ListSnoc
<1> QED
  BY <1>8, <1>9 DEF Phrase, tc, n

\* The pass that strips zero-width characters, at one more character.
LEMMA StripSnoc ==
  ASSUME NEW t \in Phrase, NEW c \in Char
  PROVE  /\ Strip(t) \in Phrase
         /\ Strip(Append(t, c)) = IF is_zero_width(c) THEN Strip(t) ELSE Append(Strip(t), c)
         /\ t = <<>> => Strip(t) = <<>>
<1> DEFINE n == Len(t)
           tc == Append(t, c)
           A == Seq(Char)
           e == [k \in 1 .. n + 1 |-> IF is_zero_width(tc[k]) THEN <<>> ELSE <<tc[k]>>]
           s == [k \in DOMAIN t |-> IF is_zero_width(t[k]) THEN <<>> ELSE <<t[k]>>]
           u == [k \in DOMAIN tc |-> IF is_zero_width(tc[k]) THEN <<>> ELSE <<tc[k]>>]
<1>1. n \in Nat /\ DOMAIN t = 1 .. n /\ t \in [1 .. n -> Char]
  BY DEF Phrase
<1>2. /\ DOMAIN tc = 1 .. n + 1 /\ tc[n + 1] = c /\ \A k \in 1 .. n : tc[k] = t[k]
  BY AppendProperties DEF Phrase
<1>3. \A k \in 1 .. n + 1 : tc[k] \in Char
  BY <1>1, <1>2
<1>4. \A d \in Char : <<d>> \in A /\ <<>> \in A
  BY Single, EmptySeq
<1>5. Strip(t) = FlattenSeq(s) /\ Strip(tc) = FlattenSeq(u)
  BY DEF Strip
<1> HIDE DEF tc, n, A
<1>6. e \in [1 .. n + 1 -> A]
  BY <1>3, <1>4
<1>7. Lists(s, e, n) /\ Lists(u, e, n + 1)
  <2>1. \A k \in 1 .. n : k \in 1 .. n + 1
    BY <1>1
  <2> QED
    BY <1>1, <1>2, <2>1 DEF Lists
<1>8. e[n + 1] = IF is_zero_width(c) THEN <<>> ELSE <<c>>
  BY <1>1, <1>2
<1> HIDE DEF e, s, u
<1>9. s \in Seq(A) /\ Len(s) = n /\ u = Append(s, e[n + 1])
  BY <1>1, <1>6, <1>7, ListSnoc
<1>10. e[n + 1] \in A
  BY <1>4, <1>8
<1>11. FlattenSeq(s) \in A /\ FlattenSeq(u) = FlattenSeq(s) \o e[n + 1] /\ (s = <<>> => FlattenSeq(s) = <<>>)
  BY <1>9, <1>10, FlattenSnoc DEF A
<1>12. t = <<>> => s = <<>>
  BY <1>1, <1>9, EmptySeq DEF n
<1>13. FlattenSeq(s) \o <<>> = FlattenSeq(s) /\ FlattenSeq(s) \o <<c>> = Append(FlattenSeq(s), c)
  BY <1>11, ConcatEmptySeq, AppendIsConcat DEF A
<1> QED
  BY <1>5, <1>8, <1>11, <1>12, <1>13 DEF Phrase, A, tc

\* What the pass that collapses makes of one more character.
Piece(t, c) == CASE ~JsCollapsible(c) -> <<c>>
                 [] JsCollapsible(c) /\ Len(t) > 0 /\ JsCollapsible(t[Len(t)]) -> <<>>
                 [] OTHER -> <<" ">>

\* Collapsing a text with a character at its end adds that character's piece.
LEMMA CollapseSnoc ==
  ASSUME NEW t \in Phrase, NEW c \in Char
  PROVE  /\ Collapse(t) \in Phrase
         /\ Collapse(Append(t, c)) = Collapse(t) \o Piece(t, c)
         /\ t = <<>> => Collapse(t) = <<>>
<1> DEFINE n == Len(t)
           tc == Append(t, c)
           A == Seq(Char)
           P(x, k) == CASE ~JsCollapsible(x[k]) -> <<x[k]>>
                        [] JsCollapsible(x[k]) /\ k > 1 /\ JsCollapsible(x[k - 1]) -> <<>>
                        [] OTHER -> <<" ">>
           e == [k \in 1 .. n + 1 |-> P(tc, k)]
           s == [k \in DOMAIN t |-> P(t, k)]
           u == [k \in DOMAIN tc |-> P(tc, k)]
<1>1. n \in Nat /\ DOMAIN t = 1 .. n /\ t \in [1 .. n -> Char]
  BY DEF Phrase
<1>2. /\ DOMAIN tc = 1 .. n + 1 /\ tc[n + 1] = c /\ \A k \in 1 .. n : tc[k] = t[k]
  BY AppendProperties DEF Phrase
<1>3. \A k \in 1 .. n + 1 : tc[k] \in Char
  BY <1>1, <1>2
<1>4. \A d \in Char : <<d>> \in A /\ <<>> \in A /\ <<" ">> \in A
  <2>1. " " \in Char
    BY DEF Char
  <2> QED
    BY <2>1, Single, EmptySeq
<1>5. Collapse(t) = FlattenSeq(s) /\ Collapse(tc) = FlattenSeq(u)
  BY DEF Collapse
<1>6. ASSUME NEW k \in 1 .. n PROVE P(t, k) = P(tc, k)
  <2>1. k > 1 => k - 1 \in 1 .. n
    BY <1>1
  <2> QED
    BY <1>2, <2>1
<1>7. P(tc, n + 1) = Piece(t, c)
  <2>1. n + 1 > 1 <=> n > 0
    BY <1>1
  <2> HIDE DEF tc, n
  <2>2. (n + 1) - 1 = n /\ (n > 0 => tc[n] = t[n])
    BY <1>1, <1>2
  <2> QED
    BY <1>2, <2>1, <2>2 DEF Piece, n
<1> HIDE DEF tc, n, A
<1>8. \A k \in 1 .. n + 1 : P(tc, k) \in A
  BY <1>3, <1>4
<1> HIDE DEF P
<1>9. e \in [1 .. n + 1 -> A]
  BY <1>8
<1>10. Lists(s, e, n) /\ Lists(u, e, n + 1)
  <2>1. \A k \in 1 .. n : k \in 1 .. n + 1
    BY <1>1
  <2> QED
    BY <1>1, <1>2, <1>6, <2>1 DEF Lists
<1>11. e[n + 1] = Piece(t, c) /\ e[n + 1] \in A
  BY <1>1, <1>7, <1>8
<1> HIDE DEF e, s, u
<1>12. s \in Seq(A) /\ Len(s) = n /\ u = Append(s, e[n + 1])
  BY <1>1, <1>9, <1>10, ListSnoc
<1>13. FlattenSeq(s) \in A /\ FlattenSeq(u) = FlattenSeq(s) \o e[n + 1] /\ (s = <<>> => FlattenSeq(s) = <<>>)
  BY <1>11, <1>12, FlattenSnoc DEF A
<1>14. t = <<>> => s = <<>>
  BY <1>1, <1>12, EmptySeq DEF n
<1> QED
  BY <1>5, <1>11, <1>13, <1>14 DEF Phrase, A, tc


(* The passes and the walk, kept together one character at a time.         *)

\* The order in which three texts are joined.
Assoc(a, b, c) == (a \o b) \o c = a \o (b \o c)

\* Joining texts is associative.
LEMMA Associates ==
  ASSUME NEW S, NEW a \in Seq(S), NEW b \in Seq(S), NEW c \in Seq(S)
  PROVE  Assoc(a, b, c)
BY ConcatAssociative DEF Assoc

\* The space that stands for a run, if there is one.
Gap(b) == IF b THEN <<" ">> ELSE <<>>

\* The two normalisers after the same characters: t has passed the first three passes of
\* engine.ts, acc is what the walk has.  The collapsed text is what the walk has put out, with a
\* space before it if the text began with a run, and one after it if a run is pending.
Matches(t, acc, lead) ==
  /\ t \in Phrase /\ acc \in Acc /\ lead \in BOOLEAN
  /\ acc.pending <=> Len(t) > 0 /\ JsCollapsible(t[Len(t)])
  /\ acc.out # <<>> => acc.out[1] # " " /\ acc.out[Len(acc.out)] # " "
  /\ acc.out = <<>> => lead = acc.pending
  /\ Collapse(t) = (Gap(lead) \o acc.out) \o Gap(acc.pending /\ acc.out # <<>>)

\* They still match after one character more.
LEMMA MatchesStep ==
  ASSUME NEW t, NEW acc, NEW lead, Matches(t, acc, lead), NEW c \in Char, ~is_zero_width(c),
         c # "u17"
  PROVE  \E l : Matches(Append(t, fold_leet(c)), Walk(acc, c), l)
<1> DEFINE d == fold_leet(c)
           td == Append(t, d)
           C == Collapse(t)
           O == acc.out
           p == acc.pending
           gap == Gap(p /\ O # <<>>)
           next == Walk(acc, c)
           S == Seq(Char)
<1>0. /\ t \in S /\ acc \in Acc /\ lead \in BOOLEAN /\ O \in S /\ p \in BOOLEAN
      /\ p <=> Len(t) > 0 /\ JsCollapsible(t[Len(t)])
      /\ O # <<>> => O[1] # " " /\ O[Len(O)] # " "
      /\ O = <<>> => lead = p
      /\ C = (Gap(lead) \o O) \o gap
  BY DEF Matches, Acc, Phrase
<1>1. next \in Acc /\ d \in Char
  BY <1>0, WalkType
<1>9. JsCollapsible(d) <=> is_collapsible(d)
  BY DEF JsCollapsible, is_collapsible, fold_leet
<1> HIDE DEF d
<1>2. td \in S /\ Len(td) > 0 /\ td[Len(td)] = d
  <2>0. t \in Seq(Char) /\ d \in Char
    BY <1>0, <1>1
  <2>1. Len(t) \in Nat /\ Len(td) = Len(t) + 1 /\ td \in S /\ td[Len(t) + 1] = d
    BY <2>0, AppendProperties
  <2> QED
    BY <2>1
<1>3. C \in S /\ Collapse(td) = C \o Piece(t, d)
  BY <1>0, <1>1, CollapseSnoc DEF Phrase
<1>4. " " \in Char /\ \A b : Gap(b) \in S
  <2>1. " " \in Char
    BY DEF Char
  <2> QED
    BY <2>1, Single, EmptySeq DEF Gap
<1>5. \A b : (b <=> TRUE) => Gap(b) = <<" ">>
  BY DEF Gap
<1>6. \A b : (b <=> FALSE) => Gap(b) = <<>>
  BY DEF Gap
<1> HIDE DEF td, C, S, gap
<1>7. CASE JsCollapsible(d)
  <2>1. next = [acc EXCEPT !.pending = TRUE]
    BY <1>7, <1>9 DEF Walk, d
  <2>2. next.out = O /\ next.pending = TRUE
    BY <1>0, <2>1 DEF Acc
  <2>3. Piece(t, d) = Gap(~p)
    BY <1>0, <1>7 DEF Piece, Gap
  <2>4. CASE p
    <3>1. Piece(t, d) = <<>>
      BY <1>6, <2>3, <2>4
    <3>2. Collapse(td) = C
      BY <1>3, <3>1, ConcatEmptySeq DEF S
    <3>3. Matches(td, next, lead)
      BY <1>0, <1>1, <1>2, <1>7, <2>2, <2>4, <3>2 DEF Matches, Phrase, S, gap
    <3> QED
      BY <3>3 DEF td, d
  <2>5. CASE ~p /\ O = <<>>
    <3>1. Piece(t, d) = <<" ">> /\ Gap(lead) = <<>> /\ gap = <<>> /\ Gap(TRUE) = <<" ">>
      BY <1>0, <2>3, <2>5 DEF Gap, gap
    <3>2. C = <<>> /\ Collapse(td) = <<" ">>
      BY <1>0, <1>3, <1>4, <2>5, <3>1, ConcatEmptySeq, EmptySeq, ZenonT(60) DEF S
    <3>3. (Gap(TRUE) \o O) \o Gap(next.pending /\ next.out # <<>>) = <<" ">>
      <4>1. Gap(next.pending /\ next.out # <<>>) = <<>>
        BY <2>2, <2>5 DEF Gap
      <4> QED
        BY <1>4, <2>5, <3>1, <4>1, ConcatEmptySeq DEF S
    <3>4. Matches(td, next, TRUE)
      BY <1>0, <1>1, <1>2, <1>7, <2>2, <2>5, <3>2, <3>3 DEF Matches, Phrase, S
    <3> QED
      BY <3>4 DEF td, d
  <2>6. CASE ~p /\ O # <<>>
    <3>1. Piece(t, d) = <<" ">> /\ gap = <<>> /\ Gap(next.pending /\ next.out # <<>>) = <<" ">>
      BY <1>0, <2>2, <2>3, <2>6 DEF Gap, gap
    <3>2. Gap(lead) \o O \in S
      BY <1>0, <1>4, ConcatProperties DEF S
    <3>3. C = Gap(lead) \o O
      BY <1>0, <3>1, <3>2, ConcatEmptySeq DEF S
    <3>4. Collapse(td) = (Gap(lead) \o O) \o Gap(next.pending /\ next.out # <<>>)
      BY <1>3, <3>1, <3>3
    <3>5. Matches(td, next, lead)
      BY <1>0, <1>1, <1>2, <1>7, <2>2, <2>6, <3>4 DEF Matches, Phrase, S
    <3> QED
      BY <3>5 DEF td, d
  <2> QED
    BY <1>0, <2>4, <2>5, <2>6
<1>8. CASE ~JsCollapsible(d)
  <2> DEFINE more == (O \o gap) \o <<d>>
  <2>1. next = [out |-> more, pending |-> FALSE]
    BY <1>8, <1>9 DEF Walk, d, gap, Gap
  <2>2. next.out = more /\ next.pending = FALSE
    BY <2>1
  <2>3. Piece(t, d) = <<d>> /\ d # " "
    BY <1>8 DEF Piece, JsCollapsible, is_js_whitespace
  <2>4. gap \in S /\ <<d>> \in S /\ <<d>> # <<>> /\ Len(<<d>>) = 1 /\ <<d>>[1] = d
    BY <1>1, <1>4, Single DEF S, gap
  <2>5. O \o gap \in S /\ more \in S
    BY <1>0, <2>4, ConcatProperties DEF S
  <2>6. more # <<>> /\ more[1] # " " /\ more[Len(more)] # " "
    <3> DEFINE og == O \o gap
    <3>1. Len(og) \in Nat /\ og \in S
      BY <2>5 DEF S
    <3>2. IsJoin(more, og, <<d>>, Len(og), 1, Char)
      BY <2>4, <3>1, Joined DEF IsList, S
    <3>3. Len(more) = Len(og) + 1 /\ more[Len(og) + 1] = d /\ \A i \in 1 .. Len(og) : more[i] = og[i]
      <4>1. 1 \in 1 .. 1
        OBVIOUS
      <4> QED
        BY <2>4, <3>2, <4>1 DEF IsJoin, IsList
    <3>4. CASE O = <<>>
      <4>1. gap = <<>>
        BY <3>4 DEF gap, Gap
      <4>2. og = <<>> /\ Len(og) = 0
        BY <1>0, <3>4, <4>1, ConcatEmptySeq, EmptySeq DEF S
      <4>3. Len(more) = 1 /\ more[1] = d
        <5> HIDE DEF more, og
        <5> QED
          BY <3>3, <4>2
      <4>4. more # <<>>
        BY <4>3, EmptySeq
      <4> HIDE DEF more
      <4> QED
        BY <2>3, <4>3, <4>4
    <3>5. CASE O # <<>>
      <4>1. Len(O) \in Nat \ {0} /\ Len(gap) \in Nat
        <5>1. O \in Seq(Char) /\ gap \in Seq(Char)
          BY <1>0, <2>4 DEF S
        <5> HIDE DEF O
        <5> QED
          BY <3>5, <5>1, EmptySeq, LenProperties
      <4>2. IsJoin(og, O, gap, Len(O), Len(gap), Char)
        BY <1>0, <2>4, <4>1, Joined DEF IsList, S
      <4>3. 1 \in 1 .. Len(O) /\ og[1] = O[1] /\ Len(og) = Len(O) + Len(gap)
        BY <4>1, <4>2 DEF IsJoin, IsList
      <4>4. 1 \in 1 .. Len(og)
        BY <4>1, <4>3
      <4> HIDE DEF more, og
      <4>5. more[1] = O[1]
        BY <3>3, <4>3, <4>4
      <4>6. Len(more) # 0 /\ more[Len(more)] = d
        BY <3>1, <3>3
      <4>7. more # <<>>
        BY <4>6, EmptySeq
      <4> QED
        BY <1>0, <2>3, <3>5, <4>5, <4>6, <4>7
    <3> QED
      BY <3>4, <3>5
  <2>7. Collapse(td) = (Gap(lead) \o more) \o Gap(next.pending /\ next.out # <<>>)
    <3>1. Gap(lead) \in S /\ Gap(lead) \o more \in S
      BY <1>4, <2>5, ConcatProperties DEF S
    <3>2. Gap(next.pending /\ next.out # <<>>) = <<>>
      BY <1>6, <2>2
    <3>3. (Gap(lead) \o more) \o <<>> = Gap(lead) \o more
      BY <3>1, ConcatEmptySeq DEF S
    <3>0. Gap(lead) \in Seq(Char) /\ O \in Seq(Char) /\ gap \in Seq(Char) /\ <<d>> \in Seq(Char)
            /\ O \o gap \in Seq(Char)
      BY <1>0, <2>4, <2>5, <3>1 DEF S
    <3>a. Assoc(Gap(lead), O, gap) /\ Assoc(Gap(lead), O \o gap, <<d>>)
      BY <3>0, Associates
    <3>4. (Gap(lead) \o O) \o gap = Gap(lead) \o (O \o gap)
      BY <3>a DEF Assoc
    <3>5. (Gap(lead) \o (O \o gap)) \o <<d>> = Gap(lead) \o more
      BY <3>a DEF Assoc
    <3> QED
      BY <1>0, <1>3, <2>3, <3>2, <3>3, <3>4, <3>5
  <2> HIDE DEF more
  <2>8. Matches(td, next, lead)
    BY <1>0, <1>1, <1>2, <1>8, <2>2, <2>6, <2>7 DEF Matches, Phrase, S
  <2> QED
    BY <2>8 DEF td, d
<1> QED
  BY <1>7, <1>8


(* Trimming, and the two normalisers.                                      *)

\* Where the ends of a set of numbers are.
LEMMA Ends ==
  ASSUME NEW X, X \subseteq Nat, NEW a \in X, NEW b \in X, \A x \in X : a <= x /\ x <= b
  PROVE  Min(X) = a /\ Max(X) = b
<1> DEFINE lo == CHOOSE x \in X : \A y \in X : x =< y
           hi == CHOOSE x \in X : \A y \in X : x >= y
<1>1. lo \in X /\ \A y \in X : lo <= y
  OBVIOUS
<1>2. hi \in X /\ \A y \in X : hi >= y
  OBVIOUS
<1>3. Min(X) = lo /\ Max(X) = hi
  BY DEF Min, Max
<1> HIDE DEF lo, hi
<1>4. lo <= a /\ a <= lo /\ hi >= b /\ hi <= b /\ lo \in Nat /\ hi \in Nat /\ a \in Nat /\ b \in Nat
  BY <1>1, <1>2
<1> QED
  BY <1>3, <1>4

\* A text of n spaces.
Blank(g, n) == IsList(g, n, Char) /\ \A i \in 1 .. n : is_js_whitespace(g[i])

\* A gap is nothing or a space.
LEMMA GapIs ==
  ASSUME NEW b
  PROVE  \E n \in Nat : Blank(Gap(b), n)
<1>1. " " \in Char /\ is_js_whitespace(" ")
  BY DEF Char, is_js_whitespace
<1> DEFINE sp == " "
<1> HIDE DEF sp
<1>2. sp \in Char /\ is_js_whitespace(sp)
  BY <1>1 DEF sp
<1>3. Blank(<<sp>>, 1)
  <2>1. <<sp>> \in Seq(Char) /\ Len(<<sp>>) = 1 /\ <<sp>>[1] = sp
    BY <1>2, Single
  <2>2. \A i \in 1 .. 1 : i = 1
    OBVIOUS
  <2> QED
    BY <1>2, <2>1, <2>2 DEF Blank, IsList
<1>4. Blank(<<>>, 0)
  BY EmptySeq DEF Blank, IsList
<1>5. Gap(b) = <<sp>> \/ Gap(b) = <<>>
  BY DEF Gap, sp
<1> QED
  BY <1>3, <1>4, <1>5

\* A text that begins and ends with something else.
Solid(o) == o # <<>> /\ ~is_js_whitespace(o[1]) /\ ~is_js_whitespace(o[Len(o)])

\* trim takes the spaces at both ends, and nothing else.
LEMMA TrimGaps ==
  ASSUME NEW o \in Phrase, Solid(o), NEW a, NEW b
  PROVE  Trim((Gap(a) \o o) \o Gap(b)) = o
<1> DEFINE m == Len(o)
           x == Gap(a) \o o
           y == x \o Gap(b)
           solid == {i \in DOMAIN y : ~is_js_whitespace(y[i])}
<1>0. m \in Nat /\ m # 0 /\ IsList(o, m, Char)
  BY EmptySeq DEF Phrase, IsList, Solid
<1>1. PICK k \in Nat : Blank(Gap(a), k)
  BY GapIs
<1>2. PICK l \in Nat : Blank(Gap(b), l)
  BY GapIs
<1>a. k \in Nat /\ l \in Nat
  BY <1>1, <1>2
<1> HIDE DEF m
<1>3. IsJoin(x, Gap(a), o, k, m, Char)
  BY <1>0, <1>a, <1>1, Joined DEF Blank
<1> HIDE DEF x
<1>4. IsJoin(y, x, Gap(b), k + m, l, Char)
  <2>1. IsList(x, k + m, Char) /\ k + m \in Nat /\ l \in Nat
    BY <1>0, <1>a, <1>3 DEF IsJoin
  <2> QED
    BY <1>2, <2>1, Joined DEF Blank
<1> HIDE DEF y
<1>5. /\ y \in Seq(Char) /\ Len(y) = (k + m) + l /\ DOMAIN y = 1 .. (k + m) + l
      /\ \A i \in 1 .. k : is_js_whitespace(y[i])
      /\ \A i \in 1 .. m : y[k + i] = o[i]
      /\ \A i \in 1 .. l : is_js_whitespace(y[(k + m) + i])
  <2>1. (\A i \in 1 .. k : i \in 1 .. k + m) /\ \A i \in 1 .. m : k + i \in 1 .. k + m
    BY <1>0, <1>a
  <2>2. y \in Seq(Char) /\ Len(y) = (k + m) + l
    BY <1>4 DEF IsJoin, IsList
  <2>3. (\A i \in 1 .. k + m : y[i] = x[i]) /\ \A i \in 1 .. l : y[(k + m) + i] = Gap(b)[i]
    BY <1>4 DEF IsJoin
  <2>4. (\A i \in 1 .. k : x[i] = Gap(a)[i]) /\ \A i \in 1 .. m : x[k + i] = o[i]
    BY <1>3 DEF IsJoin
  <2> QED
    BY <1>1, <1>2, <2>1, <2>2, <2>3, <2>4, LenProperties DEF Blank
<1>6. ASSUME NEW i \in solid PROVE k + 1 <= i /\ i <= k + m
  <2>1. i \in 1 .. (k + m) + l /\ ~is_js_whitespace(y[i])
    BY <1>5
  <2>2. i \notin 1 .. k
    BY <1>5, <2>1
  <2>3. CASE i > k + m
    <3>1. i - (k + m) \in 1 .. l /\ (k + m) + (i - (k + m)) = i
      BY <1>0, <1>a, <2>1, <2>3
    <3> QED
      BY <1>5, <2>1, <3>1
  <2> QED
    BY <1>0, <1>a, <2>1, <2>2, <2>3
<1>7. k + 1 \in solid /\ k + m \in solid
  <2>1. 1 \in 1 .. m /\ m \in 1 .. m /\ k + 1 \in 1 .. (k + m) + l /\ k + m \in 1 .. (k + m) + l
    BY <1>0, <1>a
  <2>2. y[k + 1] = o[1] /\ y[k + m] = o[m]
    BY <1>5, <2>1
  <2> QED
    BY <1>5, <2>1, <2>2 DEF Solid, m
<1>8. Trim(y) = SubSeq(y, Min(solid), Max(solid))
  BY <1>7 DEF Trim
<1>9. solid \subseteq Nat
  BY <1>0, <1>a, <1>5
<1> HIDE DEF solid
<1>10. Min(solid) = k + 1 /\ Max(solid) = k + m
  BY <1>6, <1>7, <1>9, Ends
<1> DEFINE z == SubSeq(y, k + 1, k + m)
<1>11. z \in Seq(Char) /\ Len(z) = m /\ \A i \in 1 .. m : z[i] = y[k + i]
  <2>1. k + 1 \in Int /\ k + m \in Int /\ k + 1 <= k + m /\ (k + m) - (k + 1) + 1 = m
          /\ \A i \in 1 .. m : (k + 1) + i - 1 = k + i
    BY <1>0, <1>a
  <2>2. \A i \in k + 1 .. k + m : y[i] \in Char
    <3>1. \A i \in k + 1 .. k + m : i \in 1 .. Len(y)
      BY <1>0, <1>a, <1>5
    <3> QED
      BY <1>5, <3>1, ElementOfSeq
  <2>3. /\ z \in Seq(Char)
        /\ Len(z) = IF k + 1 <= k + m THEN (k + m) - (k + 1) + 1 ELSE 0
        /\ \A i \in 1 .. (k + m) - (k + 1) + 1 : z[i] = y[(k + 1) + i - 1]
    BY <2>1, <2>2, SubSeqProperties
  <2> HIDE DEF z
  <2> QED
    BY <2>1, <2>3
<1> HIDE DEF z
<1>12. o \in Seq(Char) /\ Len(o) = m /\ \A i \in 1 .. m : z[i] = o[i]
  BY <1>0, <1>a, <1>5, <1>11 DEF IsList
<1>13. z = o
  BY <1>11, <1>12, SeqEqual
<1> QED
  BY <1>8, <1>10, <1>13 DEF y, x, z

\* When the two normalisers match, they are done alike.
LEMMA MatchesTrims ==
  ASSUME NEW t, NEW acc, NEW lead, Matches(t, acc, lead)
  PROVE  Trim(Collapse(t)) = acc.out
<1> DEFINE o == acc.out
           gap == Gap(acc.pending /\ o # <<>>)
<1>1. o \in Phrase /\ (o # <<>> => Solid(o)) /\ Collapse(t) = (Gap(lead) \o o) \o gap
  BY DEF Matches, Acc, Solid, is_js_whitespace
<1>2. CASE o # <<>>
  <2> HIDE DEF o
  <2>1. Trim((Gap(lead) \o o) \o Gap(acc.pending /\ o # <<>>)) = o
    BY <1>1, <1>2, TrimGaps
  <2> QED
    BY <1>1, <2>1 DEF o
<1>3. CASE o = <<>>
  <2>1. gap = <<>>
    BY <1>3 DEF Gap
  <2>2. PICK k \in Nat : Blank(Gap(lead), k)
    BY GapIs
  <2> DEFINE g == Gap(lead)
  <2>3. g \in Seq(Char) /\ DOMAIN g = 1 .. k /\ \A i \in 1 .. k : is_js_whitespace(g[i])
    BY <2>2, LenProperties DEF IsList, Blank
  <2> HIDE DEF g
  <2>4. (g \o <<>>) \o <<>> = g
    BY <2>3, ConcatEmptySeq
  <2>5. Collapse(t) = g
    BY <1>1, <1>3, <2>1, <2>4 DEF g
  <2>6. Trim(g) = <<>>
    BY <2>3 DEF Trim
  <2> QED
    BY <1>3, <2>5, <2>6
<1> QED
  BY <1>2, <1>3

\* The two passes of engine.ts between the fold and the collapse.
Passes(t) == Mapped(fold_leet, Strip(t))

\* They add, for a character at the end, its letter, or nothing when it has no width.
LEMMA PassesSnoc ==
  ASSUME NEW t \in Phrase, NEW c \in Char
  PROVE  /\ Passes(t) \in Phrase
         /\ Passes(Append(t, c)) = IF is_zero_width(c) THEN Passes(t) ELSE Append(Passes(t), fold_leet(c))
         /\ t = <<>> => Passes(t) = <<>>
<1> DEFINE s == Strip(t)
<1>1. s \in Phrase /\ Strip(Append(t, c)) = (IF is_zero_width(c) THEN s ELSE Append(s, c))
        /\ (t = <<>> => s = <<>>)
  BY StripSnoc
<1>2. s = <<>> => Mapped(fold_leet, s) = <<>>
  BY DEF Mapped
<1> HIDE DEF s
<1>3. Mapped(fold_leet, s) \in Phrase
        /\ Mapped(fold_leet, Append(s, c)) = Append(Mapped(fold_leet, s), fold_leet(c))
  BY <1>1, LeetSnoc
<1>4. Passes(t) = Mapped(fold_leet, s)
  BY DEF Passes, s
<1>5. Passes(Append(t, c)) = Mapped(fold_leet, IF is_zero_width(c) THEN s ELSE Append(s, c))
  BY <1>1 DEF Passes
<1> QED
  BY <1>1, <1>2, <1>3, <1>4, <1>5

\* The passes of engine.ts and the walk of policy-core come to the same text, on a folded text that
\* both versions of the tables read alike.
LEMMA PassesMatchWalk ==
  ASSUME NEW t \in Phrase, VersionStable(t), NEW w, Walks(w, t)
  PROVE  Trim(Collapse(Passes(t))) = w[Len(t)].out /\ w[Len(t)].out \in Phrase
<1> DEFINE n == Len(t)
           pre(k) == SubSeq(t, 1, k)
<1>1. n \in Nat /\ t \in Seq(Char) /\ \A k \in 1 .. n : t[k] \in Char /\ t[k] # "u17"
  BY DEF Phrase, VersionStable
<1>3. pre(0) = <<>> /\ pre(n) = t
  BY <1>1, SubSeqEmpty, SubSeqFull
<1>4. ASSUME NEW k \in 0 .. n PROVE pre(k) \in Phrase
  <2>1. \A i \in 1 .. k : t[i] \in Char
    BY <1>1
  <2> QED
    BY <2>1, SubSeqProperties DEF Phrase
<1>5. ASSUME NEW k \in Nat, k + 1 <= n PROVE pre(k + 1) = Append(pre(k), t[k + 1])
  <2>1. 1 \in 1 .. Len(t) /\ k + 1 \in 1 .. Len(t) /\ (k + 1) - 1 = k /\ k \in 0 .. n
    BY <1>1, <1>5
  <2>2. SubSeq(t, 1, k + 1) = SubSeq(t, 1, (k + 1) - 1) \o <<t[k + 1]>>
    BY <1>1, <2>1, SubSeqRecursiveSecond
  <2>3. pre(k) \in Seq(Char) /\ t[k + 1] \in Char
    BY <1>1, <1>4, <2>1 DEF Phrase
  <2>4. Append(pre(k), t[k + 1]) = pre(k) \o <<t[k + 1]>>
    BY <2>3, AppendIsConcat
  <2> QED
    BY <2>1, <2>2, <2>4
<1> HIDE DEF pre, n
<1> DEFINE T == {k \in Nat : k <= n => \E lead : Matches(Passes(pre(k)), w[k], lead)}
<1>6. 0 \in T
  <2>1. <<>> \in Phrase /\ "b" \in Char
    BY EmptySeq DEF Phrase, Char
  <2>2. Passes(<<>>) = <<>>
    BY <2>1, PassesSnoc
  <2>3. Collapse(<<>>) = <<>>
    BY <2>1, CollapseSnoc
  <2>4. w[0] = Start
    BY DEF Walks
  <2>5. (Gap(FALSE) \o <<>>) \o Gap(FALSE) = <<>>
    BY <2>1, ConcatEmptySeq DEF Gap, Phrase
  <2>6. Start \in Acc /\ Start.out = <<>> /\ Start.pending = FALSE
    BY <2>1 DEF Start, Acc
  <2>7. Gap(Start.pending /\ Start.out # <<>>) = Gap(FALSE)
    BY <2>6 DEF Gap
  <2>8. Len(<<>>) = 0
    OBVIOUS
  <2>9. Matches(<<>>, Start, FALSE)
    <3> DEFINE e == <<>>
               g == Gap(FALSE)
    <3>a. e \in Phrase /\ Collapse(e) = e /\ (g \o e) \o g = e /\ e = <<>>
      BY <2>1, <2>3, <2>5
    <3>b. Start.out = e /\ ~(Len(e) > 0)
      BY <2>6, <2>8
    <3>c. Gap(Start.pending /\ Start.out # <<>>) = g
      BY <2>7
    <3>1. /\ e \in Phrase /\ Collapse(e) = e /\ (g \o e) \o g = e /\ Start.out = e /\ ~(Len(e) > 0)
          /\ Gap(Start.pending /\ Start.out # <<>>) = g /\ e = <<>>
      BY <3>a, <3>b, <3>c
    <3> HIDE DEF e, g
    <3>2. Collapse(e) = (Gap(FALSE) \o Start.out) \o Gap(Start.pending /\ Start.out # <<>>)
      BY <3>1 DEF g
    <3>3. Start.pending <=> Len(e) > 0 /\ JsCollapsible(e[Len(e)])
      BY <2>6, <3>1
    <3>4. Start.out # <<>> => Start.out[1] # " " /\ Start.out[Len(Start.out)] # " "
      BY <3>1
    <3>5. Matches(e, Start, FALSE)
      BY <2>6, <3>1, <3>2, <3>3, <3>4 DEF Matches
    <3> QED
      BY <3>5 DEF e
  <2> QED
    BY <1>3, <2>2, <2>4, <2>9
<1>7. ASSUME NEW k \in Nat, k \in T PROVE k + 1 \in T
  <2> SUFFICES ASSUME k + 1 <= n PROVE \E lead : Matches(Passes(pre(k + 1)), w[k + 1], lead)
    OBVIOUS
  <2> DEFINE c == t[k + 1]
             p == pre(k)
  <2>1. k <= n /\ k \in 0 .. n /\ k + 1 \in 1 .. n /\ (k + 1) - 1 = k
    BY <1>1
  <2>2. c \in Char /\ c # "u17" /\ p \in Phrase /\ pre(k + 1) = Append(p, c)
    BY <1>1, <1>4, <1>5, <2>1
  <2>3. w[k] \in Acc /\ w[k + 1] = Walk(w[k], c)
    BY <2>1 DEF Walks, n
  <2>4. PICK lead : Matches(Passes(p), w[k], lead)
    BY <1>7, <2>1
  <2>6. Passes(pre(k + 1)) = IF is_zero_width(c) THEN Passes(p) ELSE Append(Passes(p), fold_leet(c))
    BY <2>2, PassesSnoc
  <2> HIDE DEF c, p
  <2>7. CASE is_zero_width(c)
    <3>1. w[k + 1] = w[k]
      BY <2>3, <2>7 DEF Walk
    <3> QED
      BY <2>4, <2>6, <2>7, <3>1
  <2>8. CASE ~is_zero_width(c)
    <3>1. \E l : Matches(Append(Passes(p), fold_leet(c)), Walk(w[k], c), l)
      BY <2>2, <2>4, <2>8, MatchesStep
    <3> QED
      BY <2>3, <2>6, <2>8, <3>1
  <2> QED
    BY <2>7, <2>8
<1>8. n \in T
  <2> HIDE DEF T
  <2> QED
    BY <1>1, <1>6, <1>7, NatInd
<1>9. PICK lead : Matches(Passes(t), w[n], lead)
  BY <1>1, <1>3, <1>8
<1>10. Trim(Collapse(Passes(t))) = w[n].out /\ w[n].out \in Phrase
  BY <1>9, MatchesTrims DEF Matches, Acc
<1> QED
  BY <1>10 DEF n

\* normalize of engine.ts and normalize of policy-core agree on every text that both versions of
\* the tables read alike.
LEMMA NormalizersAgree ==
  ASSUME NEW t \in Phrase, VersionStable(t)
  PROVE  normalize(t) = normalize_rs(t) /\ normalize(t) \in Phrase
<1> DEFINE f == Folded(t)
<1>1. f \in Phrase /\ VersionStable(f)
  BY FoldedType
<1>2. PICK w : Walks(w, f) /\ normalize_rs(t) = w[Len(f)].out
  BY <1>1, WalkIs
<1>3. normalize(t) = Trim(Collapse(Passes(f)))
  BY DEF normalize, Passes
<1> HIDE DEF f
<1>4. Trim(Collapse(Passes(f))) = w[Len(f)].out /\ w[Len(f)].out \in Phrase
  BY <1>1, <1>2, PassesMatchWalk
<1> QED
  BY <1>2, <1>3, <1>4


(* The byte order of texts, for the enclave's search in sorted tables.     *)

\* a and b are the same before place i, where a has the lower character.
LessAt(a, b, i) ==
  /\ i \in 1 .. Len(a) /\ i \in 1 .. Len(b)
  /\ \A j \in 1 .. i - 1 : a[j] = b[j]
  /\ ByteRank(a[i]) < ByteRank(b[i])

\* Two texts with the same beginning.
LEMMA SameStart ==
  ASSUME NEW a \in Phrase, NEW b \in Phrase, NEW k \in Nat, k <= Len(a), k <= Len(b)
  PROVE  SubSeq(a, 1, k) = SubSeq(b, 1, k) <=> \A j \in 1 .. k : a[j] = b[j]
<1> DEFINE x == SubSeq(a, 1, k)
           y == SubSeq(b, 1, k)
<1>0. Len(a) \in Nat /\ Len(b) \in Nat /\ a \in Seq(Char) /\ b \in Seq(Char)
  BY DEF Phrase
<1>1. \A i \in 1 .. k : i \in 1 .. Len(a) /\ i \in 1 .. Len(b)
  BY <1>0
<1>2. \A i \in 1 .. k : a[i] \in Char /\ b[i] \in Char
  BY <1>0, <1>1, ElementOfSeq
<1>3. k - 1 + 1 = k /\ (\A i \in 1 .. k : 1 + i - 1 = i) /\ (IF 1 <= k THEN k - 1 + 1 ELSE 0) = k /\ 1 \in Int /\ k \in Int
  OBVIOUS
<1>4. /\ x \in Seq(Char) /\ Len(x) = IF 1 <= k THEN k - 1 + 1 ELSE 0
      /\ \A i \in 1 .. k - 1 + 1 : x[i] = a[1 + i - 1]
  BY <1>2, <1>3, SubSeqProperties
<1>5. /\ y \in Seq(Char) /\ Len(y) = IF 1 <= k THEN k - 1 + 1 ELSE 0
      /\ \A i \in 1 .. k - 1 + 1 : y[i] = b[1 + i - 1]
  BY <1>2, <1>3, SubSeqProperties
<1> HIDE DEF x, y
<1>6. Len(x) = k /\ Len(y) = k /\ \A i \in 1 .. k : x[i] = a[i] /\ y[i] = b[i]
  BY <1>3, <1>4, <1>5
<1>7. x = y => \A j \in 1 .. k : a[j] = b[j]
  BY <1>6
<1>8. ASSUME \A j \in 1 .. k : a[j] = b[j] PROVE x = y
  <2>1. \A i \in 1 .. k : x[i] = y[i]
    BY <1>6, <1>8
  <2> QED
    BY <1>4, <1>5, <1>6, <2>1, SeqEqual
<1> QED
  BY <1>7, <1>8 DEF x, y

\* What IsPrefix and the order say, place by place.
LEMMA PrefixIs ==
  ASSUME NEW a \in Phrase, NEW b \in Phrase
  PROVE  IsPrefix(a, b) <=> StartsWith(a, b)
<1>1. Len(a) \in Nat /\ Len(b) \in Nat
  BY DEF Phrase
<1>2. Len(a) <= Len(b) => (SubSeq(a, 1, Len(a)) = SubSeq(b, 1, Len(a)) <=> \A j \in 1 .. Len(a) : a[j] = b[j])
  <2> SUFFICES ASSUME Len(a) <= Len(b)
               PROVE  SubSeq(a, 1, Len(a)) = SubSeq(b, 1, Len(a)) <=> \A j \in 1 .. Len(a) : a[j] = b[j]
    OBVIOUS
  <2> DEFINE k == Len(a)
  <2>1. k \in Nat /\ k <= Len(a) /\ k <= Len(b)
    BY <1>1
  <2>2. SubSeq(a, 1, k) = SubSeq(b, 1, k) <=> \A j \in 1 .. k : a[j] = b[j]
    <3> HIDE DEF k
    <3> QED
      BY <2>1, SameStart
  <2> QED
    BY <2>2
<1> QED
  BY <1>2 DEF IsPrefix, StartsWith

\* The order is that of the first place where two texts differ, a text's own
\* beginnings being before it.
LEMMA OrderIs ==
  ASSUME NEW a \in Phrase, NEW b \in Phrase
  PROVE  AtOrBelow(a, b) <=> StartsWith(a, b) \/ \E i \in Nat : LessAt(a, b, i)
<1>1. Len(a) \in Nat /\ Len(b) \in Nat /\ DOMAIN a = 1 .. Len(a) /\ DOMAIN b = 1 .. Len(b)
  BY DEF Phrase
<1>2. ASSUME NEW i \in 1 .. Len(a), i \in 1 .. Len(b)
      PROVE  (SubSeq(a, 1, i - 1) = SubSeq(b, 1, i - 1) /\ ByteRank(a[i]) < ByteRank(b[i])) <=> LessAt(a, b, i)
  <2>1. i - 1 \in Nat /\ i - 1 <= Len(a) /\ i - 1 <= Len(b)
    BY <1>1, <1>2
  <2>2. SubSeq(a, 1, i - 1) = SubSeq(b, 1, i - 1) <=> \A j \in 1 .. i - 1 : a[j] = b[j]
    BY <2>1, SameStart
  <2> QED
    BY <1>2, <2>2 DEF LessAt
<1>3. ASSUME NEW i \in DOMAIN a \cap DOMAIN b, SubSeq(a, 1, i - 1) = SubSeq(b, 1, i - 1),
             ByteRank(a[i]) < ByteRank(b[i])
      PROVE  \E k \in Nat : LessAt(a, b, k)
  <2>1. i \in 1 .. Len(a) /\ i \in 1 .. Len(b) /\ i \in Nat
    BY <1>1
  <2>2. LessAt(a, b, i)
    BY <1>2, <1>3, <2>1
  <2> QED
    BY <2>1, <2>2
<1>4. ASSUME NEW i \in Nat, LessAt(a, b, i)
      PROVE  \E k \in DOMAIN a \cap DOMAIN b : /\ SubSeq(a, 1, k - 1) = SubSeq(b, 1, k - 1)
                                               /\ ByteRank(a[k]) < ByteRank(b[k])
  <2>1. i \in 1 .. Len(a) /\ i \in 1 .. Len(b)
    BY <1>4 DEF LessAt
  <2>2. SubSeq(a, 1, i - 1) = SubSeq(b, 1, i - 1) /\ ByteRank(a[i]) < ByteRank(b[i])
    BY <1>2, <1>4, <2>1
  <2>3. i \in DOMAIN a \cap DOMAIN b
    BY <1>1, <2>1
  <2> QED
    BY <2>2, <2>3
<1>5. IsPrefix(a, b) <=> StartsWith(a, b)
  BY PrefixIs
<1> QED
  BY <1>3, <1>4, <1>5 DEF AtOrBelow

\* Different characters have different bytes.
LEMMA RankIs ==
  ASSUME NEW c \in Char
  PROVE  ByteRank(c) \in Nat /\ \A d \in Char : ByteRank(c) = ByteRank(d) => c = d
<1> DEFINE Of == <<" ", "$", "B", "b", "s", "nel", "mk", "bm", "sm", "zw", "u17">>
<1>0. /\ Of[1] = " " /\ Of[2] = "$" /\ Of[3] = "B" /\ Of[4] = "b" /\ Of[5] = "s" /\ Of[6] = "nel"
      /\ Of[7] = "mk" /\ Of[8] = "bm" /\ Of[9] = "sm" /\ Of[10] = "zw" /\ Of[11] = "u17"
  OBVIOUS
<1>n. 1 \in Nat /\ 2 \in Nat /\ 3 \in Nat /\ 4 \in Nat /\ 5 \in Nat /\ 6 \in Nat /\ 7 \in Nat
      /\ 8 \in Nat /\ 9 \in Nat /\ 10 \in Nat /\ 11 \in Nat
  OBVIOUS
<1> HIDE DEF Of
<1>1. ASSUME NEW d \in Char PROVE ByteRank(d) \in Nat /\ Of[ByteRank(d)] = d
  <2>1. CASE d = " "
    <3>1. ByteRank(d) = 1
      BY <2>1 DEF ByteRank
    <3> QED
      BY <1>0, <1>n, Zenon, <2>1, <3>1
  <2>2. CASE d = "$"
    <3>1. ByteRank(d) = 2
      BY <2>2 DEF ByteRank
    <3> QED
      BY <1>0, <1>n, Zenon, <2>2, <3>1
  <2>3. CASE d = "B"
    <3>1. ByteRank(d) = 3
      BY <2>3 DEF ByteRank
    <3> QED
      BY <1>0, <1>n, Zenon, <2>3, <3>1
  <2>4. CASE d = "b"
    <3>1. ByteRank(d) = 4
      BY <2>4 DEF ByteRank
    <3> QED
      BY <1>0, <1>n, Zenon, <2>4, <3>1
  <2>5. CASE d = "s"
    <3>1. ByteRank(d) = 5
      BY <2>5 DEF ByteRank
    <3> QED
      BY <1>0, <1>n, Zenon, <2>5, <3>1
  <2>6. CASE d = "nel"
    <3>1. ByteRank(d) = 6
      BY <2>6 DEF ByteRank
    <3> QED
      BY <1>0, <1>n, Zenon, <2>6, <3>1
  <2>7. CASE d = "mk"
    <3>1. ByteRank(d) = 7
      BY <2>7 DEF ByteRank
    <3> QED
      BY <1>0, <1>n, Zenon, <2>7, <3>1
  <2>8. CASE d = "bm"
    <3>1. ByteRank(d) = 8
      BY <2>8 DEF ByteRank
    <3> QED
      BY <1>0, <1>n, Zenon, <2>8, <3>1
  <2>9. CASE d = "sm"
    <3>1. ByteRank(d) = 9
      BY <2>9 DEF ByteRank
    <3> QED
      BY <1>0, <1>n, Zenon, <2>9, <3>1
  <2>10. CASE d = "zw"
    <3>1. ByteRank(d) = 10
      BY <2>10 DEF ByteRank
    <3> QED
      BY <1>0, <1>n, Zenon, <2>10, <3>1
  <2>11. CASE d = "u17"
    <3>1. ByteRank(d) = 11
      BY <2>11 DEF ByteRank
    <3> QED
      BY <1>0, <1>n, Zenon, <2>11, <3>1
  <2> QED
    BY <2>1, <2>2, <2>3, <2>4, <2>5, <2>6, <2>7, <2>8, <2>9, <2>10, <2>11 DEF Char
<1>2. ASSUME NEW d \in Char, ByteRank(c) = ByteRank(d) PROVE c = d
  BY <1>1, <1>2
<1> QED
  BY <1>1, <1>2

\* The rank of a character of a text is a number.
LEMMA RanksOf ==
  ASSUME NEW a \in Phrase, NEW b \in Phrase
  PROVE  /\ Len(a) \in Nat
         /\ \A i \in 1 .. Len(a) : ByteRank(a[i]) \in Nat
         /\ \A i \in 1 .. Len(a) : i \in 1 .. Len(b) /\ ByteRank(a[i]) = ByteRank(b[i]) => a[i] = b[i]
<1>1. Len(a) \in Nat /\ a \in Seq(Char) /\ b \in Seq(Char)
  BY DEF Phrase
<1>2. \A i \in 1 .. Len(a) : a[i] \in Char
  BY <1>1, ElementOfSeq
<1>3. \A i \in 1 .. Len(b) : b[i] \in Char
  BY <1>1, ElementOfSeq
<1> QED
  BY <1>1, <1>2, <1>3, RankIs

\* The order is total.
LEMMA OrderTotal ==
  ASSUME NEW a \in Phrase, NEW b \in Phrase
  PROVE  AtOrBelow(a, b) \/ AtOrBelow(b, a)
<1> DEFINE D == {i \in Nat : i \in 1 .. Len(a) /\ i \in 1 .. Len(b) /\ a[i] # b[i]}
           R == {ss \in Nat \X Nat : ss[1] < ss[2]}
<1>0. Len(a) \in Nat /\ Len(b) \in Nat
  BY DEF Phrase
<1>1. CASE D = {}
  <2>1. \A j \in Nat : j \in 1 .. Len(a) /\ j \in 1 .. Len(b) => a[j] = b[j]
    BY <1>1
  <2>2. CASE Len(a) <= Len(b)
    <3>1. \A j \in 1 .. Len(a) : j \in Nat /\ j \in 1 .. Len(b)
      BY <1>0, <2>2
    <3>2. StartsWith(a, b)
      BY <2>1, <2>2, <3>1 DEF StartsWith
    <3> QED
      BY <3>2, OrderIs
  <2>3. CASE Len(b) <= Len(a)
    <3>1. \A j \in 1 .. Len(b) : j \in Nat /\ j \in 1 .. Len(a)
      BY <1>0, <2>3
    <3>2. StartsWith(b, a)
      BY <2>1, <2>3, <3>1 DEF StartsWith
    <3> QED
      BY <3>2, OrderIs
  <2> QED
    BY <1>0, <2>2, <2>3
<1>2. CASE D # {}
  <2>1. IsWellFoundedOn(R, Nat)
    BY NatLessThanWellFounded DEF OpToRel
  <2>2. D \in SUBSET Nat
    OBVIOUS
  <2>3. PICK i \in D : \A j \in D : <<j, i>> \notin R
    <3> HIDE DEF D
    <3> QED
      BY <1>2, <2>1, <2>2, WFMin
  <2>4. i \in Nat /\ i \in 1 .. Len(a) /\ i \in 1 .. Len(b) /\ a[i] # b[i]
    BY <2>3
  <2>5. ASSUME NEW j \in 1 .. i - 1 PROVE a[j] = b[j]
    <3>1. j \in Nat /\ j < i /\ j \in 1 .. Len(a) /\ j \in 1 .. Len(b)
      BY <1>0, <2>4
    <3>2. <<j, i>> \in R
      BY <2>4, <3>1
    <3>3. j \notin D
      BY <2>3, <3>2
    <3> QED
      BY <3>1, <3>3
  <2>6. ByteRank(a[i]) \in Nat /\ ByteRank(b[i]) \in Nat /\ ByteRank(a[i]) # ByteRank(b[i])
    BY <2>4, RanksOf
  <2>7. ByteRank(a[i]) < ByteRank(b[i]) \/ ByteRank(b[i]) < ByteRank(a[i])
    BY <2>6
  <2>8. LessAt(a, b, i) \/ LessAt(b, a, i)
    BY <2>4, <2>5, <2>7 DEF LessAt
  <2> QED
    BY <2>4, <2>8, OrderIs
<1> QED
  BY <1>1, <1>2

\* The order is transitive.
LEMMA OrderTrans ==
  ASSUME NEW a \in Phrase, NEW b \in Phrase, NEW c \in Phrase, AtOrBelow(a, b), AtOrBelow(b, c)
  PROVE  AtOrBelow(a, c)
<1>0. /\ Len(a) \in Nat /\ Len(b) \in Nat /\ Len(c) \in Nat
      /\ \A i \in 1 .. Len(a) : ByteRank(a[i]) \in Nat
      /\ \A i \in 1 .. Len(b) : ByteRank(b[i]) \in Nat
      /\ \A i \in 1 .. Len(c) : ByteRank(c[i]) \in Nat
  BY RanksOf
<1> SUFFICES StartsWith(a, c) \/ \E i \in Nat : LessAt(a, c, i)
  BY OrderIs
<1>1. StartsWith(a, b) \/ \E i \in Nat : LessAt(a, b, i)
  BY OrderIs
<1>2. StartsWith(b, c) \/ \E i \in Nat : LessAt(b, c, i)
  BY OrderIs
<1>3. CASE StartsWith(a, b) /\ StartsWith(b, c)
  BY <1>0, <1>3 DEF StartsWith
<1>4. ASSUME StartsWith(a, b), NEW i \in Nat, LessAt(b, c, i)
      PROVE  StartsWith(a, c) \/ \E k \in Nat : LessAt(a, c, k)
  <2>1. CASE i <= Len(a)
    <3>1. LessAt(a, c, i)
      BY <1>0, <1>4, <2>1 DEF StartsWith, LessAt
    <3> QED
      BY <3>1
  <2>2. CASE i > Len(a)
    BY <1>0, <1>4, <2>2 DEF StartsWith, LessAt
  <2> QED
    BY <1>0, <2>1, <2>2
<1>5. ASSUME NEW i \in Nat, LessAt(a, b, i), StartsWith(b, c)
      PROVE  LessAt(a, c, i)
  BY <1>0, <1>5 DEF StartsWith, LessAt
<1>6. ASSUME NEW i \in Nat, LessAt(a, b, i), NEW k \in Nat, LessAt(b, c, k)
      PROVE  LessAt(a, c, i) \/ LessAt(a, c, k)
  <2>1. CASE i < k
    BY <1>0, <1>6, <2>1 DEF LessAt
  <2>2. CASE i = k
    BY <1>0, <1>6, <2>2 DEF LessAt
  <2>3. CASE i > k
    BY <1>0, <1>6, <2>3 DEF LessAt
  <2> QED
    BY <2>1, <2>2, <2>3
<1> QED
  BY <1>1, <1>2, <1>3, <1>4, <1>5, <1>6

\* What lies between a text and one that begins with it begins with it too.
LEMMA PrefixBetween ==
  ASSUME NEW a \in Phrase, NEW b \in Phrase, NEW c \in Phrase,
         AtOrBelow(a, b), AtOrBelow(b, c), IsPrefix(a, c)
  PROVE  IsPrefix(a, b)
<1>0. /\ Len(a) \in Nat /\ Len(b) \in Nat /\ Len(c) \in Nat
      /\ \A i \in 1 .. Len(a) : ByteRank(a[i]) \in Nat
      /\ \A i \in 1 .. Len(b) : ByteRank(b[i]) \in Nat
  BY RanksOf
<1>1. StartsWith(a, c)
  BY PrefixIs
<1>2. StartsWith(a, b) \/ \E i \in Nat : LessAt(a, b, i)
  BY OrderIs
<1>3. StartsWith(b, c) \/ \E i \in Nat : LessAt(b, c, i)
  BY OrderIs
<1>4. ASSUME NEW i \in Nat, LessAt(a, b, i), StartsWith(b, c) PROVE FALSE
  BY <1>0, <1>1, <1>4 DEF StartsWith, LessAt
<1>5. ASSUME NEW i \in Nat, LessAt(a, b, i), NEW k \in Nat, LessAt(b, c, k) PROVE FALSE
  <2>1. CASE i < k
    BY <1>0, <1>1, <1>5, <2>1 DEF StartsWith, LessAt
  <2>2. CASE i = k
    BY <1>0, <1>1, <1>5, <2>2 DEF StartsWith, LessAt
  <2>3. CASE i > k
    BY <1>0, <1>1, <1>5, <2>3 DEF StartsWith, LessAt
  <2> QED
    BY <2>1, <2>2, <2>3
<1>6. StartsWith(a, b)
  BY <1>2, <1>3, <1>4, <1>5
<1> QED
  BY <1>6, PrefixIs


(* The search finds what the browser's scan finds.                         *)

\* t is a lowest text of X.
IsLeast(t, X) == t \in X /\ \A u \in X : AtOrBelow(t, u)

\* A finite set of texts has a lowest one.
LEMMA LeastText ==
  ASSUME NEW X \in SUBSET Phrase, IsFiniteSet(X), X # {}
  PROVE  \E t : IsLeast(t, X)
<1> DEFINE T == {n \in Nat : \A Y \in SUBSET X : Cardinality(Y) = n /\ Y # {} => \E t : IsLeast(t, Y)}
<1>1. \A Y \in SUBSET X : IsFiniteSet(Y) /\ Cardinality(Y) \in Nat /\ (Cardinality(Y) = 0 <=> Y = {})
  BY FS_Subset, FS_CardinalityType, FS_EmptySet
<1>2. 0 \in T
  BY <1>1
<1>3. ASSUME NEW n \in Nat, n \in T PROVE n + 1 \in T
  <2> SUFFICES ASSUME NEW Y \in SUBSET X, Cardinality(Y) = n + 1, Y # {} PROVE \E t : IsLeast(t, Y)
    OBVIOUS
  <2>1. PICK y \in Y : TRUE
    OBVIOUS
  <2> DEFINE Z == Y \ {y}
  <2>2. Z \in SUBSET X /\ Cardinality(Z) = n
    BY <1>1, <2>1, FS_RemoveElement
  <2>3. AtOrBelow(y, y)
    BY OrderTotal
  <2>4. CASE Z = {}
    <3>1. \A u \in Y : u = y
      BY <2>4
    <3>2. IsLeast(y, Y)
      BY <2>1, <2>3, <3>1 DEF IsLeast
    <3> QED
      BY <3>2
  <2>5. CASE Z # {}
    <3>1. PICK z : IsLeast(z, Z)
      BY <1>3, <2>2, <2>5
    <3>2. z \in Phrase /\ y \in Phrase /\ z \in Y /\ \A u \in Z : u \in Phrase /\ AtOrBelow(z, u)
      BY <3>1 DEF IsLeast
    <3>3. CASE AtOrBelow(z, y)
      <4>1. IsLeast(z, Y)
        BY <3>2, <3>3 DEF IsLeast
      <4> QED
        BY <4>1
    <3>4. CASE AtOrBelow(y, z)
      <4>1. \A u \in Z : AtOrBelow(y, u)
        <5> HIDE DEF Z
        <5> QED
          BY <3>2, <3>4, OrderTrans
      <4>2. IsLeast(y, Y)
        BY <2>1, <2>3, <4>1 DEF IsLeast
      <4> QED
        BY <4>2
    <3> QED
      BY <3>2, <3>3, <3>4, OrderTotal
  <2> QED
    BY <2>4, <2>5
<1>4. \A n \in Nat : n \in T
  <2> HIDE DEF T
  <2> QED
    BY <1>2, <1>3, NatInd
<1> QED
  BY <1>1, <1>4

\* Looking at the first token at or above the needle is enough.
LEMMA SeekFinds ==
  ASSUME NEW tokens \in SUBSET Phrase, IsFiniteSet(tokens), NEW needle \in Phrase
  PROVE  any_token_starts_with(tokens, needle) <=> \E tok \in tokens : IsPrefix(needle, tok)
<1> DEFINE range == {t \in tokens : AtOrBelow(needle, t)}
           first == CHOOSE t \in range : \A u \in range : AtOrBelow(t, u)
<1>1. any_token_starts_with(tokens, needle) <=> range # {} /\ IsPrefix(needle, first)
  BY DEF any_token_starts_with
<1>2. range \in SUBSET Phrase /\ IsFiniteSet(range)
  BY FS_Subset
<1>3. range # {} => first \in range /\ \A u \in range : AtOrBelow(first, u)
  <2> SUFFICES ASSUME range # {} PROVE \E t \in range : \A u \in range : AtOrBelow(t, u)
    OBVIOUS
  <2> HIDE DEF range
  <2>1. PICK t : IsLeast(t, range)
    BY <1>2, LeastText
  <2> QED
    BY <2>1 DEF IsLeast
<1> HIDE DEF first
<1>4. ASSUME NEW tok \in tokens, IsPrefix(needle, tok)
      PROVE  range # {} /\ IsPrefix(needle, first)
  <2>1. AtOrBelow(needle, tok)
    BY <1>4 DEF AtOrBelow
  <2>2. tok \in range
    BY <2>1
  <2>3. first \in Phrase /\ tok \in Phrase /\ AtOrBelow(needle, first) /\ AtOrBelow(first, tok)
    BY <1>2, <1>3, <2>2
  <2> QED
    BY <1>4, <2>2, <2>3, PrefixBetween
<1>5. range # {} /\ IsPrefix(needle, first) => \E tok \in tokens : IsPrefix(needle, tok)
  BY <1>3
<1> QED
  BY <1>1, <1>4, <1>5

\* A text has finitely many tokens.
LEMMA TokensAre ==
  ASSUME NEW t \in Phrase
  PROVE  Tokens(t) \in SUBSET Phrase /\ IsFiniteSet(Tokens(t))
<1> DEFINE n == Len(t)
           Space(i) == i \notin DOMAIN t \/ t[i] = " "
           Q == {q \in (DOMAIN t) \X (DOMAIN t) :
                    /\ q[1] <= q[2] /\ Space(q[1] - 1) /\ Space(q[2] + 1)
                    /\ \A i \in q[1] .. q[2] : ~Space(i)}
           f == [r \in Q |-> SubSeq(t, r[1], r[2])]
<1>1. n \in Nat /\ DOMAIN t = 1 .. n /\ t \in Seq(Char)
  BY DEF Phrase
<1>2. Tokens(t) = {f[r] : r \in Q}
  BY DEF Tokens
<1>3. IsFiniteSet((DOMAIN t) \X (DOMAIN t))
  <2>1. IsFiniteSet(1 .. n)
    BY <1>1, FS_Interval
  <2> QED
    BY <1>1, <2>1, FS_Product
<1>4. IsFiniteSet(Q) /\ \A r \in Q : r[1] \in 1 .. n /\ r[2] \in 1 .. n
  BY <1>1, <1>3, FS_Subset
<1> HIDE DEF Q
<1>5. ASSUME NEW r \in Q PROVE f[r] \in Phrase
  <2>1. r[1] \in Int /\ r[2] \in Int /\ \A i \in r[1] .. r[2] : i \in 1 .. Len(t)
    BY <1>1, <1>4
  <2>2. \A i \in r[1] .. r[2] : t[i] \in Char
    BY <1>1, <2>1, ElementOfSeq
  <2> QED
    BY <2>1, <2>2, SubSeqProperties DEF Phrase
<1>6. f \in Surjection(Q, Tokens(t))
  BY <1>2 DEF Surjection
<1>7. IsFiniteSet(Tokens(t))
  <2> HIDE DEF f
  <2> QED
    BY <1>4, <1>6, FS_Surjection
<1> QED
  BY <1>2, <1>5, <1>7

\* A phrase matches in engine.ts exactly if its prepared needle does in policy-core.
LEMMA MatchesAgree ==
  ASSUME NEW t \in Phrase, NEW raw \in Phrase, VersionStable(raw)
  PROVE  match(buildCorpus(t), raw) <=> match_prepared(buildCorpus(t), prepare(raw))
<1> DEFINE n == normalize_rs(raw)
           P == <<" ">> \o t \o <<" ">>
           Tok == Tokens(t)
           Q == Squash(t)
           A == <<" ">> \o n \o <<" ">>
           B == <<" ">> \o n \o <<"s", " ">>
           ph == Includes(n, <<" ">>)
           sq == Squash(n)
           long == Len(n) >= PREFIX_MIN
           wide == Len(sq) >= SQUASH_MIN
<1>1. n \in Phrase /\ normalize(raw) = n
  BY NormalizersAgree
<1>2. /\ buildCorpus(t).padded = P /\ buildCorpus(t).tokens = Tok /\ buildCorpus(t).squashed = Q
  BY DEF buildCorpus
<1>3. any_token_starts_with(Tok, n) <=> \E tok \in Tok : IsPrefix(n, tok)
  <2>1. Tok \in SUBSET Phrase /\ IsFiniteSet(Tok)
    BY TokensAre
  <2> HIDE DEF n, Tok
  <2> QED
    BY <1>1, <2>1, SeekFinds
<1>4. prepare(raw) = [normalized |-> n, padded |-> IF ph THEN {A, B} ELSE {}, token |-> ~ph,
                      prefix_eligible |-> ~ph /\ long, squashed |-> IF wide THEN {sq} ELSE {}]
  BY DEF prepare
<1> DEFINE N == [normalized |-> n, padded |-> IF ph THEN {A, B} ELSE {}, token |-> ~ph,
                 prefix_eligible |-> ~ph /\ long, squashed |-> IF wide THEN {sq} ELSE {}]
           C == buildCorpus(t)
<1>5. match(C, raw) <=>
        /\ n # <<>>
        /\ \/ ph /\ (Includes(P, A) \/ Includes(P, B))
           \/ ~ph /\ (n \in Tok \/ (long /\ \E tok \in Tok : IsPrefix(n, tok)))
           \/ wide /\ Includes(Q, sq)
  <2> HIDE DEF n, C, P, Tok, Q
  <2> QED
    BY <1>1, <1>2 DEF match, C
<1>6. match_prepared(C, N) <=>
        /\ n # <<>>
        /\ \/ ph /\ (Includes(P, A) \/ Includes(P, B))
           \/ ~ph /\ n \in Tok
           \/ ~ph /\ long /\ any_token_starts_with(Tok, n)
           \/ wide /\ Includes(Q, sq)
  <2> HIDE DEF n, C, P, Tok, Q, A, B, ph, sq, long, wide
  <2> QED
    BY <1>2 DEF match_prepared, C
<1> HIDE DEF N, C
<1> QED
  BY <1>3, <1>4, <1>5, <1>6 DEF N, C

\* The phrases of a list of rules are phrases.
LEMMA PhrasesAre ==
  ASSUME NEW S, \A x \in S : x.phrases \in SUBSET Phrase
  PROVE  PhrasesOf(S) \in SUBSET Phrase
BY DEF PhrasesOf

\* The two engines agree on every prompt that both versions of the tables read alike.
LEMMA VerdictsAgree ==
  ASSUME NEW t \in Phrase, VersionStable(t)
  PROVE  evaluate(t) = evaluate_prepared(t)
<1> DEFINE z == normalize_rs(t)
           M1 == {p \in AllPhrases : match(buildCorpus(z), p)}
           M2 == {p \in AllPhrases : match_prepared(buildCorpus(z), PreparedRules[p])}
<1>1. z \in Phrase /\ normalize(t) = z
  BY NormalizersAgree
<1>2. AllPhrases \in SUBSET Phrase
  <2>1. /\ Rules.intentPhrases \in SUBSET Phrase /\ Rules.constructionVerbs \in SUBSET Phrase
        /\ Rules.modifierSuppressors \in SUBSET Phrase
    BY RulesAssumption DEF RulesType
  <2>2. \A x \in Rules.targets : x.phrases \in SUBSET Phrase
    BY RulesAssumption DEF RulesType
  <2>3. \A x \in Rules.hardBlocks : x.phrases \in SUBSET Phrase
    BY RulesAssumption DEF RulesType
  <2>4. \A x \in Rules.modifiers : x.phrases \in SUBSET Phrase
    BY RulesAssumption DEF RulesType
  <2>5. /\ PhrasesOf(Rules.targets) \in SUBSET Phrase /\ PhrasesOf(Rules.hardBlocks) \in SUBSET Phrase
        /\ PhrasesOf(Rules.modifiers) \in SUBSET Phrase
    BY <2>2, <2>3, <2>4, PhrasesAre
  <2> QED
    BY <2>1, <2>5 DEF AllPhrases
<1>3. \A p \in AllPhrases : PreparedRules[p] = prepare(p)
  BY DEF PreparedRules
<1> HIDE DEF z
<1>4. \A p \in AllPhrases : match(buildCorpus(z), p) <=> match_prepared(buildCorpus(z), prepare(p))
  BY <1>1, <1>2, PhrasesAssumption, MatchesAgree
<1>5. M1 = M2
  BY <1>3, <1>4
<1>6. evaluate(t) = Verdict(M1)
  BY <1>1 DEF evaluate
<1>7. evaluate_prepared(t) = Verdict(M2)
  BY DEF evaluate_prepared, z
<1> QED
  BY <1>5, <1>6, <1>7

\* To policy-core, a symbol that only Unicode 17 knows is a space.
LEMMA Unicode17Read ==
  ASSUME NEW t \in Phrase
  PROVE  /\ Mapped(AsUnicode17, t) \in Phrase /\ VersionStable(Mapped(AsUnicode17, t))
         /\ normalize_rs(Mapped(AsUnicode17, t)) = normalize_rs(t)
<1> DEFINE u == Mapped(AsUnicode17, t)
           n == Len(t)
<1>1. n \in Nat /\ DOMAIN t = 1 .. n /\ \A k \in 1 .. n : t[k] \in Char
  BY DEF Phrase
<1>2. u = [k \in 1 .. n |-> AsUnicode17(t[k])]
  BY <1>1 DEF Mapped
<1>3. \A c \in Char : AsUnicode17(c) \in Char /\ AsUnicode17(c) # "u17"
  BY DEF AsUnicode17, Char
<1>4. u \in Seq(Char) /\ Len(u) = n /\ DOMAIN u = 1 .. n /\ \A k \in 1 .. n : u[k] = AsUnicode17(t[k])
  <2> HIDE DEF n, u
  <2>1. u \in [1 .. n -> Char] /\ \A k \in 1 .. n : u[k] = AsUnicode17(t[k])
    BY <1>1, <1>2, <1>3
  <2> QED
    BY <1>1, <2>1, SeqDef
<1> HIDE DEF u
<1>5. VersionStable(u)
  BY <1>1, <1>3, <1>4 DEF VersionStable
<1>6. ASSUME NEW k \in 1 .. n PROVE ComposesAt(u, k) <=> ComposesAt(t, k)
  <2>1. \A i \in 1 .. n : (u[i] = "mk" <=> t[i] = "mk") /\ (u[i] \in {"b", "B", "s"} <=> t[i] \in {"b", "B", "s"})
    BY <1>4 DEF AsUnicode17
  <2> QED
    BY <1>1, <1>4, <2>1 DEF ComposesAt
<1>7. ASSUME NEW k \in 1 .. n
      PROVE  /\ u[k] = "s" <=> (t[k] = "s" /\ u[k] # "$")
             /\ \/ FoldCase(u[k]) = FoldCase(t[k])
                \/ t[k] = "s" /\ u[k] = "$" /\ ~ComposesAt(t, k + 1)
                \/ t[k] = "u17" /\ u[k] = " "
  BY <1>4 DEF AsUnicode17
<1>8. normalize_rs(u) = normalize_rs(t)
  BY <1>4, <1>6, <1>7, ReplacedFolded DEF Phrase, SameMarks, Swapped
<1> QED
  BY <1>4, <1>5, <1>8 DEF u, Phrase

(* The two properties of the policy engine.                                *)

\* EnginesAgree: the engine of the browser's and the coordinator's preview
\* (packages/policy, evaluate) and the one of the enclave and the guest
\* (evaluate_prepared) give one verdict, for every text of any length that
\* Unicode 16 and Unicode 17 read alike, and differ on any other text by that
\* reading alone: one normaliser is a sequence of passes over the whole text,
\* the other a single walk; one matcher scans, the other searches sorted tables.
THEOREM PolicyEnginesAgree == Spec => []EnginesAgree
<1>1. ASSUME text \in Phrase PROVE EnginesAgree
  <2> DEFINE u == Mapped(AsUnicode17, text)
  <2>1. u \in Phrase /\ VersionStable(u) /\ normalize_rs(u) = normalize_rs(text)
    BY <1>1, Unicode17Read
  <2> HIDE DEF u
  <2>2. evaluate_prepared(u) = evaluate_prepared(text) /\ evaluate(u) = evaluate_prepared(u)
    BY <2>1, VerdictOfNormalized, VerdictsAgree
  <2>3. VersionStable(text) => evaluate(text) = evaluate_prepared(text)
    BY <1>1, VerdictsAgree
  <2> QED
    BY <2>2, <2>3 DEF EnginesAgree, u
<1>2. PipelineInv => text \in Phrase
  BY DEF PipelineInv, TypeOK
<1> QED
  BY <1>1, <1>2, PipelineInductive, PTL

\* ObfuscationIsFutile: a capital letter, a leetspeak symbol or a zero-width
\* character, put anywhere into a text of any length but between a letter and
\* its combining mark, does not change the verdict of evaluate_prepared.
THEOREM ObfuscationChangesNothing == Spec => []ObfuscationIsFutile
<1>1. PipelineInv => ObfuscationIsFutile
  BY Obfuscated DEF PipelineInv, TypeOK
<1> QED
  BY <1>1, PipelineInductive, PTL
=============================================================================
