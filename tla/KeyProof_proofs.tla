-------------------------- MODULE KeyProof_proofs --------------------------
(***************************************************************************)
(* Proofs about KeyProof, for every proof and every way an issuer calls    *)
(* the validators: the run judges those near a sound one only.             *)
(***************************************************************************)
EXTENDS KeyProof, TLAPS

(* The first failure in a list of checks, without the detour over indices. *)
Then(first, rest) == IF first # "ok" THEN first ELSE rest

(* The least of a set of small indices, as FirstFailure chooses it.        *)
LEMMA LeastOfFew ==
    ASSUME NEW I \in SUBSET (1 .. 6), NEW i \in I, \A j \in I : i <= j
    PROVE  Min(I) = i
<1> DEFINE least == Min(I)
<1>1. least \in I /\ \A j \in I : least <= j
  BY Zenon DEF Min
<1> HIDE DEF least
<1>2. least = i
  BY <1>1
<1> QED BY <1>2 DEF least

(* The verdict is the outcome of the first check that is not ok.           *)
LEMMA FirstFailureAt ==
    ASSUME NEW checks, Len(checks) \in 1 .. 6, NEW i \in 1 .. Len(checks),
           checks[i] # "ok", \A j \in 1 .. i - 1 : checks[j] = "ok"
    PROVE  FirstFailure(checks) = checks[i]
<1> DEFINE I == {j \in 1 .. Len(checks) : checks[j] # "ok"}
<1>1. I \in SUBSET (1 .. 6) /\ i \in I /\ \A j \in I : i <= j
  OBVIOUS
<1>2. Min(I) = i
  BY <1>1, LeastOfFew
<1>3. SelectInSeq(checks, LAMBDA check : check # "ok") = i
  BY <1>1, <1>2 DEF SelectInSeq
<1> QED BY <1>3 DEF FirstFailure

(* Checks that are all ok accept.                                          *)
LEMMA NoFailure ==
    ASSUME NEW checks, \A j \in 1 .. Len(checks) : checks[j] = "ok"
    PROVE  FirstFailure(checks) = "accepted"
  BY DEF FirstFailure, SelectInSeq

(* A list of three or of six checks, one after the other.               *)
LEMMA FirstOfThree ==
    ASSUME NEW a, NEW b, NEW c
    PROVE  FirstFailure(<<a, b, c>>) = Then(a, Then(b, Then(c, "accepted")))
<1> DEFINE checks == <<a, b, c>>
<1>1. Len(checks) = 3 /\ checks[1] = a /\ checks[2] = b /\ checks[3] = c
  OBVIOUS
<1> HIDE DEF checks
<1> SUFFICES FirstFailure(checks) = Then(a, Then(b, Then(c, "accepted")))
  BY DEF checks
<1>2. CASE a # "ok"
  BY <1>1, <1>2, FirstFailureAt DEF Then
<1>3. CASE a = "ok" /\ b # "ok"
  BY <1>1, <1>3, FirstFailureAt DEF Then
<1>4. CASE a = "ok" /\ b = "ok" /\ c # "ok"
  BY <1>1, <1>4, FirstFailureAt DEF Then
<1>5. CASE a = "ok" /\ b = "ok" /\ c = "ok"
  BY <1>1, <1>5, NoFailure DEF Then
<1> QED BY <1>2, <1>3, <1>4, <1>5

LEMMA FirstOfSix ==
    ASSUME NEW a, NEW b, NEW c, NEW d, NEW e, NEW f
    PROVE  FirstFailure(<<a, b, c, d, e, f>>)
             = Then(a, Then(b, Then(c, Then(d, Then(e, Then(f, "accepted"))))))
<1> DEFINE checks == <<a, b, c, d, e, f>>
<1>1. /\ Len(checks) = 6 /\ checks[1] = a /\ checks[2] = b /\ checks[3] = c
      /\ checks[4] = d /\ checks[5] = e /\ checks[6] = f
  OBVIOUS
<1> HIDE DEF checks
<1> SUFFICES FirstFailure(checks) = Then(a, Then(b, Then(c, Then(d, Then(e, Then(f, "accepted"))))))
  BY DEF checks
<1>2. ASSUME NEW i \in 1 .. 6, checks[i] # "ok", \A j \in 1 .. i - 1 : checks[j] = "ok"
      PROVE  FirstFailure(checks) = checks[i]
  <2>1. Len(checks) \in 1 .. 6 /\ i \in 1 .. Len(checks)
    BY <1>1
  <2> QED BY <1>2, <2>1, FirstFailureAt
<1>3. CASE a # "ok"
  BY <1>1, <1>2, <1>3 DEF Then
<1>4. CASE a = "ok" /\ b # "ok"
  BY <1>1, <1>2, <1>4 DEF Then
<1>5. CASE a = "ok" /\ b = "ok" /\ c # "ok"
  BY <1>1, <1>2, <1>5 DEF Then
<1>6. CASE a = "ok" /\ b = "ok" /\ c = "ok" /\ d # "ok"
  BY <1>1, <1>2, <1>6 DEF Then
<1>7. CASE a = "ok" /\ b = "ok" /\ c = "ok" /\ d = "ok" /\ e # "ok"
  BY <1>1, <1>2, <1>7 DEF Then
<1>8. CASE a = "ok" /\ b = "ok" /\ c = "ok" /\ d = "ok" /\ e = "ok" /\ f # "ok"
  BY <1>1, <1>2, <1>8 DEF Then
<1>9. CASE a = "ok" /\ b = "ok" /\ c = "ok" /\ d = "ok" /\ e = "ok" /\ f = "ok"
  BY <1>1, <1>9, NoFailure DEF Then
<1> QED BY <1>3, <1>4, <1>5, <1>6, <1>7, <1>8, <1>9

----------------------------------------------------------------------------
(* The verdicts, spelled out. *)
LEMMA AttestationVerdictIs ==
    ASSUME NEW a, NEW i, NEW expiry
    PROVE  AttestationVerdict(a, i, expiry) =
             Then(TextCheck(a.text), Then(AttestationHeaderCheck(a),
             Then(AttestationSignatureCheck(a), Then(AttestationClaimsCheck(a, expiry),
             Then(AttestationNonceCheck(a.nonce, i), Then(LevelCheck(a, i), "accepted"))))))
  BY FirstOfSix DEF AttestationVerdict

(* The attestation that travels inside a jwt proof.                        *)
LEMMA AttachedCheckIs ==
    ASSUME NEW p, NEW i
    PROVE  AttachedCheck(p, i) =
             IF ~p.attested THEN "ok"
             ELSE Then(Check(i.attestation_resolve_key),
                  Then(Passed(AttestationVerdict(p.attestation, i, TRUE)),
                  Then(AttestedCheck(p.attestation), "accepted")))
  BY FirstOfThree DEF AttachedCheck

(* The two validators, and the dispatch on the proof type.                 *)
LEMMA VerdictIs ==
    ASSUME NEW p, NEW i
    PROVE  Verdict(p, i) =
             IF p.type = "jwt"
             THEN Then(TextCheck(p.text), Then(HeaderCheck(p, i), Then(KeyCheck(p, i),
                  Then(ClaimsCheck(p, i), Then(NonceCheck(p.nonce, i),
                  Then(Passed(AttachedCheck(p, i)), "accepted"))))))
             ELSE IF p.count = 1 THEN AttestationVerdict(p.attestation, i, FALSE)
             ELSE "invalid_proof"
<1>1. CASE p.type = "jwt"
  BY <1>1, FirstOfSix DEF Verdict, JwtVerdict
<1>2. CASE p.type # "jwt"
  BY <1>2 DEF Verdict, Check
<1> QED BY <1>1, <1>2

Errs == {"ok", "invalid_proof", "invalid_nonce", "exception"}

(* The checks of an attestation on its own.                                *)
LEMMA AttestationCheckTypes ==
    ASSUME NEW a, NEW i, NEW expiry
    PROVE  /\ TextCheck(a.text) \in {"ok", "invalid_proof", "exception"}
           /\ AttestationHeaderCheck(a) \in {"ok", "invalid_proof", "exception"}
           /\ AttestationSignatureCheck(a) \in {"ok", "invalid_proof", "exception"}
           /\ AttestationClaimsCheck(a, expiry) \in {"ok", "invalid_proof", "exception"}
           /\ AttestationNonceCheck(a.nonce, i) \in {"ok", "invalid_nonce"}
           /\ LevelCheck(a, i) \in {"ok", "invalid_proof", "exception"}
  BY DEF TextCheck, AttestationHeaderCheck, AttestationSignatureCheck,
     AttestationClaimsCheck, AttestationNonceCheck, LevelCheck, CheckUnless, Check

(* An attestation gets one of the four verdicts.                           *)
LEMMA AttestationVerdictType ==
    ASSUME NEW a \in Attestation, NEW i \in Issuer, NEW expiry \in BOOLEAN
    PROVE  AttestationVerdict(a, i, expiry)
             \in {"accepted", "invalid_proof", "invalid_nonce", "exception"}
  BY AttestationVerdictIs, AttestationCheckTypes DEF Then

(* Attached to a proof, it is a check among others.                        *)
LEMMA AttachedCheckType ==
    ASSUME NEW p \in Proof, NEW i \in Issuer
    PROVE  AttachedCheck(p, i) \in Errs \cup {"accepted"}
  BY AttachedCheckIs, AttestationVerdictType
  DEF Then, Check, CheckUnless, Passed, AttestedCheck, Errs, Proof

(* Each verdict is one of the four the Wallet may see.                     *)
LEMMA VerdictType ==
    ASSUME NEW p \in Proof, NEW i \in Issuer
    PROVE  Verdict(p, i) \in Verdicts \ {"none"}
<1>1. /\ TextCheck(p.text) \in Errs /\ HeaderCheck(p, i) \in Errs
      /\ KeyCheck(p, i) \in Errs /\ ClaimsCheck(p, i) \in Errs
      /\ NonceCheck(p.nonce, i) \in Errs
  BY DEF Errs, TextCheck, HeaderCheck, KeyCheck, ClaimsCheck, NonceCheck, CheckUnless, Check,
     PublicKeyFromJwk, Proof, Issuer, Nonces
<1>2. /\ Passed(AttachedCheck(p, i)) \in Errs
      /\ AttestationVerdict(p.attestation, i, FALSE) \in Verdicts \ {"none"}
  BY AttachedCheckType, AttestationVerdictType DEF Passed, Errs, Verdicts, Proof
<1> QED BY <1>1, <1>2, VerdictIs DEF Then, Errs, Verdicts

----------------------------------------------------------------------------
(* The invariant: a verdict is the one the validator gives, and a Wallet   *)
(* that fetched a nonce carries no stale one.                              *)
KInv ==
    /\ TypeOK
    /\ verdict # "none" => verdict = Verdict(proof, issuer)
    /\ fetched > 0 => proof.nonce # "stale" /\ proof.attestation.nonce # "stale"

(* A refreshed proof is a proof.                                           *)
LEMMA RefreshedType ==
    ASSUME NEW p \in Proof
    PROVE  /\ Refreshed(p) \in Proof
           /\ Refreshed(p).nonce = Fresh(p.nonce)
           /\ Refreshed(p).attestation = [p.attestation EXCEPT !.nonce = Fresh(p.attestation.nonce)]
<1>1. Fresh(p.nonce) \in Nonces /\ Fresh(p.attestation.nonce) \in Nonces
  BY DEF Fresh, Nonces
<1> DEFINE attestation == [p.attestation EXCEPT !.nonce = Fresh(p.attestation.nonce)]
<1>2. attestation \in Attestation
  BY <1>1 DEF Proof, Attestation
<1>3. Refreshed(p) = [p EXCEPT !.nonce = Fresh(p.nonce), !.attestation = attestation]
  BY DEF Refreshed, Proof
<1> HIDE DEF attestation
<1> QED BY <1>1, <1>2, <1>3 DEF Proof, attestation

(* KInv is inductive.                                                      *)
LEMMA InitKInv == Init => KInv
  BY InputAssumption DEF Init, KInv, TypeOK, Verdicts

LEMMA NextKInv == KInv /\ [Next]_vars => KInv'
<1> SUFFICES ASSUME KInv, [Next]_vars PROVE KInv'
  OBVIOUS
<1>1. CASE Validate
  BY <1>1, VerdictType DEF Validate, KInv, TypeOK
<1>2. CASE Retry
  <2>1. Refreshed(proof).attestation.nonce = Fresh(proof.attestation.nonce)
    BY RefreshedType DEF KInv, TypeOK, Proof, Attestation
  <2>2. proof' \in Proof /\ proof'.nonce = Fresh(proof.nonce)
    BY <1>2, RefreshedType DEF Retry, KInv, TypeOK
  <2>3. proof'.nonce # "stale" /\ proof'.attestation.nonce # "stale"
    BY <1>2, <2>1, <2>2 DEF Retry, Fresh
  <2> QED BY <1>2, <2>2, <2>3 DEF Retry, KInv, TypeOK, Verdicts
<1>3. CASE UNCHANGED vars
  BY <1>3 DEF vars, KInv, TypeOK
<1> QED BY <1>1, <1>2, <1>3 DEF Next

LEMMA AlwaysKInv == Spec => []KInv
  BY InitKInv, NextKInv, PTL DEF Spec

(* Proofs keep their types, and each verdict is one of the five.           *)
THEOREM KeyProofTypeOK == Spec => []TypeOK
<1>1. KInv => TypeOK
  BY DEF KInv
<1> QED BY <1>1, AlwaysKInv, PTL

----------------------------------------------------------------------------
(* What an accepted attestation and an accepted proof have passed.         *)
LEMMA AcceptedAttestation ==
    ASSUME NEW a \in Attestation, NEW i \in Issuer, NEW expiry \in BOOLEAN,
           AttestationVerdict(a, i, expiry) = "accepted"
    PROVE  /\ a.signature = "verifies" /\ a.exp \notin {"past", "not a number"}
           /\ expiry => a.exp # "absent"
           /\ i.c_nonce => a.nonce = "current"
<1>1. /\ AttestationSignatureCheck(a) = "ok" /\ AttestationClaimsCheck(a, expiry) = "ok"
      /\ AttestationNonceCheck(a.nonce, i) = "ok"
  BY AttestationVerdictIs, AttestationCheckTypes DEF Then
<1> QED BY <1>1 DEF AttestationSignatureCheck, AttestationClaimsCheck,
     AttestationNonceCheck, CheckUnless, Check

(* What an accepted proof with an attestation inside has passed.           *)
LEMMA AcceptedAttached ==
    ASSUME NEW p \in Proof, NEW i \in Issuer, p.attested, Passed(AttachedCheck(p, i)) = "ok"
    PROVE  /\ i.attestation_resolve_key
           /\ AttestationVerdict(p.attestation, i, TRUE) = "accepted"
           /\ p.attestation.keys = "proof key"
<1> DEFINE attestation == AttestationVerdict(p.attestation, i, TRUE)
<1>1. attestation \in {"accepted", "invalid_proof", "invalid_nonce", "exception"}
  BY AttestationVerdictType DEF Proof
<1>2. AttachedCheck(p, i) = Then(Check(i.attestation_resolve_key), Then(Passed(attestation),
                              Then(AttestedCheck(p.attestation), "accepted")))
  BY AttachedCheckIs
<1> HIDE DEF attestation
<1>3. /\ Check(i.attestation_resolve_key) = "ok" /\ Passed(attestation) = "ok"
      /\ AttestedCheck(p.attestation) = "ok"
  BY <1>1, <1>2 DEF Then, Passed, Check, CheckUnless, AttestedCheck
<1> QED BY <1>1, <1>3 DEF Check, CheckUnless, Passed, AttestedCheck, attestation

(* What an accepted jwt proof has passed.                                  *)
LEMMA AcceptedJwt ==
    ASSUME NEW p \in Proof, NEW i \in Issuer, p.type = "jwt", Verdict(p, i) = "accepted"
    PROVE  /\ HeaderCheck(p, i) = "ok" /\ KeyCheck(p, i) = "ok" /\ ClaimsCheck(p, i) = "ok"
           /\ NonceCheck(p.nonce, i) = "ok" /\ Passed(AttachedCheck(p, i)) = "ok"
<1>1. /\ TextCheck(p.text) # "accepted" /\ HeaderCheck(p, i) # "accepted"
      /\ KeyCheck(p, i) # "accepted" /\ ClaimsCheck(p, i) # "accepted"
      /\ NonceCheck(p.nonce, i) # "accepted"
  BY DEF TextCheck, HeaderCheck, KeyCheck, ClaimsCheck, NonceCheck, CheckUnless, Check,
     PublicKeyFromJwk, Proof, Issuer, Nonces
<1>2. Passed(AttachedCheck(p, i)) # "accepted"
  BY DEF Passed
<1> QED BY <1>1, <1>2, VerdictIs DEF Then

(* What an accepted attestation proof has passed.                          *)
LEMMA AcceptedAttestationProof ==
    ASSUME NEW p \in Proof, NEW i \in Issuer, p.type # "jwt", Verdict(p, i) = "accepted"
    PROVE  /\ p.count = 1
           /\ AttestationVerdict(p.attestation, i, FALSE) = "accepted"
  BY VerdictIs

(* validate_jwt_proof() and validate_attestation_proof() accept only what  *)
(* is bound to a key, to this issuer and to its nonce.                     *)
THEOREM KeyProofAcceptedIsBound == Spec => []AcceptedIsBound
<1>1. ASSUME KInv, verdict = "accepted", proof.type = "jwt" PROVE AcceptedIsBound
  <2>1. proof \in Proof /\ issuer \in Issuer /\ Verdict(proof, issuer) = "accepted"
    BY <1>1 DEF KInv, TypeOK
  <2>2. proof.attestation \in Attestation
    BY <2>1 DEF Proof
  <2>3. /\ proof.alg # "MAC" /\ proof.key = "public" /\ proof.signature = "verifies"
        /\ proof.aud /\ (issuer.c_nonce => proof.nonce = "current")
    BY <1>1, <2>1, AcceptedJwt
    DEF HeaderCheck, KeyCheck, PublicKeyFromJwk, ClaimsCheck, NonceCheck, CheckUnless, Check,
        Proof, Nonces
  <2>4. ASSUME proof.attested
        PROVE  /\ issuer.attestation_resolve_key
               /\ AttestationVerdict(proof.attestation, issuer, TRUE) = "accepted"
               /\ proof.attestation.keys = "proof key"
    BY <1>1, <2>1, <2>4, AcceptedJwt, AcceptedAttached
  <2>5. ASSUME proof.attested
        PROVE  /\ proof.attestation.signature = "verifies"
               /\ proof.attestation.exp = "future"
               /\ issuer.c_nonce => proof.attestation.nonce = "current"
    BY <2>1, <2>2, <2>4, <2>5, AcceptedAttestation DEF Attestation
  <2> QED BY <1>1, <2>3, <2>4, <2>5 DEF AcceptedIsBound
<1>2. ASSUME KInv, verdict = "accepted", proof.type # "jwt" PROVE AcceptedIsBound
  <2>1. proof \in Proof /\ issuer \in Issuer /\ Verdict(proof, issuer) = "accepted"
    BY <1>2 DEF KInv, TypeOK
  <2>2. proof.attestation \in Attestation
    BY <2>1 DEF Proof
  <2>3. proof.count = 1 /\ AttestationVerdict(proof.attestation, issuer, FALSE) = "accepted"
    BY <1>2, <2>1, AcceptedAttestationProof
  <2> QED BY <1>2, <2>1, <2>2, <2>3, AcceptedAttestation DEF AcceptedIsBound
<1>3. KInv => AcceptedIsBound
  BY <1>1, <1>2 DEF AcceptedIsBound
<1> QED BY <1>3, AlwaysKInv, PTL

----------------------------------------------------------------------------
(* Where an invalid_nonce comes from. *)
LEMMA InvalidNonceFromAttestation ==
    ASSUME NEW a \in Attestation, NEW i \in Issuer, NEW expiry \in BOOLEAN,
           AttestationVerdict(a, i, expiry) = "invalid_nonce"
    PROVE  a.nonce # "current"
<1>1. AttestationNonceCheck(a.nonce, i) = "invalid_nonce"
  BY AttestationVerdictIs, AttestationCheckTypes DEF Then
<1> QED BY <1>1 DEF AttestationNonceCheck

(* An invalid_nonce names a nonce that is not current, or an attestation   *)
(* without a usable one.                                                   *)
LEMMA InvalidNonceFrom ==
    ASSUME NEW p \in Proof, NEW i \in Issuer, Verdict(p, i) = "invalid_nonce"
    PROVE  \/ p.type = "jwt" /\ p.nonce = "stale"
           \/ (p.type = "attestation" \/ p.attested) /\ p.attestation.nonce # "current"
<1>0. p.attestation \in Attestation /\ p.type \in {"jwt", "attestation"}
  BY DEF Proof
<1>1. /\ TextCheck(p.text) # "invalid_nonce" /\ HeaderCheck(p, i) # "invalid_nonce"
      /\ KeyCheck(p, i) # "invalid_nonce" /\ ClaimsCheck(p, i) # "invalid_nonce"
  BY DEF TextCheck, HeaderCheck, KeyCheck, ClaimsCheck, CheckUnless, Check, PublicKeyFromJwk
<1>2. NonceCheck(p.nonce, i) = "invalid_nonce" => p.nonce = "stale"
  BY DEF NonceCheck, Proof, Issuer, Nonces
<1>3. ASSUME Passed(AttachedCheck(p, i)) = "invalid_nonce"
      PROVE  p.attested /\ AttestationVerdict(p.attestation, i, TRUE) = "invalid_nonce"
  <2>1. AttachedCheck(p, i) = "invalid_nonce"
    BY <1>3 DEF Passed
  <2>2. /\ Check(i.attestation_resolve_key) # "invalid_nonce"
        /\ AttestedCheck(p.attestation) # "invalid_nonce"
    BY DEF Check, CheckUnless, AttestedCheck
  <2>3. p.attested /\ Passed(AttestationVerdict(p.attestation, i, TRUE)) = "invalid_nonce"
    BY <2>1, <2>2, AttachedCheckIs DEF Then
  <2> QED BY <2>3 DEF Passed
<1>4. CASE p.type = "jwt"
  BY <1>0, <1>1, <1>2, <1>3, <1>4, VerdictIs, InvalidNonceFromAttestation DEF Then
<1>5. CASE p.type = "attestation"
  <2>1. AttestationVerdict(p.attestation, i, FALSE) = "invalid_nonce"
    BY <1>5, VerdictIs
  <2> QED BY <1>0, <1>5, <2>1, InvalidNonceFromAttestation
<1> QED BY <1>0, <1>4, <1>5

(* The Wallet that fetched a nonce is not told so again, except for an     *)
(* attestation that carries none (attestation.py:172).                     *)
THEOREM KeyProofOneRetrySuffices == Spec => []OneRetrySuffices
<1>1. ASSUME KInv, fetched > 0, verdict = "invalid_nonce"
      PROVE  /\ proof.type = "attestation" \/ proof.attested
             /\ proof.attestation.nonce = "absent"
  <2>1. /\ proof \in Proof /\ issuer \in Issuer /\ Verdict(proof, issuer) = "invalid_nonce"
        /\ proof.nonce # "stale" /\ proof.attestation.nonce # "stale"
    BY <1>1 DEF KInv, TypeOK
  <2>2. proof.attestation.nonce \in {"absent", "current", "stale"}
    BY <2>1 DEF Proof, Attestation, Nonces
  <2> QED BY <2>1, <2>2, InvalidNonceFrom
<1>2. KInv => OneRetrySuffices
  BY <1>1 DEF OneRetrySuffices
<1> QED BY <1>2, AlwaysKInv, PTL

----------------------------------------------------------------------------
(* A fresh nonce changes no other check.                                   *)
LEMMA RefreshedAttestation ==
    ASSUME NEW a \in Attestation, NEW i \in Issuer, NEW expiry \in BOOLEAN,
           AttestationVerdict(a, i, expiry) # "invalid_nonce"
    PROVE  AttestationVerdict([a EXCEPT !.nonce = Fresh(a.nonce)], i, expiry)
             = AttestationVerdict(a, i, expiry)
<1> DEFINE b == [a EXCEPT !.nonce = Fresh(a.nonce)]
<1>1. /\ b.text = a.text /\ b.typed = a.typed /\ b.alg = a.alg /\ b.signature = a.signature
      /\ b.iat = a.iat /\ b.exp = a.exp /\ b.keys = a.keys /\ b.level = a.level
      /\ b.nonce = Fresh(a.nonce)
  BY DEF Attestation
<1> HIDE DEF b
<1>2. AttestationNonceCheck(a.nonce, i) = "ok" => AttestationNonceCheck(b.nonce, i) = "ok"
  BY <1>1 DEF AttestationNonceCheck, Fresh
<1>3. AttestationNonceCheck(a.nonce, i) \in {"ok", "invalid_nonce"}
  BY DEF AttestationNonceCheck
<1>4. /\ AttestationHeaderCheck(b) = AttestationHeaderCheck(a)
      /\ AttestationSignatureCheck(b) = AttestationSignatureCheck(a)
      /\ AttestationClaimsCheck(b, expiry) = AttestationClaimsCheck(a, expiry)
      /\ LevelCheck(b, i) = LevelCheck(a, i)
  BY <1>1 DEF AttestationHeaderCheck, AttestationSignatureCheck, AttestationClaimsCheck,
     LevelCheck, CheckUnless, Check
<1>5. AttestationVerdict(b, i, expiry) = AttestationVerdict(a, i, expiry)
  BY <1>1, <1>2, <1>3, <1>4, AttestationVerdictIs DEF Then
<1> QED BY <1>5 DEF b

(* The same with the attestation inside a jwt proof.                       *)
LEMMA RefreshedAttached ==
    ASSUME NEW p \in Proof, NEW i \in Issuer, AttachedCheck(p, i) # "invalid_nonce"
    PROVE  AttachedCheck(Refreshed(p), i) = AttachedCheck(p, i)
<1> DEFINE q == Refreshed(p)
           old == AttestationVerdict(p.attestation, i, TRUE)
           new == AttestationVerdict(q.attestation, i, TRUE)
<1>1. /\ q.attested = p.attested
      /\ q.attestation = [p.attestation EXCEPT !.nonce = Fresh(p.attestation.nonce)]
      /\ q.attestation.keys = p.attestation.keys
  BY RefreshedType DEF Refreshed, Proof, Attestation
<1>2. /\ AttachedCheck(p, i) = IF ~p.attested THEN "ok"
                               ELSE Then(Check(i.attestation_resolve_key), Then(Passed(old),
                                    Then(AttestedCheck(p.attestation), "accepted")))
      /\ AttachedCheck(q, i) = IF ~q.attested THEN "ok"
                               ELSE Then(Check(i.attestation_resolve_key), Then(Passed(new),
                                    Then(AttestedCheck(q.attestation), "accepted")))
  BY AttachedCheckIs
<1>3. old # "invalid_nonce" => new = old
  <2>1. p.attestation \in Attestation
    BY DEF Proof
  <2>2. old # "invalid_nonce" =>
          AttestationVerdict([p.attestation EXCEPT !.nonce = Fresh(p.attestation.nonce)],
                             i, TRUE) = old
    BY <2>1, RefreshedAttestation, Zenon
  <2> QED BY <1>1, <2>2, Zenon
<1>4. AttestedCheck(q.attestation) = AttestedCheck(p.attestation)
  BY <1>1 DEF AttestedCheck, CheckUnless, Check
<1> HIDE DEF q, old, new
<1>5. CASE p.attested /\ Check(i.attestation_resolve_key) = "ok"
  <2>1. old # "invalid_nonce"
    BY <1>2, <1>5 DEF Then, Passed
  <2> QED BY <1>1, <1>2, <1>3, <1>4, <2>1 DEF q
<1>6. CASE ~(p.attested /\ Check(i.attestation_resolve_key) = "ok")
  BY <1>1, <1>2, <1>6 DEF Then, q
<1> QED BY <1>5, <1>6

(* So a proof refused as invalid is refused as invalid again.              *)
LEMMA RefreshedVerdict ==
    ASSUME NEW p \in Proof, NEW i \in Issuer, p.nonce # "absent",
           Verdict(p, i) = "invalid_proof"
    PROVE  Verdict(Refreshed(p), i) = "invalid_proof"
<1> DEFINE q == Refreshed(p)
<1>1. /\ q.type = p.type /\ q.count = p.count /\ q.text = p.text /\ q.typed = p.typed
      /\ q.alg = p.alg /\ q.keyHeaders = p.keyHeaders /\ q.key = p.key
      /\ q.signature = p.signature /\ q.aud = p.aud /\ q.iat = p.iat /\ q.iss = p.iss
      /\ q.nonce = Fresh(p.nonce)
      /\ q.attestation = [p.attestation EXCEPT !.nonce = Fresh(p.attestation.nonce)]
  BY RefreshedType DEF Refreshed, Proof
<1> HIDE DEF q
<1>2. /\ HeaderCheck(q, i) = HeaderCheck(p, i) /\ KeyCheck(q, i) = KeyCheck(p, i)
      /\ ClaimsCheck(q, i) = ClaimsCheck(p, i)
  BY <1>1 DEF HeaderCheck, KeyCheck, ClaimsCheck, PublicKeyFromJwk, CheckUnless, Check
<1>3. /\ NonceCheck(p.nonce, i) \in {"ok", "invalid_nonce"}
      /\ NonceCheck(q.nonce, i) = "ok"
  BY <1>1 DEF NonceCheck, Fresh, Proof, Issuer, Nonces
<1>4. CASE p.type = "jwt"
  <2>1. Verdict(p, i) = Then(TextCheck(p.text), Then(HeaderCheck(p, i), Then(KeyCheck(p, i),
                        Then(ClaimsCheck(p, i), Then(NonceCheck(p.nonce, i),
                        Then(Passed(AttachedCheck(p, i)), "accepted"))))))
    BY <1>4, VerdictIs
  <2>2. Verdict(q, i) = Then(TextCheck(q.text), Then(HeaderCheck(q, i), Then(KeyCheck(q, i),
                        Then(ClaimsCheck(q, i), Then(NonceCheck(q.nonce, i),
                        Then(Passed(AttachedCheck(q, i)), "accepted"))))))
    BY <1>1, <1>4, VerdictIs
  <2>3. CASE AttachedCheck(p, i) # "invalid_nonce"
    <3>1. AttachedCheck(q, i) = AttachedCheck(p, i)
      BY <2>3, RefreshedAttached DEF q
    <3> QED BY <1>1, <1>2, <1>3, <2>1, <2>2, <3>1 DEF Then, q
  <2>4. CASE AttachedCheck(p, i) = "invalid_nonce"
    BY <1>1, <1>2, <1>3, <2>1, <2>2, <2>4 DEF Then, Passed, q
  <2> QED BY <2>3, <2>4
<1>5. CASE p.type # "jwt"
  <2>1. CASE p.count = 1
    <3>1. p.attestation \in Attestation
      BY DEF Proof
    <3>2. AttestationVerdict(p.attestation, i, FALSE) = "invalid_proof"
      BY <1>5, <2>1, VerdictIs
    <3>3. AttestationVerdict(q.attestation, i, FALSE) = "invalid_proof"
      BY <1>1, <3>1, <3>2, RefreshedAttestation
    <3> QED BY <1>1, <1>5, <2>1, <3>3, VerdictIs DEF q
  <2>2. CASE p.count # 1
    BY <1>1, <1>5, <2>2, VerdictIs DEF q
  <2> QED BY <2>1, <2>2
<1> QED BY <1>4, <1>5

(* A Wallet that gives up on invalid_proof gives up on nothing that a      *)
(* fresh nonce would have saved.                                           *)
THEOREM KeyProofInvalidProofIsFinal == Spec => []InvalidProofIsFinal
<1>1. KInv => InvalidProofIsFinal
  BY RefreshedVerdict DEF KInv, TypeOK, InvalidProofIsFinal
<1> QED BY <1>1, AlwaysKInv, PTL

----------------------------------------------------------------------------
(* What an attestation does not get a typed verdict for.                   *)
LEMMA UntypedFromAttestation ==
    ASSUME NEW a \in Attestation, issuer \in Issuer, NEW expiry \in BOOLEAN,
           AttestationVerdict(a, issuer, expiry) = "exception"
    PROVE  IllTypedAttestation(a)
<1>1. \/ TextCheck(a.text) = "exception"
      \/ AttestationHeaderCheck(a) = "exception"
      \/ AttestationSignatureCheck(a) = "exception"
      \/ /\ AttestationSignatureCheck(a) = "ok"
         /\ \/ AttestationClaimsCheck(a, expiry) = "exception"
            \/ LevelCheck(a, issuer) = "exception"
  BY AttestationVerdictIs, AttestationCheckTypes DEF Then
<1> QED BY <1>1 DEF TextCheck, AttestationHeaderCheck, AttestationSignatureCheck,
     AttestationClaimsCheck, LevelCheck, CheckUnless, Check, IllTypedAttestation

(* The same of one attached to a proof, and of its keys once it is         *)
(* accepted.                                                               *)
LEMMA UntypedFromAttached ==
    ASSUME NEW p \in Proof, issuer \in Issuer,
           Passed(AttachedCheck(p, issuer)) = "exception"
    PROVE  /\ p.attested /\ issuer.attestation_resolve_key
           /\ \/ IllTypedAttestation(p.attestation)
              \/ p.attestation.signature = "verifies" /\ p.attestation.keys = "raises"
<1> DEFINE attestation == AttestationVerdict(p.attestation, issuer, TRUE)
<1>0. p.attestation \in Attestation
  BY DEF Proof
<1>1. attestation \in {"accepted", "invalid_proof", "invalid_nonce", "exception"}
  BY <1>0, AttestationVerdictType
<1>2. AttachedCheck(p, issuer) = "exception"
  BY DEF Passed
<1>3. /\ p.attested
      /\ AttachedCheck(p, issuer) = Then(Check(issuer.attestation_resolve_key),
           Then(Passed(attestation), Then(AttestedCheck(p.attestation), "accepted")))
  BY <1>2, AttachedCheckIs
<1> HIDE DEF attestation
<1>4. /\ Check(issuer.attestation_resolve_key) = "ok"
      /\ \/ attestation = "exception"
         \/ attestation = "accepted" /\ AttestedCheck(p.attestation) = "exception"
  BY <1>1, <1>2, <1>3 DEF Then, Passed, Check
<1>5. attestation = "exception" => IllTypedAttestation(p.attestation)
  BY <1>0, UntypedFromAttestation DEF attestation
<1>6. attestation = "accepted" => p.attestation.signature = "verifies"
  BY <1>0, AcceptedAttestation DEF attestation
<1> QED BY <1>3, <1>4, <1>5, <1>6 DEF Check, CheckUnless, AttestedCheck

(* Each untyped exception of a jwt proof has its cause in the proof or,    *)
(* after the proof has verified, in the attestation it carries.            *)
LEMMA UntypedFromJwt ==
    ASSUME NEW p \in Proof, issuer \in Issuer, p.type = "jwt",
           Verdict(p, issuer) = "exception"
    PROVE  \/ IllTypedJwt(p)
           \/ p.signature = "verifies" /\ Passed(AttachedCheck(p, issuer)) = "exception"
<1>1. NonceCheck(p.nonce, issuer) # "exception"
  BY DEF NonceCheck, Proof, Issuer, Nonces
<1>2. \/ TextCheck(p.text) = "exception"
      \/ HeaderCheck(p, issuer) = "exception"
      \/ HeaderCheck(p, issuer) = "ok" /\ KeyCheck(p, issuer) = "exception"
      \/ ClaimsCheck(p, issuer) = "exception"
      \/ /\ ClaimsCheck(p, issuer) = "ok"
         /\ Passed(AttachedCheck(p, issuer)) = "exception"
  BY <1>1, VerdictIs DEF Then
<1>3. TextCheck(p.text) = "exception" => p.text = "not a string"
  BY DEF TextCheck, CheckUnless, Check
<1>4. HeaderCheck(p, issuer) = "exception" => p.alg = "not hashable"
  BY DEF HeaderCheck, CheckUnless, Check
<1>5. ASSUME HeaderCheck(p, issuer) = "ok", KeyCheck(p, issuer) = "exception"
      PROVE  IllTypedJwt(p)
  <2>1. p.keyHeaders \in {{"kid"}, {"jwk"}, {"x5c"}}
    BY <1>5 DEF HeaderCheck, CheckUnless, Check
  <2> QED BY <1>5, <2>1 DEF KeyCheck, PublicKeyFromJwk, CheckUnless, Check, IllTypedJwt
<1>6. ClaimsCheck(p, issuer) = "exception" => p.signature = "raises"
  BY DEF ClaimsCheck, CheckUnless, Check
<1>7. ClaimsCheck(p, issuer) = "ok" => p.signature = "verifies"
  BY DEF ClaimsCheck, CheckUnless, Check
<1> QED BY <1>2, <1>3, <1>4, <1>5, <1>6, <1>7 DEF IllTypedJwt

(* A validator that is given what it expects raises what it declares; what *)
(* an attestation contains can change that only once it was signed by a    *)
(* Wallet Provider.                                                        *)
THEOREM KeyProofUntypedErrorsNeedIllTypedInput == Spec => []UntypedErrorsNeedIllTypedInput
<1>1. ASSUME KInv, verdict = "exception" PROVE UntypedErrorsNeedIllTypedInput
  <2>1. /\ proof \in Proof /\ issuer \in Issuer /\ Verdict(proof, issuer) = "exception"
        /\ proof.attestation \in Attestation /\ proof.type \in {"jwt", "attestation"}
    BY <1>1 DEF KInv, TypeOK, Proof
  <2>2. CASE proof.type = "jwt"
    BY <2>1, <2>2, UntypedFromJwt, UntypedFromAttached DEF UntypedErrorsNeedIllTypedInput
  <2>3. CASE proof.type = "attestation"
    <3>1. /\ proof.count = 1
          /\ AttestationVerdict(proof.attestation, issuer, FALSE) = "exception"
      BY <2>1, <2>3, VerdictIs
    <3> QED BY <2>1, <2>3, <3>1, UntypedFromAttestation DEF UntypedErrorsNeedIllTypedInput
  <2> QED BY <2>1, <2>2, <2>3
<1>2. KInv => UntypedErrorsNeedIllTypedInput
  BY <1>1 DEF UntypedErrorsNeedIllTypedInput
<1> QED BY <1>2, AlwaysKInv, PTL
=============================================================================
