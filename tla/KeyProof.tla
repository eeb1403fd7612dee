------------------------------ MODULE KeyProof ------------------------------
(***************************************************************************)
(* How a key proof is judged: validate_jwt_proof and                       *)
(* validate_attestation_proof of crypto/proofs.py, on top of               *)
(* validate_key_attestation of crypto/attestation.py, and the Wallet that  *)
(* reacts to the verdict: it fetches a fresh nonce on invalid_nonce and    *)
(* gives up on anything else, as docs/reference/errors.md tells it to.     *)
(*                                                                         *)
(* A proof is a record of what the checks look at. The checks run in the   *)
(* order of the code and the first that does not pass decides. "exception" *)
(* is any error that is not a CredentialRequestError. What joserfc and the *)
(* issuer's callbacks answer is an outcome of the check that calls them,   *)
(* not computed. An operator named after a slip is the mutant of the       *)
(* definition that follows it.                                             *)
(***************************************************************************)
EXTENDS Naturals, Sequences, SequencesExt

CONSTANT Proofs,      \* the proofs to judge
         Issuers      \* the ways an issuer calls the validators

(* What becomes of jwt.decode(). "raises" is an error that is no JoseError;*)
(* in an attestation it may come from resolve_key as well, which is called *)
(* in the same try (attestation.py:134).                                   *)
Signatures == {"verifies", "fails", "too large", "raises"}
Nonces == {"absent", "current", "stale"}

(* What arrives where a compact JWT is expected. "not a string" stands for *)
(* all _decode_header() has no except clause for.                          *)
Texts == {"JWT", "garbled", "not a string"}

(* Key attestations. A level that is "not a set" is one that set() fails   *)
(* on; a key that "raises" is met with no ValueError by                    *)
(* public_key_from_jwk(), as one that is not an object.                    *)
Attestation ==
    [text : Texts, typed : BOOLEAN, alg : {"asymmetric", "none or MAC", "not a string"},
     signature : Signatures, iat : BOOLEAN,
     exp : {"absent", "past", "future", "not a number"},
     keys : {"none", "others", "proof key", "raises"},
     nonce : Nonces, level : {"accepted", "other", "absent", "not a set"}]

(* `key' describes the jwk header, or what resolve_key made of kid or x5c. *)
(* A proof of type "attestation" consists of its attestation alone.        *)
Proof ==
    [type : {"jwt", "attestation"}, count : 1 .. 2,
     text : Texts, typed : BOOLEAN,
     alg : {"none", "MAC", "unsupported", "supported", "not hashable"},
     keyHeaders : SUBSET {"kid", "jwk", "x5c"},
     key : {"public", "symmetric", "raises", "no JWK", "resolver raises"},
     signature : Signatures, aud : BOOLEAN, iat : BOOLEAN,
     iss : {"absent", "client", "other"}, nonce : Nonces,
     attested : BOOLEAN, attestation : Attestation]

(* Which of the optional arguments the issuer passes. *)
Issuer == [c_nonce : BOOLEAN, algorithms : BOOLEAN, client_id : BOOLEAN,
           resolve_key : BOOLEAN, attestation_resolve_key : BOOLEAN,
           required_level : BOOLEAN]

ASSUME InputAssumption == Proofs \subseteq Proof /\ Issuers \subseteq Issuer

----------------------------------------------------------------------------
(* One check: "ok", or the error it raises. *)
CheckUnregistered(holds) == IF holds THEN "ok" ELSE "invalid_request"
Check(holds) == IF holds THEN "ok" ELSE "invalid_proof"

(* A check whose own evaluation may raise what no except clause names.     *)
CheckUnless(raises, holds) == IF raises THEN "exception" ELSE Check(holds)

FirstFailure(checks) ==
    LET i == SelectInSeq(checks, LAMBDA check : check # "ok")
    IN  IF i = 0 THEN "accepted" ELSE checks[i]

(* _decode_header(), of proofs and of attestations.                        *)
TextCheck(text) == CheckUnless(text = "not a string", text = "JWT")

(* An alg that is a list or an object cannot be looked up among the MACs.  *)
HeaderCheck(p, issuer) ==
    CheckUnless(p.typed /\ p.alg = "not hashable",
                /\ p.typed
                /\ p.alg \notin {"none", "MAC"}
                /\ issuer.algorithms => p.alg = "supported"
                /\ \E h \in {"kid", "jwk", "x5c"} : p.keyHeaders = {h})

(* Anything but an asymmetric key is a ValueError, which the caller makes  *)
(* an invalid_proof; what is no object has no `get', and import_key() may  *)
(* raise an error of its own.                                              *)
PublicKeyFromJwk(key) == CheckUnless(key = "raises", key = "public")

(* The jwk header, or what the issuer's resolve_key makes of kid or x5c.   *)
KeyCheck(p, issuer) ==
    IF p.keyHeaders = {"jwk"} THEN PublicKeyFromJwk(p.key)
    ELSE CheckUnless(issuer.resolve_key /\ p.key = "resolver raises",
                     issuer.resolve_key /\ p.key = "public")

ClaimsCheck(p, issuer) ==
    CheckUnless(p.signature = "raises",
                /\ p.signature = "verifies"
                /\ p.aud /\ p.iat
                /\ issuer.client_id => p.iss # "other")

(* A jwt proof without a nonce is a bad proof, one with another a stale    *)
(* one. The attestation makes no such difference.                          *)
NonceCheckAlwaysStale(nonce, issuer) ==
    IF issuer.c_nonce /\ nonce # "current" THEN "invalid_nonce" ELSE "ok"
NonceCheckNeverStale(nonce, issuer) ==
    IF issuer.c_nonce /\ nonce # "current" THEN "invalid_proof" ELSE "ok"
NonceCheck(nonce, issuer) ==
    CASE ~issuer.c_nonce \/ nonce = "current" -> "ok"
      [] issuer.c_nonce /\ nonce = "absent" -> "invalid_proof"
      [] issuer.c_nonce /\ nonce = "stale" -> "invalid_nonce"

AttestationNonceCheck(nonce, issuer) ==
    IF issuer.c_nonce /\ nonce # "current" THEN "invalid_nonce" ELSE "ok"

(* validate_key_attestation(), check by check. The alg is asked whether it *)
(* starts with "HS", exp is compared with a number, and the level is made  *)
(* a set, whatever they are.                                               *)
AttestationHeaderCheck(a) ==
    CheckUnless(a.typed /\ a.alg = "not a string", a.typed /\ a.alg = "asymmetric")

AttestationSignatureCheck(a) ==
    CheckUnless(a.signature = "raises", a.signature = "verifies" /\ a.iat)

AttestationClaimsCheck(a, requireExpiry) ==
    CheckUnless(a.exp = "not a number",
                /\ requireExpiry => a.exp # "absent"
                /\ a.exp # "past"
                /\ a.keys # "none")

LevelCheck(a, issuer) ==
    CheckUnless(issuer.required_level /\ a.level = "not a set",
                issuer.required_level => a.level = "accepted")

(* exp is looked at before the signature. *)
AttestationVerdictClaimsFirst(a, issuer, requireExpiry) ==
    FirstFailure(<< TextCheck(a.text), AttestationHeaderCheck(a),
                    AttestationClaimsCheck(a, requireExpiry), AttestationSignatureCheck(a),
                    AttestationNonceCheck(a.nonce, issuer), LevelCheck(a, issuer) >>)

AttestationVerdict(a, issuer, requireExpiry) ==
    FirstFailure(<< TextCheck(a.text), AttestationHeaderCheck(a), AttestationSignatureCheck(a),
                    AttestationClaimsCheck(a, requireExpiry),
                    AttestationNonceCheck(a.nonce, issuer), LevelCheck(a, issuer) >>)

(* _require_key_is_attested(): a ValueError means one key less.            *)
AttestedByAnyone(a) == "ok"
AttestedCheck(a) == CheckUnless(a.keys = "raises", a.keys = "proof key")

Passed(verdict) == IF verdict = "accepted" THEN "ok" ELSE verdict

AttachedCheck(p, issuer) ==
    IF ~p.attested THEN "ok"
    ELSE FirstFailure(<< Check(issuer.attestation_resolve_key),
                         Passed(AttestationVerdict(p.attestation, issuer, TRUE)),
                         AttestedCheck(p.attestation) >>)

(* validate_jwt_proof(), validate_attestation_proof() *)
JwtVerdict(p, issuer) ==
    FirstFailure(<< TextCheck(p.text), HeaderCheck(p, issuer), KeyCheck(p, issuer),
                    ClaimsCheck(p, issuer), NonceCheck(p.nonce, issuer),
                    Passed(AttachedCheck(p, issuer)) >>)

Verdict(p, issuer) ==
    IF p.type = "jwt" THEN JwtVerdict(p, issuer)
    ELSE IF p.count = 1 THEN AttestationVerdict(p.attestation, issuer, FALSE)
    ELSE Check(FALSE)

----------------------------------------------------------------------------
VARIABLES proof, issuer, verdict,
          fetched          \* nonces the Wallet fetched after a verdict

vars == <<proof, issuer, verdict, fetched>>

Verdicts == {"none", "accepted", "invalid_proof", "invalid_nonce", "exception"}

TypeOK ==
    /\ proof \in Proof
    /\ issuer \in Issuer
    /\ verdict \in Verdicts
    /\ fetched \in Nat

Init == proof \in Proofs /\ issuer \in Issuers /\ verdict = "none" /\ fetched = 0

Validate ==
    /\ verdict = "none"
    /\ verdict' = Verdict(proof, issuer)
    /\ UNCHANGED <<proof, issuer, fetched>>

(* Whatever carried a nonce carries the fresh one. *)
Fresh(nonce) == IF nonce = "absent" THEN "absent" ELSE "current"
Refreshed(p) == [p EXCEPT !.nonce = Fresh(@), !.attestation.nonce = Fresh(@)]

(* The Wallet follows errors.md: invalid_nonce is the verdict to retry on. *)
Retry ==
    /\ verdict = "invalid_nonce" /\ fetched < 2
    /\ proof' = Refreshed(proof)
    /\ fetched' = fetched + 1
    /\ verdict' = "none"
    /\ UNCHANGED issuer

Next == Validate \/ Retry

Spec == Init /\ [][Next]_vars

----------------------------------------------------------------------------
(* What an accepted proof guarantees. A jwt proof: one asymmetric key that *)
(* signed the proof, addressed to this issuer, over its current nonce; and *)
(* "an attestation about keys nobody used" lends it nothing (proofs.py:    *)
(* 271). Either type: an attestation that is signed, not expired and made  *)
(* for this exchange.                                                      *)
AcceptedIsBound ==
    verdict = "accepted" =>
        LET current(nonce) == issuer.c_nonce => nonce = "current"
            vouched(a) == a.signature = "verifies" /\ a.exp # "past" /\ current(a.nonce)
        IN  /\ proof.type = "jwt" =>
                 /\ proof.alg # "MAC" /\ proof.key = "public"
                 /\ proof.signature = "verifies" /\ proof.aud /\ current(proof.nonce)
                 /\ proof.attested => /\ issuer.attestation_resolve_key
                                      /\ vouched(proof.attestation)
                                      /\ proof.attestation.exp = "future"
                                      /\ proof.attestation.keys = "proof key"
            /\ proof.type = "attestation" => proof.count = 1 /\ vouched(proof.attestation)

(* The Wallet that fetches a fresh nonce on invalid_nonce does not get the *)
(* same verdict again, unless its attestation carries no nonce at all.     *)
OneRetrySuffices ==
    fetched > 0 /\ verdict = "invalid_nonce" =>
        /\ proof.type = "attestation" \/ proof.attested
        /\ proof.attestation.nonce = "absent"

(* invalid_proof does not mean "retry": a proof that carries a nonce and   *)
(* is answered so would be answered so with a fresh nonce too.             *)
InvalidProofIsFinal ==
    verdict = "invalid_proof" /\ proof.nonce # "absent"
        => Verdict(Refreshed(proof), issuer) = "invalid_proof"

(* What the validators answer with an error nobody declared: values of a   *)
(* type they did not expect, callbacks or a library that raise. The        *)
(* contents of an attestation count among them only once its signature     *)
(* verifies.                                                               *)
IllTypedAttestation(a) ==
    \/ a.text = "not a string" \/ a.alg = "not a string" \/ a.signature = "raises"
    \/ /\ a.signature = "verifies"
       /\ \/ a.exp = "not a number"
          \/ issuer.required_level /\ a.level = "not a set"

IllTypedJwt(p) ==
    \/ p.text = "not a string" \/ p.alg = "not hashable" \/ p.signature = "raises"
    \/ p.keyHeaders = {"jwk"} /\ p.key = "raises"
    \/ /\ p.keyHeaders \in {{"kid"}, {"x5c"}}
       /\ issuer.resolve_key /\ p.key = "resolver raises"

(* A validator that is given what it expects, and whose callbacks raise    *)
(* nothing, refuses with a CredentialRequestError, in every combination of *)
(* options (proofs.py:133, attestation.py:113). An attestation inside a    *)
(* proof comes to nothing before the proof itself has verified, its        *)
(* contents before its own signature has (proofs.py:240, attestation.py:   *)
(* 151): what raises there was signed by a Wallet Provider we trust.       *)
UntypedErrorsNeedIllTypedInput ==
    verdict = "exception" =>
        \/ proof.type = "jwt" /\ IllTypedJwt(proof)
        \/ /\ proof.type = "attestation" /\ proof.count = 1
           /\ IllTypedAttestation(proof.attestation)
        \/ /\ proof.type = "jwt" /\ proof.attested /\ issuer.attestation_resolve_key
           /\ proof.signature = "verifies"
           /\ \/ IllTypedAttestation(proof.attestation)
              \/ proof.attestation.signature = "verifies" /\ proof.attestation.keys = "raises"

(* errors.md: invalid_nonce is for a nonce that is carried but not         *)
(* current; a proof that carries none is an invalid_proof.                 *)
InvalidNonceMeansStale ==
    verdict = "invalid_nonce" =>
        \/ proof.type = "jwt" /\ proof.nonce = "stale"
        \/ (proof.type = "attestation" \/ proof.attested) /\ proof.attestation.nonce = "stale"

(* validate-a-key-proof.md: whatever fails, a CredentialRequestError with  *)
(* invalid_proof or invalid_nonce is raised.                               *)
OnlyTypedErrors == verdict # "exception"
=============================================================================
