----------------------------- MODULE MCKeyProof -----------------------------
(* Proofs for TLC: sound ones, and all that deviate in at most two places. *)
EXTENDS KeyProof

SoundAttestation ==
    [text |-> "JWT", typed |-> TRUE, alg |-> "asymmetric", signature |-> "verifies",
     iat |-> TRUE, exp |-> "future", keys |-> "proof key", nonce |-> "current",
     level |-> "accepted"]

SoundJwt ==
    [type |-> "jwt", count |-> 1, text |-> "JWT", typed |-> TRUE, alg |-> "supported",
     keyHeaders |-> {"jwk"}, key |-> "public", signature |-> "verifies", aud |-> TRUE,
     iat |-> TRUE, iss |-> "client", nonce |-> "current", attested |-> FALSE,
     attestation |-> SoundAttestation]

Sound == { SoundJwt,
           [SoundJwt EXCEPT !.attested = TRUE],
           [SoundJwt EXCEPT !.keyHeaders = {"kid"}],
           [SoundJwt EXCEPT !.type = "attestation", !.keyHeaders = {}] }

(* The values a field can take, of the proof and of its attestation. *)
ProofValues ==
    [count |-> 1 .. 2, text |-> Texts, typed |-> BOOLEAN,
     alg |-> {"none", "MAC", "unsupported", "supported", "not hashable"},
     keyHeaders |-> {{}, {"jwk"}, {"kid"}, {"kid", "jwk"}},
     key |-> {"public", "symmetric", "raises", "no JWK", "resolver raises"},
     signature |-> Signatures, aud |-> BOOLEAN, iat |-> BOOLEAN,
     iss |-> {"absent", "client", "other"}, nonce |-> Nonces]

AttestationValues ==
    [text |-> Texts, typed |-> BOOLEAN, alg |-> {"asymmetric", "none or MAC", "not a string"},
     signature |-> Signatures, iat |-> BOOLEAN,
     exp |-> {"absent", "past", "future", "not a number"},
     keys |-> {"none", "others", "proof key", "raises"},
     nonce |-> Nonces, level |-> {"accepted", "other", "absent", "not a set"}]

Deviate(proofs) ==
    UNION { UNION { {[p EXCEPT ![f] = v] : v \in ProofValues[f]}
                    : f \in DOMAIN ProofValues } : p \in proofs }
    \cup
    UNION { UNION { {[p EXCEPT !.attestation[f] = v] : v \in AttestationValues[f]}
                    : f \in DOMAIN AttestationValues } : p \in proofs }

TwoDeviations == Deviate(Deviate(Sound))

(* An issuer that uses every option, and those that leave out one. *)
Full == [c_nonce |-> TRUE, algorithms |-> TRUE, client_id |-> TRUE, resolve_key |-> TRUE,
         attestation_resolve_key |-> TRUE, required_level |-> TRUE]

FullButOne == {Full} \cup {[Full EXCEPT ![f] = FALSE] : f \in DOMAIN Full}
=============================================================================
