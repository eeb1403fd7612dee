------------------------------ MODULE Adapters ------------------------------
(***************************************************************************)
(* The three credential formats of adapters/, and what a verifier makes of *)
(* what a holder shows. An adapter keeps no state: issue() is a function   *)
(* of the claims, the holder's key and the random values it draws.         *)
(*                                                                         *)
(* A salted digest stands for what it was taken over and gives nothing     *)
(* else away, so it is a record of the hash and the text. Encodings,       *)
(* dates and the order of claims are left out; keys are named, and the     *)
(* did:jwk of a key is the key. An operator named after a slip is the      *)
(* mutant of the definition that follows it, used by no action.            *)
(***************************************************************************)
EXTENDS Naturals, FiniteSets

CONSTANTS
    Value,       \* claim values, credential types, identifiers: never compared otherwise
    Key,         \* holders' public keys
    CoseKey,     \* those on a curve that COSE_Key carries
    Salt,        \* what secrets.token_bytes returns
    DigestId,    \* stands for 0 .. MAX_DIGEST_ID - 1
    None

ASSUME KeyAssumption == CoseKey \subseteq Key
ASSUME NoneAssumption == None \notin Value

Hash == {"sha-256", "sha-512"}
ReservedClaimNames == {"_sd", "..."}
ClaimName == {"given_name", "degree", "id", "iss", "vct", "cnf", "_sd", "..."}

(* That a key does not suit the algorithm is noticed when it signs, not by *)
(* the constructor, by LocalJwsSigner as by LocalCoseSigner.               *)
SignerRaises(signer) == ~signer.keySuits

(* LocalJwsSigner: the header of the adapter, which is a typ only,         *)
(* completed by alg and, if the key has one, kid.                          *)
Sign(signer, typ, payload) ==
    [header |-> [alg |-> signer.algorithm, typ |-> typ, kid |-> signer.kid],
     payload |-> payload]

----------------------------------------------------------------------------
(* dc+sd-jwt                                                               *)

Digest(hash, text) == [hash |-> hash, of |-> text]

Concealed(a, claims) == DOMAIN claims \ a.visible

Disclosures(a, claims, salt) ==
    {[salt |-> salt[n], name |-> n, value |-> claims[n]] : n \in Concealed(a, claims)}

DigestsOf(a, disclosures) == {Digest(a.hash, d) : d \in disclosures}

(* The names that the format assigns, whatever the claims say.             *)
FormatNames(a) ==
    {"vct", "cnf", "_sd_alg"} \cup (IF a.issuer = None THEN {} ELSE {"iss"})

PayloadNames(a, claims, disclosures) ==
    (DOMAIN claims \cap a.visible) \cup (IF disclosures = {} THEN {} ELSE {"_sd"})
    \cup FormatNames(a)

(* The visible claims are written last.                                    *)
SdPayloadClaimsLast(a, claims, key, disclosures) ==
    [n \in PayloadNames(a, claims, disclosures) |->
        CASE n \in DOMAIN claims \cap a.visible -> claims[n]
          [] n = "vct" -> a.vct
          [] n = "cnf" -> key
          [] n = "_sd_alg" -> a.hash
          [] n = "iss" -> a.issuer
          [] n = "_sd" -> DigestsOf(a, disclosures)]

(* The visible claims first, then _sd, then the names of the format: a     *)
(* later assignment replaces an earlier one.                               *)
SdPayload(a, claims, key, disclosures) ==
    [n \in PayloadNames(a, claims, disclosures) |->
        CASE n = "vct" -> a.vct
          [] n = "cnf" -> key
          [] n = "_sd_alg" -> a.hash
          [] n = "iss" /\ a.issuer # None -> a.issuer
          [] n = "_sd" /\ disclosures # {} -> DigestsOf(a, disclosures)
          [] OTHER -> claims[n]]

SdJwt(a, claims, key, salt) ==
    LET disclosures == Disclosures(a, claims, salt)
    IN  [jwt |-> Sign(a.signer, "dc+sd-jwt", SdPayload(a, claims, key, disclosures)),
         parts |-> disclosures]

SdRefuses(a, claims) == Concealed(a, claims) \cap ReservedClaimNames # {}

(* A verifier of RFC 9901: each part shown has its digest in the payload,  *)
(* and its name occurs nowhere else.                                       *)
SdAccepts(c, shown) ==
    /\ "_sd" \in DOMAIN c.jwt.payload => c.jwt.payload["_sd"] \notin Value
    /\ \A d \in shown :
        /\ "_sd" \in DOMAIN c.jwt.payload
        /\ Digest(c.jwt.payload["_sd_alg"], d) \in c.jwt.payload["_sd"]
        /\ d.name \notin DOMAIN c.jwt.payload \cup ReservedClaimNames
        /\ \A e \in shown : e.name = d.name => e = d

SdSees(c, shown) ==
    [n \in (DOMAIN c.jwt.payload \ {"_sd", "_sd_alg"}) \cup {d.name : d \in shown} |->
        IF n \in DOMAIN c.jwt.payload THEN c.jwt.payload[n]
        ELSE (CHOOSE d \in shown : d.name = n).value]

----------------------------------------------------------------------------
(* jwt_vc_json                                                             *)

Types(a) == {"VerifiableCredential"} \cup a.types

(* The claims are written over the id of the subject.                      *)
CredentialSubject(claims, key) ==
    [n \in DOMAIN claims \cup {"id"} |-> IF n \in DOMAIN claims THEN claims[n] ELSE key]

JwtVc(a, claims, key, id) ==
    [jwt |-> Sign(a.signer, "JWT",
        [iss |-> a.issuer, jti |-> id, sub |-> key,
         vc |-> [id |-> id, type |-> Types(a), issuer |-> a.issuer,
                 credentialSubject |-> CredentialSubject(claims, key)]]),
     parts |-> {}]

----------------------------------------------------------------------------
(* mso_mdoc: claims per namespace                                          *)

Elements(claims) == UNION {{<<ns, e>> : e \in DOMAIN claims[ns]} : ns \in DOMAIN claims}

Item(claims, at, salt, id) ==
    [namespace |-> at[1], digestID |-> id[at], random |-> salt[at],
     elementIdentifier |-> at[2], elementValue |-> claims[at[1]][at[2]]]

(* Identifiers are drawn without looking at those drawn before.            *)
DigestIdsIndependent(at) == [at -> DigestId]

(* _digest_ids draws until there are enough, per namespace.                *)
DigestIds(at) ==
    {id \in [at -> DigestId] :
        \A p, q \in at : p[1] = q[1] /\ id[p] = id[q] => p = q}

ValueDigests(hash, namespaces, items) ==
    [ns \in namespaces |->
        [n \in {i.digestID : i \in {j \in items : j.namespace = ns}} |->
            Digest(hash, CHOOSE i \in items : i.namespace = ns /\ i.digestID = n)]]

Mdoc(a, claims, key, salt, id) ==
    LET items == {Item(claims, at, salt, id) : at \in Elements(claims)}
    IN  [mso |-> [valueDigests |-> ValueDigests(a.hash, DOMAIN claims, items),
                  digestAlgorithm |-> a.hash, deviceKey |-> key, docType |-> a.doctype],
         parts |-> items]

CarriedByCose(key) == key \in CoseKey

(* A claim outside a namespace, or a key that COSE_Key cannot carry. Both  *)
(* are found before anything is signed.                                    *)
MdocRefuses(claims, key) ==
    \/ \E ns \in DOMAIN claims : claims[ns] \in Value
    \/ ~CarriedByCose(key)

(* A verifier of ISO 18013-5.                                              *)
MdocAccepts(c, shown) ==
    \A i \in shown :
        /\ i.namespace \in DOMAIN c.mso.valueDigests
        /\ i.digestID \in DOMAIN c.mso.valueDigests[i.namespace]
        /\ Digest(c.mso.digestAlgorithm, i) = c.mso.valueDigests[i.namespace][i.digestID]

----------------------------------------------------------------------------
(* metadata_fragment                                                       *)
Fragment(a) ==
    CASE a.format = "dc+sd-jwt" -> [format |-> a.format, vct |-> a.vct]
      [] a.format = "jwt_vc_json" -> [format |-> a.format, types |-> Types(a)]
      [] a.format = "mso_mdoc" -> [format |-> a.format, doctype |-> a.doctype]

=============================================================================
