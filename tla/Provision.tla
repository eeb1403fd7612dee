----------------------------- MODULE Provision -----------------------------
(***************************************************************************)
(* From offer to credential: a Wallet finds the metadata of the issuer it  *)
(* was sent to, learns what it has to prove, asks, and gets a credential   *)
(* made by an adapter, which it may show to a verifier in parts.           *)
(*                                                                         *)
(* A deployment is chosen at the start: an adapter, a document written by  *)
(* hand around the fragment of that adapter, the identifier it puts in its *)
(* offers, and the prefix its router is mounted at. The router checks      *)
(* nothing of this. The Wallet is external: it compares identifiers as     *)
(* models/common.py says, and proves possession of its key when the        *)
(* configuration lists proof types. Nonces, tokens and the proof itself    *)
(* are the business of Issuance and KeyProof.                              *)
(***************************************************************************)
EXTENDS Adapters, Metadata

CONSTANTS
    Deployments,     \* what may be deployed
    Claims,          \* what may be known of an End-User, for each format
    MaxCredentials   \* bound: the credentials issued

ASSUME MaxCredentialsAssumption == MaxCredentials \in Nat

(* The document is written around the fragment of the adapter, and an      *)
(* issuer that does not live at the root is mounted where it says it lives. *)
ASSUME DeploymentAssumption ==
    \A d \in Deployments :
        /\ d.adapter.format \in {"dc+sd-jwt", "jwt_vc_json", "mso_mdoc"}
        /\ d.document.configuration.fragment = Fragment(d.adapter)
        /\ d.prefix = WithoutTrailingSlash(d.document.credential_issuer.path)

(* JSON claims are flat: a value is none of the things the adapter makes.   *)
ASSUME ClaimsAssumption ==
    \A format \in {"dc+sd-jwt", "jwt_vc_json"} :
        \A claims \in Claims[format] : \A n \in DOMAIN claims : claims[n] \in Value

(* A list of digests is not a value of a claim.                            *)
ASSUME DigestsAssumption ==
    \A d \in Deployments : d.adapter.format = "dc+sd-jwt" =>
        \A claims \in Claims["dc+sd-jwt"] :
            \A salt \in [Concealed(d.adapter, claims) -> Salt] :
                DigestsOf(d.adapter, Disclosures(d.adapter, claims, salt)) \notin Value

VARIABLES
    deployment,
    wallet,      \* what the Wallet is at
    document,    \* the metadata it was sent, or None
    issued       \* the credentials, each with what it was made from

vars == <<deployment, wallet, document, issued>>

Salts(c) == {p[IF c.format = "mso_mdoc" THEN "random" ELSE "salt"] : p \in c.document.parts}

Drawn == UNION {Salts(issued[i]) : i \in DOMAIN issued}

TypeOK ==
    /\ deployment \in Deployments
    /\ wallet \in {"offered", "not found", "no answer", "answered", "discarded", "trusting",
                   "refused", "failed", "served"}
    /\ document \in {d.document : d \in Deployments} \cup {None}
    /\ wallet = "offered" => issued = << >>
    /\ Len(issued) <= MaxCredentials
    /\ \A i \in DOMAIN issued :
        /\ issued[i].claims \in Claims[issued[i].format]
        /\ issued[i].key \in (IF issued[i].format = "mso_mdoc" THEN CoseKey ELSE Key)
        /\ Salts(issued[i]) \subseteq Salt

Init ==
    /\ deployment \in Deployments
    /\ wallet = "offered"
    /\ document = None
    /\ issued = << >>

----------------------------------------------------------------------------
(* GET credential_issuer_metadata_url(the offered identifier). A document  *)
(* that does not validate is never sent: the backend cannot build it.      *)
NotFound ==
    /\ wallet = "offered"
    /\ MetadataPath(deployment.offered) # RoutePath(deployment.prefix)
    /\ wallet' = "not found"
    /\ UNCHANGED <<deployment, document, issued>>

NoAnswer ==
    /\ wallet = "offered"
    /\ MetadataPath(deployment.offered) = RoutePath(deployment.prefix)
    /\ ~DocumentIsValid(deployment.document)
    /\ wallet' = "no answer"
    /\ UNCHANGED <<deployment, document, issued>>

IssuerMetadata ==
    /\ wallet = "offered"
    /\ MetadataPath(deployment.offered) = RoutePath(deployment.prefix)
    /\ DocumentIsValid(deployment.document)
    /\ wallet' = "answered"
    /\ document' = deployment.document
    /\ UNCHANGED <<deployment, issued>>

(* "a simple string comparison with no normalization"                      *)
Compare ==
    /\ wallet = "answered"
    /\ wallet' = IF document.credential_issuer = deployment.offered
                 THEN "trusting" ELSE "discarded"
    /\ UNCHANGED <<deployment, document, issued>>

----------------------------------------------------------------------------
(* The glue: a credential is key bound, so a request needs a proof.        *)
RefuseWithoutProof ==
    /\ wallet \in {"trusting", "served"}
    /\ ~document.configuration.proofTypes
    /\ wallet' = "refused"
    /\ UNCHANGED <<deployment, document, issued>>

(* The holder's key is not looked at before it is signed.                  *)
RaisesOnClaimsOnly(a, claims, key) ==
    CASE a.format = "dc+sd-jwt" -> SdRefuses(a, claims) \/ SignerRaises(a.signer)
      [] a.format = "jwt_vc_json" -> SignerRaises(a.signer)
      [] a.format = "mso_mdoc" ->
            (\E ns \in DOMAIN claims : claims[ns] \in Value) \/ SignerRaises(a.signer)

(* adapter.issue raises; the exception is not a CredentialRequestError.    *)
Raises(a, claims, key) ==
    CASE a.format = "dc+sd-jwt" -> SdRefuses(a, claims) \/ SignerRaises(a.signer)
      [] a.format = "jwt_vc_json" -> SignerRaises(a.signer)
      [] a.format = "mso_mdoc" -> MdocRefuses(claims, key) \/ SignerRaises(a.signer)

Fail ==
    /\ wallet \in {"trusting", "served"}
    /\ document.configuration.proofTypes
    /\ \E claims \in Claims[deployment.adapter.format], key \in Key :
        Raises(deployment.adapter, claims, key)
    /\ wallet' = "failed"
    /\ UNCHANGED <<deployment, document, issued>>

(* Injections: random values are drawn once.                               *)
Fresh(S) == {salt \in [S -> Salt \ Drawn] : IsInjective(salt)}

Made(a, claims, key) ==
    CASE a.format = "dc+sd-jwt" ->
            {SdJwt(a, claims, key, salt) : salt \in Fresh(Concealed(a, claims))}
      [] a.format = "jwt_vc_json" -> {JwtVc(a, claims, key, Len(issued))}
      [] a.format = "mso_mdoc" ->
            {Mdoc(a, claims, key, salt, id) :
                salt \in Fresh(Elements(claims)), id \in DigestIds(Elements(claims))}

Issue ==
    /\ wallet \in {"trusting", "served"}
    /\ document.configuration.proofTypes
    /\ Len(issued) < MaxCredentials
    /\ \E claims \in Claims[deployment.adapter.format], key \in Key :
        /\ ~Raises(deployment.adapter, claims, key)
        /\ \E made \in Made(deployment.adapter, claims, key) :
            issued' = Append(issued, [format |-> deployment.adapter.format, claims |-> claims,
                                      key |-> key, document |-> made])
    /\ wallet' = "served"
    /\ UNCHANGED <<deployment, document>>

Next == NotFound \/ NoAnswer \/ IssuerMetadata \/ Compare
        \/ RefuseWithoutProof \/ Fail \/ Issue

Spec == Init /\ [][Next]_vars

----------------------------------------------------------------------------
AllParts == UNION {issued[i].document.parts : i \in DOMAIN issued}

Claim(c, n) ==
    CASE n = "vct" -> deployment.adapter.vct
      [] n = "cnf" -> c.key
      [] n = "iss" /\ deployment.adapter.issuer # None -> deployment.adapter.issuer
      [] OTHER -> c.claims[n]

SdTruthful(c) ==
    \A shown \in SUBSET AllParts :
        SdAccepts(c.document, shown) =>
            \A n \in DOMAIN SdSees(c.document, shown) :
                SdSees(c.document, shown)[n] = Claim(c, n)

(* "A verifier may read either copy, so this module writes both from one   *)
(* source" (vc_jwt.py:14): they agree, but for a subject whose claims name *)
(* an id of their own.                                                     *)
JwtTruthful(c) ==
    LET payload == c.document.jwt.payload
    IN  /\ payload.sub = c.key /\ payload.iss = payload.vc.issuer /\ payload.jti = payload.vc.id
        /\ "id" \notin DOMAIN c.claims => payload.vc.credentialSubject["id"] = payload.sub
        /\ \A n \in DOMAIN c.claims : payload.vc.credentialSubject[n] = c.claims[n]

MdocTruthful(c) ==
    \A shown \in SUBSET AllParts :
        MdocAccepts(c.document, shown) =>
            \A i \in shown : i.elementValue = c.claims[i.namespace][i.elementIdentifier]

(* Whatever a holder shows of a credential, even together with parts of    *)
(* other credentials: if the verifier accepts it, then each value it sees  *)
(* is the one the issuer stated in this credential. In an SD-JWT VC no     *)
(* claim, whatever its name, takes the place of the credential type, the   *)
(* holder's key or the issuer (sd_jwt_vc.py:157-162). In a JWT VC a claim  *)
(* called id does take the place of the subject's id (vc_jwt.py:138), and  *)
(* the two copies are not required to agree then.                          *)
PresentationsAreTruthful ==
    \A i \in DOMAIN issued :
        CASE issued[i].format = "dc+sd-jwt" -> SdTruthful(issued[i])
          [] issued[i].format = "jwt_vc_json" -> JwtTruthful(issued[i])
          [] issued[i].format = "mso_mdoc" -> MdocTruthful(issued[i])

(* Disclosures named like what the format assigns. make_disclosure refuses *)
(* _sd and "..." only (sd_jwt_vc.py:81).                                   *)
Shadowed(c) == {d \in c.document.parts : d.name \in FormatNames(deployment.adapter)}

(* An _sd of the record that no digests replaced spoils the credential.    *)
SdShowable(c) ==
    LET fits == "_sd" \in DOMAIN c.claims => c.document.parts # {}
        names == DOMAIN c.claims \ (FormatNames(deployment.adapter) \cup {"_sd"})
    IN  /\ \A shown \in SUBSET c.document.parts :
            SdAccepts(c.document, shown) <=> fits /\ shown \cap Shadowed(c) = {}
        /\ names \subseteq DOMAIN SdSees(c.document, c.document.parts \ Shadowed(c))

MdocShowable(c) ==
    /\ \A shown \in SUBSET c.document.parts : MdocAccepts(c.document, shown)
    /\ Elements(c.claims)
        = {<<i.namespace, i.elementIdentifier>> : i \in c.document.parts}

(* Which selections of its parts a holder can show: all, but for the       *)
(* disclosures the format's own names shadow, each of which makes any      *)
(* selection unacceptable. Digests and disclosures fit, digest identifiers *)
(* do not collide within a namespace, and no other claim is lost           *)
(* (sd_jwt_vc.py:144-162, mdoc.py:229-251).                                *)
SelectionsAreAccepted ==
    \A i \in DOMAIN issued :
        CASE issued[i].format = "dc+sd-jwt" -> SdShowable(issued[i])
          [] issued[i].format = "mso_mdoc" -> MdocShowable(issued[i])
          [] OTHER -> TRUE

(* What the verifier reads as the type of a credential.                    *)
TypeOf(c) ==
    CASE c.format = "dc+sd-jwt" -> [format |-> c.format, vct |-> c.document.jwt.payload["vct"]]
      [] c.format = "jwt_vc_json" ->
            [format |-> c.format, types |-> c.document.jwt.payload.vc.type]
      [] c.format = "mso_mdoc" -> [format |-> c.format, doctype |-> c.document.mso.docType]

HolderOf(c) ==
    CASE c.format = "dc+sd-jwt" -> c.document.jwt.payload["cnf"]
      [] c.format = "jwt_vc_json" -> c.document.jwt.payload.sub
      [] c.format = "mso_mdoc" -> c.document.mso.deviceKey

(* A credential is of the type that the metadata promised the Wallet, and  *)
(* bound to the key that the Wallet proved it holds.                       *)
CredentialIsAsAdvertised ==
    \A i \in DOMAIN issued :
        /\ TypeOf(issued[i]) = document.configuration.fragment
        /\ HolderOf(issued[i]) = issued[i].key

AtRoot(identifier) == WithoutTrailingSlash(identifier.path) = << >>

ConsistentIdentifier == deployment.offered = deployment.document.credential_issuer

(* An issuer that lives at the root and uses one identifier throughout is  *)
(* found and trusted, whether the identifier ends in a slash or not.       *)
RootIssuersAreFound ==
    AtRoot(deployment.offered) /\ ConsistentIdentifier
        => wallet \notin {"not found", "discarded"}

(* "prefix: mount point, if the issuer does not live at the root"          *)
(* (server_fastapi/app.py:135): such an issuer is found, too.              *)
MountedIssuersAreFound ==
    ConsistentIdentifier => wallet # "not found"

=============================================================================
