-------------------------- MODULE Provision_proofs --------------------------
(***************************************************************************)
(* For every set of claims, keys, salts and deployments: what a verifier   *)
(* accepts of a credential is what the issuer stated in it.                *)
(*                                                                         *)
(* The argument is local to one credential: it was made by the deployed    *)
(* adapter from the claims and the key noted with it (MadeFromItsRecord),  *)
(* and the operators of Adapters then leave the verifier no other value.   *)
(***************************************************************************)
EXTENDS Provision, SequenceTheorems, TLAPS

Documents(a, claims, key) ==
    CASE a.format = "dc+sd-jwt" ->
            {SdJwt(a, claims, key, salt) :
                salt \in {s \in [Concealed(a, claims) -> Salt] : ~SdRefuses(a, claims)}}
      [] a.format = "jwt_vc_json" -> {JwtVc(a, claims, key, id) : id \in Nat}
      [] a.format = "mso_mdoc" ->
            {Mdoc(a, claims, key, salt, id) :
                salt \in [Elements(claims) -> Salt], id \in DigestIds(Elements(claims))}

(* What is noted with a credential is what it was made from.               *)
Credentials(a) ==
    {c \in [format : {a.format}, claims : Claims[a.format], key : Key,
            document : UNION {Documents(a, claims, key) :
                                claims \in Claims[a.format], key \in Key}] :
        c.document \in Documents(a, c.claims, c.key)}

MadeFromItsRecord ==
    /\ deployment \in Deployments
    /\ issued \in Seq(Credentials(deployment.adapter))

(* The document that was sent is the deployment's.                         *)
DocumentIsTheDeployments ==
    /\ issued # << >> => document = deployment.document
    /\ wallet \in {"answered", "discarded", "trusting", "refused", "failed", "served"}
        => document = deployment.document /\ DocumentIsValid(document)

----------------------------------------------------------------------------
(* What the payload of an SD-JWT VC holds under each name.                 *)
LEMMA SdPayloadHolds ==
    ASSUME NEW a, NEW claims, NEW key, NEW disclosures
    PROVE  LET payload == SdPayload(a, claims, key, disclosures)
           IN  /\ payload["vct"] = a.vct
               /\ payload["cnf"] = key
               /\ payload["_sd_alg"] = a.hash
               /\ {"vct", "cnf", "_sd_alg"} \subseteq DOMAIN payload
               /\ a.issuer # None => "iss" \in DOMAIN payload /\ payload["iss"] = a.issuer
               /\ disclosures # {} => payload["_sd"] = DigestsOf(a, disclosures)
               /\ \A n \in DOMAIN payload :
                    n \in {"vct", "cnf", "_sd_alg", "_sd"} \/ (n = "iss" /\ a.issuer # None)
                    \/ (n \in DOMAIN claims /\ payload[n] = claims[n])
BY DEF SdPayload, PayloadNames, FormatNames

(* A verifier of an SD-JWT VC sees what the record says.                   *)
LEMMA SdIsTruthful ==
    ASSUME NEW a, NEW claims, NEW key, NEW salt, NEW shown,
           \A n \in DOMAIN claims : claims[n] \in Value,
           SdAccepts(SdJwt(a, claims, key, salt), shown)
    PROVE  LET c == SdJwt(a, claims, key, salt)
           IN  \A n \in DOMAIN SdSees(c, shown) :
                SdSees(c, shown)[n] = CASE n = "vct" -> a.vct
                                        [] n = "cnf" -> key
                                        [] n = "iss" /\ a.issuer # None -> a.issuer
                                        [] OTHER -> claims[n]
<1> DEFINE c == SdJwt(a, claims, key, salt)
           D == Disclosures(a, claims, salt)
           payload == SdPayload(a, claims, key, D)
<1>1. c.jwt.payload = payload
  BY DEF SdJwt, Sign
<1>2. /\ payload["vct"] = a.vct /\ payload["cnf"] = key /\ payload["_sd_alg"] = a.hash
      /\ {"vct", "cnf"} \subseteq DOMAIN payload
      /\ a.issuer # None => "iss" \in DOMAIN payload /\ payload["iss"] = a.issuer
      /\ D # {} => payload["_sd"] = DigestsOf(a, D)
      /\ \A n \in DOMAIN payload :
            n \in {"vct", "cnf", "_sd_alg", "_sd"} \/ (n = "iss" /\ a.issuer # None)
            \/ (n \in DOMAIN claims /\ payload[n] = claims[n])
  BY SdPayloadHolds
<1>3. D = {} /\ "_sd" \in DOMAIN payload
      => "_sd" \in DOMAIN claims /\ payload["_sd"] = claims["_sd"]
  BY DEF SdPayload, PayloadNames, FormatNames
<1>4. \A d \in D : d.value = claims[d.name]
  BY DEF Disclosures
<1> HIDE DEF c, D, payload
<1>5. /\ "_sd" \in DOMAIN payload => payload["_sd"] \notin Value
      /\ \A d \in shown : /\ "_sd" \in DOMAIN payload
                          /\ Digest(payload["_sd_alg"], d) \in payload["_sd"]
                          /\ d.name \notin DOMAIN payload
  BY <1>1 DEF SdAccepts, c
<1>6. \A d \in shown : d \in D
  <2> SUFFICES ASSUME NEW d \in shown PROVE d \in D
    OBVIOUS
  <2>1. D # {}
    BY <1>3, <1>5
  <2>2. Digest(a.hash, d) \in DigestsOf(a, D)
    BY <1>2, <1>5, <2>1
  <2> QED
    BY <2>2 DEF DigestsOf, Digest
<1>7. SdSees(c, shown) =
        [n \in (DOMAIN payload \ {"_sd", "_sd_alg"}) \cup {d.name : d \in shown} |->
            IF n \in DOMAIN payload THEN payload[n]
            ELSE (CHOOSE d \in shown : d.name = n).value]
  BY <1>1 DEF SdSees
<1> SUFFICES ASSUME NEW n \in DOMAIN SdSees(c, shown)
             PROVE  SdSees(c, shown)[n] = CASE n = "vct" -> a.vct
                                        [] n = "cnf" -> key
                                        [] n = "iss" /\ a.issuer # None -> a.issuer
                                        [] OTHER -> claims[n]
  BY DEF c
<1>8. CASE n \in DOMAIN payload /\ n \notin {"_sd", "_sd_alg"}
  <2>1. SdSees(c, shown)[n] = payload[n]
    BY <1>7, <1>8
  <2> QED
    BY <2>1, <1>2, <1>8
<1>9. CASE n \notin DOMAIN payload /\ n \in {d.name : d \in shown}
  <2>1. PICK d \in shown : d = CHOOSE e \in shown : e.name = n
    BY <1>9
  <2>2. d.name = n
    BY <1>9, <2>1
  <2>3. SdSees(c, shown)[n] = d.value
    BY <1>7, <1>9, <2>1
  <2>4. d.value = claims[n]
    BY <1>4, <1>6, <2>2
  <2> QED
    BY <2>3, <2>4, <1>2, <1>9
<1>10. n \in DOMAIN payload => n \notin {"_sd", "_sd_alg"}
  BY <1>5, <1>7
<1> QED
  BY <1>7, <1>8, <1>9, <1>10

(* A verifier of an mdoc sees what the record says.                        *)
LEMMA MdocIsTruthful ==
    ASSUME NEW a, NEW claims, NEW key, NEW salt, NEW id, NEW shown,
           MdocAccepts(Mdoc(a, claims, key, salt, id), shown),
           NEW i \in shown
    PROVE  i.elementValue = claims[i.namespace][i.elementIdentifier]
<1> DEFINE items == {Item(claims, at, salt, id) : at \in Elements(claims)}
           E == Elements(claims)
           digests == ValueDigests(a.hash, DOMAIN claims, items)
<1>1. \A j \in items : j.elementValue = claims[j.namespace][j.elementIdentifier]
  BY DEF Item
<1>2. /\ i.namespace \in DOMAIN digests
      /\ i.digestID \in DOMAIN digests[i.namespace]
      /\ Digest(a.hash, i) = digests[i.namespace][i.digestID]
  BY DEF MdocAccepts, Mdoc
<1> HIDE DEF items
<1>3. \E j \in items : Digest(a.hash, i) = Digest(a.hash, j)
  BY <1>2 DEF ValueDigests
<1>4. i \in items
  BY <1>3 DEF Digest
<1> QED
  BY <1>1, <1>4

----------------------------------------------------------------------------
(* Every way to make a credential is one of Documents.                     *)
LEMMA MadeIsDocument ==
    ASSUME NEW a, a.format \in {"dc+sd-jwt", "jwt_vc_json", "mso_mdoc"},
           NEW claims, NEW key, issued \in Seq(Credentials(a)), ~Raises(a, claims, key)
    PROVE  Made(a, claims, key) \subseteq Documents(a, claims, key)
<1>1. CASE a.format = "dc+sd-jwt"
  BY <1>1 DEF Made, Documents, Fresh, Raises
<1>2. CASE a.format = "jwt_vc_json"
  <2>1. Len(issued) \in Nat
    OBVIOUS
  <2> QED
    BY <1>2, <2>1 DEF Made, Documents
<1>3. CASE a.format = "mso_mdoc"
  BY <1>3 DEF Made, Documents, Fresh
<1> QED
  BY <1>1, <1>2, <1>3

LEMMA InitMade == Init => MadeFromItsRecord /\ DocumentIsTheDeployments
BY DEF Init, MadeFromItsRecord, DocumentIsTheDeployments

LEMMA IssueMakes ==
    ASSUME MadeFromItsRecord, Issue
    PROVE  MadeFromItsRecord'
<1> DEFINE a == deployment.adapter
<1>1. a.format \in {"dc+sd-jwt", "jwt_vc_json", "mso_mdoc"} /\ a' = a
  BY DeploymentAssumption DEF MadeFromItsRecord, Issue
<1>2. PICK claims \in Claims[a.format], key \in Key :
        /\ ~Raises(a, claims, key)
        /\ \E made \in Made(a, claims, key) :
            issued' = Append(issued, [format |-> a.format, claims |-> claims,
                                      key |-> key, document |-> made])
  BY DEF Issue
<1>3. PICK made \in Made(a, claims, key) :
        issued' = Append(issued, [format |-> a.format, claims |-> claims,
                                  key |-> key, document |-> made])
  BY <1>2
<1>4. issued \in Seq(Credentials(a))
  BY DEF MadeFromItsRecord
<1> HIDE DEF a
<1>5. made \in Documents(a, claims, key)
  BY <1>1, <1>2, <1>4, MadeIsDocument
<1> DEFINE c == [format |-> a.format, claims |-> claims, key |-> key, document |-> made]
<1>6. c \in Credentials(a)
  BY <1>5 DEF Credentials
<1> HIDE DEF c
<1>7. issued' \in Seq(Credentials(a))
  BY <1>3, <1>4, <1>6 DEF c
<1> QED
  BY <1>1, <1>7 DEF a, MadeFromItsRecord, Issue

LEMMA NextMade ==
    ASSUME MadeFromItsRecord, DocumentIsTheDeployments, [Next]_vars
    PROVE  MadeFromItsRecord' /\ DocumentIsTheDeployments'
<1>1. CASE NotFound \/ NoAnswer \/ IssuerMetadata
  BY <1>1 DEF NotFound, NoAnswer, IssuerMetadata, MadeFromItsRecord, DocumentIsTheDeployments
<1>2. CASE Compare \/ RefuseWithoutProof \/ Fail
  BY <1>2 DEF Compare, RefuseWithoutProof, Fail, MadeFromItsRecord, DocumentIsTheDeployments
<1>3. CASE Issue
  <2>1. DocumentIsTheDeployments'
    BY <1>3 DEF Issue, DocumentIsTheDeployments
  <2> QED
    BY <1>3, <2>1, IssueMakes
<1>4. CASE UNCHANGED vars
  BY <1>4 DEF vars, MadeFromItsRecord, DocumentIsTheDeployments
<1> QED
  BY <1>1, <1>2, <1>3, <1>4 DEF Next

LEMMA AlwaysMade == Spec => [](MadeFromItsRecord /\ DocumentIsTheDeployments)
<1>1. Init => MadeFromItsRecord /\ DocumentIsTheDeployments
  BY InitMade
<1>2. MadeFromItsRecord /\ DocumentIsTheDeployments /\ [Next]_vars
        => (MadeFromItsRecord /\ DocumentIsTheDeployments)'
  BY NextMade
<1> QED
  BY <1>1, <1>2, PTL DEF Spec

----------------------------------------------------------------------------
LEMMA IssuedIsCredential ==
    ASSUME MadeFromItsRecord, NEW i \in DOMAIN issued
    PROVE  /\ issued[i] \in Credentials(deployment.adapter)
           /\ issued[i].format = deployment.adapter.format
           /\ issued[i].format \in {"dc+sd-jwt", "jwt_vc_json", "mso_mdoc"}
           /\ issued[i].claims \in Claims[issued[i].format]
           /\ issued[i].document
                \in Documents(deployment.adapter, issued[i].claims, issued[i].key)
<1>1. issued[i] \in Credentials(deployment.adapter)
  BY DEF MadeFromItsRecord
<1> QED
  BY <1>1, DeploymentAssumption DEF Credentials, MadeFromItsRecord

(* Whatever a holder shows, the verifier rejects it or sees what the       *)
(* issuer stated: for all claims and names, keys, salts and digest         *)
(* identifiers, however many credentials the parts come from.              *)
THEOREM ProvisionPresentationsAreTruthful == Spec => []PresentationsAreTruthful
<1>1. MadeFromItsRecord => PresentationsAreTruthful
  <2> SUFFICES ASSUME MadeFromItsRecord, NEW i \in DOMAIN issued
               PROVE  CASE issued[i].format = "dc+sd-jwt" -> SdTruthful(issued[i])
                        [] issued[i].format = "jwt_vc_json" -> JwtTruthful(issued[i])
                        [] issued[i].format = "mso_mdoc" -> MdocTruthful(issued[i])
    BY DEF PresentationsAreTruthful
  <2> DEFINE a == deployment.adapter
             c == issued[i]
  <2>1. /\ c.format = a.format
        /\ c.format \in {"dc+sd-jwt", "jwt_vc_json", "mso_mdoc"}
        /\ c.claims \in Claims[c.format]
        /\ c.document \in Documents(a, c.claims, c.key)
    BY IssuedIsCredential
  <2> HIDE DEF a, c
  <2>2. CASE c.format = "dc+sd-jwt"
    <3>1. \A n \in DOMAIN c.claims : c.claims[n] \in Value
      BY <2>1, <2>2, ClaimsAssumption
    <3>2. PICK salt : c.document = SdJwt(a, c.claims, c.key, salt)
      BY <2>1, <2>2 DEF Documents
    <3>3. SdTruthful(c)
      BY <3>1, <3>2, SdIsTruthful DEF SdTruthful, Claim, a
    <3> QED
      BY <2>2, <3>3 DEF c
  <2>3. CASE c.format = "jwt_vc_json"
    <3>1. PICK id : c.document = JwtVc(a, c.claims, c.key, id)
      BY <2>1, <2>3 DEF Documents
    <3>2. JwtTruthful(c)
      BY <3>1 DEF JwtTruthful, JwtVc, Sign, CredentialSubject
    <3> QED
      BY <2>3, <3>2 DEF c
  <2>4. CASE c.format = "mso_mdoc"
    <3>1. PICK salt, id : c.document = Mdoc(a, c.claims, c.key, salt, id)
      BY <2>1, <2>4 DEF Documents
    <3>2. MdocTruthful(c)
      BY <3>1, MdocIsTruthful DEF MdocTruthful
    <3> QED
      BY <2>4, <3>2 DEF c
  <2> QED
    BY <2>1, <2>2, <2>3, <2>4 DEF c
<1> QED
  BY <1>1, AlwaysMade, PTL

(* A credential has the type the metadata promised and the holder's key.   *)
THEOREM ProvisionCredentialIsAsAdvertised == Spec => []CredentialIsAsAdvertised
<1>1. MadeFromItsRecord /\ DocumentIsTheDeployments => CredentialIsAsAdvertised
  <2> SUFFICES ASSUME MadeFromItsRecord, DocumentIsTheDeployments, NEW i \in DOMAIN issued
               PROVE  /\ TypeOf(issued[i]) = document.configuration.fragment
                      /\ HolderOf(issued[i]) = issued[i].key
    BY DEF CredentialIsAsAdvertised
  <2> DEFINE a == deployment.adapter
             c == issued[i]
  <2>1. /\ c.format = a.format
        /\ c.format \in {"dc+sd-jwt", "jwt_vc_json", "mso_mdoc"}
        /\ c.document \in Documents(a, c.claims, c.key)
    BY IssuedIsCredential
  <2>2. document.configuration.fragment = Fragment(a)
    BY DeploymentAssumption DEF MadeFromItsRecord, DocumentIsTheDeployments
  <2> HIDE DEF a, c
  <2>3. CASE c.format = "dc+sd-jwt"
    <3>1. PICK salt : c.document = SdJwt(a, c.claims, c.key, salt)
      BY <2>1, <2>3 DEF Documents
    <3>2. c.document.jwt.payload["vct"] = a.vct /\ c.document.jwt.payload["cnf"] = c.key
      BY <3>1, SdPayloadHolds DEF SdJwt, Sign
    <3> QED
      BY <2>1, <2>2, <2>3, <3>2 DEF TypeOf, HolderOf, Fragment, c
  <2>4. CASE c.format = "jwt_vc_json"
    <3>1. PICK id : c.document = JwtVc(a, c.claims, c.key, id)
      BY <2>1, <2>4 DEF Documents
    <3> QED
      BY <2>1, <2>2, <2>4, <3>1 DEF TypeOf, HolderOf, Fragment, JwtVc, Sign, c
  <2>5. CASE c.format = "mso_mdoc"
    <3>1. PICK salt, id : c.document = Mdoc(a, c.claims, c.key, salt, id)
      BY <2>1, <2>5 DEF Documents
    <3> QED
      BY <2>1, <2>2, <2>5, <3>1 DEF TypeOf, HolderOf, Fragment, Mdoc, c
  <2> QED
    BY <2>1, <2>3, <2>4, <2>5
<1> QED
  BY <1>1, AlwaysMade, PTL

----------------------------------------------------------------------------
(* A selection of the disclosures of an SD-JWT VC is accepted if none of   *)
(* them is shadowed, and all others together show every other claim.       *)
LEMMA SdIsShowable ==
    ASSUME NEW a, NEW claims, NEW key, NEW salt,
           \A n \in DOMAIN claims : claims[n] \in Value,
           DigestsOf(a, Disclosures(a, claims, salt)) \notin Value,
           ~SdRefuses(a, claims)
    PROVE  LET c == SdJwt(a, claims, key, salt)
               shadowed == {d \in c.parts : d.name \in FormatNames(a)}
               fits == "_sd" \in DOMAIN claims => c.parts # {}
           IN  /\ \A shown \in SUBSET c.parts :
                    SdAccepts(c, shown) <=> fits /\ shown \cap shadowed = {}
               /\ DOMAIN claims \ (FormatNames(a) \cup {"_sd"})
                    \subseteq DOMAIN SdSees(c, c.parts \ shadowed)
<1> DEFINE c == SdJwt(a, claims, key, salt)
           D == Disclosures(a, claims, salt)
           payload == SdPayload(a, claims, key, D)
           shadowed == {d \in D : d.name \in FormatNames(a)}
           fits == "_sd" \in DOMAIN claims => D # {}
<1>1. c.jwt.payload = payload /\ c.parts = D
  BY DEF SdJwt, Sign
<1>2. /\ payload["_sd_alg"] = a.hash
      /\ D # {} => payload["_sd"] = DigestsOf(a, D)
  BY SdPayloadHolds
<1>3. DOMAIN payload = PayloadNames(a, claims, D)
  BY DEF SdPayload
<1>4. "_sd" \in DOMAIN payload <=> D # {} \/ "_sd" \in DOMAIN claims
  BY <1>3 DEF PayloadNames, FormatNames, SdRefuses, Concealed, ReservedClaimNames
<1>5. ASSUME NEW n \in Concealed(a, claims)
      PROVE  n \in DOMAIN payload \cup ReservedClaimNames <=> n \in FormatNames(a)
  <2>1. n \notin ReservedClaimNames /\ n # "_sd" /\ n \notin a.visible
    BY DEF SdRefuses, Concealed, ReservedClaimNames
  <2> QED
    BY <1>3, <2>1 DEF PayloadNames
<1>6. /\ \A d \in D : d.name \in Concealed(a, claims)
      /\ \A d, e \in D : e.name = d.name => e = d
      /\ \A n \in Concealed(a, claims) : \E d \in D : d.name = n
      /\ \A d \in D : Digest(a.hash, d) \in DigestsOf(a, D)
  <2>1. \A d \in D : \E n \in Concealed(a, claims) :
            d = [salt |-> salt[n], name |-> n, value |-> claims[n]]
    BY DEF Disclosures
  <2>2. \A n \in Concealed(a, claims) : [salt |-> salt[n], name |-> n, value |-> claims[n]] \in D
    BY DEF Disclosures
  <2>3. \A d \in D : Digest(a.hash, d) \in DigestsOf(a, D)
    BY DEF DigestsOf
  <2> HIDE DEF D
  <2>4. \A n \in Concealed(a, claims) : \E d \in D : d.name = n
    BY <2>2
  <2>5. \A d \in D : /\ d.name \in Concealed(a, claims)
                    /\ d = [salt |-> salt[d.name], name |-> d.name, value |-> claims[d.name]]
    BY <2>1
  <2>6. \A d, e \in D : e.name = d.name => e = d
    BY <2>5
  <2> QED
    BY <2>3, <2>4, <2>5, <2>6
<1>7. DigestsOf(a, D) \notin Value
  OBVIOUS
<1>8. D = {} /\ "_sd" \in DOMAIN claims => payload["_sd"] \in Value
  <2>1. D = {} /\ "_sd" \in DOMAIN payload => payload["_sd"] = claims["_sd"]
    BY DEF SdPayload, PayloadNames, FormatNames
  <2> QED
    BY <1>4, <2>1
<1> HIDE DEF c, D, payload
<1>9. ("_sd" \in DOMAIN payload => payload["_sd"] \notin Value) <=> fits
  BY <1>2, <1>4, <1>7, <1>8
<1>10. ASSUME NEW shown \in SUBSET D
       PROVE  SdAccepts(c, shown) <=> fits /\ shown \cap shadowed = {}
  <2>1. ASSUME NEW d \in shown
        PROVE  (/\ "_sd" \in DOMAIN payload
                /\ Digest(payload["_sd_alg"], d) \in payload["_sd"]
                /\ d.name \notin DOMAIN payload \cup ReservedClaimNames
                /\ \A e \in shown : e.name = d.name => e = d) <=> d \notin shadowed
    <3>1. d \in D /\ D # {}
      OBVIOUS
    <3>2. d.name \notin DOMAIN payload \cup ReservedClaimNames <=> d \notin shadowed
      BY <3>1, <1>5, <1>6
    <3> HIDE DEF shadowed
    <3> QED
      BY <3>1, <3>2, <1>2, <1>4, <1>6
  <2>2. shown \cap shadowed = {} <=> \A d \in shown : d \notin shadowed
    OBVIOUS
  <2> HIDE DEF shadowed, fits
  <2> QED
    BY <1>1, <1>9, <2>1, <2>2 DEF SdAccepts
<1>11. DOMAIN claims \ (FormatNames(a) \cup {"_sd"}) \subseteq DOMAIN SdSees(c, D \ shadowed)
  <2>1. DOMAIN SdSees(c, D \ shadowed)
          = (DOMAIN payload \ {"_sd", "_sd_alg"}) \cup {d.name : d \in D \ shadowed}
    BY <1>1 DEF SdSees
  <2>2. \A n \in DOMAIN claims : n \in Concealed(a, claims) \/ n \in DOMAIN claims \cap a.visible
    BY DEF Concealed
  <2>3. DOMAIN claims \cap a.visible \subseteq DOMAIN payload
    BY <1>3 DEF PayloadNames
  <2>4. "_sd_alg" \in FormatNames(a)
    BY DEF FormatNames
  <2>5. \A n \in Concealed(a, claims) \ FormatNames(a) : n \in {d.name : d \in D \ shadowed}
    BY <1>6
  <2> HIDE DEF shadowed
  <2> QED
    BY <2>1, <2>2, <2>3, <2>4, <2>5
<1> QED
  BY <1>1, <1>10, <1>11 DEF c

(* A selection of the items of an mdoc is accepted, and no element is lost.*)
LEMMA MdocIsShowable ==
    ASSUME NEW a, NEW claims, NEW key, NEW salt, NEW id \in DigestIds(Elements(claims))
    PROVE  LET c == Mdoc(a, claims, key, salt, id)
           IN  /\ \A shown \in SUBSET c.parts : MdocAccepts(c, shown)
               /\ Elements(claims)
                    = {<<i.namespace, i.elementIdentifier>> : i \in c.parts}
<1> DEFINE E == Elements(claims)
           items == {Item(claims, at, salt, id) : at \in E}
           digests == ValueDigests(a.hash, DOMAIN claims, items)
           c == Mdoc(a, claims, key, salt, id)
<1>1. c.parts = items /\ c.mso.valueDigests = digests /\ c.mso.digestAlgorithm = a.hash
  BY DEF Mdoc
<1>2. \A at \in E : at = <<at[1], at[2]>> /\ at[1] \in DOMAIN claims
  BY DEF Elements
<1>3. \A at \in E : LET i == Item(claims, at, salt, id)
                    IN  /\ i.namespace = at[1] /\ i.elementIdentifier = at[2]
                        /\ i.digestID = id[at]
  BY DEF Item
<1>4. ASSUME NEW i \in items, NEW j \in items,
             i.namespace = j.namespace, i.digestID = j.digestID
      PROVE  i = j
  <2>1. PICK p \in E : i = Item(claims, p, salt, id)
    OBVIOUS
  <2>2. PICK q \in E : j = Item(claims, q, salt, id)
    OBVIOUS
  <2>3. p[1] = q[1] /\ id[p] = id[q]
    BY <1>3, <1>4, <2>1, <2>2
  <2> QED
    BY <2>1, <2>2, <2>3 DEF DigestIds
<1>5. \A i \in items : i.namespace \in DOMAIN claims
  BY <1>2, <1>3
<1>6. E = {<<i.namespace, i.elementIdentifier>> : i \in items}
  <2>1. \A i \in items : <<i.namespace, i.elementIdentifier>> \in E
    BY <1>2, <1>3
  <2>2. \A at \in E : \E i \in items : at = <<i.namespace, i.elementIdentifier>>
    BY <1>2, <1>3
  <2> QED
    BY <2>1, <2>2
<1> HIDE DEF items, E
<1>7. ASSUME NEW i \in items
      PROVE  /\ i.namespace \in DOMAIN digests
             /\ i.digestID \in DOMAIN digests[i.namespace]
             /\ Digest(a.hash, i) = digests[i.namespace][i.digestID]
  <2>1. i = CHOOSE j \in items : j.namespace = i.namespace /\ j.digestID = i.digestID
    BY <1>4
  <2> QED
    BY <1>5, <2>1 DEF ValueDigests
<1> HIDE DEF digests, c
<1>8. \A shown \in SUBSET items : MdocAccepts(c, shown)
  BY <1>1, <1>7 DEF MdocAccepts
<1> QED
  BY <1>1, <1>6, <1>8 DEF c, E

(* Which selections a verifier accepts, for any claims, namespaces and     *)
(* digest identifiers: all but those that show a claim of an SD-JWT VC     *)
(* called vct, cnf, _sd_alg or, of an issuer that names itself, iss.       *)
THEOREM ProvisionSelectionsAreAccepted == Spec => []SelectionsAreAccepted
<1>1. MadeFromItsRecord => SelectionsAreAccepted
  <2> SUFFICES ASSUME MadeFromItsRecord, NEW i \in DOMAIN issued
               PROVE  CASE issued[i].format = "dc+sd-jwt" -> SdShowable(issued[i])
                        [] issued[i].format = "mso_mdoc" -> MdocShowable(issued[i])
                        [] OTHER -> TRUE
    BY DEF SelectionsAreAccepted
  <2> DEFINE a == deployment.adapter
             c == issued[i]
  <2>1. /\ c.format = a.format
        /\ c.format \in {"dc+sd-jwt", "jwt_vc_json", "mso_mdoc"}
        /\ c.claims \in Claims[c.format]
        /\ c.document \in Documents(a, c.claims, c.key)
    BY IssuedIsCredential
  <2>2. a.format = "dc+sd-jwt" =>
            \A claims \in Claims["dc+sd-jwt"] : \A salt \in [Concealed(a, claims) -> Salt] :
                DigestsOf(a, Disclosures(a, claims, salt)) \notin Value
    BY DigestsAssumption DEF MadeFromItsRecord
  <2>3. CASE c.format = "dc+sd-jwt"
    <3> HIDE DEF a, c
    <3>1. PICK salt \in [Concealed(a, c.claims) -> Salt] :
                c.document = SdJwt(a, c.claims, c.key, salt) /\ ~SdRefuses(a, c.claims)
      BY <2>1, <2>3 DEF Documents
    <3>2. /\ DigestsOf(a, Disclosures(a, c.claims, salt)) \notin Value
          /\ \A n \in DOMAIN c.claims : c.claims[n] \in Value
      BY <2>1, <2>2, <2>3, ClaimsAssumption
    <3>3. SdShowable(c)
      BY <3>1, <3>2, SdIsShowable DEF SdShowable, Shadowed, a
    <3> QED
      BY <2>3, <3>3 DEF c
  <2>4. CASE c.format = "mso_mdoc"
    <3> HIDE DEF a, c
    <3>1. PICK salt \in [Elements(c.claims) -> Salt], id \in DigestIds(Elements(c.claims)) :
                c.document = Mdoc(a, c.claims, c.key, salt, id)
      BY <2>1, <2>4 DEF Documents
    <3>2. MdocShowable(c)
      BY <3>1, MdocIsShowable DEF MdocShowable
    <3> QED
      BY <2>4, <3>2 DEF c
  <2> QED
    BY <2>1, <2>3, <2>4
<1> QED
  BY <1>1, AlwaysMade, PTL

----------------------------------------------------------------------------
(* Inserting and appending are the same at the root.                       *)
LEMMA RootIsServed ==
    ASSUME deployment \in Deployments, AtRoot(deployment.offered), ConsistentIdentifier
    PROVE  MetadataPath(deployment.offered) = RoutePath(deployment.prefix)
<1>1. deployment.prefix = << >> /\ WithoutTrailingSlash(deployment.offered.path) = << >>
  BY DeploymentAssumption DEF AtRoot, ConsistentIdentifier
<1>2. WellKnownCredentialIssuer \in Seq({".well-known", "openid-credential-issuer"})
  BY DEF WellKnownCredentialIssuer
<1>3. WellKnownCredentialIssuer \o << >> = << >> \o WellKnownCredentialIssuer
  BY <1>2
<1> QED
  BY <1>1, <1>3 DEF MetadataPath, RoutePath

(* An issuer at the root that uses one identifier is found and trusted.    *)
THEOREM ProvisionRootIssuersAreFound == Spec => []RootIssuersAreFound
<1>1. Init => RootIssuersAreFound
  BY DEF Init, RootIssuersAreFound
<1>2. MadeFromItsRecord /\ DocumentIsTheDeployments /\ RootIssuersAreFound /\ [Next]_vars
        => RootIssuersAreFound'
  <2> SUFFICES ASSUME MadeFromItsRecord, DocumentIsTheDeployments, RootIssuersAreFound,
                      [Next]_vars,
                      AtRoot(deployment.offered)', ConsistentIdentifier'
               PROVE  wallet' \notin {"not found", "discarded"}
    BY DEF RootIssuersAreFound
  <2>1. deployment' = deployment
    BY DEF Next, vars, NotFound, NoAnswer, IssuerMetadata, Compare, RefuseWithoutProof,
           Fail, Issue
  <2>2. AtRoot(deployment.offered) /\ ConsistentIdentifier
    BY <2>1 DEF AtRoot, ConsistentIdentifier
  <2>3. wallet \notin {"not found", "discarded"}
    BY <2>2 DEF RootIssuersAreFound
  <2>4. ~NotFound
    BY <2>2, RootIsServed DEF NotFound, MadeFromItsRecord
  <2>5. CASE NoAnswer \/ IssuerMetadata \/ RefuseWithoutProof \/ Fail \/ Issue
    BY <2>5 DEF NoAnswer, IssuerMetadata, RefuseWithoutProof, Fail, Issue
  <2>6. CASE Compare
    <3>1. document.credential_issuer = deployment.offered
      BY <2>2, <2>6 DEF Compare, DocumentIsTheDeployments, ConsistentIdentifier
    <3> QED
      BY <2>6, <3>1 DEF Compare
  <2>7. CASE UNCHANGED vars
    BY <2>3, <2>7 DEF vars
  <2> QED
    BY <2>4, <2>5, <2>6, <2>7 DEF Next
<1> QED
  BY <1>1, <1>2, AlwaysMade, PTL DEF Spec

(* A sequence in front lends the whole its first element.                  *)
LEMMA FirstOfConcatenation ==
    ASSUME NEW S, NEW s \in Seq(S), NEW t \in Seq(S), s # << >>
    PROVE  (s \o t)[1] = s[1]
<1>1. Len(s) \in Nat \ {0} /\ Len(t) \in Nat
  BY EmptySeq, LenProperties
<1>2. 1 \in 1 .. Len(s) + Len(t) /\ 1 <= Len(s)
  BY <1>1
<1> QED
  BY <1>2, ConcatProperties

(* Inserting and appending differ at any other path: what is first there   *)
(* is the well-known string, what is first here a segment of the issuer's. *)
LEMMA MountedIsNotServed ==
    ASSUME NEW path, WithoutTrailingSlash(path) \in Seq(STRING),
           WithoutTrailingSlash(path) # << >>,
           WithoutTrailingSlash(path)[1] # ".well-known",
           NEW identifier, identifier.path = path
    PROVE  MetadataPath(identifier) # RoutePath(WithoutTrailingSlash(path))
<1> DEFINE mount == WithoutTrailingSlash(path)
           segment == STRING \cup {".well-known", "openid-credential-issuer"}
<1>1. WellKnownCredentialIssuer \in Seq(segment) /\ WellKnownCredentialIssuer # << >>
      /\ WellKnownCredentialIssuer[1] = ".well-known"
  BY DEF WellKnownCredentialIssuer
<1>2. mount \in Seq(segment) /\ mount # << >> /\ mount[1] # ".well-known"
  OBVIOUS
<1> HIDE DEF mount, segment
<1>3. (WellKnownCredentialIssuer \o mount)[1] = ".well-known"
  BY <1>1, <1>2, FirstOfConcatenation
<1>4. (mount \o WellKnownCredentialIssuer)[1] = mount[1]
  BY <1>1, <1>2, FirstOfConcatenation
<1>5. WellKnownCredentialIssuer \o mount # mount \o WellKnownCredentialIssuer
  BY <1>2, <1>3, <1>4
<1> QED
  BY <1>5 DEF MetadataPath, RoutePath, mount

(* An issuer with a path of its own, which does not begin as the           *)
(* well-known string does.                                                 *)
HasPath(identifier) ==
    LET mount == WithoutTrailingSlash(identifier.path)
    IN  mount \in Seq(STRING) /\ mount # << >> /\ mount[1] # ".well-known"

(* What the run discovery_prefix meets in one deployment holds of all: no  *)
(* issuer with a path that uses one identifier and is mounted where it     *)
(* says it lives is ever found (server_fastapi/app.py:137).                *)
THEOREM ProvisionMountedIssuersAreNeverFound ==
    Spec => [](HasPath(deployment.offered) /\ ConsistentIdentifier
                => wallet \in {"offered", "not found"})
<1> DEFINE Lost == HasPath(deployment.offered) /\ ConsistentIdentifier
                    => wallet \in {"offered", "not found"}
<1>1. Init => Lost
  BY DEF Init
<1>2. MadeFromItsRecord /\ Lost /\ [Next]_vars => Lost'
  <2> SUFFICES ASSUME MadeFromItsRecord, Lost, [Next]_vars,
                      HasPath(deployment.offered)', ConsistentIdentifier'
               PROVE  wallet' \in {"offered", "not found"}
    OBVIOUS
  <2>1. deployment' = deployment
    BY DEF Next, vars, NotFound, NoAnswer, IssuerMetadata, Compare, RefuseWithoutProof,
           Fail, Issue
  <2>2. HasPath(deployment.offered) /\ ConsistentIdentifier
    BY <2>1 DEF HasPath, ConsistentIdentifier
  <2>3. wallet \in {"offered", "not found"}
    BY <2>2
  <2>4. deployment.prefix = WithoutTrailingSlash(deployment.offered.path)
    BY <2>2, DeploymentAssumption DEF MadeFromItsRecord, ConsistentIdentifier
  <2>5. MetadataPath(deployment.offered) # RoutePath(deployment.prefix)
    BY <2>2, <2>4, MountedIsNotServed DEF HasPath
  <2> QED
    BY <2>3, <2>5 DEF Next, vars, NotFound, NoAnswer, IssuerMetadata, Compare,
           RefuseWithoutProof, Fail, Issue
<1> QED
  BY <1>1, <1>2, AlwaysMade, PTL DEF Spec

----------------------------------------------------------------------------
(* The random values of a credential are random values.                    *)
LEMMA SaltsAreSalts ==
    ASSUME NEW a, a.format \in {"dc+sd-jwt", "jwt_vc_json", "mso_mdoc"},
           NEW claims, NEW key, NEW made \in Documents(a, claims, key)
    PROVE  Salts([format |-> a.format, claims |-> claims, key |-> key, document |-> made])
                \subseteq Salt
<1>1. CASE a.format = "dc+sd-jwt"
  <2>1. PICK salt \in [Concealed(a, claims) -> Salt] : made = SdJwt(a, claims, key, salt)
    BY <1>1 DEF Documents
  <2>2. \A d \in Disclosures(a, claims, salt) : d.salt \in Salt
    BY DEF Disclosures
  <2>3. made.parts = Disclosures(a, claims, salt)
    BY <2>1 DEF SdJwt
  <2> QED
    BY <1>1, <2>2, <2>3 DEF Salts
<1>2. CASE a.format = "jwt_vc_json"
  <2>1. PICK id : made = JwtVc(a, claims, key, id)
    BY <1>2 DEF Documents
  <2>2. made.parts = {}
    BY <2>1 DEF JwtVc
  <2> QED
    BY <1>2, <2>2 DEF Salts
<1>3. CASE a.format = "mso_mdoc"
  <2>1. PICK salt \in [Elements(claims) -> Salt], id \in DigestIds(Elements(claims)) :
            made = Mdoc(a, claims, key, salt, id)
    BY <1>3 DEF Documents
  <2>2. \A at \in Elements(claims) : Item(claims, at, salt, id).random \in Salt
    BY DEF Item
  <2>3. made.parts = {Item(claims, at, salt, id) : at \in Elements(claims)}
    BY <2>1 DEF Mdoc
  <2> QED
    BY <1>3, <2>2, <2>3 DEF Salts
<1> QED
  BY <1>1, <1>2, <1>3

(* issue() appends a credential for a key that the format can carry.       *)
LEMMA IssueKeepsTypes ==
    ASSUME MadeFromItsRecord, TypeOK, Issue
    PROVE  TypeOK'
<1> DEFINE a == deployment.adapter
<1>1. a.format \in {"dc+sd-jwt", "jwt_vc_json", "mso_mdoc"}
  BY DeploymentAssumption DEF MadeFromItsRecord
<1>2. PICK claims \in Claims[a.format], key \in Key :
        /\ ~Raises(a, claims, key)
        /\ \E made \in Made(a, claims, key) :
            issued' = Append(issued, [format |-> a.format, claims |-> claims,
                                      key |-> key, document |-> made])
  BY DEF Issue
<1>3. PICK made \in Made(a, claims, key) :
        issued' = Append(issued, [format |-> a.format, claims |-> claims,
                                  key |-> key, document |-> made])
  BY <1>2
<1>4. issued \in Seq(Credentials(a)) /\ Len(issued) < MaxCredentials
  BY DEF MadeFromItsRecord, Issue
<1>5. /\ deployment' \in Deployments
      /\ wallet' = "served"
      /\ document' \in {d.document : d \in Deployments} \cup {None}
  BY DEF TypeOK, Issue
<1>6. \A i \in DOMAIN issued :
        /\ issued[i].claims \in Claims[issued[i].format]
        /\ issued[i].key \in (IF issued[i].format = "mso_mdoc" THEN CoseKey ELSE Key)
        /\ Salts(issued[i]) \subseteq Salt
  BY DEF TypeOK
<1> HIDE DEF a
<1>7. made \in Documents(a, claims, key)
  BY <1>1, <1>2, <1>4, MadeIsDocument
<1> DEFINE c == [format |-> a.format, claims |-> claims, key |-> key, document |-> made]
<1>8. /\ c.claims \in Claims[c.format]
      /\ c.key \in (IF c.format = "mso_mdoc" THEN CoseKey ELSE Key)
  BY <1>2 DEF Raises, MdocRefuses, CarriedByCose
<1>9. Salts(c) \subseteq Salt
  BY <1>1, <1>7, SaltsAreSalts
<1> HIDE DEF c
<1>10. /\ Len(issued') <= MaxCredentials
       /\ \A i \in DOMAIN issued' : \/ i \in DOMAIN issued /\ issued'[i] = issued[i]
                                  \/ issued'[i] = c
  BY <1>3, <1>4, MaxCredentialsAssumption DEF c
<1>11. \A i \in DOMAIN issued' :
        /\ issued'[i].claims \in Claims[issued'[i].format]
        /\ issued'[i].key \in (IF issued'[i].format = "mso_mdoc" THEN CoseKey ELSE Key)
        /\ Salts(issued'[i]) \subseteq Salt
  BY <1>6, <1>8, <1>9, <1>10
<1>12. (\A i \in DOMAIN issued :
        /\ issued[i].claims \in Claims[issued[i].format]
        /\ issued[i].key \in (IF issued[i].format = "mso_mdoc" THEN CoseKey ELSE Key)
        /\ Salts(issued[i]) \subseteq Salt)'
  BY <1>11 DEF Salts
<1> QED
  BY <1>5, <1>10, <1>12 DEF TypeOK

(* The Wallet, the document and the credentials keep their types; an mdoc  *)
(* is issued only for a key that COSE_Key carries.                         *)
THEOREM ProvisionTypeOK == Spec => []TypeOK
<1>1. Init => TypeOK
  BY MaxCredentialsAssumption DEF Init, TypeOK
<1>2. MadeFromItsRecord /\ TypeOK /\ [Next]_vars => TypeOK'
  <2> SUFFICES ASSUME MadeFromItsRecord, TypeOK, [Next]_vars PROVE TypeOK'
    OBVIOUS
  <2>1. CASE NotFound \/ NoAnswer \/ IssuerMetadata
    BY <2>1 DEF NotFound, NoAnswer, IssuerMetadata, TypeOK, Salts
  <2>2. CASE Compare \/ RefuseWithoutProof \/ Fail
    BY <2>2 DEF Compare, RefuseWithoutProof, Fail, TypeOK, Salts
  <2>3. CASE Issue
    BY <2>3, IssueKeepsTypes
  <2>4. CASE UNCHANGED vars
    BY <2>4 DEF vars, TypeOK, Salts
  <2> QED
    BY <2>1, <2>2, <2>3, <2>4 DEF Next
<1> QED
  BY <1>1, <1>2, AlwaysMade, PTL DEF Spec

=============================================================================
