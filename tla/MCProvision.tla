---------------------------- MODULE MCProvision ----------------------------
(* Deployments for TLC: one of each format, what can be different about    *)
(* each, and what can be different about its identifier and its document.  *)
EXTENDS Provision, TLC

CONSTANTS v1, v2, v3, ours, type, key

Signer == [algorithm |-> "ES256", kid |-> None, keySuits |-> TRUE]

SdJwtVcAdapter == [format |-> "dc+sd-jwt", vct |-> type, issuer |-> ours, visible |-> {},
                   hash |-> "sha-256", signer |-> Signer]

JwtVcAdapter == [format |-> "jwt_vc_json", types |-> {type}, issuer |-> ours, signer |-> Signer]

MdocAdapter == [format |-> "mso_mdoc", doctype |-> type, hash |-> "sha-256",
                signer |-> Signer]

Adapters_ == { SdJwtVcAdapter, JwtVcAdapter, MdocAdapter,
    [SdJwtVcAdapter EXCEPT !.issuer = None],
    [SdJwtVcAdapter EXCEPT !.hash = "sha-512"],
    [SdJwtVcAdapter EXCEPT !.visible = {"degree", "vct", "cnf"}],
    [SdJwtVcAdapter EXCEPT !.visible = {"given_name", "iss", "_sd"}],
    [SdJwtVcAdapter EXCEPT !.visible = ClaimName, !.issuer = None],
    [SdJwtVcAdapter EXCEPT !.signer.keySuits = FALSE],
    [JwtVcAdapter EXCEPT !.signer.kid = key],
    [JwtVcAdapter EXCEPT !.signer.keySuits = FALSE],
    [MdocAdapter EXCEPT !.hash = "sha-512"],
    [MdocAdapter EXCEPT !.signer.keySuits = FALSE] }

At(path) == [scheme |-> "https", host |-> TRUE, path |-> path, queryOrFragment |-> FALSE]

DocumentOf(adapter, path) ==
    [credential_issuer |-> At(path), endpoints |-> {"https"}, display |-> <<"de", "en">>,
     configuration |-> [binding |-> TRUE, proofTypes |-> TRUE, fragment |-> Fragment(adapter)]]

Deployment(adapter, path) ==
    [adapter |-> adapter, document |-> DocumentOf(adapter, path), offered |-> At(path),
     prefix |-> WithoutTrailingSlash(path)]

Paths == {<< >>, <<"">>, <<"tenant">>, <<"tenant", "">>}

AllDeployments ==
    {Deployment(adapter, << >>) : adapter \in Adapters_}
    \cup {[Deployment(SdJwtVcAdapter, path) EXCEPT !.offered = At(offered)] :
            path \in Paths, offered \in Paths}
    \cup {[Deployment(MdocAdapter, << >>) EXCEPT !.document.configuration.binding = b,
                                                 !.document.configuration.proofTypes = p] :
            b \in BOOLEAN, p \in BOOLEAN}
    \cup {[Deployment(MdocAdapter, << >>) EXCEPT !.document.endpoints = {"https", "http"}],
          [Deployment(MdocAdapter, << >>) EXCEPT !.document.display = <<"de", "en", "de">>],
          [Deployment(MdocAdapter, << >>) EXCEPT !.document.credential_issuer.scheme = "http"]}

JsonClaims == { [given_name |-> v1, degree |-> v2], [given_name |-> v2, id |-> v3],
    [degree |-> v1, vct |-> v2, cnf |-> v3], ("iss" :> v1) @@ ("degree" :> v3),
    ("_sd" :> v1) @@ ("given_name" :> v2) }

NamespacedClaims == { [mdl |-> [given_name |-> v1, degree |-> v2], state |-> [given_name |-> v3]],
    [mdl |-> [given_name |-> v2]], [given_name |-> v1] }

ClaimsOfFormat == ("dc+sd-jwt" :> JsonClaims) @@ ("jwt_vc_json" :> JsonClaims)
                  @@ ("mso_mdoc" :> NamespacedClaims)

Symmetry == Permutations(Salt) \cup Permutations(DigestId)
=============================================================================
