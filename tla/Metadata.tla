------------------------------ MODULE Metadata ------------------------------
(***************************************************************************)
(* models/metadata.py: which issuer metadata is accepted, and where a      *)
(* Wallet looks for it. The path of a URL is the sequence of its segments: *)
(* "https://host" has << >>, "https://host/" has <<"">>, "https://host/a"  *)
(* has <<"a">>. All URLs are of one host.                                  *)
(***************************************************************************)
EXTENDS Naturals, Sequences, FiniteSetsExt, Functions

WellKnownCredentialIssuer == <<".well-known", "openid-credential-issuer">>

(* "/".rstrip: without the empty segments at the end.                      *)
WithoutTrailingSlash(path) ==
    SubSeq(path, 1, Max({0} \cup {i \in DOMAIN path : path[i] # ""}))

(* The path is taken as it is written.                                     *)
MetadataPathVerbatim(identifier) == WellKnownCredentialIssuer \o identifier.path

(* credential_issuer_metadata_url: inserted between host and path.         *)
MetadataPath(identifier) ==
    WellKnownCredentialIssuer \o WithoutTrailingSlash(identifier.path)

(* create_router: appended to the prefix.                                  *)
RoutePath(prefix) == prefix \o WellKnownCredentialIssuer

(* CredentialIssuerIdentifier: checked, and kept verbatim.                 *)
IdentifierIsValid(value) == value.scheme = "https" /\ value.host /\ ~value.queryOrFragment

EndpointsAreHttps(document) == \A endpoint \in document.endpoints : endpoint = "https"

OneObjectPerLocale(display) == IsInjective(display)

BindingAndProofsGoTogether(configuration) ==
    configuration.binding <=> configuration.proofTypes

(* CredentialIssuerMetadata.model_validate                                 *)
DocumentIsValid(document) ==
    /\ IdentifierIsValid(document.credential_issuer)
    /\ EndpointsAreHttps(document)
    /\ OneObjectPerLocale(document.display)
    /\ BindingAndProofsGoTogether(document.configuration)

=============================================================================
