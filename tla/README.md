# A verification of openid4vci

TLA+ models of the parts of `openid4vci` that keep state or decide in several
steps, TLC runs on small instances, and TLAPS proofs for every instance.
Paths are relative to the repository; `authorization.py` means
`src/openid4vci/authorization.py` and so on.

## The system

The library helps a deployment become an OpenID4VCI Credential Issuer. A Wallet
finds the issuer's metadata, gets an *offer* with a pre-authorized code,
exchanges the code for an access token, fetches a `c_nonce`, and presents token
and key proof to the credential endpoint, which answers with credentials (200)
or with a transaction to poll (202).

| Component | State | Operations | Correct when |
| --- | --- | --- | --- |
| Authorization server, `authorization.py` | `_codes`, `_tokens`: dictionaries to `Grant`s; a clock | `offer`, `redeem`, `grant_for` | a code buys one token, in time, standing for what was offered; refusals are final; nobody can spoil another's code |
| Nonce store, `reference.py` | `_issued`: nonce to expiry; a clock | `issue` (sweeps), `is_current`, `consume` | accepted once, only within its lifetime; no growth without bound |
| Transaction store, `reference.py` | `_open`: identifier to payload | `open`, `payload`, `close` | collected once, never lost before that |
| Reference backend, `reference.py` | the two stores, `notifications` | `issue_credential`, `issue_deferred`, `notify`, `create_nonce` | mint is asked only for what is offered; errors and responses leave the stores right |
| FastAPI router, `server_fastapi/app.py` | none | one handler per endpoint | status code says what happened |
| Glue, `tests/test_end_to_end.py` | both stores and an adapter | `issue_credential` | a credential needs a token, an unused nonce and a sound proof |
| Key proofs, attestations, `crypto/` | none | `validate_jwt_proof`, `validate_attestation_proof`, `validate_key_attestation` | accepted means bound; the error code steers the Wallet rightly |
| Messages, `models/` | none | validators | reject what cannot be acted on |
| Metadata and discovery, `models/metadata.py`, `app.py` | none | `CredentialIssuerMetadata`, `credential_issuer_metadata_url`, the metadata route | a Wallet finds the document where it looks, and the document tells it what it must prove |
| Adapters, `adapters/` | none | `issue`, `metadata_fragment` | a verifier sees what the issuer stated, whatever the claims are called and whatever parts are shown |
| Signer, `crypto/signer.py` | none | `sign` | the header names the key that signed |
| Encryption, `crypto/encryption.py` | none | encrypt a response, decrypt a request | readable to the Wallet that asked only |

**How they interact.** The router calls a backend, an object with coroutines.
The reference backend delegates to `mint`, a coroutine of the deployment; the
end-to-end glue plays backend and mint at once and calls authorization server,
nonce store, proof validator and adapter in this order. All state is in one
process and one event loop serves all requests: a handler is interrupted at an
`await` only, and the only awaits that really suspend are those on `mint`
(`reference.py:169`, `:181`) and on the adapter's signer
(`test_end_to_end.py:108`).

**What is hard.** State checked before an await and changed after it
(`issue_deferred`); two requests with one proof; expiry between any two steps;
a clock (`time.time`) that is set back; a process that restarts and forgets
everything; exceptions that escape the clauses meant for them; error codes that
decide whether a Wallet retries. A server that runs handlers in threads
interleaves inside the stores' calls as well. Claims share a dictionary with the
names that a credential format reserves, and digests have to fit what the holder
shows later. Two functions compute the address of the metadata in two ways.
`PROJECT.json` lists each hazard at its line.

## Modules

| Module | Models | Composes |
| --- | --- | --- |
| `SingleUse` | abstract: a ticket is unissued, live, spent or dead, and never goes back | |
| `Entitlement` | abstract: what an issuer promises about its credentials | |
| `AuthorizationServer` | `InMemoryAuthorizationServer` | refines `SingleUse` (codes) |
| `NonceStore` | `InMemoryNonceStore` | refines `SingleUse` (nonces) |
| `IssuerBackend` | router, `InMemoryIssuerBackend`, `InMemoryTransactionStore` | |
| `Issuance` | the glue of the end-to-end test | instances of `AuthorizationServer` and `NonceStore` on one clock; refines `Entitlement` |
| `KeyProof` | the proof validators, and a Wallet that reacts to their verdict | |
| `Threads` | `redeem`, `grant_for`, `consume`, `issue` statement by statement, in several threads | refines `SingleUse` (codes and nonces) |
| `Adapters` | `issue()` and `metadata_fragment()` of the three formats, the signer, and verifiers (external) | |
| `Metadata` | which issuer metadata is valid, and where it is looked for and served | |
| `Provision` | a Wallet from offer to credential, and what a holder shows of it | uses `Adapters` and `Metadata` |
| `..._proofs` | theorems about the module of that name | `Issuance_proofs` cites those of the stores |
| `MC...` | small instances for TLC | |

**AuthorizationServer.** `codes` and `tokens` are the dictionaries as total
functions with `None` for an absent key. `Offer` is `offer()`: it stores the
code first and validates the offer afterwards, so a rejected offer leaves an
unpublished code behind. `redeem()` is four actions, one per way out, in the
order of the code: `RefuseRequest` (grant type, anonymous client), `RefuseCode`
(unknown or expired: the code is popped), `RefuseTransactionCode` (nothing
moves) and `Exchange`. `grant_for()` is `Honour` and `Dismiss`.
`TransactionCodeError` keeps the three failures apart, and the `TypeError` that
`compare_digest` raises on text that is not ASCII. A Wallet presents codes it
was told of and codes it made up (`Presentable`); random identifiers are never
guessed (`FreshCode`, `FreshToken`), so an unpublished code is never presented
and no property notices that it was left behind. `offers`, `redeemed`, `refusedCodes` and
`refusedTokens` are history for the properties, `answer` the last answer.

**NonceStore.** `held` is `_issued`. `Issue` includes the sweep of
`_forget_expired()`. `Refuse` leaves the store alone: unlike `redeem()`,
`consume()` does not drop an expired entry.

**IssuerBackend.** One record per HTTP call. `BeginCredential` and
`BeginDeferred` run a handler up to the await on mint; `Respond` and `Raise`
are mint's return or exception with the rest of the handler; in between, other
calls are served. `mint` is external: it may open a transaction
(`OpenTransaction`, with a payload other than `None`) and then answer with it or
fail, issue at once, raise any exception, or on a poll answer with the
credentials or the unchanged transaction identifier (`models/deferred.py:31`). `Unauthorized` and
`Unprocessable` are the 401 of `_context` and FastAPI's 422 for a body that is
no object; neither reaches the backend. `ValidRequest` and
`ValidResponse` are the validators of `models/credential.py`;
`KnownConfiguration` is the backend's own test, which asks for `None` where the
validator asks for emptiness.

**Issuance.** A session is one credential request through the glue:
`DenyToken`, `RefuseWithoutProof`, `RefuseNonce`, `RefuseProof` and
`StartSigning` are the ways the synchronous part ends, `FinishSigning` the
return from the await. A proof that fails after its nonce was spent is an
`invalid_proof`, or a 500 where validation raises an untyped error. Token lookup and nonce use are the very actions of the two
store modules.

`Spec` has the clock go on only; `WallSpec`, which the theorems use, lets it be
set back (`StepBack`). `Entitlement` is what all of this is for, seen from
outside: an offer names a person, its code buys one token, a nonce is handed
out, and a credential goes to the person of the offer behind the token and costs
a nonce that bought no other. It knows of no store, lifetime, proof or overlap,
and nothing in it is ever taken back. `CredentialsAreEntitled` is the
refinement; a request gets its credential at the return from the await.

**KeyProof.** A proof is a record of what the checks look at. `JwtVerdict`
and `AttestationVerdict` list the checks in the order of the code, and the
first failure is the verdict. "exception" is any error that is not a
`CredentialRequestError`. A field of a proof has a value of its own for what the
code does not expect there (a proof that is no string, an `alg` that cannot be
hashed, an `exp` that is no number, ...), and a check that would stumble over it
is a `CheckUnless`: it raises, wherever in the order of the code the value is
looked at. `Retry` is a Wallet that does what
`docs/reference/errors.md` says.

**Threads.** A call is as many steps as it has statements that touch shared
state; `frame` holds what is in the local variables of a thread, and each
statement reads the clock for itself. One dictionary operation is one step, as
the interpreter guarantees. A `Grant` is an object: `redeem()` renews in place
the one another thread may have looked up, so the expiry is kept per object.
`del` raises `KeyError` on a missing key and `pop` does not; the walk of the
sweep raises `RuntimeError` if the dictionary changed its size, and may or may
not have seen what came or went. The request checks before the lookup, subjects
and restarts, which do not depend on interleaving, are in the modules above.

**Adapters, Metadata, Provision.** A deployment is an adapter, a metadata
document around its fragment, the identifier in its offers and the prefix of its
router. The Wallet looks for the document (`NotFound`, `NoAnswer`,
`IssuerMetadata`), compares identifiers (`Compare`) and asks, with a proof if
the metadata lists proof types (`RefuseWithoutProof`, `Fail`, `Issue`). `Issue`
appends what the adapter makes to `issued`, together with the claims and the key
it was made from. A digest is a record of hash and text. Every assignment to the
payload in the code is a case in `SdPayload`, in the order that decides which
one survives. `PresentationsAreTruthful` and `SelectionsAreAccepted` range
over what a holder may show, also of several credentials at once, to a verifier
written down as RFC 9901 and ISO 18013-5 have it.
A disclosed claim called `vct`, `cnf`, `_sd_alg` or, if the adapter names an
issuer, `iss` gets past `make_disclosure` (`sd_jwt_vc.py:81`), and a verifier
refuses whatever it is shown with it (`Shadowed`). `SelectionsAreAccepted`
says that those are the only selections refused.

Operators named after a slip (`WithoutForgetting`, `CloseNothing`, ...) stand
before the definition they distort. No action uses them; substituting one for
that definition shows which property notices.

## Runs

| Run | Question | Instance |
| --- | --- | --- |
| `auth` | What does `redeem()` give out, refuse for good, leave alone? | 2 codes, tokens, subjects and transaction codes (one not ASCII), anonymous clients refused, clock 0..2 that may be set back |
| `nonce` | Do single use, expiry and sweep agree? | 3 nonces, clock 0..3 that may be set back |
| `issuance` | Who gets a credential, for which token and nonce? Does the issuer implement `Entitlement`, and do the stores implement `SingleUse` under the glue? | 2 sessions, subjects, codes, tokens and nonces, clock 0..1, lifetimes 1 |
| `threads` | Which promises of the stores survive threads, and what does a lost race cost? | 2 threads, 1 code, 2 tokens, 2 nonces, clock 0..2 that may be set back between any two statements |
| `issuer` | What do interleaved calls do to transactions, how often are credentials handed out, what does mint see, and is a transaction collected in the end? | 2 calls, 2 transactions |
| `provision` | Is the issuer found, the credential as advertised, and which selections of it are accepted and believed rightly? | 34 deployments, 2 credentials of up to 3 claims each |
| `keyproof` | Is an accepted proof bound, does the error code steer the Wallet rightly, and where do untyped errors come from? | four sound proofs and all that differ from one in at most two places; issuers that leave out at most one option |

Five runs end in a violation, each of one statement the repository makes:

| Run | Statement | What happens |
| --- | --- | --- |
| `issuer_twice` | "a transaction identifier that keeps working is a second way to ask for the same credential" (`reference.py:109`) | two polls overlap at the await and both collect |
| `issuer_rendered` | "The FastAPI router renders it as a 400" (`errors.md:11`) | the deferred endpoint lets a `CredentialRequestError` out as a 500 |
| `discovery_prefix` | "mount point, if the issuer does not live at the root" (`app.py:135`) | the router appends the well-known string to the prefix, where `metadata.py:265` has it inserted before the path: a Wallet gets a 404 from every issuer with a path |
| `keyproof_nonce` | `invalid_nonce` is for a proof that "carries a `c_nonce` that is not current" (`errors.md:29`) | an attestation without any nonce gets it too, and a Wallet that retries gets it again |
| `keyproof_typed` | "raises `CredentialRequestError` ... when anything fails" (`validate-a-key-proof.md:20`) | an attestation whose `alg` is no string raises `AttributeError` (`attestation.py:125`); see below for the others |

The places where the model has the validators raise an untyped error:
a proof or an attestation that is no string (`proofs.py:83`,
`attestation.py:73`), an `alg` of another type (`proofs.py:146`,
`attestation.py:125`), a `jwk` header or an attested key that is no object, or
that joserfc rejects with an error of its own (`proofs.py:172`, `:286`), an
`exp` that is no number (`attestation.py:163`), a level that makes no set
(`attestation.py:200`), an error of `jwt.decode()` that is no `JoseError`, and a
callback that raises (`proofs.py:182`, `attestation.py:134`).

**Bounds.** `MaxTime` stops the clock; with lifetimes of 1 and 2 it lets a
ticket be used before, at and after its expiry, and the clock be set back across
it. Two of each identifier are enough for every property that relates two (two
tokens of one code, two requests with one nonce), three nonces let one be swept
while another stays. Identifiers are drawn once, so state spaces are finite;
when all are drawn, the system goes on with refusals. The number of times a
transaction was collected (`collected`) stops counting one above the number of
calls, which `CollectionsNeedOverlap` shows never to be reached. In `threads`
two threads suffice for every race, since a race is between a check and one
change by somebody else. There a behaviour uses one of the two stores
(`OneStore`): they share nothing but the clock; the proofs need no such bound.
In `provision`, six salts and three digest identifiers are as many as two
credentials of three claims draw; the deployments vary one thing at a time
(format, hash, visible claims, issuer, key, identifier, declared binding), and
the claims take each name that the format reserves.

Deadlock is not checked in `auth`, `nonce`, `issuance`, `keyproof`, `provision`
and the violation runs of the last two, where the bounds or a final verdict stop
the system; `Threads` and `IssuerBackend` never stop and are checked. Symmetry
is used for identifiers, threads, calls and random values that are only
compared, and not in the run with a liveness property.

**Fairness.** `issuer` assumes what `models/deferred.py` and the
specification expect of the other sides, and nothing of the library but that a
coroutine that can go on does: the Wallet polls a transaction it was told of
again and again (strong fairness, since other calls may occupy the server), mint
always returns (weak), and not every poll of a transaction fails or is pending
(strong). Without the last, `OpenIsEventuallyCollected` is false, and should
be. What is left for the library to get right is that no failed or pending poll
closes the transaction to the Wallet, and that collecting ends it.

## Proofs

TLAPS proves every property of the passing runs but `OpenIsEventuallyCollected`,
for every set of codes, tokens, subjects, nonces, threads, sessions,
transactions, claims, keys and deployments, every finite set of calls and all
lifetimes; among them that the authorization server, the nonce store, their
composition and their statements under threads implement `SingleUse`, and that
the composition implements `Entitlement`. The assumptions are the named
`ASSUME`s: lifetimes are natural numbers; `None` is none of the values; finitely
many calls are in flight; the words for a bad name are not configurations; a
document is written around the fragment of its adapter and mounted where it says
it lives; JSON claims are flat, and a list of digests is not the value of one.
Nothing is assumed of the clock in theorems named `Wall...` and `Threads...` nor
in `IssuanceTypeOK`, `IssuanceNonceAdmitsOneRequest` and
`IssuanceCredentialsAreEntitled`: it may be set back. `SingleUse`, whose tickets
die for good, and `IssuanceCredentialIsTraceable`, which has a request come
after the exchange and the nonce it refers to, assume a clock that goes on.

*Authorization server.* The properties are not inductive. That a code buys one
token only follows because the code a token was bought with is no longer in the
store (`CodeIsUnused`); that a token stands for a published offer follows
because only published codes are presented (`RedeemedWasPublished`); that a
refusal is final because a refused code or token is in neither store
(`TokenNotRefused`), which is where `pop` in the refusing branch is needed.
`ServerInv` is the conjunction of these with the properties; one lemma per
action that moves a `Grant` shows that it is kept, and `NextServerInv` puts
them together. `NoErrorMeansMatch` says that `_check_transaction_code` is
complete. `StepRefines` shows that each step of the server is a step of
`SingleUse` or leaves all phases alone: `Exchange` is `Spend`, and a tick of the
clock or a restart is `Lapse` of all codes that expire in it.

*Nonce store.* `StoreInv` adds that what the store holds is unused and
carries the expiry of its issue (`HeldIsUnused`).

*Threads.* `IInv` says of each thread what it may rely on at its statement: the
comparison it made still holds of the code if that is in the dictionary
(`RedeemInv`), a code that was deleted is one thread's only, a call that began
after a refusal finds nothing (`LateInv`), the expiry it looked up is that of
the issue (`ConsumeInv`), and a call that nobody overlapped finds the
dictionaries as it left them (`AloneInv`). There is one lemma per statement. That
one thread gets past `del` is what carries single use; that a `Grant` is renewed
only after its code was deleted is what makes the shared object harmless.

*Reference backend.* `BackendInv` adds that a collected transaction is not open,
that a poll is of a transaction the Wallet was told of, and that a transaction
nobody was told of belongs to one call (`UntoldBelongsToOneCall`): without the
last, a second call could answer 202 with a transaction that was collected.
`CollectedOnce` is false (`issuer_twice`), and `CollectionsNeedOverlap` says what
is true instead: the polls of a transaction that wait for mint and the times it
was collected are together no more than the calls. A poll begins on an open
transaction only, none of which was collected yet; from the first collection on
the sum can only be redistributed, since each collection ends a poll
(`CollectingEndsAPoll`). With one call at a time, `CollectedOnce` follows
(`BackendCollectedOnceWithOneCall`).

*Composition.* `StoreStep` and `ServerStep` show that every step of `Issuance`
is a step of either store or leaves it alone, so the stores' own theorems hold
in it and are cited, not repeated. This is stated for `WallSpec`, of which
`Spec` is a part. Its `IInv` adds that a session past the nonce check has paid
with a nonce that had not expired (`Paid`) and no other has paid with the same
(`SpendersDiffer`), and that one that signs holds a token bought for its subject
(`Entitled`). What history and requests have to do with the order of time is
kept apart in `OrderInv`, which a clock that is set back breaks: there is no
history in the future, and a request comes after what it refers to.

Each step of the issuer is then a step of `Entitlement` or none of its business
(`StepEntitles`). The one that matters is the return from the await: `Entitled`
gives the token and the subject, `Paid` the nonce, and `SpendersDiffer` that no
credential was given for it while the signer was busy. That a code buys one
token is `CodeIsUnused` of the server. Refusals, restarts and the clock leave
what was issued alone.

*Key proofs.* The verdict is the first failure in a list; `VerdictIs` spells it
out as a cascade. `KInv` adds that a Wallet that fetched a nonce carries no
stale one. The theorems hold of every proof and every issuer, where the run
takes those near a sound proof. `OnlyTypedErrors` is false (`keyproof_typed`).
What remains true of it is `UntypedErrorsNeedIllTypedInput`: an untyped error
needs a value of another type, or a callback or library that raises. Those in an
attestation's contents count only once its signature verifies, and those of an
attached attestation only once the proof does, so that a stranger's attestation
cannot bring them about.

*Provision.* What is noted with a credential is what it was made from
(`MadeFromItsRecord`). From there the argument is about operators:
`SdPayloadHolds` says which assignment survives under each name, and
`SdIsTruthful` and `MdocIsTruthful` leave a verifier no value but the issuer's.

`SdIsShowable` and `MdocIsShowable` say that what a holder shows fits what was
signed: digests are taken with the announced hash over what the holder is given,
no claim passes for the list of digests (`DigestsAssumption`), and digest
identifiers differ in a namespace. For an SD-JWT VC this is an equivalence: a
selection is accepted exactly if none of its disclosures is shadowed by a name
of the format. `MountedIsNotServed` compares the first
segments of the two addresses of the metadata;
`ProvisionMountedIssuersAreNeverFound` makes of the run `discovery_prefix` a
statement about every issuer with a path, unless that path begins with
`.well-known`.

*Only model-checked.* `OpenIsEventuallyCollected`, since liveness is out of
reach of the prover. The statements of the violation runs are false and are not
proved. That the validators and adapters compute what the operators say is by
their definition.

## Not modelled

- Encryption: a choice of key and algorithm over joserfc. No handler, backend or
  test of an issuer calls it, so the code does not say when it happens relative
  to nonce, signature and transaction, and there is no behaviour to state a
  property of.
- Plain fields of messages and metadata (names, logos, batch size): nothing
  decides on them. `proof_types_supported: {}`, which is present and empty,
  passes the validator as a declaration of proofs; the model has it present or
  absent.
- Encodings, dates and the order of disclosures in credentials, and `subject_id`
  of the JWT adapter, which no caller through the adapter protocol can pass.
- A claim called `id` replaces `credentialSubject.id` (`vc_jwt.py:138`) while
  `sub` stays the key's, though the module docstring (`:14`) has both written
  from one source. `JwtTruthful` asks of the copies in a JWT that they agree for
  all other claims.
- JOSE, COSE, JSON, HTTP: decoding and signature checks are outcomes. Of
  signing, only that it raises for a key that does not suit the algorithm.
- A payload of `None` in the transaction store: `open()` takes it, and polls
  would then find the transaction unknown (`reference.py:176`).
- A configuration without binding and proof types, which `metadata.py:180`
  allows: the glue asks for a proof nonetheless and refuses
  (`RefuseWithoutProof`). No statement of the repository says otherwise, so no
  property does.
- The reference `notify()` records identifiers it never gave out, where the
  protocol (`app.py:93`) has an error for unknown ones; it keeps no record of
  those it gave out, so there is nothing to compare with.
- Threads inside the reference backend: its handlers are coroutines, and the
  router hands them to one event loop.
- Growth of `_codes` and `_tokens`, which have no sweep and promise none.
- Delivery of responses: a lost token or credential response is not repeated,
  by design of single use (`authorization.py:186`).

## Plan

1. Done: the stores, alone, composed and under threads; the backend with its
   router; the proof validators; discovery, metadata and adapters; theorems for
   all of them.
2. Done: the composed issuer on any clock and its refinement of `Entitlement`;
   what remains true of double collection and of untyped errors; selections.
3. Open: response encryption, once a handler calls it; `CollectedOnce` and an
   abstract transaction store for the backend to refine, if `issue_deferred()`
   comes to close before it awaits; that the statement-level stores refine the
   atomic ones, so that `Entitlement` holds of a threaded server too.

## Running

    tlc -workers 2 -config MCAuthorizationServer.cfg MCAuthorizationServer
    tlapm AuthorizationServer_proofs.tla

`PROJECT.json` lists every run with its configuration, the source lines each
definition stands for, and the mutant that breaks each property.
