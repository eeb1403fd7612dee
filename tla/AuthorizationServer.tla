------------------------ MODULE AuthorizationServer ------------------------
(***************************************************************************)
(* InMemoryAuthorizationServer of authorization.py: the pre-authorized     *)
(* code flow. A code enters the store `codes' when an offer is made, is    *)
(* exchanged for an access token, and the Grant it stood for moves to the  *)
(* store `tokens'. The methods are synchronous, so under one event loop    *)
(* each call is one step; each call sees one instant of the clock.         *)
(*                                                                         *)
(* An operator named after a slip (WithoutForgetting, RenewedNever, ...)   *)
(* is the mutant of the definition that follows it, used by no action.     *)
(* The stores are total functions in which None is an absent entry. The    *)
(* variables from `offers' on are history, read by properties only.        *)
(***************************************************************************)
EXTENDS Naturals

CONSTANTS
    Subject, Configuration, TxCode, Client, Code, Token,
    NonAscii,        \* the transaction codes that are not pure ASCII
    CodeTtl, TokenTtl,
    AllowAnonymous,
    MaxTime,         \* bound: the clock stops here
    None

Grant == [subject : Subject, configurations : SUBSET Configuration,
          txCode : TxCode \cup {None}, expiresAt : Nat]

Offered == [subject : Subject, configurations : SUBSET Configuration,
            txCode : TxCode \cup {None}, at : Nat, published : BOOLEAN]

Redeemed == [code : Code, at : Nat, presented : TxCode \cup {None}]

ASSUME TtlAssumption == CodeTtl \in Nat /\ TokenTtl \in Nat /\ MaxTime \in Nat
ASSUME FlagAssumption == AllowAnonymous \in BOOLEAN /\ NonAscii \subseteq TxCode
ASSUME NoneAssumption ==
    /\ None \notin Grant /\ None \notin Offered /\ None \notin Redeemed
    /\ None \notin Code /\ None \notin Token /\ None \notin TxCode
    /\ None \notin Client

VARIABLES
    codes,           \* _codes: what a pre-authorized code stands for
    tokens,          \* _tokens: what an access token stands for
    now,             \* the clock
    offers,          \* what each code was offered for, and when
    redeemed,        \* which code each token was exchanged for, and when
    refusedCodes,    \* codes that were answered "unknown, used or expired"
    refusedTokens,   \* tokens that grant_for did not honour
    answer           \* the answer to the last call

stores == <<codes, tokens>>
history == <<offers, redeemed, refusedCodes, refusedTokens>>
vars == <<stores, now, history, answer>>

Errors == {"unsupported_grant_type", "invalid_client", "invalid_grant",
           "invalid_request", "TypeError"}

Answer == [call : {"redeem", "grant_for", "none"}, code : Code \cup {None},
           token : Token \cup {None}, outcome : Errors \cup {"ok", "refused"}]

NoAnswer == [call |-> "none", code |-> None, token |-> None, outcome |-> "ok"]

TypeOK ==
    /\ codes \in [Code -> Grant \cup {None}]
    /\ tokens \in [Token -> Grant \cup {None}]
    /\ now \in Nat
    /\ offers \in [Code -> Offered \cup {None}]
    /\ redeemed \in [Token -> Redeemed \cup {None}]
    /\ refusedCodes \subseteq Code
    /\ refusedTokens \subseteq Token
    /\ answer \in Answer

Init ==
    /\ codes = [c \in Code |-> None]
    /\ tokens = [t \in Token |-> None]
    /\ now = 0
    /\ offers = [c \in Code |-> None]
    /\ redeemed = [t \in Token |-> None]
    /\ refusedCodes = {}
    /\ refusedTokens = {}
    /\ answer = NoAnswer

----------------------------------------------------------------------------
(* What the code may draw from `secrets': never drawn and never guessed.   *)
FreshCode(c) == offers[c] = None /\ c \notin refusedCodes
FreshToken(t) == redeemed[t] = None /\ t \notin refusedTokens

(* What a Wallet can name: a code it was given, or one it made up.         *)
Presentable(c) == offers[c] # None => offers[c].published

Expired(grant) == grant.expiresAt <= now
Usable(grant) == grant # None /\ ~Expired(grant)

(* The lookup that redeem() and grant_for() begin with. *)
HoldsIgnoringExpiry(store, key) == store[key] # None
Holds(store, key) == Usable(store[key])

(* Dictionary `pop' and `del'. *)
WithoutForgetting(store, key) == store
Without(store, key) == [store EXCEPT ![key] = None]

(* What CredentialOffer accepts; `wellFormed' stands for the limits on the *)
(* issuer identifier and on the description of the transaction code.       *)
ValidOffer(configurations, wellFormed) == configurations # {} /\ wellFormed

(* offer(): the code is stored before the offer is validated, so an offer  *)
(* that is rejected leaves behind a code that nobody was told.             *)
Offer(code, subject, configurations, txCode, wellFormed) ==
    /\ FreshCode(code)
    /\ codes' = [codes EXCEPT ![code] =
                    [subject |-> subject, configurations |-> configurations,
                     txCode |-> txCode, expiresAt |-> now + CodeTtl]]
    /\ offers' = [offers EXCEPT ![code] =
                    [subject |-> subject, configurations |-> configurations,
                     txCode |-> txCode, at |-> now,
                     published |-> ValidOffer(configurations, wellFormed)]]
    /\ UNCHANGED <<tokens, now, redeemed, refusedCodes, refusedTokens, answer>>

----------------------------------------------------------------------------
GrantTypes == {"pre-authorized_code", "authorization_code", "other"}

(* A parsed Token Request; `code' is pre_authorized_code, an empty string  *)
(* counts as an absent code or client_id. An "authorization_code" request  *)
(* is one that carries its `code': the model refuses the others unseen.    *)
Request == [grantType : GrantTypes, client : Client \cup {None},
            code : Code \cup {None}, txCode : TxCode \cup {None}]

(* TokenRequest._validate_grant *)
ValidRequest(request) ==
    IF request.grantType = "pre-authorized_code"
    THEN request.code # None
    ELSE request.txCode = None

(* The model checker enumerates what a Wallet may send. *)
Sendable(request) ==
    ValidRequest(request) /\ (request.code # None => Presentable(request.code))

Supported(request) == request.grantType = "pre-authorized_code"
Identified(request) == AllowAnonymous \/ request.client # None

(* _check_transaction_code; compare_digest raises TypeError on text that   *)
(* is not ASCII, whichever of the two sides it is on.                      *)
UnregisteredTransactionCodeError(grant, presented) ==
    IF grant.txCode = presented THEN "ok" ELSE "invalid_tx_code"

TransactionCodeError(grant, presented) ==
    CASE (grant.txCode = None) # (presented = None) -> "invalid_request"
      [] grant.txCode = None /\ presented = None -> "ok"
      [] OTHER -> IF {presented, grant.txCode} \cap NonAscii # {} THEN "TypeError"
                  ELSE IF presented = grant.txCode THEN "ok" ELSE "invalid_grant"

Reply(request, token, outcome) ==
    answer' = [call |-> "redeem", code |-> request.code, token |-> token,
               outcome |-> outcome]

(* redeem() refusing before it looks at the code. *)
RefuseRequest(request) ==
    /\ Sendable(request)
    /\ \/ ~Supported(request) /\ Reply(request, None, "unsupported_grant_type")
       \/ /\ Supported(request) /\ ~Identified(request)
          /\ Reply(request, None, "invalid_client")
    /\ UNCHANGED <<stores, now, history>>

(* redeem() on a code it does not hold or that expired: it is forgotten.   *)
RefuseCode(request) ==
    /\ Sendable(request) /\ Supported(request) /\ Identified(request)
    /\ ~Holds(codes, request.code)
    /\ codes' = Without(codes, request.code)
    /\ refusedCodes' = refusedCodes \cup {request.code}
    /\ Reply(request, None, "invalid_grant")
    /\ UNCHANGED <<tokens, now, offers, redeemed, refusedTokens>>

(* redeem() on a live code with the wrong transaction code: nothing moves. *)
RefuseTransactionCodeAfterDel(request) ==
    /\ Sendable(request) /\ Supported(request) /\ Identified(request)
    /\ Holds(codes, request.code)
    /\ LET error == TransactionCodeError(codes[request.code], request.txCode)
       IN  error # "ok" /\ Reply(request, None, error)
    /\ codes' = Without(codes, request.code)
    /\ UNCHANGED <<tokens, now, history>>

RefuseTransactionCode(request) ==
    /\ Sendable(request) /\ Supported(request) /\ Identified(request)
    /\ Holds(codes, request.code)
    /\ LET error == TransactionCodeError(codes[request.code], request.txCode)
       IN  error # "ok" /\ Reply(request, None, error)
    /\ UNCHANGED <<stores, now, history>>

RenewedNever(grant) == grant

(* The Grant that moves from the code to the token, with a new expiry.     *)
Renewed(grant) == [grant EXCEPT !.expiresAt = now + TokenTtl]

(* redeem() succeeding. *)
Exchange(request, token) ==
    /\ Sendable(request) /\ Supported(request) /\ Identified(request)
    /\ Holds(codes, request.code)
    /\ TransactionCodeError(codes[request.code], request.txCode) = "ok"
    /\ FreshToken(token)
    /\ codes' = Without(codes, request.code)
    /\ tokens' = [tokens EXCEPT ![token] = Renewed(codes[request.code])]
    /\ redeemed' = [redeemed EXCEPT ![token] =
                      [code |-> request.code, at |-> now, presented |-> request.txCode]]
    /\ Reply(request, token, "ok")
    /\ UNCHANGED <<now, offers, refusedCodes, refusedTokens>>

(* grant_for() on a token in force. *)
Honour(token) ==
    /\ Holds(tokens, token)
    /\ answer' = [call |-> "grant_for", code |-> None, token |-> token,
                  outcome |-> "ok"]
    /\ UNCHANGED <<stores, now, history>>

(* grant_for() on an unknown or expired token: it is forgotten.            *)
Dismiss(token) ==
    /\ ~Holds(tokens, token)
    /\ tokens' = Without(tokens, token)
    /\ refusedTokens' = refusedTokens \cup {token}
    /\ answer' = [call |-> "grant_for", code |-> None, token |-> token,
                  outcome |-> "refused"]
    /\ UNCHANGED <<codes, now, offers, redeemed, refusedCodes>>

----------------------------------------------------------------------------
Tick == now < MaxTime /\ now' = now + 1 /\ UNCHANGED <<stores, history, answer>>

(* The default clock is time.time, which an adjustment can set back.       *)
StepBack == now > 0 /\ now' = now - 1 /\ UNCHANGED <<stores, history, answer>>

(* Nothing survives the process. *)
Restart ==
    /\ codes' = [c \in Code |-> None]
    /\ tokens' = [t \in Token |-> None]
    /\ answer' = NoAnswer
    /\ UNCHANGED <<now, history>>

Call ==
    \/ \E code \in Code, subject \in Subject, configurations \in SUBSET Configuration,
          txCode \in TxCode \cup {None}, wellFormed \in BOOLEAN :
            Offer(code, subject, configurations, txCode, wellFormed)
    \/ \E request \in Request :
            \/ RefuseRequest(request) \/ RefuseCode(request)
            \/ RefuseTransactionCode(request)
            \/ \E token \in Token : Exchange(request, token)
    \/ \E token \in Token : Honour(token) \/ Dismiss(token)

Next == Call \/ Tick \/ Restart

Spec == Init /\ [][Next]_vars

(* The same server on a clock that can be set back. *)
WallSpec == Init /\ [][Next \/ StepBack]_vars

----------------------------------------------------------------------------
(* A pre-authorized code is exchanged for at most one access token, by any *)
(* number of redeem() calls in any order, across expiry and restart.       *)
OneTokenPerCode ==
    \A t, u \in Token :
        /\ redeemed[t] # None /\ redeemed[u] # None
        /\ redeemed[t].code = redeemed[u].code
        => t = u

(* "Unknown, already used, or expired" is final: a code or a token that    *)
(* redeem() or grant_for() once refused so is never accepted later, even   *)
(* when the clock is set back to before the expiry.                        *)
RefusalIsFinal ==
    answer.outcome = "ok" =>
        answer.code \notin refusedCodes /\ answer.token \notin refusedTokens

(* What a token stands for is what its code was offered for, no more: the  *)
(* same subject and configurations, the announced transaction code having  *)
(* been presented, the code exchanged within its lifetime, and the token   *)
(* lasting token_ttl from the exchange rather than from the offer.         *)
TokenIsWhatWasOffered ==
    \A t \in Token : tokens[t] # None =>
        LET exchange == redeemed[t]
            offered == offers[exchange.code]
        IN  /\ exchange # None /\ offered # None
            /\ offered.published
            /\ tokens[t].subject = offered.subject
            /\ tokens[t].configurations = offered.configurations
            /\ exchange.presented = offered.txCode
            /\ exchange.at < offered.at + CodeTtl
            /\ tokens[t].expiresAt = exchange.at + TokenTtl

(* A complaint about the transaction code is worth another try: redeem()   *)
(* makes it only while the code is live, and leaves the code as it was.    *)
TransactionCodeErrorsCanBeRetried ==
    [][answer' # answer /\ answer'.outcome \in {"invalid_request", "TypeError"}
       => /\ Usable(codes[answer'.code])
          /\ codes'[answer'.code] = codes[answer'.code]
      ]_vars

(* Nobody can spoil a live code for its Wallet: while the process lives, a *)
(* code that has not expired leaves the store only by becoming a token     *)
(* that stands for the same subject.                                       *)
LiveCodeLeavesOnlyAsToken ==
    [][\A c \in Code :
         Usable(codes[c]) /\ codes'[c] = None /\ ~Restart
         => \E t \in Token : /\ redeemed[t] = None /\ redeemed'[t] # None
                            /\ redeemed'[t].code = c
                            /\ tokens'[t].subject = codes[c].subject
      ]_vars

(* So no presentation by anybody, well formed or not, costs the End-User   *)
(* the code: neither a complaint nor anything but the exchange itself.     *)
LiveCodesAreSafe == LiveCodeLeavesOnlyAsToken /\ TransactionCodeErrorsCanBeRetried

(* How the life of a code appears to SingleUse. *)
CodePhase(c) ==
    IF offers[c] = None THEN "unissued"
    ELSE IF \E t \in Token : redeemed[t] # None /\ redeemed[t].code = c THEN "spent"
    ELSE IF Usable(codes[c]) /\ offers[c].published THEN "live"
    ELSE "dead"

Abstract == INSTANCE SingleUse
    WITH Ticket <- Code, phase <- [c \in Code |-> CodePhase(c)]

(* On a monotone clock the server implements SingleUse: a code is accepted *)
(* only while live, and neither a used nor a lapsed code comes back.       *)
CodesAreSingleUse == Abstract!Spec
=============================================================================
