------------------------------ MODULE Provider ------------------------------
(***************************************************************************)
(* The client of the identity provider (services/oidc.py OidcProvider):    *)
(* discovery and the signing keys are fetched under one lock and cached,   *)
(* and browser logins, MCP requests and revocations share them while the   *)
(* provider rotates its keys and is, at times, unreachable.                *)
(*                                                                         *)
(* Calls are coroutines of one event loop, which interleave where they     *)
(* await the lock or the network.  The provider's publications are         *)
(* numbered; a document fetched is the publication its server read.        *)
(***************************************************************************)
EXTENDS Integers

CONSTANTS
    Calls,
    Nonces,          \* nonces of browser logins, each sent once
    MaxPublications  \* bounds the provider's rotations

ASSUME ProviderAssumption ==
    MaxPublications \in Nat \ {0} /\ "none" \notin Nonces

Kinds == {"login", "mcp", "revoke", "warm_up"}

\* An id_token: the key that signed it, whether issuer, audience, azp and its times
\* are right for this client, and its nonce.
Tokens == [key : 1..MaxPublications, ours : BOOLEAN, nonce : Nonces \cup {"none"}]
NoToken == [key |-> 0, ours |-> FALSE, nonce |-> "none"]

\* A key set, by its publication: publication n introduces key n.
Uncached == [number |-> 0, keys |-> {}]

VARIABLES
    published,    \* the provider's current publication
    metadata,     \* whether discovery is cached
    cachedKeys,   \* the publication cached, or Uncached
    lock,         \* the calls that hold the one lock
    calls,        \* the calls under way
    newest        \* history: the newest publication ever cached

providerVars == <<published, metadata, cachedKeys, lock, calls, newest>>

\* held: the token's key has been published since its verification began.
NoCall == [kind |-> "none", at |-> "over", refresh |-> FALSE, nonce |-> "none",
           token |-> NoToken, held |-> FALSE, document |-> Uncached, answer |-> "none"]

-----------------------------------------------------------------------------
(* The provider.                                                           *)

\* A new key is published beside the old ones, any of which may be retired.
Rotate ==
    /\ published.number < MaxPublications
    /\ LET number == published.number + 1
       IN  \E kept \in SUBSET published.keys :
              /\ published' = [number |-> number, keys |-> kept \cup {number}]
              /\ calls' = [c \in Calls |->
                     [calls[c] EXCEPT !.held =
                         @ /\ (calls[c].at = "over" \/ calls[c].token.key \in kept)]]
    /\ UNCHANGED <<metadata, cachedKeys, lock, newest>>

\* A key set's request reaches the provider: the answer is on its way.
Serve(c) ==
    /\ calls[c].at = "fetches_keys" /\ calls[c].document = Uncached
    /\ calls' = [calls EXCEPT ![c].document = published]
    /\ UNCHANGED <<published, metadata, cachedKeys, lock, newest>>

-----------------------------------------------------------------------------
(* What a call does once it goes on.                                       *)

\* validate_id_token_claims: the client's own claims, and the nonce a login sent.
ClaimsHold(call) ==
    /\ call.token.ours
    /\ call.kind = "login" => call.token.nonce = call.nonce

Over(call, answer) == [NoCall EXCEPT !.kind = call.kind, !.held = call.held, !.answer = answer]

\* keys(): discovery first, outside the lock, and then the lock for the fetch.
FetchKeys(call, discovered) ==
    [call EXCEPT !.document = Uncached,
                 !.at = IF discovered THEN "waits_for_keys" ELSE "waits_for_metadata"]

\* Mutant of Verified: a signature that fails has the keys fetched again each time.
VerifiedAgain(call, keys, discovered) ==
    IF call.token.key \in keys
    THEN Over(call, IF ClaimsHold(call) THEN "accepted" ELSE "refused")
    ELSE FetchKeys([call EXCEPT !.refresh = TRUE], discovered)

\* verify_id_token with the keys at hand: a signature that fails has them fetched
\* once more, and then the answer stands.
Verified(call, keys, discovered) ==
    IF call.token.key \in keys
    THEN Over(call, IF ClaimsHold(call) THEN "accepted" ELSE "refused")
    ELSE IF call.refresh THEN Over(call, "signature")
    ELSE FetchKeys([call EXCEPT !.refresh = TRUE], discovered)

\* verify_id_token begins, from the cached keys if there are any.
Verifying(call, token) ==
    LET begun == [call EXCEPT !.token = token, !.held = token.key \in published.keys]
    IN  IF cachedKeys # Uncached THEN Verified(begun, cachedKeys.keys, metadata)
        ELSE FetchKeys(begun, metadata)

\* What follows discovery: exchange_code and revoke_token post, keys() waits again.
Discovered(call) ==
    IF call.kind \in {"login", "revoke"} /\ call.token = NoToken
    THEN [call EXCEPT !.at = "posts"]
    ELSE IF call.kind = "warm_up" /\ cachedKeys # Uncached THEN Over(call, "ready")
    ELSE FetchKeys(call, TRUE)

-----------------------------------------------------------------------------
(* The calls.                                                              *)

\* complete_login exchanges its code, the proxy verifies a token it stored, signed
\* by any key so far, the host revokes, and the application warms up as it starts.
Begin(c, kind) ==
    /\ calls[c].at = "over"
    /\ \E nonce \in Nonces, token \in Tokens :
          /\ token.key <= published.number /\ token.nonce = "none"
          /\ LET call == [NoCall EXCEPT !.kind = kind,
                             !.nonce = IF kind = "login" THEN nonce ELSE "none"]
             IN  calls' = [calls EXCEPT ![c] =
                     IF kind = "mcp" THEN Verifying(call, token)
                     ELSE IF metadata THEN Discovered(call)
                     ELSE FetchKeys(call, FALSE)]
    /\ UNCHANGED <<published, metadata, cachedKeys, lock, newest>>

\* The code is exchanged for a token signed by a key then published, of this login
\* or, from a provider gone wrong, of another; or it is refused.
CodeExchanged(c) ==
    /\ calls[c].at = "posts" /\ calls[c].kind = "login"
    /\ \/ \E token \in Tokens :
              /\ token.key \in published.keys
              /\ calls' = [calls EXCEPT ![c] = Verifying(@, token)]
       \/ calls' = [calls EXCEPT ![c] = Over(@, "refused")]
    /\ UNCHANGED <<published, metadata, cachedKeys, lock, newest>>

\* revoke_token: whether the provider said so; unreached, it did not.
Revoked(c) ==
    /\ calls[c].at = "posts" /\ calls[c].kind = "revoke"
    /\ \E told \in BOOLEAN :
          calls' = [calls EXCEPT ![c] = Over(@, IF told THEN "revoked" ELSE "unconfirmed")]
    /\ UNCHANGED <<published, metadata, cachedKeys, lock, newest>>

\* A login or a fetch whose provider cannot be reached, or answers with nothing
\* usable, is a 503; the lock is let go and the caches are as they were.
Unavailable(c) ==
    /\ \/ calls[c].at \in {"fetches_metadata", "fetches_keys"}
       \/ calls[c].at = "posts" /\ calls[c].kind = "login"
    /\ calls' = [calls EXCEPT ![c] = Over(@, "unavailable")]
    /\ lock' = lock \ {c}
    /\ UNCHANGED <<published, metadata, cachedKeys, newest>>

\* metadata() looks again under the lock: it may have been fetched meanwhile.
LockForMetadata(c) ==
    /\ calls[c].at = "waits_for_metadata" /\ lock = {}
    /\ IF metadata
       THEN calls' = [calls EXCEPT ![c] = Discovered(@)] /\ UNCHANGED lock
       ELSE calls' = [calls EXCEPT ![c].at = "fetches_metadata"] /\ lock' = {c}
    /\ UNCHANGED <<published, metadata, cachedKeys, newest>>

MetadataArrives(c) ==
    /\ calls[c].at = "fetches_metadata"
    /\ metadata' = TRUE
    /\ lock' = lock \ {c}
    /\ calls' = [calls EXCEPT ![c] = Discovered(@)]
    /\ UNCHANGED <<published, cachedKeys, newest>>

\* Mutant of LockForKeys: keys() looks again too, and takes what another refreshed.
LockForKeysCoalesced(c) ==
    /\ calls[c].at = "waits_for_keys" /\ lock = {}
    /\ IF cachedKeys # Uncached
       THEN /\ calls' = [calls EXCEPT ![c] =
                   IF @.kind = "warm_up" THEN Over(@, "ready") ELSE Verified(@, cachedKeys.keys, TRUE)]
            /\ UNCHANGED lock
       ELSE calls' = [calls EXCEPT ![c].at = "fetches_keys"] /\ lock' = {c}
    /\ UNCHANGED <<published, metadata, cachedKeys, newest>>

\* keys() fetches, whatever was cached while it waited.
LockForKeys(c) ==
    /\ calls[c].at = "waits_for_keys" /\ lock = {}
    /\ calls' = [calls EXCEPT ![c].at = "fetches_keys"]
    /\ lock' = {c}
    /\ UNCHANGED <<published, metadata, cachedKeys, newest>>

KeysArrive(c) ==
    /\ calls[c].at = "fetches_keys" /\ calls[c].document # Uncached
    /\ LET fetched == calls[c].document
       IN  /\ cachedKeys' = fetched
           /\ newest' = IF fetched.number > newest THEN fetched.number ELSE newest
           /\ calls' = [calls EXCEPT ![c] =
                  IF @.kind = "warm_up" THEN Over(@, "ready") ELSE Verified(@, fetched.keys, TRUE)]
    /\ lock' = lock \ {c}
    /\ UNCHANGED <<published, metadata>>

ProviderInit ==
    /\ published = [number |-> 1, keys |-> {1}]
    /\ metadata = FALSE
    /\ cachedKeys = Uncached
    /\ lock = {}
    /\ calls = [c \in Calls |-> NoCall]
    /\ newest = 0

\* Each request ends by its answer or its timeout (HTTP_TIMEOUT).
Answered(c) ==
    \/ Serve(c) \/ MetadataArrives(c) \/ KeysArrive(c)
    \/ CodeExchanged(c) \/ Revoked(c) \/ Unavailable(c)

Granted(c) == LockForMetadata(c) \/ LockForKeys(c)

ProviderNext ==
    \/ Rotate
    \/ \E c \in Calls : Answered(c) \/ Granted(c) \/ \E kind \in Kinds : Begin(c, kind)

ProviderSpec == ProviderInit /\ [][ProviderNext]_providerVars

-----------------------------------------------------------------------------
(* Properties.                                                             *)

Publication == [number : 1..MaxPublications, keys : SUBSET (1..MaxPublications)]

Fetching == {"fetches_metadata", "fetches_keys"}

Call ==
    [kind : Kinds \cup {"none"},
     at : {"over", "waits_for_metadata", "waits_for_keys", "posts"} \cup Fetching,
     refresh : BOOLEAN, nonce : Nonces \cup {"none"}, token : Tokens \cup {NoToken},
     held : BOOLEAN, document : Publication \cup {Uncached},
     answer : {"none", "accepted", "refused", "signature", "ready", "revoked",
               "unconfirmed", "unavailable"}]

ProviderTypeOK ==
    /\ published \in Publication
    /\ metadata \in BOOLEAN
    /\ cachedKeys \in Publication \cup {Uncached}
    /\ lock \subseteq Calls
    /\ calls \in [Calls -> Call]
    /\ newest \in 0..MaxPublications

\* Whoever holds the lock waits for the network, never for the lock again.
HolderFetches == \A c \in lock : calls[c].at \in Fetching

\* A document fetched late never puts an older key set over a newer one.
KeysNeverGoBack == cachedKeys.number = newest

\* "The provider may have rotated. One refresh, then the answer stands": a token
\* whose key stayed published is not refused for its signature.
PublishedKeysVerify == \A c \in Calls : calls[c].answer = "signature" => ~calls[c].held

\* Nonces and MCP requests follow the provider's rotations, whichever of them
\* fetches and whatever fails (OidcProvider.metadata, keys, verify_id_token).
LoginsFollowTheKeys ==
    ProviderTypeOK /\ HolderFetches /\ KeysNeverGoBack /\ PublishedKeysVerify

\* Every login, request, revocation and warm-up is answered, if by a 503: nothing a
\* provider fails to do leaves the lock held, or its holder waiting for it.
CallsEnd == \A c \in Calls : []<>(calls[c].at = "over")

\* The lock is held by the one call that is fetching, if there is one: a call that waits
\* for it waits for the network, or for nobody.
OneFetcher ==
    /\ lock = {c \in Calls : calls[c].at \in Fetching}
    /\ \A c, d \in lock : c = d

=============================================================================
