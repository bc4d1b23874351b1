----------------------------- MODULE AccessTokens -----------------------------
(* The tokens of the cockpit's pages and the two caches they pass through:   *)
(* the server fetches tokens from Keycloak for its pages and keeps them      *)
(* (web/ui.go), and checks them by Keycloak's public keys, which it keeps    *)
(* too (auth/jwt_validator.go). Each cache has a lock that is held while     *)
(* Keycloak is asked. Signatures, claims and roles are left out: a token is  *)
(* the key that signed it and the time it expires.                           *)
EXTENDS Integers, SequencesExt

CONSTANTS Page,        \* browsers that get tokens and use them
          LastKey,     \* bound: Keycloak's signing keys, numbered as they come
          Clients,     \* how many tokens a page gets: 3
          KeysFor,     \* how long the keys count as recent: 10 minutes
          TokensFor,   \* how long tokens are kept: 45 minutes
          Lifespan,    \* how long they live: Keycloak's accessTokenLifespan
          Round,       \* how long a round of fetches takes at most
          MaxTime      \* bound: the clock

ASSUME AccessTokensAssumption ==
    /\ LastKey \in Nat \ {0} /\ Clients \in Nat \ {0}
    /\ KeysFor \in Nat \ {0} /\ TokensFor \in Nat \ {0} /\ Round \in Nat
    /\ Lifespan \in Nat /\ TokensFor + Round <= Lifespan
    /\ MaxTime \in Nat \ {0}

Key   == 1..LastKey
Empty == [key |-> 1, exp |-> 0]      \* the token ""

VARIABLES
    now, signing, published,    \* the clock; Keycloak's key and its JWKS
    tokens, expiresAt,          \* the cache of tokens
    gathered, begun,            \* newTokens of the round under way, its start
    keys, lastFetch,            \* keysCache
    pc,         \* of a page's call: where it is
    held,       \* the token the page has
    exists,     \* getPublicKey's look at the cache, before the lock
    refused     \* why the call that ends in this step is refused, or "no"

keycloak == <<now, signing, published>>
web      == <<tokens, expiresAt, gathered, begun>>
jwks     == <<keys, lastFetch>>
calls    == <<pc, held, exists, refused>>
vars     == <<keycloak, web, jwks, calls>>

Init ==
    /\ now = 1 /\ signing = 1 /\ published = {1}
    /\ tokens = <<>> /\ expiresAt = 0 /\ gathered = <<>> /\ begun = 0
    /\ keys = {} /\ lastFetch = -KeysFor
    /\ pc = [p \in Page |-> "idle"] /\ held = [p \in Page |-> Empty]
    /\ exists = [p \in Page |-> FALSE] /\ refused = "no"

Go(p, to)  == pc' = [pc EXCEPT ![p] = to] /\ refused' = "no"
End(p)     == pc' = [pc EXCEPT ![p] = "idle"] /\ refused' = "no"
Refuse(p, why) == pc' = [pc EXCEPT ![p] = "idle"] /\ refused' = why
Fetching   == \E p \in Page : pc[p] = "round"    \* who holds cache.mu
AskingKeys == \E p \in Page : pc[p] = "asking"   \* who holds cacheMu

-----------------------------------------------------------------------------
(* getTokens                                                                 *)

\* A page keeps one of the tokens it is given; a 200 may give it empty ones.
Serve(p, given) ==
    /\ \E i \in 1..Clients : held' = [held EXCEPT ![p] = given[i]]
    /\ End(p) /\ UNCHANGED exists

Fresh == now < expiresAt /\ Len(tokens) >= Clients

AskTokens(p) ==
    /\ pc[p] = "idle" /\ ~Fetching
    /\ \/ Fresh /\ Serve(p, tokens)
       \/ ~Fresh /\ Go(p, "queued") /\ UNCHANGED <<held, exists>>
    /\ UNCHANGED <<keycloak, web, jwks>>

\* The second check, with the lock.
EnterRound(p) ==
    /\ pc[p] = "queued" /\ ~Fetching
    /\ \/ Fresh /\ Serve(p, tokens) /\ UNCHANGED web
       \/ /\ ~Fresh /\ Go(p, "round") /\ gathered' = <<>> /\ begun' = now
          /\ UNCHANGED <<tokens, expiresAt, held, exists>>
    /\ UNCHANGED <<keycloak, jwks>>

\* fetchKeycloakToken: three addresses, one after the other. Another status than
\* 200 leaves lastErr nil, and an empty access_token leaves it as it is.
Candidate == 1..3
Outcome(answer) ==
    LET failed == {i \in Candidate : answer[i] \in {"error", "status"}} IN
    IF \E i \in Candidate : answer[i] = "token" THEN "token"
    ELSE IF failed # {} /\ answer[Max(failed)] = "error" THEN "error" ELSE "empty"

Outcomes == {Outcome(a) : a \in [Candidate -> {"token", "error", "status", "empty"}]}

\* Mutant: the cache is trusted for as long as a token lives.
CacheUntilExpiry == now + Lifespan

CacheUntil == now + TokensFor

EndRound == gathered' = <<>> /\ begun' = 0

\* Mutant: each token goes into the cache when it comes.
GatherInPlace(p, token) ==
    LET all == Append(gathered, token) IN
    /\ tokens' = [i \in 1..Clients |->
           IF i <= Len(all) THEN all[i] ELSE IF tokens = <<>> THEN Empty ELSE tokens[i]]
    /\ IF Len(all) < Clients
       THEN gathered' = all /\ Go(p, "round") /\ UNCHANGED <<expiresAt, begun, held, exists>>
       ELSE expiresAt' = CacheUntil /\ EndRound /\ Serve(p, all)

\* The last token of the round stores them all.
Gather(p, token) ==
    LET all == Append(gathered, token) IN
    IF Len(all) < Clients
    THEN /\ gathered' = all /\ Go(p, "round")
         /\ UNCHANGED <<tokens, expiresAt, begun, held, exists>>
    ELSE tokens' = all /\ expiresAt' = CacheUntil /\ EndRound /\ Serve(p, all)

\* Mutant: a failed round starts over, with the lock.
FetchTokenAgain(p) ==
    /\ pc[p] = "round"
    /\ \E outcome \in Outcomes :
          \/ outcome = "token" /\ Gather(p, [key |-> signing, exp |-> now + Lifespan])
          \/ outcome = "empty" /\ Gather(p, Empty)
          \/ /\ outcome = "error" /\ Go(p, "round") /\ gathered' = <<>> /\ begun' = now
             /\ UNCHANGED <<tokens, expiresAt, held, exists>>
    /\ UNCHANGED <<keycloak, jwks>>

FetchToken(p) ==
    /\ pc[p] = "round"
    /\ \E outcome \in Outcomes :
          \/ outcome = "token" /\ Gather(p, [key |-> signing, exp |-> now + Lifespan])
          \/ outcome = "empty" /\ Gather(p, Empty)
          \/ /\ outcome = "error" /\ End(p) /\ EndRound
             /\ UNCHANGED <<tokens, expiresAt, held, exists>>
    /\ UNCHANGED <<keycloak, jwks>>

-----------------------------------------------------------------------------
(* ValidateToken, getPublicKey                                               *)

\* The key is there: the rest is up to the token.
Check(p) == End(p)

Recent == now - lastFetch < KeysFor

UseToken(p) ==
    /\ pc[p] = "idle" /\ held[p] # Empty /\ ~AskingKeys
    /\ exists' = [exists EXCEPT ![p] = held[p].key \in keys /\ ~Recent]
    /\ IF held[p].key \in keys /\ Recent
       THEN Check(p)
       ELSE Go(p, "stale")
    /\ UNCHANGED <<keycloak, web, jwks, held>>

\* Mutant: without the lock.
EnterKeysTogether(p) ==
    /\ pc[p] = "stale"
    /\ Go(p, "asking")
    /\ UNCHANGED <<keycloak, web, jwks, held, exists>>

EnterKeys(p) ==
    /\ pc[p] = "stale" /\ ~AskingKeys
    /\ Go(p, "asking")
    /\ UNCHANGED <<keycloak, web, jwks, held, exists>>

\* Mutant: an answer replaces the keys known.
FetchKeysAnew(p) ==
    /\ pc[p] = "asking"
    /\ \/ /\ IF exists[p] THEN Check(p) ELSE Refuse(p, "unknown")
          /\ UNCHANGED jwks
       \/ Refuse(p, "unreadable") /\ UNCHANGED jwks
       \/ /\ keys' = published /\ lastFetch' = now
          /\ IF held[p].key \in keys' THEN Check(p) ELSE Refuse(p, "unknown")
    /\ exists' = [exists EXCEPT ![p] = FALSE]
    /\ UNCHANGED <<keycloak, web, held>>

\* Keycloak cannot be reached, its answer is not JSON, or it brings its keys,
\* which join those known. An error told in JSON passes for an answer without
\* keys: nobody looks at the status.
FetchKeys(p) ==
    /\ pc[p] = "asking"
    /\ \/ /\ IF exists[p] THEN Check(p) ELSE Refuse(p, "unknown")
          /\ UNCHANGED jwks
       \/ Refuse(p, "unreadable") /\ UNCHANGED jwks
       \/ /\ keys' \in {keys \cup published, keys} /\ lastFetch' = now
          /\ IF held[p].key \in keys' THEN Check(p) ELSE Refuse(p, "unknown")
    /\ exists' = [exists EXCEPT ![p] = FALSE]
    /\ UNCHANGED <<keycloak, web, held>>

-----------------------------------------------------------------------------
(* Keycloak and its clock                                                    *)

\* A round of fetches ends within nine timeouts of five seconds.
Tick ==
    /\ now < MaxTime /\ now' = now + 1
    /\ Fetching => now - begun < Round
    /\ refused' = "no" /\ UNCHANGED <<signing, published, web, jwks, pc, held, exists>>

\* A new key signs; older ones may be withdrawn.
Rotate ==
    /\ signing < LastKey /\ signing' = signing + 1
    /\ published' \in {published \cup {signing'}, {signing'}}
    /\ refused' = "no" /\ UNCHANGED <<now, web, jwks, pc, held, exists>>

-----------------------------------------------------------------------------
Next ==
    \/ \E p \in Page : \/ AskTokens(p) \/ EnterRound(p) \/ FetchToken(p)
                       \/ UseToken(p) \/ EnterKeys(p) \/ FetchKeys(p)
    \/ Tick \/ Rotate

Spec == Init /\ [][Next]_vars

\* Every call to Keycloak has a timeout, and both locks serve their waiters.
Fairness ==
    \A p \in Page : /\ WF_vars(FetchToken(p)) /\ WF_vars(FetchKeys(p))
                    /\ SF_vars(EnterRound(p)) /\ SF_vars(EnterKeys(p))

FairSpec == Spec /\ Fairness
-----------------------------------------------------------------------------
(* Properties                                                                *)

TokenType == [key : Key, exp : 0..(MaxTime + Lifespan)]

\* Types of the state; each lock has one holder.
TypeOK ==
    /\ now \in 1..MaxTime /\ signing \in published /\ published \subseteq Key
    /\ tokens \in Seq(TokenType) /\ gathered \in Seq(TokenType)
    /\ keys \subseteq Key
    /\ pc \in [Page -> {"idle", "queued", "round", "stale", "asking"}]
    /\ held \in [Page -> TokenType] /\ exists \in [Page -> BOOLEAN]
    /\ refused \in {"no", "unknown", "unreadable"}
    /\ \A p, q \in Page : pc[p] = pc[q] /\ pc[p] \in {"round", "asking"} => p = q

\* The tokens in the cache are those of one round, though a round may fail half
\* way and keys and clock move on: none is older than the others by more.
TokensOfOneRound ==
    /\ Len(tokens) \in {0, Clients}
    /\ \A i, j \in DOMAIN tokens :
          tokens[i] # Empty /\ tokens[j] # Empty => tokens[i].exp - tokens[j].exp <= Round

\* A page never gets a token that is over already, however long it lay there.
ServedIsLive ==
    [][\A p \in Page : held'[p] # held[p] /\ held'[p] # Empty => now < held'[p].exp]_vars

\* A key once fetched keeps serving: a token is refused for want of a key that
\* is known only when the key came while this call waited for the lock and then
\* Keycloak could not be reached, as the call trusts what it saw before the lock.
\* (An answer that cannot be read refuses the token even so.)
RefusedForAReason ==
    [][\A p \in Page : pc[p] = "asking" /\ pc'[p] = "idle" /\ refused' = "unknown" =>
          held[p].key \notin keys \/ (~exists[p] /\ UNCHANGED jwks)]_vars

\* Every call is answered, though all wait while one of them asks Keycloak.
EveryCallEnds == \A p \in Page : pc[p] # "idle" ~> pc[p] = "idle"
=============================================================================
