-------------------------- MODULE AccessTokensProofs --------------------------
(***************************************************************************)
(* For every number of pages and keys, and for all times for which a token  *)
(* outlives the cache it lies in: what is served is live, and of one round. *)
(***************************************************************************)
EXTENDS AccessTokens, TLAPS

Typed ==
    /\ now \in 1..MaxTime /\ signing \in Key
    /\ pc \in [Page -> {"idle", "queued", "round", "stale", "asking"}]
    /\ held \in [Page -> TokenType]
    /\ tokens \in Seq(TokenType) /\ gathered \in Seq(TokenType)
    /\ begun \in Nat /\ expiresAt \in Nat

OneRound == \A p, q \in Page : pc[p] = "round" /\ pc[q] = "round" => p = q

\* A list of tokens has tokens in it, and they end at some time.
LEMMA EndsAt ==
  ASSUME NEW list \in Seq(TokenType), NEW i \in 1..Len(list)
  PROVE  list[i] \in TokenType /\ list[i].exp \in Nat
<1>1. list[i] \in TokenType
  OBVIOUS
<1>2. QED
  BY <1>1, AccessTokensAssumption DEF TokenType

\* A round is short, and its tokens were made in it.
RoundInv ==
    Fetching =>
        /\ begun <= now /\ now <= begun + Round /\ Len(gathered) < Clients
        /\ \A i \in 1..Len(gathered) : gathered[i] # Empty =>
              begun + Lifespan <= gathered[i].exp /\ gathered[i].exp <= now + Lifespan

\* The cache is given up before the first of its tokens ends.
CacheInv ==
    /\ TokensOfOneRound
    /\ \A i \in 1..Len(tokens) : tokens[i] # Empty => expiresAt <= tokens[i].exp

TokensInv == Typed /\ OneRound /\ RoundInv /\ CacheInv

\* Every cache is empty, and so is the page's token.
LEMMA TokensInit == Init => TokensInv
<1> SUFFICES ASSUME Init PROVE TokensInv
  OBVIOUS
<1>1. Empty \in TokenType /\ 1 \in Key
  BY AccessTokensAssumption DEF Empty, TokenType, Key
<1>2. Typed
  BY <1>1, AccessTokensAssumption DEF Init, Typed
<1>3. OneRound /\ RoundInv
  BY DEF Init, OneRound, RoundInv, Fetching
<1>4. CacheInv
  BY DEF Init, CacheInv, TokensOfOneRound
<1>5. QED
  BY <1>2, <1>3, <1>4 DEF TokensInv

\* The cache as it is, and no round that was not there.
LEMMA TokensKept ==
  ASSUME TokensInv, UNCHANGED <<now, web>>, signing' \in Key,
         pc' \in [Page -> {"idle", "queued", "round", "stale", "asking"}],
         \A p \in Page : pc'[p] = "round" => pc[p] = "round",
         held' \in [Page -> TokenType]
  PROVE  TokensInv'
<1>1. Typed' /\ OneRound'
  BY DEF TokensInv, Typed, OneRound, web
<1>2. RoundInv'
  BY DEF TokensInv, RoundInv, Fetching, web
<1>3. CacheInv'
  BY DEF TokensInv, CacheInv, TokensOfOneRound, web
<1>4. QED
  BY <1>1, <1>2, <1>3 DEF TokensInv

\* What a page is served.
LEMMA ServeType ==
  ASSUME TokensInv, NEW p \in Page, NEW given \in Seq(TokenType), Len(given) = Clients,
         Serve(p, given)
  PROVE  /\ held' \in [Page -> TokenType]
         /\ \E i \in 1..Len(given) : held' = [held EXCEPT ![p] = given[i]]
         /\ pc' = [pc EXCEPT ![p] = "idle"]
<1>1. PICK i \in 1..Len(given) : held' = [held EXCEPT ![p] = given[i]]
  BY DEF Serve
<1>2. given[i] \in TokenType
  BY EndsAt
<1>3. QED
  BY <1>1, <1>2 DEF TokensInv, Typed, Serve, End

\* A cache that is fresh is whole.
LEMMA FreshIsWhole == TokensInv /\ Fresh => Len(tokens) = Clients /\ now < expiresAt
<1>1. TokensInv => Len(tokens) = 0 \/ Len(tokens) = Clients
  BY DEF TokensInv, CacheInv, TokensOfOneRound
<1>2. QED
  BY <1>1, AccessTokensAssumption DEF Fresh

\* A page that asks is served or waits.
LEMMA TokensAsk ==
  ASSUME TokensInv, NEW p \in Page, AskTokens(p)
  PROVE  TokensInv'
<1>1. UNCHANGED <<now, web, signing>>
  BY DEF AskTokens, keycloak
<1>2. CASE Fresh /\ Serve(p, tokens)
  <2>1. held' \in [Page -> TokenType] /\ pc' = [pc EXCEPT ![p] = "idle"]
    BY <1>2, FreshIsWhole, ServeType DEF TokensInv, Typed
  <2>2. QED
    BY <1>1, <2>1, TokensKept DEF TokensInv, Typed
<1>3. CASE Go(p, "queued") /\ held' = held
  BY <1>1, <1>3, TokensKept DEF Go, TokensInv, Typed
<1>4. QED
  BY <1>2, <1>3 DEF AskTokens

\* A round begins only when none is under way.
LEMMA TokensEnter ==
  ASSUME TokensInv, NEW p \in Page, EnterRound(p)
  PROVE  TokensInv'
<1>1. UNCHANGED <<now, signing, published>> /\ ~Fetching
  BY DEF EnterRound, keycloak
<1>2. CASE Fresh /\ Serve(p, tokens) /\ UNCHANGED web
  <2>1. held' \in [Page -> TokenType] /\ pc' = [pc EXCEPT ![p] = "idle"]
    BY <1>2, FreshIsWhole, ServeType DEF TokensInv, Typed
  <2>2. QED
    BY <1>1, <1>2, <2>1, TokensKept DEF TokensInv, Typed
<1>3. CASE /\ Go(p, "round") /\ gathered' = <<>> /\ begun' = now
           /\ UNCHANGED <<tokens, expiresAt, held>>
  <2>1. Typed'
    BY <1>1, <1>3 DEF Go, TokensInv, Typed
  <2>2. OneRound'
    BY <1>1, <1>3 DEF Go, TokensInv, Typed, OneRound, Fetching
  <2>3. RoundInv'
    BY <1>1, <1>3, AccessTokensAssumption DEF TokensInv, Typed, RoundInv
  <2>4. CacheInv'
    BY <1>3 DEF TokensInv, CacheInv, TokensOfOneRound
  <2>5. QED
    BY <2>1, <2>2, <2>3, <2>4 DEF TokensInv
<1>4. QED
  BY <1>2, <1>3 DEF EnterRound

\* A token joins those of the round, which is served and stored when complete.
LEMMA TokensGather ==
  ASSUME TokensInv, NEW p \in Page, pc[p] = "round", UNCHANGED <<now, signing>>,
         NEW token \in TokenType,
         token # Empty => token.exp = now + Lifespan,
         Gather(p, token)
  PROVE  /\ TokensInv'
         /\ held'[p] # held[p] /\ held'[p] # Empty => now < held'[p].exp
         /\ \A q \in Page \ {p} : held'[q] = held[q]
<1> DEFINE all == Append(gathered, token)
           n == Len(gathered)
<1>1. /\ begun <= now /\ now <= begun + Round /\ n < Clients /\ n \in Nat
      /\ begun \in Nat /\ now \in Nat
  BY DEF TokensInv, RoundInv, Fetching, Typed
<1>2. /\ all \in Seq(TokenType) /\ Len(all) = n + 1
      /\ \A i \in 1..n : all[i] = gathered[i]
      /\ all[n + 1] = token
  BY DEF TokensInv, Typed
<1>3. \A i \in 1..n : gathered[i] # Empty =>
         begun + Lifespan <= gathered[i].exp /\ gathered[i].exp <= now + Lifespan
  BY DEF TokensInv, RoundInv, Fetching
<1>4. \A i \in 1..Len(all) : all[i] # Empty =>
         begun + Lifespan <= all[i].exp /\ all[i].exp <= now + Lifespan
  BY <1>1, <1>2, <1>3, AccessTokensAssumption
<1>5. CASE /\ n + 1 < Clients /\ gathered' = all /\ Go(p, "round")
           /\ UNCHANGED <<tokens, expiresAt, begun, held>>
  <2>1. pc' = pc
    BY <1>5 DEF Go, TokensInv, Typed
  <2>2. Typed' /\ OneRound'
    BY <1>2, <1>5, <2>1 DEF TokensInv, Typed, OneRound
  <2>3. RoundInv'
    BY <1>1, <1>2, <1>4, <1>5 DEF RoundInv
  <2>4. CacheInv'
    BY <1>5 DEF TokensInv, CacheInv, TokensOfOneRound
  <2>5. QED
    BY <1>5, <2>2, <2>3, <2>4 DEF TokensInv
<1>6. CASE /\ ~(n + 1 < Clients) /\ tokens' = all /\ expiresAt' = CacheUntil
           /\ EndRound /\ Serve(p, all)
  <2>1. Len(all) = Clients
    BY <1>1, <1>2, <1>6, AccessTokensAssumption
  <2>2. PICK i \in 1..Len(all) : held' = [held EXCEPT ![p] = all[i]]
    BY <1>2, <1>6, <2>1, ServeType
  <2>3. pc' = [pc EXCEPT ![p] = "idle"] /\ held' \in [Page -> TokenType]
    BY <1>2, <1>6, <2>1, ServeType
  <2>4. Typed'
    BY <1>1, <1>2, <1>6, <2>3, AccessTokensAssumption
       DEF TokensInv, Typed, EndRound, CacheUntil
  <2>5. \A q \in Page : pc'[q] # "round"
    BY <2>3 DEF TokensInv, Typed, OneRound
  <2>6. OneRound' /\ RoundInv'
    BY <2>5 DEF OneRound, RoundInv, Fetching
  <2>7. \A j \in 1..Len(all) : all[j] # Empty => all[j].exp \in Nat
    BY <1>2, EndsAt
  <2>8. TokensOfOneRound'
    <3>1. \A j, k \in 1..Len(all) : all[j] # Empty /\ all[k] # Empty =>
             all[j].exp - all[k].exp <= Round
      <4> SUFFICES ASSUME NEW j \in 1..Len(all), NEW k \in 1..Len(all),
                          all[j] # Empty, all[k] # Empty
                   PROVE  all[j].exp - all[k].exp <= Round
        OBVIOUS
      <4>1. /\ all[j].exp \in Nat /\ all[k].exp \in Nat
            /\ all[j].exp <= now + Lifespan /\ begun + Lifespan <= all[k].exp
        BY <1>4, <2>7
      <4>2. QED
        BY <1>1, <4>1, AccessTokensAssumption
    <3>2. DOMAIN tokens' = 1..Len(all) /\ Len(tokens') = Clients
      BY <1>2, <1>6, <2>1
    <3>3. QED
      BY <1>6, <3>1, <3>2 DEF TokensOfOneRound
  <2>9. now + TokensFor <= begun + Lifespan /\ now < begun + Lifespan
    BY <1>1, AccessTokensAssumption
  <2>10. CacheInv'
    BY <1>1, <1>4, <1>6, <2>7, <2>8, <2>9, AccessTokensAssumption DEF CacheInv, CacheUntil
  <2>11. held'[p] = all[i] /\ \A q \in Page \ {p} : held'[q] = held[q]
    BY <2>2 DEF TokensInv, Typed
  <2>12. all[i] # Empty => now < all[i].exp
    BY <1>1, <1>4, <2>7, <2>9, AccessTokensAssumption
  <2>13. QED
    BY <2>4, <2>6, <2>10, <2>11, <2>12 DEF TokensInv
<1>7. QED
  BY <1>2, <1>5, <1>6 DEF Gather

\* An error ends a round, and what it gathered is dropped.
LEMMA TokensFetch ==
  ASSUME TokensInv, NEW p \in Page, FetchToken(p)
  PROVE  /\ TokensInv'
         /\ \A q \in Page : held'[q] # held[q] /\ held'[q] # Empty => now < held'[q].exp
<1>1. UNCHANGED <<now, signing>> /\ pc[p] = "round"
  BY DEF FetchToken, keycloak
<1>2. ASSUME NEW token \in TokenType, token # Empty => token.exp = now + Lifespan,
             Gather(p, token)
      PROVE  /\ TokensInv'
             /\ \A q \in Page : held'[q] # held[q] /\ held'[q] # Empty => now < held'[q].exp
  <2>1. /\ TokensInv'
        /\ held'[p] # held[p] /\ held'[p] # Empty => now < held'[p].exp
        /\ \A q \in Page \ {p} : held'[q] = held[q]
    BY <1>1, <1>2, TokensGather
  <2>2. QED
    BY <2>1
<1>3. CASE Gather(p, [key |-> signing, exp |-> now + Lifespan])
  <2>1. [key |-> signing, exp |-> now + Lifespan] \in TokenType
    BY AccessTokensAssumption DEF TokensInv, Typed, TokenType
  <2>2. QED
    BY <1>2, <1>3, <2>1
<1>4. CASE Gather(p, Empty)
  <2>1. Empty \in TokenType
    BY AccessTokensAssumption DEF Empty, TokenType, Key
  <2>2. QED
    BY <1>2, <1>4, <2>1
<1>5. CASE End(p) /\ EndRound /\ UNCHANGED <<tokens, expiresAt, held>>
  <2>1. pc' = [pc EXCEPT ![p] = "idle"] /\ gathered' = <<>> /\ begun' = 0
    BY <1>5 DEF End, EndRound
  <2>2. Typed'
    BY <1>1, <1>5, <2>1 DEF TokensInv, Typed
  <2>3. \A q \in Page : pc'[q] # "round"
    BY <1>1, <2>1 DEF TokensInv, Typed, OneRound
  <2>4. OneRound' /\ RoundInv'
    BY <2>3 DEF OneRound, RoundInv, Fetching
  <2>5. CacheInv'
    BY <1>5 DEF TokensInv, CacheInv, TokensOfOneRound
  <2>6. QED
    BY <1>5, <2>2, <2>4, <2>5 DEF TokensInv
<1>6. QED
  BY <1>3, <1>4, <1>5 DEF FetchToken

\* A check of a token leaves the tokens alone.
LEMMA TokensUse ==
  ASSUME TokensInv, NEW p \in Page, UseToken(p) \/ EnterKeys(p) \/ FetchKeys(p)
  PROVE  TokensInv' /\ held' = held
<1>1. UNCHANGED <<now, signing, web, held>>
  BY DEF UseToken, EnterKeys, FetchKeys, keycloak
<1>2. \E to \in {"idle", "stale", "asking"} : pc' = [pc EXCEPT ![p] = to]
  BY DEF UseToken, EnterKeys, FetchKeys, Check, Go, End, Refuse
<1>3. QED
  BY <1>1, <1>2, TokensKept DEF TokensInv, Typed

\* Time passes, and no round gets too long.
LEMMA TokensTick == TokensInv /\ Tick => TokensInv' /\ held' = held
<1> SUFFICES ASSUME TokensInv, Tick PROVE TokensInv' /\ held' = held
  OBVIOUS
<1>1. /\ now < MaxTime /\ now' = now + 1 /\ (Fetching => now - begun < Round)
      /\ UNCHANGED <<signing, pc, held, tokens, expiresAt, gathered, begun>>
  BY DEF Tick, web
<1>2. now \in Nat \ {0} /\ begun \in Nat
  BY DEF TokensInv, Typed
<1>3. Typed' /\ OneRound'
  BY <1>1, <1>2, AccessTokensAssumption DEF TokensInv, Typed, OneRound
<1>4. \A i \in 1..Len(gathered) : gathered[i].exp \in Nat
  BY EndsAt DEF TokensInv, Typed
<1>5. RoundInv'
  BY <1>1, <1>2, <1>4, AccessTokensAssumption DEF TokensInv, RoundInv, Fetching
<1>6. CacheInv'
  BY <1>1 DEF TokensInv, CacheInv, TokensOfOneRound
<1>7. QED
  BY <1>1, <1>3, <1>5, <1>6 DEF TokensInv

\* A new key changes nothing for tokens made.
LEMMA TokensRotate == TokensInv /\ Rotate => TokensInv' /\ held' = held
<1> SUFFICES ASSUME TokensInv, Rotate PROVE TokensInv' /\ held' = held
  OBVIOUS
<1>1. signing' \in Key
  BY AccessTokensAssumption DEF Rotate, TokensInv, Typed, Key
<1>2. UNCHANGED <<now, web, pc, held>>
  BY DEF Rotate
<1>3. QED
  BY <1>1, <1>2, TokensKept DEF TokensInv, Typed

\* What is served out of a fresh cache is live.
LEMMA ServedFresh ==
  ASSUME TokensInv, NEW p \in Page, Fresh, Serve(p, tokens)
  PROVE  \A q \in Page : held'[q] # held[q] /\ held'[q] # Empty => now < held'[q].exp
<1>1. PICK i \in 1..Len(tokens) : held' = [held EXCEPT ![p] = tokens[i]]
  BY FreshIsWhole, ServeType DEF TokensInv, Typed
<1>2. now \in Nat /\ expiresAt \in Nat /\ tokens[i].exp \in Nat /\ now < expiresAt
  BY FreshIsWhole, EndsAt DEF TokensInv, Typed
<1>3. tokens[i] # Empty => now < tokens[i].exp
  BY <1>2 DEF TokensInv, CacheInv
<1>4. QED
  BY <1>1, <1>3 DEF TokensInv, Typed

\* Every action keeps the invariant, and serves nothing that is over.
LEMMA TokensStep ==
  ASSUME TokensInv, [Next]_vars
  PROVE  /\ TokensInv'
         /\ \A p \in Page : held'[p] # held[p] /\ held'[p] # Empty => now < held'[p].exp
<1>1. ASSUME NEW p \in Page, AskTokens(p)
      PROVE  /\ TokensInv'
             /\ \A q \in Page : held'[q] # held[q] /\ held'[q] # Empty => now < held'[q].exp
  <2>1. (Fresh /\ Serve(p, tokens)) \/ held' = held
    BY <1>1 DEF AskTokens
  <2>2. QED
    BY <1>1, <2>1, TokensAsk, ServedFresh
<1>2. ASSUME NEW p \in Page, EnterRound(p)
      PROVE  /\ TokensInv'
             /\ \A q \in Page : held'[q] # held[q] /\ held'[q] # Empty => now < held'[q].exp
  <2>1. (Fresh /\ Serve(p, tokens)) \/ held' = held
    BY <1>2 DEF EnterRound
  <2>2. QED
    BY <1>2, <2>1, TokensEnter, ServedFresh
<1>3. ASSUME NEW p \in Page, FetchToken(p)
      PROVE  /\ TokensInv'
             /\ \A q \in Page : held'[q] # held[q] /\ held'[q] # Empty => now < held'[q].exp
  BY <1>3, TokensFetch
<1>4. ASSUME NEW p \in Page, UseToken(p) \/ EnterKeys(p) \/ FetchKeys(p)
      PROVE  TokensInv' /\ held' = held
  BY <1>4, TokensUse
<1>5. CASE Tick \/ Rotate
  BY <1>5, TokensTick, TokensRotate
<1>6. CASE UNCHANGED vars
  <2>1. UNCHANGED <<now, signing, web, pc, held>>
    BY <1>6 DEF vars, keycloak, calls
  <2>2. QED
    BY <2>1, TokensKept DEF TokensInv, Typed
<1>7. QED
  BY <1>1, <1>2, <1>3, <1>4, <1>5, <1>6 DEF Next

\* The invariant holds.
THEOREM TokensInvHolds == Spec => []TokensInv
<1>1. TokensInv /\ [Next]_vars => TokensInv'
  BY TokensStep
<1>2. QED
  BY TokensInit, <1>1, PTL DEF Spec

\* What the cache holds was fetched in one round.
THEOREM TokensOfOneRoundHolds == Spec => []TokensOfOneRound
<1>1. TokensInv => TokensOfOneRound
  BY DEF TokensInv, CacheInv
<1>2. QED
  BY TokensInvHolds, <1>1, PTL

\* No page is given a token that is over: the cache and a round together are
\* shorter than a token's life.
THEOREM ServedIsLiveHolds == Spec => ServedIsLive
<1>1. TokensInv /\ [Next]_vars =>
        [\A p \in Page : held'[p] # held[p] /\ held'[p] # Empty => now < held'[p].exp]_vars
  BY TokensStep
<1>2. QED
  BY TokensInvHolds, <1>1, PTL DEF Spec, ServedIsLive

\* A key that is known serves: it is missed only by a call that looked before
\* it came and finds Keycloak away afterwards.
THEOREM RefusedForAReasonHolds == Spec => RefusedForAReason
<1> DEFINE Refusal == \A p \in Page :
              pc[p] = "asking" /\ pc'[p] = "idle" /\ refused' = "unknown" =>
                 held[p].key \notin keys \/ (~exists[p] /\ UNCHANGED jwks)
<1>1. TokensInv /\ [Next]_vars => [Refusal]_vars
  <2> SUFFICES ASSUME TokensInv, Next PROVE Refusal
    OBVIOUS
  <2>1. ASSUME NEW p \in Page, FetchKeys(p)
        PROVE  Refusal
    <3>1. \A q \in Page \ {p} : pc'[q] = pc[q]
      BY <2>1 DEF FetchKeys, Check, End, Refuse, TokensInv, Typed
    <3>2. CASE UNCHANGED jwks /\ (exists[p] => Check(p))
      BY <3>1, <3>2 DEF Check, End
    <3>3. CASE UNCHANGED jwks /\ Refuse(p, "unreadable")
      BY <3>3 DEF Refuse
    <3>4. CASE keys' \in {keys \cup published, keys} /\ (held[p].key \in keys' => Check(p))
      BY <3>1, <3>4 DEF Check, End
    <3>5. QED
      BY <2>1, <3>2, <3>3, <3>4 DEF FetchKeys
  <2>2. ASSUME refused' # "unknown" PROVE Refusal
    BY <2>2
  <2>3. ASSUME NEW p \in Page, AskTokens(p) \/ EnterRound(p) \/ UseToken(p) \/ EnterKeys(p)
        PROVE  refused' # "unknown"
    BY <2>3 DEF AskTokens, EnterRound, UseToken, EnterKeys, Serve, Check, Go, End
  <2>4. ASSUME NEW p \in Page, FetchToken(p)
        PROVE  refused' # "unknown"
    BY <2>4 DEF FetchToken, Gather, Serve, Go, End
  <2>5. CASE Tick \/ Rotate
    BY <2>2, <2>5 DEF Tick, Rotate
  <2>6. QED
    BY <2>1, <2>2, <2>3, <2>4, <2>5 DEF Next
<1>2. QED
  BY TokensInvHolds, <1>1, PTL DEF Spec, RefusedForAReason
-----------------------------------------------------------------------------
(* Types, and the lock of the keys                                           *)

Checks ==
    /\ signing \in published /\ published \subseteq Key /\ keys \subseteq Key
    /\ exists \in [Page -> BOOLEAN] /\ refused \in {"no", "unknown", "unreadable"}
    /\ \A p, q \in Page : pc[p] = "asking" /\ pc[q] = "asking" => p = q

LEMMA ChecksInit == Init => Checks
BY AccessTokensAssumption DEF Init, Checks, Key

\* What asks for no keys: the keys stay, and nobody new asks for any.
LEMMA ChecksKept ==
  ASSUME Checks, UNCHANGED <<signing, published, keys>>, exists' \in [Page -> BOOLEAN],
         refused' \in {"no", "unknown", "unreadable"},
         \A p \in Page : pc'[p] = "asking" => pc[p] = "asking"
  PROVE  Checks'
BY DEF Checks

\* Every action keeps them: the second lock is as exclusive as the first.
LEMMA ChecksStep == TokensInv /\ Checks /\ [Next]_vars => Checks'
<1> SUFFICES ASSUME Typed, Checks, [Next]_vars PROVE Checks'
  BY DEF TokensInv
<1>1. pc \in [Page -> {"idle", "queued", "round", "stale", "asking"}] /\ exists \in [Page -> BOOLEAN]
  BY DEF Typed, Checks
<1>2. ASSUME NEW p \in Page, AskTokens(p) \/ EnterRound(p)
      PROVE  Checks'
  <2>1. UNCHANGED <<signing, published, keys, exists>> /\ refused' = "no"
    BY <1>2 DEF AskTokens, EnterRound, Serve, Go, End, keycloak, jwks
  <2>2. \E to \in {"idle", "queued", "round"} : pc' = [pc EXCEPT ![p] = to]
    BY <1>2 DEF AskTokens, EnterRound, Serve, Go, End
  <2>3. QED
    BY <1>1, <2>1, <2>2, ChecksKept
<1>3. ASSUME NEW p \in Page, FetchToken(p)
      PROVE  Checks'
  <2>1. UNCHANGED <<signing, published, keys, exists>> /\ refused' = "no"
    BY <1>3 DEF FetchToken, Gather, Serve, Go, End, keycloak, jwks
  <2>2. \E to \in {"idle", "round"} : pc' = [pc EXCEPT ![p] = to]
    BY <1>3 DEF FetchToken, Gather, Serve, Go, End
  <2>3. QED
    BY <1>1, <2>1, <2>2, ChecksKept
<1>4. ASSUME NEW p \in Page, UseToken(p)
      PROVE  Checks'
  <2>1. UNCHANGED <<signing, published, keys>> /\ refused' = "no"
    BY <1>4 DEF UseToken, Check, Go, End, keycloak, jwks
  <2>2. exists' \in [Page -> BOOLEAN]
    BY <1>1, <1>4 DEF UseToken
  <2>3. \E to \in {"idle", "stale"} : pc' = [pc EXCEPT ![p] = to]
    BY <1>4 DEF UseToken, Check, Go, End
  <2>4. QED
    BY <1>1, <2>1, <2>2, <2>3, ChecksKept
<1>5. ASSUME NEW p \in Page, EnterKeys(p)
      PROVE  Checks'
  <2>1. UNCHANGED <<signing, published, keys, exists>> /\ refused' = "no"
    BY <1>5 DEF EnterKeys, Go, keycloak, jwks
  <2>2. pc' = [pc EXCEPT ![p] = "asking"] /\ \A q \in Page : pc[q] # "asking"
    BY <1>5 DEF EnterKeys, Go, AskingKeys
  <2>3. QED
    BY <1>1, <2>1, <2>2 DEF Checks
<1>6. ASSUME NEW p \in Page, FetchKeys(p)
      PROVE  Checks'
  <2>1. UNCHANGED <<signing, published>> /\ refused' \in {"no", "unknown", "unreadable"}
    BY <1>6 DEF FetchKeys, Check, Refuse, End, keycloak
  <2>2. exists' \in [Page -> BOOLEAN] /\ keys' \subseteq Key
    BY <1>1, <1>6 DEF FetchKeys, Checks, jwks
  <2>3. pc' = [pc EXCEPT ![p] = "idle"]
    BY <1>6 DEF FetchKeys, Check, Refuse, End
  <2>4. QED
    BY <1>1, <2>1, <2>2, <2>3 DEF Checks
<1>7. CASE Tick
  BY <1>1, <1>7, ChecksKept DEF Tick, jwks
<1>8. CASE Rotate
  <2>1. signing' \in Key
    BY <1>8, AccessTokensAssumption DEF Rotate, Typed, Key
  <2>2. signing' \in published' /\ published' \subseteq Key
    BY <1>8, <2>1 DEF Rotate, Checks
  <2>3. UNCHANGED <<keys, exists, pc>> /\ refused' = "no"
    BY <1>8 DEF Rotate, jwks
  <2>4. QED
    BY <2>2, <2>3 DEF Checks
<1>9. CASE UNCHANGED vars
  BY <1>9 DEF vars, keycloak, jwks, calls, Checks
<1>10. QED
  BY <1>2, <1>3, <1>4, <1>5, <1>6, <1>7, <1>8, <1>9 DEF Next

\* Types of the state, and one holder of each lock.
THEOREM TokensTypeCorrect == Spec => []TypeOK
<1>1. TokensInv /\ Checks => TypeOK
  BY DEF TokensInv, Typed, OneRound, Checks, TypeOK
<1>2. QED
  BY <1>1, TokensInvHolds, ChecksInit, ChecksStep, PTL DEF Spec
=============================================================================
