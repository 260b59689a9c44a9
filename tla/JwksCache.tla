----------------------------- MODULE JwksCache -----------------------------
(***************************************************************************)
(* Local verification of access tokens against a cached key set:           *)
(* verifyJwsAccessToken (src/auth/oauth2/jwks/verify-jws.ts) with          *)
(* get-jwks.ts and cache.ts, while the provider rotates its keys.          *)
(*                                                                         *)
(* Verifications overlap and share one cache entry.  Nothing joins a fetch *)
(* that is under way, and the entry is stamped when an answer comes, not   *)
(* when the provider gave it.  A token names its key (kid) or does not.    *)
(***************************************************************************)
EXTENDS Integers, FiniteSets

CONSTANTS
    Keys,      \* the provider's signing keys
    First,     \* those it publishes at the start
    Verifiers, \* verifications
    TTL,       \* JWKS_CACHE_TTL_MS
    Cooldown,  \* JWKS_NO_KID_REFETCH_COOLDOWN_MS
    Longest,   \* bound: how long a fetch may take (the code sets no limit)
    MaxTime,   \* bound: the clock
    Never, NoEntry

ASSUME JwksCacheAssumption ==
    /\ First \subseteq Keys /\ Keys # {} /\ IsFiniteSet(Keys)
    /\ TTL \in Nat \ {0} /\ Cooldown \in Nat \ {0} /\ Longest \in Nat /\ MaxTime \in Nat \ {0}
    /\ Never \notin Nat

VARIABLES
    now,
    published,  \* keys in the provider's set
    retired,    \* when a key was taken out of it
    cache,      \* [keys, fetchedAt, noKidRefetchedAt], or NoEntry
    call        \* the verifications

vars == <<now, published, retired, cache, call>>

Idle == [pc |-> "idle", key |-> CHOOSE k \in Keys : TRUE, kid |-> FALSE, forced |-> FALSE,
         fromCache |-> FALSE, keys |-> {}, refetched |-> Never, sent |-> 0, live |-> FALSE,
         lag |-> 0]

Init ==
    /\ now = 1 /\ published = First
    /\ retired = [k \in Keys |-> Never]
    /\ cache = NoEntry
    /\ call = [v \in Verifiers |-> Idle]

-----------------------------------------------------------------------------
(* Time and the provider.                                                   *)

Fetching(v) == call[v].pc \in {"fetch", "answered"}

\* Verification itself takes no time.
Tick ==
    /\ now < MaxTime
    /\ \A v \in Verifiers : /\ call[v].pc # "verify"
                            /\ Fetching(v) => now - call[v].sent < Longest
    /\ now' = now + 1
    /\ UNCHANGED <<published, retired, cache, call>>

Publish(k) ==
    /\ k \notin published /\ retired[k] = Never
    /\ published' = published \cup {k}
    /\ UNCHANGED <<now, retired, cache, call>>

Retire(k) ==
    /\ k \in published
    /\ published' = published \ {k}
    /\ retired' = [retired EXCEPT ![k] = now]
    /\ call' = [v \in Verifiers |-> IF call[v].key = k THEN [call[v] EXCEPT !.live = FALSE]
                                                      ELSE call[v]]
    /\ UNCHANGED <<now, cache>>

-----------------------------------------------------------------------------
(* A verification.                                                          *)

\* Mutant of Fresh: a kid the cached set does not have is no reason to refetch.
FreshAnyKid(key, kid) == cache # NoEntry /\ now - cache.fetchedAt < TTL

\* Mutant of Fresh: the set is trusted one moment too long.
FreshLonger(key, kid) ==
    /\ cache # NoEntry /\ now - cache.fetchedAt <= TTL
    /\ kid => key \in cache.keys

\* getFreshJwksWithKid
Fresh(key, kid) ==
    /\ cache # NoEntry /\ now - cache.fetchedAt < TTL
    /\ kid => key \in cache.keys

\* getJwksForVerification: what is cached, or a fetch of one's own
Start(v) ==
    /\ call[v].pc = "idle"
    /\ \E key \in Keys, kid \in BOOLEAN :
        LET c == [Idle EXCEPT !.key = key, !.kid = kid, !.live = key \in published] IN
        call' = [call EXCEPT ![v] =
            IF Fresh(key, kid)
            THEN [c EXCEPT !.pc = "verify", !.fromCache = TRUE, !.keys = cache.keys,
                           !.refetched = cache.noKidRefetchedAt]
            ELSE [c EXCEPT !.pc = "fetch", !.sent = now]]
    /\ UNCHANGED <<now, published, retired, cache>>

\* The provider reads its set; the answer is on its way, or lost.
Provide(v) ==
    /\ call[v].pc = "fetch"
    /\ \/ call' = [call EXCEPT ![v].pc = "answered", ![v].keys = published]
       \/ call' = [call EXCEPT ![v] = [Idle EXCEPT !.pc = "failed"]]
    /\ UNCHANGED <<now, published, retired, cache>>

\* Mutant of Store: the time of an earlier forced refetch is kept.
StoreKeeps(v) ==
    /\ call[v].pc = "answered"
    /\ cache' = [keys |-> call[v].keys, fetchedAt |-> now,
                 noKidRefetchedAt |-> IF call[v].forced /\ ~call[v].kid THEN now
                                      ELSE IF cache = NoEntry THEN Never ELSE cache.noKidRefetchedAt]
    /\ call' = [call EXCEPT ![v].pc = "verify", ![v].fromCache = FALSE, ![v].sent = 0]
    /\ UNCHANGED <<now, published, retired>>

\* The entry is replaced as a whole, whichever fetch comes last.
Store(v) ==
    /\ call[v].pc = "answered"
    /\ cache' = [keys |-> call[v].keys, fetchedAt |-> now,
                 noKidRefetchedAt |-> IF call[v].forced /\ ~call[v].kid THEN now ELSE Never]
    /\ call' = [call EXCEPT ![v].pc = "verify", ![v].fromCache = FALSE, ![v].sent = 0]
    /\ UNCHANGED <<now, published, retired>>

\* jwtVerify: without a kid it takes the only key there is, and gives up,
\* with an error nothing retries, if there are several.
Verifies(c) == c.key \in c.keys /\ (c.kid \/ Cardinality(c.keys) = 1)

\* shouldRefetchCachedJwksWithoutKid
Refetches(c) ==
    /\ c.fromCache /\ ~c.kid /\ Cardinality(c.keys) <= 1
    /\ c.refetched # Never => now - c.refetched >= Cooldown

Verify(v) ==
    LET c == call[v] IN
    /\ c.pc = "verify"
    /\ \/ /\ Verifies(c)
          /\ call' = [call EXCEPT ![v] = [Idle EXCEPT !.pc = "accepted",
                 !.lag = IF retired[c.key] = Never THEN 0 ELSE now - retired[c.key]]]
       \/ /\ ~Verifies(c) /\ Refetches(c)
          /\ call' = [call EXCEPT ![v].pc = "fetch", ![v].forced = TRUE, ![v].sent = now]
       \/ /\ ~Verifies(c) /\ ~Refetches(c)
          /\ call' = [call EXCEPT ![v].pc = "rejected",
                 ![v].lag = IF c.refetched = Never THEN 0 ELSE now - c.refetched]
    /\ UNCHANGED <<now, published, retired, cache>>

Ended(v) == call[v].pc \in {"accepted", "rejected", "failed"}

Next ==
    \/ Tick
    \/ \E k \in Keys : Publish(k) \/ Retire(k)
    \/ \E v \in Verifiers : Start(v) \/ Provide(v) \/ Store(v) \/ Verify(v)
    \/ (\A v \in Verifiers : Ended(v)) /\ UNCHANGED vars

Spec == Init /\ [][Next]_vars

-----------------------------------------------------------------------------
Times == 0 .. MaxTime
Calls == [pc : {"idle", "fetch", "answered", "verify", "accepted", "rejected", "failed"},
          key : Keys, kid : BOOLEAN, forced : BOOLEAN, fromCache : BOOLEAN,
          keys : SUBSET Keys, refetched : Times \cup {Never}, sent : Times,
          live : BOOLEAN, lag : Times]

Entries == [keys : SUBSET Keys, fetchedAt : Times, noKidRefetchedAt : Times \cup {Never}]

\* Types; the refetch an entry remembers is the one that filled it
\* (get-jwks.ts:65-69).
TypeOK ==
    /\ now \in Times /\ published \subseteq Keys
    /\ retired \in [Keys -> Times \cup {Never}]
    /\ cache \in Entries \cup {NoEntry}
    /\ cache # NoEntry => cache.noKidRefetchedAt \in {Never, cache.fetchedAt}
    /\ call \in [Verifiers -> Calls]

\* A token whose key the provider published all the while is not rejected,
\* however the key set was cached and whatever older or newer sets overlapping
\* verifications stored meanwhile (get-jwks.ts): a kid that is missing is
\* fetched for, and so is a set no kid can be looked up in, but only once in
\* Cooldown.  Without a kid, several keys at once are an ambiguity.
PublishedKeysVerify ==
    \A v \in Verifiers : LET c == call[v] IN
        c.pc = "rejected" /\ c.live =>
            /\ ~c.kid
            /\ Cardinality(c.keys) > 1 \/ (c.fromCache /\ c.refetched # Never /\ c.lag < Cooldown)

\* A retired key is not trusted for longer than the time to live and the
\* slowest fetch together (cache.ts: "How long a cached JWKS is trusted before
\* it is refetched"), although a slow answer is stamped when it arrives and
\* may replace a newer one.
RetiredKeysExpire ==
    \A v \in Verifiers : call[v].pc = "accepted" => call[v].lag < TTL + Longest

=============================================================================
