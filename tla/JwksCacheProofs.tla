-------------------------- MODULE JwksCacheProofs --------------------------
(* Theorems about JwksCache, for any number of keys and verifications and  *)
(* all times to live, cooldowns and durations of a fetch.                  *)
EXTENDS JwksCache, FiniteSetTheorems, TLAPS

(***************************************************************************)
(* Why no retired key outlives TTL + Longest: an answer that has the key   *)
(* was asked for before the key was retired, and is stamped Longest later  *)
(* at most.                                                                *)
(***************************************************************************)
ClockInv ==
    /\ \A k \in Keys : retired[k] # Never => k \notin published /\ retired[k] <= now
    /\ cache # NoEntry =>
        /\ cache.fetchedAt <= now
        /\ \A k \in cache.keys : retired[k] # Never => cache.fetchedAt <= retired[k] + Longest

\* What a verification holds at each step.  Its key is in the set it verifies
\* with, as long as the key is published, unless the set was looked up in the
\* cache without a kid.
CallOk(v) == LET c == call[v] IN
    /\ c.live => c.key \in published
    /\ c.refetched # Never => c.refetched <= now
    /\ Fetching(v) => c.sent <= now /\ now <= c.sent + Longest
    /\ c.pc = "answered" =>
        /\ c.live => c.key \in c.keys
        /\ \A k \in c.keys : retired[k] # Never => c.sent <= retired[k]
    /\ c.pc = "verify" =>
        /\ c.live /\ (c.kid \/ ~c.fromCache) => c.key \in c.keys
        /\ \A k \in c.keys : retired[k] # Never => now < retired[k] + TTL + Longest

CallInv == \A v \in Verifiers : CallOk(v)

IInv == TypeOK /\ ClockInv /\ CallInv /\ PublishedKeysVerify /\ RetiredKeysExpire

USE JwksCacheAssumption DEF JwksCacheAssumption

\* The fields of a verification and of a cache entry.
LEMMA CallFields ==
    ASSUME NEW c \in Calls
    PROVE  /\ c.key \in Keys /\ c.keys \in SUBSET Keys /\ c.kid \in BOOLEAN /\ c.live \in BOOLEAN
           /\ c.fromCache \in BOOLEAN /\ c.forced \in BOOLEAN
           /\ c.sent \in Times /\ c.lag \in Times /\ c.refetched \in Times \cup {Never}
  BY DEF Calls

LEMMA EntryFields ==
    ASSUME NEW e \in Entries
    PROVE  /\ e.keys \in SUBSET Keys /\ e.fetchedAt \in Times
           /\ e.noKidRefetchedAt \in Times \cup {Never}
  BY DEF Entries

LEMMA IdleType == Idle \in Calls /\ Idle.pc = "idle" /\ ~Idle.live /\ Idle.refetched = Never /\ Idle.lag = 0
  BY DEF Idle, Calls, Times

\* A set of one key at most that has a key has exactly one.
LEMMA OneKey ==
    ASSUME NEW S \in SUBSET Keys, NEW k \in S, ~(Cardinality(S) > 1)
    PROVE  Cardinality(S) = 1
<1>1. IsFiniteSet(S)
  BY FS_Subset
<1>2. Cardinality(S) \in Nat
  BY <1>1, FS_CardinalityType
<1>3. Cardinality(S) # 0
  BY <1>1, FS_EmptySet
<1> QED
  BY <1>2, <1>3

LEMMA InitIInv == Init => IInv
<1> SUFFICES ASSUME Init PROVE IInv
  OBVIOUS
<1>1. TypeOK
  BY IdleType DEF Init, TypeOK, Times
<1>2. \A v \in Verifiers : call[v] = Idle
  BY DEF Init
<1>3. ClockInv
  BY DEF Init, ClockInv
<1>4. CallInv
  BY <1>2, IdleType DEF CallInv, CallOk, Fetching
<1>5. PublishedKeysVerify /\ RetiredKeysExpire
  BY <1>2, IdleType DEF PublishedKeysVerify, RetiredKeysExpire
<1> QED
  BY <1>1, <1>3, <1>4, <1>5 DEF IInv

(***************************************************************************)
(* A step of one verification leaves the others as they were.              *)
(***************************************************************************)
Promises(v) ==
    /\ CallOk(v)
    /\ LET c == call[v] IN
       /\ c.pc = "rejected" /\ c.live =>
            /\ ~c.kid
            /\ Cardinality(c.keys) > 1 \/ (c.fromCache /\ c.refetched # Never /\ c.lag < Cooldown)
       /\ c.pc = "accepted" => c.lag < TTL + Longest

LEMMA PromisesAll ==
    (CallInv /\ PublishedKeysVerify /\ RetiredKeysExpire) <=> \A v \in Verifiers : Promises(v)
  BY DEF CallInv, PublishedKeysVerify, RetiredKeysExpire, Promises

LEMMA StepOfOne ==
    ASSUME \A w \in Verifiers : Promises(w), NEW v \in Verifiers, NEW c \in Calls,
           call \in [Verifiers -> Calls], call' = [call EXCEPT ![v] = c],
           UNCHANGED <<now, published, retired>>, Promises(v)'
    PROVE  call' \in [Verifiers -> Calls] /\ \A w \in Verifiers : Promises(w)'
<1>1. ASSUME NEW w \in Verifiers, w # v
      PROVE  Promises(w)'
  <2>1. call'[w] = call[w]
    BY <1>1
  <2>2. Promises(w)
    OBVIOUS
  <2> QED
    BY <2>1, <2>2 DEF Promises, CallOk, Fetching
<1> QED
  BY <1>1

(***************************************************************************)
(* Consecution, one lemma per group of actions.                            *)
(***************************************************************************)
LEMMA TickKeeps == IInv /\ Tick => IInv'
<1> SUFFICES ASSUME IInv, Tick PROVE IInv'
  OBVIOUS
<1>1. now' = now + 1 /\ now \in Nat /\ UNCHANGED <<published, retired, cache, call>>
  BY DEF Tick, IInv, TypeOK, Times
<1>2. TypeOK'
  BY DEF Tick, IInv, TypeOK, Times
<1>3. ClockInv'
  <2>1. ASSUME NEW k \in Keys, retired[k] # Never
        PROVE  retired[k] \in Nat /\ retired[k] <= now + 1
    BY <1>1, <2>1 DEF IInv, TypeOK, ClockInv, Times
  <2>2. cache # NoEntry => cache.fetchedAt \in Nat /\ cache.fetchedAt <= now + 1
    BY <1>1, EntryFields DEF IInv, TypeOK, ClockInv, Times
  <2> QED
    BY <1>1, <2>1, <2>2 DEF IInv, ClockInv
<1>4. ASSUME NEW v \in Verifiers
      PROVE  Promises(v)'
  <2>1. call[v] \in Calls /\ Promises(v)
    BY PromisesAll DEF IInv, TypeOK
  <2>2. call[v].pc # "verify"
    BY DEF Tick
  <2>3. Fetching(v) => now - call[v].sent < Longest
    BY DEF Tick
  <2>4. call[v].sent \in Nat /\ (call[v].refetched # Never => call[v].refetched \in Nat)
    BY <2>1, CallFields DEF Times
  <2> QED
    BY <1>1, <2>1, <2>2, <2>3, <2>4 DEF Promises, CallOk, Fetching
<1> QED
  BY <1>2, <1>3, <1>4 DEF IInv, CallInv, PublishedKeysVerify, RetiredKeysExpire, Promises

LEMMA PublishKeeps == ASSUME NEW k \in Keys, IInv, Publish(k) PROVE IInv'
<1>1. TypeOK'
  BY DEF Publish, IInv, TypeOK
<1>2. ClockInv'
  BY DEF Publish, IInv, ClockInv
<1>3. ASSUME NEW v \in Verifiers
      PROVE  Promises(v)'
  BY <1>3, PromisesAll DEF Publish, IInv, Promises, CallOk, Fetching
<1> QED
  BY <1>1, <1>2, <1>3 DEF IInv, CallInv, PublishedKeysVerify, RetiredKeysExpire, Promises

\* Retiring a key only makes the live tokens fewer; every set that has the key
\* was asked for by now.
LEMMA RetireKeeps == ASSUME NEW k \in Keys, IInv, Retire(k) PROVE IInv'
<1>1. /\ published' = published \ {k} /\ UNCHANGED <<now, cache>> /\ now \in Nat
      /\ retired' = [retired EXCEPT ![k] = now] /\ retired \in [Keys -> Times \cup {Never}]
  BY DEF Retire, IInv, TypeOK, Times
<1>2. ASSUME NEW v \in Verifiers
      PROVE  /\ call[v] \in Calls
             /\ call'[v] = IF call[v].key = k THEN [call[v] EXCEPT !.live = FALSE] ELSE call[v]
             /\ call'[v] \in Calls
             /\ call'[v].live => call[v].live /\ call[v].key # k
  <2>1. call[v] \in Calls
    BY DEF IInv, TypeOK
  <2>2. call'[v] = IF call[v].key = k THEN [call[v] EXCEPT !.live = FALSE] ELSE call[v]
    BY DEF Retire
  <2> QED
    BY <2>1, <2>2 DEF Calls
<1>3. TypeOK'
  <2>1. call' \in [Verifiers -> Calls]
    BY <1>2 DEF Retire
  <2> QED
    BY <1>1, <2>1 DEF IInv, TypeOK
<1>4. ClockInv'
  <2>1. cache # NoEntry => cache.fetchedAt \in Nat /\ cache.keys \subseteq Keys
    BY EntryFields DEF IInv, TypeOK, Times
  <2> QED
    BY <1>1, <2>1 DEF IInv, ClockInv
<1>5. ASSUME NEW v \in Verifiers
      PROVE  Promises(v)'
  <2>1. Promises(v) /\ call[v] \in Calls
    BY PromisesAll DEF IInv, TypeOK
  <2> DEFINE c == call[v]
  <2>2. /\ call'[v].pc = c.pc /\ call'[v].key = c.key /\ call'[v].kid = c.kid
        /\ call'[v].fromCache = c.fromCache /\ call'[v].keys = c.keys
        /\ call'[v].refetched = c.refetched /\ call'[v].sent = c.sent /\ call'[v].lag = c.lag
        /\ call'[v].live => c.live /\ c.key # k
    BY <2>1 DEF Calls, Retire
  <2>3. c.keys \subseteq Keys /\ c.sent \in Nat
    BY <2>1, CallFields DEF Times
  <2>4. CallOk(v)'
    BY <1>1, <2>1, <2>2, <2>3 DEF Promises, CallOk, Fetching
  <2> QED
    BY <2>1, <2>2, <2>4 DEF Promises
<1> QED
  BY <1>3, <1>4, <1>5 DEF IInv, CallInv, PublishedKeysVerify, RetiredKeysExpire, Promises

LEMMA StartKeeps == ASSUME NEW v \in Verifiers, IInv, Start(v) PROVE IInv'
<1>1. /\ UNCHANGED <<now, published, retired, cache>> /\ now \in Times /\ now \in Nat
      /\ retired \in [Keys -> Times \cup {Never}]
  BY DEF Start, IInv, TypeOK, Times
<1>2. PICK key \in Keys, kid \in BOOLEAN :
        call' = [call EXCEPT ![v] =
            IF Fresh(key, kid)
            THEN [Idle EXCEPT !.key = key, !.kid = kid, !.live = key \in published,
                              !.pc = "verify", !.fromCache = TRUE, !.keys = cache.keys,
                              !.refetched = cache.noKidRefetchedAt]
            ELSE [Idle EXCEPT !.key = key, !.kid = kid, !.live = key \in published,
                              !.pc = "fetch", !.sent = now]]
  BY DEF Start
<1> DEFINE live == key \in published
           hit == [Idle EXCEPT !.key = key, !.kid = kid, !.live = live,
                              !.pc = "verify", !.fromCache = TRUE, !.keys = cache.keys,
                              !.refetched = cache.noKidRefetchedAt]
           miss == [Idle EXCEPT !.key = key, !.kid = kid, !.live = live,
                              !.pc = "fetch", !.sent = now]
           c == IF Fresh(key, kid) THEN hit ELSE miss
<1>3. live \in BOOLEAN /\ (live <=> key \in published) /\ call' = [call EXCEPT ![v] = c]
  BY <1>2
<1> HIDE DEF live
<1>4. CASE Fresh(key, kid)
  <2>1. /\ cache \in Entries /\ now - cache.fetchedAt < TTL /\ (kid => key \in cache.keys)
        /\ cache.noKidRefetchedAt \in {Never, cache.fetchedAt}
        /\ cache.fetchedAt <= now /\ cache # NoEntry
    BY <1>4 DEF Fresh, IInv, TypeOK, ClockInv
  <2>2. cache.keys \subseteq Keys /\ cache.fetchedAt \in Nat /\ cache.noKidRefetchedAt \in Times \cup {Never}
    BY <2>1, EntryFields DEF Times
  <2>3. /\ hit \in Calls /\ hit.pc = "verify" /\ hit.key = key /\ hit.kid = kid
        /\ hit.live = live /\ hit.fromCache = TRUE /\ hit.keys = cache.keys
        /\ hit.refetched = cache.noKidRefetchedAt
    BY <1>3, <2>2, IdleType DEF Calls
  <2> HIDE DEF hit, miss
  <2>4. call'[v] = hit
    BY <1>3, <1>4 DEF IInv, TypeOK
  <2>5. ASSUME NEW k \in cache.keys, retired[k] # Never
        PROVE  now < retired[k] + TTL + Longest
    <3>1. retired[k] \in Nat /\ cache.fetchedAt <= retired[k] + Longest
      BY <1>1, <2>1, <2>2, <2>5 DEF IInv, ClockInv, TypeOK, Times
    <3> QED
      BY <1>1, <2>1, <2>2, <3>1
  <2>6. CallOk(v)'
    BY <1>1, <1>3, <2>1, <2>2, <2>3, <2>4, <2>5 DEF CallOk, Fetching
  <2>7. Promises(v)'
    BY <2>3, <2>4, <2>6 DEF Promises
  <2>8. call' \in [Verifiers -> Calls] /\ \A w \in Verifiers : Promises(w)'
    BY <1>1, <1>3, <1>4, <2>3, <2>7, StepOfOne, PromisesAll DEF IInv, TypeOK
  <2> QED
    BY <1>1, <2>8 DEF IInv, TypeOK, ClockInv, CallInv, PublishedKeysVerify, RetiredKeysExpire, Promises
<1>5. CASE ~Fresh(key, kid)
  <2>1. /\ miss \in Calls /\ miss.pc = "fetch" /\ miss.key = key /\ miss.live = live
        /\ miss.sent = now /\ miss.refetched = Never
    BY <1>1, <1>3, IdleType DEF Calls
  <2> HIDE DEF hit, miss
  <2>2. call'[v] = miss
    BY <1>3, <1>5 DEF IInv, TypeOK
  <2>3. CallOk(v)'
    BY <1>1, <1>3, <2>1, <2>2 DEF CallOk, Fetching
  <2>4. Promises(v)'
    BY <2>1, <2>2, <2>3 DEF Promises
  <2>5. call' \in [Verifiers -> Calls] /\ \A w \in Verifiers : Promises(w)'
    BY <1>1, <1>3, <1>5, <2>1, <2>4, StepOfOne, PromisesAll DEF IInv, TypeOK
  <2> QED
    BY <1>1, <2>5 DEF IInv, TypeOK, ClockInv, CallInv, PublishedKeysVerify, RetiredKeysExpire, Promises
<1> QED
  BY <1>4, <1>5

\* An answer has every key that is published now, and none that was retired.
LEMMA ProvideKeeps == ASSUME NEW v \in Verifiers, IInv, Provide(v) PROVE IInv'
<1>1. /\ UNCHANGED <<now, published, retired, cache>> /\ call[v].pc = "fetch"
      /\ call[v] \in Calls /\ Promises(v)
  BY PromisesAll DEF Provide, IInv, TypeOK
<1> DEFINE answer == [call[v] EXCEPT !.pc = "answered", !.keys = published]
           failure == [Idle EXCEPT !.pc = "failed"]
<1>2. /\ answer \in Calls /\ answer.pc = "answered" /\ answer.keys = published
      /\ answer.key = call[v].key /\ answer.live = call[v].live /\ answer.kid = call[v].kid
      /\ answer.refetched = call[v].refetched /\ answer.sent = call[v].sent
  BY <1>1 DEF Calls, IInv, TypeOK
<1>3. /\ failure \in Calls /\ failure.pc = "failed" /\ ~failure.live /\ failure.refetched = Never
  BY IdleType DEF Calls
<1>4. call' = [call EXCEPT ![v] = answer] \/ call' = [call EXCEPT ![v] = failure]
  BY <1>1 DEF Provide, IInv, TypeOK
<1> HIDE DEF answer, failure
<1>5. call' \in [Verifiers -> Calls] /\ \A w \in Verifiers : Promises(w)'
  <2>1. CASE call' = [call EXCEPT ![v] = answer]
    <3>1. call'[v] = answer
      BY <2>1 DEF IInv, TypeOK
    <3>2. \A k \in published : retired[k] = Never
      BY DEF IInv, TypeOK, ClockInv
    <3>3. Promises(v)'
      BY <1>1, <1>2, <3>1, <3>2 DEF Promises, CallOk, Fetching
    <3> QED
      BY <1>1, <1>2, <2>1, <3>3, StepOfOne, PromisesAll DEF IInv, TypeOK
  <2>2. CASE call' = [call EXCEPT ![v] = failure]
    <3>1. call'[v] = failure
      BY <2>2 DEF IInv, TypeOK
    <3>2. Promises(v)'
      BY <1>1, <1>3, <3>1 DEF Promises, CallOk, Fetching
    <3> QED
      BY <1>1, <1>3, <2>2, <3>2, StepOfOne, PromisesAll DEF IInv, TypeOK
  <2> QED
    BY <1>4, <2>1, <2>2
<1> QED
  BY <1>1, <1>5 DEF IInv, TypeOK, ClockInv, CallInv, PublishedKeysVerify, RetiredKeysExpire, Promises

\* The entry is stamped Longest after its answer was asked for, at most.
LEMMA StoreStepKeeps == ASSUME NEW v \in Verifiers, IInv, Store(v) PROVE IInv'
<1>1. /\ UNCHANGED <<now, published, retired>> /\ call[v].pc = "answered"
      /\ call[v] \in Calls /\ Promises(v) /\ now \in Nat /\ now \in Times
      /\ retired \in [Keys -> Times \cup {Never}]
  BY PromisesAll DEF Store, IInv, TypeOK, Times
<1> DEFINE c == [call[v] EXCEPT !.pc = "verify", !.fromCache = FALSE, !.sent = 0]
<1>2. /\ c \in Calls /\ c.pc = "verify" /\ c.keys = call[v].keys /\ c.fromCache = FALSE
      /\ c.key = call[v].key /\ c.live = call[v].live /\ c.refetched = call[v].refetched
  <2>1. 0 \in Times
    BY JwksCacheAssumption DEF Times
  <2> QED
    BY <1>1, <2>1 DEF Calls
<1>3. call' = [call EXCEPT ![v] = c] /\ call'[v] = c
  BY DEF Store, IInv, TypeOK
<1> HIDE DEF c
<1>4. /\ call[v].keys \subseteq Keys /\ call[v].sent \in Nat /\ now <= call[v].sent + Longest
      /\ (call[v].live => call[v].key \in call[v].keys)
      /\ \A k \in call[v].keys : retired[k] # Never => retired[k] \in Nat /\ call[v].sent <= retired[k]
  BY <1>1, CallFields DEF Promises, CallOk, Fetching, Times
<1>5. /\ cache' \in Entries /\ cache'.keys = call[v].keys /\ cache'.fetchedAt = now
      /\ cache'.noKidRefetchedAt \in {Never, now}
  BY <1>1, <1>4 DEF Store, Entries
<1>6. ClockInv'
  <2>1. \A k \in cache'.keys : retired'[k] # Never => cache'.fetchedAt <= retired'[k] + Longest
    BY <1>1, <1>4, <1>5
  <2> QED
    BY <1>1, <1>5, <2>1 DEF IInv, ClockInv
<1>7. Promises(v)'
  <2>1. \A k \in call[v].keys : retired[k] # Never => now < retired[k] + TTL + Longest
    BY <1>1, <1>4
  <2> QED
    BY <1>1, <1>2, <1>3, <1>4, <2>1 DEF Promises, CallOk, Fetching
<1>8. call' \in [Verifiers -> Calls] /\ \A w \in Verifiers : Promises(w)'
  BY <1>1, <1>2, <1>3, <1>7, StepOfOne, PromisesAll DEF IInv, TypeOK
<1> QED
  BY <1>1, <1>5, <1>6, <1>8 DEF IInv, TypeOK, CallInv, PublishedKeysVerify, RetiredKeysExpire, Promises

\* A live token that is rejected was looked up without a kid, in several keys
\* or within the cooldown.
LEMMA VerifyKeeps == ASSUME NEW v \in Verifiers, IInv, Verify(v) PROVE IInv'
<1> DEFINE c == call[v]
<1>1. /\ UNCHANGED <<now, published, retired, cache>> /\ c.pc = "verify"
      /\ c \in Calls /\ Promises(v) /\ now \in Nat /\ now \in Times
      /\ retired \in [Keys -> Times \cup {Never}]
  BY PromisesAll DEF Verify, IInv, TypeOK, Times
<1>2. /\ c.keys \subseteq Keys /\ c.key \in Keys /\ c.kid \in BOOLEAN
      /\ (c.refetched # Never => c.refetched \in Nat /\ c.refetched <= now)
      /\ (retired[c.key] # Never => retired[c.key] \in Nat /\ retired[c.key] <= now)
  BY <1>1, CallFields DEF Promises, CallOk, IInv, ClockInv, Times
<1>3. CASE Verifies(c)
  <2> DEFINE lag == IF retired[c.key] = Never THEN 0 ELSE now - retired[c.key]
             d == [Idle EXCEPT !.pc = "accepted", !.lag = lag]
  <2>1. call' = [call EXCEPT ![v] = d]
    BY <1>3 DEF Verify
  <2>2. lag \in Times /\ lag < TTL + Longest
    <3>1. retired[c.key] # Never => now < retired[c.key] + TTL + Longest
      BY <1>1, <1>3 DEF Verifies, Promises, CallOk
    <3> QED
      BY <1>1, <1>2, <3>1 DEF Times
  <2> HIDE DEF lag
  <2>3. d \in Calls /\ d.pc = "accepted" /\ d.lag = lag /\ ~d.live /\ d.refetched = Never
    BY <2>2, IdleType DEF Calls
  <2> HIDE DEF d
  <2>4. call'[v] = d
    BY <2>1 DEF IInv, TypeOK
  <2>5. Promises(v)'
    BY <1>1, <2>2, <2>3, <2>4 DEF Promises, CallOk, Fetching
  <2>6. call' \in [Verifiers -> Calls] /\ \A w \in Verifiers : Promises(w)'
    BY <1>1, <2>1, <2>3, <2>5, StepOfOne, PromisesAll DEF IInv, TypeOK
  <2> QED
    BY <1>1, <2>6 DEF IInv, TypeOK, ClockInv, CallInv, PublishedKeysVerify, RetiredKeysExpire, Promises
<1>4. CASE ~Verifies(c) /\ Refetches(c)
  <2> DEFINE d == [c EXCEPT !.pc = "fetch", !.forced = TRUE, !.sent = now]
  <2>1. call' = [call EXCEPT ![v] = d]
    BY <1>1, <1>4 DEF Verify, IInv, TypeOK
  <2>2. /\ d \in Calls /\ d.pc = "fetch" /\ d.sent = now /\ d.live = c.live /\ d.key = c.key
        /\ d.refetched = c.refetched
    BY <1>1 DEF Calls
  <2> HIDE DEF d
  <2>3. call'[v] = d
    BY <2>1 DEF IInv, TypeOK
  <2>4. Promises(v)'
    BY <1>1, <2>2, <2>3 DEF Promises, CallOk, Fetching
  <2>5. call' \in [Verifiers -> Calls] /\ \A w \in Verifiers : Promises(w)'
    BY <1>1, <2>1, <2>2, <2>4, StepOfOne, PromisesAll DEF IInv, TypeOK
  <2> QED
    BY <1>1, <2>5 DEF IInv, TypeOK, ClockInv, CallInv, PublishedKeysVerify, RetiredKeysExpire, Promises
<1>5. CASE ~Verifies(c) /\ ~Refetches(c)
  <2> DEFINE lag == IF c.refetched = Never THEN 0 ELSE now - c.refetched
             d == [c EXCEPT !.pc = "rejected", !.lag = lag]
  <2>1. call' = [call EXCEPT ![v] = d]
    BY <1>1, <1>5 DEF Verify, IInv, TypeOK
  <2>2. lag \in Times /\ (c.refetched # Never => lag = now - c.refetched)
    BY <1>1, <1>2 DEF Times
  <2> HIDE DEF lag
  <2>3. /\ d \in Calls /\ d.pc = "rejected" /\ d.lag = lag /\ d.live = c.live /\ d.key = c.key
        /\ d.refetched = c.refetched /\ d.kid = c.kid /\ d.keys = c.keys
        /\ d.fromCache = c.fromCache
    BY <1>1, <2>2 DEF Calls
  <2> HIDE DEF d
  <2>4. call'[v] = d
    BY <2>1 DEF IInv, TypeOK
  <2>5. ASSUME c.live
        PROVE  /\ ~c.kid
               /\ Cardinality(c.keys) > 1 \/ (c.fromCache /\ c.refetched # Never /\ lag < Cooldown)
    <3>1. ~c.kid
      BY <1>1, <1>5, <2>5 DEF Promises, CallOk, Verifies
    <3>2. ASSUME ~(Cardinality(c.keys) > 1)
          PROVE  c.fromCache /\ c.refetched # Never /\ lag < Cooldown
      <4>1. c.fromCache
        <5>1. ASSUME ~c.fromCache
              PROVE  FALSE
          <6>1. c.key \in c.keys
            BY <1>1, <2>5, <5>1 DEF Promises, CallOk
          <6> QED
            BY <1>2, <1>5, <3>2, <6>1, OneKey DEF Verifies
        <5> QED
          BY <5>1
      <4>2. Cardinality(c.keys) <= 1
        <5>1. Cardinality(c.keys) \in Nat
          BY <1>2, FS_Subset, FS_CardinalityType
        <5> QED
          BY <3>2, <5>1
      <4>3. c.refetched # Never /\ ~(now - c.refetched >= Cooldown)
        BY <1>5, <3>1, <4>1, <4>2 DEF Refetches
      <4> QED
        BY <1>1, <1>2, <2>2, <4>1, <4>3, JwksCacheAssumption
    <3> QED
      BY <3>1, <3>2
  <2>6. Promises(v)'
    BY <1>1, <2>3, <2>4, <2>5 DEF Promises, CallOk, Fetching
  <2>7. call' \in [Verifiers -> Calls] /\ \A w \in Verifiers : Promises(w)'
    BY <1>1, <2>1, <2>3, <2>6, StepOfOne, PromisesAll DEF IInv, TypeOK
  <2> QED
    BY <1>1, <2>7 DEF IInv, TypeOK, ClockInv, CallInv, PublishedKeysVerify, RetiredKeysExpire, Promises
<1> QED
  BY <1>3, <1>4, <1>5

LEMMA NextIInv == IInv /\ [Next]_vars => IInv'
<1>1. IInv /\ UNCHANGED vars => IInv'
  BY DEF IInv, vars, TypeOK, ClockInv, CallInv, CallOk, Fetching, PublishedKeysVerify,
         RetiredKeysExpire
<1> QED
  BY <1>1, TickKeeps, PublishKeeps, RetireKeeps, StartKeeps, ProvideKeeps, StoreStepKeeps, VerifyKeeps
     DEF Next

\* The inductive invariant holds in every reachable state.
THEOREM Invariance == Spec => []IInv
<1> QED
  BY InitIInv, NextIInv, PTL DEF Spec

\* Type correctness; an entry remembers no forced refetch but the one that
\* filled it (get-jwks.ts:65-69).
THEOREM TypeCorrect == Spec => []TypeOK
<1>1. IInv => TypeOK
  BY DEF IInv
<1> QED
  BY <1>1, Invariance, PTL

\* getJwksForVerification and verifyJwsAccessToken: a token whose key is
\* published all the while is rejected only without a kid, and then only
\* because of an ambiguity or the cooldown.
THEOREM PublishedVerify == Spec => []PublishedKeysVerify
<1>1. IInv => PublishedKeysVerify
  BY DEF IInv
<1> QED
  BY <1>1, Invariance, PTL

\* cache.ts: a key is trusted for less than TTL + Longest after it was retired,
\* whichever answers overtake each other.
THEOREM RetiredExpire == Spec => []RetiredKeysExpire
<1>1. IInv => RetiredKeysExpire
  BY DEF IInv
<1> QED
  BY <1>1, Invariance, PTL
=============================================================================
