----------------------------- MODULE QueryCache -----------------------------
(* The query half of the React query client (src/react/query-client.ts):   *)
(* the map of query entries, the observers that hold them, the requests    *)
(* that fill them and the timers that reclaim them.                        *)
(*                                                                         *)
(* A step is one synchronous run of the client between two awaits: a call  *)
(* of one of its methods, an attempt of queryFn reaching the server, the   *)
(* .then or .catch of an attempt, and the .finally that follows it.        *)
(* Requests are told apart by their requestId, server data by its version. *)
(* Normalized pages are the subject of EntityCache.                        *)
EXTENDS Integers

CONSTANTS
  Keys,         \* serialized query keys
  Observers,    \* listeners of mounted hooks
  MemoryCache,  \* config.cache.mode = "memory"
  Retries,      \* retry: attempts after the first
  MaxRequests,  \* bound on requestCounter
  MaxVersion    \* bound on the versions of a row on the server

ASSUME QueryCacheAssumption ==
  /\ MemoryCache \in BOOLEAN
  /\ Retries \in Nat /\ MaxRequests \in Nat /\ MaxVersion \in Nat

VARIABLES
  entries,         \* queryEntries: a function on the keys it holds
  requestCounter,
  inflight,        \* inflightQueries: request id by key, NoRequest if none
  requests,        \* started requests by id, until their .finally has run
  server,          \* version of what each query returns
  writer,          \* history: id of the request or write shown by each entry
  invalidatedAt    \* history: server version when the mounted entry was last
                   \* invalidated with a refetch

vars == <<entries, requestCounter, inflight, requests, server, writer,
          invalidatedAt>>

NoRequest == 0
NoData == -1
Manual == MaxVersion + 1   \* data put there by setQueryData
Statuses == {"idle", "loading", "success", "error"}
Ages == {"undefined", "fresh", "old"}   \* updatedAt against staleTime
Phases == {"asking", "answered", "failed", "waiting", "settled"}

NewEntry ==
  [active |-> NoRequest, status |-> "idle", data |-> NoData, age |-> "undefined",
   fetching |-> FALSE, listeners |-> {}, timer |-> FALSE, queryFn |-> FALSE,
   memory |-> MemoryCache]

EnsureQueryEntry(k) == IF k \in DOMAIN entries THEN entries[k] ELSE NewEntry

Updated(f, x, v) == [y \in DOMAIN f \cup {x} |-> IF y = x THEN v ELSE f[y]]
Put(k, e) == entries' = Updated(entries, k, e)

NextRequestId == requestCounter + 1

Init ==
  /\ entries = <<>>
  /\ requestCounter = 0
  /\ inflight = [k \in Keys |-> NoRequest]
  /\ requests = <<>>
  /\ server = [k \in Keys |-> 0]
  /\ writer = [k \in Keys |-> NoRequest]
  /\ invalidatedAt = [k \in Keys |-> 0]

-----------------------------------------------------------------------------
\* executeQuery

HasFreshData(e) ==
  e.memory /\ e.status = "success" /\ e.data # NoData /\ e.age = "fresh"

\* The request starts: the entry shows it and inflightQueries holds it.
Start(k, e) ==
  /\ requestCounter < MaxRequests
  /\ requestCounter' = NextRequestId
  /\ Put(k, [e EXCEPT !.active = NextRequestId, !.fetching = TRUE,
                      !.status = IF e.data = NoData THEN "loading" ELSE @])
  /\ requests' = Updated(requests, NextRequestId,
       [key |-> k, phase |-> "asking", attempt |-> 1, read |-> NoData, orphan |-> FALSE])
  /\ inflight' = [inflight EXCEPT ![k] = NextRequestId]

ExecuteQuery(k, e, dedupe, force) ==
  IF (dedupe /\ inflight[k] # NoRequest) \/ (~force /\ HasFreshData(e))
  THEN Put(k, e) /\ UNCHANGED <<requestCounter, inflight, requests>>
  ELSE Start(k, e)

\* useQuery's runQuery, and direct callers, who may pass dedupe: false.
Fetch(k, dedupe, force) ==
  /\ ExecuteQuery(k, [EnsureQueryEntry(k) EXCEPT !.queryFn = TRUE], dedupe, force)
  /\ UNCHANGED <<server, writer, invalidatedAt>>

Prefetch(k) ==
  /\ ExecuteQuery(k, [EnsureQueryEntry(k) EXCEPT !.queryFn = TRUE, !.memory = TRUE],
                  TRUE, FALSE)
  /\ UNCHANGED <<server, writer, invalidatedAt>>

Mounted(e) == e.listeners # {} /\ e.queryFn

\* invalidateQueries on one matched entry; a filter that matches several
\* entries does this to each.
InvalidateQueries(k, refetch) ==
  /\ k \in DOMAIN entries
  /\ LET stale == [entries[k] EXCEPT !.age = "undefined"] IN
     IF refetch /\ Mounted(stale)
     THEN /\ ExecuteQuery(k, stale, TRUE, TRUE)
          /\ invalidatedAt' = [invalidatedAt EXCEPT ![k] = server[k]]
     ELSE /\ Put(k, stale)
          /\ UNCHANGED <<requestCounter, inflight, requests, invalidatedAt>>
  /\ UNCHANGED <<server, writer>>

-----------------------------------------------------------------------------
\* Writes and resets

\* Mutant: the write takes a number but leaves the fetch in flight active.
SetQueryDataNoBump(k) ==
  /\ requestCounter < MaxRequests
  /\ requestCounter' = NextRequestId
  /\ Put(k, [EnsureQueryEntry(k) EXCEPT !.data = Manual,
                                        !.status = "success", !.age = "fresh"])
  /\ writer' = [writer EXCEPT ![k] = NextRequestId]
  /\ UNCHANGED <<inflight, requests, server, invalidatedAt>>

SetQueryData(k) ==
  /\ requestCounter < MaxRequests
  /\ requestCounter' = NextRequestId
  /\ Put(k, [EnsureQueryEntry(k) EXCEPT !.active = NextRequestId, !.data = Manual,
                                        !.status = "success", !.age = "fresh"])
  /\ writer' = [writer EXCEPT ![k] = NextRequestId]
  /\ UNCHANGED <<inflight, requests, server, invalidatedAt>>

ResetQuery(k) ==
  /\ requestCounter < MaxRequests
  /\ requestCounter' = NextRequestId
  /\ LET e == EnsureQueryEntry(k) IN
     Put(k, [e EXCEPT !.active = NextRequestId, !.status = "idle", !.data = NoData,
                      !.age = "undefined", !.fetching = FALSE])
  /\ inflight' = [inflight EXCEPT ![k] = NoRequest]
  /\ writer' = [writer EXCEPT ![k] = NextRequestId]
  /\ UNCHANGED <<requests, server, invalidatedAt>>

\* staleTime passes.
Age(k) ==
  /\ k \in DOMAIN entries /\ entries[k].age = "fresh"
  /\ Put(k, [entries[k] EXCEPT !.age = "old"])
  /\ UNCHANGED <<requestCounter, inflight, requests, server, writer, invalidatedAt>>

-----------------------------------------------------------------------------
\* A request: attempts of queryFn, .then / .catch, .finally

SetPhase(r, phase) == requests' = [requests EXCEPT ![r].phase = phase]

\* The server answers the attempt with what the query returns now.
Answer(r) ==
  /\ requests[r].phase = "asking"
  /\ requests' = [requests EXCEPT ![r].phase = "answered",
                                  ![r].read = server[requests[r].key]]
  /\ UNCHANGED <<entries, requestCounter, inflight, server, writer, invalidatedAt>>

\* queryFn rejects, or resolves to an error envelope.
Fail(r) ==
  /\ requests[r].phase = "asking"
  /\ SetPhase(r, "failed")
  /\ UNCHANGED <<entries, requestCounter, inflight, server, writer, invalidatedAt>>

\* runWithRetry sleeps, then tries again.
Backoff(r) ==
  /\ requests[r].phase = "failed" /\ requests[r].attempt <= Retries
  /\ SetPhase(r, "waiting")
  /\ UNCHANGED <<entries, requestCounter, inflight, server, writer, invalidatedAt>>

Applies(r) == ~requests[r].orphan /\ entries[requests[r].key].active = r

\* Mutant: the attempt is counted twice, before the sleep and after it.
RetryCountedTwice(r) ==
  /\ requests[r].phase = "waiting"
  /\ requests' = [requests EXCEPT ![r].phase = "asking", ![r].attempt = @ + 2]
  /\ UNCHANGED <<entries, requestCounter, inflight, server, writer, invalidatedAt>>

Retry(r) ==
  /\ requests[r].phase = "waiting"
  /\ requests' = [requests EXCEPT ![r].phase = "asking", ![r].attempt = @ + 1]
  /\ entries' = IF Applies(r) THEN [entries EXCEPT ![requests[r].key].fetching = TRUE]
                              ELSE entries
  /\ UNCHANGED <<requestCounter, inflight, server, writer, invalidatedAt>>

\* The .then of a successful attempt.
Succeed(r) ==
  /\ requests[r].phase = "answered"
  /\ SetPhase(r, "settled")
  /\ LET k == requests[r].key IN
     IF Applies(r)
     THEN /\ entries' = [entries EXCEPT ![k].data = requests[r].read, ![k].status = "success",
                                        ![k].age = "fresh", ![k].fetching = FALSE]
          /\ writer' = [writer EXCEPT ![k] = r]
     ELSE UNCHANGED <<entries, writer>>
  /\ UNCHANGED <<requestCounter, inflight, server, invalidatedAt>>

\* Mutant: the retry that would exceed the limit is off by one.
GiveUpLate(r) ==
  /\ requests[r].phase = "failed" /\ requests[r].attempt > Retries + 1
  /\ SetPhase(r, "settled")
  /\ UNCHANGED <<entries, requestCounter, inflight, server, writer, invalidatedAt>>

\* Mutant: the .catch answers its caller but does not tell the entry.
GiveUpSilently(r) ==
  /\ requests[r].phase = "failed" /\ requests[r].attempt > Retries
  /\ SetPhase(r, "settled")
  /\ UNCHANGED <<entries, requestCounter, inflight, server, writer, invalidatedAt>>

\* The .catch after the last attempt.
GiveUp(r) ==
  /\ requests[r].phase = "failed" /\ requests[r].attempt > Retries
  /\ SetPhase(r, "settled")
  /\ LET k == requests[r].key IN
     entries' = IF Applies(r)
                THEN [entries EXCEPT ![k].status = "error", ![k].age = "fresh",
                                     ![k].fetching = FALSE]
                ELSE entries
  /\ UNCHANGED <<requestCounter, inflight, server, writer, invalidatedAt>>

\* Mutant: the .finally removes whatever request is listed.
UnlistAny(r) == inflight' = [inflight EXCEPT ![requests[r].key] = NoRequest]

\* The .finally removes the request from inflightQueries if it is still there.
Unlist(r) ==
  LET k == requests[r].key IN
  inflight' = IF inflight[k] = r THEN [inflight EXCEPT ![k] = NoRequest] ELSE inflight

Finish(r) ==
  /\ requests[r].phase = "settled"
  /\ Unlist(r)
  /\ requests' = [s \in DOMAIN requests \ {r} |-> requests[s]]
  /\ UNCHANGED <<entries, requestCounter, server, writer, invalidatedAt>>

-----------------------------------------------------------------------------
\* Observers and reclamation

SubscribeQuery(k, o) ==
  LET e == EnsureQueryEntry(k) IN
  /\ o \notin e.listeners
  /\ Put(k, [e EXCEPT !.timer = FALSE, !.listeners = @ \cup {o}])
  /\ UNCHANGED <<requestCounter, inflight, requests, server, writer, invalidatedAt>>

\* The function subscribeQuery returned; scheduleQueryGc after the last one.
Unsubscribe(k, o) ==
  /\ k \in DOMAIN entries /\ o \in entries[k].listeners
  /\ LET left == entries[k].listeners \ {o} IN
     Put(k, IF left = {} THEN [entries[k] EXCEPT !.listeners = left, !.timer = TRUE]
                         ELSE [entries[k] EXCEPT !.listeners = left])
  /\ UNCHANGED <<requestCounter, inflight, requests, server, writer, invalidatedAt>>

\* The timer deletes the entry, its request in flight included: a request that
\* is still running goes on with an entry the map no longer holds.
Gc(k) ==
  /\ k \in DOMAIN entries /\ entries[k].timer /\ entries[k].listeners = {}
  /\ entries' = [j \in DOMAIN entries \ {k} |-> entries[j]]
  /\ inflight' = [inflight EXCEPT ![k] = NoRequest]
  /\ requests' = [r \in DOMAIN requests |->
       IF requests[r].key = k THEN [requests[r] EXCEPT !.orphan = TRUE] ELSE requests[r]]
  /\ writer' = [writer EXCEPT ![k] = NoRequest]
  /\ invalidatedAt' = [invalidatedAt EXCEPT ![k] = 0]
  /\ UNCHANGED <<requestCounter, server>>

\* Somebody changes what the query returns.
ServerWrite(k) ==
  /\ server[k] < MaxVersion
  /\ server' = [server EXCEPT ![k] = @ + 1]
  /\ UNCHANGED <<entries, requestCounter, inflight, requests, writer, invalidatedAt>>

-----------------------------------------------------------------------------
Progress(r) ==
  Answer(r) \/ Fail(r) \/ Backoff(r) \/ Retry(r) \/ Succeed(r) \/ GiveUp(r) \/ Finish(r)

Next ==
  \/ \E k \in Keys :
       \/ \E dedupe, force \in BOOLEAN : Fetch(k, dedupe, force)
       \/ Prefetch(k)
       \/ \E refetch \in BOOLEAN : InvalidateQueries(k, refetch)
       \/ SetQueryData(k) \/ ResetQuery(k) \/ Age(k) \/ Gc(k) \/ ServerWrite(k)
       \/ \E o \in Observers : SubscribeQuery(k, o) \/ Unsubscribe(k, o)
  \/ \E r \in DOMAIN requests : Progress(r)

Spec == Init /\ [][Next]_vars

\* An attempt ends (the transport has a timeout), and what follows an attempt
\* is a microtask or a timer of the runtime.
RequestIds == 1 .. MaxRequests
Fairness == \A r \in RequestIds : WF_vars(r \in DOMAIN requests /\ Progress(r))
FairSpec == Spec /\ Fairness

-----------------------------------------------------------------------------
Entries == [active : 0 .. MaxRequests, status : Statuses, data : NoData .. Manual, age : Ages,
            fetching : BOOLEAN, listeners : SUBSET Observers, timer : BOOLEAN,
            queryFn : BOOLEAN, memory : BOOLEAN]
Requests == [key : Keys, phase : Phases, attempt : 1 .. Retries + 1,
             read : NoData .. MaxVersion, orphan : BOOLEAN]

\* Entries, requests and numbers are of their types; no request is attempted
\* more often than retry allows.
TypeOK ==
  /\ DOMAIN entries \subseteq Keys
  /\ \A k \in DOMAIN entries : entries[k] \in Entries
  /\ requestCounter \in 0 .. MaxRequests
  /\ inflight \in [Keys -> 0 .. MaxRequests]
  /\ DOMAIN requests \subseteq RequestIds
  /\ \A r \in DOMAIN requests : requests[r] \in Requests
  /\ server \in [Keys -> 0 .. MaxVersion]
  /\ writer \in [Keys -> 0 .. MaxRequests]
  /\ invalidatedAt \in [Keys -> 0 .. MaxVersion]

\* The newest request or write of an entry has not had its say yet.
Pending(k) ==
  LET r == entries[k].active IN
  r \in DOMAIN requests /\ ~requests[r].orphan /\ requests[r].phase # "settled"

\* What an entry shows is never replaced by the answer of an older request:
\* not by a slow fetch, nor by one that began before a setQueryData or a reset.
NewestWins ==
  [][\A k \in DOMAIN entries \cap DOMAIN entries' : writer'[k] >= writer[k]]_vars

\* An entry that shows loading waits for a request that can still end it, and
\* one that shows success with nothing to wait for shows its newest request or
\* write: no answer gets lost between the requests and the resets.
NewestIsShown ==
  \A k \in DOMAIN entries :
    /\ entries[k].status = "loading" => Pending(k)
    /\ entries[k].status = "success" /\ ~Pending(k) => writer[k] = entries[k].active

PendingIsListed ==
  \A k \in DOMAIN entries : Pending(k) => inflight[k] = entries[k].active

ListedIsRunning ==
  \A k \in Keys : inflight[k] # NoRequest =>
    /\ inflight[k] \in DOMAIN requests
    /\ requests[inflight[k]].key = k /\ ~requests[inflight[k]].orphan

\* Callers who ask for an entry's pending request join that one and do not start
\* a second: an older request that ends late does not unlist it.  And no caller
\* joins a request that is over, or one of a reclaimed entry.
CallersJoinPending == PendingIsListed /\ ListedIsRunning

\* Loading ends, in data or in an error, after the last retry at the latest.
LoadingEnds ==
  \A k \in Keys :
    LET Loading == k \in DOMAIN entries /\ entries[k].status = "loading" IN
    Loading ~> ~Loading

\* types.ts:17 and the test "invalidateQueries refetches mounted observers":
\* after invalidateQueries, a mounted query that is fresh again shows data that
\* was read after the invalidation.
InvalidatedIsRefetched ==
  \A k \in DOMAIN entries :
    LET e == entries[k] IN
    e.status = "success" /\ e.age = "fresh" => e.data >= invalidatedAt[k]
=============================================================================
