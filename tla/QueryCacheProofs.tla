--------------------------- MODULE QueryCacheProofs ---------------------------
(***************************************************************************)
(* Proofs about QueryCache.  Request ids come from one counter and are     *)
(* never given out again: so the number an entry calls active is either    *)
(* that of a request for this very entry or that of no request at all, and *)
(* what an entry shows is never newer than that number.                    *)
(***************************************************************************)
EXTENDS QueryCache, TLAPS

\* Requests are numbered up to the counter; one that may still be retried has
\* attempts left, and one that is not orphaned has its entry.
RequestOk(r) ==
  LET q == requests[r] IN
  /\ q \in Requests /\ r <= requestCounter
  /\ q.phase = "waiting" => q.attempt <= Retries
  /\ ~q.orphan => q.key \in DOMAIN entries

\* The active number of an entry, and who wrote what it shows.
EntryOk(k) ==
  LET a == entries[k].active IN
  /\ entries[k] \in Entries /\ a <= requestCounter /\ writer[k] <= a
  /\ a \in DOMAIN requests => requests[a].key = k /\ ~requests[a].orphan
  /\ entries[k].status = "loading" => Pending(k)
  /\ entries[k].status = "success" /\ ~Pending(k) => writer[k] = a
  /\ Pending(k) => inflight[k] = a

ListedOk(k) ==
  /\ inflight[k] # NoRequest => /\ inflight[k] \in DOMAIN requests
                                /\ requests[inflight[k]].key = k /\ ~requests[inflight[k]].orphan
  /\ writer[k] <= requestCounter
  /\ k \notin DOMAIN entries => writer[k] = NoRequest

\* The inductive invariant.
IInv ==
  /\ TypeOK
  /\ \A r \in DOMAIN requests : RequestOk(r)
  /\ \A k \in DOMAIN entries : EntryOk(k)
  /\ \A k \in Keys : ListedOk(k)

-----------------------------------------------------------------------------
(* Records and updates.                                                     *)

LEMMA Constants ==
  /\ Retries \in Nat /\ MaxRequests \in Nat /\ MaxVersion \in Nat /\ MemoryCache \in BOOLEAN
  /\ Manual \in NoData .. Manual /\ NoData \in NoData .. Manual
  /\ \A v \in 0 .. MaxVersion : v \in NoData .. MaxVersion
  /\ \A v \in NoData .. MaxVersion : v \in NoData .. Manual
  /\ NoData \in NoData .. MaxVersion /\ NoRequest \in 0 .. MaxRequests
<1> QED
  BY QueryCacheAssumption DEF QueryCacheAssumption, Manual, NoData, NoRequest

LEMMA NewEntryType ==
  NewEntry \in Entries /\ NewEntry.active = NoRequest /\ NewEntry.status = "idle"
<1> QED
  BY Constants DEF NewEntry, Entries, Statuses, Ages

LEMMA Numbers ==
  ASSUME IInv
  PROVE  /\ requestCounter \in Nat /\ requestCounter \in 0 .. MaxRequests
         /\ \A r \in DOMAIN requests : r \in 1 .. requestCounter /\ requests[r] \in Requests
         /\ NoRequest \notin DOMAIN requests /\ NextRequestId \notin DOMAIN requests
         /\ NextRequestId \in Nat /\ requestCounter < NextRequestId
         /\ requestCounter < MaxRequests => NextRequestId \in 1 .. MaxRequests
         /\ inflight \in [Keys -> 0 .. MaxRequests] /\ writer \in [Keys -> 0 .. MaxRequests]
         /\ DOMAIN entries \subseteq Keys
<1> QED
  BY Constants DEF IInv, TypeOK, RequestIds, RequestOk, NextRequestId, NoRequest

\* The entry a call works on: the one there is, or a new one.
LEMMA Ensured ==
  ASSUME IInv, NEW k \in Keys
  PROVE  /\ EnsureQueryEntry(k) \in Entries
         /\ EnsureQueryEntry(k).active <= requestCounter
         /\ EnsureQueryEntry(k).active \in Nat
         /\ writer[k] <= EnsureQueryEntry(k).active
         /\ k \notin DOMAIN entries => /\ EnsureQueryEntry(k).active = NoRequest
                                       /\ EnsureQueryEntry(k).status = "idle"
         /\ k \in DOMAIN entries => EnsureQueryEntry(k) = entries[k]
<1>1. CASE k \in DOMAIN entries
  <2>1. EntryOk(k)
    BY <1>1 DEF IInv
  <2>2. entries[k].active \in 0 .. MaxRequests
    BY <2>1 DEF EntryOk, Entries
  <2> QED
    BY <1>1, <2>1, <2>2, Constants DEF EnsureQueryEntry, EntryOk
<1>2. CASE k \notin DOMAIN entries
  BY <1>2, NewEntryType, Numbers DEF EnsureQueryEntry, IInv, ListedOk, NoRequest
<1> QED
  BY <1>1, <1>2

LEMMA PutFields ==
  ASSUME NEW k, NEW e, Put(k, e)
  PROVE  /\ DOMAIN entries' = DOMAIN entries \cup {k} /\ entries'[k] = e
         /\ \A j \in DOMAIN entries : j # k => entries'[j] = entries[j]
<1> QED
  BY DEF Put, Updated

-----------------------------------------------------------------------------
(* What a step leaves as it was.                                            *)

\* An entry whose number, status and request are left alone.
LEMMA EntryKept ==
  ASSUME IInv, NEW k \in DOMAIN entries, entries'[k] \in Entries,
         entries'[k].active = entries[k].active, entries'[k].status = entries[k].status,
         writer'[k] = writer[k], inflight'[k] = inflight[k],
         requestCounter' \in Nat, requestCounter <= requestCounter',
         entries[k].active \in DOMAIN requests' <=> entries[k].active \in DOMAIN requests,
         entries[k].active \in DOMAIN requests =>
           /\ requests'[entries[k].active].key = requests[entries[k].active].key
           /\ requests'[entries[k].active].orphan <=> requests[entries[k].active].orphan
           /\ (requests'[entries[k].active].phase = "settled")
                <=> (requests[entries[k].active].phase = "settled")
  PROVE  EntryOk(k)' /\ (Pending(k)' <=> Pending(k))
<1> DEFINE a == entries[k].active
<1>1. EntryOk(k) /\ a \in Nat
  BY Numbers DEF IInv, EntryOk, Entries
<1>2. Pending(k)' <=> Pending(k)
  BY DEF Pending
<1>3. requestCounter \in Nat
  BY Numbers
<1>4. a <= requestCounter'
  BY <1>1, <1>3 DEF EntryOk
<1> QED
  BY <1>1, <1>2, <1>4 DEF EntryOk

\* An entry is looked up, created or changed beside its requests.
LEMMA PutKeeps ==
  ASSUME IInv, NEW k \in Keys, NEW e \in Entries, Put(k, e),
         e.active = EnsureQueryEntry(k).active, e.status = EnsureQueryEntry(k).status,
         UNCHANGED <<requestCounter, inflight, requests, server, writer>>,
         invalidatedAt' \in [Keys -> 0 .. MaxVersion]
  PROVE  IInv'
<1>1. /\ DOMAIN entries' = DOMAIN entries \cup {k} /\ entries'[k] = e
      /\ \A j \in DOMAIN entries : j # k => entries'[j] = entries[j]
  BY PutFields
<1>2. \A j \in DOMAIN entries : entries[j] \in Entries
  BY DEF IInv, TypeOK
<1>3. \A j \in DOMAIN entries' : entries'[j] \in Entries
  BY <1>1, <1>2
<1>4. TypeOK'
  BY <1>1, <1>3 DEF IInv, TypeOK
<1>5. ASSUME NEW r \in DOMAIN requests'
      PROVE  RequestOk(r)'
  BY <1>1, <1>5 DEF IInv, RequestOk
<1>6. ASSUME NEW j \in DOMAIN entries'
      PROVE  EntryOk(j)'
  <2>1. CASE j \in DOMAIN entries
    <3>1. /\ entries'[j] \in Entries /\ entries'[j].active = entries[j].active
          /\ entries'[j].status = entries[j].status
      BY <1>1, <1>3, <2>1, Ensured
    <3> QED
      BY <2>1, <3>1, EntryKept, Numbers
  <2>2. CASE j \notin DOMAIN entries
    <3>1. j = k /\ e.active = NoRequest /\ e.status = "idle" /\ writer[k] = NoRequest
      BY <1>1, <2>2, Ensured DEF IInv, ListedOk
    <3>2. ~Pending(k)'
      BY <1>1, <3>1, Numbers DEF Pending
    <3> QED
      BY <1>1, <3>1, <3>2, Numbers DEF EntryOk, NoRequest
  <2> QED
    BY <2>1, <2>2
<1>7. ASSUME NEW j \in Keys
      PROVE  ListedOk(j)'
  BY <1>1 DEF IInv, ListedOk
<1> QED
  BY <1>4, <1>5, <1>6, <1>7 DEF IInv

\* A request starts.
LEMMA StartKeeps ==
  ASSUME IInv, NEW k \in Keys, NEW e \in Entries, Start(k, e),
         e.status = EnsureQueryEntry(k).status,
         UNCHANGED <<server, writer>>, invalidatedAt' \in [Keys -> 0 .. MaxVersion]
  PROVE  IInv'
<1> DEFINE n == NextRequestId
           q == [key |-> k, phase |-> "asking", attempt |-> 1, read |-> NoData, orphan |-> FALSE]
           st == IF e.data = NoData THEN "loading" ELSE e.status
           f == [e EXCEPT !.active = n, !.fetching = TRUE, !.status = st]
<1>1. /\ n \in 1 .. MaxRequests /\ n \in Nat /\ requestCounter \in Nat /\ requestCounter' = n
      /\ requestCounter < n /\ n \notin DOMAIN requests
      /\ \A r \in DOMAIN requests : r \in 1 .. requestCounter
  BY Numbers DEF Start
<1>2. /\ q \in Requests /\ q.key = k /\ q.phase = "asking" /\ ~q.orphan
  BY Constants DEF Requests, Phases
<1>3. f \in Entries /\ f.active = n
  <2>1. st \in Statuses /\ n \in 0 .. MaxRequests
    BY <1>1 DEF Entries, Statuses
  <2>2. NoData \in NoData .. Manual /\ "old" \in Ages
    BY Constants DEF Ages
  <2> HIDE DEF st, n
  <2> QED
    BY <2>1, <2>2 DEF Entries
<1>4. Put(k, f) /\ inflight' = [inflight EXCEPT ![k] = n]
  BY DEF Start
<1>5. /\ DOMAIN requests' = DOMAIN requests \cup {n} /\ requests'[n] = q
      /\ \A r \in DOMAIN requests : requests'[r] = requests[r]
  BY <1>1 DEF Start, Updated
<1> HIDE DEF q, f, n
<1>6. /\ DOMAIN entries' = DOMAIN entries \cup {k} /\ entries'[k] = f
      /\ \A j \in DOMAIN entries : j # k => entries'[j] = entries[j]
  BY <1>4, PutFields
<1>7. TypeOK'
  <2>1. \A j \in DOMAIN entries' : entries'[j] \in Entries
    BY <1>3, <1>6 DEF IInv, TypeOK
  <2>2. \A r \in DOMAIN requests' : requests'[r] \in Requests
    BY <1>2, <1>5 DEF IInv, TypeOK
  <2>3. inflight' \in [Keys -> 0 .. MaxRequests] /\ requestCounter' \in 0 .. MaxRequests
    BY <1>1, <1>4, Numbers
  <2>4. DOMAIN requests' \subseteq RequestIds
    BY <1>1, <1>5 DEF IInv, TypeOK, RequestIds
  <2> QED
    BY <1>6, <2>1, <2>2, <2>3, <2>4 DEF IInv, TypeOK
<1>8. ASSUME NEW r \in DOMAIN requests'
      PROVE  RequestOk(r)'
  <2>1. CASE r = n
    BY <1>1, <1>2, <1>5, <1>6, <2>1 DEF RequestOk
  <2>2. CASE r # n
    <3>1. RequestOk(r) /\ requests'[r] = requests[r] /\ r \in Nat
      BY <1>1, <1>5, <2>2 DEF IInv
    <3> QED
      BY <1>1, <1>6, <3>1 DEF RequestOk
  <2> QED
    BY <2>1, <2>2
<1>9. ASSUME NEW j \in DOMAIN entries'
      PROVE  EntryOk(j)'
  <2>1. CASE j # k
    <3>1. j \in DOMAIN entries /\ entries'[j] = entries[j] /\ inflight'[j] = inflight[j]
      BY <1>4, <1>6, <2>1, Numbers
    <3>2. entries[j] \in Entries /\ entries[j].active # n
      BY <1>1, <3>1 DEF IInv, EntryOk, Entries
    <3> QED
      BY <1>1, <1>5, <3>1, <3>2, EntryKept
  <2>2. CASE j = k
    <3>1. Pending(k)'
      BY <1>2, <1>3, <1>5, <1>6 DEF Pending
    <3>2. inflight'[k] = n
      BY <1>4, Numbers
    <3>3. writer[k] <= n /\ writer[k] \in Nat
      BY <1>1, Ensured, Numbers
    <3> QED
      BY <1>1, <1>2, <1>3, <1>5, <1>6, <2>2, <3>1, <3>2, <3>3 DEF EntryOk
  <2> QED
    BY <2>1, <2>2
<1>10. ASSUME NEW j \in Keys
       PROVE  ListedOk(j)'
  <2>1. ListedOk(j) /\ writer[j] \in Nat
    BY Numbers DEF IInv
  <2>2. CASE j = k
    BY <1>1, <1>2, <1>4, <1>5, <1>6, <2>1, <2>2, Numbers DEF ListedOk
  <2>3. CASE j # k
    BY <1>1, <1>4, <1>5, <1>6, <2>1, <2>3, Numbers DEF ListedOk
  <2> QED
    BY <2>2, <2>3
<1> QED
  BY <1>7, <1>8, <1>9, <1>10 DEF IInv

LEMMA ExecuteKeeps ==
  ASSUME IInv, NEW k \in Keys, NEW e \in Entries, NEW dedupe, NEW force,
         ExecuteQuery(k, e, dedupe, force),
         e.active = EnsureQueryEntry(k).active, e.status = EnsureQueryEntry(k).status,
         UNCHANGED <<server, writer>>, invalidatedAt' \in [Keys -> 0 .. MaxVersion]
  PROVE  IInv'
<1>1. CASE Start(k, e)
  BY <1>1, StartKeeps
<1>2. CASE Put(k, e) /\ UNCHANGED <<requestCounter, inflight, requests>>
  BY <1>2, PutKeeps
<1> QED
  BY <1>1, <1>2 DEF ExecuteQuery

\* The changes to an entry that keep its number and status.
LEMMA Touched ==
  ASSUME NEW e \in Entries, NEW ls \in SUBSET Observers
  PROVE  /\ [e EXCEPT !.queryFn = TRUE] \in Entries
         /\ [e EXCEPT !.queryFn = TRUE].active = e.active /\ [e EXCEPT !.queryFn = TRUE].status = e.status
         /\ [e EXCEPT !.queryFn = TRUE, !.memory = TRUE] \in Entries
         /\ [e EXCEPT !.queryFn = TRUE, !.memory = TRUE].active = e.active
         /\ [e EXCEPT !.queryFn = TRUE, !.memory = TRUE].status = e.status
         /\ \A age \in Ages : /\ [e EXCEPT !.age = age] \in Entries
                              /\ [e EXCEPT !.age = age].active = e.active
                              /\ [e EXCEPT !.age = age].status = e.status
         /\ [e EXCEPT !.timer = FALSE, !.listeners = ls] \in Entries
         /\ [e EXCEPT !.timer = FALSE, !.listeners = ls].active = e.active
         /\ [e EXCEPT !.timer = FALSE, !.listeners = ls].status = e.status
         /\ [e EXCEPT !.listeners = ls, !.timer = TRUE] \in Entries
         /\ [e EXCEPT !.listeners = ls, !.timer = TRUE].active = e.active
         /\ [e EXCEPT !.listeners = ls, !.timer = TRUE].status = e.status
         /\ [e EXCEPT !.listeners = ls] \in Entries
         /\ [e EXCEPT !.listeners = ls].active = e.active
         /\ [e EXCEPT !.listeners = ls].status = e.status
<1> QED
  BY DEF Entries

-----------------------------------------------------------------------------
(* The client's methods.                                                    *)

LEMMA FetchKeeps ==
  ASSUME IInv, NEW k \in Keys,
         (\E dedupe, force \in BOOLEAN : Fetch(k, dedupe, force)) \/ Prefetch(k)
  PROVE  IInv'
<1> DEFINE o == EnsureQueryEntry(k)
           e == [o EXCEPT !.queryFn = TRUE]
           g == [o EXCEPT !.queryFn = TRUE, !.memory = TRUE]
<1>1. o \in Entries
  BY Ensured
<1>2. /\ e \in Entries /\ e.active = o.active /\ e.status = o.status
      /\ g \in Entries /\ g.active = o.active /\ g.status = o.status
  BY <1>1, Touched
<1>3. /\ UNCHANGED <<server, writer>> /\ invalidatedAt' \in [Keys -> 0 .. MaxVersion]
      /\ \E x \in {e, g}, dedupe, force \in BOOLEAN : ExecuteQuery(k, x, dedupe, force)
  BY DEF Fetch, Prefetch, IInv, TypeOK
<1> HIDE DEF e, g
<1> QED
  BY <1>2, <1>3, ExecuteKeeps

LEMMA InvalidateKeeps ==
  ASSUME IInv, NEW k \in Keys, NEW refetch \in BOOLEAN, InvalidateQueries(k, refetch)
  PROVE  IInv'
<1> DEFINE e == [entries[k] EXCEPT !.age = "undefined"]
<1>1. /\ k \in DOMAIN entries /\ entries[k] \in Entries /\ EnsureQueryEntry(k) = entries[k]
      /\ UNCHANGED <<server, writer>>
  BY Ensured DEF InvalidateQueries, IInv, TypeOK
<1>2. e \in Entries /\ e.active = entries[k].active /\ e.status = entries[k].status
  BY <1>1, Touched DEF Ages
<1>3. invalidatedAt' \in [Keys -> 0 .. MaxVersion]
  BY DEF InvalidateQueries, IInv, TypeOK
<1>4. \/ ExecuteQuery(k, e, TRUE, TRUE)
      \/ Put(k, e) /\ UNCHANGED <<requestCounter, inflight, requests>>
  BY DEF InvalidateQueries
<1> HIDE DEF e
<1> QED
  BY <1>1, <1>2, <1>3, <1>4, ExecuteKeeps, PutKeeps

LEMMA TouchKeeps ==
  ASSUME IInv, NEW k \in Keys,
         Age(k) \/ (\E o \in Observers : SubscribeQuery(k, o) \/ Unsubscribe(k, o))
  PROVE  IInv'
<1> DEFINE o == EnsureQueryEntry(k)
<1>1. o \in Entries /\ o.listeners \subseteq Observers /\ (k \in DOMAIN entries => o = entries[k])
  BY Ensured DEF Entries
<1>2. /\ UNCHANGED <<requestCounter, inflight, requests, server, writer>>
      /\ invalidatedAt' \in [Keys -> 0 .. MaxVersion]
  BY DEF Age, SubscribeQuery, Unsubscribe, IInv, TypeOK
<1>3. PICK ls \in SUBSET Observers :
         \/ Put(k, [o EXCEPT !.age = "old"])
         \/ Put(k, [o EXCEPT !.timer = FALSE, !.listeners = ls])
         \/ Put(k, [o EXCEPT !.listeners = ls, !.timer = TRUE])
         \/ Put(k, [o EXCEPT !.listeners = ls])
  <2>1. CASE Age(k)
    BY <1>1, <2>1 DEF Age
  <2>2. ASSUME NEW x \in Observers, SubscribeQuery(k, x)
        PROVE  Put(k, [o EXCEPT !.timer = FALSE, !.listeners = o.listeners \cup {x}])
    BY <1>1, <2>2 DEF SubscribeQuery, Entries
  <2>3. ASSUME NEW x \in Observers, Unsubscribe(k, x)
        PROVE  \/ Put(k, [o EXCEPT !.listeners = o.listeners \ {x}, !.timer = TRUE])
               \/ Put(k, [o EXCEPT !.listeners = o.listeners \ {x}])
    BY <1>1, <2>3 DEF Unsubscribe
  <2> QED
    BY <1>1, <2>1, <2>2, <2>3
<1> HIDE DEF o
<1>4. PICK e \in Entries : Put(k, e) /\ e.active = o.active /\ e.status = o.status
  <2>1. CASE Put(k, [o EXCEPT !.age = "old"])
    <3> DEFINE e == [o EXCEPT !.age = "old"]
    <3>1. e \in Entries /\ e.active = o.active /\ e.status = o.status
      BY <1>1, Touched DEF Ages
    <3> QED
      BY <2>1, <3>1
  <2>2. CASE Put(k, [o EXCEPT !.timer = FALSE, !.listeners = ls])
    <3> DEFINE e == [o EXCEPT !.timer = FALSE, !.listeners = ls]
    <3>1. e \in Entries /\ e.active = o.active /\ e.status = o.status
      BY <1>1, Touched
    <3> QED
      BY <2>2, <3>1
  <2>3. CASE Put(k, [o EXCEPT !.listeners = ls, !.timer = TRUE])
    <3> DEFINE e == [o EXCEPT !.listeners = ls, !.timer = TRUE]
    <3>1. e \in Entries /\ e.active = o.active /\ e.status = o.status
      BY <1>1, Touched
    <3> QED
      BY <2>3, <3>1
  <2>4. CASE Put(k, [o EXCEPT !.listeners = ls])
    <3> DEFINE e == [o EXCEPT !.listeners = ls]
    <3>1. e \in Entries /\ e.active = o.active /\ e.status = o.status
      BY <1>1, Touched
    <3> QED
      BY <2>4, <3>1
  <2> QED
    BY <1>3, <2>1, <2>2, <2>3, <2>4
<1> QED
  BY <1>2, <1>4, PutKeeps DEF o

\* Manual data and resets take a number of their own.
LEMMA WriteKeeps ==
  ASSUME IInv, NEW k \in Keys, SetQueryData(k) \/ ResetQuery(k)
  PROVE  IInv'
<1> DEFINE n == NextRequestId
           o == EnsureQueryEntry(k)
<1>1. /\ n \in 1 .. MaxRequests /\ n \in Nat /\ requestCounter \in Nat /\ requestCounter' = n
      /\ requestCounter < n /\ n \notin DOMAIN requests
      /\ \A r \in DOMAIN requests : r \in 1 .. requestCounter
  BY Numbers DEF SetQueryData, ResetQuery
<1>2. o \in Entries
  BY Ensured
<1>3. PICK f \in Entries : /\ Put(k, f) /\ f.active = n /\ f.status # "loading"
  <2>1. CASE SetQueryData(k)
    <3> DEFINE f == [o EXCEPT !.active = n, !.data = Manual, !.status = "success", !.age = "fresh"]
    <3>1. f \in Entries /\ f.active = n /\ f.status = "success"
      <4>1. /\ n \in 0 .. MaxRequests /\ "success" \in Statuses /\ "fresh" \in Ages
            /\ Manual \in NoData .. Manual
        BY <1>1, Constants DEF Statuses, Ages
      <4> HIDE DEF n, o
      <4> QED
        BY <1>2, <4>1 DEF Entries
    <3>2. Put(k, f)
      BY <2>1 DEF SetQueryData
    <3> QED
      BY <3>1, <3>2
  <2>2. CASE ResetQuery(k)
    <3> DEFINE f == [o EXCEPT !.active = n, !.status = "idle", !.data = NoData,
                              !.age = "undefined", !.fetching = FALSE]
    <3>1. f \in Entries /\ f.active = n /\ f.status = "idle"
      <4>1. /\ n \in 0 .. MaxRequests /\ "idle" \in Statuses /\ "undefined" \in Ages
            /\ NoData \in NoData .. Manual
        BY <1>1, Constants DEF Statuses, Ages
      <4> HIDE DEF n, o
      <4> QED
        BY <1>2, <4>1 DEF Entries
    <3>2. Put(k, f)
      BY <2>2 DEF ResetQuery
    <3> QED
      BY <3>1, <3>2
  <2> QED
    BY <2>1, <2>2
<1>4. /\ writer' = [writer EXCEPT ![k] = n] /\ UNCHANGED <<requests, server, invalidatedAt>>
      /\ inflight' = inflight \/ inflight' = [inflight EXCEPT ![k] = NoRequest]
  BY DEF SetQueryData, ResetQuery
<1> HIDE DEF n, o
<1>5. /\ DOMAIN entries' = DOMAIN entries \cup {k} /\ entries'[k] = f
      /\ \A j \in DOMAIN entries : j # k => entries'[j] = entries[j]
  BY <1>3, PutFields
<1>6. /\ inflight \in [Keys -> 0 .. MaxRequests] /\ inflight' \in [Keys -> 0 .. MaxRequests]
      /\ writer \in [Keys -> 0 .. MaxRequests] /\ writer' \in [Keys -> 0 .. MaxRequests]
      /\ \A j \in Keys : inflight'[j] = inflight[j] \/ (j = k /\ inflight'[j] = NoRequest)
  <2>1. /\ inflight \in [Keys -> 0 .. MaxRequests] /\ writer \in [Keys -> 0 .. MaxRequests]
        /\ n \in 0 .. MaxRequests /\ NoRequest \in 0 .. MaxRequests
    BY <1>1, Numbers, Constants
  <2>2. writer' \in [Keys -> 0 .. MaxRequests]
    BY <1>4, <2>1
  <2>3. /\ inflight' \in [Keys -> 0 .. MaxRequests]
        /\ \A j \in Keys : inflight'[j] = inflight[j] \/ (j = k /\ inflight'[j] = NoRequest)
    BY <1>4, <2>1
  <2> QED
    BY <2>1, <2>2, <2>3
<1>7. TypeOK'
  <2>1. \A j \in DOMAIN entries' : entries'[j] \in Entries
    BY <1>3, <1>5 DEF IInv, TypeOK
  <2> QED
    BY <1>1, <1>4, <1>5, <1>6, <2>1 DEF IInv, TypeOK
<1>8. ASSUME NEW r \in DOMAIN requests'
      PROVE  RequestOk(r)'
  <2>1. RequestOk(r) /\ requests'[r] = requests[r] /\ r \in Nat
    BY <1>1, <1>4 DEF IInv
  <2> QED
    BY <1>1, <1>5, <2>1 DEF RequestOk
<1>9. ASSUME NEW j \in DOMAIN entries'
      PROVE  EntryOk(j)'
  <2>1. CASE j # k
    <3>1. /\ j \in DOMAIN entries /\ entries'[j] = entries[j] /\ inflight'[j] = inflight[j]
          /\ writer'[j] = writer[j] /\ entries[j] \in Entries
      BY <1>4, <1>5, <1>6, <2>1, Numbers DEF IInv, EntryOk
    <3> QED
      BY <1>1, <1>4, <3>1, EntryKept
  <2>2. CASE j = k
    <3>1. ~Pending(k)' /\ writer'[k] = n
      BY <1>1, <1>3, <1>4, <1>5, <1>6 DEF Pending
    <3> QED
      BY <1>1, <1>3, <1>4, <1>5, <2>2, <3>1 DEF EntryOk
  <2> QED
    BY <2>1, <2>2
<1>10. ASSUME NEW j \in Keys
       PROVE  ListedOk(j)'
  <2>1. ListedOk(j) /\ writer[j] \in Nat
    BY Numbers DEF IInv
  <2> QED
    BY <1>1, <1>4, <1>5, <1>6, <2>1 DEF ListedOk
<1> QED
  BY <1>7, <1>8, <1>9, <1>10 DEF IInv

-----------------------------------------------------------------------------
(* The requests.                                                            *)

\* A request tells the entry that calls it active, and no other.
LEMMA Addressed ==
  ASSUME IInv, NEW r \in DOMAIN requests
  PROVE  /\ \A j \in DOMAIN entries : entries[j].active = r => j = requests[r].key /\ Applies(r)
         /\ Applies(r) => /\ requests[r].key \in DOMAIN entries
                          /\ entries[requests[r].key].active = r
<1>1. RequestOk(r) /\ \A j \in DOMAIN entries : EntryOk(j)
  BY DEF IInv
<1>2. ASSUME NEW j \in DOMAIN entries, entries[j].active = r
      PROVE  j = requests[r].key /\ Applies(r)
  <2>1. requests[r].key = j /\ ~requests[r].orphan
    BY <1>1, <1>2 DEF EntryOk
  <2> QED
    BY <1>2, <2>1 DEF Applies
<1> QED
  BY <1>1, <1>2 DEF Applies, RequestOk

\* A request goes on: its entry keeps its number and status.
LEMMA GoesOn ==
  ASSUME IInv, NEW r \in DOMAIN requests, DOMAIN requests' = DOMAIN requests,
         \A s \in DOMAIN requests : s # r => requests'[s] = requests[s],
         requests'[r] \in Requests, requests'[r].key = requests[r].key,
         requests'[r].orphan <=> requests[r].orphan,
         requests[r].phase # "settled", requests'[r].phase # "settled",
         requests'[r].phase = "waiting" => requests'[r].attempt <= Retries,
         DOMAIN entries' = DOMAIN entries,
         \A j \in DOMAIN entries : /\ entries'[j] \in Entries
                                   /\ entries'[j].active = entries[j].active
                                   /\ entries'[j].status = entries[j].status,
         UNCHANGED <<requestCounter, inflight, server, writer, invalidatedAt>>
  PROVE  IInv'
<1>1. TypeOK'
  BY DEF IInv, TypeOK
<1>2. ASSUME NEW s \in DOMAIN requests'
      PROVE  RequestOk(s)'
  <2>1. RequestOk(s)
    BY DEF IInv
  <2>2. CASE s # r
    BY <2>1, <2>2 DEF RequestOk
  <2>3. CASE s = r
    BY <2>1, <2>3 DEF RequestOk
  <2> QED
    BY <2>2, <2>3
<1>3. ASSUME NEW j \in DOMAIN entries'
      PROVE  EntryOk(j)'
  <2> DEFINE a == entries[j].active
  <2>1. a \in DOMAIN requests =>
          /\ requests'[a].key = requests[a].key
          /\ requests'[a].orphan <=> requests[a].orphan
          /\ (requests'[a].phase = "settled") <=> (requests[a].phase = "settled")
    OBVIOUS
  <2> QED
    BY <2>1, EntryKept, Numbers
<1>4. ASSUME NEW j \in Keys
      PROVE  ListedOk(j)'
  <2>1. ListedOk(j)
    BY DEF IInv
  <2> QED
    BY <2>1 DEF ListedOk
<1> QED
  BY <1>1, <1>2, <1>3, <1>4 DEF IInv

\* A request is over: its entry shows how it ended.
LEMMA Settles ==
  ASSUME IInv, NEW r \in DOMAIN requests, DOMAIN requests' = DOMAIN requests,
         \A s \in DOMAIN requests : s # r => requests'[s] = requests[s],
         requests'[r] \in Requests, requests'[r].key = requests[r].key,
         requests'[r].orphan <=> requests[r].orphan, requests'[r].phase = "settled",
         DOMAIN entries' = DOMAIN entries, writer' \in [Keys -> 0 .. MaxRequests],
         \A j \in DOMAIN entries : entries[j].active = r =>
           /\ entries'[j] \in Entries /\ entries'[j].active = r /\ entries'[j].status # "loading"
           /\ entries'[j].status = "success" => writer'[j] = r
           /\ writer'[j] = r \/ writer'[j] = writer[j],
         \A j \in Keys :
           \/ j \in DOMAIN entries /\ entries[j].active = r
           \/ (j \in DOMAIN entries => entries'[j] = entries[j]) /\ writer'[j] = writer[j],
         UNCHANGED <<requestCounter, inflight, server, invalidatedAt>>
  PROVE  IInv'
<1>1. /\ \A j \in DOMAIN entries : EntryOk(j) /\ entries[j] \in Entries
      /\ DOMAIN entries \subseteq Keys
  BY DEF IInv, EntryOk, TypeOK
<1>2. TypeOK'
  <2>1. \A j \in DOMAIN entries' : entries'[j] \in Entries
    BY <1>1
  <2> QED
    BY <2>1 DEF IInv, TypeOK
<1>3. ASSUME NEW s \in DOMAIN requests'
      PROVE  RequestOk(s)'
  <2>1. RequestOk(s)
    BY DEF IInv
  <2>2. CASE s # r
    BY <2>1, <2>2 DEF RequestOk
  <2>3. CASE s = r
    BY <2>1, <2>3 DEF RequestOk
  <2> QED
    BY <2>2, <2>3
<1>4. ASSUME NEW j \in DOMAIN entries'
      PROVE  EntryOk(j)'
  <2>1. CASE entries[j].active # r
    <3>1. entries'[j] = entries[j] /\ writer'[j] = writer[j] /\ inflight'[j] = inflight[j]
      BY <1>1, <2>1
    <3>2. entries[j].active \in DOMAIN requests =>
            requests'[entries[j].active] = requests[entries[j].active]
      BY <2>1
    <3>3. entries'[j] \in Entries
      BY <1>1, <3>1
    <3> QED
      BY <3>1, <3>2, <3>3, EntryKept, Numbers
  <2>2. CASE entries[j].active = r
    <3>1. /\ entries'[j] \in Entries /\ entries'[j].active = r /\ entries'[j].status # "loading"
          /\ entries'[j].status = "success" => writer'[j] = r
          /\ writer'[j] = r \/ writer'[j] = writer[j]
      BY <2>2
    <3>2. ~Pending(j)'
      BY <3>1 DEF Pending
    <3>3. requests'[r].key = j /\ ~requests'[r].orphan /\ r <= requestCounter /\ writer[j] <= r
      BY <1>1, <2>2 DEF EntryOk
    <3>4. r \in Nat
      BY Numbers
    <3> QED
      BY <3>1, <3>2, <3>3, <3>4 DEF EntryOk
  <2> QED
    BY <2>1, <2>2
<1>5. ASSUME NEW j \in Keys
      PROVE  ListedOk(j)'
  <2>1. ListedOk(j) /\ r <= requestCounter
    BY Numbers DEF IInv, RequestOk
  <2>2. writer'[j] = writer[j] \/ (j \in DOMAIN entries /\ writer'[j] = r)
    OBVIOUS
  <2> QED
    BY <2>1, <2>2 DEF ListedOk
<1> QED
  BY <1>2, <1>3, <1>4, <1>5 DEF IInv

\* The changes to a request between two phases.
LEMMA PhaseSet ==
  ASSUME NEW q \in Requests, NEW p \in Phases
  PROVE  /\ [q EXCEPT !.phase = p] \in Requests /\ [q EXCEPT !.phase = p].phase = p
         /\ [q EXCEPT !.phase = p].key = q.key /\ [q EXCEPT !.phase = p].attempt = q.attempt
         /\ [q EXCEPT !.phase = p].orphan = q.orphan
<1>1. [q EXCEPT !.phase = p] \in Requests
  BY DEF Requests
<1> QED
  BY <1>1 DEF Requests

LEMMA ReadSet ==
  ASSUME NEW q \in Requests, NEW v \in NoData .. MaxVersion
  PROVE  /\ [q EXCEPT !.phase = "answered", !.read = v] \in Requests
         /\ [q EXCEPT !.phase = "answered", !.read = v].phase = "answered"
         /\ [q EXCEPT !.phase = "answered", !.read = v].key = q.key
         /\ [q EXCEPT !.phase = "answered", !.read = v].orphan = q.orphan
<1>1. [q EXCEPT !.phase = "answered", !.read = v] \in Requests
  BY DEF Requests, Phases
<1> QED
  BY <1>1 DEF Requests, Phases

LEMMA AnswerKeeps ==
  ASSUME IInv, NEW r \in DOMAIN requests, Answer(r) \/ Fail(r) \/ Backoff(r)
  PROVE  IInv'
<1>1. requests[r] \in Requests /\ requests[r].key \in Keys
  BY Numbers DEF Requests
<1>2. server[requests[r].key] \in NoData .. MaxVersion
  BY <1>1, Constants DEF IInv, TypeOK
<1>3. /\ "answered" \in Phases /\ "failed" \in Phases /\ "waiting" \in Phases
      /\ requests[r].phase \in {"asking", "failed"}
      /\ UNCHANGED <<entries, requestCounter, inflight, server, writer, invalidatedAt>>
  BY DEF Phases, Answer, Fail, Backoff
<1>4. PICK q : /\ DOMAIN requests' = DOMAIN requests /\ requests'[r] = q
               /\ \A s \in DOMAIN requests : s # r => requests'[s] = requests[s]
               /\ \/ q = [requests[r] EXCEPT !.phase = "answered",
                                             !.read = server[requests[r].key]]
                  \/ q = [requests[r] EXCEPT !.phase = "failed"]
                  \/ q = [requests[r] EXCEPT !.phase = "waiting"] /\ requests[r].attempt <= Retries
  BY DEF Answer, Fail, Backoff, SetPhase
<1>5. /\ q \in Requests /\ q.key = requests[r].key /\ q.orphan = requests[r].orphan
      /\ q.phase \in {"answered", "failed", "waiting"}
      /\ q.phase = "waiting" => q.attempt <= Retries
  <2> DEFINE v == server[requests[r].key]
             o == requests[r]
  <2>1. CASE q = [o EXCEPT !.phase = "answered", !.read = v]
    <3>1. o \in Requests /\ v \in NoData .. MaxVersion
      BY <1>1, <1>2
    <3> HIDE DEF o, v
    <3>2. q \in Requests /\ q.key = o.key /\ q.orphan = o.orphan /\ q.phase = "answered"
      BY <2>1, <3>1, ReadSet
    <3> QED
      BY <3>2 DEF o
  <2>2. ASSUME NEW p \in {"failed", "waiting"}, q = [o EXCEPT !.phase = p],
               p = "waiting" => o.attempt <= Retries
        PROVE  /\ q \in Requests /\ q.key = o.key /\ q.orphan = o.orphan /\ q.phase = p
               /\ q.phase = "waiting" => q.attempt <= Retries
    <3>1. o \in Requests /\ p \in Phases
      BY <1>1, <1>3
    <3> HIDE DEF o
    <3>2. /\ q \in Requests /\ q.key = o.key /\ q.orphan = o.orphan /\ q.phase = p
          /\ q.attempt = o.attempt
      BY <2>2, <3>1, PhaseSet
    <3> QED
      BY <2>2, <3>2
  <2> QED
    BY <1>4, <2>1, <2>2
<1>7. \A j \in DOMAIN entries : entries[j] \in Entries
  BY DEF IInv, TypeOK
<1> QED
  BY <1>3, <1>4, <1>5, <1>7, GoesOn

LEMMA AttemptSet ==
  ASSUME NEW q \in Requests, q.attempt <= Retries
  PROVE  /\ [q EXCEPT !.phase = "asking", !.attempt = @ + 1] \in Requests
         /\ [q EXCEPT !.phase = "asking", !.attempt = @ + 1].phase = "asking"
         /\ [q EXCEPT !.phase = "asking", !.attempt = @ + 1].key = q.key
         /\ [q EXCEPT !.phase = "asking", !.attempt = @ + 1].orphan = q.orphan
<1>1. [q EXCEPT !.phase = "asking", !.attempt = @ + 1] \in Requests
  <2> DEFINE n == q.attempt + 1
  <2>1. n \in 1 .. Retries + 1
    BY Constants DEF Requests
  <2> HIDE DEF n
  <2>2. [q EXCEPT !.phase = "asking", !.attempt = n] \in Requests
    BY <2>1 DEF Requests, Phases
  <2> QED
    BY <2>2 DEF n
<1> QED
  BY <1>1 DEF Requests

LEMMA RetryKeeps ==
  ASSUME IInv, NEW r \in DOMAIN requests, Retry(r)
  PROVE  IInv'
<1> DEFINE o == requests[r]
           q == [o EXCEPT !.phase = "asking", !.attempt = @ + 1]
<1>1. /\ o \in Requests /\ o.phase = "waiting"
      /\ UNCHANGED <<requestCounter, inflight, server, writer, invalidatedAt>>
  BY Numbers DEF Retry
<1>2. o.attempt <= Retries
  BY <1>1 DEF IInv, RequestOk
<1>3. /\ DOMAIN requests' = DOMAIN requests /\ requests'[r] = q
      /\ \A s \in DOMAIN requests : s # r => requests'[s] = requests[s]
  BY DEF Retry
<1>4. /\ q \in Requests /\ q.phase = "asking" /\ q.key = o.key /\ q.orphan = o.orphan
  <2> HIDE DEF o
  <2> QED
    BY <1>1, <1>2, AttemptSet
<1>5. \A j \in DOMAIN entries : entries[j] \in Entries
  BY DEF IInv, TypeOK
<1>6. /\ DOMAIN entries' = DOMAIN entries
      /\ \A j \in DOMAIN entries : \/ entries'[j] = entries[j]
                                   \/ entries'[j] = [entries[j] EXCEPT !.fetching = TRUE]
  BY DEF Retry
<1>7. ASSUME NEW e \in Entries
      PROVE  /\ [e EXCEPT !.fetching = TRUE] \in Entries
             /\ [e EXCEPT !.fetching = TRUE].active = e.active
             /\ [e EXCEPT !.fetching = TRUE].status = e.status
  BY DEF Entries
<1>8. ASSUME NEW j \in DOMAIN entries
      PROVE  /\ entries'[j] \in Entries /\ entries'[j].active = entries[j].active
             /\ entries'[j].status = entries[j].status
  BY <1>5, <1>6, <1>7
<1> HIDE DEF q
<1> QED
  BY <1>1, <1>3, <1>4, <1>6, <1>8, GoesOn

LEMMA SucceedKeeps ==
  ASSUME IInv, NEW r \in DOMAIN requests, Succeed(r)
  PROVE  /\ IInv'
         /\ \A j \in Keys : writer[j] \in Nat /\ writer'[j] \in Nat /\ writer'[j] >= writer[j]
<1> DEFINE o == requests[r]
           q == [o EXCEPT !.phase = "settled"]
           k == o.key
           e == entries[k]
           f == [e EXCEPT !.data = o.read, !.status = "success", !.age = "fresh",
                          !.fetching = FALSE]
<1>1. /\ o \in Requests /\ k \in Keys
      /\ UNCHANGED <<requestCounter, inflight, server, invalidatedAt>>
  BY Numbers DEF Succeed, Requests
<1>2. q \in Requests /\ q.phase = "settled" /\ q.key = o.key /\ q.orphan = o.orphan
  <2> HIDE DEF o
  <2> QED
    BY <1>1, PhaseSet DEF Phases
<1>3. /\ DOMAIN requests' = DOMAIN requests /\ requests'[r] = q
      /\ \A s \in DOMAIN requests : s # r => requests'[s] = requests[s]
  BY DEF Succeed, SetPhase
<1>4. /\ \A j \in DOMAIN entries : entries[j].active = r => j = k /\ Applies(r)
      /\ Applies(r) => k \in DOMAIN entries /\ e.active = r
  BY Addressed
<1>5. /\ writer \in [Keys -> 0 .. MaxRequests] /\ r \in 0 .. MaxRequests
      /\ DOMAIN entries \subseteq Keys
  BY Constants, Numbers
<1>6. CASE Applies(r)
  <2>1. /\ e \in Entries /\ writer[k] <= r
    BY <1>4, <1>6 DEF IInv, EntryOk
  <2>2. f \in Entries /\ f.active = e.active /\ f.status = "success"
    <3>1. o.read \in NoData .. Manual
      BY <1>1, Constants DEF Requests
    <3> DEFINE v == o.read
    <3> HIDE DEF v, e
    <3> QED
      BY <2>1, <3>1 DEF Entries, Statuses, Ages, v
  <2>3. /\ DOMAIN entries' = DOMAIN entries /\ entries'[k] = f
        /\ \A j \in DOMAIN entries : j # k => entries'[j] = entries[j]
        /\ writer' = [writer EXCEPT ![k] = r]
    BY <1>4, <1>6 DEF Succeed
  <2> HIDE DEF f, q
  <2>4. /\ writer' \in [Keys -> 0 .. MaxRequests] /\ writer'[k] = r
        /\ \A j \in Keys : j # k => writer'[j] = writer[j]
    BY <1>1, <1>5, <2>3
  <2>5. \A j \in DOMAIN entries : entries[j].active = r =>
           /\ entries'[j] \in Entries /\ entries'[j].active = r /\ entries'[j].status # "loading"
           /\ entries'[j].status = "success" => writer'[j] = r
           /\ writer'[j] = r \/ writer'[j] = writer[j]
    BY <1>4, <1>6, <2>2, <2>3, <2>4
  <2>6. \A j \in Keys :
           \/ j \in DOMAIN entries /\ entries[j].active = r
           \/ (j \in DOMAIN entries => entries'[j] = entries[j]) /\ writer'[j] = writer[j]
    BY <1>4, <1>6, <2>3, <2>4
  <2>7. IInv'
    BY <1>1, <1>2, <1>3, <2>3, <2>4, <2>5, <2>6, Settles
  <2> QED
    BY <1>5, <2>1, <2>4, <2>7
<1>7. CASE ~Applies(r)
  <2>1. UNCHANGED <<entries, writer>>
    BY <1>7 DEF Succeed
  <2> HIDE DEF q
  <2>2. IInv'
    BY <1>1, <1>2, <1>3, <1>4, <1>5, <1>7, <2>1, Settles
  <2> QED
    BY <1>5, <2>1, <2>2
<1> QED
  BY <1>6, <1>7

LEMMA GiveUpKeeps ==
  ASSUME IInv, NEW r \in DOMAIN requests, GiveUp(r)
  PROVE  IInv'
<1> DEFINE o == requests[r]
           q == [o EXCEPT !.phase = "settled"]
           k == o.key
           e == entries[k]
           f == [e EXCEPT !.status = "error", !.age = "fresh", !.fetching = FALSE]
<1>1. /\ o \in Requests /\ k \in Keys
      /\ UNCHANGED <<requestCounter, inflight, server, writer, invalidatedAt>>
  BY Numbers DEF GiveUp, Requests
<1>2. q \in Requests /\ q.phase = "settled" /\ q.key = o.key /\ q.orphan = o.orphan
  <2> HIDE DEF o
  <2> QED
    BY <1>1, PhaseSet DEF Phases
<1>3. /\ DOMAIN requests' = DOMAIN requests /\ requests'[r] = q
      /\ \A s \in DOMAIN requests : s # r => requests'[s] = requests[s]
  BY DEF GiveUp, SetPhase
<1>4. /\ \A j \in DOMAIN entries : entries[j].active = r => j = k /\ Applies(r)
      /\ Applies(r) => k \in DOMAIN entries /\ e.active = r
  BY Addressed
<1>5. /\ writer \in [Keys -> 0 .. MaxRequests] /\ DOMAIN entries \subseteq Keys
  BY Numbers
<1>6. CASE Applies(r)
  <2>1. e \in Entries
    BY <1>4, <1>6 DEF IInv, EntryOk
  <2>2. f \in Entries /\ f.active = e.active /\ f.status = "error"
    <3> HIDE DEF e
    <3> QED
      BY <2>1 DEF Entries, Statuses, Ages
  <2>3. /\ DOMAIN entries' = DOMAIN entries /\ entries'[k] = f
        /\ \A j \in DOMAIN entries : j # k => entries'[j] = entries[j]
    BY <1>4, <1>6 DEF GiveUp
  <2> HIDE DEF f, q
  <2>4. \A j \in DOMAIN entries : entries[j].active = r =>
           /\ entries'[j] \in Entries /\ entries'[j].active = r /\ entries'[j].status # "loading"
           /\ entries'[j].status # "success"
    BY <1>4, <1>6, <2>2, <2>3
  <2>5. \A j \in Keys :
           \/ j \in DOMAIN entries /\ entries[j].active = r
           \/ (j \in DOMAIN entries => entries'[j] = entries[j])
    BY <1>4, <1>6, <2>3
  <2> QED
    BY <1>1, <1>2, <1>3, <1>5, <2>3, <2>4, <2>5, Settles
<1>7. CASE ~Applies(r)
  <2>1. UNCHANGED <<entries, writer>>
    BY <1>7 DEF GiveUp
  <2> HIDE DEF q
  <2> QED
    BY <1>1, <1>2, <1>3, <1>4, <1>5, <1>7, <2>1, Settles
<1> QED
  BY <1>6, <1>7

\* The .finally takes the request, which is settled, from both tables.
LEMMA FinishKeeps ==
  ASSUME IInv, NEW r \in DOMAIN requests, Finish(r)
  PROVE  IInv'
<1>1. /\ DOMAIN requests' = DOMAIN requests \ {r}
      /\ \A s \in DOMAIN requests' : requests'[s] = requests[s]
      /\ UNCHANGED <<entries, requestCounter, server, writer, invalidatedAt>>
      /\ requests[r].phase = "settled"
  BY DEF Finish
<1>2. /\ inflight' \in [Keys -> 0 .. MaxRequests]
      /\ inflight'[requests[r].key] # r
      /\ \A j \in Keys : \/ inflight'[j] = inflight[j]
                         \/ inflight[j] = r /\ inflight'[j] = NoRequest
  <2>1. requests[r].key \in Keys /\ r # NoRequest
    BY Numbers DEF Requests
  <2> QED
    BY <2>1, Numbers, Constants DEF Finish, Unlist
<1>3. TypeOK'
  BY <1>1, <1>2 DEF IInv, TypeOK
<1>4. ASSUME NEW s \in DOMAIN requests'
      PROVE  RequestOk(s)'
  BY <1>1 DEF IInv, RequestOk
<1>5. ASSUME NEW j \in DOMAIN entries'
      PROVE  EntryOk(j)'
  <2>1. EntryOk(j) /\ entries'[j] = entries[j] /\ j \in Keys
    BY <1>1, Numbers DEF IInv
  <2>2. Pending(j)' <=> Pending(j)
    BY <1>1, <2>1 DEF Pending
  <2>3. Pending(j) => inflight'[j] = entries[j].active
    <3>1. SUFFICES ASSUME Pending(j)
                   PROVE  inflight'[j] = entries[j].active
      OBVIOUS
    <3>2. inflight[j] = entries[j].active /\ entries[j].active # r
      BY <1>1, <2>1, <3>1 DEF EntryOk, Pending
    <3> QED
      BY <1>2, <2>1, <3>2
  <2> QED
    BY <1>1, <2>1, <2>2, <2>3 DEF EntryOk
<1>6. ASSUME NEW j \in Keys
      PROVE  ListedOk(j)'
  <2>1. ListedOk(j)
    BY DEF IInv
  <2>2. inflight'[j] # NoRequest => inflight'[j] = inflight[j] /\ inflight'[j] # r
    BY <1>2, <2>1 DEF ListedOk
  <2> QED
    BY <1>1, <2>1, <2>2 DEF ListedOk
<1> QED
  BY <1>3, <1>4, <1>5, <1>6 DEF IInv

\* The timer takes the entry and leaves its requests to nobody.
LEMMA GcKeeps ==
  ASSUME IInv, NEW k \in Keys, Gc(k)
  PROVE  IInv'
<1>1. /\ DOMAIN entries' = DOMAIN entries \ {k}
      /\ \A j \in DOMAIN entries' : entries'[j] = entries[j]
      /\ UNCHANGED <<requestCounter, server>>
  BY DEF Gc
<1>2. /\ inflight' \in [Keys -> 0 .. MaxRequests] /\ inflight'[k] = NoRequest
      /\ writer' \in [Keys -> 0 .. MaxRequests] /\ writer'[k] = NoRequest
      /\ \A j \in Keys : j # k => inflight'[j] = inflight[j] /\ writer'[j] = writer[j]
  BY Numbers, Constants DEF Gc
<1>3. invalidatedAt' \in [Keys -> 0 .. MaxVersion]
  BY Constants DEF Gc, IInv, TypeOK
<1>4. /\ DOMAIN requests' = DOMAIN requests
      /\ \A r \in DOMAIN requests : requests[r].key # k => requests'[r] = requests[r]
      /\ \A r \in DOMAIN requests :
           requests[r].key = k => requests'[r] = [requests[r] EXCEPT !.orphan = TRUE]
  BY DEF Gc
<1>5. ASSUME NEW q \in Requests
      PROVE  /\ [q EXCEPT !.orphan = TRUE] \in Requests
             /\ [q EXCEPT !.orphan = TRUE].phase = q.phase
             /\ [q EXCEPT !.orphan = TRUE].attempt = q.attempt
             /\ [q EXCEPT !.orphan = TRUE].orphan
  BY DEF Requests
<1>6. \A r \in DOMAIN requests : requests'[r] \in Requests
  BY <1>4, <1>5, Numbers
<1>7. TypeOK'
  BY <1>1, <1>2, <1>3, <1>4, <1>6 DEF IInv, TypeOK
<1>8. ASSUME NEW r \in DOMAIN requests'
      PROVE  RequestOk(r)'
  <2>1. RequestOk(r) /\ requests[r] \in Requests
    BY <1>4 DEF IInv, RequestOk
  <2>2. CASE requests[r].key # k
    BY <1>1, <1>4, <1>6, <2>1, <2>2 DEF RequestOk
  <2>3. CASE requests[r].key = k
    BY <1>1, <1>4, <1>5, <1>6, <2>1, <2>3 DEF RequestOk
  <2> QED
    BY <2>2, <2>3
<1>9. ASSUME NEW j \in DOMAIN entries'
      PROVE  EntryOk(j)'
  <2>1. /\ j \in DOMAIN entries /\ j # k /\ entries'[j] = entries[j] /\ EntryOk(j)
        /\ entries[j] \in Entries /\ j \in Keys
    BY <1>1, Numbers DEF IInv, EntryOk
  <2>2. entries[j].active \in DOMAIN requests =>
          requests'[entries[j].active] = requests[entries[j].active]
    BY <1>4, <2>1 DEF EntryOk
  <2> QED
    BY <1>1, <1>2, <1>4, <2>1, <2>2, EntryKept, Numbers
<1>10. ASSUME NEW j \in Keys
       PROVE  ListedOk(j)'
  <2>1. ListedOk(j) /\ requestCounter \in Nat
    BY Numbers DEF IInv
  <2>2. CASE j = k
    BY <1>1, <1>2, <2>1, <2>2 DEF ListedOk, NoRequest
  <2>3. CASE j # k
    BY <1>1, <1>2, <1>4, <2>1, <2>3 DEF ListedOk
  <2> QED
    BY <2>2, <2>3
<1> QED
  BY <1>7, <1>8, <1>9, <1>10 DEF IInv

LEMMA ServerWriteKeeps ==
  ASSUME IInv, NEW k \in Keys, ServerWrite(k)
  PROVE  IInv'
<1>1. TypeOK'
  BY Constants DEF ServerWrite, IInv, TypeOK
<1>2. UNCHANGED <<entries, requestCounter, inflight, requests, writer>>
  BY DEF ServerWrite
<1> QED
  BY <1>1, <1>2 DEF IInv, RequestOk, EntryOk, ListedOk, Pending

-----------------------------------------------------------------------------
(* The specification.                                                       *)

LEMMA InitIInv == Init => IInv
<1> SUFFICES ASSUME Init PROVE IInv
  OBVIOUS
<1>1. /\ DOMAIN entries = {} /\ DOMAIN requests = {} /\ 0 \in 0 .. MaxRequests
      /\ 0 \in 0 .. MaxVersion
  BY Constants DEF Init
<1> QED
  BY <1>1 DEF Init, IInv, TypeOK, ListedOk, NoRequest

\* Which lemma a step belongs to.
LEMMA Kinds ==
  ASSUME Next
  PROVE  \/ \E k \in Keys :
              \/ (\E dedupe, force \in BOOLEAN : Fetch(k, dedupe, force)) \/ Prefetch(k)
              \/ \E refetch \in BOOLEAN : InvalidateQueries(k, refetch)
              \/ SetQueryData(k) \/ ResetQuery(k)
              \/ Age(k) \/ (\E o \in Observers : SubscribeQuery(k, o) \/ Unsubscribe(k, o))
              \/ Gc(k)
              \/ ServerWrite(k)
         \/ \E r \in DOMAIN requests : \/ Answer(r) \/ Fail(r) \/ Backoff(r)
                                       \/ Retry(r)
                                       \/ Succeed(r)
                                       \/ GiveUp(r)
                                       \/ Finish(r)
<1> QED
  BY DEF Next, Progress

LEMMA NextIInv == IInv /\ [Next]_vars => IInv'
<1> SUFFICES ASSUME IInv, [Next]_vars PROVE IInv'
  OBVIOUS
<1>1. CASE UNCHANGED vars
  BY <1>1 DEF vars, IInv, TypeOK, RequestOk, EntryOk, ListedOk, Pending
<1>2. CASE Next
  <2>1. ASSUME NEW k \in Keys,
               \/ (\E dedupe, force \in BOOLEAN : Fetch(k, dedupe, force)) \/ Prefetch(k)
               \/ \E refetch \in BOOLEAN : InvalidateQueries(k, refetch)
               \/ SetQueryData(k) \/ ResetQuery(k)
               \/ Age(k) \/ (\E o \in Observers : SubscribeQuery(k, o) \/ Unsubscribe(k, o))
               \/ Gc(k)
               \/ ServerWrite(k)
        PROVE  IInv'
    BY <2>1, FetchKeeps, InvalidateKeeps, WriteKeeps, TouchKeeps, GcKeeps, ServerWriteKeeps
  <2>2. ASSUME NEW r \in DOMAIN requests,
               \/ Answer(r) \/ Fail(r) \/ Backoff(r) \/ Retry(r) \/ Succeed(r)
               \/ GiveUp(r) \/ Finish(r)
        PROVE  IInv'
    BY <2>2, AnswerKeeps, RetryKeeps, SucceedKeeps, GiveUpKeeps, FinishKeeps
  <2> QED
    BY <1>2, <2>1, <2>2, Kinds
<1> QED
  BY <1>1, <1>2

\* Only writes, resets, answers and the reclaiming timer change what an entry
\* shows; the first take a higher number than any before.
LEMMA NextNewest ==
  ASSUME IInv, [Next]_vars, NEW k \in DOMAIN entries \cap DOMAIN entries'
  PROVE  writer'[k] >= writer[k]
<1>1. /\ writer \in [Keys -> 0 .. MaxRequests] /\ k \in Keys /\ writer[k] <= requestCounter
      /\ requestCounter \in Nat /\ requestCounter < NextRequestId /\ NextRequestId \in Nat
      /\ writer[k] \in Nat
  BY Numbers DEF IInv, ListedOk
<1>2. CASE writer' = writer
  BY <1>1, <1>2
<1>3. ASSUME NEW j \in Keys, SetQueryData(j) \/ ResetQuery(j)
      PROVE  writer'[k] >= writer[k]
  <2>1. writer' = [writer EXCEPT ![j] = NextRequestId]
    BY <1>3 DEF SetQueryData, ResetQuery
  <2>2. writer'[k] = NextRequestId \/ writer'[k] = writer[k]
    BY <1>1, <2>1
  <2> QED
    BY <1>1, <2>2
<1>4. ASSUME NEW r \in DOMAIN requests, Succeed(r)
      PROVE  writer'[k] >= writer[k]
  BY <1>1, <1>4, SucceedKeeps
<1>5. ASSUME NEW j \in Keys, Gc(j)
      PROVE  writer'[k] >= writer[k]
  <2>1. k # j /\ writer' = [writer EXCEPT ![j] = NoRequest]
    BY <1>5 DEF Gc
  <2> QED
    BY <1>1, <2>1
<1>6. CASE UNCHANGED vars
  BY <1>2, <1>6 DEF vars
<1>7. ASSUME NEW r \in DOMAIN requests,
             Answer(r) \/ Fail(r) \/ Backoff(r) \/ Retry(r) \/ GiveUp(r) \/ Finish(r)
      PROVE  writer' = writer
  BY <1>7 DEF Answer, Fail, Backoff, Retry, GiveUp, Finish
<1>8. ASSUME NEW j \in Keys,
             \/ (\E dedupe, force \in BOOLEAN : Fetch(j, dedupe, force)) \/ Prefetch(j)
             \/ \E refetch \in BOOLEAN : InvalidateQueries(j, refetch)
             \/ Age(j) \/ (\E o \in Observers : SubscribeQuery(j, o) \/ Unsubscribe(j, o))
             \/ ServerWrite(j)
      PROVE  writer' = writer
  BY <1>8 DEF Fetch, Prefetch, InvalidateQueries, Age, SubscribeQuery, Unsubscribe, ServerWrite
<1> QED
  BY <1>2, <1>3, <1>4, <1>5, <1>6, <1>7, <1>8, Kinds

\* The inductive invariant holds in every reachable state, for every instance.
THEOREM Invariance == Spec => []IInv
<1> QED
  BY InitIInv, NextIInv, PTL DEF Spec

\* The entries, requests and numbers of query-client.ts keep their types, and
\* runWithRetry makes no more attempts than retry allows.
THEOREM TypeCorrect == Spec => []TypeOK
<1>1. IInv => TypeOK
  BY DEF IInv
<1> QED
  BY <1>1, Invariance, PTL

\* No entry is left loading without a request that can end it, and none keeps
\* an answer that a newer request or write has replaced: the checks of
\* activeRequestId in executeQuery lose no answer and admit no stale one.
THEOREM NewestShown == Spec => []NewestIsShown
<1>1. IInv => NewestIsShown
  BY DEF IInv, EntryOk, NewestIsShown
<1> QED
  BY <1>1, Invariance, PTL

\* inflightQueries holds the request an entry waits for, and never one that is
\* over or belongs to a reclaimed entry.
THEOREM JoinPending == Spec => []CallersJoinPending
<1>1. IInv => CallersJoinPending
  BY DEF IInv, EntryOk, ListedOk, CallersJoinPending, PendingIsListed, ListedIsRunning
<1> QED
  BY <1>1, Invariance, PTL

\* The request or write an entry shows only ever gives way to a newer one.
THEOREM Newest == Spec => NewestWins
<1>1. IInv /\ [Next]_vars
        => [\A k \in DOMAIN entries \cap DOMAIN entries' : writer'[k] >= writer[k]]_vars
  BY NextNewest
<1> QED
  BY <1>1, Invariance, PTL DEF Spec, NewestWins

=============================================================================
