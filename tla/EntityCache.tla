---------------------------- MODULE EntityCache ----------------------------
(***************************************************************************)
(* Normalized pages and mutations of the query client: the entity graph    *)
(* of src/react/query-client.ts, use-athena-mutation.ts and                *)
(* use-mutation.ts.                                                        *)
(*                                                                         *)
(* Pages of one model and one context are fetched and hold rows; the rows  *)
(* of a page with a full projection live in the graph, and the page is put *)
(* together from them.  A mutation may show a draft first, is executed by  *)
(* the server, and is reconciled with every page; if it failed, the cache  *)
(* is put back to what it was before the draft.  All pages are mounted.    *)
(*                                                                         *)
(* A row is its version on the server, and the mutation whose draft it     *)
(* shows, if any.  An entry's requests are followed as in QueryCache, of   *)
(* which only their sharing and their being superseded matter here.        *)
(***************************************************************************)
EXTENDS Integers, FiniteSets

CONSTANTS
    Pages,      \* query keys
    Plain,      \* of which: pages with a partial projection
    Watched,    \* of which: pages that filter or order by the updated column
    Rows,       \* primary keys
    Mutations,  \* calls of a mutation hook
    Operations, \* what they do
    Drafting,   \* whether they show drafts
    MaxFetches, \* bound: fetches by hooks, besides those of invalidations
    NoMutation, NoNode, NoData, NoPage

ASSUME EntityCacheAssumption ==
    /\ Plain \subseteq Pages /\ Watched \subseteq Pages
    /\ Operations \subseteq {"update", "delete"} /\ Drafting \subseteq BOOLEAN
    /\ MaxFetches \in Nat /\ NoMutation \notin Mutations
    /\ NoNode \notin [version : Nat, draft : Mutations \cup {NoMutation}]
    /\ \A S \in SUBSET Rows : NoPage # S
    /\ \A S \in SUBSET Rows : NoData \notin [S -> [version : Nat, draft : Mutations \cup {NoMutation}]]

VARIABLES
    server,  \* version of each row in the database
    gone,    \* rows deleted there
    cache,   \* nodes of the graph, pages, and their requests in flight
    call,    \* the mutations
    fetches, \* fetches by hooks so far
    confirmed, removed,  \* history: what the cache was told: newest versions, deletions
    behind,  \* history: rows of which something older than that was put back or left
    mixed    \* history: drafts of two mutations were shown at the same time

history == <<confirmed, removed, behind, mixed>>
vars == <<server, gone, cache, call, fetches, history>>

Version(v) == [version |-> v, draft |-> NoMutation]
NoFlight == [phase |-> "none", live |-> FALSE, rows |-> NoData]
Sent == [phase |-> "sent", live |-> TRUE, rows |-> NoData]
NoCall == [phase |-> "idle"]

\* Some pages have been loaded, the others never asked for.
Init ==
    /\ server = [r \in Rows |-> 0] /\ gone = {}
    /\ \E loaded \in SUBSET Pages :
       cache = [nodes |-> [r \in Rows |-> IF loaded \ Plain = {} THEN NoNode ELSE Version(0)],
                pages |-> [p \in Pages |->
                   IF p \notin loaded THEN [data |-> NoData, page |-> NoPage, refs |-> {}]
                   ELSE [data |-> [r \in Rows |-> Version(0)],
                         page |-> IF p \in Plain THEN NoPage ELSE Rows,
                         refs |-> IF p \in Plain THEN {} ELSE Rows]],
                flight |-> [p \in Pages |-> NoFlight]]
    /\ call = [m \in Mutations |-> NoCall]
    /\ fetches = 0
    /\ confirmed = [r \in Rows |-> 0] /\ removed = {} /\ behind = {} /\ mixed = FALSE

-----------------------------------------------------------------------------
(* The cache.                                                               *)

Rowed(data) == IF data = NoData THEN {} ELSE DOMAIN data
Shows(e, r) == r \in Rowed(e.data)
Lists(e, r) == r \in e.refs \/ Shows(e, r)

\* materializeEntry: a normalized page is put together from the graph.
Materialized(e, nodes) ==
    IF e.page = NoPage THEN e.data
    ELSE [r \in {x \in e.page : nodes[x] # NoNode} |-> nodes[r]]

\* setQueryData: what is on the page is now its own, and the request in flight
\* is superseded, though it stays listed.
Bumped(f) == [f EXCEPT !.live = FALSE]

\* executeQuery by an invalidation: a request in flight is joined.
Refetched(f) == IF f.phase = "none" THEN Sent ELSE f

\* patchQueryEntryEntity
Patched(e, nodes, r) ==
    IF e.page # NoPage THEN [e EXCEPT !.data = Materialized(e, nodes)]
    ELSE [e EXCEPT !.data = [x \in DOMAIN @ |-> IF x = r THEN nodes[r] ELSE @[x]]]

Known(c, p) == c.pages[p].data # NoData \/ c.flight[p].phase # "none"
\* Mutant of WriteEntity: only normalized pages are patched.
WriteReferenced(c, r, row) ==
    LET nodes == [c.nodes EXCEPT ![r] = row] IN
    [nodes |-> nodes,
     pages |-> [p \in Pages |-> IF p \notin Watched /\ r \in c.pages[p].refs
                                THEN Patched(c.pages[p], nodes, r) ELSE c.pages[p]],
     flight |-> [p \in Pages |-> IF p \in Watched /\ Known(c, p) THEN Refetched(c.flight[p])
                                 ELSE c.flight[p]]]

\* writeEntity: the graph, and every page that lists the row or, if its filter
\* or order depends on what was changed, may have to list it now.
WriteEntity(c, r, row) ==
    LET nodes == [c.nodes EXCEPT ![r] = row]
        hit(p) == p \notin Watched /\ Lists(c.pages[p], r) /\ c.pages[p].data # NoData
    IN [nodes |-> nodes,
        pages |-> [p \in Pages |-> IF hit(p) THEN Patched(c.pages[p], nodes, r) ELSE c.pages[p]],
        flight |-> [p \in Pages |->
            IF p \in Watched /\ Known(c, p) THEN Refetched(c.flight[p])
            ELSE IF hit(p) /\ c.pages[p].page = NoPage THEN Bumped(c.flight[p])
            ELSE c.flight[p]]]

\* removeResultRows
Less(data, r) == [x \in DOMAIN data \ {r} |-> data[x]]

\* Mutant of Without: the page still lists the row, and others, by reference.
WithoutKeepsPage(c, ps, r) ==
    [nodes |-> c.nodes,
     pages |-> [p \in Pages |-> IF p \notin ps THEN c.pages[p]
                  ELSE [c.pages[p] EXCEPT !.data = Less(@, r)]],
     flight |-> [p \in Pages |-> IF p \in ps THEN Bumped(c.flight[p]) ELSE c.flight[p]]]

\* setQueryData with the rows that are left; removeEntity also forgets that the
\* page referred to the row.
Without(c, ps, r) ==
    [nodes |-> c.nodes,
     pages |-> [p \in Pages |-> IF p \notin ps THEN c.pages[p]
                  ELSE [data |-> Less(c.pages[p].data, r), page |-> NoPage,
                        refs |-> c.pages[p].refs \ {r}]],
     flight |-> [p \in Pages |-> IF p \in ps THEN Bumped(c.flight[p]) ELSE c.flight[p]]]

\* reconcileDelete: removeEntity, then all pages of the model are invalidated.
ReconcileDelete(c, r) ==
    LET c1 == Without(c, {p \in Pages : c.pages[p].data # NoData /\ Lists(c.pages[p], r)}, r) IN
    [nodes |-> [c.nodes EXCEPT ![r] = NoNode], pages |-> c1.pages,
     flight |-> [p \in Pages |-> IF Known(c1, p) THEN Refetched(c1.flight[p]) ELSE c1.flight[p]]]

\* The transaction handle's remove, on one page.
RemovedFrom(c, p, r) ==
    [nodes |-> c.nodes,
     pages |-> [c.pages EXCEPT ![p] = [data |-> Less(Materialized(@, c.nodes), r),
                                       page |-> NoPage, refs |-> @.refs]],
     flight |-> [c.flight EXCEPT ![p] = Bumped(@)]]

\* dehydrate keeps the pages that have data
Dehydrated(c) ==
    [nodes |-> c.nodes,
     pages |-> [p \in Pages |-> [c.pages[p] EXCEPT !.data = Materialized(c.pages[p], c.nodes)]]]

\* Mutant of Hydrated: the graph alone is put back.
HydratedGraph(c, s) ==
    [nodes |-> [r \in Rows |-> IF s.nodes[r] = NoNode THEN c.nodes[r] ELSE s.nodes[r]],
     pages |-> c.pages, flight |-> c.flight]

\* hydrate puts the nodes and the pages of the snapshot back, and leaves alone
\* what was not in it, and the requests.
Hydrated(c, s) ==
    [nodes |-> [r \in Rows |-> IF s.nodes[r] = NoNode THEN c.nodes[r] ELSE s.nodes[r]],
     pages |-> [p \in Pages |-> IF s.pages[p].data = NoData THEN c.pages[p]
                  ELSE [s.pages[p] EXCEPT !.refs = c.pages[p].refs]],
     flight |-> c.flight]

\* ingestQueryResult
Ingested(c, p, rows) ==
    LET full == p \notin Plain
        nodes == [r \in Rows |-> IF full /\ r \in DOMAIN rows THEN rows[r] ELSE c.nodes[r]]
    IN [nodes |-> nodes,
        pages |-> [c.pages EXCEPT ![p] =
            [data |-> rows, page |-> IF full THEN DOMAIN rows ELSE NoPage,
             refs |-> IF full THEN DOMAIN rows ELSE {}]],
        flight |-> c.flight]

-----------------------------------------------------------------------------
(* Requests.                                                                *)

Fetch(p) ==
    /\ fetches < MaxFetches /\ cache.flight[p].phase = "none"
    /\ fetches' = fetches + 1
    /\ cache' = [cache EXCEPT !.flight[p] = Sent]
    /\ UNCHANGED <<server, gone, call, history>>

Read(p) ==
    /\ cache.flight[p].phase = "sent"
    /\ cache' = [cache EXCEPT !.flight[p] =
           [@ EXCEPT !.phase = "read", !.rows = [r \in Rows \ gone |-> Version(server[r])]]]
    /\ UNCHANGED <<server, gone, call, fetches, history>>

IsOlder(r, row) == r \in removed \/ row.version < confirmed[r]
Older(data) == {r \in Rowed(data) : IsOlder(r, data[r])}

\* The answer is ingested, or dropped if the request was superseded.
Answer(p) ==
    LET f == cache.flight[p]
        c == IF f.live THEN Ingested(cache, p, f.rows) ELSE cache
    IN
    /\ f.phase = "read"
    /\ cache' = [c EXCEPT !.flight[p] = NoFlight]
    /\ behind' = IF f.live THEN behind \cup Older(f.rows) ELSE behind
    /\ UNCHANGED <<server, gone, call, fetches, confirmed, removed, mixed>>

-----------------------------------------------------------------------------
(* Mutations.                                                               *)

\* Rows of pages that were to be refetched until a removal superseded the request:
\* the refetch that follows joins that request, whose answer will be dropped.
Overtaken == UNION {Older(cache'.pages[p].data) : p \in
                    {q \in Pages : cache.flight[q].live /\ ~cache'.flight[q].live}}

UnderWay(m) == call[m].phase \notin {"idle", "ended"}
Goes(m, phase) == call' = [call EXCEPT ![m] = [@ EXCEPT !.phase = phase]]
End(m) == call' = [call EXCEPT ![m] = [@ EXCEPT !.phase = "ended", !.snapshot = NoData]]
Draft(m, r) == [version |-> IF cache.nodes[r] = NoNode THEN 0 ELSE cache.nodes[r].version,
                draft |-> m]

\* mutateAsync: onMutate shows the draft and keeps the snapshot to undo it; an
\* optimistic deletion takes the row off one page.
Begin(m) ==
    /\ call[m].phase = "idle"
    /\ \E op \in Operations, r \in Rows, drafts \in Drafting :
       /\ call' = [call EXCEPT ![m] = [phase |-> "sent", op |-> op, row |-> r, drafts |-> drafts,
              answer |-> 0, snapshot |-> IF drafts THEN Dehydrated(cache) ELSE NoData]]
       /\ mixed' = (mixed \/ (drafts /\ \E n \in Mutations : UnderWay(n) /\ call[n].drafts))
       /\ \/ ~drafts /\ UNCHANGED <<cache, behind>>
          \/ /\ drafts /\ op = "update"
             /\ cache' = WriteEntity(cache, r, Draft(m, r))
             /\ behind' = behind
          \/ /\ drafts /\ op = "delete"
             /\ \E p \in Pages : cache.pages[p].data # NoData /\ cache' = RemovedFrom(cache, p, r)
             /\ behind' = behind \cup Overtaken
    /\ UNCHANGED <<server, gone, fetches, confirmed, removed>>

\* The server executes the statement: an update of a deleted row updates none.
Serve(m) ==
    LET k == call[m] IN
    /\ k.phase = "sent"
    /\ \/ /\ k.op = "update" /\ k.row \notin gone
          /\ server' = [server EXCEPT ![k.row] = @ + 1]
          /\ call' = [call EXCEPT ![m] = [@ EXCEPT !.phase = "served", !.answer = server'[k.row]]]
          /\ gone' = gone
       \/ /\ k.op = "update" /\ k.row \in gone
          /\ Goes(m, "served")
          /\ UNCHANGED <<server, gone>>
       \/ /\ k.op = "delete"
          /\ gone' = gone \cup {k.row}
          /\ Goes(m, "served")
          /\ server' = server
    /\ UNCHANGED <<cache, fetches, history>>

\* The server refuses it, or cannot be reached: an error result, or a throw.
Refuse(m) ==
    /\ call[m].phase = "sent"
    /\ \E how \in {"refused", "thrown"} : Goes(m, how)
    /\ UNCHANGED <<server, gone, cache, fetches, history>>

\* Pages whose refetch joins a request that will be dropped.
Stranded == {p \in Watched : cache.flight[p].phase # "none" /\ ~cache.flight[p].live}

\* reconcileExecutable with the row of a successful update.
Updated(m) ==
    LET k == call[m]  stale == k.row \in removed \/ k.answer < confirmed[k.row] IN
    /\ k.phase = "served" /\ k.op = "update"
    /\ \/ /\ k.answer > 0
          /\ cache' = WriteEntity(cache, k.row, Version(k.answer))
          /\ confirmed' = IF stale THEN confirmed ELSE [confirmed EXCEPT ![k.row] = k.answer]
          /\ behind' = IF stale \/ Stranded # {} THEN behind \cup {k.row} ELSE behind
       \/ /\ k.answer = 0
          /\ behind' = IF k.drafts THEN behind \cup {k.row} ELSE behind
          /\ UNCHANGED <<cache, confirmed>>
    /\ End(m)
    /\ UNCHANGED <<server, gone, fetches, removed, mixed>>

Deleted(m) ==
    /\ call[m].phase = "served" /\ call[m].op = "delete"
    /\ cache' = ReconcileDelete(cache, call[m].row)
    /\ removed' = removed \cup {call[m].row}
    /\ behind' = behind \cup Overtaken
    /\ End(m)
    /\ UNCHANGED <<server, gone, fetches, confirmed, mixed>>

\* A result that is an error is reconciled too: a deletion names its row by its
\* filters, and the row is taken off the pages until they are refetched.
Failed(m) ==
    LET k == call[m] IN
    /\ k.phase \in {"refused", "thrown"}
    /\ cache' = IF k.phase = "refused" /\ k.op = "delete" THEN ReconcileDelete(cache, k.row) ELSE cache
    /\ behind' = behind \cup Overtaken
    /\ Goes(m, IF k.drafts THEN "failed" ELSE "ended")
    /\ UNCHANGED <<server, gone, fetches, confirmed, removed, mixed>>

\* mutateAsync then awaits the rollback that onMutate returned.  What it puts
\* back may be older; a row that the graph did not have keeps its draft there.
Undo(m) ==
    LET s == call[m].snapshot
        Back(r) == IF s.nodes[r] = NoNode THEN cache.nodes[r] # NoNode /\ cache.nodes[r].draft = m
                   ELSE IsOlder(r, s.nodes[r])
    IN
    /\ call[m].phase = "failed"
    /\ cache' = Hydrated(cache, s)
    /\ behind' = behind \cup {r \in Rows : Back(r)} \cup UNION {Older(s.pages[p].data) : p \in Pages}
    /\ End(m)
    /\ UNCHANGED <<server, gone, fetches, confirmed, removed, mixed>>

Step == \/ \E p \in Pages : Fetch(p) \/ Read(p) \/ Answer(p)
        \/ \E m \in Mutations : \/ Begin(m) \/ Serve(m) \/ Refuse(m)
                                \/ Updated(m) \/ Deleted(m) \/ Failed(m) \/ Undo(m)

AtRest == /\ \A p \in Pages : cache.flight[p].phase = "none"
          /\ \A m \in Mutations : ~UnderWay(m)

\* Everything was asked for and answered.
Over == AtRest /\ (\A m \in Mutations : call[m].phase = "ended") /\ UNCHANGED vars

Next == Step \/ Over
Spec == Init /\ [][Next]_vars

-----------------------------------------------------------------------------
Shown == [version : Nat, draft : Mutations \cup {NoMutation}]
IsData(d) == d = NoData \/ (DOMAIN d \subseteq Rows /\ \A r \in DOMAIN d : d[r] \in Shown)

\* The state has its shape, and no normalized page (materializeNormalizedQueryPage)
\* names a row that the graph no longer has and that it would silently leave out.
TypeOK ==
    /\ server \in [Rows -> Nat] /\ gone \subseteq Rows /\ fetches \in 0..MaxFetches
    /\ \A r \in Rows : cache.nodes[r] = NoNode \/ cache.nodes[r] \in Shown
    /\ \A p \in Pages :
       LET e == cache.pages[p] IN
       /\ IsData(e.data) /\ e.refs \subseteq Rows
       /\ e.page = NoPage \/ (e.page \subseteq Rows /\ \A r \in e.page : cache.nodes[r] # NoNode)
       /\ cache.flight[p].phase \in {"none", "sent", "read"} /\ cache.flight[p].live \in BOOLEAN
    /\ \A m \in Mutations : call[m].phase \in
          {"idle", "sent", "served", "refused", "thrown", "failed", "ended"}
    /\ confirmed \in [Rows -> Nat] /\ removed \subseteq Rows /\ behind \subseteq Rows
    /\ mixed \in BOOLEAN

\* When nothing is under way, every page, whatever its projection, filter or
\* order, shows each row as the newest reconciled mutation left it
\* (reconcileExecutable, writeEntity, removeEntity).  The exception is a row of
\* which something older was put back or left afterwards (behind): by the answer
\* of a request that had read before, by a mutation that was executed earlier and
\* answered later, by undoing another mutation, or because the refetch joined a
\* request whose answer was dropped, or was itself superseded by a removal.
MutationIsShown ==
    AtRest => \A p \in Pages : \A r \in Rowed(cache.pages[p].data) \ behind :
        r \notin removed /\ cache.pages[p].data[r].version >= confirmed[r]

\* A draft is not on any page once its mutation has succeeded on a row or has
\* been undone (use-mutation.ts rolls back before it reports the error), unless
\* its row is behind, as it is when the graph did not have the row before, or
\* the drafts of two mutations were shown at once: the snapshot of the second
\* then holds the draft of the first.
DraftsVanish ==
    mixed \/ \A p \in Pages : \A r \in Rowed(cache.pages[p].data) :
        LET m == cache.pages[p].data[r].draft IN
        m # NoMutation => UnderWay(m) \/ r \in behind
=============================================================================
