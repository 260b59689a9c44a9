------------------------- MODULE EntityCacheProofs -------------------------
(***************************************************************************)
(* Theorems about the entity cache, for any number of pages, rows,         *)
(* mutations and fetches: its type invariant, that every page at rest      *)
(* shows what the newest mutation left (MutationIsShown), and that no      *)
(* draft survives its mutation (DraftsVanish).                             *)
(***************************************************************************)
EXTENDS EntityCache, TLAPS

Nodes == [Rows -> Shown \cup {NoNode}]
Data == UNION {[S -> Shown] : S \in SUBSET Rows}
Entries == [data : Data \cup {NoData}, page : (SUBSET Rows) \cup {NoPage}, refs : SUBSET Rows]
Phases == {"none", "sent", "read"}
Flights == [phase : Phases, live : BOOLEAN, rows : Data \cup {NoData}]
Caches == [nodes : Nodes, pages : [Pages -> Entries], flight : [Pages -> Flights]]
Snapshots == [nodes : Nodes, pages : [Pages -> Entries]]
Calls == [phase : {"sent", "served", "refused", "thrown", "failed", "ended"},
          op : {"update", "delete"}, row : Rows, drafts : BOOLEAN, answer : Nat,
          snapshot : Snapshots \cup {NoData}]

Types ==
    /\ server \in [Rows -> Nat] /\ gone \in SUBSET Rows /\ fetches \in 0 .. MaxFetches
    /\ cache \in Caches
    /\ call \in [Mutations -> Calls \cup {NoCall}]
    /\ confirmed \in [Rows -> Nat] /\ removed \in SUBSET Rows /\ behind \in SUBSET Rows
    /\ mixed \in BOOLEAN

\* A normalized page shows the rows it is put together from, and the graph has
\* them.
Coherent(e, nodes) ==
    e.page # NoPage => /\ e.data # NoData /\ e.page = DOMAIN e.data
                       /\ \A r \in e.page : nodes[r] # NoNode

FlightOk(f) ==
    /\ f.phase = "none" => ~f.live
    /\ f.phase = "read" => /\ f.rows \in Data
                           /\ \A r \in DOMAIN f.rows : f.rows[r].draft = NoMutation

Drafts(m) == UnderWay(m) /\ call[m].drafts

CallOk(m) ==
    /\ call[m].phase = "failed" => call[m].drafts
    /\ Drafts(m) => /\ call[m].snapshot \in Snapshots
                    /\ \A p \in Pages : Coherent(call[m].snapshot.pages[p], call[m].snapshot.nodes)

Shape ==
    /\ \A p \in Pages : Coherent(cache.pages[p], cache.nodes)
    /\ \A p \in Pages : FlightOk(cache.flight[p])
    /\ \A m \in Mutations : CallOk(m)

\* The draft d may be shown on row r, for its mutation is under way.
Pending(d, r) == d \in Mutations /\ Drafts(d) /\ call[d].op = "update" /\ call[d].row = r

Current(r, row) == r \in behind \/ ~IsOlder(r, row) \/ Pending(row.draft, r)

\* A page that waits for the answer of a request is no better than its answer.
Awaits(p) == p \in Watched /\ cache.flight[p].live

NodesCurrent == \A r \in Rows : cache.nodes[r] # NoNode => Current(r, cache.nodes[r])
PagesCurrent ==
    \A p \in Pages : ~Awaits(p) =>
        \A r \in Rowed(cache.pages[p].data) : Current(r, cache.pages[p].data[r])

\* The pages that the undo of m will leave as they are.
Unknown(m) == {p \in Pages : call[m].snapshot.pages[p].data = NoData}

\* What they show of m, by way of undoing another mutation, is not older.
UnknownCurrent(m) ==
    \A p \in Unknown(m) :
        /\ ~Awaits(p) => \A r \in Rowed(cache.pages[p].data) :
             cache.pages[p].data[r].draft = m => r \in behind \/ ~IsOlder(r, cache.pages[p].data[r])
        /\ cache.pages[p].page # NoPage => \A r \in cache.pages[p].page :
             cache.nodes[r].draft = m => r \in behind \/ ~IsOlder(r, cache.nodes[r])

Fresh == NodesCurrent /\ PagesCurrent /\ \A m \in Mutations : Drafts(m) => UnknownCurrent(m)

\* Unless two drafts were shown at once, a draft is on no page that filters, in
\* no snapshot and on no page that the undo of its mutation will leave alone.
Clean(r, row) == row.draft # NoMutation => r \in behind
SnapshotClean(s) ==
    /\ \A r \in Rows : s.nodes[r] # NoNode => Clean(r, s.nodes[r])
    /\ \A p \in Pages : \A r \in Rowed(s.pages[p].data) : Clean(r, s.pages[p].data[r])
NodesDrafted ==
    \A r \in Rows : cache.nodes[r] # NoNode =>
        Clean(r, cache.nodes[r]) \/ Pending(cache.nodes[r].draft, r)
PagesDrafted ==
    \A p \in Pages : \A r \in Rowed(cache.pages[p].data) :
        \/ Clean(r, cache.pages[p].data[r])
        \/ p \notin Watched /\ Pending(cache.pages[p].data[r].draft, r)
UnknownDrafted(m) ==
    \A p \in Unknown(m) :
        /\ \A r \in Rowed(cache.pages[p].data) : cache.pages[p].data[r].draft = m => r \in behind
        /\ cache.pages[p].page # NoPage =>
             \A r \in cache.pages[p].page : cache.nodes[r].draft = m => r \in behind
Drafted ==
    mixed \/ /\ NodesDrafted /\ PagesDrafted
             /\ \A m \in Mutations : Drafts(m) => SnapshotClean(call[m].snapshot) /\ UnknownDrafted(m)
             /\ \A m, n \in Mutations : Drafts(m) /\ Drafts(n) => m = n

IInv == Types /\ Shape /\ Fresh /\ Drafted

-----------------------------------------------------------------------------
(* Rows, entries and requests.                                              *)

LEMMA Distinct ==
    /\ NoNode \notin Shown /\ NoPage \notin SUBSET Rows /\ NoData \notin Data
    /\ NoMutation \notin Mutations /\ Plain \subseteq Pages /\ Watched \subseteq Pages
    /\ MaxFetches \in Nat /\ Operations \subseteq {"update", "delete"} /\ Drafting \subseteq BOOLEAN
BY EntityCacheAssumption DEF EntityCacheAssumption, Shown, Data

\* What a page shows is a function from rows to what is shown of them.
LEMMA DataIn == ASSUME NEW S \in SUBSET Rows, NEW f \in [S -> Shown]
                PROVE  f \in Data /\ f # NoData /\ DOMAIN f = S
BY Distinct DEF Data

LEMMA DataOut == ASSUME NEW f \in Data
                 PROVE  /\ DOMAIN f \in SUBSET Rows /\ f \in [DOMAIN f -> Shown] /\ f # NoData
                        /\ \A r \in DOMAIN f : f[r] \in Shown
BY Distinct DEF Data

LEMMA RowedIn == ASSUME NEW d \in Data \cup {NoData}
                 PROVE  /\ Rowed(d) \in SUBSET Rows /\ \A r \in Rowed(d) : d[r] \in Shown
                        /\ d # NoData => d \in Data /\ Rowed(d) = DOMAIN d
BY DataOut DEF Rowed

LEMMA ShownFields == ASSUME NEW row \in Shown
                     PROVE  row.version \in Nat /\ row.draft \in Mutations \cup {NoMutation}
BY DEF Shown

LEMMA VersionShown == ASSUME NEW v \in Nat
                      PROVE  Version(v) \in Shown /\ Version(v).version = v /\ Version(v).draft = NoMutation
BY DEF Version, Shown

LEMMA CacheFields ==
    ASSUME NEW c \in Caches
    PROVE  /\ c.nodes \in Nodes /\ c.pages \in [Pages -> Entries] /\ c.flight \in [Pages -> Flights]
           /\ \A r \in Rows : c.nodes[r] \in Shown \cup {NoNode}
           /\ \A p \in Pages : /\ c.pages[p] \in Entries /\ c.pages[p].data \in Data \cup {NoData}
                               /\ c.pages[p].page \in (SUBSET Rows) \cup {NoPage}
                               /\ c.pages[p].refs \in SUBSET Rows
                               /\ c.flight[p] \in Flights /\ c.flight[p].phase \in Phases
                               /\ c.flight[p].live \in BOOLEAN
                               /\ c.flight[p].rows \in Data \cup {NoData}
<1>1. c.nodes \in Nodes /\ c.pages \in [Pages -> Entries] /\ c.flight \in [Pages -> Flights]
  BY DEF Caches
<1>2. \A r \in Rows : c.nodes[r] \in Shown \cup {NoNode}
  BY <1>1 DEF Nodes
<1>3. \A p \in Pages : c.pages[p] \in Entries /\ c.flight[p] \in Flights
  BY <1>1
<1> QED
  BY <1>1, <1>2, <1>3 DEF Entries, Flights

LEMMA FlightChanged ==
    ASSUME NEW f \in Flights
    PROVE  /\ Bumped(f) \in Flights /\ Bumped(f).phase = f.phase /\ ~Bumped(f).live
           /\ Bumped(f).rows = f.rows
           /\ Refetched(f) \in Flights
           /\ f.phase # "none" => Refetched(f) = f
           /\ f.phase = "none" => Refetched(f) = Sent /\ Refetched(f).live
           /\ Sent \in Flights /\ Sent.live /\ Sent.phase = "sent"
           /\ NoFlight \in Flights /\ ~NoFlight.live /\ NoFlight.phase = "none"
           /\ FlightOk(f) => FlightOk(Bumped(f)) /\ FlightOk(Refetched(f))
           /\ FlightOk(Sent) /\ FlightOk(NoFlight)
<1>1. /\ Bumped(f) \in Flights /\ Bumped(f).phase = f.phase /\ ~Bumped(f).live
      /\ Bumped(f).rows = f.rows
  BY DEF Bumped, Flights
<1>2. /\ Sent \in Flights /\ Sent.live /\ Sent.phase = "sent"
      /\ NoFlight \in Flights /\ ~NoFlight.live /\ NoFlight.phase = "none"
  BY DEF Sent, NoFlight, Flights, Phases
<1>3. /\ Refetched(f) \in Flights
      /\ f.phase # "none" => Refetched(f) = f
      /\ f.phase = "none" => Refetched(f) = Sent /\ Refetched(f).live
  BY <1>2 DEF Refetched
<1>4. FlightOk(Sent) /\ FlightOk(NoFlight)
  BY <1>2 DEF FlightOk
<1>5. FlightOk(f) => FlightOk(Bumped(f))
  BY <1>1 DEF FlightOk
<1>6. FlightOk(f) => FlightOk(Refetched(f))
  BY <1>3, <1>4
<1> QED
  BY <1>1, <1>2, <1>3, <1>4, <1>5, <1>6

\* materializeEntry takes what is on a normalized page from the graph.
LEMMA MaterializedRows ==
    ASSUME NEW e \in Entries, NEW nodes \in Nodes
    PROVE  LET d == Materialized(e, nodes) IN
           /\ d \in Data \cup {NoData}
           /\ e.page = NoPage => d = e.data
           /\ e.page # NoPage => /\ d \in Data /\ DOMAIN d = {r \in e.page : nodes[r] # NoNode}
                                 /\ \A r \in DOMAIN d : d[r] = nodes[r]
<1>1. CASE e.page = NoPage
  BY <1>1 DEF Materialized, Entries
<1>2. CASE e.page # NoPage
  <2> DEFINE S == {r \in e.page : nodes[r] # NoNode}
             d == [r \in S |-> nodes[r]]
  <2>1. S \in SUBSET Rows
    BY <1>2 DEF Entries
  <2>2. \A r \in S : nodes[r] \in Shown
    BY <2>1 DEF Nodes
  <2>3. d \in [S -> Shown]
    BY <2>2
  <2>4. d \in Data /\ DOMAIN d = S /\ \A r \in S : d[r] = nodes[r]
    BY <2>1, <2>3, DataIn
  <2>5. Materialized(e, nodes) = d
    BY <1>2 DEF Materialized
  <2> QED
    BY <1>2, <2>4, <2>5
<1> QED
  BY <1>1, <1>2

LEMMA LessRows ==
    ASSUME NEW d \in Data, NEW r
    PROVE  /\ Less(d, r) \in Data /\ DOMAIN Less(d, r) = DOMAIN d \ {r}
           /\ \A x \in DOMAIN Less(d, r) : Less(d, r)[x] = d[x]
<1> DEFINE S == DOMAIN d \ {r}
           f == [x \in S |-> d[x]]
<1>1. S \in SUBSET Rows /\ f \in [S -> Shown]
  BY DataOut
<1>2. f \in Data /\ DOMAIN f = S
  BY <1>1, DataIn
<1>3. Less(d, r) = f
  BY DEF Less
<1> QED
  BY <1>2, <1>3

-----------------------------------------------------------------------------
(* What the methods of the cache change.                                    *)

\* The rows on a page after a patch are what they were, or what the graph has.
LEMMA PatchedRows ==
    ASSUME NEW e \in Entries, NEW old \in Nodes, NEW nodes \in Nodes, NEW r \in Rows, Coherent(e, old),
           nodes[r] \in Shown, \A x \in Rows \ {r} : nodes[x] = old[x], e.data # NoData
    PROVE  LET n == Patched(e, nodes, r) IN
           /\ n \in Entries /\ n.page = e.page /\ n.refs = e.refs /\ n.data # NoData
           /\ DOMAIN n.data = DOMAIN e.data /\ Coherent(n, nodes)
           /\ \A x \in DOMAIN n.data : \/ n.data[x] = nodes[x] /\ (x = r \/ (e.page # NoPage /\ x \in e.page))
                                       \/ n.data[x] = e.data[x] /\ x # r
<1>1. e.data \in Data /\ e.page \in (SUBSET Rows) \cup {NoPage} /\ e.refs \in SUBSET Rows
  BY DEF Entries
<1>2. CASE e.page # NoPage
  <2>1. PICK d : d = Materialized(e, nodes)
    OBVIOUS
  <2>2. d \in Data /\ DOMAIN d = {x \in e.page : nodes[x] # NoNode} /\ \A x \in DOMAIN d : d[x] = nodes[x]
    BY <1>2, <2>1, MaterializedRows
  <2>3. e.page = DOMAIN e.data /\ \A x \in e.page : nodes[x] # NoNode
    BY <1>1, <1>2, Distinct DEF Coherent
  <2>4. DOMAIN d = e.page
    BY <2>2, <2>3
  <2>5. Patched(e, nodes, r) = [e EXCEPT !.data = d]
    BY <1>2, <2>1 DEF Patched
  <2>6. PICK n : n = [e EXCEPT !.data = d]
    OBVIOUS
  <2>7. n \in Entries /\ n.page = e.page /\ n.refs = e.refs /\ n.data = d
    BY <2>2, <2>6 DEF Entries
  <2>8. d # NoData
    BY <2>2, Distinct
  <2>9. Coherent(n, nodes)
    BY <2>3, <2>4, <2>7, <2>8 DEF Coherent
  <2> QED
    BY <1>2, <2>2, <2>3, <2>4, <2>5, <2>6, <2>7, <2>8, <2>9
<1>3. CASE e.page = NoPage
  <2> DEFINE S == DOMAIN e.data
             f == [x \in S |-> IF x = r THEN nodes[r] ELSE e.data[x]]
  <2>1. S \in SUBSET Rows /\ \A x \in S : e.data[x] \in Shown
    BY <1>1, DataOut
  <2>2. f \in [S -> Shown]
    BY <2>1
  <2>3. f \in Data /\ f # NoData /\ DOMAIN f = S
    BY <2>1, <2>2, DataIn
  <2>4. \A x \in S : f[x] = IF x = r THEN nodes[r] ELSE e.data[x]
    OBVIOUS
  <2>5. Patched(e, nodes, r) = [e EXCEPT !.data = f]
    BY <1>3 DEF Patched
  <2> HIDE DEF f
  <2>6. PICK n : n = [e EXCEPT !.data = f]
    OBVIOUS
  <2>7. n \in Entries /\ n.page = e.page /\ n.refs = e.refs /\ n.data = f
    BY <2>3, <2>6 DEF Entries
  <2>8. Coherent(n, nodes)
    BY <1>3, <2>7 DEF Coherent
  <2> QED
    BY <1>3, <2>3, <2>4, <2>5, <2>6, <2>7, <2>8
<1> QED
  BY <1>2, <1>3

Hits(c, r, p) == p \notin Watched /\ Lists(c.pages[p], r) /\ c.pages[p].data # NoData

LEMMA WriteEntityChanges ==
    ASSUME NEW c \in Caches, NEW r \in Rows, NEW row \in Shown,
           \A p \in Pages : Coherent(c.pages[p], c.nodes)
    PROVE  LET w == WriteEntity(c, r, row) IN
           /\ w \in Caches /\ w.nodes[r] = row /\ \A x \in Rows \ {r} : w.nodes[x] = c.nodes[x]
           /\ \A p \in Pages :
                /\ Coherent(w.pages[p], w.nodes)
                /\ w.pages[p].page = c.pages[p].page
                /\ Rowed(w.pages[p].data) = Rowed(c.pages[p].data)
                /\ w.pages[p].data = NoData <=> c.pages[p].data = NoData
                /\ p \in Watched => w.pages[p] = c.pages[p]
                /\ p \notin Watched => \A x \in Rowed(w.pages[p].data) :
                     \/ /\ w.pages[p].data[x] = w.nodes[x]
                        /\ x = r \/ (c.pages[p].page # NoPage /\ x \in c.pages[p].page)
                     \/ w.pages[p].data[x] = c.pages[p].data[x] /\ x # r
                /\ FlightOk(c.flight[p]) => FlightOk(w.flight[p])
                /\ p \in Watched /\ c.flight[p].live => w.flight[p].live \/ c.flight[p].phase = "none"
                /\ p \in Watched /\ c.pages[p].data # NoData =>
                     w.flight[p].live \/ (c.flight[p].phase # "none" /\ ~c.flight[p].live)
<1> DEFINE nodes == [c.nodes EXCEPT ![r] = row]
           page(p) == IF Hits(c, r, p) THEN Patched(c.pages[p], nodes, r) ELSE c.pages[p]
           flight(p) == IF p \in Watched /\ Known(c, p) THEN Refetched(c.flight[p])
                        ELSE IF Hits(c, r, p) /\ c.pages[p].page = NoPage THEN Bumped(c.flight[p])
                        ELSE c.flight[p]
           w == WriteEntity(c, r, row)
<1>1. w = [nodes |-> nodes, pages |-> [p \in Pages |-> page(p)], flight |-> [p \in Pages |-> flight(p)]]
  BY DEF WriteEntity, Hits
<1>2. nodes \in Nodes /\ nodes[r] = row /\ \A x \in Rows \ {r} : nodes[x] = c.nodes[x]
  BY CacheFields DEF Nodes
<1>3. ASSUME NEW p \in Pages
      PROVE  /\ page(p) \in Entries /\ Coherent(page(p), nodes) /\ page(p).page = c.pages[p].page
             /\ Rowed(page(p).data) = Rowed(c.pages[p].data)
             /\ page(p).data = NoData <=> c.pages[p].data = NoData
             /\ p \in Watched => page(p) = c.pages[p]
             /\ p \notin Watched => \A x \in Rowed(page(p).data) :
                  \/ /\ page(p).data[x] = nodes[x]
                     /\ x = r \/ (c.pages[p].page # NoPage /\ x \in c.pages[p].page)
                  \/ page(p).data[x] = c.pages[p].data[x] /\ x # r
  <2> PICK e \in Entries : e = c.pages[p]
    BY CacheFields
  <2>1. Coherent(e, c.nodes) /\ c.nodes \in Nodes
    BY CacheFields
  <2>2. CASE Hits(c, r, p)
    <3>1. p \notin Watched /\ e.data # NoData
      BY <2>2 DEF Hits
    <3>2. PICK n : n = Patched(e, nodes, r)
      OBVIOUS
    <3> HIDE DEF nodes
    <3>3. /\ n \in Entries /\ n.page = e.page /\ n.data # NoData
          /\ DOMAIN n.data = DOMAIN e.data /\ Coherent(n, nodes)
          /\ \A x \in DOMAIN n.data : \/ n.data[x] = nodes[x] /\ (x = r \/ (e.page # NoPage /\ x \in e.page))
                                      \/ n.data[x] = e.data[x] /\ x # r
      BY <1>2, <2>1, <3>1, <3>2, PatchedRows
    <3>4. page(p) = n
      BY <2>2, <3>2
    <3> QED
      BY <3>1, <3>3, <3>4 DEF Rowed
  <2>3. CASE ~Hits(c, r, p)
    <3>1. page(p) = e
      BY <2>3
    <3> HIDE DEF page
    <3>2. Coherent(e, nodes)
      BY <1>2, <2>1, CacheFields, Distinct DEF Coherent, Entries
    <3>3. p \notin Watched => r \notin Rowed(e.data)
      BY <2>3 DEF Hits, Lists, Shows, Rowed
    <3> QED
      BY <3>1, <3>2, <3>3
  <2> QED
    BY <2>2, <2>3
<1>4. ASSUME NEW p \in Pages
      PROVE  /\ flight(p) \in Flights
             /\ FlightOk(c.flight[p]) => FlightOk(flight(p))
             /\ p \in Watched /\ c.flight[p].live => flight(p).live \/ c.flight[p].phase = "none"
             /\ p \in Watched /\ c.pages[p].data # NoData =>
                  flight(p).live \/ (c.flight[p].phase # "none" /\ ~c.flight[p].live)
  <2> PICK f \in Flights : f = c.flight[p]
    BY CacheFields
  <2>1. CASE p \in Watched /\ Known(c, p)
    <3>1. flight(p) = Refetched(f)
      BY <2>1
    <3> HIDE DEF flight
    <3> QED
      BY <3>1, FlightChanged
  <2>2. CASE p \in Watched /\ ~Known(c, p)
    <3>1. flight(p) = f /\ c.pages[p].data = NoData
      BY <2>2 DEF Known, Hits
    <3> HIDE DEF flight
    <3> QED
      BY <3>1
  <2>3. CASE p \notin Watched
    <3>1. flight(p) = Bumped(f) \/ flight(p) = f
      BY <2>3
    <3> HIDE DEF flight
    <3> QED
      BY <2>3, <3>1, FlightChanged
  <2> QED
    BY <2>1, <2>2, <2>3
<1> HIDE DEF nodes, page, flight
<1>5. /\ w.nodes = nodes /\ \A p \in Pages : w.pages[p] = page(p) /\ w.flight[p] = flight(p)
      /\ w \in Caches
  BY <1>1, <1>2, <1>3, <1>4 DEF Caches
<1> HIDE DEF w
<1>6. QED
  <2>1. SUFFICES ASSUME NEW p \in Pages
                 PROVE  /\ Coherent(w.pages[p], w.nodes)
                        /\ w.pages[p].page = c.pages[p].page
                        /\ Rowed(w.pages[p].data) = Rowed(c.pages[p].data)
                        /\ w.pages[p].data = NoData <=> c.pages[p].data = NoData
                        /\ p \in Watched => w.pages[p] = c.pages[p]
                        /\ p \notin Watched => \A x \in Rowed(w.pages[p].data) :
                             \/ /\ w.pages[p].data[x] = w.nodes[x]
                                /\ x = r \/ (c.pages[p].page # NoPage /\ x \in c.pages[p].page)
                             \/ w.pages[p].data[x] = c.pages[p].data[x] /\ x # r
                        /\ FlightOk(c.flight[p]) => FlightOk(w.flight[p])
                        /\ p \in Watched /\ c.flight[p].live => w.flight[p].live \/ c.flight[p].phase = "none"
                        /\ p \in Watched /\ c.pages[p].data # NoData =>
                             w.flight[p].live \/ (c.flight[p].phase # "none" /\ ~c.flight[p].live)
    BY <1>2, <1>5 DEF w
  <2> QED
    BY <1>3, <1>4, <1>5

LEMMA ReconcileDeleteChanges ==
    ASSUME NEW c \in Caches, NEW r \in Rows, \A p \in Pages : Coherent(c.pages[p], c.nodes)
    PROVE  LET w == ReconcileDelete(c, r) IN
           /\ w \in Caches /\ w.nodes[r] = NoNode /\ \A x \in Rows \ {r} : w.nodes[x] = c.nodes[x]
           /\ \A p \in Pages :
                /\ Coherent(w.pages[p], w.nodes)
                /\ w.pages[p].page # NoPage => /\ w.pages[p].page = c.pages[p].page
                                               /\ r \notin c.pages[p].page
                /\ Rowed(w.pages[p].data) = Rowed(c.pages[p].data) \ {r}
                /\ w.pages[p].data = NoData <=> c.pages[p].data = NoData
                /\ \A x \in Rowed(w.pages[p].data) : w.pages[p].data[x] = c.pages[p].data[x]
                /\ FlightOk(c.flight[p]) => FlightOk(w.flight[p])
<1> DEFINE listed == {p \in Pages : c.pages[p].data # NoData /\ Lists(c.pages[p], r)}
           nodes == [c.nodes EXCEPT ![r] = NoNode]
           page(p) == IF p \notin listed THEN c.pages[p]
                      ELSE [data |-> Less(c.pages[p].data, r), page |-> NoPage,
                            refs |-> c.pages[p].refs \ {r}]
           left(p) == IF p \in listed THEN Bumped(c.flight[p]) ELSE c.flight[p]
           c1 == Without(c, listed, r)
           flight(p) == IF Known(c1, p) THEN Refetched(left(p)) ELSE left(p)
           w == ReconcileDelete(c, r)
<1>1. c1 = [nodes |-> c.nodes, pages |-> [p \in Pages |-> page(p)], flight |-> [p \in Pages |-> left(p)]]
  BY DEF Without
<1>2. w = [nodes |-> nodes, pages |-> c1.pages,
           flight |-> [p \in Pages |-> IF Known(c1, p) THEN Refetched(c1.flight[p]) ELSE c1.flight[p]]]
  BY DEF ReconcileDelete
<1>3. nodes \in Nodes /\ nodes[r] = NoNode /\ \A x \in Rows \ {r} : nodes[x] = c.nodes[x]
  BY CacheFields DEF Nodes
<1>4. ASSUME NEW p \in Pages
      PROVE  /\ page(p) \in Entries /\ Coherent(page(p), nodes)
             /\ page(p).page # NoPage => page(p).page = c.pages[p].page /\ r \notin c.pages[p].page
             /\ Rowed(page(p).data) = Rowed(c.pages[p].data) \ {r}
             /\ page(p).data = NoData <=> c.pages[p].data = NoData
             /\ \A x \in Rowed(page(p).data) : page(p).data[x] = c.pages[p].data[x]
  <2> PICK e \in Entries : e = c.pages[p]
    BY CacheFields
  <2>1. Coherent(e, c.nodes) /\ e.data \in Data \cup {NoData} /\ e.refs \in SUBSET Rows
        /\ e.page \in (SUBSET Rows) \cup {NoPage}
    BY CacheFields
  <2>2. CASE p \in listed
    <3>1. e.data \in Data
      BY <2>1, <2>2
    <3> PICK d : d = Less(e.data, r)
      OBVIOUS
    <3>0. /\ Less(e.data, r) \in Data /\ DOMAIN Less(e.data, r) = DOMAIN e.data \ {r}
          /\ \A x \in DOMAIN Less(e.data, r) : Less(e.data, r)[x] = e.data[x]
      BY <3>1, LessRows
    <3>2. d \in Data /\ DOMAIN d = DOMAIN e.data \ {r} /\ \A x \in DOMAIN d : d[x] = e.data[x]
      BY <3>0
    <3>3. d # NoData /\ e.data # NoData
      BY <3>1, <3>2, Distinct
    <3>4. page(p) = [data |-> d, page |-> NoPage, refs |-> e.refs \ {r}]
      BY <2>2
    <3> HIDE DEF page
    <3>5. page(p) \in Entries /\ page(p).data = d /\ page(p).page = NoPage
      BY <2>1, <3>2, <3>4 DEF Entries
    <3>6. Coherent(page(p), nodes)
      BY <3>5 DEF Coherent
    <3> QED
      BY <3>2, <3>3, <3>5, <3>6 DEF Rowed
  <2>3. CASE p \notin listed
    <3>1. page(p) = e
      BY <2>3
    <3>2. e.data = NoData \/ ~Lists(e, r)
      BY <2>3
    <3> HIDE DEF page, listed
    <3>3. r \notin Rowed(e.data)
      BY <3>2 DEF Lists, Shows, Rowed
    <3>4. e.page # NoPage => e.page = Rowed(e.data) /\ e.page \in SUBSET Rows
      BY <2>1 DEF Coherent, Rowed
    <3>5. Coherent(e, nodes)
      BY <1>3, <2>1, <3>3, <3>4 DEF Coherent
    <3> QED
      BY <3>1, <3>3, <3>4, <3>5
  <2> QED
    BY <2>2, <2>3
<1>5. ASSUME NEW p \in Pages
      PROVE  flight(p) \in Flights /\ (FlightOk(c.flight[p]) => FlightOk(flight(p)))
  <2> PICK f \in Flights : f = c.flight[p]
    BY CacheFields
  <2>1. left(p) \in Flights /\ (FlightOk(f) => FlightOk(left(p)))
    BY FlightChanged
  <2>2. flight(p) = left(p) \/ flight(p) = Refetched(left(p))
    OBVIOUS
  <2> HIDE DEF left, flight
  <2> QED
    BY <2>1, <2>2, FlightChanged
<1> HIDE DEF nodes, page, listed
<1>6. /\ w.nodes = nodes /\ \A p \in Pages : w.pages[p] = page(p) /\ w.flight[p] = flight(p)
      /\ w = [nodes |-> nodes, pages |-> [p \in Pages |-> page(p)], flight |-> [p \in Pages |-> flight(p)]]
  <2>1. c1.pages = [p \in Pages |-> page(p)] /\ \A p \in Pages : c1.flight[p] = left(p)
    BY <1>1
  <2> HIDE DEF c1, left
  <2>2. [p \in Pages |-> IF Known(c1, p) THEN Refetched(c1.flight[p]) ELSE c1.flight[p]]
          = [p \in Pages |-> flight(p)]
    BY <2>1
  <2> HIDE DEF flight
  <2>3. w = [nodes |-> nodes, pages |-> [p \in Pages |-> page(p)], flight |-> [p \in Pages |-> flight(p)]]
    BY <1>2, <2>1, <2>2
  <2> HIDE DEF w
  <2> QED
    BY <2>3
<1> HIDE DEF w, c1, left, flight
<1>7. w \in Caches
  BY <1>3, <1>4, <1>5, <1>6 DEF Caches
<1> QED
  <2>1. ASSUME NEW p \in Pages
        PROVE  /\ Coherent(w.pages[p], w.nodes)
               /\ w.pages[p].page # NoPage => /\ w.pages[p].page = c.pages[p].page
                                              /\ r \notin c.pages[p].page
               /\ Rowed(w.pages[p].data) = Rowed(c.pages[p].data) \ {r}
               /\ w.pages[p].data = NoData <=> c.pages[p].data = NoData
               /\ \A x \in Rowed(w.pages[p].data) : w.pages[p].data[x] = c.pages[p].data[x]
               /\ FlightOk(c.flight[p]) => FlightOk(w.flight[p])
    <3>1. w.nodes = nodes /\ w.pages[p] = page(p) /\ w.flight[p] = flight(p)
      BY <1>6
    <3> HIDE DEF page, nodes, listed
    <3> QED
      BY <1>4, <1>5, <3>1
  <2>2. w.nodes[r] = NoNode /\ \A x \in Rows \ {r} : w.nodes[x] = c.nodes[x]
    BY <1>3, <1>6
  <2> HIDE DEF page, nodes, listed
  <2> QED
    BY <1>7, <2>1, <2>2 DEF w

LEMMA RemovedFromChanges ==
    ASSUME NEW c \in Caches, NEW q \in Pages, NEW r \in Rows, \A p \in Pages : Coherent(c.pages[p], c.nodes),
           c.pages[q].data # NoData
    PROVE  LET w == RemovedFrom(c, q, r) IN
           /\ w \in Caches /\ w.nodes = c.nodes
           /\ \A p \in Pages : Coherent(w.pages[p], w.nodes)
           /\ \A p \in Pages \ {q} : w.pages[p] = c.pages[p] /\ w.flight[p] = c.flight[p]
           /\ w.pages[q].page = NoPage /\ w.pages[q].data # NoData
           /\ \A x \in Rowed(w.pages[q].data) :
                /\ x \in Rowed(c.pages[q].data)
                /\ \/ c.pages[q].page = NoPage /\ w.pages[q].data[x] = c.pages[q].data[x]
                   \/ c.pages[q].page # NoPage /\ x \in c.pages[q].page
                      /\ c.nodes[x] # NoNode /\ w.pages[q].data[x] = c.nodes[x]
           /\ ~w.flight[q].live /\ (FlightOk(c.flight[q]) => FlightOk(w.flight[q]))
<1> PICK e \in Entries : e = c.pages[q]
  BY CacheFields
<1> PICK f \in Flights : f = c.flight[q]
  BY CacheFields
<1> PICK m : m = Materialized(e, c.nodes)
  OBVIOUS
<1> DEFINE d == Less(m, r)
           n == [data |-> d, page |-> NoPage, refs |-> e.refs]
           w == RemovedFrom(c, q, r)
<1>1. Coherent(e, c.nodes) /\ c.nodes \in Nodes /\ e.data \in Data /\ e.refs \in SUBSET Rows
      /\ e.page \in (SUBSET Rows) \cup {NoPage}
  BY CacheFields
<1>3. m \in Data
  BY <1>1, MaterializedRows
<1>4. d \in Data /\ DOMAIN d = DOMAIN m \ {r} /\ \A x \in DOMAIN d : d[x] = m[x]
  BY <1>3, LessRows
<1> HIDE DEF d
<1>5. n \in Entries /\ n.page = NoPage /\ n.data = d /\ d # NoData
  BY <1>1, <1>4, Distinct DEF Entries
<1>6. w = [nodes |-> c.nodes, pages |-> [c.pages EXCEPT ![q] = n],
           flight |-> [c.flight EXCEPT ![q] = Bumped(f)]]
  BY CacheFields DEF RemovedFrom, d
<1> HIDE DEF n, w
<1>7. /\ w.nodes = c.nodes /\ w.pages[q] = n /\ w.flight[q] = Bumped(f)
      /\ \A p \in Pages \ {q} : w.pages[p] = c.pages[p] /\ w.flight[p] = c.flight[p]
      /\ w \in Caches
  BY <1>5, <1>6, FlightChanged, CacheFields DEF Caches
<1>8. \A p \in Pages : Coherent(w.pages[p], w.nodes)
  BY <1>5, <1>7 DEF Coherent
<1>9. ~w.flight[q].live /\ (FlightOk(f) => FlightOk(w.flight[q]))
  BY <1>7, FlightChanged
<1>10. \A x \in Rowed(w.pages[q].data) :
         /\ x \in Rowed(e.data)
         /\ \/ e.page = NoPage /\ w.pages[q].data[x] = e.data[x]
            \/ e.page # NoPage /\ x \in e.page /\ c.nodes[x] # NoNode /\ w.pages[q].data[x] = c.nodes[x]
  <2>1. \A x \in Rowed(w.pages[q].data) : x \in DOMAIN d /\ w.pages[q].data[x] = m[x] /\ x \in DOMAIN m
    BY <1>4, <1>5, <1>7 DEF Rowed
  <2>2. e.page # NoPage => e.page = Rowed(e.data)
    BY <1>1 DEF Coherent, Rowed
  <2>3. DOMAIN e.data = Rowed(e.data)
    BY <1>1, Distinct DEF Rowed
  <2>4. CASE e.page = NoPage
    BY <1>1, <1>3, <2>1, <2>3, <2>4, MaterializedRows
  <2>5. CASE e.page # NoPage
    <3>1. DOMAIN m = {x \in e.page : c.nodes[x] # NoNode} /\ \A x \in DOMAIN m : m[x] = c.nodes[x]
      BY <1>1, <2>5, MaterializedRows
    <3> QED
      BY <2>1, <2>2, <2>5, <3>1
  <2> QED
    BY <2>4, <2>5
<1> QED
  BY <1>5, <1>7, <1>8, <1>9, <1>10 DEF w

LEMMA DehydratedHas ==
    ASSUME NEW c \in Caches, \A p \in Pages : Coherent(c.pages[p], c.nodes)
    PROVE  LET s == Dehydrated(c) IN
           /\ s \in Snapshots /\ s.nodes = c.nodes
           /\ \A p \in Pages :
                /\ Coherent(s.pages[p], s.nodes)
                /\ s.pages[p].data = NoData <=> c.pages[p].data = NoData
                /\ Rowed(s.pages[p].data) = Rowed(c.pages[p].data)
                /\ \A x \in Rowed(s.pages[p].data) :
                     \/ s.pages[p].data[x] = c.pages[p].data[x]
                     \/ c.nodes[x] # NoNode /\ s.pages[p].data[x] = c.nodes[x]
<1> DEFINE entry(p) == [c.pages[p] EXCEPT !.data = Materialized(c.pages[p], c.nodes)]
           s == Dehydrated(c)
<1>1. ASSUME NEW p \in Pages
      PROVE  /\ entry(p) \in Entries /\ Coherent(entry(p), c.nodes)
             /\ entry(p).data = NoData <=> c.pages[p].data = NoData
             /\ Rowed(entry(p).data) = Rowed(c.pages[p].data)
             /\ \A x \in Rowed(entry(p).data) :
                  \/ entry(p).data[x] = c.pages[p].data[x]
                  \/ c.nodes[x] # NoNode /\ entry(p).data[x] = c.nodes[x]
  <2> PICK e \in Entries : e = c.pages[p]
    BY CacheFields
  <2> PICK m : m = Materialized(e, c.nodes)
    OBVIOUS
  <2>1. Coherent(e, c.nodes) /\ c.nodes \in Nodes /\ e.data \in Data \cup {NoData}
    BY CacheFields
  <2>2. m \in Data \cup {NoData} /\ (e.page = NoPage => m = e.data)
    BY <2>1, MaterializedRows
  <2>3. e.page # NoPage => /\ m \in Data /\ DOMAIN m = {r \in e.page : c.nodes[r] # NoNode}
                           /\ \A r \in DOMAIN m : m[r] = c.nodes[r]
    BY <2>1, MaterializedRows
  <2>4. entry(p) = [e EXCEPT !.data = m]
    OBVIOUS
  <2> PICK n : n = [e EXCEPT !.data = m]
    OBVIOUS
  <2> HIDE DEF entry
  <2>5. n \in Entries /\ n.data = m /\ n.page = e.page
    BY <2>2 DEF Entries
  <2>6. CASE e.page = NoPage
    BY <2>2, <2>4, <2>5, <2>6 DEF Coherent
  <2>7. CASE e.page # NoPage
    <3>1. /\ e.data # NoData /\ e.page = DOMAIN e.data /\ \A r \in e.page : c.nodes[r] # NoNode
      BY <2>1, <2>7 DEF Coherent
    <3>2. m # NoData /\ DOMAIN m = e.page /\ \A r \in DOMAIN m : m[r] = c.nodes[r] /\ c.nodes[r] # NoNode
      BY <2>3, <2>7, <3>1, Distinct
    <3>3. Coherent(n, c.nodes)
      BY <2>5, <3>1, <3>2 DEF Coherent
    <3> QED
      BY <2>4, <2>5, <3>1, <3>2, <3>3 DEF Rowed
  <2> QED
    BY <2>6, <2>7
<1>2. s = [nodes |-> c.nodes, pages |-> [p \in Pages |-> entry(p)]]
  BY DEF Dehydrated
<1> HIDE DEF entry, s
<1>3. s \in Snapshots /\ s.nodes = c.nodes /\ \A p \in Pages : s.pages[p] = entry(p)
  BY <1>1, <1>2, CacheFields DEF Snapshots
<1> QED
  BY <1>1, <1>3 DEF s

LEMMA HydratedChanges ==
    ASSUME NEW c \in Caches, NEW s \in Snapshots, \A p \in Pages : Coherent(c.pages[p], c.nodes),
           \A p \in Pages : Coherent(s.pages[p], s.nodes)
    PROVE  LET w == Hydrated(c, s) IN
           /\ w \in Caches /\ w.flight = c.flight
           /\ \A r \in Rows : /\ s.nodes[r] = NoNode => w.nodes[r] = c.nodes[r]
                              /\ s.nodes[r] # NoNode => w.nodes[r] = s.nodes[r] /\ s.nodes[r] \in Shown
           /\ \A p \in Pages :
                /\ Coherent(w.pages[p], w.nodes)
                /\ s.pages[p].data = NoData => w.pages[p] = c.pages[p]
                /\ s.pages[p].data # NoData => /\ w.pages[p].data = s.pages[p].data
                                            /\ w.pages[p].page = s.pages[p].page
<1> DEFINE node(r) == IF s.nodes[r] = NoNode THEN c.nodes[r] ELSE s.nodes[r]
           page(p) == IF s.pages[p].data = NoData THEN c.pages[p]
                      ELSE [s.pages[p] EXCEPT !.refs = c.pages[p].refs]
           nodes == [r \in Rows |-> node(r)]
           w == Hydrated(c, s)
<1>1. /\ s.nodes \in Nodes /\ s.pages \in [Pages -> Entries]
      /\ \A r \in Rows : s.nodes[r] \in Shown \cup {NoNode}
  BY DEF Snapshots, Nodes
<1>2. \A r \in Rows : node(r) \in Shown \cup {NoNode}
  BY <1>1, CacheFields
<1>3. nodes \in Nodes /\ \A r \in Rows : nodes[r] = node(r)
  BY <1>2 DEF Nodes
<1>4. ASSUME NEW p \in Pages
      PROVE  /\ page(p) \in Entries /\ Coherent(page(p), nodes)
             /\ s.pages[p].data = NoData => page(p) = c.pages[p]
             /\ s.pages[p].data # NoData => /\ page(p).data = s.pages[p].data
                                         /\ page(p).page = s.pages[p].page
  <2> PICK e \in Entries : e = c.pages[p]
    BY CacheFields
  <2> PICK b \in Entries : b = s.pages[p]
    BY <1>1
  <2>1. /\ e.page \in (SUBSET Rows) \cup {NoPage} /\ b.page \in (SUBSET Rows) \cup {NoPage}
        /\ Coherent(e, c.nodes) /\ Coherent(b, s.nodes)
    BY DEF Entries
  <2>2. CASE b.data = NoData
    <3>1. page(p) = e
      BY <2>2
    <3>2. Coherent(e, nodes)
      BY <1>3, <2>1 DEF Coherent
    <3> HIDE DEF page
    <3> QED
      BY <2>2, <3>1, <3>2
  <2>3. CASE b.data # NoData
    <3>1. page(p) = [b EXCEPT !.refs = e.refs]
      BY <2>3
    <3> PICK n : n = [b EXCEPT !.refs = e.refs]
      OBVIOUS
    <3>2. n \in Entries /\ n.data = b.data /\ n.page = b.page
      BY DEF Entries
    <3> HIDE DEF page
    <3>3. Coherent(n, nodes)
      BY <1>3, <2>1, <3>2 DEF Coherent
    <3> QED
      BY <2>3, <3>1, <3>2, <3>3
  <2> QED
    BY <2>2, <2>3
<1>5. w = [nodes |-> nodes, pages |-> [p \in Pages |-> page(p)], flight |-> c.flight]
  BY DEF Hydrated
<1> HIDE DEF page, nodes, w
<1>6. w \in Caches /\ w.flight = c.flight /\ w.nodes = nodes /\ \A p \in Pages : w.pages[p] = page(p)
  BY <1>3, <1>4, <1>5, CacheFields DEF Caches
<1> QED
  BY <1>1, <1>3, <1>4, <1>6 DEF w

LEMMA IngestedChanges ==
    ASSUME NEW c \in Caches, NEW q \in Pages, NEW rows \in Data,
           \A p \in Pages : Coherent(c.pages[p], c.nodes)
    PROVE  LET w == Ingested(c, q, rows) IN
           /\ w \in Caches /\ w.flight = c.flight
           /\ \A r \in Rows : \/ w.nodes[r] = c.nodes[r] /\ (w.pages[q].page = NoPage \/ r \notin w.pages[q].page)
                              \/ r \in DOMAIN rows /\ w.nodes[r] = rows[r]
           /\ \A p \in Pages : Coherent(w.pages[p], w.nodes)
           /\ \A p \in Pages \ {q} : w.pages[p] = c.pages[p]
           /\ w.pages[q].data = rows
<1> DEFINE full == q \notin Plain
           node(r) == IF full /\ r \in DOMAIN rows THEN rows[r] ELSE c.nodes[r]
           nodes == [r \in Rows |-> node(r)]
           n == [data |-> rows, page |-> IF full THEN DOMAIN rows ELSE NoPage,
                 refs |-> IF full THEN DOMAIN rows ELSE {}]
           w == Ingested(c, q, rows)
<1>1. DOMAIN rows \in SUBSET Rows /\ rows # NoData /\ \A r \in DOMAIN rows : rows[r] \in Shown
  BY DataOut
<1>2. \A r \in Rows : node(r) \in Shown \cup {NoNode}
  BY <1>1, CacheFields
<1>3. nodes \in Nodes /\ \A r \in Rows : nodes[r] = node(r)
  BY <1>2 DEF Nodes
<1>4. n \in Entries /\ n.data = rows /\ n.page = IF full THEN DOMAIN rows ELSE NoPage
  BY <1>1 DEF Entries
<1>5. Coherent(n, nodes)
  BY <1>1, <1>3, <1>4, Distinct DEF Coherent
<1>6. ASSUME NEW p \in Pages
      PROVE  Coherent(c.pages[p], nodes)
  <2>1. c.pages[p].page \in (SUBSET Rows) \cup {NoPage}
    BY CacheFields
  <2>2. \A r \in Rows : c.nodes[r] # NoNode => nodes[r] # NoNode
    BY <1>1, <1>3, Distinct
  <2> QED
    BY <2>1, <2>2 DEF Coherent
<1>7. w = [nodes |-> nodes, pages |-> [c.pages EXCEPT ![q] = n], flight |-> c.flight]
  BY DEF Ingested
<1>8. \A r \in Rows : \/ nodes[r] = c.nodes[r] /\ (n.page = NoPage \/ r \notin n.page)
                      \/ r \in DOMAIN rows /\ nodes[r] = rows[r]
  BY <1>1, <1>3, <1>4
<1> HIDE DEF nodes, n, w
<1>9. /\ w \in Caches /\ w.nodes = nodes /\ w.flight = c.flight /\ w.pages[q] = n
      /\ \A p \in Pages \ {q} : w.pages[p] = c.pages[p]
  BY <1>3, <1>4, <1>7, CacheFields DEF Caches
<1> QED
  BY <1>4, <1>5, <1>6, <1>8, <1>9 DEF w

LEMMA FlightSet ==
    ASSUME NEW c \in Caches, NEW q \in Pages, NEW f \in Flights
    PROVE  LET w == [c EXCEPT !.flight[q] = f] IN
           /\ w \in Caches /\ w.nodes = c.nodes /\ w.pages = c.pages /\ w.flight[q] = f
           /\ \A p \in Pages \ {q} : w.flight[p] = c.flight[p]
BY DEF Caches

-----------------------------------------------------------------------------
(* The mutations.                                                           *)

LEMMA CallActive ==
    ASSUME Types, NEW m \in Mutations, call[m].phase # "idle"
    PROVE  /\ call[m] \in Calls /\ call[m].row \in Rows /\ call[m].drafts \in BOOLEAN
           /\ call[m].answer \in Nat /\ call[m].snapshot \in Snapshots \cup {NoData}
           /\ call[m].op \in {"update", "delete"}
           /\ call[m].phase \in {"sent", "served", "refused", "thrown", "failed", "ended"}
<1>1. call[m] \in Calls \cup {NoCall}
  BY DEF Types
<1>2. call[m] \in Calls
  BY <1>1 DEF NoCall
<1> QED
  BY <1>2 DEF Calls

LEMMA CallSet ==
    ASSUME Types, NEW m \in Mutations, NEW k \in Calls, call' = [call EXCEPT ![m] = k]
    PROVE  /\ call' \in [Mutations -> Calls \cup {NoCall}] /\ call'[m] = k
           /\ \A n \in Mutations \ {m} :
                /\ call'[n] = call[n] /\ (UnderWay(n)' <=> UnderWay(n)) /\ (Drafts(n)' <=> Drafts(n))
                /\ \A r : Pending(n, r)' <=> Pending(n, r)
                /\ (Unknown(n)' = Unknown(n))
<1>1. /\ call' \in [Mutations -> Calls \cup {NoCall}] /\ call'[m] = k
      /\ \A n \in Mutations \ {m} : call'[n] = call[n]
  BY DEF Types
<1> QED
  BY <1>1 DEF UnderWay, Drafts, Pending, Unknown

LEMMA Goes1 ==
    ASSUME Types, NEW m \in Mutations, call[m].phase # "idle", NEW ph \in {"served", "refused", "thrown", "failed", "ended"},
           Goes(m, ph)
    PROVE  \E k \in Calls : /\ call' = [call EXCEPT ![m] = k] /\ k.phase = ph /\ k.op = call[m].op
                            /\ k.row = call[m].row /\ k.drafts = call[m].drafts
                            /\ k.answer = call[m].answer /\ k.snapshot = call[m].snapshot
<1> PICK o \in Calls : o = call[m]
  BY CallActive
<1>1. call' = [call EXCEPT ![m] = [o EXCEPT !.phase = ph]]
  BY DEF Goes, Types
<1> PICK k : k = [o EXCEPT !.phase = ph]
  OBVIOUS
<1>2. /\ k \in Calls /\ k.phase = ph /\ k.op = o.op /\ k.row = o.row /\ k.drafts = o.drafts
      /\ k.answer = o.answer /\ k.snapshot = o.snapshot
  BY DEF Calls
<1> QED
  BY <1>1, <1>2

LEMMA End1 ==
    ASSUME Types, NEW m \in Mutations, call[m].phase # "idle", End(m)
    PROVE  \E k \in Calls : call' = [call EXCEPT ![m] = k] /\ k.phase = "ended"
<1> PICK o \in Calls : o = call[m]
  BY CallActive
<1>1. call' = [call EXCEPT ![m] = [o EXCEPT !.phase = "ended", !.snapshot = NoData]]
  BY DEF End, Types
<1> PICK k : k = [o EXCEPT !.phase = "ended", !.snapshot = NoData]
  OBVIOUS
<1>2. k \in Calls /\ k.phase = "ended"
  BY DEF Calls
<1> QED
  BY <1>1, <1>2

-----------------------------------------------------------------------------
(* Steps that leave the rows of the cache alone.                            *)

\* No mutation begins in the step, and one ends only if its row is behind.
DraftsKept ==
    \A m \in Mutations : /\ Drafts(m)' => Drafts(m) /\ call'[m].snapshot = call[m].snapshot
                         /\ call'[m].phase = "failed" => call'[m].drafts
CallsKept ==
    DraftsKept /\ \A m \in Mutations : \A r : Pending(m, r) => r \in behind' \/ Pending(m, r)'

LEMMA CallsStayOk ==
    ASSUME Shape, DraftsKept
    PROVE  /\ \A m \in Mutations : CallOk(m)'
           /\ \A m \in Mutations : Drafts(m)' => Unknown(m)' = Unknown(m)
<1>1. ASSUME NEW m \in Mutations
      PROVE  CallOk(m)'
  <2>1. call'[m].phase = "failed" => call'[m].drafts
    BY DEF CallsKept, DraftsKept
  <2>2. ASSUME Drafts(m)'
        PROVE  /\ call'[m].snapshot \in Snapshots
               /\ \A p \in Pages : Coherent(call'[m].snapshot.pages[p], call'[m].snapshot.nodes)
    <3>1. CallOk(m) /\ Drafts(m) /\ call'[m].snapshot = call[m].snapshot
      BY <2>2 DEF Shape, CallsKept, DraftsKept
    <3> QED
      BY <3>1 DEF CallOk
  <2> QED
    BY <2>1, <2>2 DEF CallOk, Coherent
<1>2. \A m \in Mutations : Drafts(m)' => Unknown(m)' = Unknown(m)
  BY DEF CallsKept, DraftsKept, Unknown
<1> QED
  BY <1>1, <1>2

\* What a step must show of the rows and the pages it leaves.
LEMMA NodesCurrentNext ==
    ASSUME NEW w, cache' = w, \A x \in Rows : w.nodes[x] # NoNode => Current(x, w.nodes[x])'
    PROVE  NodesCurrent'
<1> QED
  BY DEF NodesCurrent, Current, IsOlder, Pending, Drafts, UnderWay

LEMMA PagesCurrentNext ==
    ASSUME NEW w, cache' = w,
           \A p \in Pages : ~Awaits(p)' => \A x \in Rowed(w.pages[p].data) : Current(x, w.pages[p].data[x])'
    PROVE  PagesCurrent'
<1> SUFFICES ASSUME NEW p \in Pages, ~Awaits(p)', NEW x \in Rowed(cache'.pages[p].data)
             PROVE  Current(x, cache.pages[p].data[x])'
  BY DEF PagesCurrent
<1>1. x \in Rowed(w.pages[p].data)
  OBVIOUS
<1>2. Current(x, w.pages[p].data[x])'
  BY <1>1
<1> QED
  BY <1>2 DEF Current, IsOlder, Pending, Drafts, UnderWay

LEMMA NodesDraftedNext ==
    ASSUME NEW w, cache' = w,
           \A x \in Rows : w.nodes[x] # NoNode => Clean(x, w.nodes[x])' \/ Pending(w.nodes[x].draft, x)'
    PROVE  NodesDrafted'
<1> QED
  BY DEF NodesDrafted, Clean, Pending, Drafts, UnderWay

LEMMA PagesDraftedNext ==
    ASSUME NEW w, cache' = w,
           \A p \in Pages : \A x \in Rowed(w.pages[p].data) :
               Clean(x, w.pages[p].data[x])' \/ (p \notin Watched /\ Pending(w.pages[p].data[x].draft, x)')
    PROVE  PagesDrafted'
<1> SUFFICES ASSUME NEW p \in Pages, NEW x \in Rowed(cache'.pages[p].data)
             PROVE  \/ Clean(x, cache.pages[p].data[x])'
                    \/ p \notin Watched /\ Pending(cache.pages[p].data[x].draft, x)'
  BY DEF PagesDrafted
<1>1. x \in Rowed(w.pages[p].data)
  OBVIOUS
<1>2. Clean(x, w.pages[p].data[x])' \/ (p \notin Watched /\ Pending(w.pages[p].data[x].draft, x)')
  BY <1>1
<1> QED
  BY <1>2 DEF Clean, Pending, Drafts, UnderWay

\* Snapshots stay clean, for behind only grows.
LEMMA SnapshotsStayClean ==
    ASSUME Drafted, ~mixed, DraftsKept, behind \subseteq behind', NEW m \in Mutations, Drafts(m)'
    PROVE  SnapshotClean(call[m].snapshot)'
<1>1. SnapshotClean(call[m].snapshot) /\ call'[m].snapshot = call[m].snapshot
  BY DEF Drafted, CallsKept, DraftsKept
<1> QED
  BY <1>1 DEF SnapshotClean, Clean

LEMMA Still ==
    ASSUME IInv, Types', cache'.pages = cache.pages, cache'.nodes = cache.nodes,
           \A p \in Pages : FlightOk(cache.flight[p])' /\ (Awaits(p) => Awaits(p)'),
           CallsKept, behind \subseteq behind', UNCHANGED <<confirmed, removed, mixed>>
    PROVE  IInv'
<1>1. Types /\ Shape /\ Fresh /\ Drafted
  BY DEF IInv
<1>2. /\ \A m \in Mutations : CallOk(m)'
      /\ \A m \in Mutations : Drafts(m)' => Unknown(m)' = Unknown(m)
  BY <1>1, CallsStayOk DEF CallsKept
<1>3. \A m : \A r : Pending(m, r) => r \in behind' \/ Pending(m, r)'
  BY DEF Pending, CallsKept, DraftsKept
<1>4. \A r, row : /\ Current(r, row) => Current(r, row)'
                  /\ Clean(r, row) => Clean(r, row)'
                  /\ Pending(row.draft, r) => Clean(r, row)' \/ Pending(row.draft, r)'
                  /\ IsOlder(r, row)' <=> IsOlder(r, row)
  BY <1>3 DEF Current, IsOlder, Clean
<1>5. Shape'
  BY <1>1, <1>2 DEF Shape
<1>6. Fresh'
  <2>1. NodesCurrent'
    BY <1>1, <1>4 DEF Fresh, NodesCurrent
  <2>2. PagesCurrent'
    BY <1>1, <1>4 DEF Fresh, PagesCurrent
  <2>3. ASSUME NEW m \in Mutations, Drafts(m)'
        PROVE  UnknownCurrent(m)'
    <3>1. UnknownCurrent(m) /\ Unknown(m)' = Unknown(m) /\ Unknown(m) \subseteq Pages
      BY <1>1, <1>2, <2>3 DEF Fresh, CallsKept, DraftsKept, Unknown
    <3> QED
      BY <1>4, <3>1 DEF UnknownCurrent
  <2> QED
    BY <2>1, <2>2, <2>3 DEF Fresh
<1>7. Drafted'
  <2>1. SUFFICES ASSUME ~mixed
                 PROVE  Drafted'
    BY DEF Drafted
  <2>2. NodesDrafted'
    BY <1>1, <1>4, <2>1 DEF Drafted, NodesDrafted
  <2>3. PagesDrafted'
    BY <1>1, <1>4, <2>1 DEF Drafted, PagesDrafted
  <2>4. ASSUME NEW m \in Mutations, Drafts(m)'
        PROVE  SnapshotClean(call[m].snapshot)' /\ UnknownDrafted(m)'
    <3>1. UnknownDrafted(m) /\ Unknown(m)' = Unknown(m)
      BY <1>1, <1>2, <2>1, <2>4 DEF Drafted, CallsKept, DraftsKept
    <3>2. UnknownDrafted(m)'
      BY <3>1 DEF UnknownDrafted
    <3> QED
      BY <1>1, <2>1, <2>4, <3>2, SnapshotsStayClean DEF CallsKept
  <2>5. \A m, n \in Mutations : Drafts(m)' /\ Drafts(n)' => m = n
    BY <1>1, <2>1 DEF Drafted, CallsKept, DraftsKept
  <2> QED
    BY <2>2, <2>3, <2>4, <2>5 DEF Drafted
<1> QED
  BY <1>5, <1>6, <1>7 DEF IInv

LEMMA Quiet ==
    ASSUME IInv, Types', cache'.pages = cache.pages, cache'.nodes = cache.nodes,
           \A p \in Pages : FlightOk(cache.flight[p])' /\ (Awaits(p) => Awaits(p)'),
           \A m \in Mutations :
              /\ Drafts(m)' <=> Drafts(m)
              /\ Drafts(m) => /\ call'[m].op = call[m].op /\ call'[m].row = call[m].row
                              /\ call'[m].snapshot = call[m].snapshot
              /\ call'[m].phase = "failed" => call'[m].drafts,
           UNCHANGED history
    PROVE  IInv'
<1>1. CallsKept
  BY DEF CallsKept, DraftsKept, Pending
<1> QED
  BY <1>1, Still DEF history

LEMMA Initially ==
    ASSUME Init
    PROVE  IInv
<1>0. PICK loaded \in SUBSET Pages :
       cache = [nodes |-> [r \in Rows |-> IF loaded \ Plain = {} THEN NoNode ELSE Version(0)],
                pages |-> [p \in Pages |->
                   IF p \notin loaded THEN [data |-> NoData, page |-> NoPage, refs |-> {}]
                   ELSE [data |-> [r \in Rows |-> Version(0)],
                         page |-> IF p \in Plain THEN NoPage ELSE Rows,
                         refs |-> IF p \in Plain THEN {} ELSE Rows]],
                flight |-> [p \in Pages |-> NoFlight]]
  BY DEF Init
<1> DEFINE D == [r \in Rows |-> Version(0)]
           N == [r \in Rows |-> IF loaded \ Plain = {} THEN NoNode ELSE Version(0)]
           page(p) == IF p \notin loaded THEN [data |-> NoData, page |-> NoPage, refs |-> {}]
                      ELSE [data |-> D, page |-> IF p \in Plain THEN NoPage ELSE Rows,
                            refs |-> IF p \in Plain THEN {} ELSE Rows]
<1>1. Version(0) \in Shown /\ Version(0).version = 0 /\ Version(0).draft = NoMutation
  BY VersionShown
<1>2. D \in [Rows -> Shown] /\ N \in Nodes /\ \A r \in Rows : D[r] = Version(0) /\ (N[r] = NoNode \/ N[r] = Version(0))
  BY <1>1 DEF Nodes
<1>3. D \in Data /\ DOMAIN D = Rows /\ D # NoData
  BY <1>2, DataIn
<1>4. \A p \in Pages : p \in loaded /\ p \notin Plain => \A r \in Rows : N[r] = Version(0)
  OBVIOUS
<1> HIDE DEF D, N
<1>5. ASSUME NEW p \in Pages
      PROVE  /\ page(p) \in Entries /\ page(p).data \in {D, NoData}
             /\ page(p).page # NoPage => /\ p \in loaded /\ p \notin Plain /\ page(p).page = Rows
                                         /\ page(p).data = D
  BY <1>3 DEF Entries
<1>6. cache = [nodes |-> N, pages |-> [p \in Pages |-> page(p)], flight |-> [p \in Pages |-> NoFlight]]
  BY <1>0 DEF N, D
<1>7. NoFlight \in Flights /\ ~NoFlight.live /\ FlightOk(NoFlight)
  BY DEF NoFlight, Flights, Phases, FlightOk
<1> HIDE DEF page
<1>8. /\ cache.nodes = N /\ \A p \in Pages : cache.pages[p] = page(p) /\ cache.flight[p] = NoFlight
      /\ cache \in Caches
  <2> DEFINE ps == [p \in Pages |-> page(p)]
             fs == [p \in Pages |-> NoFlight]
  <2>1. ps \in [Pages -> Entries] /\ \A p \in Pages : ps[p] = page(p)
    BY <1>5
  <2>2. fs \in [Pages -> Flights] /\ \A p \in Pages : fs[p] = NoFlight
    BY <1>7
  <2> HIDE DEF ps, fs
  <2>3. cache = [nodes |-> N, pages |-> ps, flight |-> fs]
    BY <1>6 DEF ps, fs
  <2>4. cache.nodes = N /\ cache.pages = ps /\ cache.flight = fs
    BY <2>3
  <2>5. cache \in Caches
    BY <1>2, <2>1, <2>2, <2>3 DEF Caches
  <2> QED
    BY <2>1, <2>2, <2>4, <2>5
<1>9. /\ call = [m \in Mutations |-> NoCall] /\ fetches = 0 /\ server = [r \in Rows |-> 0] /\ gone = {}
      /\ confirmed = [r \in Rows |-> 0] /\ removed = {} /\ behind = {} /\ mixed = FALSE
  BY DEF Init
<1>10. \A m \in Mutations : call[m].phase = "idle" /\ ~Drafts(m)
  BY <1>9 DEF NoCall, Drafts, UnderWay
<1>11. Types
  <2>1. call \in [Mutations -> Calls \cup {NoCall}]
    BY <1>9
  <2>2. server \in [Rows -> Nat] /\ confirmed \in [Rows -> Nat]
    BY <1>9
  <2>3. fetches \in 0 .. MaxFetches
    BY <1>9, Distinct
  <2>4. gone \in SUBSET Rows /\ removed \in SUBSET Rows /\ behind \in SUBSET Rows /\ mixed \in BOOLEAN
    BY <1>9
  <2> QED
    BY <1>8, <2>1, <2>2, <2>3, <2>4 DEF Types
<1>12. Shape
  <2>1. \A p \in Pages : Coherent(cache.pages[p], cache.nodes)
    <3>1. ASSUME NEW p \in Pages, page(p).page # NoPage
          PROVE  /\ page(p).data = D /\ page(p).page = DOMAIN D /\ \A r \in Rows : N[r] # NoNode
      BY <1>1, <1>3, <1>4, <1>5, <3>1, Distinct
    <3> QED
      BY <1>3, <1>8, <3>1 DEF Coherent
  <2>2. \A m \in Mutations : CallOk(m)
    BY <1>10 DEF CallOk
  <2> QED
    BY <1>7, <1>8, <2>1, <2>2 DEF Shape
<1>13. \A p \in Pages : \A r \in Rowed(cache.pages[p].data) : r \in Rows /\ cache.pages[p].data[r] = Version(0)
  BY <1>2, <1>3, <1>5, <1>8 DEF Rowed
<1>14. \A r \in Rows : ~IsOlder(r, Version(0))
  BY <1>1, <1>9 DEF IsOlder
<1>15. Fresh
  <2>1. NodesCurrent
    BY <1>2, <1>8, <1>14 DEF NodesCurrent, Current
  <2>2. PagesCurrent
    BY <1>13, <1>14 DEF PagesCurrent, Current
  <2> QED
    BY <1>10, <2>1, <2>2 DEF Fresh
<1>16. Drafted
  <2>1. NodesDrafted
    BY <1>1, <1>2, <1>8 DEF NodesDrafted, Clean
  <2>2. PagesDrafted
    BY <1>1, <1>13 DEF PagesDrafted, Clean
  <2> QED
    BY <1>10, <2>1, <2>2 DEF Drafted
<1> QED
  BY <1>11, <1>12, <1>15, <1>16 DEF IInv

LEMMA AfterFetch ==
    ASSUME IInv, NEW q \in Pages, Fetch(q)
    PROVE  IInv'
<1>1. /\ cache.flight[q].phase = "none" /\ cache' = [cache EXCEPT !.flight[q] = Sent]
      /\ fetches < MaxFetches /\ fetches' = fetches + 1
      /\ UNCHANGED <<server, gone, call, history>>
  BY DEF Fetch
<1>2. Types /\ Shape
  BY DEF IInv
<1> PICK f \in Flights : f = cache.flight[q]
  BY <1>2, CacheFields DEF Types
<1>3. Sent \in Flights /\ FlightOk(Sent) /\ Sent.live
  BY FlightChanged
<1>4. /\ cache' \in Caches /\ cache'.nodes = cache.nodes /\ cache'.pages = cache.pages
      /\ cache'.flight[q] = Sent /\ \A p \in Pages \ {q} : cache'.flight[p] = cache.flight[p]
  BY <1>1, <1>2, <1>3, FlightSet DEF Types
<1>5. Types'
  BY <1>1, <1>2, <1>4, Distinct DEF Types, history
<1>6. \A p \in Pages : FlightOk(cache.flight[p])' /\ (Awaits(p) => Awaits(p)')
  BY <1>2, <1>3, <1>4 DEF Shape, FlightOk, Awaits
<1>7. \A m \in Mutations : /\ Drafts(m)' <=> Drafts(m)
                           /\ call'[m].phase = "failed" => call'[m].drafts
  BY <1>1, <1>2 DEF Drafts, UnderWay, Shape, CallOk
<1> QED
  BY <1>1, <1>4, <1>5, <1>6, <1>7, Quiet

LEMMA AfterRead ==
    ASSUME IInv, NEW q \in Pages, Read(q)
    PROVE  IInv'
<1> DEFINE S == Rows \ gone
           rows == [r \in S |-> Version(server[r])]
<1>1. Types /\ Shape
  BY DEF IInv
<1> PICK f \in Flights : f = cache.flight[q]
  BY <1>1, CacheFields DEF Types
<1> PICK g : g = [f EXCEPT !.phase = "read", !.rows = rows]
  OBVIOUS
<1>2. /\ f.phase = "sent" /\ cache' = [cache EXCEPT !.flight[q] = g]
      /\ UNCHANGED <<server, gone, call, fetches, history>>
  BY <1>1 DEF Read, Types, Caches
<1>3. \A r \in S : Version(server[r]) \in Shown /\ Version(server[r]).draft = NoMutation
  BY <1>1, VersionShown DEF Types
<1>4. rows \in [S -> Shown] /\ S \in SUBSET Rows
  BY <1>3
<1>5. rows \in Data /\ DOMAIN rows = S
  BY <1>4, DataIn
<1>6. \A r \in DOMAIN rows : rows[r].draft = NoMutation
  BY <1>3
<1> HIDE DEF rows
<1>7. g \in Flights /\ g.phase = "read" /\ g.live = f.live /\ g.rows = rows
  BY <1>5 DEF Flights, Phases
<1>8. FlightOk(g)
  BY <1>5, <1>6, <1>7 DEF FlightOk
<1>9. /\ cache' \in Caches /\ cache'.nodes = cache.nodes /\ cache'.pages = cache.pages
      /\ cache'.flight[q] = g /\ \A p \in Pages \ {q} : cache'.flight[p] = cache.flight[p]
  BY <1>1, <1>2, <1>7, FlightSet DEF Types
<1>10. Types'
  BY <1>1, <1>2, <1>9 DEF Types, history
<1>11. \A p \in Pages : FlightOk(cache.flight[p])' /\ (Awaits(p) => Awaits(p)')
  <2>1. SUFFICES ASSUME NEW p \in Pages
                 PROVE  FlightOk(cache'.flight[p]) /\ (Awaits(p) => Awaits(p)')
    BY DEF FlightOk
  <2>2. CASE p = q
    BY <1>7, <1>8, <1>9, <2>2 DEF Awaits
  <2>3. CASE p # q
    <3>1. cache'.flight[p] = cache.flight[p] /\ FlightOk(cache.flight[p])
      BY <1>1, <1>9, <2>3 DEF Shape
    <3> QED
      BY <3>1 DEF Awaits
  <2> QED
    BY <2>2, <2>3
<1>12. \A m \in Mutations : /\ Drafts(m)' <=> Drafts(m)
                            /\ call'[m].phase = "failed" => call'[m].drafts
  BY <1>1, <1>2 DEF Drafts, UnderWay, Shape, CallOk
<1> QED
  BY <1>2, <1>9, <1>10, <1>11, <1>12, Quiet

LEMMA AfterServe ==
    ASSUME IInv, NEW m \in Mutations, Serve(m)
    PROVE  IInv'
<1>1. Types /\ Shape /\ call[m].phase = "sent" /\ UNCHANGED <<cache, fetches, history>>
  BY DEF IInv, Serve
<1> PICK o \in Calls : o = call[m] /\ o.row \in Rows
  BY <1>1, CallActive
<1>2. \E k \in Calls : /\ call' = [call EXCEPT ![m] = k] /\ k.phase = "served" /\ k.op = o.op
                       /\ k.row = o.row /\ k.drafts = o.drafts /\ k.snapshot = o.snapshot
  <2>1. CASE Goes(m, "served")
    BY <1>1, <2>1, Goes1
  <2>2. CASE /\ server' = [server EXCEPT ![o.row] = @ + 1]
             /\ call' = [call EXCEPT ![m] = [@ EXCEPT !.phase = "served", !.answer = server'[o.row]]]
    <3>1. server'[o.row] \in Nat
      BY <1>1, <2>2 DEF Types
    <3> PICK k : k = [o EXCEPT !.phase = "served", !.answer = server'[o.row]]
      OBVIOUS
    <3>2. call' = [call EXCEPT ![m] = k]
      BY <1>1, <2>2 DEF Types
    <3>3. /\ k \in Calls /\ k.phase = "served" /\ k.op = o.op
          /\ k.row = o.row /\ k.drafts = o.drafts /\ k.snapshot = o.snapshot
      BY <3>1 DEF Calls
    <3> QED
      BY <3>2, <3>3
  <2> QED
    BY <2>1, <2>2 DEF Serve
<1> PICK k \in Calls : /\ call' = [call EXCEPT ![m] = k] /\ k.phase = "served" /\ k.op = o.op
                       /\ k.row = o.row /\ k.drafts = o.drafts /\ k.snapshot = o.snapshot
  BY <1>2
<1>3. server' \in [Rows -> Nat] /\ gone' \in SUBSET Rows
  BY <1>1 DEF Serve, Types
<1>4. /\ call' \in [Mutations -> Calls \cup {NoCall}] /\ call'[m] = k
      /\ \A n \in Mutations \ {m} : call'[n] = call[n] /\ (Drafts(n)' <=> Drafts(n))
  BY <1>1, CallSet
<1>5. Types'
  BY <1>1, <1>3, <1>4 DEF Types, history
<1>6. \A n \in Mutations : /\ Drafts(n)' <=> Drafts(n)
                           /\ Drafts(n) => /\ call'[n].op = call[n].op /\ call'[n].row = call[n].row
                                           /\ call'[n].snapshot = call[n].snapshot
                           /\ call'[n].phase = "failed" => call'[n].drafts
  BY <1>1, <1>4 DEF Drafts, UnderWay, Shape, CallOk
<1>7. \A p \in Pages : FlightOk(cache.flight[p])' /\ (Awaits(p) => Awaits(p)')
  BY <1>1 DEF Shape, Awaits, FlightOk
<1> QED
  BY <1>1, <1>5, <1>6, <1>7, Quiet

LEMMA AfterRefuse ==
    ASSUME IInv, NEW m \in Mutations, Refuse(m)
    PROVE  IInv'
<1>1. Types /\ Shape /\ call[m].phase = "sent" /\ UNCHANGED <<server, gone, cache, fetches, history>>
  BY DEF IInv, Refuse
<1> PICK how \in {"refused", "thrown"} : Goes(m, how)
  BY DEF Refuse
<1> PICK k \in Calls : /\ call' = [call EXCEPT ![m] = k] /\ k.phase = how /\ k.op = call[m].op
                       /\ k.row = call[m].row /\ k.drafts = call[m].drafts /\ k.snapshot = call[m].snapshot
  BY <1>1, Goes1
<1>2. /\ call' \in [Mutations -> Calls \cup {NoCall}] /\ call'[m] = k
      /\ \A n \in Mutations \ {m} : call'[n] = call[n] /\ (Drafts(n)' <=> Drafts(n))
  BY <1>1, CallSet
<1>3. Types'
  BY <1>1, <1>2 DEF Types, history
<1>4. \A n \in Mutations : /\ Drafts(n)' <=> Drafts(n)
                           /\ Drafts(n) => /\ call'[n].op = call[n].op /\ call'[n].row = call[n].row
                                           /\ call'[n].snapshot = call[n].snapshot
                           /\ call'[n].phase = "failed" => call'[n].drafts
  BY <1>1, <1>2 DEF Drafts, UnderWay, Shape, CallOk
<1>5. \A p \in Pages : FlightOk(cache.flight[p])' /\ (Awaits(p) => Awaits(p)')
  BY <1>1 DEF Shape, Awaits, FlightOk
<1> QED
  BY <1>1, <1>3, <1>4, <1>5, Quiet

\* removeEntity takes the row off every page that lists it; a page that waited
\* for a request which this supersedes is behind with what it shows.
LEMMA AfterRemoval ==
    ASSUME IInv, Types', NEW r \in Rows, cache' = ReconcileDelete(cache, r),
           behind' = behind \cup Overtaken, removed' \in {removed, removed \cup {r}},
           UNCHANGED <<confirmed, mixed>>, CallsKept
    PROVE  IInv'
<1>1. Types /\ Shape /\ Fresh /\ Drafted /\ behind \subseteq behind'
  BY DEF IInv
<1> DEFINE v == ReconcileDelete(cache, r)
<1>2. /\ \A p \in Pages : Coherent(cache.pages[p], cache.nodes)
      /\ cache \in Caches /\ cache' = v
  BY <1>1 DEF Types, Shape
<1>3. /\ v \in Caches /\ v.nodes[r] = NoNode /\ \A x \in Rows \ {r} : v.nodes[x] = cache.nodes[x]
      /\ \A p \in Pages :
           /\ Coherent(v.pages[p], v.nodes)
           /\ v.pages[p].page # NoPage => /\ v.pages[p].page = cache.pages[p].page
                                          /\ r \notin cache.pages[p].page
           /\ Rowed(v.pages[p].data) = Rowed(cache.pages[p].data) \ {r}
           /\ v.pages[p].data = NoData <=> cache.pages[p].data = NoData
           /\ \A x \in Rowed(v.pages[p].data) : v.pages[p].data[x] = cache.pages[p].data[x]
           /\ FlightOk(cache.flight[p]) => FlightOk(v.flight[p])
  BY <1>2, ReconcileDeleteChanges
<1> HIDE DEF v
<1> PICK w : w = v
  OBVIOUS
<1>4. /\ w \in Caches /\ w.nodes[r] = NoNode /\ \A x \in Rows \ {r} : w.nodes[x] = cache.nodes[x]
      /\ \A p \in Pages :
           /\ Coherent(w.pages[p], w.nodes)
           /\ w.pages[p].page # NoPage => /\ w.pages[p].page = cache.pages[p].page
                                          /\ r \notin cache.pages[p].page
           /\ Rowed(w.pages[p].data) = Rowed(cache.pages[p].data) \ {r}
           /\ w.pages[p].data = NoData <=> cache.pages[p].data = NoData
           /\ \A x \in Rowed(w.pages[p].data) : w.pages[p].data[x] = cache.pages[p].data[x]
           /\ FlightOk(cache.flight[p]) => FlightOk(w.flight[p])
  BY <1>3
<1>5. cache' = w
  BY <1>2
<1>6. \A p \in Pages : /\ Rowed(cache.pages[p].data) \subseteq Rows
                       /\ cache.pages[p].page # NoPage => cache.pages[p].page \subseteq Rows
  BY <1>1, CacheFields, RowedIn DEF Types
<1>7. /\ \A m \in Mutations : CallOk(m)'
      /\ \A m \in Mutations : Drafts(m)' => Unknown(m)' = Unknown(m)
  BY <1>1, CallsStayOk DEF CallsKept
<1>8. Shape'
  BY <1>1, <1>4, <1>5, <1>7 DEF Shape, Coherent, FlightOk
<1>9. ASSUME NEW x \in Rows \ {r}, NEW row
      PROVE  /\ IsOlder(x, row)' <=> IsOlder(x, row)
             /\ Current(x, row) => Current(x, row)'
             /\ Pending(row.draft, x) => x \in behind' \/ Pending(row.draft, x)'
  <2>1. confirmed'[x] = confirmed[x] /\ (x \in removed' <=> x \in removed)
    OBVIOUS
  <2>2. Pending(row.draft, x) => x \in behind' \/ Pending(row.draft, x)'
    BY DEF Pending, CallsKept, DraftsKept
  <2> QED
    BY <1>1, <2>1, <2>2 DEF Current, IsOlder
<1>10. ASSUME NEW p \in Pages, Awaits(p), ~Awaits(p)', NEW x \in Rowed(w.pages[p].data), IsOlder(x, w.pages[p].data[x])
      PROVE  x \in behind'
  <2>1. cache.flight[p].live /\ ~cache'.flight[p].live
    BY <1>10 DEF Awaits
  <2>2. x \in Older(cache'.pages[p].data)
    BY <1>5, <1>10 DEF Older
  <2> QED
    BY <2>1, <2>2 DEF Overtaken
<1>11. Fresh'
  <2>1. NodesCurrent'
    <3>1. SUFFICES ASSUME NEW x \in Rows, w.nodes[x] # NoNode
                   PROVE  Current(x, w.nodes[x])'
      BY <1>5, NodesCurrentNext
    <3>2. x # r /\ w.nodes[x] = cache.nodes[x] /\ Current(x, cache.nodes[x])
      BY <1>1, <1>4, <3>1 DEF Fresh, NodesCurrent
    <3> QED
      BY <1>5, <1>9, <3>2
  <2>2. PagesCurrent'
    <3>1. SUFFICES ASSUME NEW p \in Pages, ~Awaits(p)', NEW x \in Rowed(w.pages[p].data)
                   PROVE  Current(x, w.pages[p].data[x])'
      BY <1>5, PagesCurrentNext
    <3>2. x \in Rows \ {r} /\ x \in Rowed(cache.pages[p].data) /\ w.pages[p].data[x] = cache.pages[p].data[x]
      BY <1>4, <1>6
    <3>3. CASE Awaits(p)
      BY <1>9, <1>10, <3>1, <3>2, <3>3 DEF Current
    <3>4. CASE ~Awaits(p)
      <4>1. Current(x, cache.pages[p].data[x])
        BY <1>1, <3>2, <3>4 DEF Fresh, PagesCurrent
      <4> QED
        BY <1>9, <3>2, <4>1
    <3> QED
      BY <3>3, <3>4
  <2>3. ASSUME NEW m \in Mutations, Drafts(m)'
        PROVE  UnknownCurrent(m)'
    <3>1. UnknownCurrent(m) /\ Unknown(m)' = Unknown(m) /\ Unknown(m) \subseteq Pages
      BY <1>1, <1>7, <2>3 DEF Fresh, CallsKept, DraftsKept, Unknown
    <3>2. ASSUME NEW p \in Unknown(m), ~Awaits(p)', NEW x \in Rowed(w.pages[p].data),
                 w.pages[p].data[x].draft = m, IsOlder(x, w.pages[p].data[x])'
          PROVE  x \in behind'
      <4>1. p \in Pages /\ x \in Rows \ {r} /\ x \in Rowed(cache.pages[p].data)
            /\ w.pages[p].data[x] = cache.pages[p].data[x]
        BY <1>4, <1>6, <3>1, <3>2
      <4>2. IsOlder(x, w.pages[p].data[x])
        BY <1>9, <3>2, <4>1
      <4>3. CASE Awaits(p)
        BY <1>10, <3>2, <4>1, <4>2, <4>3
      <4>4. CASE ~Awaits(p)
        BY <1>1, <3>1, <3>2, <4>1, <4>2, <4>4 DEF UnknownCurrent
      <4> QED
        BY <4>3, <4>4
    <3>3. ASSUME NEW p \in Unknown(m), w.pages[p].page # NoPage, NEW x \in w.pages[p].page,
                 w.nodes[x].draft = m, IsOlder(x, w.nodes[x])'
          PROVE  x \in behind'
      <4>1. /\ p \in Pages /\ x \in Rows \ {r} /\ x \in cache.pages[p].page /\ cache.pages[p].page # NoPage
            /\ w.nodes[x] = cache.nodes[x]
        BY <1>4, <1>6, <3>1, <3>3
      <4>2. IsOlder(x, cache.nodes[x])
        BY <1>9, <3>3, <4>1
      <4> QED
        BY <1>1, <3>1, <3>3, <4>1, <4>2 DEF UnknownCurrent
    <3> QED
      BY <1>5, <3>1, <3>2, <3>3 DEF UnknownCurrent, IsOlder, Awaits
  <2> QED
    BY <2>1, <2>2, <2>3 DEF Fresh
<1>12. Drafted'
  <2>1. SUFFICES ASSUME ~mixed
                 PROVE  /\ NodesDrafted' /\ PagesDrafted'
                        /\ \A m \in Mutations : Drafts(m)' =>
                             SnapshotClean(call[m].snapshot)' /\ UnknownDrafted(m)'
                        /\ \A m, n \in Mutations : Drafts(m)' /\ Drafts(n)' => m = n
    BY DEF Drafted
  <2>2. NodesDrafted'
    <3>1. SUFFICES ASSUME NEW x \in Rows, w.nodes[x] # NoNode
                   PROVE  Clean(x, w.nodes[x])' \/ Pending(w.nodes[x].draft, x)'
      BY <1>5, NodesDraftedNext
    <3>2. x # r /\ w.nodes[x] = cache.nodes[x] /\ (Clean(x, cache.nodes[x]) \/ Pending(cache.nodes[x].draft, x))
      BY <1>1, <1>4, <2>1, <3>1 DEF Drafted, NodesDrafted
    <3> QED
      BY <1>1, <1>9, <3>2 DEF Clean
  <2>3. PagesDrafted'
    <3>1. SUFFICES ASSUME NEW p \in Pages, NEW x \in Rowed(w.pages[p].data)
                   PROVE  Clean(x, w.pages[p].data[x])' \/ (p \notin Watched /\ Pending(w.pages[p].data[x].draft, x)')
      BY <1>5, PagesDraftedNext
    <3>2. x \in Rows \ {r} /\ x \in Rowed(cache.pages[p].data) /\ w.pages[p].data[x] = cache.pages[p].data[x]
      BY <1>4, <1>6
    <3>3. Clean(x, cache.pages[p].data[x]) \/ (p \notin Watched /\ Pending(cache.pages[p].data[x].draft, x))
      BY <1>1, <2>1, <3>2 DEF Drafted, PagesDrafted
    <3> QED
      BY <1>1, <1>9, <3>2, <3>3 DEF Clean
  <2>4. ASSUME NEW m \in Mutations, Drafts(m)'
        PROVE  UnknownDrafted(m)'
    <3>1. UnknownDrafted(m) /\ Unknown(m)' = Unknown(m) /\ Unknown(m) \subseteq Pages
      BY <1>1, <1>7, <2>1, <2>4 DEF Drafted, CallsKept, DraftsKept, Unknown
    <3>2. \A p \in Unknown(m) : \A x \in Rowed(w.pages[p].data) : w.pages[p].data[x].draft = m => x \in behind'
      BY <1>1, <1>4, <3>1 DEF UnknownDrafted
    <3>3. ASSUME NEW p \in Unknown(m), w.pages[p].page # NoPage, NEW x \in w.pages[p].page, w.nodes[x].draft = m
          PROVE  x \in behind'
      <4>1. /\ p \in Pages /\ x \in Rows \ {r} /\ x \in cache.pages[p].page /\ cache.pages[p].page # NoPage
            /\ w.nodes[x] = cache.nodes[x]
        BY <1>4, <1>6, <3>1, <3>3
      <4> QED
        BY <1>1, <3>1, <3>3, <4>1 DEF UnknownDrafted
    <3> QED
      BY <1>5, <3>1, <3>2, <3>3 DEF UnknownDrafted
  <2>5. \A m, n \in Mutations : Drafts(m)' /\ Drafts(n)' => m = n
    BY <1>1, <2>1 DEF Drafted, CallsKept, DraftsKept
  <2> QED
    BY <1>1, <2>1, <2>2, <2>3, <2>4, <2>5, SnapshotsStayClean DEF CallsKept
<1> QED
  BY <1>8, <1>11, <1>12 DEF IInv

LEMMA AfterDeleted ==
    ASSUME IInv, NEW m \in Mutations, Deleted(m)
    PROVE  IInv'
<1>1. /\ Types /\ Shape /\ call[m].phase = "served" /\ call[m].op = "delete" /\ End(m)
      /\ cache' = ReconcileDelete(cache, call[m].row) /\ removed' = removed \cup {call[m].row}
      /\ behind' = behind \cup Overtaken /\ UNCHANGED <<server, gone, fetches, confirmed, mixed>>
  BY DEF IInv, Deleted
<1> PICK r \in Rows : r = call[m].row
  BY <1>1, CallActive
<1>2. /\ cache \in Caches /\ \A p \in Pages : Coherent(cache.pages[p], cache.nodes)
  BY <1>1 DEF Types, Shape
<1>3. cache' \in Caches
  BY <1>1, <1>2, ReconcileDeleteChanges
<1> PICK k \in Calls : call' = [call EXCEPT ![m] = k] /\ k.phase = "ended"
  BY <1>1, End1
<1>4. /\ call' \in [Mutations -> Calls \cup {NoCall}] /\ call'[m] = k
      /\ \A n \in Mutations \ {m} : /\ call'[n] = call[n] /\ (Drafts(n)' <=> Drafts(n))
                                    /\ \A r1 : Pending(n, r1)' <=> Pending(n, r1)
  BY <1>1, CallSet
<1>5. CallsKept
  <2>1. ~Drafts(m)' /\ call'[m].phase # "failed"
    BY <1>4 DEF Drafts, UnderWay
  <2>2. \A r1 : ~Pending(m, r1)
    BY <1>1 DEF Pending
  <2> QED
    BY <1>1, <1>4, <2>1, <2>2 DEF CallsKept, DraftsKept, Shape, CallOk
<1>6. Overtaken \in SUBSET Rows
  <2>1. \A p \in Pages : Older(cache'.pages[p].data) \in SUBSET Rows
    BY <1>3, CacheFields, RowedIn DEF Older
  <2> QED
    BY <2>1 DEF Overtaken
<1>7. Types'
  BY <1>1, <1>3, <1>4, <1>6 DEF Types
<1> QED
  BY <1>1, <1>5, <1>7, AfterRemoval

LEMMA AfterFailed ==
    ASSUME IInv, NEW m \in Mutations, Failed(m)
    PROVE  IInv'
<1> DEFINE ph == IF call[m].drafts THEN "failed" ELSE "ended"
           removes == call[m].phase = "refused" /\ call[m].op = "delete"
<1>1. /\ Types /\ Shape /\ call[m].phase \in {"refused", "thrown"} /\ Goes(m, ph)
      /\ cache' = IF removes THEN ReconcileDelete(cache, call[m].row) ELSE cache
      /\ behind' = behind \cup Overtaken
      /\ UNCHANGED <<server, gone, fetches, confirmed, removed, mixed>>
  BY DEF IInv, Failed
<1> PICK r \in Rows : r = call[m].row
  BY <1>1, CallActive
<1>2. /\ cache \in Caches /\ \A p \in Pages : Coherent(cache.pages[p], cache.nodes)
  BY <1>1 DEF Types, Shape
<1>3. ReconcileDelete(cache, r) \in Caches
  BY <1>2, ReconcileDeleteChanges
<1>4. cache' \in Caches
  BY <1>1, <1>2, <1>3
<1>5. ph \in {"failed", "ended"} /\ (ph = "failed" <=> call[m].drafts) /\ call[m].drafts \in BOOLEAN
  BY <1>1, CallActive
<1> HIDE DEF ph
<1> PICK k \in Calls : /\ call' = [call EXCEPT ![m] = k] /\ k.phase = ph /\ k.op = call[m].op
                       /\ k.row = call[m].row /\ k.drafts = call[m].drafts /\ k.snapshot = call[m].snapshot
  BY <1>1, <1>5, Goes1
<1>6. /\ call' \in [Mutations -> Calls \cup {NoCall}] /\ call'[m] = k
      /\ \A n \in Mutations \ {m} : /\ call'[n] = call[n] /\ (Drafts(n)' <=> Drafts(n))
                                    /\ \A r1 : Pending(n, r1)' <=> Pending(n, r1)
  BY <1>1, CallSet
<1>7. Drafts(m)' <=> Drafts(m)
  BY <1>1, <1>5, <1>6 DEF Drafts, UnderWay
<1>8. \A r1 : Pending(m, r1)' <=> Pending(m, r1)
  BY <1>6, <1>7 DEF Pending
<1>9. \A n \in Mutations : call'[n].phase = "failed" => call'[n].drafts
  BY <1>1, <1>5, <1>6 DEF Shape, CallOk
<1>10. Overtaken \in SUBSET Rows
  <2>1. \A p \in Pages : Older(cache'.pages[p].data) \in SUBSET Rows
    BY <1>4, CacheFields, RowedIn DEF Older
  <2> QED
    BY <2>1 DEF Overtaken
<1>11. Types'
  BY <1>1, <1>4, <1>6, <1>10 DEF Types
<1>12. CASE removes
  <2>1. CallsKept
    BY <1>6, <1>7, <1>8, <1>9 DEF CallsKept, DraftsKept
  <2> QED
    BY <1>1, <1>11, <1>12, <2>1, AfterRemoval
<1>13. CASE ~removes
  <2>1. cache' = cache
    BY <1>1, <1>13
  <2>2. Overtaken = {}
    BY <2>1 DEF Overtaken
  <2>3. UNCHANGED history
    BY <1>1, <2>2 DEF history
  <2>4. \A p \in Pages : FlightOk(cache.flight[p])' /\ (Awaits(p) => Awaits(p)')
    BY <1>1, <2>1 DEF Shape, FlightOk, Awaits
  <2>5. \A n \in Mutations :
          /\ Drafts(n)' <=> Drafts(n)
          /\ Drafts(n) => /\ call'[n].op = call[n].op /\ call'[n].row = call[n].row
                          /\ call'[n].snapshot = call[n].snapshot
          /\ call'[n].phase = "failed" => call'[n].drafts
    BY <1>6, <1>7, <1>9
  <2> QED
    BY <1>11, <2>1, <2>3, <2>4, <2>5, Quiet
<1> QED
  BY <1>12, <1>13

\* The answer of a superseded request is dropped.
LEMMA AfterDroppedAnswer ==
    ASSUME IInv, NEW q \in Pages, Answer(q), ~cache.flight[q].live
    PROVE  IInv'
<1>1. /\ Types /\ Shape /\ cache' = [cache EXCEPT !.flight[q] = NoFlight]
      /\ UNCHANGED <<server, gone, call, fetches, history>>
  BY DEF IInv, Answer, history
<1> PICK f \in Flights : f = cache.flight[q]
  BY <1>1, CacheFields DEF Types
<1>2. NoFlight \in Flights /\ FlightOk(NoFlight)
  BY FlightChanged
<1>3. /\ cache' \in Caches /\ cache'.nodes = cache.nodes /\ cache'.pages = cache.pages
      /\ cache'.flight[q] = NoFlight /\ \A p \in Pages \ {q} : cache'.flight[p] = cache.flight[p]
  BY <1>1, <1>2, FlightSet DEF Types
<1>4. Types'
  BY <1>1, <1>3 DEF Types, history
<1>5. \A p \in Pages : FlightOk(cache.flight[p])' /\ (Awaits(p) => Awaits(p)')
  <2>1. SUFFICES ASSUME NEW p \in Pages
                 PROVE  FlightOk(cache'.flight[p]) /\ (Awaits(p) => Awaits(p)')
    BY DEF FlightOk
  <2>2. CASE p = q
    BY <1>2, <1>3, <2>2 DEF Awaits
  <2>3. CASE p # q
    <3>1. cache'.flight[p] = cache.flight[p] /\ FlightOk(cache.flight[p])
      BY <1>1, <1>3, <2>3 DEF Shape
    <3> QED
      BY <3>1 DEF Awaits
  <2> QED
    BY <2>2, <2>3
<1>6. \A m \in Mutations : /\ Drafts(m)' <=> Drafts(m)
                           /\ call'[m].phase = "failed" => call'[m].drafts
  BY <1>1 DEF Drafts, UnderWay, Shape, CallOk
<1> QED
  BY <1>1, <1>3, <1>4, <1>5, <1>6, Quiet

\* ingestQueryResult: what it puts in the cache is no draft, and the newest, or
\* the row is behind.
LEMMA AfterIngestedAnswer ==
    ASSUME IInv, NEW q \in Pages, Answer(q), cache.flight[q].live
    PROVE  IInv'
<1> PICK rows : rows = cache.flight[q].rows
  OBVIOUS
<1> DEFINE u == Ingested(cache, q, rows)
           v == [u EXCEPT !.flight[q] = NoFlight]
<1>1. /\ Types /\ Shape /\ Fresh /\ Drafted /\ cache' = v /\ behind' = behind \cup Older(rows)
      /\ cache.flight[q].phase = "read"
      /\ UNCHANGED <<server, gone, call, fetches, confirmed, removed, mixed>>
  BY DEF IInv, Answer
<1>2. rows \in Data /\ \A r \in DOMAIN rows : rows[r].draft = NoMutation
  BY <1>1 DEF Shape, FlightOk
<1>3. cache \in Caches /\ \A p \in Pages : Coherent(cache.pages[p], cache.nodes)
  BY <1>1 DEF Types, Shape
<1>4. /\ u \in Caches /\ u.flight = cache.flight
      /\ \A r \in Rows : \/ u.nodes[r] = cache.nodes[r] /\ (u.pages[q].page = NoPage \/ r \notin u.pages[q].page)
                         \/ r \in DOMAIN rows /\ u.nodes[r] = rows[r]
      /\ \A p \in Pages : Coherent(u.pages[p], u.nodes)
      /\ \A p \in Pages \ {q} : u.pages[p] = cache.pages[p]
      /\ u.pages[q].data = rows
  BY <1>2, <1>3, IngestedChanges
<1> HIDE DEF u
<1> PICK f \in Flights : f = cache.flight[q]
  BY <1>3, CacheFields
<1>5. NoFlight \in Flights /\ FlightOk(NoFlight) /\ ~NoFlight.live
  BY FlightChanged
<1>6. /\ v \in Caches /\ v.nodes = u.nodes /\ v.pages = u.pages /\ v.flight[q] = NoFlight
      /\ \A p \in Pages \ {q} : v.flight[p] = u.flight[p]
  BY <1>4, <1>5, FlightSet
<1> HIDE DEF v
<1> PICK w : w = v
  OBVIOUS
<1>7. /\ w \in Caches
      /\ \A r \in Rows : \/ w.nodes[r] = cache.nodes[r] /\ (w.pages[q].page = NoPage \/ r \notin w.pages[q].page)
                         \/ r \in DOMAIN rows /\ w.nodes[r] = rows[r]
      /\ \A p \in Pages : Coherent(w.pages[p], w.nodes)
      /\ \A p \in Pages \ {q} : w.pages[p] = cache.pages[p] /\ w.flight[p] = cache.flight[p]
      /\ w.pages[q].data = rows /\ w.flight[q] = NoFlight
  BY <1>4, <1>6
<1>8. cache' = w
  BY <1>1
<1>9. /\ DOMAIN rows = Rowed(rows) /\ DOMAIN rows \in SUBSET Rows
      /\ Older(rows) = {r \in DOMAIN rows : IsOlder(r, rows[r])}
  <2>1. DOMAIN rows = Rowed(rows) /\ DOMAIN rows \in SUBSET Rows
    BY <1>2, DataOut DEF Rowed
  <2> QED
    BY <2>1 DEF Older
<1>10. \A p \in Pages : /\ Rowed(w.pages[p].data) \in SUBSET Rows
                        /\ w.pages[p].page # NoPage => w.pages[p].page \in SUBSET Rows
  BY <1>7, CacheFields, RowedIn
<1>11. Types' /\ behind \subseteq behind'
  BY <1>1, <1>7, <1>8, <1>9 DEF Types
<1>12. /\ \A m \in Mutations : Drafts(m)' <=> Drafts(m)
       /\ \A m : \A r : Pending(m, r)' <=> Pending(m, r)
       /\ \A m \in Mutations : Unknown(m)' = Unknown(m)
  BY <1>1 DEF Drafts, UnderWay, Pending, Unknown
<1>13. ASSUME NEW r \in Rows, NEW row
       PROVE  /\ Current(r, row) => Current(r, row)'
              /\ IsOlder(r, row)' <=> IsOlder(r, row)
              /\ Clean(r, row) => Clean(r, row)'
  BY <1>1, <1>11, <1>12 DEF Current, IsOlder, Clean
<1>14. ASSUME NEW r \in DOMAIN rows
       PROVE  Current(r, rows[r])' /\ Clean(r, rows[r])'
  <2>1. IsOlder(r, rows[r]) => r \in behind'
    BY <1>1, <1>9
  <2> QED
    BY <1>2, <1>9, <1>13, <2>1 DEF Current, Clean
<1>15. Shape'
  <2>1. \A m \in Mutations : CallOk(m)'
    BY <1>1 DEF Shape, CallOk, Drafts, UnderWay, Coherent
  <2>2. \A p \in Pages : FlightOk(w.flight[p])
    BY <1>1, <1>5, <1>7 DEF Shape
  <2> QED
    BY <1>7, <1>8, <2>1, <2>2 DEF Shape, Coherent, FlightOk
<1>16. NodesCurrent'
  <2>1. SUFFICES ASSUME NEW r \in Rows, w.nodes[r] # NoNode
                 PROVE  Current(r, w.nodes[r])'
    BY <1>8, NodesCurrentNext
  <2> QED
    BY <1>1, <1>7, <1>13, <1>14, <2>1 DEF Fresh, NodesCurrent
<1>17. PagesCurrent'
  <2>1. SUFFICES ASSUME NEW p \in Pages, ~Awaits(p)', NEW r \in Rowed(w.pages[p].data)
                 PROVE  Current(r, w.pages[p].data[r])'
    BY <1>8, PagesCurrentNext
  <2>2. CASE p = q
    BY <1>7, <1>9, <1>14, <2>1, <2>2
  <2>3. CASE p # q
    <3>1. w.pages[p] = cache.pages[p] /\ ~Awaits(p)
      BY <1>7, <1>8, <2>1, <2>3 DEF Awaits
    <3>2. Current(r, cache.pages[p].data[r]) /\ r \in Rows
      BY <1>1, <1>10, <2>1, <3>1 DEF Fresh, PagesCurrent
    <3> QED
      BY <1>13, <3>1, <3>2
  <2> QED
    BY <2>2, <2>3
<1>18. ASSUME NEW m \in Mutations, NEW p \in Unknown(m)
       PROVE  /\ \A r \in Rowed(w.pages[p].data) : w.pages[p].data[r].draft = m => p # q
              /\ \A r \in Rows : w.pages[p].page # NoPage /\ r \in w.pages[p].page /\ w.nodes[r].draft = m =>
                   p # q /\ w.nodes[r] = cache.nodes[r]
  <2>1. m # NoMutation /\ p \in Pages
    BY Distinct DEF Unknown
  <2>2. \A r \in Rowed(rows) : rows[r].draft # m
    BY <1>2, <1>9, <2>1
  <2>3. \A r \in DOMAIN rows : rows[r].draft # m
    BY <1>2, <2>1
  <2> QED
    BY <1>7, <2>1, <2>2, <2>3
<1>19. ASSUME NEW m \in Mutations, Drafts(m)
       PROVE  UnknownCurrent(m)'
  <2>1. UnknownCurrent(m) /\ Unknown(m) \subseteq Pages
    BY <1>1, <1>19 DEF Fresh, Unknown
  <2>2. ASSUME NEW p \in Unknown(m), ~Awaits(p)', NEW r \in Rowed(w.pages[p].data),
               w.pages[p].data[r].draft = m, IsOlder(r, w.pages[p].data[r])'
        PROVE  r \in behind'
    <3>1. p # q /\ p \in Pages /\ r \in Rows
      BY <1>10, <1>18, <2>1, <2>2
    <3>2. w.pages[p] = cache.pages[p] /\ ~Awaits(p)
      BY <1>7, <1>8, <2>2, <3>1 DEF Awaits
    <3> QED
      BY <1>11, <1>13, <2>1, <2>2, <3>1, <3>2 DEF UnknownCurrent
  <2>3. ASSUME NEW p \in Unknown(m), w.pages[p].page # NoPage, NEW r \in w.pages[p].page,
               w.nodes[r].draft = m, IsOlder(r, w.nodes[r])'
        PROVE  r \in behind'
    <3>1. r \in Rows /\ p \in Pages
      BY <1>10, <2>1, <2>3
    <3>2. p # q /\ w.nodes[r] = cache.nodes[r]
      BY <1>18, <2>3, <3>1
    <3>3. w.pages[p] = cache.pages[p]
      BY <1>7, <3>1, <3>2
    <3> QED
      BY <1>11, <1>13, <2>1, <2>3, <3>1, <3>2, <3>3 DEF UnknownCurrent
  <2> QED
    BY <1>8, <1>12, <2>1, <2>2, <2>3 DEF UnknownCurrent, IsOlder, Awaits
<1>20. ASSUME ~mixed
       PROVE  /\ NodesDrafted' /\ PagesDrafted'
              /\ \A m \in Mutations : Drafts(m)' => SnapshotClean(call[m].snapshot)' /\ UnknownDrafted(m)'
              /\ \A m, n \in Mutations : Drafts(m)' /\ Drafts(n)' => m = n
  <2>1. /\ NodesDrafted /\ PagesDrafted
        /\ \A m \in Mutations : Drafts(m) => SnapshotClean(call[m].snapshot) /\ UnknownDrafted(m)
        /\ \A m, n \in Mutations : Drafts(m) /\ Drafts(n) => m = n
    BY <1>1, <1>20 DEF Drafted
  <2>2. NodesDrafted'
    <3>1. SUFFICES ASSUME NEW r \in Rows, w.nodes[r] # NoNode
                   PROVE  Clean(r, w.nodes[r])' \/ Pending(w.nodes[r].draft, r)'
      BY <1>8, NodesDraftedNext
    <3> QED
      BY <1>7, <1>12, <1>13, <1>14, <2>1, <3>1 DEF NodesDrafted
  <2>3. PagesDrafted'
    <3>1. SUFFICES ASSUME NEW p \in Pages, NEW r \in Rowed(w.pages[p].data)
                   PROVE  Clean(r, w.pages[p].data[r])' \/ (p \notin Watched /\ Pending(w.pages[p].data[r].draft, r)')
      BY <1>8, PagesDraftedNext
    <3>2. CASE p = q
      BY <1>7, <1>9, <1>14, <3>1, <3>2
    <3>3. CASE p # q
      <4>1. w.pages[p] = cache.pages[p] /\ r \in Rows
        BY <1>7, <1>10, <3>3
      <4> QED
        BY <1>12, <1>13, <2>1, <3>1, <4>1 DEF PagesDrafted
    <3> QED
      BY <3>2, <3>3
  <2>4. ASSUME NEW m \in Mutations, Drafts(m)
        PROVE  UnknownDrafted(m)'
    <3>1. UnknownDrafted(m) /\ Unknown(m) \subseteq Pages
      BY <2>1, <2>4 DEF Unknown
    <3>2. ASSUME NEW p \in Unknown(m), NEW r \in Rowed(w.pages[p].data), w.pages[p].data[r].draft = m
          PROVE  r \in behind'
      BY <1>7, <1>11, <1>18, <3>1, <3>2 DEF UnknownDrafted
    <3>3. ASSUME NEW p \in Unknown(m), w.pages[p].page # NoPage, NEW r \in w.pages[p].page, w.nodes[r].draft = m
          PROVE  r \in behind'
      <4>1. r \in Rows /\ p \in Pages
        BY <1>10, <3>1, <3>3
      <4>2. p # q /\ w.nodes[r] = cache.nodes[r]
        BY <1>18, <3>3, <4>1
      <4>3. w.pages[p] = cache.pages[p]
        BY <1>7, <4>1, <4>2
      <4> QED
        BY <1>11, <3>1, <3>3, <4>2, <4>3 DEF UnknownDrafted
    <3> QED
      BY <1>8, <1>12, <3>2, <3>3 DEF UnknownDrafted
  <2>5. ASSUME NEW m \in Mutations, Drafts(m)
        PROVE  SnapshotClean(call[m].snapshot)'
    <3>1. SnapshotClean(call[m].snapshot) /\ call'[m].snapshot = call[m].snapshot
      BY <1>1, <2>1, <2>5
    <3> QED
      BY <1>11, <3>1 DEF SnapshotClean, Clean
  <2> QED
    BY <1>12, <2>1, <2>2, <2>3, <2>4, <2>5
<1>21. Fresh'
  BY <1>12, <1>16, <1>17, <1>19 DEF Fresh
<1>22. Drafted'
  BY <1>1, <1>20 DEF Drafted
<1> QED
  BY <1>11, <1>15, <1>21, <1>22 DEF IInv

\* An update that updated no row says nothing of it: its draft stays.
LEMMA AfterNoUpdate ==
    ASSUME IInv, NEW m \in Mutations, Updated(m), call[m].answer = 0
    PROVE  IInv'
<1>1. /\ Types /\ Shape /\ call[m].phase = "served" /\ End(m)
      /\ behind' = (IF call[m].drafts THEN behind \cup {call[m].row} ELSE behind)
      /\ UNCHANGED <<server, gone, fetches, removed, mixed, cache, confirmed>>
  BY DEF IInv, Updated
<1> PICK r \in Rows : r = call[m].row
  BY <1>1, CallActive
<1> PICK k \in Calls : call' = [call EXCEPT ![m] = k] /\ k.phase = "ended"
  BY <1>1, End1
<1>2. /\ call' \in [Mutations -> Calls \cup {NoCall}] /\ call'[m] = k
      /\ \A n \in Mutations \ {m} : /\ call'[n] = call[n] /\ (Drafts(n)' <=> Drafts(n))
                                    /\ \A r1 : Pending(n, r1)' <=> Pending(n, r1)
  BY <1>1, CallSet
<1>3. Types' /\ behind \subseteq behind'
  BY <1>1, <1>2 DEF Types
<1>4. CallsKept
  <2>1. ~Drafts(m)' /\ call'[m].phase # "failed"
    BY <1>2 DEF Drafts, UnderWay
  <2>2. DraftsKept
    BY <1>1, <1>2, <2>1 DEF DraftsKept, Shape, CallOk
  <2>3. \A r1 : Pending(m, r1) => r1 \in behind'
    BY <1>1 DEF Pending, Drafts
  <2> QED
    BY <1>2, <2>2, <2>3 DEF CallsKept
<1>5. \A p \in Pages : FlightOk(cache.flight[p])' /\ (Awaits(p) => Awaits(p)')
  BY <1>1 DEF Shape, FlightOk, Awaits
<1> QED
  BY <1>1, <1>3, <1>4, <1>5, Still

\* The row of a successful update reaches the graph and every page that shows
\* it, or the page is refetched.
LEMMA AfterUpdated ==
    ASSUME IInv, NEW m \in Mutations, Updated(m), call[m].answer # 0
    PROVE  IInv'
<1> PICK r : r = call[m].row
  OBVIOUS
<1> PICK row : row = Version(call[m].answer)
  OBVIOUS
<1> DEFINE stale == r \in removed \/ call[m].answer < confirmed[r]
           v == WriteEntity(cache, r, row)
<1>1. /\ Types /\ Shape /\ Fresh /\ Drafted /\ call[m].phase = "served" /\ End(m) /\ cache' = v
      /\ confirmed' = IF stale THEN confirmed ELSE [confirmed EXCEPT ![r] = call[m].answer]
      /\ behind' = IF stale \/ Stranded # {} THEN behind \cup {r} ELSE behind
      /\ UNCHANGED <<server, gone, fetches, removed, mixed>>
  BY DEF IInv, Updated
<1>2. r \in Rows /\ call[m].answer \in Nat
  BY <1>1, CallActive
<1>3. row \in Shown /\ row.version = call[m].answer /\ row.draft = NoMutation
  BY <1>2, VersionShown
<1>4. cache \in Caches /\ \A p \in Pages : Coherent(cache.pages[p], cache.nodes)
  BY <1>1 DEF Types, Shape
<1>5. /\ v \in Caches /\ v.nodes[r] = row /\ \A x \in Rows \ {r} : v.nodes[x] = cache.nodes[x]
      /\ \A p \in Pages :
           /\ Coherent(v.pages[p], v.nodes)
           /\ v.pages[p].page = cache.pages[p].page
           /\ Rowed(v.pages[p].data) = Rowed(cache.pages[p].data)
           /\ v.pages[p].data = NoData <=> cache.pages[p].data = NoData
           /\ p \in Watched => v.pages[p] = cache.pages[p]
           /\ p \notin Watched => \A x \in Rowed(v.pages[p].data) :
                \/ /\ v.pages[p].data[x] = v.nodes[x]
                   /\ x = r \/ (cache.pages[p].page # NoPage /\ x \in cache.pages[p].page)
                \/ v.pages[p].data[x] = cache.pages[p].data[x] /\ x # r
           /\ FlightOk(cache.flight[p]) => FlightOk(v.flight[p])
           /\ p \in Watched /\ cache.flight[p].live => v.flight[p].live \/ cache.flight[p].phase = "none"
           /\ p \in Watched /\ cache.pages[p].data # NoData =>
                v.flight[p].live \/ (cache.flight[p].phase # "none" /\ ~cache.flight[p].live)
  BY <1>2, <1>3, <1>4, WriteEntityChanges
<1> HIDE DEF v
<1> PICK w : w = v
  OBVIOUS
<1>6. cache' = w /\ w \in Caches /\ w.nodes[r] = row /\ \A x \in Rows \ {r} : w.nodes[x] = cache.nodes[x]
  BY <1>1, <1>5
<1>7. ASSUME NEW p \in Pages
      PROVE  /\ Coherent(w.pages[p], w.nodes)
             /\ w.pages[p].page = cache.pages[p].page
             /\ Rowed(w.pages[p].data) = Rowed(cache.pages[p].data)
             /\ p \in Watched => w.pages[p] = cache.pages[p]
             /\ FlightOk(w.flight[p])
  BY <1>1, <1>5 DEF Shape
<1>8. ASSUME NEW p \in Pages \ Watched, NEW x \in Rowed(w.pages[p].data)
      PROVE  \/ /\ w.pages[p].data[x] = w.nodes[x]
                /\ x = r \/ (cache.pages[p].page # NoPage /\ x \in cache.pages[p].page)
             \/ w.pages[p].data[x] = cache.pages[p].data[x] /\ x # r
  BY <1>5
<1>9. ASSUME NEW p \in Watched, cache.pages[p].data # NoData, ~w.flight[p].live
      PROVE  r \in behind' /\ ~cache.flight[p].live
  <2>1. p \in Pages
    BY Distinct
  <2>2. cache.flight[p].phase # "none" /\ ~cache.flight[p].live
    BY <1>5, <1>9, <2>1
  <2>3. p \in Stranded
    BY <2>2 DEF Stranded
  <2> QED
    BY <1>1, <2>2, <2>3
<1>10. \A p \in Pages : /\ Rowed(cache.pages[p].data) \subseteq Rows
                        /\ Rowed(cache.pages[p].data) # {} => cache.pages[p].data # NoData
                        /\ cache.pages[p].page # NoPage => /\ cache.pages[p].page \subseteq Rows
                                                           /\ \A x \in cache.pages[p].page : w.nodes[x] # NoNode
  <2>1. ASSUME NEW p \in Pages
        PROVE  /\ Rowed(cache.pages[p].data) \subseteq Rows
               /\ cache.pages[p].page # NoPage => cache.pages[p].page \subseteq Rows
    BY <1>4, CacheFields, RowedIn
  <2>2. \A p \in Pages : Rowed(cache.pages[p].data) # {} => cache.pages[p].data # NoData
    BY DEF Rowed
  <2> QED
    BY <1>7, <2>1, <2>2 DEF Coherent
<1> PICK k \in Calls : call' = [call EXCEPT ![m] = k] /\ k.phase = "ended"
  BY <1>1, End1
<1>11. /\ call' \in [Mutations -> Calls \cup {NoCall}] /\ call'[m] = k
       /\ \A n \in Mutations \ {m} : /\ call'[n] = call[n] /\ (Drafts(n)' <=> Drafts(n))
                                     /\ \A x : Pending(n, x)' <=> Pending(n, x)
  BY <1>1, CallSet
<1>12. /\ Types' /\ behind \subseteq behind'
       /\ \A x \in Rows \ {r} : confirmed'[x] = confirmed[x]
       /\ r \notin behind' => r \notin removed /\ confirmed'[r] <= row.version
  BY <1>1, <1>2, <1>3, <1>6, <1>11 DEF Types
<1>13. ~Drafts(m)' /\ DraftsKept
  <2>1. ~Drafts(m)' /\ call'[m].phase # "failed"
    BY <1>11 DEF Drafts, UnderWay
  <2> QED
    BY <1>1, <1>11, <2>1 DEF DraftsKept, Shape, CallOk
<1>14. /\ \A n \in Mutations : CallOk(n)'
       /\ \A n \in Mutations : Drafts(n)' => Unknown(n)' = Unknown(n)
  BY <1>1, <1>13, CallsStayOk
<1>15. ASSUME NEW x \in Rows \ {r}, NEW old
       PROVE  /\ Pending(old.draft, x) => Pending(old.draft, x)'
              /\ IsOlder(x, old)' <=> IsOlder(x, old)
              /\ Current(x, old) => Current(x, old)'
              /\ Clean(x, old) => Clean(x, old)'
  <2>1. Pending(old.draft, x) => Pending(old.draft, x)'
    BY <1>11 DEF Pending
  <2>2. IsOlder(x, old)' <=> IsOlder(x, old)
    BY <1>1, <1>12 DEF IsOlder
  <2> QED
    BY <1>12, <2>1, <2>2 DEF Current, Clean
<1>16. Current(r, row)' /\ Clean(r, row)'
  <2>1. r \notin behind' => ~IsOlder(r, row)'
    <3>1. confirmed'[r] \in Nat /\ row.version \in Nat /\ removed' = removed
      BY <1>1, <1>2, <1>3, <1>12 DEF Types
    <3> QED
      BY <1>12, <3>1 DEF IsOlder
  <2> QED
    BY <1>3, <2>1 DEF Current, Clean
<1>17. Shape'
  BY <1>6, <1>7, <1>14 DEF Shape, Coherent, FlightOk
<1>18. ASSUME NEW x \in Rows, w.nodes[x] # NoNode
       PROVE  Current(x, w.nodes[x])'
  BY <1>1, <1>6, <1>15, <1>16, <1>18 DEF Fresh, NodesCurrent
<1>19. PagesCurrent'
  <2>1. SUFFICES ASSUME NEW p \in Pages, ~Awaits(p)', NEW x \in Rowed(w.pages[p].data)
                 PROVE  Current(x, w.pages[p].data[x])'
    BY <1>6, PagesCurrentNext
  <2>2. x \in Rows /\ x \in Rowed(cache.pages[p].data) /\ cache.pages[p].data # NoData
    BY <1>7, <1>10
  <2>3. CASE p \in Watched
    <3>1. r \in behind' /\ ~Awaits(p) /\ w.pages[p] = cache.pages[p]
      BY <1>6, <1>7, <1>9, <2>1, <2>2, <2>3 DEF Awaits
    <3>2. Current(x, cache.pages[p].data[x])
      BY <1>1, <2>2, <3>1 DEF Fresh, PagesCurrent
    <3>3. CASE x = r
      BY <3>1, <3>3 DEF Current
    <3> QED
      BY <1>15, <2>2, <3>1, <3>2, <3>3
  <2>4. CASE p \notin Watched
    <3>1. CASE w.pages[p].data[x] = w.nodes[x] /\ w.nodes[x] # NoNode
      BY <1>18, <2>2, <3>1
    <3>2. CASE w.pages[p].data[x] = cache.pages[p].data[x] /\ x # r
      <4>1. Current(x, cache.pages[p].data[x])
        BY <1>1, <2>2, <2>4 DEF Fresh, PagesCurrent, Awaits
      <4> QED
        BY <1>15, <2>2, <3>2, <4>1
    <3>3. \/ w.pages[p].data[x] = w.nodes[x] /\ w.nodes[x] # NoNode
          \/ w.pages[p].data[x] = cache.pages[p].data[x] /\ x # r
      BY <1>3, <1>6, <1>8, <1>10, <2>4, Distinct
    <3> QED
      BY <3>1, <3>2, <3>3
  <2> QED
    BY <2>3, <2>4
<1>20. ASSUME NEW n \in Mutations, Drafts(n)'
       PROVE  /\ Drafts(n) /\ Unknown(n)' = Unknown(n) /\ Unknown(n) \subseteq Pages
              /\ UnknownCurrent(n) /\ w.nodes[r].draft # n
  BY <1>1, <1>3, <1>6, <1>13, <1>14, <1>20, Distinct DEF DraftsKept, Fresh, Unknown
<1>21. ASSUME NEW n \in Mutations, Drafts(n)', NEW p \in Unknown(n), NEW x \in Rowed(w.pages[p].data),
              w.pages[p].data[x].draft = n, p \notin Watched
       PROVE  /\ x \in Rows \ {r} /\ p \in Pages /\ x \in Rowed(cache.pages[p].data)
              /\ \/ w.pages[p].data[x] = cache.pages[p].data[x]
                 \/ /\ w.pages[p].data[x] = cache.nodes[x]
                    /\ cache.pages[p].page # NoPage /\ x \in cache.pages[p].page
  <2>1. p \in Pages /\ w.nodes[r].draft # n
    BY <1>20, <1>21
  <2>2. x \in Rows /\ x \in Rowed(cache.pages[p].data)
    BY <1>7, <1>10, <1>21, <2>1
  <2>3. \/ /\ w.pages[p].data[x] = w.nodes[x]
           /\ x = r \/ (cache.pages[p].page # NoPage /\ x \in cache.pages[p].page)
        \/ w.pages[p].data[x] = cache.pages[p].data[x] /\ x # r
    BY <1>8, <1>21, <2>1
  <2> QED
    BY <1>6, <1>21, <2>1, <2>2, <2>3
<1>22. ASSUME NEW n \in Mutations, Drafts(n)'
       PROVE  UnknownCurrent(n)'
  <2>1. /\ Drafts(n) /\ Unknown(n)' = Unknown(n) /\ Unknown(n) \subseteq Pages
        /\ UnknownCurrent(n) /\ w.nodes[r].draft # n
    BY <1>20, <1>22
  <2>2. ASSUME NEW p \in Unknown(n), ~Awaits(p)', NEW x \in Rowed(w.pages[p].data),
               w.pages[p].data[x].draft = n, IsOlder(x, w.pages[p].data[x])'
        PROVE  x \in behind'
    <3>1. p \in Pages /\ x \in Rows /\ x \in Rowed(cache.pages[p].data) /\ cache.pages[p].data # NoData
      BY <1>7, <1>10, <2>1, <2>2
    <3>2. CASE p \in Watched
      <4>1. r \in behind' /\ ~Awaits(p) /\ w.pages[p] = cache.pages[p]
        BY <1>6, <1>7, <1>9, <2>2, <3>1, <3>2 DEF Awaits
      <4>2. x # r => IsOlder(x, w.pages[p].data[x])
        BY <1>15, <2>2, <3>1
      <4> QED
        BY <1>12, <2>1, <2>2, <3>1, <4>1, <4>2 DEF UnknownCurrent
    <3>3. CASE p \notin Watched
      <4>1. /\ x \in Rows \ {r}
            /\ \/ w.pages[p].data[x] = cache.pages[p].data[x]
               \/ /\ w.pages[p].data[x] = cache.nodes[x]
                  /\ cache.pages[p].page # NoPage /\ x \in cache.pages[p].page
        BY <1>21, <1>22, <2>2, <3>3
      <4>2. IsOlder(x, w.pages[p].data[x])
        BY <1>15, <2>2, <4>1
      <4>3. ~Awaits(p)
        BY <3>3 DEF Awaits
      <4> QED
        BY <1>12, <2>1, <2>2, <3>1, <4>1, <4>2, <4>3 DEF UnknownCurrent
    <3> QED
      BY <3>2, <3>3
  <2>3. ASSUME NEW p \in Unknown(n), w.pages[p].page # NoPage, NEW x \in w.pages[p].page,
               w.nodes[x].draft = n, IsOlder(x, w.nodes[x])'
        PROVE  x \in behind'
    <3>1. p \in Pages /\ cache.pages[p].page = w.pages[p].page /\ x \in Rows \ {r}
      BY <1>7, <1>10, <2>1, <2>3
    <3>2. w.nodes[x] = cache.nodes[x] /\ IsOlder(x, cache.nodes[x])
      BY <1>6, <1>15, <2>3, <3>1
    <3> QED
      BY <1>12, <2>1, <2>3, <3>1, <3>2 DEF UnknownCurrent
  <2> QED
    BY <1>6, <2>1, <2>2, <2>3 DEF UnknownCurrent, IsOlder, Awaits
<1>23. Fresh'
  <2>1. NodesCurrent'
    BY <1>6, <1>18, NodesCurrentNext
  <2> QED
    BY <1>19, <1>22, <2>1 DEF Fresh
<1>24. ASSUME ~mixed
       PROVE  /\ NodesDrafted' /\ PagesDrafted'
              /\ \A n \in Mutations : Drafts(n)' => SnapshotClean(call[n].snapshot)' /\ UnknownDrafted(n)'
              /\ \A n, o \in Mutations : Drafts(n)' /\ Drafts(o)' => n = o
  <2>1. /\ NodesDrafted /\ PagesDrafted
        /\ \A n \in Mutations : Drafts(n) => SnapshotClean(call[n].snapshot) /\ UnknownDrafted(n)
        /\ \A n, o \in Mutations : Drafts(n) /\ Drafts(o) => n = o
    BY <1>1, <1>24 DEF Drafted
  <2>2. ASSUME NEW x \in Rows, w.nodes[x] # NoNode
        PROVE  Clean(x, w.nodes[x])' \/ Pending(w.nodes[x].draft, x)'
    <3>1. CASE x = r
      BY <1>6, <1>16, <3>1
    <3>2. CASE x # r
      BY <1>6, <1>15, <2>1, <2>2, <3>2 DEF NodesDrafted
    <3> QED
      BY <3>1, <3>2
  <2>3. NodesDrafted'
    BY <1>6, <2>2, NodesDraftedNext
  <2>4. PagesDrafted'
    <3>1. SUFFICES ASSUME NEW p \in Pages, NEW x \in Rowed(w.pages[p].data)
                   PROVE  Clean(x, w.pages[p].data[x])' \/ (p \notin Watched /\ Pending(w.pages[p].data[x].draft, x)')
      BY <1>6, PagesDraftedNext
    <3>2. x \in Rows /\ x \in Rowed(cache.pages[p].data) /\ cache.pages[p].data # NoData
      BY <1>7, <1>10
    <3>3. \/ Clean(x, cache.pages[p].data[x])
          \/ p \notin Watched /\ Pending(cache.pages[p].data[x].draft, x)
      BY <2>1, <3>2 DEF PagesDrafted
    <3>4. CASE p \in Watched /\ x # r
      BY <1>7, <1>15, <3>2, <3>3, <3>4
    <3>5. CASE p \in Watched /\ x = r
      <4>1. Clean(x, cache.pages[p].data[x]) /\ w.pages[p] = cache.pages[p]
        BY <1>7, <3>3, <3>5
      <4> QED
        BY <1>12, <4>1 DEF Clean
    <3>6. CASE p \notin Watched
      <4>1. CASE w.pages[p].data[x] = w.nodes[x] /\ w.nodes[x] # NoNode
        BY <2>2, <3>2, <3>6, <4>1
      <4>2. CASE w.pages[p].data[x] = cache.pages[p].data[x] /\ x # r
        BY <1>15, <3>2, <3>3, <3>6, <4>2
      <4>3. \/ w.pages[p].data[x] = w.nodes[x] /\ w.nodes[x] # NoNode
            \/ w.pages[p].data[x] = cache.pages[p].data[x] /\ x # r
        BY <1>3, <1>6, <1>8, <1>10, <3>6, Distinct
      <4> QED
        BY <4>1, <4>2, <4>3
    <3> QED
      BY <3>4, <3>5, <3>6
  <2>5. ASSUME NEW n \in Mutations, Drafts(n)'
        PROVE  SnapshotClean(call[n].snapshot)' /\ UnknownDrafted(n)'
    <3>1. /\ Drafts(n) /\ Unknown(n)' = Unknown(n) /\ Unknown(n) \subseteq Pages
          /\ UnknownDrafted(n) /\ w.nodes[r].draft # n
      BY <1>20, <2>1, <2>5
    <3>2. ASSUME NEW p \in Unknown(n), NEW x \in Rowed(w.pages[p].data), w.pages[p].data[x].draft = n
          PROVE  x \in behind'
      <4>1. p \in Pages
        BY <3>1
      <4>2. CASE p \in Watched
        <5>1. w.pages[p] = cache.pages[p]
          BY <1>7, <4>1, <4>2
        <5> QED
          BY <1>12, <3>1, <3>2, <5>1 DEF UnknownDrafted
      <4>3. CASE p \notin Watched
        <5>1. /\ x \in Rows \ {r} /\ x \in Rowed(cache.pages[p].data)
              /\ \/ w.pages[p].data[x] = cache.pages[p].data[x]
                 \/ /\ w.pages[p].data[x] = cache.nodes[x]
                    /\ cache.pages[p].page # NoPage /\ x \in cache.pages[p].page
          BY <1>21, <2>5, <3>2, <4>3
        <5> QED
          BY <1>12, <3>1, <3>2, <5>1 DEF UnknownDrafted
      <4> QED
        BY <4>2, <4>3
    <3>3. ASSUME NEW p \in Unknown(n), w.pages[p].page # NoPage, NEW x \in w.pages[p].page, w.nodes[x].draft = n
          PROVE  x \in behind'
      <4>1. p \in Pages /\ cache.pages[p].page = w.pages[p].page /\ x \in Rows \ {r}
        BY <1>7, <1>10, <3>1, <3>3
      <4>2. w.nodes[x] = cache.nodes[x]
        BY <1>6, <4>1
      <4> QED
        BY <1>12, <3>1, <3>3, <4>1, <4>2 DEF UnknownDrafted
    <3>4. UnknownDrafted(n)'
      BY <1>6, <3>1, <3>2, <3>3 DEF UnknownDrafted
    <3>5. SnapshotClean(call[n].snapshot)'
      BY <1>1, <1>12, <1>13, <1>24, <2>5, SnapshotsStayClean
    <3> QED
      BY <3>4, <3>5
  <2>6. \A n, o \in Mutations : Drafts(n)' /\ Drafts(o)' => n = o
    BY <1>13, <2>1 DEF DraftsKept
  <2> QED
    BY <2>3, <2>4, <2>5, <2>6
<1>25. Drafted'
  BY <1>1, <1>24 DEF Drafted
<1> QED
  BY <1>12, <1>17, <1>23, <1>25 DEF IInv

-----------------------------------------------------------------------------
(* The beginning of a mutation.                                             *)

\* onMutate keeps a snapshot of the cache, in which every page is put together.
LEMMA Begun ==
    ASSUME Types, Shape, NEW m \in Mutations, call[m].phase = "idle", NEW op \in {"update", "delete"},
           NEW r \in Rows,
           call' = [call EXCEPT ![m] = [phase |-> "sent", op |-> op, row |-> r, drafts |-> TRUE,
                                        answer |-> 0, snapshot |-> Dehydrated(cache)]]
    PROVE  /\ call' \in [Mutations -> Calls \cup {NoCall}] /\ Drafts(m)' /\ ~Drafts(m)
           /\ call'[m].op = op /\ call'[m].row = r /\ call'[m].snapshot = Dehydrated(cache)
           /\ \A n \in Mutations : CallOk(n)'
           /\ \A x : \A d : d # m => (Pending(d, x)' <=> Pending(d, x))
           /\ \A x : ~Pending(m, x)
           /\ \A x : Pending(m, x)' <=> op = "update" /\ x = r
           /\ \A n \in Mutations \ {m} : (Drafts(n)' <=> Drafts(n)) /\ Unknown(n)' = Unknown(n)
           /\ Unknown(m)' = {p \in Pages : cache.pages[p].data = NoData}
<1> PICK s : s = Dehydrated(cache)
  OBVIOUS
<1>1. cache \in Caches /\ \A p \in Pages : Coherent(cache.pages[p], cache.nodes)
  BY DEF Types, Shape
<1>2. /\ s \in Snapshots /\ s.nodes = cache.nodes
      /\ \A p \in Pages : Coherent(s.pages[p], s.nodes) /\ (s.pages[p].data = NoData <=> cache.pages[p].data = NoData)
  BY <1>1, DehydratedHas
<1> PICK k : k = [phase |-> "sent", op |-> op, row |-> r, drafts |-> TRUE, answer |-> 0, snapshot |-> s]
  OBVIOUS
<1>3. /\ k \in Calls /\ k.phase = "sent" /\ k.op = op /\ k.row = r /\ k.drafts = TRUE /\ k.snapshot = s
      /\ call' = [call EXCEPT ![m] = k]
  BY <1>2 DEF Calls
<1>4. /\ call' \in [Mutations -> Calls \cup {NoCall}] /\ call'[m] = k
      /\ \A n \in Mutations \ {m} :
           /\ call'[n] = call[n] /\ (UnderWay(n)' <=> UnderWay(n)) /\ (Drafts(n)' <=> Drafts(n))
           /\ \A x : Pending(n, x)' <=> Pending(n, x)
           /\ (Unknown(n)' = Unknown(n))
  BY <1>3, CallSet
<1>5. Drafts(m)' /\ ~Drafts(m)
  BY <1>3, <1>4 DEF Drafts, UnderWay
<1>6. ASSUME NEW n \in Mutations
      PROVE  CallOk(n)'
  <2>1. CASE n = m
    BY <1>2, <1>3, <1>4, <2>1 DEF CallOk, Coherent
  <2>2. CASE n # m
    BY <1>4, <2>2 DEF Shape, CallOk, Coherent
  <2> QED
    BY <2>1, <2>2
<1>7. \A x : \A d : d # m => (Pending(d, x)' <=> Pending(d, x))
  BY <1>4 DEF Pending
<1>8. /\ \A x : ~Pending(m, x)
      /\ \A x : Pending(m, x)' <=> op = "update" /\ x = r
  BY <1>3, <1>4, <1>5 DEF Pending
<1>9. Unknown(m)' = {p \in Pages : cache.pages[p].data = NoData}
  <2>1. Unknown(m)' = {p \in Pages : s.pages[p].data = NoData}
    BY <1>3, <1>4 DEF Unknown
  <2> QED
    BY <1>2, <2>1
<1> QED
  BY <1>3, <1>4, <1>5, <1>6, <1>7, <1>8, <1>9

\* When no other draft is shown, there is none on any page, nor in the snapshot.
LEMMA NothingDrafted ==
    ASSUME Types, Shape, Drafted, ~mixed, \A n \in Mutations : ~Drafts(n)
    PROVE  /\ \A r \in Rows : cache.nodes[r] # NoNode => Clean(r, cache.nodes[r])
           /\ \A p \in Pages : \A r \in Rowed(cache.pages[p].data) : Clean(r, cache.pages[p].data[r])
           /\ SnapshotClean(Dehydrated(cache))
<1> PICK s : s = Dehydrated(cache)
  OBVIOUS
<1>1. cache \in Caches /\ \A p \in Pages : Coherent(cache.pages[p], cache.nodes)
  BY DEF Types, Shape
<1>2. /\ s.nodes = cache.nodes
      /\ \A p \in Pages : /\ Rowed(s.pages[p].data) = Rowed(cache.pages[p].data)
                          /\ \A x \in Rowed(s.pages[p].data) :
                               \/ s.pages[p].data[x] = cache.pages[p].data[x]
                               \/ cache.nodes[x] # NoNode /\ s.pages[p].data[x] = cache.nodes[x]
  BY <1>1, DehydratedHas
<1>3. \A d, r : ~Pending(d, r)
  BY DEF Pending
<1>4. \A r \in Rows : cache.nodes[r] # NoNode => Clean(r, cache.nodes[r])
  BY <1>3 DEF Drafted, NodesDrafted
<1>5. \A p \in Pages : \A r \in Rowed(cache.pages[p].data) : Clean(r, cache.pages[p].data[r])
  BY <1>3 DEF Drafted, PagesDrafted
<1>6. \A p \in Pages : Rowed(cache.pages[p].data) \subseteq Rows
  BY <1>1, CacheFields, RowedIn
<1>7. ASSUME NEW p \in Pages, NEW x \in Rowed(s.pages[p].data)
      PROVE  Clean(x, s.pages[p].data[x])
  BY <1>2, <1>4, <1>5, <1>6, <1>7
<1>8. SnapshotClean(s)
  BY <1>2, <1>4, <1>7 DEF SnapshotClean
<1> QED
  BY <1>4, <1>5, <1>8

\* A mutation that shows no draft leaves the cache alone when it begins.
LEMMA AfterPlainBegin ==
    ASSUME IInv, NEW m \in Mutations, call[m].phase = "idle", NEW op \in Operations, NEW r \in Rows,
           call' = [call EXCEPT ![m] = [phase |-> "sent", op |-> op, row |-> r, drafts |-> FALSE,
                                        answer |-> 0, snapshot |-> NoData]],
           mixed' = mixed, UNCHANGED <<server, gone, fetches, confirmed, removed, cache, behind>>
    PROVE  IInv'
<1>1. Types /\ Shape /\ op \in {"update", "delete"}
  BY Distinct DEF IInv
<1> PICK k : k = [phase |-> "sent", op |-> op, row |-> r, drafts |-> FALSE, answer |-> 0, snapshot |-> NoData]
  OBVIOUS
<1>2. /\ k \in Calls /\ k.phase = "sent" /\ k.drafts = FALSE /\ call' = [call EXCEPT ![m] = k]
  BY <1>1 DEF Calls
<1>3. /\ call' \in [Mutations -> Calls \cup {NoCall}] /\ call'[m] = k
      /\ \A n \in Mutations \ {m} : call'[n] = call[n] /\ (Drafts(n)' <=> Drafts(n))
  BY <1>1, <1>2, CallSet
<1>4. Types'
  BY <1>1, <1>3 DEF Types
<1>5. ~Drafts(m) /\ ~Drafts(m)'
  BY <1>2, <1>3 DEF Drafts, UnderWay
<1>6. \A n \in Mutations :
        /\ Drafts(n)' <=> Drafts(n)
        /\ Drafts(n) => /\ call'[n].op = call[n].op /\ call'[n].row = call[n].row
                        /\ call'[n].snapshot = call[n].snapshot
        /\ call'[n].phase = "failed" => call'[n].drafts
  BY <1>1, <1>2, <1>3, <1>5 DEF Shape, CallOk
<1>7. \A p \in Pages : FlightOk(cache.flight[p])' /\ (Awaits(p) => Awaits(p)')
  BY <1>1 DEF Shape, Awaits, FlightOk
<1> QED
  BY <1>4, <1>6, <1>7, Quiet DEF history

\* What beginning with a draft does besides showing it.
BeginsDraft(m, op, r) ==
    /\ call[m].phase = "idle"
    /\ call' = [call EXCEPT ![m] = [phase |-> "sent", op |-> op, row |-> r, drafts |-> TRUE,
                                   answer |-> 0, snapshot |-> Dehydrated(cache)]]
    /\ mixed' = (mixed \/ \E n \in Mutations : UnderWay(n) /\ call[n].drafts)
    /\ UNCHANGED <<server, gone, fetches, confirmed, removed>>

\* writeEntity with a draft: the row shows it wherever it is listed.
LEMMA AfterDraft ==
    ASSUME IInv, NEW m \in Mutations, NEW r \in Rows, BeginsDraft(m, "update", r),
           cache' = WriteEntity(cache, r, Draft(m, r)), behind' = behind
    PROVE  IInv'
<1> PICK row : row = Draft(m, r)
  OBVIOUS
<1> DEFINE v == WriteEntity(cache, r, row)
<1>1. /\ Types /\ Shape /\ Fresh /\ Drafted /\ cache' = v
      /\ UNCHANGED <<server, gone, fetches, confirmed, removed>>
      /\ mixed' = (mixed \/ \E n \in Mutations : UnderWay(n) /\ call[n].drafts)
  BY DEF IInv, BeginsDraft
<1>2. cache \in Caches /\ \A p \in Pages : Coherent(cache.pages[p], cache.nodes)
  BY <1>1 DEF Types, Shape
<1>3. row \in Shown /\ row.draft = m
  <2>1. cache.nodes[r] \in Shown \cup {NoNode}
    BY <1>2, CacheFields
  <2>2. (IF cache.nodes[r] = NoNode THEN 0 ELSE cache.nodes[r].version) \in Nat
    BY <2>1, ShownFields
  <2> QED
    BY <2>2 DEF Draft, Shown
<1>4. /\ v \in Caches /\ v.nodes[r] = row /\ \A x \in Rows \ {r} : v.nodes[x] = cache.nodes[x]
      /\ \A p \in Pages :
           /\ Coherent(v.pages[p], v.nodes)
           /\ v.pages[p].page = cache.pages[p].page
           /\ Rowed(v.pages[p].data) = Rowed(cache.pages[p].data)
           /\ v.pages[p].data = NoData <=> cache.pages[p].data = NoData
           /\ p \in Watched => v.pages[p] = cache.pages[p]
           /\ p \notin Watched => \A x \in Rowed(v.pages[p].data) :
                \/ /\ v.pages[p].data[x] = v.nodes[x]
                   /\ x = r \/ (cache.pages[p].page # NoPage /\ x \in cache.pages[p].page)
                \/ v.pages[p].data[x] = cache.pages[p].data[x] /\ x # r
           /\ FlightOk(cache.flight[p]) => FlightOk(v.flight[p])
           /\ p \in Watched /\ cache.flight[p].live => v.flight[p].live \/ cache.flight[p].phase = "none"
           /\ p \in Watched /\ cache.pages[p].data # NoData =>
                v.flight[p].live \/ (cache.flight[p].phase # "none" /\ ~cache.flight[p].live)
  BY <1>2, <1>3, WriteEntityChanges
<1> HIDE DEF v
<1> PICK w : w = v
  OBVIOUS
<1>5. cache' = w /\ w \in Caches /\ w.nodes[r] = row /\ \A x \in Rows \ {r} : w.nodes[x] = cache.nodes[x]
  BY <1>1, <1>4
<1>6. ASSUME NEW p \in Pages
      PROVE  /\ Coherent(w.pages[p], w.nodes)
             /\ w.pages[p].page = cache.pages[p].page
             /\ Rowed(w.pages[p].data) = Rowed(cache.pages[p].data)
             /\ w.pages[p].data = NoData <=> cache.pages[p].data = NoData
             /\ p \in Watched => w.pages[p] = cache.pages[p]
             /\ FlightOk(w.flight[p])
  BY <1>1, <1>4 DEF Shape
<1>7. ASSUME NEW p \in Pages \ Watched, NEW x \in Rowed(w.pages[p].data)
      PROVE  \/ /\ w.pages[p].data[x] = w.nodes[x]
                /\ x = r \/ (cache.pages[p].page # NoPage /\ x \in cache.pages[p].page)
             \/ w.pages[p].data[x] = cache.pages[p].data[x] /\ x # r
  BY <1>4
<1>8. ASSUME NEW p \in Pages, ~Awaits(p)'
      PROVE  ~Awaits(p)
  <2>1. FlightOk(cache.flight[p])
    BY <1>1 DEF Shape
  <2>2. p \in Watched /\ cache.flight[p].live => w.flight[p].live \/ cache.flight[p].phase = "none"
    BY <1>4
  <2> QED
    BY <1>5, <1>8, <2>1, <2>2 DEF Awaits, FlightOk
<1>9. \A p \in Pages : /\ Rowed(cache.pages[p].data) \subseteq Rows
                       /\ cache.pages[p].page # NoPage => cache.pages[p].page \subseteq Rows
  BY <1>2, CacheFields, RowedIn
<1>10. /\ call' \in [Mutations -> Calls \cup {NoCall}] /\ Drafts(m)' /\ ~Drafts(m)
       /\ call'[m].snapshot = Dehydrated(cache)
       /\ \A n \in Mutations : CallOk(n)'
       /\ \A x : \A d : d # m => (Pending(d, x)' <=> Pending(d, x))
       /\ \A x : ~Pending(m, x)
       /\ Pending(m, r)'
       /\ \A n \in Mutations \ {m} : (Drafts(n)' <=> Drafts(n)) /\ Unknown(n)' = Unknown(n)
       /\ Unknown(m)' = {p \in Pages : cache.pages[p].data = NoData}
  BY <1>1, Begun DEF BeginsDraft
<1>11. Types'
  BY <1>1, <1>5, <1>10 DEF Types
<1>12. Shape'
  BY <1>5, <1>6, <1>10 DEF Shape, Coherent, FlightOk
<1>13. ASSUME NEW x \in Rows, NEW old
       PROVE  /\ IsOlder(x, old)' <=> IsOlder(x, old)
              /\ Current(x, old) => Current(x, old)'
              /\ Clean(x, old) <=> Clean(x, old)'
  <2>1. IsOlder(x, old)' <=> IsOlder(x, old)
    BY <1>1 DEF IsOlder
  <2>2. Pending(old.draft, x) => Pending(old.draft, x)'
    BY <1>10
  <2> QED
    BY <2>1, <2>2 DEF Current, Clean
<1>14. \A x \in Rows : w.nodes[x] # NoNode => Current(x, w.nodes[x])'
  <2>1. SUFFICES ASSUME NEW x \in Rows, w.nodes[x] # NoNode
                 PROVE  Current(x, w.nodes[x])'
    OBVIOUS
  <2>2. CASE x = r
    BY <1>3, <1>5, <1>10, <2>2 DEF Current
  <2>3. CASE x # r
    BY <1>1, <1>5, <1>13, <2>1, <2>3 DEF Fresh, NodesCurrent
  <2> QED
    BY <2>2, <2>3
<1>15. ASSUME NEW p \in Pages, p \notin Watched, NEW x \in Rowed(w.pages[p].data)
       PROVE  /\ x \in Rows /\ x \in Rowed(cache.pages[p].data)
              /\ \/ w.pages[p].data[x] = w.nodes[x] /\ w.nodes[x] # NoNode
                 \/ w.pages[p].data[x] = cache.pages[p].data[x]
  <2>1. x \in Rows /\ x \in Rowed(cache.pages[p].data)
    BY <1>6, <1>9, <1>15
  <2>2. w.nodes[r] # NoNode
    BY <1>3, <1>5, Distinct
  <2>3. cache.pages[p].page # NoPage => \A y \in cache.pages[p].page : w.nodes[y] # NoNode
    BY <1>6 DEF Coherent
  <2> QED
    BY <1>7, <1>15, <2>1, <2>2, <2>3
<1>16. PagesCurrent'
  <2>1. SUFFICES ASSUME NEW p \in Pages, ~Awaits(p)', NEW x \in Rowed(w.pages[p].data)
                 PROVE  Current(x, w.pages[p].data[x])'
    BY <1>5, PagesCurrentNext
  <2>2. x \in Rows /\ x \in Rowed(cache.pages[p].data)
    BY <1>6, <1>9
  <2>3. Current(x, cache.pages[p].data[x])
    BY <1>1, <1>8, <2>1, <2>2 DEF Fresh, PagesCurrent
  <2>4. CASE w.pages[p].data[x] = cache.pages[p].data[x]
    BY <1>13, <2>2, <2>3, <2>4
  <2>5. CASE w.pages[p].data[x] = w.nodes[x] /\ w.nodes[x] # NoNode
    BY <1>14, <2>2, <2>5
  <2> QED
    BY <1>6, <1>15, <2>4, <2>5
<1>17. \A p \in Unknown(m)' : Rowed(w.pages[p].data) = {} /\ w.pages[p].page = NoPage
  BY <1>6, <1>10 DEF Rowed, Coherent
<1>18. ASSUME NEW n \in Mutations, Drafts(n)', n # m
       PROVE  UnknownCurrent(n)'
  <2>1. /\ Drafts(n) /\ Unknown(n)' = Unknown(n) /\ Unknown(n) \subseteq Pages
        /\ UnknownCurrent(n) /\ w.nodes[r].draft # n
    BY <1>1, <1>3, <1>5, <1>10, <1>18 DEF Fresh, Unknown
  <2>2. ASSUME NEW p \in Unknown(n), ~Awaits(p)', NEW x \in Rowed(w.pages[p].data),
               w.pages[p].data[x].draft = n, IsOlder(x, w.pages[p].data[x])'
        PROVE  x \in behind
    <3>1. p \in Pages /\ x \in Rows /\ x \in Rowed(cache.pages[p].data) /\ ~Awaits(p)
      BY <1>6, <1>8, <1>9, <2>1, <2>2
    <3>2. IsOlder(x, w.pages[p].data[x])
      BY <1>13, <2>2, <3>1
    <3>3. CASE w.pages[p].data[x] = cache.pages[p].data[x]
      BY <2>1, <2>2, <3>1, <3>2, <3>3 DEF UnknownCurrent
    <3>4. CASE p \notin Watched /\ w.pages[p].data[x] # cache.pages[p].data[x]
      <4>1. w.pages[p].data[x] = w.nodes[x] /\ (x = r \/ (cache.pages[p].page # NoPage /\ x \in cache.pages[p].page))
        BY <1>7, <2>2, <3>1, <3>4
      <4>2. x # r
        BY <2>1, <2>2, <4>1
      <4>3. w.nodes[x] = cache.nodes[x] /\ cache.pages[p].page # NoPage /\ x \in cache.pages[p].page
        BY <1>5, <3>1, <4>1, <4>2
      <4> QED
        BY <2>1, <2>2, <3>1, <3>2, <4>1, <4>3 DEF UnknownCurrent
    <3> QED
      BY <1>6, <3>1, <3>3, <3>4
  <2>3. ASSUME NEW p \in Unknown(n), w.pages[p].page # NoPage, NEW x \in w.pages[p].page,
               w.nodes[x].draft = n, IsOlder(x, w.nodes[x])'
        PROVE  x \in behind
    <3>1. p \in Pages /\ cache.pages[p].page = w.pages[p].page /\ x \in Rows \ {r}
      BY <1>6, <1>9, <2>1, <2>3
    <3>2. w.nodes[x] = cache.nodes[x] /\ IsOlder(x, cache.nodes[x])
      BY <1>5, <1>13, <2>3, <3>1
    <3> QED
      BY <2>1, <2>3, <3>1, <3>2 DEF UnknownCurrent
  <2> QED
    BY <1>5, <2>1, <2>2, <2>3 DEF UnknownCurrent, IsOlder, Awaits
<1>19. Fresh'
  <2>1. NodesCurrent'
    BY <1>5, <1>14, NodesCurrentNext
  <2>2. UnknownCurrent(m)'
    BY <1>5, <1>17 DEF UnknownCurrent, IsOlder, Awaits
  <2> QED
    BY <1>16, <1>18, <2>1, <2>2 DEF Fresh
<1>20. ASSUME ~mixed'
       PROVE  /\ NodesDrafted' /\ PagesDrafted'
              /\ \A n \in Mutations : Drafts(n)' => SnapshotClean(call[n].snapshot)' /\ UnknownDrafted(n)'
              /\ \A n, o \in Mutations : Drafts(n)' /\ Drafts(o)' => n = o
  <2>1. ~mixed /\ \A n \in Mutations : ~Drafts(n)
    BY <1>1, <1>20 DEF Drafts
  <2>2. /\ \A x \in Rows : cache.nodes[x] # NoNode => Clean(x, cache.nodes[x])
        /\ \A p \in Pages : \A x \in Rowed(cache.pages[p].data) : Clean(x, cache.pages[p].data[x])
        /\ SnapshotClean(Dehydrated(cache))
    BY <1>1, <2>1, NothingDrafted
  <2>3. \A n \in Mutations : Drafts(n)' => n = m
    BY <1>10, <2>1
  <2>4. \A x \in Rows : w.nodes[x] # NoNode => Clean(x, w.nodes[x])' \/ Pending(w.nodes[x].draft, x)'
    BY <1>3, <1>5, <1>10, <1>13, <2>2
  <2>5. NodesDrafted'
    BY <1>5, <2>4, NodesDraftedNext
  <2>6. PagesDrafted'
    <3>1. SUFFICES ASSUME NEW p \in Pages, NEW x \in Rowed(w.pages[p].data)
                   PROVE  Clean(x, w.pages[p].data[x])' \/ (p \notin Watched /\ Pending(w.pages[p].data[x].draft, x)')
      BY <1>5, PagesDraftedNext
    <3>2. x \in Rows /\ Clean(x, cache.pages[p].data[x])
      BY <1>6, <1>9, <2>2
    <3>3. CASE w.pages[p].data[x] = cache.pages[p].data[x]
      BY <1>13, <3>2, <3>3
    <3>4. CASE p \notin Watched /\ w.pages[p].data[x] = w.nodes[x] /\ w.nodes[x] # NoNode
      BY <2>4, <3>2, <3>4
    <3> QED
      BY <1>6, <1>15, <3>3, <3>4
  <2>7. SnapshotClean(call[m].snapshot)'
    <3> PICK s : s = Dehydrated(cache)
      OBVIOUS
    <3> QED
      BY <1>10, <2>2 DEF SnapshotClean, Clean
  <2>8. UnknownDrafted(m)'
    BY <1>5, <1>17 DEF UnknownDrafted
  <2> QED
    BY <2>3, <2>5, <2>6, <2>7, <2>8
<1>21. Drafted'
  BY <1>20 DEF Drafted
<1> QED
  BY <1>11, <1>12, <1>19, <1>21 DEF IInv

\* The handle's remove takes the row off one page, whose request it supersedes.
LEMMA AfterOptimisticDelete ==
    ASSUME IInv, NEW m \in Mutations, NEW r \in Rows, BeginsDraft(m, "delete", r), NEW q \in Pages,
           cache.pages[q].data # NoData, cache' = RemovedFrom(cache, q, r),
           behind' = behind \cup Overtaken
    PROVE  IInv'
<1> DEFINE v == RemovedFrom(cache, q, r)
<1>1. /\ Types /\ Shape /\ Fresh /\ Drafted /\ cache' = v /\ behind \subseteq behind'
      /\ UNCHANGED <<server, gone, fetches, confirmed, removed>>
      /\ mixed' = (mixed \/ \E n \in Mutations : UnderWay(n) /\ call[n].drafts)
  BY DEF IInv, BeginsDraft
<1>2. cache \in Caches /\ \A p \in Pages : Coherent(cache.pages[p], cache.nodes)
  BY <1>1 DEF Types, Shape
<1>3. /\ v \in Caches /\ v.nodes = cache.nodes
      /\ \A p \in Pages : Coherent(v.pages[p], v.nodes)
      /\ \A p \in Pages \ {q} : v.pages[p] = cache.pages[p] /\ v.flight[p] = cache.flight[p]
      /\ v.pages[q].page = NoPage /\ v.pages[q].data # NoData
      /\ \A x \in Rowed(v.pages[q].data) :
           /\ x \in Rowed(cache.pages[q].data)
           /\ \/ cache.pages[q].page = NoPage /\ v.pages[q].data[x] = cache.pages[q].data[x]
              \/ cache.pages[q].page # NoPage /\ x \in cache.pages[q].page
                 /\ cache.nodes[x] # NoNode /\ v.pages[q].data[x] = cache.nodes[x]
      /\ ~v.flight[q].live /\ (FlightOk(cache.flight[q]) => FlightOk(v.flight[q]))
  BY <1>2, RemovedFromChanges
<1> HIDE DEF v
<1> PICK w : w = v
  OBVIOUS
<1>4. /\ cache' = w /\ w \in Caches /\ w.nodes = cache.nodes
      /\ \A p \in Pages : Coherent(w.pages[p], w.nodes)
      /\ \A p \in Pages \ {q} : w.pages[p] = cache.pages[p] /\ w.flight[p] = cache.flight[p]
      /\ w.pages[q].page = NoPage /\ w.pages[q].data # NoData
      /\ ~w.flight[q].live /\ (FlightOk(cache.flight[q]) => FlightOk(w.flight[q]))
  BY <1>1, <1>3
<1>5. ASSUME NEW x \in Rowed(w.pages[q].data)
      PROVE  /\ x \in Rowed(cache.pages[q].data)
             /\ \/ w.pages[q].data[x] = cache.pages[q].data[x]
                \/ /\ cache.pages[q].page # NoPage /\ x \in cache.pages[q].page
                   /\ cache.nodes[x] # NoNode /\ w.pages[q].data[x] = cache.nodes[x]
  BY <1>3
<1>6. \A p \in Pages : /\ Rowed(cache.pages[p].data) \subseteq Rows
                       /\ cache.pages[p].page # NoPage => cache.pages[p].page \subseteq Rows
  BY <1>2, CacheFields, RowedIn
<1>7. /\ call' \in [Mutations -> Calls \cup {NoCall}] /\ Drafts(m)' /\ ~Drafts(m)
      /\ call'[m].snapshot = Dehydrated(cache)
      /\ \A n \in Mutations : CallOk(n)'
      /\ \A x : \A d : d # m => (Pending(d, x)' <=> Pending(d, x))
      /\ \A x : ~Pending(m, x)
      /\ \A n \in Mutations \ {m} : (Drafts(n)' <=> Drafts(n)) /\ Unknown(n)' = Unknown(n)
      /\ Unknown(m)' = {p \in Pages : cache.pages[p].data = NoData}
  BY <1>1, Begun DEF BeginsDraft
<1>8. Overtaken \in SUBSET Rows
  <2>1. \A p \in Pages : Older(cache'.pages[p].data) \in SUBSET Rows
    BY <1>4, CacheFields, RowedIn DEF Older
  <2> QED
    BY <2>1 DEF Overtaken
<1>9. Types'
  BY <1>1, <1>4, <1>7, <1>8 DEF Types
<1>10. Shape'
  <2>1. \A p \in Pages : FlightOk(w.flight[p])
    BY <1>1, <1>4 DEF Shape
  <2> QED
    BY <1>4, <1>7, <2>1 DEF Shape, Coherent, FlightOk
<1>11. ASSUME NEW x \in Rows, NEW old
       PROVE  /\ IsOlder(x, old)' <=> IsOlder(x, old)
              /\ Current(x, old) => Current(x, old)'
              /\ Clean(x, old) => Clean(x, old)'
  <2>1. IsOlder(x, old)' <=> IsOlder(x, old)
    BY <1>1 DEF IsOlder
  <2>2. Pending(old.draft, x) => Pending(old.draft, x)'
    BY <1>7
  <2> QED
    BY <1>1, <2>1, <2>2 DEF Current, Clean
<1>12. ASSUME NEW x \in Rowed(w.pages[q].data), Awaits(q), IsOlder(x, w.pages[q].data[x])
       PROVE  x \in behind'
  <2>1. cache.flight[q].live /\ ~cache'.flight[q].live
    BY <1>4, <1>12 DEF Awaits
  <2>2. x \in Older(cache'.pages[q].data)
    BY <1>4, <1>12 DEF Older
  <2>3. Older(cache'.pages[q].data) \subseteq Overtaken
    BY <2>1 DEF Overtaken
  <2> QED
    BY <1>1, <2>2, <2>3
<1>13. \A x \in Rows : w.nodes[x] # NoNode => Current(x, w.nodes[x])'
  BY <1>1, <1>4, <1>11 DEF Fresh, NodesCurrent
<1>14. ASSUME NEW p \in Pages, ~Awaits(p)', NEW x \in Rowed(w.pages[p].data)
       PROVE  Current(x, w.pages[p].data[x])'
  <2>1. CASE p # q
    <3>1. w.pages[p] = cache.pages[p] /\ ~Awaits(p) /\ x \in Rows
      BY <1>4, <1>6, <1>14, <2>1 DEF Awaits
    <3>2. Current(x, w.pages[p].data[x])
      BY <1>1, <1>14, <3>1 DEF Fresh, PagesCurrent
    <3> QED
      BY <1>11, <3>1, <3>2
  <2>2. CASE p = q
    <3>1. x \in Rowed(cache.pages[q].data) /\ x \in Rows
      BY <1>5, <1>6, <1>14, <2>2
    <3>2. CASE w.pages[q].data[x] = cache.nodes[x] /\ cache.nodes[x] # NoNode
      BY <1>4, <1>13, <2>2, <3>1, <3>2
    <3>3. CASE w.pages[q].data[x] = cache.pages[q].data[x] /\ ~Awaits(q)
      <4>1. Current(x, w.pages[q].data[x])
        BY <1>1, <3>1, <3>3 DEF Fresh, PagesCurrent
      <4> QED
        BY <1>11, <2>2, <3>1, <4>1
    <3>4. CASE Awaits(q)
      BY <1>11, <1>12, <1>14, <2>2, <3>1, <3>4 DEF Current
    <3> QED
      BY <1>5, <1>14, <2>2, <3>2, <3>3, <3>4
  <2> QED
    BY <2>1, <2>2
<1>15. \A p \in Unknown(m)' : Rowed(w.pages[p].data) = {} /\ w.pages[p].page = NoPage
  <2>1. ASSUME NEW p \in Pages, cache.pages[p].data = NoData
        PROVE  Rowed(w.pages[p].data) = {} /\ w.pages[p].page = NoPage
    <3>1. w.pages[p].data = NoData
      BY <1>4, <2>1
    <3> QED
      BY <1>4, <3>1 DEF Rowed, Coherent
  <2> QED
    BY <1>7, <2>1
<1>16. ASSUME NEW n \in Mutations, Drafts(n)', n # m
       PROVE  UnknownCurrent(n)'
  <2>1. Drafts(n) /\ Unknown(n)' = Unknown(n) /\ Unknown(n) \subseteq Pages /\ UnknownCurrent(n)
    BY <1>1, <1>7, <1>16 DEF Fresh, Unknown
  <2>2. ASSUME NEW p \in Unknown(n), ~Awaits(p)', NEW x \in Rowed(w.pages[p].data),
               w.pages[p].data[x].draft = n, IsOlder(x, w.pages[p].data[x])'
        PROVE  x \in behind'
    <3>1. CASE p # q
      <4>1. w.pages[p] = cache.pages[p] /\ ~Awaits(p) /\ x \in Rows
        BY <1>4, <1>6, <2>1, <2>2, <3>1 DEF Awaits
      <4>2. IsOlder(x, w.pages[p].data[x])
        BY <1>11, <2>2, <4>1
      <4> QED
        BY <1>1, <2>1, <2>2, <4>1, <4>2 DEF UnknownCurrent
    <3>2. CASE p = q
      <4>1. x \in Rowed(cache.pages[q].data) /\ x \in Rows
        BY <1>5, <1>6, <2>2, <3>2
      <4>2. IsOlder(x, w.pages[q].data[x]) /\ w.pages[q].data[x].draft = n /\ q \in Unknown(n)
        BY <1>11, <2>2, <3>2, <4>1
      <4>3. CASE Awaits(q)
        BY <1>12, <2>2, <3>2, <4>2, <4>3
      <4>4. CASE ~Awaits(q)
        BY <1>1, <1>5, <2>1, <2>2, <3>2, <4>1, <4>2, <4>4 DEF UnknownCurrent
      <4> QED
        BY <4>3, <4>4
    <3> QED
      BY <3>1, <3>2
  <2>3. ASSUME NEW p \in Unknown(n), w.pages[p].page # NoPage, NEW x \in w.pages[p].page,
               w.nodes[x].draft = n, IsOlder(x, w.nodes[x])'
        PROVE  x \in behind'
    <3>1. p # q /\ w.pages[p] = cache.pages[p] /\ x \in Rows
      BY <1>4, <1>6, <2>1, <2>3
    <3>2. w.nodes[x] = cache.nodes[x] /\ IsOlder(x, cache.nodes[x])
      BY <1>4, <1>11, <2>3, <3>1
    <3> QED
      BY <1>1, <2>1, <2>3, <3>1, <3>2 DEF UnknownCurrent
  <2> QED
    BY <1>4, <2>1, <2>2, <2>3 DEF UnknownCurrent, IsOlder, Awaits
<1>17. Fresh'
  <2>1. NodesCurrent'
    BY <1>4, <1>13, NodesCurrentNext
  <2>2. PagesCurrent'
    BY <1>4, <1>14, PagesCurrentNext
  <2>3. UnknownCurrent(m)'
    BY <1>4, <1>15 DEF UnknownCurrent, IsOlder, Awaits
  <2> QED
    BY <1>16, <2>1, <2>2, <2>3 DEF Fresh
<1>18. ASSUME ~mixed'
       PROVE  /\ NodesDrafted' /\ PagesDrafted'
              /\ \A n \in Mutations : Drafts(n)' => SnapshotClean(call[n].snapshot)' /\ UnknownDrafted(n)'
              /\ \A n, o \in Mutations : Drafts(n)' /\ Drafts(o)' => n = o
  <2>1. ~mixed /\ \A n \in Mutations : ~Drafts(n)
    BY <1>1, <1>18 DEF Drafts
  <2>2. /\ \A x \in Rows : cache.nodes[x] # NoNode => Clean(x, cache.nodes[x])
        /\ \A p \in Pages : \A x \in Rowed(cache.pages[p].data) : Clean(x, cache.pages[p].data[x])
        /\ SnapshotClean(Dehydrated(cache))
    BY <1>1, <2>1, NothingDrafted
  <2>3. \A n \in Mutations : Drafts(n)' => n = m
    BY <1>7, <2>1
  <2>4. \A x \in Rows : w.nodes[x] # NoNode => Clean(x, w.nodes[x])'
    BY <1>4, <1>11, <2>2
  <2>5. NodesDrafted'
    BY <1>4, <2>4, NodesDraftedNext
  <2>6. ASSUME NEW p \in Pages, NEW x \in Rowed(w.pages[p].data)
        PROVE  Clean(x, w.pages[p].data[x])'
    <3>1. CASE p # q
      BY <1>4, <1>6, <1>11, <2>2, <3>1
    <3>2. CASE p = q
      BY <1>4, <1>5, <1>6, <1>11, <2>2, <2>4, <3>2
    <3> QED
      BY <3>1, <3>2
  <2>7. PagesDrafted'
    BY <1>4, <2>6, PagesDraftedNext
  <2>8. SnapshotClean(call[m].snapshot)'
    <3> PICK s : s = Dehydrated(cache)
      OBVIOUS
    <3>1. SnapshotClean(s)
      BY <2>2
    <3> QED
      BY <1>1, <1>7, <3>1 DEF SnapshotClean, Clean
  <2>9. UnknownDrafted(m)'
    BY <1>4, <1>15 DEF UnknownDrafted
  <2> QED
    BY <2>3, <2>5, <2>7, <2>8, <2>9
<1>19. Drafted'
  BY <1>18 DEF Drafted
<1> QED
  BY <1>9, <1>10, <1>17, <1>19 DEF IInv

LEMMA AfterBegin ==
    ASSUME IInv, NEW m \in Mutations, Begin(m)
    PROVE  IInv'
<1>1. PICK op \in Operations, r \in Rows, drafts \in Drafting :
       /\ call' = [call EXCEPT ![m] = [phase |-> "sent", op |-> op, row |-> r, drafts |-> drafts,
              answer |-> 0, snapshot |-> IF drafts THEN Dehydrated(cache) ELSE NoData]]
       /\ mixed' = (mixed \/ (drafts /\ \E n \in Mutations : UnderWay(n) /\ call[n].drafts))
       /\ \/ ~drafts /\ UNCHANGED <<cache, behind>>
          \/ /\ drafts /\ op = "update"
             /\ cache' = WriteEntity(cache, r, Draft(m, r))
             /\ behind' = behind
          \/ /\ drafts /\ op = "delete"
             /\ \E p \in Pages : cache.pages[p].data # NoData /\ cache' = RemovedFrom(cache, p, r)
             /\ behind' = behind \cup Overtaken
  BY DEF Begin
<1>2. call[m].phase = "idle" /\ UNCHANGED <<server, gone, fetches, confirmed, removed>>
  BY DEF Begin
<1>3. drafts \in BOOLEAN /\ mixed \in BOOLEAN
  BY Distinct DEF IInv, Types
<1>4. CASE ~drafts
  <2>1. drafts = FALSE /\ UNCHANGED <<cache, behind>>
    BY <1>1, <1>3, <1>4
  <2>2. call' = [call EXCEPT ![m] = [phase |-> "sent", op |-> op, row |-> r, drafts |-> FALSE,
                                     answer |-> 0, snapshot |-> NoData]]
    BY <1>1, <2>1
  <2>3. mixed' = mixed
    BY <1>1, <1>3, <2>1
  <2> QED
    BY <1>2, <2>1, <2>2, <2>3, AfterPlainBegin
<1>5. CASE drafts
  <2>1. drafts = TRUE
    BY <1>3, <1>5
  <2>2. call' = [call EXCEPT ![m] = [phase |-> "sent", op |-> op, row |-> r, drafts |-> TRUE,
                                     answer |-> 0, snapshot |-> Dehydrated(cache)]]
    BY <1>1, <2>1
  <2>3. mixed' = (mixed \/ \E n \in Mutations : UnderWay(n) /\ call[n].drafts)
    BY <1>1, <2>1
  <2>4. BeginsDraft(m, op, r)
    BY <1>2, <2>2, <2>3 DEF BeginsDraft
  <2>5. CASE op = "update" /\ cache' = WriteEntity(cache, r, Draft(m, r)) /\ behind' = behind
    BY <2>4, <2>5, AfterDraft
  <2>6. CASE /\ op = "delete" /\ behind' = behind \cup Overtaken
             /\ \E p \in Pages : cache.pages[p].data # NoData /\ cache' = RemovedFrom(cache, p, r)
    BY <2>4, <2>6, AfterOptimisticDelete
  <2> QED
    BY <1>1, <1>5, <2>5, <2>6
<1> QED
  BY <1>4, <1>5

-----------------------------------------------------------------------------
(* The undoing of a mutation.                                               *)

\* hydrate puts the snapshot back: what is older in it is behind, and so is a
\* row that keeps its draft; what the snapshot does not have is left as it is.
LEMMA AfterUndo ==
    ASSUME IInv, NEW m \in Mutations, Undo(m)
    PROVE  IInv'
<1> PICK s : s = call[m].snapshot
  OBVIOUS
<1> DEFINE Back(x) == IF s.nodes[x] = NoNode THEN cache.nodes[x] # NoNode /\ cache.nodes[x].draft = m
                      ELSE IsOlder(x, s.nodes[x])
           v == Hydrated(cache, s)
<1>1. /\ Types /\ Shape /\ Fresh /\ Drafted /\ call[m].phase = "failed" /\ End(m) /\ cache' = v
      /\ behind' = behind \cup {x \in Rows : Back(x)} \cup UNION {Older(s.pages[p].data) : p \in Pages}
      /\ UNCHANGED <<server, gone, fetches, confirmed, removed, mixed>>
  BY DEF IInv, Undo
<1>2. Drafts(m) /\ s \in Snapshots /\ \A p \in Pages : Coherent(s.pages[p], s.nodes)
  BY <1>1 DEF Shape, CallOk, Drafts, UnderWay
<1>3. cache \in Caches /\ \A p \in Pages : Coherent(cache.pages[p], cache.nodes)
  BY <1>1 DEF Types, Shape
<1>4. /\ v \in Caches /\ v.flight = cache.flight
      /\ \A r \in Rows : /\ s.nodes[r] = NoNode => v.nodes[r] = cache.nodes[r]
                         /\ s.nodes[r] # NoNode => v.nodes[r] = s.nodes[r] /\ s.nodes[r] \in Shown
      /\ \A p \in Pages :
           /\ Coherent(v.pages[p], v.nodes)
           /\ s.pages[p].data = NoData => v.pages[p] = cache.pages[p]
           /\ s.pages[p].data # NoData => /\ v.pages[p].data = s.pages[p].data
                                          /\ v.pages[p].page = s.pages[p].page
  BY <1>2, <1>3, HydratedChanges
<1>5. ASSUME NEW x \in Rows, Back(x)
      PROVE  x \in behind'
  BY <1>1, <1>5
<1>6. ASSUME NEW p \in Pages, NEW x \in Rowed(s.pages[p].data), IsOlder(x, s.pages[p].data[x])
      PROVE  x \in behind'
  <2>1. x \in Older(s.pages[p].data)
    BY <1>6 DEF Older
  <2> QED
    BY <1>1, <2>1
<1>7. /\ \A p \in Pages : Older(s.pages[p].data) \in SUBSET Rows /\ Rowed(s.pages[p].data) \subseteq Rows
      /\ \A p \in Pages : s.pages[p].page # NoPage =>
           s.pages[p].page \subseteq Rows /\ \A x \in s.pages[p].page : s.nodes[x] # NoNode
  <2>1. \A p \in Pages : /\ s.pages[p].data \in Data \cup {NoData}
                         /\ s.pages[p].page \in (SUBSET Rows) \cup {NoPage}
    BY <1>2 DEF Snapshots, Entries
  <2> QED
    BY <1>2, <2>1, RowedIn DEF Older, Coherent
<1>8. behind' \in SUBSET Rows /\ behind \subseteq behind'
  BY <1>1, <1>7 DEF Types
<1> HIDE DEF v
<1> PICK w : w = v
  OBVIOUS
<1>9. /\ cache' = w /\ w \in Caches /\ w.flight = cache.flight
      /\ \A p \in Pages : Coherent(w.pages[p], w.nodes)
  BY <1>1, <1>4
<1>10. ASSUME NEW p \in Pages
       PROVE  /\ p \in Unknown(m) => w.pages[p] = cache.pages[p]
              /\ p \notin Unknown(m) => /\ w.pages[p].data = s.pages[p].data
                                        /\ w.pages[p].page = s.pages[p].page
  BY <1>4 DEF Unknown
<1>11. ASSUME NEW x \in Rows, w.nodes[x] # NoNode
       PROVE  \/ w.nodes[x] = s.nodes[x] /\ s.nodes[x] # NoNode /\ (IsOlder(x, s.nodes[x]) => x \in behind')
              \/ w.nodes[x] = cache.nodes[x] /\ s.nodes[x] = NoNode /\ cache.nodes[x] # NoNode
                 /\ (cache.nodes[x].draft = m => x \in behind')
  <2>1. CASE s.nodes[x] = NoNode
    BY <1>4, <1>5, <1>11, <2>1
  <2>2. CASE s.nodes[x] # NoNode
    BY <1>4, <1>5, <2>2
  <2> QED
    BY <2>1, <2>2
<1> HIDE DEF Back
<1>12. \A p \in Pages : /\ Rowed(cache.pages[p].data) \subseteq Rows
                        /\ Rowed(w.pages[p].data) \subseteq Rows
                        /\ w.pages[p].page # NoPage => w.pages[p].page \subseteq Rows
  BY <1>3, <1>9, CacheFields, RowedIn
<1> PICK k \in Calls : call' = [call EXCEPT ![m] = k] /\ k.phase = "ended"
  BY <1>1, End1
<1>13. /\ call' \in [Mutations -> Calls \cup {NoCall}] /\ call'[m] = k
       /\ \A n \in Mutations \ {m} : /\ call'[n] = call[n] /\ (Drafts(n)' <=> Drafts(n))
                                     /\ \A x : Pending(n, x)' <=> Pending(n, x)
  BY <1>1, CallSet
<1>14. Types'
  BY <1>1, <1>8, <1>9, <1>13 DEF Types
<1>15. ~Drafts(m)' /\ DraftsKept
  <2>1. ~Drafts(m)' /\ call'[m].phase # "failed"
    BY <1>13 DEF Drafts, UnderWay
  <2> QED
    BY <1>1, <1>13, <2>1 DEF DraftsKept, Shape, CallOk
<1>16. /\ \A n \in Mutations : CallOk(n)'
       /\ \A n \in Mutations : Drafts(n)' => Unknown(n)' = Unknown(n)
  BY <1>1, <1>15, CallsStayOk
<1>17. Shape'
  BY <1>1, <1>9, <1>16 DEF Shape, Coherent, FlightOk
<1>18. ASSUME NEW x \in Rows, NEW old
       PROVE  /\ IsOlder(x, old)' <=> IsOlder(x, old)
              /\ Clean(x, old) => Clean(x, old)'
              /\ Current(x, old) /\ old.draft # m => Current(x, old)'
              /\ ~IsOlder(x, old) \/ x \in behind' => Current(x, old)'
  <2>1. IsOlder(x, old)' <=> IsOlder(x, old)
    BY <1>1 DEF IsOlder
  <2>2. old.draft # m /\ Pending(old.draft, x) => Pending(old.draft, x)'
    BY <1>13 DEF Pending
  <2> QED
    BY <1>8, <2>1, <2>2 DEF Current, Clean
<1>19. ASSUME NEW x \in Rows, w.nodes[x] # NoNode
       PROVE  Current(x, w.nodes[x])'
  <2>1. CASE w.nodes[x] = s.nodes[x] /\ (IsOlder(x, s.nodes[x]) => x \in behind')
    BY <1>18, <2>1
  <2>2. CASE w.nodes[x] = cache.nodes[x] /\ cache.nodes[x] # NoNode /\ (cache.nodes[x].draft = m => x \in behind')
    <3>1. Current(x, w.nodes[x])
      BY <1>1, <2>2 DEF Fresh, NodesCurrent
    <3> QED
      BY <1>18, <2>2, <3>1
  <2> QED
    BY <1>11, <1>19, <2>1, <2>2
<1>20. ASSUME NEW p \in Pages, ~Awaits(p)', NEW x \in Rowed(w.pages[p].data)
       PROVE  Current(x, w.pages[p].data[x])'
  <2>1. x \in Rows /\ ~Awaits(p)
    BY <1>9, <1>12, <1>20 DEF Awaits
  <2>2. CASE p \in Unknown(m)
    <3>1. w.pages[p] = cache.pages[p]
      BY <1>10, <2>2
    <3>2. Current(x, w.pages[p].data[x])
      BY <1>1, <1>20, <2>1, <3>1 DEF Fresh, PagesCurrent
    <3>3. w.pages[p].data[x].draft = m => x \in behind \/ ~IsOlder(x, w.pages[p].data[x])
      BY <1>1, <1>2, <1>20, <2>1, <2>2, <3>1 DEF Fresh, UnknownCurrent
    <3> QED
      BY <1>8, <1>18, <2>1, <3>2, <3>3
  <2>3. CASE p \notin Unknown(m)
    <3>1. w.pages[p].data = s.pages[p].data
      BY <1>10, <2>3
    <3>2. IsOlder(x, w.pages[p].data[x]) => x \in behind'
      BY <1>6, <1>20, <3>1
    <3> QED
      BY <1>18, <2>1, <3>2
  <2> QED
    BY <2>2, <2>3
<1>21. ASSUME NEW n \in Mutations, Drafts(n)'
       PROVE  UnknownCurrent(n)'
  <2>1. Drafts(n) /\ Unknown(n)' = Unknown(n) /\ Unknown(n) \subseteq Pages /\ UnknownCurrent(n)
    BY <1>1, <1>15, <1>16, <1>21 DEF Fresh, Unknown, DraftsKept
  <2>2. ASSUME NEW p \in Unknown(n), ~Awaits(p)', NEW x \in Rowed(w.pages[p].data),
               w.pages[p].data[x].draft = n, IsOlder(x, w.pages[p].data[x])'
        PROVE  x \in behind'
    <3>1. p \in Pages /\ x \in Rows /\ ~Awaits(p)
      BY <1>9, <1>12, <2>1, <2>2 DEF Awaits
    <3>2. IsOlder(x, w.pages[p].data[x])
      BY <1>18, <2>2, <3>1
    <3>3. CASE p \in Unknown(m)
      <4>1. w.pages[p] = cache.pages[p]
        BY <1>10, <3>1, <3>3
      <4> QED
        BY <1>8, <2>1, <2>2, <3>1, <3>2, <4>1 DEF UnknownCurrent
    <3>4. CASE p \notin Unknown(m)
      BY <1>6, <1>10, <2>2, <3>1, <3>2, <3>4
    <3> QED
      BY <3>3, <3>4
  <2>3. ASSUME NEW p \in Unknown(n), w.pages[p].page # NoPage, NEW x \in w.pages[p].page,
               w.nodes[x].draft = n, IsOlder(x, w.nodes[x])'
        PROVE  x \in behind'
    <3>1. p \in Pages /\ x \in Rows /\ w.nodes[x] # NoNode
      BY <1>9, <1>12, <2>1, <2>3 DEF Coherent
    <3>2. IsOlder(x, w.nodes[x])
      BY <1>18, <2>3, <3>1
    <3>3. CASE w.nodes[x] = s.nodes[x] /\ (IsOlder(x, s.nodes[x]) => x \in behind')
      BY <3>2, <3>3
    <3>4. CASE w.nodes[x] = cache.nodes[x] /\ s.nodes[x] = NoNode
      <4>1. p \in Unknown(m)
        BY <1>7, <1>10, <2>3, <3>1, <3>4
      <4>2. w.pages[p] = cache.pages[p]
        BY <1>10, <3>1, <4>1
      <4> QED
        BY <1>8, <2>1, <2>3, <3>1, <3>2, <3>4, <4>2 DEF UnknownCurrent
    <3> QED
      BY <1>11, <3>1, <3>3, <3>4
  <2> QED
    BY <1>9, <2>1, <2>2, <2>3 DEF UnknownCurrent, IsOlder, Awaits
<1>22. Fresh'
  <2>1. NodesCurrent'
    BY <1>9, <1>19, NodesCurrentNext
  <2>2. PagesCurrent'
    <3>1. SUFFICES ASSUME NEW p \in Pages, ~Awaits(p)', NEW x \in Rowed(w.pages[p].data)
                   PROVE  Current(x, w.pages[p].data[x])'
      BY <1>9, PagesCurrentNext
    <3> QED
      BY <1>20, <3>1
  <2> QED
    BY <1>21, <2>1, <2>2 DEF Fresh
<1>23. ASSUME ~mixed
       PROVE  /\ NodesDrafted' /\ PagesDrafted'
              /\ \A n \in Mutations : ~Drafts(n)'
  <2>1. /\ NodesDrafted /\ PagesDrafted /\ SnapshotClean(s) /\ UnknownDrafted(m)
        /\ \A n \in Mutations : Drafts(n) => n = m
    BY <1>1, <1>2, <1>23 DEF Drafted
  <2>2. \A d, x : Pending(d, x) => d = m
    BY <2>1 DEF Pending
  <2>3. ASSUME NEW x \in Rows, w.nodes[x] # NoNode
        PROVE  Clean(x, w.nodes[x])'
    <3>1. CASE w.nodes[x] = s.nodes[x] /\ s.nodes[x] # NoNode
      BY <1>18, <2>1, <3>1 DEF SnapshotClean
    <3>2. CASE w.nodes[x] = cache.nodes[x] /\ cache.nodes[x] # NoNode /\ (cache.nodes[x].draft = m => x \in behind')
      <4>1. Clean(x, w.nodes[x]) \/ x \in behind'
        BY <2>1, <2>2, <3>2 DEF NodesDrafted
      <4> QED
        BY <1>18, <4>1 DEF Clean
    <3> QED
      BY <1>11, <2>3, <3>1, <3>2
  <2>4. ASSUME NEW p \in Pages, NEW x \in Rowed(w.pages[p].data)
        PROVE  Clean(x, w.pages[p].data[x])'
    <3>1. x \in Rows
      BY <1>12
    <3>2. CASE p \in Unknown(m)
      <4>1. w.pages[p] = cache.pages[p]
        BY <1>10, <3>2
      <4>2. Clean(x, w.pages[p].data[x]) \/ w.pages[p].data[x].draft = m
        BY <2>1, <2>2, <2>4, <4>1 DEF PagesDrafted
      <4>3. w.pages[p].data[x].draft = m => x \in behind
        BY <2>1, <2>4, <3>2, <4>1 DEF UnknownDrafted
      <4>4. Clean(x, w.pages[p].data[x])
        BY <4>2, <4>3 DEF Clean
      <4> QED
        BY <1>18, <3>1, <4>4
    <3>3. CASE p \notin Unknown(m)
      <4>1. Clean(x, w.pages[p].data[x])
        BY <1>10, <2>1, <2>4, <3>3 DEF SnapshotClean
      <4> QED
        BY <1>18, <3>1, <4>1
    <3> QED
      BY <3>2, <3>3
  <2>5. NodesDrafted'
    BY <1>9, <2>3, NodesDraftedNext
  <2>6. PagesDrafted'
    BY <1>9, <2>4, PagesDraftedNext
  <2>7. \A n \in Mutations : ~Drafts(n)'
    BY <1>15, <2>1 DEF DraftsKept
  <2> QED
    BY <2>5, <2>6, <2>7
<1>24. Drafted'
  BY <1>1, <1>23 DEF Drafted
<1> QED
  BY <1>14, <1>17, <1>22, <1>24 DEF IInv

-----------------------------------------------------------------------------
(* Theorems.                                                                *)

LEMMA Consecution == IInv /\ [Next]_vars => IInv'
<1> SUFFICES ASSUME IInv, [Next]_vars PROVE IInv'
  OBVIOUS
<1>1. ASSUME UNCHANGED vars
      PROVE  IInv'
  <2>1. /\ UNCHANGED <<server, gone, cache, call, fetches, confirmed, removed, behind, mixed>>
    BY <1>1 DEF vars, history
  <2>2. Types /\ Shape
    BY DEF IInv
  <2>3. Types'
    BY <2>1, <2>2 DEF Types
  <2>4. \A p \in Pages : FlightOk(cache.flight[p])' /\ (Awaits(p) => Awaits(p)')
    BY <2>1, <2>2 DEF Shape, FlightOk, Awaits
  <2>5. \A m \in Mutations : /\ Drafts(m)' <=> Drafts(m)
                             /\ call'[m].phase = "failed" => call'[m].drafts
    BY <2>1, <2>2 DEF Drafts, UnderWay, Shape, CallOk
  <2> QED
    BY <2>1, <2>3, <2>4, <2>5, Quiet DEF history
<1>2. ASSUME NEW p \in Pages, Fetch(p) \/ Read(p) \/ Answer(p)
      PROVE  IInv'
  BY <1>2, AfterFetch, AfterRead, AfterDroppedAnswer, AfterIngestedAnswer
<1>3. ASSUME NEW m \in Mutations,
             Begin(m) \/ Serve(m) \/ Refuse(m) \/ Updated(m) \/ Deleted(m) \/ Failed(m) \/ Undo(m)
      PROVE  IInv'
  BY <1>3, AfterBegin, AfterServe, AfterRefuse, AfterNoUpdate, AfterUpdated, AfterDeleted,
     AfterFailed, AfterUndo
<1> QED
  BY <1>1, <1>2, <1>3 DEF Next, Step, Over

\* The inductive invariant holds in every reachable state, for every instance.
THEOREM Invariance == Spec => []IInv
BY Initially, Consecution, PTL DEF Spec

\* The cache keeps its shape, and materializeNormalizedQueryPage never meets a
\* row that the graph has lost: removeEntity takes it off every page first.
THEOREM TypeCorrect == Spec => []TypeOK
<1>1. ASSUME IInv
      PROVE  TypeOK
  <2>1. Types /\ Shape /\ cache \in Caches
    BY <1>1 DEF IInv, Types
  <2>2. \A r \in Rows : cache.nodes[r] = NoNode \/ cache.nodes[r] \in Shown
    BY <2>1, CacheFields
  <2>3. ASSUME NEW p \in Pages
        PROVE  /\ IsData(cache.pages[p].data) /\ cache.pages[p].refs \subseteq Rows
               /\ cache.flight[p].phase \in {"none", "sent", "read"} /\ cache.flight[p].live \in BOOLEAN
    <3>1. /\ cache.pages[p].data \in Data \cup {NoData} /\ cache.pages[p].refs \in SUBSET Rows
          /\ cache.flight[p].phase \in Phases /\ cache.flight[p].live \in BOOLEAN
      BY <2>1, CacheFields
    <3>2. IsData(cache.pages[p].data)
      BY <3>1, DataOut DEF IsData
    <3> QED
      BY <3>1, <3>2 DEF Phases
  <2>4. ASSUME NEW p \in Pages, cache.pages[p].page # NoPage
        PROVE  cache.pages[p].page \subseteq Rows /\ \A r \in cache.pages[p].page : cache.nodes[r] # NoNode
    <3>1. cache.pages[p].page \in SUBSET Rows /\ Coherent(cache.pages[p], cache.nodes)
      BY <2>1, <2>4, CacheFields DEF Shape
    <3> QED
      BY <2>4, <3>1 DEF Coherent
  <2>5. \A m \in Mutations : call[m].phase \in
          {"idle", "sent", "served", "refused", "thrown", "failed", "ended"}
    BY <2>1, CallActive
  <2> QED
    BY <2>1, <2>2, <2>3, <2>4, <2>5 DEF Types, TypeOK
<1> QED
  BY <1>1, Invariance, PTL

\* Once everything has been answered, no page shows of a row less than the
\* newest update that reconcileExecutable was given, nor one it was told to
\* delete, unless something older was put back or left there (behind).
THEOREM NewestReconciled == Spec => []MutationIsShown
<1>1. ASSUME IInv
      PROVE  MutationIsShown
  <2>1. Types /\ Shape /\ Fresh /\ cache \in Caches
    BY <1>1 DEF IInv, Types
  <2>2. SUFFICES ASSUME AtRest, NEW p \in Pages, NEW r \in Rowed(cache.pages[p].data) \ behind
                 PROVE  r \notin removed /\ cache.pages[p].data[r].version >= confirmed[r]
    BY DEF MutationIsShown
  <2>3. ~Awaits(p)
    BY <2>1, <2>2 DEF AtRest, Shape, FlightOk, Awaits
  <2>4. Current(r, cache.pages[p].data[r])
    BY <2>1, <2>3 DEF Fresh, PagesCurrent
  <2>5. ~Pending(cache.pages[p].data[r].draft, r)
    BY <2>2 DEF AtRest, Pending, Drafts
  <2>6. r \in Rows /\ cache.pages[p].data[r] \in Shown
    BY <2>1, CacheFields, RowedIn
  <2>7. cache.pages[p].data[r].version \in Nat /\ confirmed[r] \in Nat
    BY <2>1, <2>6, ShownFields DEF Types
  <2>8. ~IsOlder(r, cache.pages[p].data[r])
    BY <2>4, <2>5 DEF Current
  <2> QED
    BY <2>7, <2>8 DEF IsOlder
<1> QED
  BY <1>1, Invariance, PTL

\* A draft that onMutate shows is gone from every page when its mutation is
\* over, unless drafts met or its row is behind.
THEOREM Undone == Spec => []DraftsVanish
<1>1. ASSUME IInv
      PROVE  DraftsVanish
  <2>1. Drafted
    BY <1>1 DEF IInv
  <2>2. SUFFICES ASSUME ~mixed, NEW p \in Pages, NEW r \in Rowed(cache.pages[p].data),
                        cache.pages[p].data[r].draft # NoMutation
                 PROVE  UnderWay(cache.pages[p].data[r].draft) \/ r \in behind
    BY DEF DraftsVanish
  <2>3. \/ Clean(r, cache.pages[p].data[r])
        \/ Pending(cache.pages[p].data[r].draft, r)
    BY <2>1, <2>2 DEF Drafted, PagesDrafted
  <2> QED
    BY <2>2, <2>3 DEF Clean, Pending, Drafts
<1> QED
  BY <1>1, Invariance, PTL

=============================================================================
