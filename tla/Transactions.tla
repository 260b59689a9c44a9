---------------------------- MODULE Transactions ----------------------------
(***************************************************************************)
(* db.transaction([...]) and db.withTransaction(callback) over a pool of   *)
(* PostgreSQL connections: src/db/transaction/coordinator.ts,              *)
(* src/postgres/transaction.ts and withTransaction of src/client.ts.       *)
(*                                                                         *)
(* A transaction checks a client out of the pool, sends it one statement   *)
(* at a time and gives it back.  A client runs the statements it is handed *)
(* in the order it is handed them, whoever hands them over; the pool gives *)
(* a returned client to the next transaction that waits for one.  Each     *)
(* step is the synchronous code between two awaits, or one statement run   *)
(* by the server.                                                          *)
(***************************************************************************)
EXTENDS Integers, Sequences, FiniteSets

CONSTANTS
    Atomic,       \* calls of db.transaction
    Interactive,  \* calls of db.withTransaction
    Clients,      \* connections of the pool
    Ops,          \* operations of an atomic transaction, at most of an interactive one
    MaxSavepoints,  \* bound: savepoints of an interactive transaction
    MaxBreaks,    \* bound: connections lost in a behaviour
    NoClient, NoTxn

Txns == Atomic \cup Interactive

ASSUME TransactionsAssumption ==
    /\ Atomic \cap Interactive = {}
    /\ Ops \in Nat \ {0} /\ MaxSavepoints \in Nat /\ MaxBreaks \in Nat
    /\ NoClient \notin Clients /\ NoTxn \notin Txns

VARIABLES
    pc,       \* where each transaction's code has come to
    client,   \* the client a transaction checked out (kept after the release)
    reply,    \* the answer to its last statement
    nextOp,   \* its next operation
    doomed,   \* whether it may not commit any more
    savepoints,  \* how many savepoints it asked for
    open,     \* those it is inside of, the youngest first
    idle,     \* clients in the pool
    waiters,  \* transactions waiting for a client, first come first served
    queue,    \* statements handed to a client and not run yet
    conn,     \* the server's side of a connection
    db,       \* committed writes
    breaks,   \* connections lost so far
    kept,     \* history: writes acknowledged and not undone by a savepoint
    lost,     \* transactions whose client has lost its connection
    unsure,   \* history: transactions that lost it while COMMIT was under way
    intruded  \* history: transactions in whose block a foreign ROLLBACK ran

txn == <<nextOp, doomed, savepoints, open>>
local == <<pc, client, reply, txn>>
pool == <<idle, waiters>>
history == <<kept, unsure, intruded>>
vars == <<local, pool, queue, conn, db, breaks, lost, history>>

Held == {"connected", "begin", "body", "op", "savepoint", "release", "rollbackTo",
         "commit", "rollback", "rollbackDoomed", "catch"}
Released == {"again", "rollbackAgain"}
PCs == Held \cup Released \cup {"start", "waiting", "resolved", "rejected"}
Replies == {"none", "ok", "error"}
Statements == {"BEGIN", "WRITE", "COMMIT", "ROLLBACK", "SAVEPOINT", "RELEASE", "ROLLBACK_TO"}

Writes == Txns \X (1 .. Ops)
NoBlock == [owner |-> NoTxn, failed |-> FALSE, writes |-> {}, marks |-> {}]
Block(t) == [NoBlock EXCEPT !.owner = t]

Init ==
    /\ pc = [t \in Txns |-> "start"]
    /\ client = [t \in Txns |-> NoClient]
    /\ reply = [t \in Txns |-> "none"]
    /\ nextOp = [t \in Txns |-> 1] /\ doomed = [t \in Txns |-> FALSE]
    /\ savepoints = [t \in Txns |-> 0] /\ open = [t \in Txns |-> <<>>]
    /\ idle = Clients /\ waiters = <<>>
    /\ queue = [c \in Clients |-> <<>>]
    /\ conn = [c \in Clients |-> NoBlock]
    /\ db = {}
    /\ breaks = 0
    /\ kept = [t \in Txns |-> {}]
    /\ lost = {} /\ unsure = {} /\ intruded = {}

-----------------------------------------------------------------------------
(* The pool.                                                                *)

Hold(t, c) == client' = [client EXCEPT ![t] = c]

\* pool.connect()
Connect(t) ==
    /\ pc[t] = "start"
    /\ IF idle = {}
       THEN /\ waiters' = Append(waiters, t)
            /\ pc' = [pc EXCEPT ![t] = "waiting"]
            /\ UNCHANGED <<client, idle>>
       ELSE \E c \in idle :
            /\ idle' = idle \ {c} /\ Hold(t, c)
            /\ pc' = [pc EXCEPT ![t] = "connected"]
            /\ UNCHANGED waiters
    /\ UNCHANGED <<reply, txn, queue, conn, db, breaks, lost, history>>

\* client.release(): the first transaction that waits gets the client, or, if
\* its connection is lost, a new one in its place.
Release(t, next) ==
    LET c == client[t] IN
    IF waiters = <<>>
    THEN /\ idle' = idle \cup {c}
         /\ pc' = [pc EXCEPT ![t] = next]
         /\ UNCHANGED <<waiters, client>>
    ELSE /\ waiters' = Tail(waiters) /\ Hold(Head(waiters), c)
         /\ pc' = [pc EXCEPT ![t] = next, ![Head(waiters)] = "connected"]
         /\ UNCHANGED idle

-----------------------------------------------------------------------------
(* Statements.                                                              *)

\* client.query(...), and where its answer will be awaited; a savepoint is named
\* by its number.  A query of a lost connection is refused at once.
SendNamed(t, sql, name, at) ==
    /\ pc' = [pc EXCEPT ![t] = at]
    /\ IF t \in lost
       THEN reply' = [reply EXCEPT ![t] = "error"] /\ UNCHANGED queue
       ELSE /\ reply' = [reply EXCEPT ![t] = "none"]
            /\ queue' = [queue EXCEPT ![client[t]] = Append(@, [sql |-> sql, by |-> t, op |-> nextOp[t], name |-> name])]

Send(t, sql, at) == SendNamed(t, sql, 0, at)

\* What the server makes of a statement: the connection afterwards, whether it
\* is accepted and the writes it commits.
Accepted(after) == [conn |-> after, ok |-> TRUE, commits |-> {}]
Refused(after) == [conn |-> after, ok |-> FALSE, commits |-> {}]
Failing(k) == IF k.owner = NoTxn THEN k ELSE [k EXCEPT !.failed = TRUE]

Outcomes(k, s) ==
    LET begun == k.owner # NoTxn
        sound == begun /\ ~k.failed
        named == {m \in k.marks : m.name = s.name} IN
    CASE s.sql = "BEGIN" -> {Accepted(IF begun THEN k ELSE Block(s.by))}
      [] s.sql = "COMMIT" ->
           IF sound THEN {[conn |-> NoBlock, ok |-> TRUE, commits |-> k.writes], Refused(NoBlock)}
                    ELSE {Accepted(NoBlock)}
      [] s.sql = "ROLLBACK" -> {Accepted(NoBlock)}
      [] s.sql = "SAVEPOINT" ->
           {IF sound THEN Accepted([k EXCEPT !.marks = @ \cup {[name |-> s.name, writes |-> k.writes]}])
                     ELSE Refused(Failing(k))}
      [] s.sql = "RELEASE" ->  \* and all younger ones
           {IF sound /\ named # {} THEN Accepted([k EXCEPT !.marks = {m \in @ : m.name < s.name}])
                                   ELSE Refused(Failing(k))}
      [] s.sql = "ROLLBACK_TO" ->  \* the younger ones go, this one stays
           IF named = {} THEN {Refused(Failing(k))}
           ELSE {Accepted([k EXCEPT !.writes = m.writes, !.failed = FALSE,
                                    !.marks = {n \in @ : n.name <= s.name}]) : m \in named}
      [] s.sql = "WRITE" ->  \* outside a block it commits by itself
           IF sound THEN {Accepted([k EXCEPT !.writes = @ \cup {<<s.by, s.op>>}]),
                          Refused(Failing(k))}
           ELSE IF begun THEN {Refused(k)}
           ELSE {[conn |-> k, ok |-> TRUE, commits |-> {<<s.by, s.op>>}], Refused(k)}

\* The server runs the next statement of a connection.
Run(c) ==
    /\ queue[c] # <<>>
    /\ LET s == Head(queue[c]) IN
       \E o \in Outcomes(conn[c], s) :
        /\ queue' = [queue EXCEPT ![c] = Tail(@)]
        /\ conn' = [conn EXCEPT ![c] = o.conn]
        /\ db' = db \cup o.commits
        /\ reply' = [reply EXCEPT ![s.by] = IF o.ok THEN "ok" ELSE "error"]
        /\ intruded' = IF s.sql = "ROLLBACK" /\ conn[c].owner \notin {NoTxn, s.by}
                       THEN intruded \cup {conn[c].owner} ELSE intruded
    /\ UNCHANGED <<pc, client, txn, pool, breaks, lost, kept, unsure>>

\* The connection is lost: the server rolls the block back, and answers not
\* delivered yet are lost with it.
Break(c) ==
    LET users == {t \in Txns : client[t] = c /\ pc[t] \in Held \cup Released} IN
    /\ breaks < MaxBreaks /\ breaks' = breaks + 1
    /\ users # {}
    /\ queue' = [queue EXCEPT ![c] = <<>>]
    /\ conn' = [conn EXCEPT ![c] = NoBlock]
    /\ reply' = [t \in Txns |-> IF t \in users THEN "error" ELSE reply[t]]
    /\ lost' = lost \cup users
    /\ unsure' = unsure \cup {t \in users : pc[t] = "commit"}
    /\ UNCHANGED <<pc, client, txn, pool, db, kept, intruded>>

-----------------------------------------------------------------------------
(* Both kinds: BEGIN and the answers.                                       *)

Begin(t) ==
    /\ pc[t] = "connected"
    /\ Send(t, "BEGIN", "begin")
    /\ UNCHANGED <<client, txn, pool, conn, db, breaks, lost, history>>

Answered(t, at) == pc[t] = at /\ reply[t] # "none"
Ok(t) == reply[t] = "ok"
Go(t, next) == pc' = [pc EXCEPT ![t] = next] /\ UNCHANGED <<reply, queue>>

\* Mutant of Begun: beginInteractive keeps the client when BEGIN fails.
BegunKeeps(t) ==
    /\ Answered(t, "begin")
    /\ IF Ok(t) THEN Go(t, "body")
       ELSE IF t \in Interactive THEN Go(t, "rejected")
       ELSE Send(t, "ROLLBACK", "catch")
    /\ UNCHANGED <<client, pool, txn, conn, db, breaks, lost, history>>

Begun(t) ==
    /\ Answered(t, "begin")
    /\ IF Ok(t)
       THEN Go(t, "body") /\ UNCHANGED <<client, pool>>
       ELSE IF t \in Interactive
       THEN Release(t, "rejected") /\ UNCHANGED <<reply, queue>>
       ELSE Send(t, "ROLLBACK", "catch") /\ UNCHANGED <<client, pool>>
    /\ UNCHANGED <<txn, conn, db, breaks, lost, history>>

\* Mutant of Write: the loop runs one operation too far.
WriteTooFar(t) ==
    /\ pc[t] = "body" /\ nextOp[t] <= Ops + 1 /\ ~doomed[t]
    /\ Send(t, "WRITE", "op")
    /\ UNCHANGED <<client, txn, pool, conn, db, breaks, lost, history>>

\* An operation of the list, or of the callback: it is compiled and sent, or
\* the compiler refuses it and the server hears nothing of it.
Write(t) ==
    /\ pc[t] = "body" /\ nextOp[t] <= Ops /\ ~doomed[t]
    /\ \/ Send(t, "WRITE", "op")
       \/ /\ pc' = [pc EXCEPT ![t] = "op"]
          /\ reply' = [reply EXCEPT ![t] = "error"]
          /\ UNCHANGED queue
    /\ UNCHANGED <<client, txn, pool, conn, db, breaks, lost, history>>

Keep(t) == kept' = [kept EXCEPT ![t] = @ \cup {<<t, nextOp[t]>>}]
Advance(t) == nextOp' = [nextOp EXCEPT ![t] = @ + 1] /\ UNCHANGED <<savepoints, open>>

-----------------------------------------------------------------------------
(* db.transaction: executeAtomic.                                           *)

\* Mutant of WrittenAtomic: the loop goes on after a failed operation.
WrittenAtomicGoesOn(t) ==
    /\ t \in Atomic /\ Answered(t, "op")
    /\ Go(t, "body")
    /\ IF Ok(t) THEN Keep(t) ELSE UNCHANGED kept
    /\ Advance(t) /\ UNCHANGED doomed
    /\ UNCHANGED <<client, pool, conn, db, breaks, lost, unsure, intruded>>

\* Mutant of WrittenAtomic: a failed operation returns without ROLLBACK.
WrittenAtomicReturns(t) ==
    /\ t \in Atomic /\ Answered(t, "op")
    /\ IF Ok(t) THEN Go(t, "body") /\ Keep(t) /\ UNCHANGED <<client, pool>>
                ELSE Release(t, "rejected") /\ UNCHANGED <<reply, queue, kept>>
    /\ Advance(t) /\ UNCHANGED doomed
    /\ UNCHANGED <<conn, db, breaks, lost, unsure, intruded>>

\* a failed operation ends the transaction
WrittenAtomic(t) ==
    /\ t \in Atomic /\ Answered(t, "op")
    /\ IF Ok(t) THEN Go(t, "body") /\ Keep(t)
                ELSE Send(t, "ROLLBACK", "rollback") /\ UNCHANGED kept
    /\ Advance(t) /\ UNCHANGED doomed
    /\ UNCHANGED <<client, pool, conn, db, breaks, lost, unsure, intruded>>

CommitAtomic(t) ==
    /\ t \in Atomic /\ pc[t] = "body" /\ nextOp[t] > Ops
    /\ Send(t, "COMMIT", "commit")
    /\ UNCHANGED <<client, txn, pool, conn, db, breaks, lost, history>>

CommittedAtomic(t) ==
    /\ t \in Atomic /\ Answered(t, "commit")
    /\ IF Ok(t) THEN Release(t, "resolved") /\ UNCHANGED <<reply, queue>>
                ELSE Send(t, "ROLLBACK", "catch") /\ UNCHANGED <<client, pool>>
    /\ UNCHANGED <<txn, conn, db, breaks, lost, history>>

\* the ROLLBACK after a failed operation is tried once more by the catch block
RolledBackAtomic(t) ==
    /\ t \in Atomic /\ Answered(t, "rollback")
    /\ IF Ok(t) THEN Release(t, "rejected") /\ UNCHANGED <<reply, queue>>
                ELSE Send(t, "ROLLBACK", "catch") /\ UNCHANGED <<client, pool>>
    /\ UNCHANGED <<txn, conn, db, breaks, lost, history>>

CaughtAtomic(t) ==
    /\ t \in Atomic /\ Answered(t, "catch")
    /\ Release(t, "rejected")
    /\ UNCHANGED <<reply, queue, txn, conn, db, breaks, lost, history>>

-----------------------------------------------------------------------------
(* db.withTransaction: the callback, then finishInteractiveSession.         *)

\* a failed operation dooms the session; the callback may go on regardless
WrittenInteractive(t) ==
    /\ t \in Interactive /\ Answered(t, "op")
    /\ Go(t, "body")
    /\ IF Ok(t) THEN Keep(t) ELSE UNCHANGED kept
    /\ Advance(t)
    /\ doomed' = IF Ok(t) THEN doomed ELSE [doomed EXCEPT ![t] = TRUE]
    /\ UNCHANGED <<client, pool, conn, db, breaks, lost, unsure, intruded>>

InBody(t) == t \in Interactive /\ pc[t] = "body"

Abort(t) ==
    /\ InBody(t) /\ ~doomed[t]
    /\ doomed' = [doomed EXCEPT ![t] = TRUE]
    /\ UNCHANGED <<pc, client, reply, nextOp, savepoints, open, pool, queue, conn, db, breaks, lost, history>>

\* tx.withSavepoint(callback) and a nested tx.withTransaction, the callback of
\* which may open further ones; the youngest is the head of open.
Savepoint(t) ==
    LET name == savepoints[t] + 1 IN
    /\ InBody(t) /\ name <= MaxSavepoints
    /\ SendNamed(t, "SAVEPOINT", name, "savepoint")
    /\ savepoints' = [savepoints EXCEPT ![t] = name]
    /\ UNCHANGED <<client, nextOp, doomed, open, pool, conn, db, breaks, lost, history>>

\* if SAVEPOINT fails, withSavepoint throws and the callback is back outside
Saved(t) ==
    /\ Answered(t, "savepoint")
    /\ Go(t, "body")
    /\ open' = IF Ok(t) THEN [open EXCEPT ![t] = <<[name |-> savepoints[t], kept |-> kept[t]]>> \o @]
               ELSE open
    /\ UNCHANGED <<client, nextOp, doomed, savepoints, pool, conn, db, breaks, lost, history>>

Inside(t) == InBody(t) /\ open[t] # <<>>
Youngest(t) == Head(open[t])
Leave(t) == open' = [open EXCEPT ![t] = Tail(@)] /\ UNCHANGED <<nextOp, doomed, savepoints>>

\* the inner callback returns
ReleaseSavepoint(t) ==
    /\ Inside(t)
    /\ SendNamed(t, "RELEASE", Youngest(t).name, "release")
    /\ UNCHANGED <<client, txn, pool, conn, db, breaks, lost, history>>

ReleasedSavepoint(t) ==
    /\ Answered(t, "release")
    /\ IF Ok(t) THEN Go(t, "body") /\ Leave(t)
                ELSE SendNamed(t, "ROLLBACK_TO", Youngest(t).name, "rollbackTo") /\ UNCHANGED txn
    /\ UNCHANGED <<client, pool, conn, db, breaks, lost, history>>

\* the inner callback throws
RollbackTo(t) ==
    /\ Inside(t)
    /\ SendNamed(t, "ROLLBACK_TO", Youngest(t).name, "rollbackTo")
    /\ UNCHANGED <<client, txn, pool, conn, db, breaks, lost, history>>

\* withSavepoint throws; the outer callback catches it or throws on
RolledBackTo(t) ==
    /\ Answered(t, "rollbackTo")
    /\ Go(t, "body") /\ Leave(t)
    /\ kept' = [kept EXCEPT ![t] = Youngest(t).kept]
    /\ UNCHANGED <<client, pool, conn, db, breaks, lost, unsure, intruded>>

\* Mutant of Return: finishInteractiveSession forgets that a session is doomed.
ReturnCommits(t) ==
    /\ InBody(t) /\ open[t] = <<>>
    /\ Send(t, "COMMIT", "commit")
    /\ UNCHANGED <<client, txn, pool, conn, db, breaks, lost, history>>

\* the callback returns: finishInteractiveSession
Return(t) ==
    /\ InBody(t) /\ open[t] = <<>>
    /\ IF doomed[t] THEN Send(t, "ROLLBACK", "rollbackDoomed")
                        ELSE Send(t, "COMMIT", "commit")
    /\ UNCHANGED <<client, txn, pool, conn, db, breaks, lost, history>>

\* the callback throws: withTransaction's catch
Throw(t) ==
    /\ InBody(t) /\ open[t] = <<>>
    /\ Send(t, "ROLLBACK", "rollback")
    /\ UNCHANGED <<client, txn, pool, conn, db, breaks, lost, history>>

\* commit() releases the client whatever COMMIT answers; when it throws, the
\* catch of withTransaction has yet to come.
CommittedInteractive(t) ==
    /\ t \in Interactive /\ Answered(t, "commit")
    /\ Release(t, IF Ok(t) THEN "resolved" ELSE "again")
    /\ UNCHANGED <<reply, txn, queue, conn, db, breaks, lost, history>>

\* finishInteractiveSession rolled a doomed session back and throws
RolledBackDoomed(t) ==
    /\ Answered(t, "rollbackDoomed")
    /\ Release(t, "again")
    /\ UNCHANGED <<reply, txn, queue, conn, db, breaks, lost, history>>

\* the catch of withTransaction rolls back once more, on a client that has been
\* released
RollbackAgain(t) ==
    /\ pc[t] = "again"
    /\ Send(t, "ROLLBACK", "rollbackAgain")
    /\ UNCHANGED <<client, txn, pool, conn, db, breaks, lost, history>>

CaughtInteractive(t) ==
    /\ t \in Interactive
    /\ \/ Answered(t, "rollback") /\ Release(t, "rejected")
       \/ Answered(t, "rollbackAgain") /\ pc' = [pc EXCEPT ![t] = "rejected"]
                              /\ UNCHANGED <<client, pool>>
    /\ UNCHANGED <<reply, txn, queue, conn, db, breaks, lost, history>>

-----------------------------------------------------------------------------
Ended(t) == pc[t] \in {"resolved", "rejected"}

Step(t) ==
    \/ Connect(t) \/ Begin(t) \/ Begun(t) \/ Write(t)
    \/ WrittenAtomic(t) \/ CommitAtomic(t) \/ CommittedAtomic(t)
    \/ RolledBackAtomic(t) \/ CaughtAtomic(t)
    \/ WrittenInteractive(t) \/ Abort(t)
    \/ Savepoint(t) \/ Saved(t) \/ ReleaseSavepoint(t) \/ ReleasedSavepoint(t)
    \/ RollbackTo(t) \/ RolledBackTo(t)
    \/ Return(t) \/ Throw(t) \/ CommittedInteractive(t)
    \/ RolledBackDoomed(t) \/ RollbackAgain(t) \/ CaughtInteractive(t)

Next ==
    \/ \E t \in Txns : Step(t)
    \/ \E c \in Clients : Run(c) \/ Break(c)
    \/ (\A t \in Txns : Ended(t)) /\ UNCHANGED vars

Spec == Init /\ [][Next]_vars

\* The server runs what it is sent, and the callbacks end.
FairSpec ==
    /\ Spec
    /\ \A t \in Txns : WF_vars(Step(t))
    /\ \A c \in Clients : WF_vars(Run(c))

-----------------------------------------------------------------------------
Savepoints == [name : 1 .. MaxSavepoints, kept : SUBSET Writes]
Marks == [name : 1 .. MaxSavepoints, writes : SUBSET Writes]
Blocks == [owner : Txns \cup {NoTxn}, failed : BOOLEAN, writes : SUBSET Writes, marks : SUBSET Marks]
Queries == [sql : Statements, by : Txns, op : 1 .. Ops + 1, name : 0 .. MaxSavepoints]

\* Every part of the state is of its type: a client number is one of the pool's,
\* no operation beyond the last is sent, savepoints are named as they are counted.
TypeOK ==
    /\ pc \in [Txns -> PCs]
    /\ client \in [Txns -> Clients \cup {NoClient}]
    /\ reply \in [Txns -> Replies]
    /\ nextOp \in [Txns -> 1 .. Ops + 1] /\ doomed \in [Txns -> BOOLEAN]
    /\ savepoints \in [Txns -> 0 .. MaxSavepoints] /\ open \in [Txns -> Seq(Savepoints)]
    /\ idle \subseteq Clients /\ waiters \in Seq(Txns)
    /\ queue \in [Clients -> Seq(Queries)] /\ conn \in [Clients -> Blocks]
    /\ db \subseteq Writes
    /\ breaks \in 0 .. MaxBreaks
    /\ kept \in [Txns -> SUBSET Writes]
    /\ lost \subseteq Txns /\ unsure \subseteq Txns /\ intruded \subseteq Txns

Committed(t) == {w \in db : w[1] = t}

\* database-transactions.md: "One atomic unit".  At every moment the database
\* holds all the writes a transaction was told of and has not undone, or none:
\* all once it resolves, none once it rejects, unless the connection was lost
\* under COMMIT.  A transaction whose block a foreign ROLLBACK ended is exempt
\* (see AtomicIsAtomic).
AllOrNothing ==
    \A t \in Txns \ intruded :
        /\ Committed(t) \in {{}, kept[t]}
        /\ pc[t] = "resolved" => Committed(t) = kept[t]
        /\ pc[t] = "rejected" /\ t \notin unsure => Committed(t) = {}

\* ADR 0025: "A doomed transaction [...] always ROLLBACKs", whatever its
\* callback and its savepoints did after the failure.
DoomedNeverCommits ==
    \A t \in Txns \ intruded : doomed[t] => Committed(t) = {}

\* A client is in the pool or checked out by one transaction, and the pool
\* hands out no client that is still in somebody's block.
ClientsAreExclusive ==
    /\ \A t, u \in Txns :
        pc[t] \in Held /\ pc[u] \in Held /\ client[t] = client[u] => t = u
    /\ \A t \in Txns : pc[t] \in Held => client[t] \notin idle
    /\ \A c \in idle : conn[c] = NoBlock

\* Nobody keeps a client or waits for one for ever: every call ends, whichever
\* statements fail.
CallsEnd == \A t \in Txns : (pc[t] # "start") ~> Ended(t)

\* database-transactions.md:8 without exemption: a db.transaction that is
\* rejected has written nothing.
AtomicIsAtomic ==
    \A t \in Atomic : pc[t] = "rejected" /\ t \notin unsure => Committed(t) = {}
=============================================================================
