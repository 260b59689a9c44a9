------------------------- MODULE TransactionsProofs -------------------------
(***************************************************************************)
(* Proofs about Transactions.  A client serves the transaction that holds  *)
(* it; what is left of earlier ones is at most a ROLLBACK.  So as long as  *)
(* no such ROLLBACK strikes, the server's block holds the writes its       *)
(* transaction was told of, and a COMMIT takes all of them or none.        *)
(***************************************************************************)
EXTENDS Transactions, SequenceTheorems, TLAPS

Early == {"start", "waiting", "connected", "begin"}
Mid == {"body", "op", "savepoint", "release", "rollbackTo"}
Ending == {"rollback", "rollbackDoomed", "catch"}   \* in a ROLLBACK of its own

\* A holder has its client to itself; a lost connection is in no use.
HolderOk(t) ==
    /\ pc[t] \in Held => client[t] \in Clients \ idle
    /\ pc[t] \in Released => client[t] \in Clients
    /\ pc[t] \in {"start", "waiting"} => t \notin lost
    /\ \A u \in Txns : pc[t] \in Held /\ pc[u] \in Held /\ client[t] = client[u] => t = u
    /\ pc[t] \in Held /\ t \in lost =>
        /\ conn[client[t]] = NoBlock /\ queue[client[t]] = <<>>
        /\ \A u \in Txns : pc[u] \in Released /\ client[u] = client[t] => u \in lost

WaitersOk ==
    /\ \A i \in 1 .. Len(waiters) : pc[waiters[i]] = "waiting"
    /\ \A i, j \in 1 .. Len(waiters) : waiters[i] = waiters[j] => i = j

\* A statement that was sent and has not run.
Asked(s) ==
    /\ reply[s.by] = "none" /\ s.by \notin lost
    /\ \/ pc[s.by] = "begin" /\ s.sql = "BEGIN"
       \/ pc[s.by] = "op" /\ s.sql = "WRITE" /\ s.op = nextOp[s.by]
       \/ pc[s.by] = "savepoint" /\ s.sql = "SAVEPOINT" /\ s.name = savepoints[s.by]
       \/ pc[s.by] = "release" /\ s.sql = "RELEASE" /\ s.name = Youngest(s.by).name
       \/ pc[s.by] = "rollbackTo" /\ s.sql = "ROLLBACK_TO" /\ s.name = Youngest(s.by).name
       \/ pc[s.by] = "commit" /\ s.sql = "COMMIT"
       \/ pc[s.by] \in Ending \cup {"rollbackAgain"} /\ s.sql = "ROLLBACK"

\* Nobody has two statements under way.
QueueOk(c) ==
    /\ \A i \in 1 .. Len(queue[c]) : client[queue[c][i].by] = c /\ Asked(queue[c][i])
    /\ \A i, j \in 1 .. Len(queue[c]) : queue[c][i].by = queue[c][j].by => i = j

\* The transaction has a block on the server, or may have one.
Open(t) ==
    /\ t \notin lost
    /\ \/ pc[t] \in Mid
       \/ pc[t] = "begin" /\ reply[t] = "ok"
       \/ pc[t] = "commit" /\ reply[t] = "none"
MayBeOpen(t) == Open(t) \/ (t \notin lost /\ pc[t] \in Ending /\ reply[t] = "none")

ConnOk(c) ==
    /\ conn[c].owner = NoTxn => conn[c] = NoBlock
    /\ conn[c].owner # NoTxn => client[conn[c].owner] = c /\ MayBeOpen(conn[c].owner)
    /\ \A w \in conn[c].writes : w[1] = conn[c].owner
    /\ \A m \in conn[c].marks : \A w \in m.writes : w[1] = conn[c].owner

\* What a transaction knows of itself.
LocalOk(t) ==
    /\ pc[t] \in Early => kept[t] = {} /\ ~doomed[t] /\ open[t] = <<>> /\ savepoints[t] = 0
    /\ pc[t] = "op" => nextOp[t] <= Ops
    /\ pc[t] = "savepoint" => /\ savepoints[t] >= 1
                              /\ \A i \in 1 .. Len(open[t]) : open[t][i].name < savepoints[t]
    /\ pc[t] \in {"release", "rollbackTo"} => open[t] # <<>>
    /\ t \in Atomic \/ pc[t] \in {"commit", "resolved"} => ~doomed[t]
    /\ \A i \in 1 .. Len(open[t]) : open[t][i].name <= savepoints[t]
    /\ \A i, j \in 1 .. Len(open[t]) : i < j => open[t][i].name > open[t][j].name

Mark(p) == [name |-> p.name, writes |-> p.kept]

\* The block k of a transaction that may still commit has what it was told of,
\* and what it had when each of its savepoints was set.
WritesMatch(t, k) ==
    IF pc[t] = "rollbackTo" /\ reply[t] # "none" THEN k.writes = Youngest(t).kept
    ELSE IF pc[t] = "op" /\ reply[t] = "ok" THEN k.writes = kept[t] \cup {<<t, nextOp[t]>>}
    ELSE k.writes = kept[t]
MarksMatch(t, k) ==
    /\ \A m, n \in k.marks : m.name = n.name => m = n
    /\ \A m \in k.marks : /\ m.name <= savepoints[t]
                          /\ pc[t] = "savepoint" /\ reply[t] = "none" => m.name < savepoints[t]
    /\ \A i \in 1 .. Len(open[t]) :
        (i = 1 /\ pc[t] = "release" /\ reply[t] = "ok") \/ Mark(open[t][i]) \in k.marks
    /\ pc[t] = "savepoint" /\ reply[t] # "none"
        => [name |-> savepoints[t], writes |-> kept[t]] \in k.marks
Sound(t, k) == ~k.failed /\ WritesMatch(t, k) /\ MarksMatch(t, k)

BlockOk(t) ==
    t \notin intruded /\ Open(t) =>
        /\ conn[client[t]].owner = t
        /\ doomed[t] \/ (pc[t] = "op" /\ reply[t] = "error") \/ Sound(t, conn[client[t]])

\* What the database holds of a transaction.
Undecided(t) == Committed(t) = {} \/ (t \in unsure /\ Committed(t) = kept[t] /\ ~doomed[t])
OutcomeOk(t) ==
    t \notin intruded =>
        /\ pc[t] \in Early \cup Mid \cup {"rollback", "rollbackDoomed"} => Committed(t) = {}
        /\ pc[t] = "commit" => /\ reply[t] = "none" => Committed(t) = {}
                               /\ reply[t] = "ok" => Committed(t) = kept[t]
                               /\ reply[t] = "error" => Undecided(t)
        /\ pc[t] = "resolved" => Committed(t) = kept[t]
        /\ pc[t] \in {"catch", "again", "rollbackAgain", "rejected"} => Undecided(t)

\* The inductive invariant.
IInv ==
    /\ TypeOK /\ WaitersOk
    /\ \A t \in Txns : HolderOk(t) /\ LocalOk(t) /\ BlockOk(t) /\ OutcomeOk(t)
    /\ \A c \in Clients : QueueOk(c) /\ ConnOk(c)

-----------------------------------------------------------------------------
(* What the server makes of a statement.                                    *)

LEMMA Distinct == NoTxn \notin Txns /\ NoClient \notin Clients /\ Ops \in Nat \ {0}
                    /\ MaxSavepoints \in Nat /\ MaxBreaks \in Nat
<1> QED
  BY TransactionsAssumption DEF TransactionsAssumption

LEMMA NoBlockType ==
    /\ NoBlock \in Blocks /\ NoBlock.owner = NoTxn /\ NoBlock.writes = {} /\ NoBlock.marks = {}
<1> QED
  BY DEF NoBlock, Blocks

LEMMA BlockType ==
    ASSUME NEW t \in Txns
    PROVE  /\ Block(t) \in Blocks /\ Block(t).owner = t /\ Block(t).writes = {}
           /\ Block(t).marks = {} /\ ~Block(t).failed
<1> QED
  BY DEF Block, NoBlock, Blocks

LEMMA FailingType ==
    ASSUME NEW k \in Blocks
    PROVE  /\ Failing(k) \in Blocks /\ Failing(k).owner = k.owner
           /\ Failing(k).writes = k.writes /\ Failing(k).marks = k.marks
           /\ k.owner = NoTxn => Failing(k) = k
<1>1. [k EXCEPT !.failed = TRUE] \in Blocks
  BY DEF Blocks
<1> QED
  BY <1>1 DEF Failing, Blocks

LEMMA BeginOutcome ==
    ASSUME NEW k \in Blocks, NEW s, s.sql = "BEGIN", k.owner = NoTxn, NEW o \in Outcomes(k, s)
    PROVE  o.conn = Block(s.by) /\ o.commits = {} /\ o.ok
<1> QED
  BY DEF Outcomes, Accepted

LEMMA RollbackOutcome ==
    ASSUME NEW k, NEW s, s.sql = "ROLLBACK", NEW o \in Outcomes(k, s)
    PROVE  o.conn = NoBlock /\ o.commits = {} /\ o.ok
<1> QED
  BY DEF Outcomes, Accepted

LEMMA CommitOutcome ==
    ASSUME NEW k \in Blocks, NEW s, s.sql = "COMMIT", NEW o \in Outcomes(k, s)
    PROVE  /\ o.conn = NoBlock
           /\ \/ k.owner # NoTxn /\ ~k.failed /\ o.commits = k.writes /\ o.ok
              \/ k.owner # NoTxn /\ ~k.failed /\ ~o.ok /\ o.commits = {}
              \/ (k.owner = NoTxn \/ k.failed) /\ o.commits = {}
<1> QED
  BY DEF Outcomes, Accepted, Refused

LEMMA SavepointOutcome ==
    ASSUME NEW k \in Blocks, NEW s \in Queries, s.sql = "SAVEPOINT", NEW o \in Outcomes(k, s)
    PROVE  /\ o.commits = {}
           /\ k.owner # NoTxn /\ ~k.failed =>
                o.conn = [k EXCEPT !.marks = @ \cup {[name |-> s.name, writes |-> k.writes]}]
           /\ k.owner = NoTxn \/ k.failed => o.conn = Failing(k)
<1> QED
  BY DEF Outcomes, Accepted, Refused

LEMMA ReleaseOutcome ==
    ASSUME NEW k \in Blocks, NEW s \in Queries, s.sql = "RELEASE", NEW o \in Outcomes(k, s)
    PROVE  /\ o.commits = {}
           /\ k.owner # NoTxn /\ ~k.failed /\ (\E m \in k.marks : m.name = s.name) =>
                o.conn = [k EXCEPT !.marks = {m \in @ : m.name < s.name}] /\ o.ok
           /\ k.owner = NoTxn \/ k.failed \/ ~(\E m \in k.marks : m.name = s.name) =>
                o.conn = Failing(k)
<1> DEFINE After == [k EXCEPT !.marks = {m \in @ : m.name < s.name}]
<1>1. CASE k.owner # NoTxn /\ ~k.failed /\ (\E m \in k.marks : m.name = s.name)
  <2>1. o = Accepted(After)
    BY <1>1 DEF Outcomes
  <2> HIDE DEF After
  <2>2. o.conn = After /\ o.commits = {} /\ o.ok
    BY <2>1 DEF Accepted
  <2> QED
    BY <1>1, <2>2 DEF After
<1>2. CASE k.owner = NoTxn \/ k.failed \/ ~(\E m \in k.marks : m.name = s.name)
  <2>1. o = Refused(Failing(k))
    BY <1>2 DEF Outcomes
  <2>2. o.conn = Failing(k) /\ o.commits = {}
    BY <2>1 DEF Refused
  <2> QED
    BY <1>2, <2>2
<1> QED
  BY <1>1, <1>2

LEMMA WriteOutcome ==
    ASSUME NEW k \in Blocks, NEW s \in Queries, s.sql = "WRITE", NEW o \in Outcomes(k, s)
    PROVE  \/ /\ k.owner # NoTxn /\ ~k.failed /\ o.ok /\ o.commits = {}
              /\ o.conn = [k EXCEPT !.writes = @ \cup {<<s.by, s.op>>}]
           \/ k.owner # NoTxn /\ ~o.ok /\ o.commits = {} /\ o.conn = Failing(k)
           \/ k.owner # NoTxn /\ ~o.ok /\ o.commits = {} /\ o.conn = k
           \/ k.owner = NoTxn /\ o.conn = k /\ o.commits \subseteq {<<s.by, s.op>>}
<1> QED
  BY DEF Outcomes, Accepted, Refused

LEMMA WritesChanged ==
    ASSUME NEW k \in Blocks, NEW W \in SUBSET Writes
    PROVE  \E l \in Blocks : /\ l = [k EXCEPT !.writes = W] /\ l.owner = k.owner
                             /\ l.writes = W /\ l.marks = k.marks /\ (~k.failed => ~l.failed)
<1> DEFINE l == [k EXCEPT !.writes = W]
<1>1. l \in Blocks /\ l.owner = k.owner /\ l.writes = W /\ l.marks = k.marks
  BY DEF Blocks
<1>2. ~k.failed => ~l.failed
  BY DEF Blocks
<1> QED
  BY <1>1, <1>2

LEMMA MarksChanged ==
    ASSUME NEW k \in Blocks, NEW M \in SUBSET Marks
    PROVE  \E l \in Blocks : /\ l = [k EXCEPT !.marks = M] /\ l.owner = k.owner
                             /\ l.writes = k.writes /\ l.marks = M /\ (~k.failed => ~l.failed)
<1> DEFINE l == [k EXCEPT !.marks = M]
<1>1. l \in Blocks /\ l.owner = k.owner /\ l.writes = k.writes /\ l.marks = M
  BY DEF Blocks
<1>2. ~k.failed => ~l.failed
  BY DEF Blocks
<1> QED
  BY <1>1, <1>2

\* A write inside a block is added to it, or fails it; outside it commits by itself.
LEMMA WriteFields ==
    ASSUME NEW k \in Blocks, NEW s \in Queries, s.sql = "WRITE", NEW w \in Writes, w = <<s.by, s.op>>,
           NEW o \in Outcomes(k, s)
    PROVE  /\ o.conn \in Blocks /\ o.conn.owner = k.owner /\ o.conn.marks = k.marks
           /\ o.conn.writes = k.writes \/ (k.owner # NoTxn /\ o.conn.writes = k.writes \cup {w})
           /\ o.ok /\ k.owner # NoTxn => ~o.conn.failed /\ o.conn.writes = k.writes \cup {w}
           /\ k.owner # NoTxn => o.commits = {}
           /\ k.owner = NoTxn => o.conn = k
           /\ o.commits \subseteq {w}
<1>1. k.writes \in SUBSET Writes /\ k.writes \cup {w} \in SUBSET Writes
  BY DEF Blocks
<1>2. CASE /\ k.owner # NoTxn /\ ~k.failed /\ o.ok /\ o.commits = {}
           /\ o.conn = [k EXCEPT !.writes = @ \cup {w}]
  <2> PICK l \in Blocks : /\ l = [k EXCEPT !.writes = k.writes \cup {w}] /\ l.owner = k.owner
                          /\ l.writes = k.writes \cup {w} /\ l.marks = k.marks /\ (~k.failed => ~l.failed)
    BY <1>1, WritesChanged
  <2>1. o.conn = l
    BY <1>2
  <2>2. ~o.conn.failed
    BY <1>2, <2>1
  <2>3. o.conn \in Blocks /\ o.conn.owner = k.owner /\ o.conn.marks = k.marks
        /\ o.conn.writes = k.writes \cup {w}
    BY <2>1
  <2> QED
    BY <1>2, <2>2, <2>3
<1>3. CASE k.owner # NoTxn /\ ~o.ok /\ o.commits = {} /\ o.conn = Failing(k)
  <2>1. o.conn \in Blocks /\ o.conn.owner = k.owner /\ o.conn.marks = k.marks /\ o.conn.writes = k.writes
    BY <1>3, FailingType
  <2> QED
    BY <1>3, <2>1
<1>4. CASE k.owner # NoTxn /\ ~o.ok /\ o.commits = {} /\ o.conn = k
  BY <1>4
<1>5. CASE k.owner = NoTxn /\ o.conn = k /\ o.commits \subseteq {w}
  BY <1>5
<1> QED
  BY <1>2, <1>3, <1>4, <1>5, WriteOutcome

LEMMA SavepointFields ==
    ASSUME NEW k \in Blocks, NEW s \in Queries, s.sql = "SAVEPOINT", NEW o \in Outcomes(k, s),
           NEW m \in Marks, m = [name |-> s.name, writes |-> k.writes]
    PROVE  /\ o.commits = {} /\ o.conn \in Blocks /\ o.conn.owner = k.owner
           /\ o.conn.writes = k.writes
           /\ o.conn.marks = k.marks \/ o.conn.marks = k.marks \cup {m}
           /\ k.owner # NoTxn /\ ~k.failed => ~o.conn.failed /\ o.conn.marks = k.marks \cup {m}
           /\ k.owner = NoTxn => o.conn = k
<1>1. k.marks \in SUBSET Marks /\ k.marks \cup {m} \in SUBSET Marks
  BY DEF Blocks
<1>2. CASE k.owner # NoTxn /\ ~k.failed
  <2> PICK l \in Blocks : /\ l = [k EXCEPT !.marks = k.marks \cup {m}] /\ l.owner = k.owner
                          /\ l.writes = k.writes /\ l.marks = k.marks \cup {m} /\ (~k.failed => ~l.failed)
    BY <1>1, MarksChanged
  <2>1. o.conn = l /\ o.commits = {}
    BY <1>2, SavepointOutcome
  <2>2. ~o.conn.failed
    BY <1>2, <2>1
  <2>3. o.conn \in Blocks /\ o.conn.owner = k.owner /\ o.conn.marks = k.marks \cup {m}
        /\ o.conn.writes = k.writes
    BY <2>1
  <2> QED
    BY <1>2, <2>1, <2>2, <2>3
<1>3. CASE k.owner = NoTxn \/ k.failed
  <2>1. o.conn = Failing(k) /\ o.commits = {}
    BY <1>3, SavepointOutcome
  <2>2. o.conn \in Blocks /\ o.conn.owner = k.owner /\ o.conn.marks = k.marks
        /\ o.conn.writes = k.writes /\ (k.owner = NoTxn => o.conn = k)
    BY <2>1, FailingType
  <2> QED
    BY <1>3, <2>1, <2>2
<1> QED
  BY <1>2, <1>3

LEMMA ReleaseFields ==
    ASSUME NEW k \in Blocks, NEW s \in Queries, s.sql = "RELEASE", NEW o \in Outcomes(k, s)
    PROVE  /\ o.commits = {} /\ o.conn \in Blocks /\ o.conn.owner = k.owner
           /\ o.conn.writes = k.writes /\ o.conn.marks \subseteq k.marks
           /\ k.owner # NoTxn /\ ~k.failed /\ (\E m \in k.marks : m.name = s.name) =>
                ~o.conn.failed /\ o.ok /\ o.conn.marks = {m \in k.marks : m.name < s.name}
           /\ k.owner = NoTxn => o.conn = k
<1> DEFINE M == {m \in k.marks : m.name < s.name}
<1>1. M \in SUBSET Marks /\ M \subseteq k.marks
  BY DEF Blocks
<1>2. CASE k.owner # NoTxn /\ ~k.failed /\ (\E m \in k.marks : m.name = s.name)
  <2>1. o.conn = [k EXCEPT !.marks = M] /\ o.commits = {} /\ o.ok
    BY <1>2, ReleaseOutcome
  <2> HIDE DEF M
  <2> PICK l \in Blocks : /\ l = [k EXCEPT !.marks = M] /\ l.owner = k.owner
                          /\ l.writes = k.writes /\ l.marks = M /\ (~k.failed => ~l.failed)
    BY <1>1, MarksChanged
  <2>2. o.conn = l
    BY <2>1
  <2>3. ~o.conn.failed
    BY <1>2, <2>2
  <2>4. o.conn \in Blocks /\ o.conn.owner = k.owner /\ o.conn.marks = M /\ o.conn.writes = k.writes
    BY <2>2
  <2> QED
    BY <1>1, <1>2, <2>1, <2>3, <2>4 DEF M
<1>3. CASE k.owner = NoTxn \/ k.failed \/ ~(\E m \in k.marks : m.name = s.name)
  <2>1. o.conn = Failing(k) /\ o.commits = {}
    BY <1>3, ReleaseOutcome
  <2>2. o.conn \in Blocks /\ o.conn.owner = k.owner /\ o.conn.marks = k.marks
        /\ o.conn.writes = k.writes /\ (k.owner = NoTxn => o.conn = k)
    BY <2>1, FailingType
  <2> QED
    BY <1>3, <2>1, <2>2
<1> QED
  BY <1>2, <1>3

LEMMA RollbackToFields ==
    ASSUME NEW k \in Blocks, NEW s \in Queries, s.sql = "ROLLBACK_TO", NEW o \in Outcomes(k, s)
    PROVE  /\ o.commits = {} /\ o.conn \in Blocks /\ o.conn.owner = k.owner
           /\ \/ \E m \in k.marks : m.name = s.name /\ o.conn.writes = m.writes
              \/ o.conn.writes = k.writes
           /\ o.conn.marks \subseteq k.marks
           /\ (\E m \in k.marks : m.name = s.name) =>
                /\ ~o.conn.failed /\ o.conn.marks = {m \in k.marks : m.name <= s.name}
                /\ \E m \in k.marks : m.name = s.name /\ o.conn.writes = m.writes
           /\ k.owner = NoTxn /\ k.marks = {} => o.conn = k
<1> DEFINE M == {m \in k.marks : m.name <= s.name}
<1>1. M \in SUBSET Marks /\ M \subseteq k.marks /\ \A m \in k.marks : m.writes \in SUBSET Writes
  BY DEF Blocks, Marks
<1> DEFINE After(m) == [k EXCEPT !.writes = m.writes, !.failed = FALSE, !.marks = M]
           named == {m \in k.marks : m.name = s.name}
<1>2. /\ o.commits = {}
      /\ \/ \E m \in k.marks : m.name = s.name /\ o.conn = After(m)
         \/ o.conn = Failing(k) /\ ~(\E m \in k.marks : m.name = s.name)
  <2>1. CASE named = {}
    <3>1. o = Refused(Failing(k))
      BY <2>1 DEF Outcomes
    <3> QED
      BY <2>1, <3>1 DEF Refused
  <2>2. CASE named # {}
    <3>1. o \in {Accepted(After(m)) : m \in named}
      BY <2>2 DEF Outcomes
    <3> HIDE DEF After
    <3>2. PICK m \in k.marks : m.name = s.name /\ o = Accepted(After(m))
      BY <3>1
    <3>3. o.conn = After(m) /\ o.commits = {}
      BY <3>2 DEF Accepted
    <3> QED
      BY <3>2, <3>3
  <2> QED
    BY <2>1, <2>2
<1>3. ASSUME NEW m \in k.marks, m.name = s.name,
             o.conn = After(m)
      PROVE  /\ o.conn \in Blocks /\ o.conn.owner = k.owner /\ ~o.conn.failed
             /\ o.conn.marks = M /\ o.conn.writes = m.writes
  <2>1. m.writes \in SUBSET Writes /\ M \in SUBSET Marks
    BY <1>1, <1>3
  <2> HIDE DEF M
  <2>2. PICK W \in SUBSET Writes : W = m.writes
    BY <2>1
  <2>3. o.conn = [k EXCEPT !.writes = W, !.failed = FALSE, !.marks = M]
    BY <1>3, <2>2
  <2>4. /\ o.conn \in Blocks /\ o.conn.owner = k.owner /\ o.conn.writes = W
        /\ o.conn.marks = M /\ ~o.conn.failed
    BY <2>1, <2>3 DEF Blocks
  <2> QED
    BY <2>2, <2>4
<1> HIDE DEF After
<1>4. CASE \E m \in k.marks : m.name = s.name /\ o.conn = After(m)
  <2>1. PICK older \in k.marks : older.name = s.name /\ o.conn = After(older)
    BY <1>4
  <2>2. /\ o.conn \in Blocks /\ o.conn.owner = k.owner /\ ~o.conn.failed
        /\ o.conn.marks = M /\ o.conn.writes = older.writes
    BY <1>3, <2>1
  <2>3. k.marks # {} /\ o.conn.marks \subseteq k.marks
        /\ \E m \in k.marks : m.name = s.name /\ o.conn.writes = m.writes
    BY <1>1, <2>1, <2>2
  <2>4. o.conn.marks = {m \in k.marks : m.name <= s.name}
    BY <2>2
  <2> QED
    <3>1. o.conn.writes = k.writes \/ \E m \in k.marks : m.name = s.name /\ o.conn.writes = m.writes
      BY <2>3
    <3>2. k.owner = NoTxn /\ k.marks = {} => o.conn = k
      BY <2>3
    <3>3. o.commits = {} /\ o.conn \in Blocks /\ o.conn.owner = k.owner
      BY <1>2, <2>2
    <3>4. ~o.conn.failed
      BY <2>2
    <3> QED
      BY <3>1, <3>2, <3>3, <3>4, <2>3, <2>4
<1>5. CASE o.conn = Failing(k) /\ ~(\E m \in k.marks : m.name = s.name)
  <2>1. o.conn \in Blocks /\ o.conn.owner = k.owner /\ o.conn.marks = k.marks
        /\ o.conn.writes = k.writes /\ (k.owner = NoTxn => o.conn = k)
    BY <1>5, FailingType
  <2> QED
    BY <1>2, <1>5, <2>1
<1> QED
  BY <1>2, <1>4, <1>5, Zenon

-----------------------------------------------------------------------------
(* Steps of a transaction's own code between two awaits.                    *)

\* Whoever is in a block holds its client.
LEMMA OpenIsHeld ==
    ASSUME NEW t \in Txns, MayBeOpen(t)
    PROVE  pc[t] \in Held /\ t \notin lost
<1> QED
  BY DEF MayBeOpen, Open, Held, Mid, Ending

\* An answered transaction, or one that waits for nothing, has no statement
\* under way.
LEMMA NothingAsked ==
    ASSUME IInv, NEW t \in Txns,
           reply[t] # "none" \/ pc[t] \in {"start", "waiting", "connected", "body", "again", "resolved", "rejected"},
           NEW c \in Clients, NEW i \in 1 .. Len(queue[c])
    PROVE  queue[c][i].by # t /\ queue[c][i].by \in Txns
<1>1. QueueOk(c) /\ queue[c] \in Seq(Queries)
  BY DEF IInv, TypeOK
<1>2. queue[c][i] \in Queries /\ Asked(queue[c][i])
  BY <1>1, ElementOfSeq DEF QueueOk
<1> QED
  BY <1>2 DEF Asked, Queries, Ending

\* What one transaction does by itself leaves the others as they were.
LEMMA OthersKept ==
    ASSUME IInv, NEW t \in Txns, NEW u \in Txns \ {t},
           pc'[u] = pc[u], reply'[u] = reply[u], nextOp'[u] = nextOp[u], doomed'[u] = doomed[u],
           savepoints'[u] = savepoints[u], open'[u] = open[u], kept'[u] = kept[u],
           UNCHANGED <<client, lost, unsure, conn, db, intruded>>
    PROVE  LocalOk(u)' /\ BlockOk(u)' /\ OutcomeOk(u)'
<1>1. LocalOk(u) /\ BlockOk(u) /\ OutcomeOk(u)
  BY DEF IInv
<1>2. LocalOk(u)'
  BY <1>1 DEF LocalOk
<1>3. BlockOk(u)'
  BY <1>1 DEF BlockOk, Open, Sound, WritesMatch, MarksMatch, Mark, Youngest
<1>4. OutcomeOk(u)'
  BY <1>1 DEF OutcomeOk, Undecided, Committed
<1> QED
  BY <1>2, <1>3, <1>4

\* The queue of a client after a step that did not touch its statements.
LEMMA QueueKept ==
    ASSUME IInv, NEW c \in Clients, queue'[c] = queue[c],
           \A i \in 1 .. Len(queue[c]) :
             LET u == queue[c][i].by IN
             /\ pc'[u] = pc[u] /\ reply'[u] = reply[u] /\ nextOp'[u] = nextOp[u]
             /\ savepoints'[u] = savepoints[u] /\ open'[u] = open[u] /\ client'[u] = client[u]
             /\ u \in lost' => u \in lost
    PROVE  QueueOk(c)'
<1>1. QueueOk(c)
  BY DEF IInv
<1>2. ASSUME NEW i \in 1 .. Len(queue[c])
      PROVE  client'[queue[c][i].by] = c /\ Asked(queue[c][i])'
  <2> DEFINE s == queue[c][i]
  <2>1. Asked(s) /\ client'[s.by] = c /\ s.by \notin lost'
    BY <1>1, <1>2 DEF QueueOk, Asked
  <2>2. Asked(s)'
    BY <2>1, <1>2 DEF Asked, Youngest
  <2> QED
    BY <2>1, <2>2
<1> QED
  BY <1>1, <1>2 DEF QueueOk

\* The queue of a client after a step that handed it one more statement.
LEMMA QueueAppended ==
    ASSUME NEW d \in Clients, QueueOk(d), queue[d] \in Seq(Queries), NEW q \in Queries,
           queue'[d] = Append(queue[d], q), client[q.by] = d, Asked(q)', UNCHANGED <<client, lost>>,
           \A i \in 1 .. Len(queue[d]) :
             LET u == queue[d][i].by IN
             /\ u # q.by
             /\ pc'[u] = pc[u] /\ reply'[u] = reply[u] /\ nextOp'[u] = nextOp[u]
             /\ savepoints'[u] = savepoints[u] /\ open'[u] = open[u]
    PROVE  QueueOk(d)'
<1> DEFINE n == Len(queue[d])
<1>1. /\ Len(queue'[d]) = n + 1 /\ n \in Nat /\ queue'[d][n + 1] = q
      /\ \A i \in 1 .. n : queue'[d][i] = queue[d][i]
  BY AppendProperties, LenProperties
<1>2. ASSUME NEW i \in 1 .. n
      PROVE  client'[queue'[d][i].by] = d /\ Asked(queue[d][i])'
  <2>1. client[queue[d][i].by] = d /\ Asked(queue[d][i])
    BY DEF QueueOk
  <2>2. queue'[d][i] = queue[d][i]
    BY <1>1
  <2> QED
    BY <2>1, <2>2 DEF Asked, Youngest
<1>3. ASSUME NEW i, i = n + 1
      PROVE  client'[queue'[d][i].by] = d /\ Asked(queue[d][i])'
  <2>1. queue'[d][i] = q
    BY <1>1, <1>3
  <2> QED
    BY <2>1 DEF Asked
<1>4. \A i \in 1 .. n + 1 : i \in 1 .. n \/ i = n + 1
  BY <1>1
<1>5. \A i, j \in 1 .. n + 1 : queue'[d][i].by = queue'[d][j].by => i = j
  BY <1>1, <1>4 DEF QueueOk
<1>6. \A i \in 1 .. n + 1 : client'[queue'[d][i].by] = d /\ Asked(queue[d][i])'
  BY <1>2, <1>3, <1>4
<1> QED
  BY <1>1, <1>5, <1>6 DEF QueueOk

\* A step of t alone, whatever it hands to its client.
LEMMA OwnStep ==
    ASSUME IInv, NEW t \in Txns, NEW p \in PCs, pc' = [pc EXCEPT ![t] = p],
           (p \in Held /\ pc[t] \in Held) \/ (p \in Released /\ pc[t] \in Released),
           reply' \in [Txns -> Replies], \A u \in Txns \ {t} : reply'[u] = reply[u],
           queue' \in [Clients -> Seq(Queries)], \A c \in Clients : QueueOk(c)',
           queue' = queue \/ (t \notin lost /\ \A c \in Clients \ {client[t]} : queue'[c] = queue[c]),
           UNCHANGED <<client, pool, conn, db, breaks, lost, unsure, intruded>>,
           nextOp' \in [Txns -> 1 .. Ops + 1], doomed' \in [Txns -> BOOLEAN],
           savepoints' \in [Txns -> 0 .. MaxSavepoints], open' \in [Txns -> Seq(Savepoints)],
           kept' \in [Txns -> SUBSET Writes],
           \A u \in Txns \ {t} : /\ nextOp'[u] = nextOp[u] /\ doomed'[u] = doomed[u]
                                 /\ savepoints'[u] = savepoints[u] /\ open'[u] = open[u]
                                 /\ kept'[u] = kept[u],
           MayBeOpen(t) => MayBeOpen(t)',
           LocalOk(t)', BlockOk(t)', OutcomeOk(t)'
    PROVE  IInv'
<1>1. /\ pc' \in [Txns -> PCs] /\ pc'[t] = p /\ \A u \in Txns \ {t} : pc'[u] = pc[u]
      /\ pc \in [Txns -> PCs]
  BY DEF IInv, TypeOK
<1>2. TypeOK'
  BY <1>1 DEF IInv, TypeOK, pool
<1>3. ASSUME NEW u \in Txns
      PROVE  LocalOk(u)' /\ BlockOk(u)' /\ OutcomeOk(u)'
  BY <1>1, OthersKept
<1>4. WaitersOk'
  <2>1. WaitersOk /\ waiters' = waiters /\ waiters \in Seq(Txns)
    BY DEF IInv, TypeOK, pool
  <2>2. \A i \in 1 .. Len(waiters) : waiters[i] \in Txns \ {t}
    BY <2>1, ElementOfSeq DEF WaitersOk, Held, Released
  <2> QED
    BY <1>1, <2>1, <2>2 DEF WaitersOk
<1>5. /\ \A v \in Txns : HolderOk(v)
      /\ \A v \in Txns : pc'[v] \in Held <=> pc[v] \in Held
      /\ \A v \in Txns : pc'[v] \in Released <=> pc[v] \in Released
      /\ \A v \in Txns : pc'[v] \in {"start", "waiting"} <=> pc[v] \in {"start", "waiting"}
  BY <1>1 DEF IInv, Held, Released
<1>6. ASSUME NEW u \in Txns
      PROVE  HolderOk(u)'
  <2>1. ASSUME pc[u] \in Held, u \in lost
        PROVE  queue'[client[u]] = queue[client[u]]
    <3>1. client[u] \in Clients
      BY <1>5, <2>1 DEF HolderOk
    <3>2. CASE t \notin lost /\ client[t] = client[u]
      BY <1>5, <2>1, <3>2 DEF HolderOk
    <3> QED
      BY <3>1, <3>2
  <2> QED
    BY <1>5, <2>1 DEF HolderOk, pool
<1>7. ASSUME NEW c \in Clients
      PROVE  ConnOk(c)'
  <2>1. ConnOk(c) /\ conn[c] \in Blocks
    BY DEF IInv, TypeOK
  <2>2. ASSUME NEW u \in Txns, MayBeOpen(u)
        PROVE  MayBeOpen(u)'
    BY <1>1, <2>2 DEF MayBeOpen, Open
  <2> QED
    BY <2>1, <2>2 DEF ConnOk, Blocks
<1> QED
  BY <1>2, <1>3, <1>4, <1>6, <1>7 DEF IInv

\* The code goes on without a statement.
LEMMA GoKeeps ==
    ASSUME IInv, NEW t \in Txns, NEW p \in Held, pc' = [pc EXCEPT ![t] = p], pc[t] \in Held,
           reply' \in [Txns -> Replies], \A u \in Txns \ {t} : reply'[u] = reply[u],
           reply[t] # "none" \/ pc[t] = "body",
           UNCHANGED <<client, pool, queue, conn, db, breaks, lost, unsure, intruded>>,
           nextOp' \in [Txns -> 1 .. Ops + 1], doomed' \in [Txns -> BOOLEAN],
           savepoints' \in [Txns -> 0 .. MaxSavepoints], open' \in [Txns -> Seq(Savepoints)],
           kept' \in [Txns -> SUBSET Writes],
           \A u \in Txns \ {t} : /\ nextOp'[u] = nextOp[u] /\ doomed'[u] = doomed[u]
                                 /\ savepoints'[u] = savepoints[u] /\ open'[u] = open[u]
                                 /\ kept'[u] = kept[u],
           MayBeOpen(t) => MayBeOpen(t)',
           LocalOk(t)', BlockOk(t)', OutcomeOk(t)'
    PROVE  IInv'
<1>1. p \in PCs /\ queue' \in [Clients -> Seq(Queries)] /\ pc \in [Txns -> PCs]
  BY DEF PCs, IInv, TypeOK
<1>2. ASSUME NEW c \in Clients
      PROVE  QueueOk(c)'
  <2>1. \A i \in 1 .. Len(queue[c]) : queue[c][i].by \in Txns \ {t}
    BY NothingAsked
  <2> QED
    BY <1>1, <2>1, QueueKept
<1> QED
  BY <1>1, <1>2, OwnStep

\* Who may be handed a statement of t, and at which place it awaits the answer.
Asks(t, sql, name, p) ==
    \/ p = "begin" /\ sql = "BEGIN"
    \/ p = "op" /\ sql = "WRITE" /\ nextOp'[t] = nextOp[t]
    \/ p = "savepoint" /\ sql = "SAVEPOINT" /\ name = savepoints'[t]
    \/ p = "release" /\ sql = "RELEASE" /\ name = Head(open'[t]).name
    \/ p = "rollbackTo" /\ sql = "ROLLBACK_TO" /\ name = Head(open'[t]).name
    \/ p = "commit" /\ sql = "COMMIT"
    \/ p \in Ending \cup {"rollbackAgain"} /\ sql = "ROLLBACK"

\* A statement is sent, or refused because the connection is lost.
LEMMA SendKeeps ==
    ASSUME IInv, NEW t \in Txns, NEW sql \in Statements, NEW name \in 0 .. MaxSavepoints, NEW p \in PCs,
           SendNamed(t, sql, name, p), Asks(t, sql, name, p),
           (p \in Held /\ pc[t] \in Held) \/ (p \in Released /\ pc[t] \in Released),
           reply[t] # "none" \/ pc[t] \in {"connected", "body", "again"},
           UNCHANGED <<client, pool, conn, db, breaks, lost, unsure, intruded>>,
           nextOp' \in [Txns -> 1 .. Ops + 1], doomed' \in [Txns -> BOOLEAN],
           savepoints' \in [Txns -> 0 .. MaxSavepoints], open' \in [Txns -> Seq(Savepoints)],
           kept' \in [Txns -> SUBSET Writes],
           \A u \in Txns \ {t} : /\ nextOp'[u] = nextOp[u] /\ doomed'[u] = doomed[u]
                                 /\ savepoints'[u] = savepoints[u] /\ open'[u] = open[u]
                                 /\ kept'[u] = kept[u],
           MayBeOpen(t) => MayBeOpen(t)',
           LocalOk(t)', BlockOk(t)', OutcomeOk(t)'
    PROVE  IInv'
<1>1. /\ pc \in [Txns -> PCs] /\ reply \in [Txns -> Replies] /\ queue \in [Clients -> Seq(Queries)]
      /\ nextOp[t] \in 1 .. Ops + 1 /\ HolderOk(t)
  BY DEF IInv, TypeOK
<1>2. /\ pc' = [pc EXCEPT ![t] = p] /\ pc'[t] = p
      /\ \A u \in Txns \ {t} : pc'[u] = pc[u]
  BY <1>1 DEF SendNamed
<1> PICK d \in Clients : d = client[t]
  BY <1>1 DEF HolderOk
<1>3. /\ \A c \in Clients : \A i \in 1 .. Len(queue[c]) : queue[c][i].by \in Txns \ {t}
  BY NothingAsked
<1>4. CASE t \in lost
  <2>1. /\ reply' = [reply EXCEPT ![t] = "error"] /\ queue' = queue
    BY <1>4 DEF SendNamed
  <2>2. reply' \in [Txns -> Replies] /\ \A u \in Txns \ {t} : reply'[u] = reply[u]
    BY <1>1, <2>1 DEF Replies
  <2>3. \A c \in Clients : QueueOk(c)'
    BY <1>2, <1>3, <2>1, <2>2, QueueKept
  <2> QED
    BY <1>1, <1>2, <2>1, <2>2, <2>3, OwnStep
<1>5. CASE t \notin lost
  <2> DEFINE r == [sql |-> sql, by |-> t, op |-> nextOp[t], name |-> name]
  <2>3. /\ r \in Queries /\ r.by = t /\ r.sql = sql /\ r.name = name /\ r.op = nextOp[t]
    BY <1>1 DEF Queries
  <2>1. /\ reply' = [reply EXCEPT ![t] = "none"]
        /\ queue' = [queue EXCEPT ![d] = Append(queue[d], r)]
    BY <1>5 DEF SendNamed
  <2> HIDE DEF r
  <2> PICK q \in Queries : q.by = t /\ q.sql = sql /\ q.name = name /\ q.op = nextOp[t] /\ q = r
    BY <2>3
  <2>2. /\ reply' \in [Txns -> Replies] /\ reply'[t] = "none"
        /\ \A u \in Txns \ {t} : reply'[u] = reply[u]
    BY <1>1, <2>1 DEF Replies
  <2>4. Append(queue[d], q) \in Seq(Queries)
    BY <1>1, AppendProperties
  <2>5. /\ queue' \in [Clients -> Seq(Queries)] /\ queue'[d] = Append(queue[d], q)
        /\ \A c \in Clients \ {d} : queue'[c] = queue[c]
    BY <1>1, <1>2, <2>1, <2>4
  <2>6. ASSUME NEW c \in Clients \ {d}
        PROVE  QueueOk(c)'
    <3>1. queue'[c] = queue[c] /\ c \in Clients
      BY <2>5
    <3>2. \A i \in 1 .. Len(queue[c]) : queue[c][i].by \in Txns \ {t}
      BY <1>3, <3>1
    <3>3. \A u \in Txns \ {t} :
            /\ pc'[u] = pc[u] /\ reply'[u] = reply[u] /\ nextOp'[u] = nextOp[u]
            /\ savepoints'[u] = savepoints[u] /\ open'[u] = open[u] /\ client'[u] = client[u]
            /\ u \in lost' => u \in lost
      BY <1>2, <2>2
    <3>4. \A i \in 1 .. Len(queue[c]) :
            LET u == queue[c][i].by IN
            /\ pc'[u] = pc[u] /\ reply'[u] = reply[u] /\ nextOp'[u] = nextOp[u]
            /\ savepoints'[u] = savepoints[u] /\ open'[u] = open[u] /\ client'[u] = client[u]
            /\ u \in lost' => u \in lost
      BY <3>2, <3>3
    <3> QED
      BY <3>1, <3>4, QueueKept
  <2>7. QueueOk(d)'
    <3>1. Asked(q)'
      <4>1. reply'[q.by] = "none" /\ q.by \notin lost'
        BY <1>5, <2>2
      <4>2. pc'[q.by] = p
        BY <1>2
      <4> QED
        BY <4>1, <4>2 DEF Asked, Asks, Youngest
    <3>2. QueueOk(d) /\ queue[d] \in Seq(Queries) /\ client[q.by] = d
      BY <1>1 DEF IInv
    <3>3. \A i \in 1 .. Len(queue[d]) :
            LET u == queue[d][i].by IN
            /\ u # q.by
            /\ pc'[u] = pc[u] /\ reply'[u] = reply[u] /\ nextOp'[u] = nextOp[u]
            /\ savepoints'[u] = savepoints[u] /\ open'[u] = open[u]
      BY <1>2, <1>3, <2>2
    <3>4. queue'[d] = Append(queue[d], q) /\ UNCHANGED <<client, lost>>
      BY <2>5
    <3> QED
      BY <3>1, <3>2, <3>3, <3>4, QueueAppended
  <2>8. \A c \in Clients : QueueOk(c)'
    BY <2>6, <2>7
  <2>9. t \notin lost /\ \A c \in Clients \ {client[t]} : queue'[c] = queue[c]
    BY <1>5, <2>5
  <2> QED
    BY <1>2, <2>2, <2>5, <2>8, <2>9, OwnStep
<1> QED
  BY <1>4, <1>5

-----------------------------------------------------------------------------
(* Clients change hands.                                                    *)

LEMMA ConnectKeeps ==
    ASSUME IInv, NEW t \in Txns, Connect(t)
    PROVE  IInv'
<1>1. /\ pc \in [Txns -> PCs] /\ client \in [Txns -> Clients \cup {NoClient}] /\ waiters \in Seq(Txns)
      /\ pc[t] = "start" /\ WaitersOk /\ idle \subseteq Clients
      /\ \A u \in Txns : HolderOk(u) /\ LocalOk(u) /\ BlockOk(u) /\ OutcomeOk(u)
      /\ UNCHANGED <<reply, txn, queue, conn, db, breaks, lost, history>>
  BY DEF IInv, TypeOK, Connect
<1>2. PICK p \in {"waiting", "connected"} : pc' = [pc EXCEPT ![t] = p]
  BY DEF Connect
<1>3. /\ pc' \in [Txns -> PCs] /\ pc'[t] = p /\ \A u \in Txns \ {t} : pc'[u] = pc[u]
  BY <1>1, <1>2 DEF PCs, Held
<1>4. \/ /\ p = "waiting" /\ waiters' = Append(waiters, t) /\ UNCHANGED <<client, idle>>
      \/ /\ p = "connected" /\ waiters' = waiters
         /\ \E c \in idle : idle' = idle \ {c} /\ client' = [client EXCEPT ![t] = c]
  <2>1. CASE idle = {}
    BY <1>1, <1>2, <1>3, <2>1 DEF Connect
  <2>2. CASE idle # {}
    BY <1>1, <1>2, <1>3, <2>2 DEF Connect, Hold
  <2> QED
    BY <2>1, <2>2
<1>5. /\ client' \in [Txns -> Clients \cup {NoClient}] /\ waiters' \in Seq(Txns) /\ idle' \subseteq idle
      /\ \A u \in Txns \ {t} : client'[u] = client[u]
  BY <1>1, <1>4, AppendProperties
<1>6. TypeOK'
  BY <1>1, <1>3, <1>5 DEF IInv, TypeOK, txn, history
<1>7. WaitersOk'
  <2>1. \A i \in 1 .. Len(waiters) : waiters[i] \in Txns \ {t} /\ pc'[waiters[i]] = "waiting"
    BY <1>1, <1>3, ElementOfSeq DEF WaitersOk
  <2>2. CASE waiters' = waiters
    BY <1>1, <2>1, <2>2 DEF WaitersOk
  <2>3. CASE waiters' = Append(waiters, t) /\ p = "waiting"
    <3>1. /\ Len(waiters') = Len(waiters) + 1 /\ waiters'[Len(waiters) + 1] = t /\ Len(waiters) \in Nat
          /\ \A i \in 1 .. Len(waiters) : waiters'[i] = waiters[i]
      BY <1>1, <2>3, AppendProperties, LenProperties
    <3>2. \A i \in 1 .. Len(waiters) + 1 : i \in 1 .. Len(waiters) \/ i = Len(waiters) + 1
      BY <3>1
    <3> QED
      BY <1>1, <1>3, <2>1, <2>3, <3>1, <3>2 DEF WaitersOk
  <2> QED
    BY <1>4, <2>2, <2>3
<1>8. ASSUME NEW u \in Txns
      PROVE  HolderOk(u)'
  <2>1. pc'[t] \in Held => client'[t] \in Clients \ idle' /\ client'[t] \in idle /\ t \notin lost'
    BY <1>1, <1>3, <1>4 DEF HolderOk, Held
  <2>2. \A v \in Txns \ {t} : pc[v] \in Held => client[v] \notin idle
    BY <1>1 DEF HolderOk
  <2>3. t \notin lost /\ pc'[t] \notin Released
    BY <1>1, <1>3 DEF HolderOk, Released
  <2>4. CASE u = t
    BY <1>1, <1>3, <1>5, <2>1, <2>2, <2>3, <2>4 DEF HolderOk
  <2>5. CASE u # t
    <3>1. HolderOk(u) /\ pc'[u] = pc[u] /\ client'[u] = client[u]
      BY <1>1, <1>3, <1>5, <2>5
    <3> QED
      BY <1>1, <1>3, <1>5, <2>1, <2>2, <2>3, <2>5, <3>1 DEF HolderOk
  <2> QED
    BY <2>4, <2>5
<1>9. ASSUME NEW u \in Txns
      PROVE  LocalOk(u)' /\ BlockOk(u)' /\ OutcomeOk(u)'
  <2>1. CASE u = t
    <3>1. pc[t] \in Early /\ pc'[t] \in Early /\ pc'[t] \notin {"op", "savepoint", "release",
            "rollbackTo", "commit", "resolved", "catch", "again", "rollbackAgain", "rejected", "begin",
            "body"}
      BY <1>1, <1>3 DEF Early
    <3>2. ~Open(t)'
      BY <3>1 DEF Open, Mid
    <3>3. LocalOk(t)'
      BY <1>1, <3>1 DEF LocalOk, txn, history
    <3>4. OutcomeOk(t)'
      BY <1>1, <3>1 DEF OutcomeOk, history, Committed
    <3> QED
      BY <2>1, <3>2, <3>3, <3>4 DEF BlockOk
  <2>2. CASE u # t
    <3>1. pc'[u] = pc[u] /\ client'[u] = client[u]
      BY <1>3, <1>5, <2>2
    <3>2. LocalOk(u)'
      BY <1>1, <3>1 DEF LocalOk, txn, history
    <3>3. BlockOk(u)'
      BY <1>1, <3>1 DEF BlockOk, Open, Sound, WritesMatch, MarksMatch, Mark, Youngest, txn, history
    <3>4. OutcomeOk(u)'
      BY <1>1, <3>1 DEF OutcomeOk, history, txn, Committed, Undecided
    <3> QED
      BY <3>2, <3>3, <3>4
  <2> QED
    BY <2>1, <2>2
<1>10. ASSUME NEW c \in Clients
       PROVE  QueueOk(c)' /\ ConnOk(c)'
  <2>1. \A i \in 1 .. Len(queue[c]) : queue[c][i].by \in Txns \ {t}
    BY <1>1, NothingAsked
  <2>2. QueueOk(c)'
    BY <1>1, <1>3, <1>5, <2>1, QueueKept DEF txn
  <2>3. ConnOk(c) /\ conn[c] \in Blocks
    BY DEF IInv, TypeOK
  <2>4. ASSUME NEW u \in Txns, MayBeOpen(u)
        PROVE  MayBeOpen(u)' /\ client'[u] = client[u]
    <3>1. u # t
      BY <1>1, <2>4, OpenIsHeld DEF Held
    <3> QED
      BY <1>1, <1>3, <1>5, <2>4, <3>1 DEF MayBeOpen, Open
  <2> QED
    BY <1>1, <2>2, <2>3, <2>4 DEF ConnOk, Blocks
<1> QED
  BY <1>6, <1>7, <1>8, <1>9, <1>10 DEF IInv

\* A holder whose block is over gives its client back.
LEMMA ReleaseKeeps ==
    ASSUME IInv, NEW t \in Txns, NEW p \in {"resolved", "rejected", "again"}, Release(t, p),
           pc[t] \in Held, reply[t] # "none", conn[client[t]] = NoBlock,
           UNCHANGED <<reply, txn, queue, conn, db, breaks, lost, history>>,
           p = "resolved" => ~doomed[t], OutcomeOk(t)'
    PROVE  IInv'
<1>1. /\ pc \in [Txns -> PCs] /\ client \in [Txns -> Clients \cup {NoClient}] /\ waiters \in Seq(Txns)
      /\ WaitersOk /\ idle \subseteq Clients
      /\ \A u \in Txns : HolderOk(u) /\ LocalOk(u) /\ BlockOk(u) /\ OutcomeOk(u)
  BY DEF IInv, TypeOK
<1> PICK c \in Clients : c = client[t] /\ c \notin idle
  BY <1>1 DEF HolderOk
<1>2. CASE waiters = <<>>
  <2>1. /\ idle' = idle \cup {c} /\ pc' = [pc EXCEPT ![t] = p] /\ UNCHANGED <<waiters, client>>
    BY <1>2 DEF Release
  <2>2. /\ pc' \in [Txns -> PCs] /\ pc'[t] = p /\ \A u \in Txns \ {t} : pc'[u] = pc[u]
    BY <1>1, <2>1 DEF PCs, Released
  <2>3. TypeOK'
    BY <1>1, <2>1, <2>2 DEF IInv, TypeOK, txn, history
  <2>4. WaitersOk'
    <3>1. Len(waiters') = 0
      BY <1>2, <2>1
    <3> QED
      BY <3>1 DEF WaitersOk
  <2>5. ASSUME NEW u \in Txns
        PROVE  HolderOk(u)'
    <3>1. \A v \in Txns \ {t} : pc[v] \in Held => client[v] # c
      BY <1>1 DEF HolderOk
    <3>2. p \notin Held /\ p \notin {"start", "waiting"}
      BY DEF Held
    <3>3. CASE u = t
      BY <1>1, <2>1, <2>2, <3>2, <3>3 DEF HolderOk
    <3>4. CASE u # t
      <4>1. HolderOk(u) /\ pc'[u] = pc[u] /\ client'[u] = client[u]
        BY <1>1, <2>1, <2>2, <3>4
      <4> QED
        BY <1>1, <2>1, <2>2, <3>1, <3>2, <3>4, <4>1 DEF HolderOk
    <3> QED
      BY <3>3, <3>4
  <2>6. \A u \in Txns \ {t} : pc'[u] = pc[u] /\ client'[u] = client[u]
    BY <2>1, <2>2
  <2>7. UNCHANGED client
    BY <2>1
  <2>8. ASSUME NEW u \in Txns \ {t}
        PROVE  LocalOk(u)' /\ BlockOk(u)' /\ OutcomeOk(u)'
    BY <2>6, <2>7, OthersKept DEF txn, history
  <2>9. LocalOk(t)' /\ BlockOk(t)'
    <3>1. LocalOk(t)'
      BY <1>1, <2>2 DEF LocalOk, txn, history, Early
    <3>2. ~Open(t)'
      BY <2>2 DEF Open, Mid
    <3> QED
      BY <3>1, <3>2 DEF BlockOk
  <2>10. ASSUME NEW d \in Clients
         PROVE  QueueOk(d)' /\ ConnOk(d)'
    <3>1. \A i \in 1 .. Len(queue[d]) : queue[d][i].by \in Txns \ {t}
      BY NothingAsked
    <3>2. QueueOk(d)'
      BY <2>6, <3>1, QueueKept DEF txn
    <3>3. ConnOk(d) /\ conn[d] \in Blocks
      BY DEF IInv, TypeOK
    <3>4. conn[d].owner # t
      BY <3>3, NoBlockType, Distinct DEF ConnOk
    <3>5. ASSUME NEW u \in Txns \ {t}, MayBeOpen(u)
          PROVE  MayBeOpen(u)'
      BY <2>6, <3>5 DEF MayBeOpen, Open
    <3> QED
      BY <2>7, <3>2, <3>3, <3>4, <3>5 DEF ConnOk, Blocks
  <2> QED
    BY <2>3, <2>4, <2>5, <2>8, <2>9, <2>10 DEF IInv
<1>3. CASE waiters # <<>>
  <2>1. PICK w \in Txns : w = Head(waiters)
    BY <1>1, <1>3, HeadTailProperties
  <2>2. /\ pc' = [pc EXCEPT ![t] = p, ![w] = "connected"] /\ client' = [client EXCEPT ![w] = c]
        /\ idle' = idle /\ waiters' = Tail(waiters)
    BY <1>3, <2>1 DEF Release, Hold
  <2>3. /\ Tail(waiters) \in Seq(Txns) /\ Len(waiters) \in Nat \ {0} /\ w = waiters[1]
        /\ Len(Tail(waiters)) = Len(waiters) - 1
        /\ \A i \in 1 .. Len(Tail(waiters)) : Tail(waiters)[i] = waiters[i + 1]
    BY <1>1, <1>3, <2>1, HeadTailProperties, LenProperties, EmptySeq
  <2>4. pc[w] = "waiting" /\ w # t
    BY <1>1, <2>3 DEF WaitersOk, Held
  <2>5. /\ pc' \in [Txns -> PCs] /\ pc'[t] = p /\ pc'[w] = "connected"
        /\ \A u \in Txns \ {t, w} : pc'[u] = pc[u]
        /\ client' \in [Txns -> Clients \cup {NoClient}] /\ client'[w] = c
        /\ \A u \in Txns \ {w} : client'[u] = client[u]
    BY <1>1, <2>2, <2>4 DEF PCs, Released, Held
  <2>6. TypeOK'
    BY <1>1, <2>2, <2>3, <2>5 DEF IInv, TypeOK, txn, history
  <2>7. WaitersOk'
    <3>1. ASSUME NEW i \in 1 .. Len(waiters')
          PROVE  /\ i + 1 \in 1 .. Len(waiters) /\ waiters'[i] = waiters[i + 1]
                 /\ waiters[i + 1] \in Txns \ {t, w} /\ pc[waiters[i + 1]] = "waiting"
      <4>1. i + 1 \in 1 .. Len(waiters) /\ waiters'[i] = waiters[i + 1] /\ 1 \in 1 .. Len(waiters)
            /\ i + 1 # 1
        BY <2>2, <2>3
      <4>2. waiters[i + 1] # w /\ pc[waiters[i + 1]] = "waiting" /\ waiters[i + 1] \in Txns
        BY <1>1, <2>3, <4>1, ElementOfSeq DEF WaitersOk
      <4> QED
        BY <4>1, <4>2 DEF Held
    <3>2. \A i \in 1 .. Len(waiters') : pc'[waiters'[i]] = "waiting"
      BY <2>5, <3>1
    <3>3. ASSUME NEW i \in 1 .. Len(waiters'), NEW j \in 1 .. Len(waiters'), waiters'[i] = waiters'[j]
          PROVE  i = j
      <4>1. i + 1 = j + 1
        BY <1>1, <3>1, <3>3 DEF WaitersOk
      <4> QED
        BY <4>1
    <3> QED
      BY <3>2, <3>3 DEF WaitersOk
  <2>8. p \notin Held /\ p \notin {"start", "waiting"} /\ "connected" \in Held /\ "connected" \notin Released
        /\ "connected" \notin {"start", "waiting"}
    BY DEF Held, Released
  <2>9. ASSUME NEW u \in Txns
        PROVE  HolderOk(u)'
    <3>1. \A v \in Txns \ {t} : pc[v] \in Held => client[v] # c
      BY <1>1 DEF HolderOk
    <3>2. w \notin lost
      BY <1>1, <2>4 DEF HolderOk
    <3>3. CASE u = t
      BY <1>1, <2>2, <2>5, <2>8, <3>3, <2>4 DEF HolderOk
    <3>4. CASE u = w
      BY <1>1, <2>2, <2>5, <2>8, <3>1, <3>2, <3>4 DEF HolderOk
    <3>5. CASE u \notin {t, w}
      <4>1. HolderOk(u) /\ pc'[u] = pc[u] /\ client'[u] = client[u]
        BY <1>1, <2>5, <3>5
      <4> QED
        BY <1>1, <2>2, <2>5, <2>8, <3>1, <3>5, <4>1 DEF HolderOk
    <3> QED
      BY <3>3, <3>4, <3>5
  <2>10. ASSUME NEW u \in Txns
         PROVE  LocalOk(u)' /\ BlockOk(u)' /\ OutcomeOk(u)'
    <3>1. CASE u = t
      <4>1. LocalOk(t)'
        BY <1>1, <2>5 DEF LocalOk, txn, history, Early
      <4>2. ~Open(t)'
        BY <2>5 DEF Open, Mid
      <4> QED
        BY <3>1, <4>1, <4>2 DEF BlockOk
    <3>2. CASE u = w
      <4>1. LocalOk(w) /\ OutcomeOk(w)
        BY <1>1
      <4>2. LocalOk(w)'
        BY <2>4, <2>5, <4>1 DEF LocalOk, txn, history, Early
      <4>3. ~Open(w)'
        BY <2>5 DEF Open, Mid
      <4>4. OutcomeOk(w)'
        BY <2>4, <2>5, <4>1 DEF OutcomeOk, history, Early, Committed
      <4> QED
        BY <3>2, <4>2, <4>3, <4>4 DEF BlockOk
    <3>3. CASE u \notin {t, w}
      <4>1. LocalOk(u) /\ BlockOk(u) /\ OutcomeOk(u) /\ pc'[u] = pc[u] /\ client'[u] = client[u]
        BY <1>1, <2>5, <3>3
      <4>2. LocalOk(u)'
        BY <4>1 DEF LocalOk, txn, history
      <4>3. BlockOk(u)'
        BY <4>1 DEF BlockOk, Open, Sound, WritesMatch, MarksMatch, Mark, Youngest, txn, history
      <4>4. OutcomeOk(u)'
        BY <4>1 DEF OutcomeOk, history, txn, Committed, Undecided
      <4> QED
        BY <4>2, <4>3, <4>4
    <3> QED
      BY <3>1, <3>2, <3>3
  <2>11. ASSUME NEW d \in Clients
         PROVE  QueueOk(d)' /\ ConnOk(d)'
    <3>1. \A i \in 1 .. Len(queue[d]) : queue[d][i].by \in Txns \ {t, w}
      BY <2>4, NothingAsked
    <3>2. QueueOk(d)'
      BY <2>5, <3>1, QueueKept DEF txn
    <3>3. ConnOk(d) /\ conn[d] \in Blocks
      BY DEF IInv, TypeOK
    <3>4. conn[d].owner # t
      BY <3>3, NoBlockType, Distinct DEF ConnOk
    <3>5. ASSUME NEW u \in Txns \ {t}, MayBeOpen(u)
          PROVE  MayBeOpen(u)' /\ client'[u] = client[u]
      <4>1. u # w
        BY <2>4, <3>5, OpenIsHeld DEF Held
      <4> QED
        BY <2>5, <3>5, <4>1 DEF MayBeOpen, Open
    <3> QED
      BY <3>2, <3>3, <3>4, <3>5 DEF ConnOk, Blocks
  <2> QED
    BY <2>6, <2>7, <2>9, <2>10, <2>11 DEF IInv
<1> QED
  BY <1>2, <1>3

\* A lost connection: what was open on it is rolled back, who used it is told.
LEMMA BreakKeeps ==
    ASSUME IInv, NEW c \in Clients, Break(c)
    PROVE  IInv'
<1> DEFINE users == {t \in Txns : client[t] = c /\ pc[t] \in Held \cup Released}
<1>1. /\ breaks' \in 0 .. MaxBreaks /\ queue' = [queue EXCEPT ![c] = <<>>] /\ conn' = [conn EXCEPT ![c] = NoBlock]
      /\ reply' = [t \in Txns |-> IF t \in users THEN "error" ELSE reply[t]]
      /\ lost' = lost \cup users /\ unsure' = unsure \cup {t \in users : pc[t] = "commit"}
      /\ UNCHANGED <<pc, client, txn, pool, db, kept, intruded>>
  BY Distinct DEF Break, IInv, TypeOK
<1>2. /\ conn \in [Clients -> Blocks] /\ queue \in [Clients -> Seq(Queries)] /\ reply \in [Txns -> Replies]
      /\ \A u \in Txns : HolderOk(u) /\ LocalOk(u) /\ BlockOk(u) /\ OutcomeOk(u)
      /\ \A d \in Clients : QueueOk(d) /\ ConnOk(d)
  BY DEF IInv, TypeOK
<1>3. /\ conn' \in [Clients -> Blocks] /\ conn'[c] = NoBlock /\ \A d \in Clients \ {c} : conn'[d] = conn[d]
      /\ queue' \in [Clients -> Seq(Queries)] /\ queue'[c] = <<>>
      /\ \A d \in Clients \ {c} : queue'[d] = queue[d]
  BY <1>1, <1>2, NoBlockType, EmptySeq
<1>4. /\ reply' \in [Txns -> Replies] /\ \A u \in users : reply'[u] = "error" /\ u \in lost'
      /\ \A u \in Txns \ users : /\ reply'[u] = reply[u] /\ (u \in lost' <=> u \in lost)
                                 /\ (u \in unsure' <=> u \in unsure)
      /\ \A u \in users : pc[u] = "commit" => u \in unsure'
      /\ \A u \in Txns : u \in unsure => u \in unsure'
      /\ lost \subseteq lost' /\ lost' \subseteq Txns /\ unsure' \subseteq Txns
      /\ \A u \in Txns \ users : client[u] = c => pc[u] \notin Held /\ pc[u] \notin Released
      /\ \A u \in users : client[u] = c /\ (pc[u] \in Held \/ pc[u] \in Released)
      /\ users \subseteq Txns
  BY <1>1, <1>2 DEF IInv, TypeOK, Replies
<1> HIDE DEF users
<1>5. TypeOK'
  BY <1>1, <1>3, <1>4 DEF IInv, TypeOK, txn, pool
<1>6. WaitersOk'
  BY <1>1 DEF IInv, WaitersOk, pool
<1>7. ASSUME NEW u \in Txns
      PROVE  HolderOk(u)'
  <2>1. HolderOk(u)
    BY <1>2
  <2>2. pc[u] \in {"start", "waiting"} => u \notin lost'
    BY <1>4, <2>1 DEF HolderOk, Held, Released
  <2>3. ASSUME pc[u] \in Held, u \in lost'
        PROVE  /\ conn'[client[u]] = NoBlock /\ queue'[client[u]] = <<>>
               /\ \A v \in Txns : pc[v] \in Released /\ client[v] = client[u] => v \in lost'
    <3>1. client[u] \in Clients
      BY <2>1, <2>3 DEF HolderOk
    <3>2. CASE client[u] = c
      BY <1>3, <1>4, <3>2
    <3>3. CASE client[u] # c
      BY <1>3, <1>4, <2>1, <2>3, <3>1, <3>3 DEF HolderOk
    <3> QED
      BY <3>2, <3>3
  <2> QED
    BY <1>1, <2>1, <2>2, <2>3 DEF HolderOk, pool
<1>8. ASSUME NEW u \in Txns
      PROVE  LocalOk(u)'
  BY <1>1, <1>2 DEF LocalOk, txn
<1>9. ASSUME NEW u \in Txns
      PROVE  BlockOk(u)'
  <2>1. CASE u \in users
    BY <1>4, <2>1 DEF BlockOk, Open
  <2>2. CASE u \notin users
    <3>1. SUFFICES ASSUME Open(u)'
                   PROVE  BlockOk(u)'
      BY DEF BlockOk
    <3>2. Open(u)
      BY <1>1, <1>4, <2>2, <3>1 DEF Open
    <3>3. client[u] \in Clients /\ client[u] # c
      BY <1>2, <1>4, <2>2, <3>2, OpenIsHeld DEF MayBeOpen, HolderOk
    <3>4. conn'[client[u]] = conn[client[u]] /\ reply'[u] = reply[u]
      BY <1>3, <1>4, <2>2, <3>3
    <3>5. /\ UNCHANGED <<pc, client, doomed, open, savepoints, nextOp, kept, intruded>>
          /\ BlockOk(u)
      BY <1>1, <1>2 DEF txn
    <3> QED
      BY <3>2, <3>4, <3>5 DEF BlockOk, Sound, WritesMatch, MarksMatch, Mark, Youngest
  <2> QED
    BY <2>1, <2>2
<1>10. ASSUME NEW u \in Txns
       PROVE  OutcomeOk(u)'
  <2>1. OutcomeOk(u) /\ LocalOk(u) /\ Committed(u)' = Committed(u) /\ kept' = kept /\ doomed' = doomed
        /\ pc' = pc /\ intruded' = intruded /\ reply[u] \in Replies
    BY <1>1, <1>2 DEF Committed, txn
  <2>2. Undecided(u) => Undecided(u)'
    BY <1>4, <2>1 DEF Undecided
  <2>3. CASE u \notin users \/ pc[u] # "commit"
    BY <1>4, <2>1, <2>2, <2>3 DEF OutcomeOk
  <2>4. CASE u \in users /\ pc[u] = "commit"
    <3>1. u \in unsure' /\ ~doomed[u] /\ reply'[u] = "error"
      BY <1>4, <2>1, <2>4 DEF LocalOk
    <3>2. u \notin intruded => Undecided(u)'
      BY <2>1, <2>2, <2>4, <3>1 DEF OutcomeOk, Undecided, Replies
    <3> QED
      BY <2>1, <2>4, <3>1, <3>2 DEF OutcomeOk, Early, Mid
  <2> QED
    BY <2>3, <2>4
<1>11. ASSUME NEW d \in Clients
       PROVE  QueueOk(d)' /\ ConnOk(d)'
  <2>1. CASE d = c
    <3>1. Len(queue'[d]) = 0
      BY <1>3, <2>1
    <3>2. QueueOk(d)'
      BY <3>1 DEF QueueOk
    <3> QED
      BY <1>3, <2>1, <3>2, NoBlockType DEF ConnOk
  <2>2. CASE d # c
    <3>1. conn'[d] = conn[d] /\ queue'[d] = queue[d] /\ ConnOk(d) /\ conn[d] \in Blocks
      BY <1>2, <1>3, <2>2
    <3>2. \A i \in 1 .. Len(queue[d]) : queue[d][i].by \in Txns /\ client[queue[d][i].by] = d
      <4>1. \A i \in 1 .. Len(queue[d]) : queue[d][i] \in Queries
        BY <1>2, ElementOfSeq
      <4> QED
        BY <1>2, <4>1 DEF QueueOk, Queries
    <3>3. \A i \in 1 .. Len(queue[d]) : queue[d][i].by \in Txns \ users
      BY <1>4, <2>2, <3>2
    <3>4. QueueOk(d)'
      BY <1>1, <1>4, <3>1, <3>3, QueueKept DEF txn
    <3>5. ASSUME NEW u \in Txns, client[u] = d, MayBeOpen(u)
          PROVE  MayBeOpen(u)'
      <4>1. u \notin users
        BY <1>4, <2>2, <3>5
      <4> QED
        BY <1>1, <1>4, <3>5, <4>1 DEF MayBeOpen, Open
    <3> QED
      BY <1>1, <3>1, <3>4, <3>5 DEF ConnOk, Blocks
  <2> QED
    BY <2>1, <2>2
<1> QED
  BY <1>5, <1>6, <1>7, <1>8, <1>9, <1>10, <1>11 DEF IInv

-----------------------------------------------------------------------------
(* The server runs a statement.                                             *)

Ran(c, s, o) ==
    /\ queue[c] # <<>> /\ s = Head(queue[c]) /\ o \in Outcomes(conn[c], s)
    /\ queue' = [queue EXCEPT ![c] = Tail(@)]
    /\ conn' = [conn EXCEPT ![c] = o.conn]
    /\ db' = db \cup o.commits
    /\ reply' = [reply EXCEPT ![s.by] = IF o.ok THEN "ok" ELSE "error"]
    /\ intruded' = IF s.sql = "ROLLBACK" /\ conn[c].owner \notin {NoTxn, s.by}
                   THEN intruded \cup {conn[c].owner} ELSE intruded
    /\ UNCHANGED <<pc, client, txn, pool, breaks, lost, kept, unsure>>

\* The statement is its sender's, who has the client to itself if it holds it.
LEMMA RanFacts ==
    ASSUME IInv, NEW c \in Clients, NEW s, NEW o, Ran(c, s, o)
    PROVE  /\ s \in Queries /\ s.by \in Txns /\ client[s.by] = c /\ Asked(s)
           /\ conn[c] \in Blocks /\ ConnOk(c)
           /\ pc[s.by] \in Held => conn[c].owner \in {NoTxn, s.by}
           /\ \A i \in 1 .. Len(Tail(queue[c])) : Tail(queue[c])[i].by \in Txns \ {s.by}
           /\ reply'[s.by] = (IF o.ok THEN "ok" ELSE "error")
           /\ conn'[c] = o.conn
<1>1. /\ queue[c] \in Seq(Queries) /\ queue[c] # <<>> /\ s = Head(queue[c]) /\ conn[c] \in Blocks
      /\ QueueOk(c) /\ ConnOk(c) /\ \A u \in Txns : HolderOk(u)
      /\ reply \in [Txns -> Replies] /\ conn \in [Clients -> Blocks]
  BY DEF IInv, TypeOK, Ran
<1>2. /\ Len(queue[c]) \in Nat \ {0} /\ s = queue[c][1] /\ s \in Queries
      /\ Len(Tail(queue[c])) = Len(queue[c]) - 1
      /\ \A i \in 1 .. Len(Tail(queue[c])) : Tail(queue[c])[i] = queue[c][i + 1]
  BY <1>1, HeadTailProperties, LenProperties, EmptySeq
<1>3. s.by \in Txns /\ client[s.by] = c /\ Asked(s)
  BY <1>1, <1>2 DEF QueueOk, Queries
<1>4. ASSUME pc[s.by] \in Held
      PROVE  conn[c].owner \in {NoTxn, s.by}
  <2>1. CASE conn[c].owner \in Txns
    BY <1>1, <1>3, <1>4, <2>1, OpenIsHeld, Distinct DEF ConnOk, HolderOk
  <2>2. conn[c].owner \in Txns \cup {NoTxn}
    BY <1>1 DEF Blocks
  <2> QED
    BY <2>1, <2>2
<1>5. ASSUME NEW i \in 1 .. Len(Tail(queue[c]))
      PROVE  Tail(queue[c])[i].by \in Txns \ {s.by}
  <2>1. i + 1 \in 1 .. Len(queue[c]) /\ 1 \in 1 .. Len(queue[c]) /\ i + 1 # 1
    BY <1>2
  <2>2. queue[c][i + 1] \in Queries
    BY <1>1, <2>1, ElementOfSeq
  <2> QED
    BY <1>1, <1>2, <2>1, <2>2 DEF QueueOk, Queries
<1>6. /\ reply'[s.by] = (IF o.ok THEN "ok" ELSE "error")
      /\ conn'[c] = o.conn
  BY <1>1, <1>3 DEF Ran
<1> QED
  BY <1>1, <1>2, <1>3, <1>4, <1>5, <1>6

\* What a statement leaves alone.
LEMMA RanKeeps ==
    ASSUME IInv, NEW c \in Clients, NEW s, NEW o, Ran(c, s, o),
           o.conn \in Blocks, o.commits \subseteq Writes, \A w \in o.commits : w[1] = s.by,
           s.sql = "ROLLBACK" \/ conn[c].owner \in {NoTxn, s.by},
           ConnOk(c)', BlockOk(s.by)', OutcomeOk(s.by)'
    PROVE  IInv'
<1> PICK t \in Txns : t = s.by
  BY RanFacts
<1>1. /\ client[t] = c /\ t \notin lost /\ Asked(s) /\ conn[c] \in Blocks
      /\ \A i \in 1 .. Len(Tail(queue[c])) : Tail(queue[c])[i].by \in Txns \ {t}
  BY RanFacts DEF Asked
<1>2. /\ conn \in [Clients -> Blocks] /\ queue \in [Clients -> Seq(Queries)] /\ reply \in [Txns -> Replies]
      /\ \A u \in Txns : HolderOk(u) /\ LocalOk(u) /\ BlockOk(u) /\ OutcomeOk(u)
      /\ \A d \in Clients : QueueOk(d) /\ ConnOk(d)
      /\ queue[c] # <<>> /\ intruded \subseteq Txns
  BY DEF IInv, TypeOK, Ran
<1>3. /\ conn' \in [Clients -> Blocks] /\ conn'[c] = o.conn
      /\ \A d \in Clients \ {c} : conn'[d] = conn[d]
      /\ reply' \in [Txns -> Replies] /\ \A u \in Txns \ {t} : reply'[u] = reply[u]
  BY <1>2 DEF Ran, Replies
<1>4. /\ queue' \in [Clients -> Seq(Queries)] /\ queue'[c] = Tail(queue[c])
      /\ \A d \in Clients \ {c} : queue'[d] = queue[d]
  <2>1. Tail(queue[c]) \in Seq(Queries)
    BY <1>2, HeadTailProperties
  <2> QED
    BY <1>2, <2>1 DEF Ran
<1>5. /\ intruded \subseteq intruded' /\ intruded' \subseteq Txns
      /\ \A u \in Txns \ {t} : conn[c].owner = u => u \in intruded'
  <2>1. conn[c].owner \in Txns \cup {NoTxn}
    BY <1>1 DEF Blocks
  <2> QED
    BY <1>2, <2>1, Distinct DEF Ran
<1>6. /\ UNCHANGED <<pc, client, nextOp, doomed, savepoints, open, idle, waiters, breaks, lost, kept, unsure>>
      /\ db' = db \cup o.commits
  BY DEF Ran, txn, pool
<1>7. TypeOK'
  BY <1>3, <1>4, <1>5, <1>6 DEF IInv, TypeOK
<1>8. WaitersOk'
  BY <1>6 DEF IInv, WaitersOk
<1>9. ASSUME NEW u \in Txns
      PROVE  HolderOk(u)' /\ LocalOk(u)'
  <2>1. HolderOk(u) /\ LocalOk(u)
    BY <1>2
  <2>2. LocalOk(u)'
    BY <1>6, <2>1 DEF LocalOk
  <2>3. ASSUME pc[u] \in Held, u \in lost
        PROVE  client[u] \in Clients \ {c}
    BY <1>2, <2>1, <2>3 DEF HolderOk
  <2> QED
    BY <1>3, <1>4, <1>6, <2>1, <2>2, <2>3 DEF HolderOk
<1>10. ASSUME NEW u \in Txns \ {t}
       PROVE  BlockOk(u)'
  <2>1. SUFFICES ASSUME Open(u)', u \notin intruded'
                 PROVE  BlockOk(u)'
    BY DEF BlockOk
  <2>2. Open(u) /\ u \notin intruded /\ BlockOk(u)
    BY <1>2, <1>3, <1>5, <1>6, <2>1 DEF Open
  <2>3. client[u] \in Clients /\ client[u] # c
    BY <1>2, <1>5, <2>1, <2>2, OpenIsHeld DEF MayBeOpen, HolderOk, BlockOk
  <2>4. conn'[client[u]] = conn[client[u]] /\ reply'[u] = reply[u]
    BY <1>3, <2>3
  <2> QED
    BY <1>6, <2>2, <2>4 DEF BlockOk, Sound, WritesMatch, MarksMatch, Mark, Youngest
<1>11. ASSUME NEW u \in Txns \ {t}
       PROVE  OutcomeOk(u)'
  <2>1. Committed(u)' = Committed(u)
    BY <1>6 DEF Committed
  <2>2. OutcomeOk(u) /\ reply'[u] = reply[u]
    BY <1>2, <1>3
  <2> QED
    BY <1>5, <1>6, <2>1, <2>2 DEF OutcomeOk, Undecided
<1>12. ASSUME NEW d \in Clients
       PROVE  QueueOk(d)'
  <2>1. CASE d = c
    <3>1. /\ Len(queue[c]) \in Nat \ {0} /\ Len(queue'[c]) = Len(queue[c]) - 1
          /\ \A i \in 1 .. Len(queue'[c]) : queue'[c][i] = queue[c][i + 1]
      BY <1>2, <1>4, HeadTailProperties, LenProperties, EmptySeq
    <3>2. ASSUME NEW i \in 1 .. Len(queue'[c])
          PROVE  client'[queue'[c][i].by] = c /\ Asked(queue[c][i])'
      <4>1. i + 1 \in 1 .. Len(queue[c]) /\ queue'[c][i] = queue[c][i + 1]
        BY <3>1
      <4>2. client[queue[c][i + 1].by] = c /\ Asked(queue[c][i + 1])
        BY <1>2, <4>1 DEF QueueOk
      <4>3. queue'[c][i].by \in Txns \ {t}
        BY <1>1, <1>4
      <4> QED
        BY <1>3, <1>6, <4>1, <4>2, <4>3 DEF Asked, Youngest
    <3>3. ASSUME NEW i \in 1 .. Len(queue'[c]), NEW j \in 1 .. Len(queue'[c]),
                 queue'[c][i].by = queue'[c][j].by
          PROVE  i = j
      <4>1. i + 1 \in 1 .. Len(queue[c]) /\ j + 1 \in 1 .. Len(queue[c])
        BY <3>1
      <4>2. i + 1 = j + 1
        BY <1>2, <3>1, <3>3, <4>1 DEF QueueOk
      <4> QED
        BY <4>2
    <3> QED
      BY <2>1, <3>2, <3>3 DEF QueueOk
  <2>2. CASE d # c
    <3>1. queue'[d] = queue[d] /\ QueueOk(d) /\ queue[d] \in Seq(Queries)
      BY <1>2, <1>4, <2>2
    <3>2. \A i \in 1 .. Len(queue[d]) : queue[d][i].by \in Txns \ {t}
      <4>1. \A i \in 1 .. Len(queue[d]) : queue[d][i] \in Queries
        BY <3>1, ElementOfSeq
      <4> QED
        BY <1>1, <2>2, <3>1, <4>1 DEF QueueOk, Queries
    <3> QED
      BY <1>3, <1>6, <3>1, <3>2, QueueKept
  <2> QED
    BY <2>1, <2>2
<1>13. ASSUME NEW d \in Clients \ {c}
       PROVE  ConnOk(d)'
  <2>1. conn'[d] = conn[d] /\ ConnOk(d) /\ conn[d] \in Blocks
    BY <1>2, <1>3
  <2>2. ASSUME NEW u \in Txns, client[u] = d, MayBeOpen(u)
        PROVE  MayBeOpen(u)'
    <3>1. u # t
      BY <1>1, <2>2
    <3> QED
      BY <1>3, <1>6, <2>2, <3>1 DEF MayBeOpen, Open
  <2> QED
    BY <1>6, <2>1, <2>2 DEF ConnOk, Blocks
<1>14. ConnOk(c)' /\ BlockOk(t)' /\ OutcomeOk(t)'
  OBVIOUS
<1> QED
  BY <1>7, <1>8, <1>9, <1>10, <1>11, <1>12, <1>13, <1>14 DEF IInv

\* What the statement means for its sender, one kind after the other.
LEMMA RanBegin ==
    ASSUME IInv, NEW c \in Clients, NEW s, NEW o, Ran(c, s, o), s.sql = "BEGIN"
    PROVE  IInv'
<1> PICK t \in Txns : t = s.by /\ client[t] = c /\ t \notin lost
  BY RanFacts DEF Asked
<1>1. /\ conn[c] \in Blocks /\ pc[t] = "begin" /\ reply[t] = "none"
      /\ conn[c].owner \in {NoTxn, t} /\ ConnOk(c) /\ LocalOk(t) /\ OutcomeOk(t)
      /\ reply'[t] = (IF o.ok THEN "ok" ELSE "error") /\ conn'[c] = o.conn
  BY RanFacts DEF Asked, Held, Ending, IInv
<1>2. conn[c].owner = NoTxn
  BY <1>1, Distinct DEF ConnOk, MayBeOpen, Open, Mid, Ending
<1>3. o.conn = Block(t) /\ o.commits = {} /\ o.ok
  BY <1>1, <1>2, BeginOutcome DEF Ran
<1>4. /\ UNCHANGED <<pc, client, nextOp, doomed, savepoints, open, lost, kept, unsure, intruded>>
      /\ db' = db
  BY <1>1, <1>3 DEF Ran, txn
<1>5. /\ o.conn \in Blocks /\ conn'[c].owner = t /\ conn'[c].writes = {} /\ conn'[c].marks = {}
      /\ ~conn'[c].failed /\ reply'[t] = "ok"
  BY <1>1, <1>3, BlockType
<1>6. ConnOk(c)'
  BY <1>1, <1>4, <1>5, Distinct DEF ConnOk, MayBeOpen, Open
<1>7. BlockOk(t)'
  <2>1. kept[t] = {} /\ open[t] = <<>>
    BY <1>1 DEF LocalOk, Early
  <2>2. WritesMatch(t, conn[c])'
    BY <1>1, <1>4, <1>5, <2>1 DEF WritesMatch
  <2>3. MarksMatch(t, conn[c])'
    BY <1>1, <1>4, <1>5, <2>1 DEF MarksMatch
  <2> QED
    BY <1>4, <1>5, <2>2, <2>3 DEF BlockOk, Sound
<1>8. OutcomeOk(t)'
  BY <1>1, <1>4 DEF OutcomeOk, Committed, Early
<1> QED
  BY <1>1, <1>2, <1>3, <1>5, <1>6, <1>7, <1>8, RanKeeps

LEMMA RanRollback ==
    ASSUME IInv, NEW c \in Clients, NEW s, NEW o, Ran(c, s, o), s.sql = "ROLLBACK"
    PROVE  IInv'
<1> PICK t \in Txns : t = s.by /\ client[t] = c /\ t \notin lost
  BY RanFacts DEF Asked
<1>1. /\ pc[t] \in Ending \cup {"rollbackAgain"} /\ OutcomeOk(t) /\ conn'[c] = o.conn
  BY RanFacts DEF Asked, IInv
<1>2. o.conn = NoBlock /\ o.commits = {}
  BY RollbackOutcome DEF Ran
<1>3. /\ UNCHANGED <<pc, client, nextOp, doomed, savepoints, open, lost, kept, unsure>>
      /\ db' = db
  BY <1>2 DEF Ran, txn
<1>4. intruded \subseteq intruded'
  BY DEF Ran
<1>5. ConnOk(c)'
  BY <1>1, <1>2, NoBlockType DEF ConnOk
<1>6. BlockOk(t)'
  BY <1>1, <1>3 DEF BlockOk, Open, Mid, Ending
<1>7. OutcomeOk(t)'
  BY <1>1, <1>3, <1>4 DEF OutcomeOk, Committed, Undecided, Ending
<1> QED
  BY <1>2, <1>5, <1>6, <1>7, NoBlockType, RanKeeps

LEMMA RanCommit ==
    ASSUME IInv, NEW c \in Clients, NEW s, NEW o, Ran(c, s, o), s.sql = "COMMIT"
    PROVE  IInv'
<1> PICK t \in Txns : t = s.by /\ client[t] = c /\ t \notin lost
  BY RanFacts DEF Asked
<1>1. /\ conn[c] \in Blocks /\ pc[t] = "commit" /\ reply[t] = "none"
      /\ conn[c].owner \in {NoTxn, t} /\ ConnOk(c) /\ LocalOk(t) /\ OutcomeOk(t) /\ BlockOk(t)
      /\ reply'[t] = (IF o.ok THEN "ok" ELSE "error") /\ conn'[c] = o.conn
  BY RanFacts DEF Asked, Held, Ending, IInv
<1>2. /\ o.conn = NoBlock
      /\ \/ conn[c].owner # NoTxn /\ ~conn[c].failed /\ o.commits = conn[c].writes /\ o.ok
         \/ conn[c].owner # NoTxn /\ ~conn[c].failed /\ ~o.ok /\ o.commits = {}
         \/ (conn[c].owner = NoTxn \/ conn[c].failed) /\ o.commits = {}
  BY <1>1, CommitOutcome DEF Ran
<1>3. /\ UNCHANGED <<pc, client, nextOp, doomed, savepoints, open, lost, kept, unsure, intruded>>
      /\ db' = db \cup o.commits
  BY DEF Ran, txn
<1>4. ConnOk(c)'
  BY <1>1, <1>2, NoBlockType DEF ConnOk
<1>5. BlockOk(t)'
  BY <1>1, <1>3 DEF BlockOk, Open, Mid
<1>6. OutcomeOk(t)'
  <2>1. SUFFICES ASSUME t \notin intruded
                 PROVE  OutcomeOk(t)'
    BY <1>3 DEF OutcomeOk
  <2>2. Committed(t) = {} /\ ~doomed[t]
    BY <1>1, <2>1 DEF OutcomeOk, LocalOk
  <2>3. conn[c].owner = t /\ ~conn[c].failed /\ conn[c].writes = kept[t]
    BY <1>1, <2>1, <2>2 DEF BlockOk, Open, Sound, WritesMatch
  <2>4. CASE o.commits = kept[t] /\ o.ok
    <3>1. \A w \in kept[t] : w[1] = t
      BY <1>1, <2>3 DEF ConnOk
    <3>2. Committed(t)' = kept[t]
      BY <1>3, <2>2, <2>4, <3>1 DEF Committed
    <3> QED
      BY <1>1, <1>3, <2>4, <3>2 DEF OutcomeOk, Early, Mid
  <2>5. CASE o.commits = {} /\ ~o.ok
    <3>1. Committed(t)' = {}
      BY <1>3, <2>2, <2>5 DEF Committed
    <3> QED
      BY <1>1, <1>3, <2>5, <3>1 DEF OutcomeOk, Undecided, Early, Mid
  <2> QED
    BY <1>2, <2>3, <2>4, <2>5, Distinct
<1>7. o.commits \subseteq Writes /\ \A w \in o.commits : w[1] = t
  BY <1>1, <1>2 DEF ConnOk, Blocks
<1> QED
  BY <1>1, <1>2, <1>4, <1>5, <1>6, <1>7, NoBlockType, RanKeeps

\* A statement inside a block leaves the block to its transaction.
LEMMA RanInside ==
    ASSUME IInv, NEW c \in Clients, NEW s, NEW o, Ran(c, s, o), pc[s.by] \in Mid, s.sql # "ROLLBACK",
           o.conn \in Blocks, o.conn.owner = conn[c].owner,
           conn[c].owner = NoTxn => o.conn = conn[c],
           \A w \in o.conn.writes : w[1] = conn[c].owner,
           \A m \in o.conn.marks : \A w \in m.writes : w[1] = conn[c].owner,
           o.commits \subseteq Writes, \A w \in o.commits : w[1] = s.by,
           conn[c].owner # NoTxn => o.commits = {},
           Sound(s.by, conn[c]) /\ conn[c].owner = s.by
             => (pc[s.by] = "op" /\ ~o.ok) \/ Sound(s.by, conn[c])'
    PROVE  IInv'
<1> PICK t \in Txns : t = s.by /\ client[t] = c /\ t \notin lost
  BY RanFacts DEF Asked
<1>1. /\ conn[c] \in Blocks /\ pc[t] \in Mid /\ reply[t] = "none"
      /\ ConnOk(c) /\ OutcomeOk(t) /\ BlockOk(t) /\ conn[c].owner \in {NoTxn, t}
      /\ reply'[t] = (IF o.ok THEN "ok" ELSE "error") /\ conn'[c] = o.conn
  BY RanFacts DEF Asked, IInv, Held, Mid
<1>2. /\ UNCHANGED <<pc, client, nextOp, doomed, savepoints, open, lost, kept, unsure, intruded>>
      /\ db' = db \cup o.commits
  BY DEF Ran, txn
<1>3. MayBeOpen(t)'
  BY <1>1, <1>2 DEF MayBeOpen, Open
<1>4. ConnOk(c)'
  <2>1. conn'[c].owner = NoTxn => conn'[c] = NoBlock
    BY <1>1 DEF ConnOk
  <2> QED
    BY <1>1, <1>2, <1>3, <2>1 DEF ConnOk
<1>5. t \notin intruded => conn[c].owner = t /\ (doomed[t] \/ Sound(t, conn[c]))
  BY <1>1 DEF BlockOk, Open
<1>6. BlockOk(t)'
  <2>1. SUFFICES ASSUME t \notin intruded
                 PROVE  BlockOk(t)'
    BY <1>2 DEF BlockOk
  <2>2. conn'[c].owner = t /\ client'[t] = c
    BY <1>1, <1>2, <1>5, <2>1
  <2>3. doomed'[t] \/ (pc'[t] = "op" /\ reply'[t] = "error") \/ Sound(t, conn[c])'
    BY <1>1, <1>2, <1>5, <2>1
  <2> QED
    BY <2>2, <2>3 DEF BlockOk
<1>7. OutcomeOk(t)'
  <2>1. SUFFICES ASSUME t \notin intruded
                 PROVE  OutcomeOk(t)'
    BY <1>2 DEF OutcomeOk
  <2>2. Committed(t) = {} /\ o.commits = {}
    BY <1>1, <1>5, <2>1, Distinct DEF OutcomeOk
  <2>3. Committed(t)' = {}
    BY <1>2, <2>2 DEF Committed
  <2> QED
    BY <1>1, <1>2, <2>3 DEF OutcomeOk, Mid
<1> QED
  BY <1>1, <1>4, <1>6, <1>7, RanKeeps

LEMMA RanWrite ==
    ASSUME IInv, NEW c \in Clients, NEW s, NEW o, Ran(c, s, o), s.sql = "WRITE"
    PROVE  IInv'
<1> PICK t \in Txns : t = s.by /\ client[t] = c /\ t \notin lost
  BY RanFacts DEF Asked
<1> PICK k \in Blocks : k = conn[c]
  BY RanFacts
<1>1. /\ s \in Queries /\ pc[t] = "op" /\ reply[t] = "none" /\ s.op = nextOp[t]
      /\ ConnOk(c) /\ LocalOk(t) /\ k.owner \in {NoTxn, t}
      /\ reply'[t] = (IF o.ok THEN "ok" ELSE "error") /\ conn'[c] = o.conn
  BY RanFacts DEF Asked, Held, Ending, IInv
<1>2. <<t, s.op>> \in Writes
  BY <1>1, Distinct DEF Writes, LocalOk, Queries
<1> PICK w \in Writes : w = <<t, s.op>> /\ w[1] = t
  BY <1>2
<1>3. o \in Outcomes(k, s)
  BY DEF Ran
<1>5. /\ o.conn \in Blocks /\ o.conn.owner = k.owner /\ o.conn.marks = k.marks
      /\ o.conn.writes = k.writes \/ (k.owner # NoTxn /\ o.conn.writes = k.writes \cup {w})
      /\ o.ok /\ k.owner # NoTxn => ~o.conn.failed /\ o.conn.writes = k.writes \cup {w}
      /\ k.owner # NoTxn => o.commits = {}
      /\ k.owner = NoTxn => o.conn = k
      /\ o.commits \subseteq {w}
  BY <1>1, <1>3, WriteFields
<1>6. /\ \A v \in o.conn.writes : v[1] = k.owner
      /\ \A m \in o.conn.marks : \A v \in m.writes : v[1] = k.owner
      /\ o.commits \subseteq Writes /\ \A v \in o.commits : v[1] = t
  BY <1>1, <1>5 DEF ConnOk
<1>7. ASSUME Sound(t, k), k.owner = t, o.ok
      PROVE  Sound(t, conn[c])'
  <2>1. UNCHANGED <<pc, nextOp, savepoints, open, kept>> /\ reply'[t] = "ok"
    BY <1>1, <1>7 DEF Ran, txn
  <2>2. k.writes = kept[t] /\ MarksMatch(t, k) /\ k.owner # NoTxn
    BY <1>1, <1>7, Distinct DEF Sound, WritesMatch
  <2>3. WritesMatch(t, conn[c])'
    BY <1>1, <1>5, <1>7, <2>1, <2>2 DEF WritesMatch
  <2>4. MarksMatch(t, conn[c])'
    <3>1. conn'[c].marks = k.marks /\ pc'[t] = "op" /\ pc[t] = "op"
      BY <1>1, <1>5, <2>1
    <3> QED
      BY <2>1, <2>2, <3>1 DEF MarksMatch, Mark
  <2>5. ~conn'[c].failed
    BY <1>1, <1>5, <1>7, <2>2
  <2> QED
    BY <2>3, <2>4, <2>5 DEF Sound
<1>8. pc[t] \in Mid
  BY <1>1 DEF Mid
<1> QED
  BY <1>1, <1>5, <1>6, <1>7, <1>8, RanInside

LEMMA RanSavepoint ==
    ASSUME IInv, NEW c \in Clients, NEW s, NEW o, Ran(c, s, o), s.sql = "SAVEPOINT"
    PROVE  IInv'
<1> PICK t \in Txns : t = s.by /\ client[t] = c /\ t \notin lost
  BY RanFacts DEF Asked
<1> PICK k \in Blocks : k = conn[c]
  BY RanFacts
<1>1. /\ s \in Queries /\ pc[t] = "savepoint" /\ reply[t] = "none" /\ s.name = savepoints[t]
      /\ ConnOk(c) /\ LocalOk(t) /\ k.owner \in {NoTxn, t}
      /\ reply'[t] \in {"ok", "error"} /\ conn'[c] = o.conn
  BY RanFacts DEF Asked, Held, Ending, IInv
<1>2. [name |-> s.name, writes |-> k.writes] \in Marks /\ savepoints[t] \in Nat
  BY <1>1, Distinct DEF Marks, LocalOk, Queries, Blocks
<1> PICK m \in Marks : /\ m = [name |-> s.name, writes |-> k.writes]
                       /\ m.name = s.name /\ m.writes = k.writes
  BY <1>2
<1>3. o \in Outcomes(k, s)
  BY DEF Ran
<1>5. /\ o.commits = {} /\ o.conn \in Blocks /\ o.conn.owner = k.owner
      /\ o.conn.writes = k.writes
      /\ o.conn.marks = k.marks \/ o.conn.marks = k.marks \cup {m}
      /\ k.owner # NoTxn /\ ~k.failed => ~o.conn.failed /\ o.conn.marks = k.marks \cup {m}
      /\ k.owner = NoTxn => o.conn = k
  BY <1>1, <1>3, SavepointFields
<1>6. /\ \A v \in o.conn.writes : v[1] = k.owner
      /\ \A n \in o.conn.marks : \A v \in n.writes : v[1] = k.owner
  BY <1>1, <1>5 DEF ConnOk
<1>7. ASSUME Sound(t, k), k.owner = t
      PROVE  Sound(t, conn[c])'
  <2>1. UNCHANGED <<pc, nextOp, savepoints, open, kept>>
    BY DEF Ran, txn
  <2>2. k.writes = kept[t] /\ MarksMatch(t, k) /\ k.owner # NoTxn /\ ~k.failed
    BY <1>1, <1>7, Distinct DEF Sound, WritesMatch
  <2>3. WritesMatch(t, conn[c])'
    BY <1>1, <1>5, <2>1, <2>2 DEF WritesMatch
  <2>4. conn'[c].marks = k.marks \cup {m} /\ \A n \in k.marks : n.name \in Nat
    BY <1>1, <1>5, <2>2 DEF Blocks, Marks
  <2>5. MarksMatch(t, conn[c])'
    <3>1. \A n \in k.marks : n.name < savepoints[t]
      BY <1>1, <2>2 DEF MarksMatch
    <3>2. \A n, p \in conn'[c].marks : n.name = p.name => n = p
      BY <1>1, <1>2, <2>2, <2>4, <3>1 DEF MarksMatch
    <3>3. \A n \in conn'[c].marks : n.name <= savepoints[t]
      BY <1>1, <1>2, <2>4, <3>1
    <3>4. \A i \in 1 .. Len(open[t]) : Mark(open[t][i]) \in conn'[c].marks
      BY <1>1, <2>2, <2>4 DEF MarksMatch
    <3>5. [name |-> savepoints[t], writes |-> kept[t]] \in conn'[c].marks
      BY <1>1, <2>2, <2>4
    <3> QED
      BY <1>1, <2>1, <3>2, <3>3, <3>4, <3>5 DEF MarksMatch, Mark
  <2> QED
    BY <1>1, <1>5, <2>2, <2>3, <2>5 DEF Sound
<1>8. pc[t] \in Mid
  BY <1>1 DEF Mid
<1> QED
  BY <1>1, <1>5, <1>6, <1>7, <1>8, RanInside

\* The head of a transaction's savepoints is the youngest.
LEMMA YoungestFacts ==
    ASSUME IInv, NEW t \in Txns, open[t] # <<>>
    PROVE  /\ Youngest(t) = open[t][1] /\ 1 \in 1 .. Len(open[t]) /\ Len(open[t]) \in Nat
           /\ \A i \in 1 .. Len(open[t]) : open[t][i] \in Savepoints
           /\ \A i \in 1 .. Len(open[t]) : open[t][i].name <= Youngest(t).name /\ open[t][i].name \in Nat
           /\ \A i \in 1 .. Len(open[t]) : i # 1 => open[t][i].name < Youngest(t).name
<1>1. open[t] \in Seq(Savepoints) /\ LocalOk(t)
  BY DEF IInv, TypeOK
<1>2. /\ Len(open[t]) \in Nat \ {0} /\ \A i \in 1 .. Len(open[t]) : open[t][i] \in Savepoints
      /\ Head(open[t]) = open[t][1]
  BY <1>1, LenProperties, EmptySeq, ElementOfSeq, HeadTailProperties
<1>3. 1 \in 1 .. Len(open[t])
  BY <1>2
<1>4. \A i \in 1 .. Len(open[t]) : open[t][i].name \in Nat
  BY <1>2 DEF Savepoints
<1>5. \A i \in 1 .. Len(open[t]) : i # 1 => open[t][i].name < open[t][1].name
  BY <1>1, <1>2, <1>3, <1>4 DEF LocalOk
<1> QED
  BY <1>2, <1>3, <1>4, <1>5 DEF Youngest

LEMMA RanRelease ==
    ASSUME IInv, NEW c \in Clients, NEW s, NEW o, Ran(c, s, o), s.sql = "RELEASE"
    PROVE  IInv'
<1> PICK t \in Txns : t = s.by /\ client[t] = c /\ t \notin lost
  BY RanFacts DEF Asked
<1> PICK k \in Blocks : k = conn[c]
  BY RanFacts
<1>1. /\ s \in Queries /\ pc[t] = "release" /\ reply[t] = "none" /\ s.name = Youngest(t).name
      /\ ConnOk(c) /\ LocalOk(t) /\ k.owner \in {NoTxn, t}
      /\ reply'[t] = (IF o.ok THEN "ok" ELSE "error") /\ conn'[c] = o.conn
  BY RanFacts DEF Asked, Held, Ending, IInv
<1>2. o \in Outcomes(k, s) /\ open[t] # <<>>
  BY <1>1 DEF Ran, LocalOk
<1>3. /\ o.commits = {} /\ o.conn \in Blocks /\ o.conn.owner = k.owner
      /\ o.conn.writes = k.writes /\ o.conn.marks \subseteq k.marks
      /\ k.owner # NoTxn /\ ~k.failed /\ (\E m \in k.marks : m.name = s.name) =>
           ~o.conn.failed /\ o.ok /\ o.conn.marks = {m \in k.marks : m.name < s.name}
      /\ k.owner = NoTxn => o.conn = k
  BY <1>1, <1>2, ReleaseFields
<1>4. /\ \A v \in o.conn.writes : v[1] = k.owner
      /\ \A n \in o.conn.marks : \A v \in n.writes : v[1] = k.owner
  BY <1>1, <1>3 DEF ConnOk
<1>5. ASSUME Sound(t, k), k.owner = t
      PROVE  Sound(t, conn[c])'
  <2>1. UNCHANGED <<pc, nextOp, savepoints, open, kept>>
    BY DEF Ran, txn
  <2>2. k.writes = kept[t] /\ MarksMatch(t, k) /\ k.owner # NoTxn /\ ~k.failed
    BY <1>1, <1>5, Distinct DEF Sound, WritesMatch
  <2>3. \A i \in 1 .. Len(open[t]) : Mark(open[t][i]) \in k.marks
    BY <1>1, <2>2 DEF MarksMatch
  <2>4. \A p : Mark(p).name = p.name
    BY DEF Mark
  <2>5. \E m \in k.marks : m.name = s.name
    BY <1>1, <1>2, <2>3, <2>4, YoungestFacts
  <2>6. ~o.conn.failed /\ o.ok /\ o.conn.marks = {m \in k.marks : m.name < s.name}
    BY <1>3, <2>2, <2>5
  <2>7. WritesMatch(t, conn[c])'
    BY <1>1, <1>3, <2>1, <2>2 DEF WritesMatch
  <2>8. MarksMatch(t, conn[c])'
    <3>1. \A n, p \in conn'[c].marks : n.name = p.name => n = p
      BY <1>1, <1>3, <2>2 DEF MarksMatch
    <3>2. \A n \in conn'[c].marks : n.name <= savepoints[t]
      BY <1>1, <1>3, <2>2 DEF MarksMatch
    <3>3. \A i \in 1 .. Len(open[t]) : i # 1 => Mark(open[t][i]) \in conn'[c].marks
      BY <1>1, <1>2, <2>3, <2>4, <2>6, YoungestFacts
    <3>4. reply'[t] = "ok"
      BY <1>1, <2>6
    <3> QED
      BY <1>1, <2>1, <3>1, <3>2, <3>3, <3>4 DEF MarksMatch, Mark
  <2> QED
    BY <1>1, <2>6, <2>7, <2>8 DEF Sound
<1>6. pc[t] \in Mid
  BY <1>1 DEF Mid
<1> QED
  BY <1>1, <1>3, <1>4, <1>5, <1>6, RanInside

LEMMA RanRollbackTo ==
    ASSUME IInv, NEW c \in Clients, NEW s, NEW o, Ran(c, s, o), s.sql = "ROLLBACK_TO"
    PROVE  IInv'
<1> PICK t \in Txns : t = s.by /\ client[t] = c /\ t \notin lost
  BY RanFacts DEF Asked
<1> PICK k \in Blocks : k = conn[c]
  BY RanFacts
<1>1. /\ s \in Queries /\ pc[t] = "rollbackTo" /\ reply[t] = "none" /\ s.name = Youngest(t).name
      /\ ConnOk(c) /\ LocalOk(t) /\ k.owner \in {NoTxn, t}
      /\ reply'[t] \in {"ok", "error"} /\ conn'[c] = o.conn
  BY RanFacts DEF Asked, Held, Ending, IInv
<1>2. o \in Outcomes(k, s) /\ open[t] # <<>> /\ (k.owner = NoTxn => k.marks = {})
  BY <1>1, NoBlockType DEF Ran, LocalOk, ConnOk
<1>3. /\ o.commits = {} /\ o.conn \in Blocks /\ o.conn.owner = k.owner
      /\ \/ \E m \in k.marks : m.name = s.name /\ o.conn.writes = m.writes
         \/ o.conn.writes = k.writes
      /\ o.conn.marks \subseteq k.marks
      /\ (\E m \in k.marks : m.name = s.name) =>
           /\ ~o.conn.failed /\ o.conn.marks = {m \in k.marks : m.name <= s.name}
           /\ \E m \in k.marks : m.name = s.name /\ o.conn.writes = m.writes
      /\ k.owner = NoTxn /\ k.marks = {} => o.conn = k
  BY <1>1, <1>2, RollbackToFields
<1>4. /\ \A v \in o.conn.writes : v[1] = k.owner
      /\ \A n \in o.conn.marks : \A v \in n.writes : v[1] = k.owner
      /\ k.owner = NoTxn => o.conn = k
  BY <1>1, <1>2, <1>3 DEF ConnOk
<1>5. ASSUME Sound(t, k), k.owner = t
      PROVE  Sound(t, conn[c])'
  <2>1. UNCHANGED <<pc, nextOp, savepoints, open, kept>>
    BY DEF Ran, txn
  <2>2. MarksMatch(t, k)
    BY <1>5 DEF Sound
  <2>3. \A i \in 1 .. Len(open[t]) : Mark(open[t][i]) \in k.marks
    BY <1>1, <2>2 DEF MarksMatch
  <2>4. \A p : Mark(p).name = p.name /\ Mark(p).writes = p.kept
    BY DEF Mark
  <2>5. Mark(Youngest(t)) \in k.marks
    BY <1>1, <1>2, <2>3, YoungestFacts
  <2>6. ~o.conn.failed /\ o.conn.marks = {m \in k.marks : m.name <= s.name}
    BY <1>1, <1>3, <2>4, <2>5
  <2>7. PICK m \in k.marks : m.name = s.name /\ o.conn.writes = m.writes
    BY <1>1, <1>3, <2>4, <2>5
  <2>8. m = Mark(Youngest(t))
    BY <1>1, <2>2, <2>4, <2>5, <2>7 DEF MarksMatch
  <2>9. WritesMatch(t, conn[c])'
    BY <1>1, <2>1, <2>4, <2>7, <2>8 DEF WritesMatch, Youngest
  <2>10. MarksMatch(t, conn[c])'
    <3>1. \A n, p \in conn'[c].marks : n.name = p.name => n = p
      BY <1>1, <1>3, <2>2 DEF MarksMatch
    <3>2. \A n \in conn'[c].marks : n.name <= savepoints[t]
      BY <1>1, <1>3, <2>2 DEF MarksMatch
    <3>3. \A i \in 1 .. Len(open[t]) : Mark(open[t][i]) \in conn'[c].marks
      BY <1>1, <1>2, <2>3, <2>4, <2>6, YoungestFacts
    <3> QED
      BY <1>1, <2>1, <3>1, <3>2, <3>3 DEF MarksMatch, Mark
  <2> QED
    BY <1>1, <2>6, <2>9, <2>10 DEF Sound
<1>6. pc[t] \in Mid
  BY <1>1 DEF Mid
<1> QED
  BY <1>1, <1>3, <1>4, <1>5, <1>6, RanInside

LEMMA RunKeeps ==
    ASSUME IInv, NEW c \in Clients, Run(c)
    PROVE  IInv'
<1> DEFINE s == Head(queue[c])
<1>1. PICK o \in Outcomes(conn[c], s) : Ran(c, s, o)
  BY DEF Run, Ran
<1>2. s.sql \in Statements
  BY <1>1, RanFacts DEF Queries
<1> HIDE DEF s
<1> QED
  BY <1>1, <1>2, RanBegin, RanRollback, RanCommit, RanWrite, RanSavepoint, RanRelease,
     RanRollbackTo DEF Statements

-----------------------------------------------------------------------------
(* The steps of the code, one after the other.                              *)

LEMMA Types ==
    ASSUME IInv
    PROVE  /\ pc \in [Txns -> PCs] /\ reply \in [Txns -> Replies]
           /\ nextOp \in [Txns -> 1 .. Ops + 1] /\ doomed \in [Txns -> BOOLEAN]
           /\ savepoints \in [Txns -> 0 .. MaxSavepoints] /\ open \in [Txns -> Seq(Savepoints)]
           /\ kept \in [Txns -> SUBSET Writes]
           /\ \A t \in Txns : HolderOk(t) /\ LocalOk(t) /\ BlockOk(t) /\ OutcomeOk(t)
<1> QED
  BY DEF IInv, TypeOK

\* Only on a lost connection is a statement answered at once.
LEMMA Sent ==
    ASSUME IInv, NEW t \in Txns, NEW sql, NEW name, NEW p \in PCs, SendNamed(t, sql, name, p)
    PROVE  /\ pc'[t] = p
           /\ t \in lost => reply'[t] = "error"
           /\ t \notin lost => reply'[t] = "none"
<1> QED
  BY Types DEF SendNamed

\* A statement is sent and nothing else changes.
LEMMA JustSent ==
    ASSUME IInv, NEW t \in Txns, NEW sql \in Statements, NEW name \in 0 .. MaxSavepoints, NEW p \in PCs,
           SendNamed(t, sql, name, p), Asks(t, sql, name, p),
           UNCHANGED <<client, txn, pool, conn, db, breaks, lost, history>>,
           (p \in Held /\ pc[t] \in Held) \/ (p \in Released /\ pc[t] \in Released),
           reply[t] # "none" \/ pc[t] \in {"connected", "body", "again"},
           MayBeOpen(t) => MayBeOpen(t)',
           LocalOk(t)', BlockOk(t)', OutcomeOk(t)'
    PROVE  IInv'
<1>1. UNCHANGED <<nextOp, doomed, savepoints, open, kept, unsure, intruded>>
  BY DEF txn, history
<1>2. /\ nextOp' \in [Txns -> 1 .. Ops + 1] /\ doomed' \in [Txns -> BOOLEAN]
      /\ savepoints' \in [Txns -> 0 .. MaxSavepoints] /\ open' \in [Txns -> Seq(Savepoints)]
      /\ kept' \in [Txns -> SUBSET Writes]
  BY <1>1, Types
<1> QED
  BY <1>1, <1>2, SendKeeps

\* A statement sent from inside a sound block leaves it sound.
LEMMA BlockSent ==
    ASSUME IInv, NEW t \in Txns, NEW p \in PCs, NEW sql, NEW name, SendNamed(t, sql, name, p),
           UNCHANGED <<client, txn, pool, conn, db, breaks, lost, history>>,
           pc[t] = "body" \/ (pc[t] = "release" /\ reply[t] = "error"),
           p \in {"op", "release", "rollbackTo"} \/ (p = "commit" /\ ~doomed[t])
    PROVE  BlockOk(t)' /\ (MayBeOpen(t) => MayBeOpen(t)')
<1>1. BlockOk(t)
  BY Types
<1>2. pc'[t] = p /\ (t \in lost => reply'[t] = "error") /\ (t \notin lost => reply'[t] = "none")
  BY Sent
<1>3. UNCHANGED <<client, conn, nextOp, doomed, savepoints, open, kept, lost, intruded>>
  BY DEF txn, history
<1>4. BlockOk(t)'
  <2>1. SUFFICES ASSUME t \notin intruded, t \notin lost
                 PROVE  BlockOk(t)'
    BY <1>3 DEF BlockOk, Open
  <2>2. conn[client[t]].owner = t /\ (doomed[t] \/ Sound(t, conn[client[t]]))
    BY <1>1, <2>1 DEF BlockOk, Open, Mid
  <2> PICK k : k = conn[client[t]]
    OBVIOUS
  <2>3. ASSUME Sound(t, k)
        PROVE  Sound(t, k)'
    <3>1. ~k.failed /\ k.writes = kept[t] /\ MarksMatch(t, k)
      BY <2>3 DEF Sound, WritesMatch
    <3>2. WritesMatch(t, k)'
      BY <1>2, <1>3, <2>1, <3>1 DEF WritesMatch
    <3>3. MarksMatch(t, k)'
      BY <1>2, <1>3, <2>1, <3>1 DEF MarksMatch, Mark
    <3> QED
      BY <3>1, <3>2, <3>3 DEF Sound
  <2> QED
    BY <1>3, <2>2, <2>3 DEF BlockOk, Sound, WritesMatch, MarksMatch, Mark, Youngest
<1>5. MayBeOpen(t) => MayBeOpen(t)'
  BY <1>2, <1>3 DEF MayBeOpen, Open, Mid
<1> QED
  BY <1>4, <1>5

LEMMA BeginKeeps ==
    ASSUME IInv, NEW t \in Txns, Begin(t)
    PROVE  IInv'
<1>1. /\ pc[t] = "connected" /\ SendNamed(t, "BEGIN", 0, "begin")
      /\ UNCHANGED <<client, txn, pool, conn, db, breaks, lost, history>>
      /\ LocalOk(t) /\ OutcomeOk(t)
  BY Types DEF Begin, Send
<1>2. "begin" \in PCs /\ "begin" \in Held /\ pc[t] \in Held
  BY <1>1 DEF PCs, Held
<1>3. /\ pc'[t] = "begin" /\ reply'[t] # "ok"
      /\ UNCHANGED <<nextOp, doomed, savepoints, open, db, kept, lost, unsure, intruded>>
  BY <1>1, <1>2, Sent DEF txn, history
<1>4. LocalOk(t)'
  BY <1>1, <1>3 DEF LocalOk, Early
<1>5. BlockOk(t)' /\ OutcomeOk(t)'
  BY <1>1, <1>3 DEF BlockOk, Open, Mid, OutcomeOk, Early, Committed
<1>6. ~MayBeOpen(t)
  BY <1>1 DEF MayBeOpen, Open, Mid, Ending
<1>7. Asks(t, "BEGIN", 0, "begin")
  BY DEF Asks
<1> QED
  BY <1>1, <1>2, <1>4, <1>5, <1>6, <1>7, Distinct, JustSent DEF Statements

\* A ROLLBACK is sent: the last statement of a failed transaction.
LEMMA RollbackSent ==
    ASSUME IInv, NEW t \in Txns, NEW p \in Ending \cup {"rollbackAgain"}, SendNamed(t, "ROLLBACK", 0, p),
           UNCHANGED <<client, pool, conn, db, breaks, lost, unsure, intruded, savepoints, open, doomed, kept>>,
           nextOp' \in [Txns -> 1 .. Ops + 1], \A u \in Txns \ {t} : nextOp'[u] = nextOp[u],
           (p \in Ending /\ pc[t] \in Held) \/ (p = "rollbackAgain" /\ pc[t] = "again"),
           reply[t] # "none" \/ pc[t] \in {"connected", "body", "again"},
           t \notin intruded => IF p \in {"rollback", "rollbackDoomed"} THEN Committed(t) = {} ELSE Undecided(t)
    PROVE  IInv'
<1>1. /\ p \in PCs
      /\ (p \in Held /\ pc[t] \in Held) \/ (p \in Released /\ pc[t] \in Released)
  BY DEF PCs, Held, Released, Ending
<1>2. /\ pc'[t] = p /\ (t \in lost => reply'[t] = "error") /\ (t \notin lost => reply'[t] = "none")
      /\ LocalOk(t)
  BY <1>1, Sent, Types
<1>3. p \notin Early /\ p \notin Mid /\ p \notin {"commit", "resolved", "begin"}
  BY DEF Early, Mid, Ending
<1>4. LocalOk(t)'
  BY <1>2, <1>3 DEF LocalOk, Mid
<1>5. BlockOk(t)'
  BY <1>2, <1>3 DEF BlockOk, Open
<1>6. OutcomeOk(t)'
  BY <1>2, <1>3 DEF OutcomeOk, Committed, Undecided, Ending
<1>7. MayBeOpen(t) => MayBeOpen(t)'
  BY <1>2 DEF MayBeOpen, Open, Ending, Mid
<1>8. Asks(t, "ROLLBACK", 0, p)
  BY DEF Asks
<1>9. /\ doomed' \in [Txns -> BOOLEAN] /\ savepoints' \in [Txns -> 0 .. MaxSavepoints]
      /\ open' \in [Txns -> Seq(Savepoints)] /\ kept' \in [Txns -> SUBSET Writes]
      /\ "ROLLBACK" \in Statements /\ 0 \in 0 .. MaxSavepoints
  BY Types, Distinct DEF Statements
<1> QED
  BY <1>1, <1>4, <1>5, <1>6, <1>7, <1>8, <1>9, SendKeeps

\* A holder without a block: its client is in no block at all.
LEMMA NoBlockLeft ==
    ASSUME IInv, NEW t \in Txns, pc[t] \in Held, ~MayBeOpen(t)
    PROVE  conn[client[t]] = NoBlock
<1> PICK c \in Clients : c = client[t]
  BY Types DEF HolderOk
<1>1. ConnOk(c) /\ conn[c] \in Blocks /\ \A u \in Txns : HolderOk(u)
  BY DEF IInv, TypeOK
<1>2. CASE conn[c].owner = NoTxn
  BY <1>1, <1>2 DEF ConnOk
<1>3. CASE conn[c].owner # NoTxn
  <2> PICK u \in Txns : u = conn[c].owner
    BY <1>1, <1>3 DEF Blocks
  <2>1. client[u] = c /\ MayBeOpen(u)
    BY <1>1, <1>3 DEF ConnOk
  <2>2. pc[u] \in Held
    BY <2>1, OpenIsHeld
  <2>3. u = t
    BY <1>1, <2>1, <2>2 DEF HolderOk
  <2> QED
    BY <2>1, <2>3
<1> QED
  BY <1>2, <1>3

\* The client is given back and the call ends, or goes on without it.
LEMMA GivenBack ==
    ASSUME IInv, NEW t \in Txns, NEW p \in {"resolved", "rejected", "again"}, Release(t, p),
           pc[t] \in Held, reply[t] # "none", ~MayBeOpen(t),
           UNCHANGED <<reply, txn, queue, conn, db, breaks, lost, history>>,
           p = "resolved" => ~doomed[t],
           t \notin intruded => IF p = "resolved" THEN Committed(t) = kept[t] ELSE Undecided(t)
    PROVE  IInv'
<1>1. conn[client[t]] = NoBlock
  BY NoBlockLeft
<1>2. pc'[t] = p
  <2>1. pc \in [Txns -> PCs] /\ waiters \in Seq(Txns) /\ WaitersOk
    BY DEF IInv, TypeOK
  <2>2. CASE waiters = <<>>
    BY <2>1, <2>2 DEF Release
  <2>3. CASE waiters # <<>>
    <3> PICK w \in Txns : w = Head(waiters) /\ w = waiters[1] /\ 1 \in 1 .. Len(waiters)
      BY <2>1, <2>3, HeadTailProperties, LenProperties, EmptySeq
    <3>1. w # t
      BY <2>1 DEF WaitersOk, Held
    <3> QED
      BY <2>1, <2>3, <3>1 DEF Release
  <2> QED
    BY <2>2, <2>3
<1>3. OutcomeOk(t)'
  BY <1>2 DEF OutcomeOk, Committed, Undecided, Early, Mid, txn, history
<1> QED
  BY <1>1, <1>3, ReleaseKeeps

LEMMA AfterBegun ==
    ASSUME IInv, NEW t \in Txns, Begun(t)
    PROVE  IInv'
<1>1. /\ pc[t] = "begin" /\ reply[t] # "none" /\ UNCHANGED <<txn, conn, db, breaks, lost, history>>
      /\ LocalOk(t) /\ BlockOk(t) /\ OutcomeOk(t) /\ pc[t] \in Held
  BY Types DEF Begun, Answered, Held
<1>2. t \notin intruded => Committed(t) = {}
  BY <1>1 DEF OutcomeOk, Early
<1>3. CASE Ok(t)
  <2>1. /\ pc' = [pc EXCEPT ![t] = "body"] /\ pc'[t] = "body" /\ UNCHANGED <<reply, queue, client, pool>>
        /\ UNCHANGED <<nextOp, doomed, savepoints, open, kept, unsure, intruded, conn, db, lost>>
    BY <1>1, <1>3, Types DEF Begun, Go, txn, history
  <2>2. LocalOk(t)'
    BY <1>1, <2>1 DEF LocalOk, Early
  <2>3. BlockOk(t)'
    <3>1. t \notin lost => Open(t)
      BY <1>1, <1>3 DEF Open, Ok
    <3> PICK k : k = conn[client[t]]
      OBVIOUS
    <3>2. ASSUME Sound(t, k)
          PROVE  Sound(t, k)'
      BY <1>1, <2>1, <3>2 DEF Sound, WritesMatch, MarksMatch, Mark
    <3> QED
      BY <1>1, <2>1, <3>1, <3>2 DEF BlockOk, Open, Sound, WritesMatch, MarksMatch, Mark, Youngest
  <2>4. OutcomeOk(t)'
    BY <1>2, <2>1 DEF OutcomeOk, Mid, Committed
  <2>5. MayBeOpen(t) => MayBeOpen(t)'
    BY <2>1 DEF MayBeOpen, Open, Mid
  <2>6. "body" \in Held
    BY DEF Held
  <2> QED
    BY <1>1, <2>1, <2>2, <2>3, <2>4, <2>5, <2>6, Types, GoKeeps
<1>4. CASE ~Ok(t) /\ t \in Interactive
  <2>1. Release(t, "rejected") /\ UNCHANGED <<reply, queue>>
    BY <1>4 DEF Begun
  <2>2. ~MayBeOpen(t)
    BY <1>1, <1>4 DEF MayBeOpen, Open, Mid, Ending, Ok
  <2> QED
    BY <1>1, <1>2, <2>1, <2>2, GivenBack DEF Undecided
<1>5. CASE ~Ok(t) /\ t \notin Interactive
  <2>1. SendNamed(t, "ROLLBACK", 0, "catch") /\ UNCHANGED <<client, pool>>
    BY <1>5 DEF Begun, Send
  <2>2. UNCHANGED <<nextOp, doomed, savepoints, open, kept, unsure, intruded>>
    BY <1>1 DEF txn, history
  <2>3. "catch" \in Ending
    BY DEF Ending
  <2> QED
    BY <1>1, <1>2, <2>1, <2>2, <2>3, Types, RollbackSent DEF Undecided
<1> QED
  BY <1>3, <1>4, <1>5

LEMMA AfterWrite ==
    ASSUME IInv, NEW t \in Txns, Write(t)
    PROVE  IInv'
<1>1. /\ pc[t] = "body" /\ nextOp[t] <= Ops /\ ~doomed[t] /\ pc[t] \in Held
      /\ UNCHANGED <<client, txn, pool, conn, db, breaks, lost, history>>
      /\ LocalOk(t) /\ OutcomeOk(t)
      /\ UNCHANGED <<nextOp, doomed, savepoints, open, kept, unsure, intruded>>
  BY Types DEF Write, Held, txn, history
<1>2. "op" \in PCs /\ "op" \in Held /\ "WRITE" \in Statements /\ 0 \in 0 .. MaxSavepoints /\ "error" \in Replies
  BY Distinct DEF PCs, Held, Statements, Replies
<1>3. ASSUME pc'[t] = "op"
      PROVE  LocalOk(t)' /\ OutcomeOk(t)'
  <2>1. LocalOk(t)'
    BY <1>1, <1>3 DEF LocalOk, Early
  <2>2. OutcomeOk(t)'
    BY <1>1, <1>3 DEF OutcomeOk, Mid, Committed
  <2> QED
    BY <2>1, <2>2
<1>4. CASE Send(t, "WRITE", "op")
  <2>1. SendNamed(t, "WRITE", 0, "op")
    BY <1>4 DEF Send
  <2>2. pc'[t] = "op"
    BY <1>2, <2>1, Sent
  <2>3. BlockOk(t)' /\ (MayBeOpen(t) => MayBeOpen(t)')
    BY <1>1, <1>2, <2>1, BlockSent
  <2>4. Asks(t, "WRITE", 0, "op")
    BY <1>1 DEF Asks
  <2> QED
    BY <1>1, <1>2, <1>3, <2>1, <2>2, <2>3, <2>4, JustSent
<1>5. CASE /\ pc' = [pc EXCEPT ![t] = "op"] /\ reply' = [reply EXCEPT ![t] = "error"]
           /\ UNCHANGED queue
  <2>1. /\ pc'[t] = "op" /\ reply' \in [Txns -> Replies] /\ reply'[t] = "error"
        /\ \A u \in Txns \ {t} : reply'[u] = reply[u]
    BY <1>2, <1>5, Types
  <2>2. BlockOk(t)'
    <3>1. Open(t)' => Open(t)
      BY <1>1 DEF Open, Mid
    <3>2. BlockOk(t)
      BY Types
    <3> QED
      BY <1>1, <2>1, <3>1, <3>2 DEF BlockOk
  <2>3. MayBeOpen(t) => MayBeOpen(t)'
    BY <1>1, <2>1 DEF MayBeOpen, Open, Mid
  <2> QED
    BY <1>1, <1>2, <1>3, <1>5, <2>1, <2>2, <2>3, Types, GoKeeps
<1> QED
  BY <1>4, <1>5 DEF Write

\* What an operation of the body has added is what the block has.
LEMMA Advanced ==
    ASSUME IInv, NEW t \in Txns, Answered(t, "op"), Advance(t)
    PROVE  /\ nextOp' \in [Txns -> 1 .. Ops + 1] /\ \A u \in Txns \ {t} : nextOp'[u] = nextOp[u]
           /\ UNCHANGED <<savepoints, open>> /\ pc[t] = "op" /\ reply[t] # "none" /\ nextOp[t] \in 1 .. Ops
<1>1. nextOp \in [Txns -> 1 .. Ops + 1] /\ pc[t] = "op" /\ LocalOk(t) /\ reply[t] # "none"
  BY Types DEF Answered
<1>2. nextOp[t] \in 1 .. Ops
  BY <1>1, Distinct DEF LocalOk
<1>3. nextOp[t] + 1 \in 1 .. Ops + 1
  BY <1>2, Distinct
<1> QED
  BY <1>1, <1>2, <1>3 DEF Advance

LEMMA WriteKept ==
    ASSUME IInv, NEW t \in Txns, Answered(t, "op"), Ok(t), Keep(t), Advance(t), Go(t, "body"),
           UNCHANGED <<doomed, client, pool, conn, db, breaks, lost, unsure, intruded>>
    PROVE  IInv'
<1>1. /\ nextOp' \in [Txns -> 1 .. Ops + 1] /\ \A u \in Txns \ {t} : nextOp'[u] = nextOp[u]
      /\ UNCHANGED <<savepoints, open>> /\ pc[t] = "op" /\ reply[t] = "ok" /\ nextOp[t] \in 1 .. Ops
  BY Advanced DEF Ok
<1>2. /\ pc' = [pc EXCEPT ![t] = "body"] /\ pc'[t] = "body" /\ UNCHANGED <<reply, queue>>
      /\ LocalOk(t) /\ BlockOk(t) /\ OutcomeOk(t) /\ pc[t] \in Held /\ "body" \in Held
  BY <1>1, Types DEF Go, Held
<1>3. /\ kept' \in [Txns -> SUBSET Writes] /\ \A u \in Txns \ {t} : kept'[u] = kept[u]
      /\ kept'[t] = kept[t] \cup {<<t, nextOp[t]>>}
  <2>1. <<t, nextOp[t]>> \in Writes
    BY <1>1 DEF Writes
  <2>2. kept[t] \cup {<<t, nextOp[t]>>} \in SUBSET Writes
    BY <2>1, Types
  <2> QED
    BY <2>2, Types DEF Keep
<1>4. LocalOk(t)'
  BY <1>1, <1>2 DEF LocalOk, Early
<1>5. BlockOk(t)'
  <2>1. Open(t)' => Open(t)
    BY <1>1 DEF Open, Mid
  <2> PICK k : k = conn[client[t]]
    OBVIOUS
  <2>2. ASSUME Sound(t, k)
        PROVE  /\ ~k.failed
               /\ WritesMatch(t, k)'
               /\ MarksMatch(t, k)'
    <3>1. ~k.failed /\ k.writes = kept'[t] /\ MarksMatch(t, k)
      BY <1>1, <1>3, <2>2 DEF Sound, WritesMatch
    <3>2. WritesMatch(t, k)'
      BY <1>2, <3>1 DEF WritesMatch
    <3>3. MarksMatch(t, k)'
      BY <1>1, <1>2, <3>1 DEF MarksMatch, Mark
    <3> QED
      BY <3>1, <3>2, <3>3
  <2>3. t \notin intruded /\ Open(t)' => k.owner = t /\ (doomed[t] \/ Sound(t, k))
    BY <1>1, <1>2, <2>1 DEF BlockOk
  <2> QED
    BY <2>2, <2>3 DEF BlockOk, Sound, WritesMatch, MarksMatch, Mark, Youngest
<1>6. OutcomeOk(t)'
  BY <1>1, <1>2 DEF OutcomeOk, Mid, Committed
<1>7. MayBeOpen(t) => MayBeOpen(t)'
  BY <1>1, <1>2 DEF MayBeOpen, Open, Mid
<1> QED
  BY <1>1, <1>2, <1>3, <1>4, <1>5, <1>6, <1>7, Types, GoKeeps

LEMMA AfterWrittenAtomic ==
    ASSUME IInv, NEW t \in Txns, WrittenAtomic(t)
    PROVE  IInv'
<1>1. /\ Answered(t, "op") /\ Advance(t) /\ pc[t] \in Held /\ OutcomeOk(t)
      /\ UNCHANGED <<doomed, client, pool, conn, db, breaks, lost, unsure, intruded>>
  BY Types DEF WrittenAtomic, Answered, Held
<1>2. CASE Ok(t)
  BY <1>1, <1>2, WriteKept DEF WrittenAtomic
<1>3. CASE ~Ok(t)
  <2>1. SendNamed(t, "ROLLBACK", 0, "rollback") /\ kept' = kept
    BY <1>3 DEF WrittenAtomic, Send
  <2>2. t \notin intruded => Committed(t) = {}
    BY <1>1 DEF OutcomeOk, Mid, Answered
  <2>3. "rollback" \in Ending
    BY DEF Ending
  <2>4. /\ nextOp' \in [Txns -> 1 .. Ops + 1] /\ \A u \in Txns \ {t} : nextOp'[u] = nextOp[u]
        /\ UNCHANGED <<savepoints, open>> /\ reply[t] # "none"
    BY <1>1, Advanced
  <2> QED
    BY <1>1, <2>1, <2>2, <2>3, <2>4, RollbackSent
<1> QED
  BY <1>2, <1>3

LEMMA AfterWrittenInteractive ==
    ASSUME IInv, NEW t \in Txns, WrittenInteractive(t)
    PROVE  IInv'
<1>1. /\ Answered(t, "op") /\ Advance(t) /\ t \in Interactive /\ Go(t, "body")
      /\ UNCHANGED <<client, pool, conn, db, breaks, lost, unsure, intruded>>
      /\ LocalOk(t) /\ BlockOk(t) /\ OutcomeOk(t)
  BY Types DEF WrittenInteractive
<1>2. CASE Ok(t)
  BY <1>1, <1>2, WriteKept DEF WrittenInteractive
<1>3. CASE ~Ok(t)
  <2>1. /\ nextOp' \in [Txns -> 1 .. Ops + 1] /\ \A u \in Txns \ {t} : nextOp'[u] = nextOp[u]
        /\ UNCHANGED <<savepoints, open>> /\ reply[t] # "none" /\ pc[t] = "op"
    BY <1>1, Advanced
  <2>2. /\ pc' = [pc EXCEPT ![t] = "body"] /\ pc'[t] = "body" /\ UNCHANGED <<reply, queue>>
        /\ pc[t] \in Held /\ "body" \in Held
    BY <1>1, <2>1, Types DEF Go, Held
  <2>3. /\ kept' = kept /\ doomed' \in [Txns -> BOOLEAN] /\ doomed'[t]
        /\ \A u \in Txns \ {t} : doomed'[u] = doomed[u]
    BY <1>3, Types DEF WrittenInteractive
  <2>4. LocalOk(t)'
    BY <1>1, <2>1, <2>2, TransactionsAssumption DEF LocalOk, Early, TransactionsAssumption
  <2>5. BlockOk(t)'
    <3>1. Open(t)' => Open(t)
      BY <1>1, <2>1 DEF Open, Mid
    <3> QED
      BY <1>1, <2>3, <3>1 DEF BlockOk
  <2>6. OutcomeOk(t)'
    BY <1>1, <2>1, <2>2 DEF OutcomeOk, Mid, Committed
  <2>7. MayBeOpen(t) => MayBeOpen(t)'
    BY <1>1, <2>2 DEF MayBeOpen, Open, Mid
  <2> QED
    BY <1>1, <2>1, <2>2, <2>3, <2>4, <2>5, <2>6, <2>7, Types, GoKeeps
<1> QED
  BY <1>2, <1>3

\* COMMIT is sent for a transaction that is not doomed.
LEMMA CommitSent ==
    ASSUME IInv, NEW t \in Txns, pc[t] = "body", ~doomed[t], Send(t, "COMMIT", "commit"),
           UNCHANGED <<client, txn, pool, conn, db, breaks, lost, history>>
    PROVE  IInv'
<1>1. SendNamed(t, "COMMIT", 0, "commit")
  BY DEF Send
<1>2. "commit" \in PCs /\ "commit" \in Held /\ pc[t] \in Held /\ "COMMIT" \in Statements /\ 0 \in 0 .. MaxSavepoints
  BY Distinct DEF PCs, Held, Statements
<1>3. /\ pc'[t] = "commit" /\ reply'[t] # "ok" /\ LocalOk(t) /\ OutcomeOk(t)
      /\ UNCHANGED <<nextOp, doomed, savepoints, open, kept, unsure, intruded>>
  BY <1>1, <1>2, Sent, Types DEF txn, history
<1>4. BlockOk(t)' /\ (MayBeOpen(t) => MayBeOpen(t)')
  BY <1>1, <1>2, BlockSent
<1>5. LocalOk(t)'
  BY <1>3 DEF LocalOk, Early
<1>6. OutcomeOk(t)'
  BY <1>3 DEF OutcomeOk, Undecided, Mid, Early, Committed
<1>7. Asks(t, "COMMIT", 0, "commit")
  BY DEF Asks
<1> QED
  BY <1>1, <1>2, <1>4, <1>5, <1>6, <1>7, JustSent

LEMMA AfterCommitAtomic ==
    ASSUME IInv, NEW t \in Txns, CommitAtomic(t)
    PROVE  IInv'
<1>1. ~doomed[t]
  BY Types DEF CommitAtomic, LocalOk
<1> QED
  BY <1>1, CommitSent DEF CommitAtomic

LEMMA AfterReturn ==
    ASSUME IInv, NEW t \in Txns, Return(t)
    PROVE  IInv'
<1>1. CASE ~doomed[t]
  BY <1>1, CommitSent DEF Return, InBody
<1>2. CASE doomed[t]
  <2>1. /\ SendNamed(t, "ROLLBACK", 0, "rollbackDoomed") /\ pc[t] = "body"
        /\ UNCHANGED <<client, txn, pool, conn, db, breaks, lost, history>> /\ OutcomeOk(t)
    BY <1>2, Types DEF Return, Send, InBody
  <2>2. /\ UNCHANGED <<nextOp, doomed, savepoints, open, kept, unsure, intruded>>
    BY <2>1 DEF txn, history
  <2>3. t \notin intruded => Committed(t) = {}
    BY <2>1 DEF OutcomeOk, Mid
  <2>4. "rollbackDoomed" \in Ending /\ pc[t] \in Held
    BY <2>1 DEF Ending, Held
  <2> QED
    BY <2>1, <2>2, <2>3, <2>4, Types, RollbackSent
<1> QED
  BY <1>1, <1>2

LEMMA AfterThrow ==
    ASSUME IInv, NEW t \in Txns, Throw(t)
    PROVE  IInv'
<1>1. /\ SendNamed(t, "ROLLBACK", 0, "rollback") /\ pc[t] = "body"
      /\ UNCHANGED <<client, txn, pool, conn, db, breaks, lost, history>> /\ OutcomeOk(t)
  BY Types DEF Throw, Send, InBody
<1>2. /\ UNCHANGED <<nextOp, doomed, savepoints, open, kept, unsure, intruded>>
  BY <1>1 DEF txn, history
<1>3. t \notin intruded => Committed(t) = {}
  BY <1>1 DEF OutcomeOk, Mid
<1>4. "rollback" \in Ending /\ pc[t] \in Held
  BY <1>1 DEF Ending, Held
<1> QED
  BY <1>1, <1>2, <1>3, <1>4, Types, RollbackSent

LEMMA AfterRollbackAgain ==
    ASSUME IInv, NEW t \in Txns, RollbackAgain(t)
    PROVE  IInv'
<1>1. /\ SendNamed(t, "ROLLBACK", 0, "rollbackAgain") /\ pc[t] = "again"
      /\ UNCHANGED <<client, txn, pool, conn, db, breaks, lost, history>> /\ OutcomeOk(t)
  BY Types DEF RollbackAgain, Send
<1>2. /\ UNCHANGED <<nextOp, doomed, savepoints, open, kept, unsure, intruded>>
  BY <1>1 DEF txn, history
<1>3. t \notin intruded => Undecided(t)
  BY <1>1 DEF OutcomeOk
<1> QED
  BY <1>1, <1>2, <1>3, Types, RollbackSent

\* The answer to COMMIT or to a ROLLBACK: the client is given back, or a
\* further ROLLBACK is tried.
LEMMA AfterCommittedAtomic ==
    ASSUME IInv, NEW t \in Txns, CommittedAtomic(t)
    PROVE  IInv'
<1>1. /\ pc[t] = "commit" /\ reply[t] # "none" /\ pc[t] \in Held /\ ~doomed[t] /\ reply[t] \in Replies
      /\ UNCHANGED <<txn, conn, db, breaks, lost, history>> /\ OutcomeOk(t)
  BY Types DEF CommittedAtomic, Answered, Held, LocalOk
<1>2. ~MayBeOpen(t)
  BY <1>1 DEF MayBeOpen, Open, Mid, Ending
<1>3. CASE Ok(t)
  <2>1. Release(t, "resolved") /\ UNCHANGED <<reply, queue>>
    BY <1>3 DEF CommittedAtomic
  <2>2. t \notin intruded => Committed(t) = kept[t]
    BY <1>1, <1>3 DEF OutcomeOk, Ok
  <2> QED
    BY <1>1, <1>2, <2>1, <2>2, GivenBack
<1>4. CASE ~Ok(t)
  <2>1. SendNamed(t, "ROLLBACK", 0, "catch") /\ UNCHANGED <<client, pool>>
    BY <1>4 DEF CommittedAtomic, Send
  <2>2. UNCHANGED <<nextOp, doomed, savepoints, open, kept, unsure, intruded>>
    BY <1>1 DEF txn, history
  <2>3. t \notin intruded => Undecided(t)
    BY <1>1, <1>4 DEF OutcomeOk, Ok, Replies
  <2>4. "catch" \in Ending
    BY DEF Ending
  <2> QED
    BY <1>1, <2>1, <2>2, <2>3, <2>4, Types, RollbackSent
<1> QED
  BY <1>3, <1>4

LEMMA AfterRolledBackAtomic ==
    ASSUME IInv, NEW t \in Txns, RolledBackAtomic(t)
    PROVE  IInv'
<1>1. /\ pc[t] = "rollback" /\ reply[t] # "none" /\ pc[t] \in Held
      /\ UNCHANGED <<txn, conn, db, breaks, lost, history>> /\ OutcomeOk(t)
  BY Types DEF RolledBackAtomic, Answered, Held
<1>2. ~MayBeOpen(t)
  BY <1>1 DEF MayBeOpen, Open, Mid, Ending
<1>3. t \notin intruded => Undecided(t)
  BY <1>1 DEF OutcomeOk, Undecided
<1>4. CASE Ok(t)
  BY <1>1, <1>2, <1>3, <1>4, GivenBack DEF RolledBackAtomic
<1>5. CASE ~Ok(t)
  <2>1. SendNamed(t, "ROLLBACK", 0, "catch") /\ UNCHANGED <<client, pool>>
    BY <1>5 DEF RolledBackAtomic, Send
  <2>2. UNCHANGED <<nextOp, doomed, savepoints, open, kept, unsure, intruded>>
    BY <1>1 DEF txn, history
  <2>3. "catch" \in Ending
    BY DEF Ending
  <2> QED
    BY <1>1, <1>3, <2>1, <2>2, <2>3, Types, RollbackSent
<1> QED
  BY <1>4, <1>5

LEMMA AfterCaughtAtomic ==
    ASSUME IInv, NEW t \in Txns, CaughtAtomic(t)
    PROVE  IInv'
<1>1. /\ pc[t] = "catch" /\ reply[t] # "none" /\ pc[t] \in Held
      /\ UNCHANGED <<txn, conn, db, breaks, lost, history>> /\ OutcomeOk(t)
  BY Types DEF CaughtAtomic, Answered, Held
<1>2. ~MayBeOpen(t)
  BY <1>1 DEF MayBeOpen, Open, Mid, Ending
<1>3. t \notin intruded => Undecided(t)
  BY <1>1 DEF OutcomeOk
<1> QED
  BY <1>1, <1>2, <1>3, GivenBack DEF CaughtAtomic

LEMMA AfterCommittedInteractive ==
    ASSUME IInv, NEW t \in Txns, CommittedInteractive(t)
    PROVE  IInv'
<1>1. /\ pc[t] = "commit" /\ reply[t] # "none" /\ pc[t] \in Held /\ ~doomed[t] /\ reply[t] \in Replies
      /\ UNCHANGED <<reply, txn, queue, conn, db, breaks, lost, history>> /\ OutcomeOk(t)
  BY Types DEF CommittedInteractive, Answered, Held, LocalOk
<1>2. ~MayBeOpen(t)
  BY <1>1 DEF MayBeOpen, Open, Mid, Ending
<1>3. CASE Ok(t)
  <2>1. t \notin intruded => Committed(t) = kept[t]
    BY <1>1, <1>3 DEF OutcomeOk, Ok
  <2> QED
    BY <1>1, <1>2, <1>3, <2>1, GivenBack DEF CommittedInteractive
<1>4. CASE ~Ok(t)
  <2>1. t \notin intruded => Undecided(t)
    BY <1>1, <1>4 DEF OutcomeOk, Ok, Replies
  <2> QED
    BY <1>1, <1>2, <1>4, <2>1, GivenBack DEF CommittedInteractive
<1> QED
  BY <1>3, <1>4

LEMMA AfterRolledBackDoomed ==
    ASSUME IInv, NEW t \in Txns, RolledBackDoomed(t)
    PROVE  IInv'
<1>1. /\ pc[t] = "rollbackDoomed" /\ reply[t] # "none" /\ pc[t] \in Held
      /\ UNCHANGED <<reply, txn, queue, conn, db, breaks, lost, history>> /\ OutcomeOk(t)
  BY Types DEF RolledBackDoomed, Answered, Held
<1>2. ~MayBeOpen(t)
  BY <1>1 DEF MayBeOpen, Open, Mid, Ending
<1>3. t \notin intruded => Undecided(t)
  BY <1>1 DEF OutcomeOk, Undecided
<1> QED
  BY <1>1, <1>2, <1>3, GivenBack DEF RolledBackDoomed

LEMMA AfterCaughtInteractive ==
    ASSUME IInv, NEW t \in Txns, CaughtInteractive(t)
    PROVE  IInv'
<1>1. /\ reply[t] # "none" /\ OutcomeOk(t) /\ LocalOk(t)
      /\ UNCHANGED <<reply, txn, queue, conn, db, breaks, lost, history>>
  BY Types DEF CaughtInteractive, Answered
<1>2. CASE pc[t] = "rollback" /\ Release(t, "rejected")
  <2>1. ~MayBeOpen(t) /\ pc[t] \in Held
    BY <1>1, <1>2 DEF MayBeOpen, Open, Mid, Ending, Held
  <2>2. t \notin intruded => Undecided(t)
    BY <1>1, <1>2 DEF OutcomeOk, Undecided
  <2> QED
    BY <1>1, <1>2, <2>1, <2>2, GivenBack
<1>3. CASE pc[t] = "rollbackAgain" /\ pc' = [pc EXCEPT ![t] = "rejected"] /\ UNCHANGED <<client, pool>>
  <2>1. /\ pc' \in [Txns -> PCs] /\ pc'[t] = "rejected" /\ \A u \in Txns \ {t} : pc'[u] = pc[u]
        /\ UNCHANGED <<reply, nextOp, doomed, savepoints, open, kept, unsure, intruded, client, idle, waiters>>
        /\ UNCHANGED <<queue, conn, db, breaks, lost>>
    BY <1>1, <1>3, Types DEF PCs, txn, history, pool
  <2>2. TypeOK'
    BY <2>1 DEF IInv, TypeOK
  <2>3. WaitersOk'
    <3>1. WaitersOk /\ waiters \in Seq(Txns)
      BY DEF IInv, TypeOK
    <3>2. \A i \in 1 .. Len(waiters) : waiters[i] \in Txns \ {t}
      BY <1>3, <3>1, ElementOfSeq DEF WaitersOk
    <3> QED
      BY <2>1, <3>1, <3>2 DEF WaitersOk
  <2>4. ASSUME NEW u \in Txns
        PROVE  HolderOk(u)'
    <3>1. /\ HolderOk(u)
          /\ \A v \in Txns : pc'[v] \in Held <=> pc[v] \in Held
          /\ \A v \in Txns : pc'[v] \in Released => pc[v] \in Released
          /\ \A v \in Txns : pc'[v] \in {"start", "waiting"} => pc[v] \in {"start", "waiting"}
      BY <1>3, <2>1, Types DEF Held, Released
    <3> QED
      BY <2>1, <3>1 DEF HolderOk
  <2>5. LocalOk(t)' /\ BlockOk(t)' /\ OutcomeOk(t)'
    <3>1. LocalOk(t)'
      BY <1>1, <2>1 DEF LocalOk, Early
    <3>2. OutcomeOk(t)'
      BY <1>1, <1>3, <2>1 DEF OutcomeOk, Undecided, Committed, Early, Mid
    <3> QED
      BY <2>1, <3>1, <3>2 DEF BlockOk, Open, Mid
  <2>6. ASSUME NEW u \in Txns \ {t}
        PROVE  LocalOk(u)' /\ BlockOk(u)' /\ OutcomeOk(u)'
    BY <2>1, OthersKept
  <2>7. ASSUME NEW c \in Clients
        PROVE  QueueOk(c)' /\ ConnOk(c)'
    <3>1. \A i \in 1 .. Len(queue[c]) : queue[c][i].by \in Txns \ {t}
      BY <1>1, NothingAsked
    <3>2. QueueOk(c)'
      BY <2>1, <3>1, QueueKept
    <3>3. ConnOk(c) /\ conn[c] \in Blocks
      BY DEF IInv, TypeOK
    <3>4. ASSUME NEW u \in Txns, MayBeOpen(u)
          PROVE  MayBeOpen(u)'
      <4>1. u # t
        BY <1>3, <3>4, OpenIsHeld DEF Held
      <4> QED
        BY <2>1, <3>4, <4>1 DEF MayBeOpen, Open
    <3> QED
      BY <2>1, <3>2, <3>3, <3>4 DEF ConnOk, Blocks
  <2> QED
    BY <2>2, <2>3, <2>4, <2>5, <2>6, <2>7 DEF IInv
<1> QED
  BY <1>2, <1>3 DEF CaughtInteractive, Answered

-----------------------------------------------------------------------------
(* Dooming and savepoints.                                                  *)

LEMMA AfterAbort ==
    ASSUME IInv, NEW t \in Txns, Abort(t)
    PROVE  IInv'
<1>1. /\ pc[t] = "body" /\ t \in Interactive /\ doomed' = [doomed EXCEPT ![t] = TRUE]
      /\ UNCHANGED <<pc, client, reply, nextOp, savepoints, open, pool, queue, conn, db, breaks, lost>>
      /\ UNCHANGED <<kept, unsure, intruded>>
      /\ LocalOk(t) /\ BlockOk(t) /\ OutcomeOk(t)
  BY Types DEF Abort, InBody, history
<1>2. /\ pc' = [pc EXCEPT ![t] = "body"] /\ "body" \in Held
      /\ doomed' \in [Txns -> BOOLEAN] /\ doomed'[t]
      /\ \A u \in Txns \ {t} : doomed'[u] = doomed[u]
  BY <1>1, Types DEF Held
<1>3. LocalOk(t)'
  BY <1>1, TransactionsAssumption DEF LocalOk, Early, TransactionsAssumption
<1>4. BlockOk(t)'
  BY <1>1, <1>2 DEF BlockOk, Open
<1>5. OutcomeOk(t)'
  BY <1>1 DEF OutcomeOk, Mid, Committed
<1>6. MayBeOpen(t) => MayBeOpen(t)'
  BY <1>1 DEF MayBeOpen, Open
<1> QED
  BY <1>1, <1>2, <1>3, <1>4, <1>5, <1>6, Types, GoKeeps

LEMMA AfterSavepoint ==
    ASSUME IInv, NEW t \in Txns, Savepoint(t)
    PROVE  IInv'
<1> DEFINE n == savepoints[t] + 1
<1>1. /\ pc[t] = "body" /\ n <= MaxSavepoints /\ SendNamed(t, "SAVEPOINT", n, "savepoint")
      /\ savepoints' = [savepoints EXCEPT ![t] = n] /\ pc[t] \in Held
      /\ UNCHANGED <<client, nextOp, doomed, open, pool, conn, db, breaks, lost, kept, unsure, intruded>>
      /\ LocalOk(t) /\ BlockOk(t) /\ OutcomeOk(t)
  BY Types DEF Savepoint, InBody, Held, history
<1>2. /\ "savepoint" \in PCs /\ "savepoint" \in Held /\ "SAVEPOINT" \in Statements
      /\ savepoints[t] \in 0 .. MaxSavepoints /\ n \in 0 .. MaxSavepoints
  BY <1>1, Distinct, Types DEF PCs, Held, Statements
<1>3. /\ savepoints' \in [Txns -> 0 .. MaxSavepoints] /\ savepoints'[t] = n
      /\ \A u \in Txns \ {t} : savepoints'[u] = savepoints[u]
  BY <1>1, <1>2, Types
<1>4. pc'[t] = "savepoint" /\ (t \in lost => reply'[t] = "error") /\ (t \notin lost => reply'[t] = "none")
  BY <1>1, <1>2, Sent
<1>5. \A i \in 1 .. Len(open[t]) : open[t][i].name <= savepoints[t] /\ open[t][i].name \in Nat
  <2>1. open[t] \in Seq(Savepoints)
    BY Types
  <2>2. \A i \in 1 .. Len(open[t]) : open[t][i] \in Savepoints
    BY <2>1, ElementOfSeq
  <2> QED
    BY <1>1, <2>2 DEF LocalOk, Savepoints
<1>6. LocalOk(t)'
  <2>1. savepoints[t] < n /\ n \in Nat /\ n >= 1 /\ savepoints[t] \in Nat
    BY <1>2, TransactionsAssumption DEF TransactionsAssumption
  <2>2. \A i \in 1 .. Len(open[t]) : open[t][i].name < n /\ open[t][i].name <= n
    BY <1>5, <2>1
  <2>3. \A i, j \in 1 .. Len(open[t]) : i < j => open[t][i].name > open[t][j].name
    BY <1>1 DEF LocalOk
  <2>4. t \in Atomic => ~doomed[t]
    BY <1>1 DEF LocalOk
  <2>5. /\ doomed'[t] = doomed[t] /\ open'[t] = open[t]
        /\ savepoints'[t] = n /\ pc'[t] = "savepoint"
    BY <1>1, <1>3, <1>4
  <2> HIDE DEF n
  <2> QED
    BY <2>1, <2>2, <2>3, <2>4, <2>5 DEF LocalOk, Early
<1>7. BlockOk(t)'
  <2>1. SUFFICES ASSUME t \notin intruded, t \notin lost
                 PROVE  BlockOk(t)'
    BY <1>1 DEF BlockOk, Open
  <2> PICK c \in Clients : c = client[t]
    BY <1>1, Types DEF HolderOk
  <2> PICK k \in Blocks : k = conn[c]
    BY DEF IInv, TypeOK
  <2>2. k.owner = t /\ (doomed[t] \/ Sound(t, k))
    BY <1>1, <2>1 DEF BlockOk, Open, Mid
  <2>3. ASSUME Sound(t, k)
        PROVE  Sound(t, k)'
    <3>1. ~k.failed /\ k.writes = kept[t] /\ MarksMatch(t, k)
      BY <1>1, <2>3 DEF Sound, WritesMatch
    <3>2. WritesMatch(t, k)'
      BY <1>1, <1>4, <3>1 DEF WritesMatch
    <3>3. \A m \in k.marks : m.name <= savepoints[t] /\ m.name \in Nat
      BY <3>1 DEF MarksMatch, Blocks, Marks
    <3>4. \A m \in k.marks : m.name < n /\ m.name <= n
      BY <1>2, <3>3
    <3>5. MarksMatch(t, k)'
      BY <1>1, <1>3, <1>4, <2>1, <3>1, <3>4 DEF MarksMatch, Mark
    <3> QED
      BY <3>1, <3>2, <3>5 DEF Sound
  <2> QED
    BY <1>1, <2>2, <2>3 DEF BlockOk, Sound, WritesMatch, MarksMatch, Mark, Youngest
<1>8. OutcomeOk(t)'
  BY <1>1, <1>4 DEF OutcomeOk, Mid, Committed
<1>9. MayBeOpen(t) => MayBeOpen(t)'
  BY <1>1, <1>4 DEF MayBeOpen, Open, Mid
<1>10. Asks(t, "SAVEPOINT", n, "savepoint")
  BY <1>3 DEF Asks
<1> HIDE DEF n
<1> QED
  BY <1>1, <1>2, <1>3, <1>6, <1>7, <1>8, <1>9, <1>10, Types, SendKeeps

\* Back in the body, inside the savepoint if the server has set it.
LEMMA AfterSaved ==
    ASSUME IInv, NEW t \in Txns, Saved(t)
    PROVE  IInv'
<1>1. /\ pc[t] = "savepoint" /\ reply[t] # "none" /\ pc' = [pc EXCEPT ![t] = "body"]
      /\ UNCHANGED <<reply, queue, client, nextOp, doomed, savepoints, pool, conn, db, breaks, lost>>
      /\ UNCHANGED <<kept, unsure, intruded>>
      /\ open' = IF Ok(t) THEN [open EXCEPT ![t] = <<[name |-> savepoints[t], kept |-> kept[t]]>> \o @]
                 ELSE open
      /\ LocalOk(t) /\ BlockOk(t) /\ OutcomeOk(t)
  BY Types DEF Saved, Answered, Go, history
<1>2. pc'[t] = "body" /\ pc[t] \in Held /\ "body" \in Held
  BY <1>1, Types DEF Held
<1> PICK s \in 0 .. MaxSavepoints : s = savepoints[t]
  BY Types
<1>3. [name |-> s, kept |-> kept[t]] \in Savepoints
  BY <1>1, Distinct, Types DEF Savepoints, LocalOk
<1> PICK e \in Savepoints : e = [name |-> s, kept |-> kept[t]]
  BY <1>3
<1>4. e.name = s /\ e.kept = kept[t] /\ Mark(e) = [name |-> s, writes |-> kept[t]]
  BY DEF Mark
<1> PICK old \in Seq(Savepoints) : old = open[t]
  BY Types
<1>5. /\ open' \in [Txns -> Seq(Savepoints)] /\ \A u \in Txns \ {t} : open'[u] = open[u]
      /\ open'[t] = IF Ok(t) THEN <<e>> \o old ELSE old
  <2>1. <<e>> \o old \in Seq(Savepoints)
    BY ConcatProperties
  <2> QED
    BY <1>1, <2>1, Types
<1>6. ASSUME Ok(t)
      PROVE  /\ Len(open'[t]) = Len(old) + 1 /\ Len(old) \in Nat /\ open'[t][1] = e
             /\ \A i \in 1 .. Len(open'[t]) : i # 1 => i - 1 \in 1 .. Len(old) /\ open'[t][i] = old[i - 1]
  <2>1. <<e>> \in Seq(Savepoints) /\ Len(<<e>>) = 1 /\ <<e>>[1] = e /\ Len(old) \in Nat
    BY LenProperties
  <2>2. /\ Len(<<e>> \o old) = 1 + Len(old)
        /\ \A i \in 1 .. 1 + Len(old) : (<<e>> \o old)[i] = IF i <= 1 THEN <<e>>[i] ELSE old[i - 1]
    BY <2>1, ConcatProperties
  <2> QED
    BY <1>5, <1>6, <2>1, <2>2
<1>7. \A i \in 1 .. Len(old) : old[i].name < s /\ old[i].name \in Nat
  <2>1. \A i \in 1 .. Len(old) : old[i] \in Savepoints
    BY ElementOfSeq
  <2> QED
    BY <1>1, <2>1 DEF LocalOk, Savepoints
<1>8. LocalOk(t)'
  <2>1. CASE Ok(t)
    <3>1. \A i \in 1 .. Len(open'[t]) : open'[t][i].name <= savepoints'[t]
      <4>1. s <= s /\ s \in Nat
        BY Distinct
      <4>2. \A i \in 1 .. Len(old) : old[i].name <= s
        BY <1>7, <4>1
      <4> QED
        BY <1>1, <1>4, <1>6, <2>1, <4>1, <4>2
    <3>2. ASSUME NEW i \in 1 .. Len(open'[t]), NEW j \in 1 .. Len(open'[t]), i < j
          PROVE  open'[t][i].name > open'[t][j].name
      <4>1. j - 1 \in 1 .. Len(old) /\ open'[t][j] = old[j - 1]
        BY <1>6, <2>1, <3>2
      <4>2. CASE i = 1
        BY <1>4, <1>6, <1>7, <2>1, <4>1, <4>2
      <4>3. CASE i # 1
        <5>1. i - 1 \in 1 .. Len(old) /\ open'[t][i] = old[i - 1] /\ i - 1 < j - 1
          BY <1>6, <2>1, <3>2, <4>3
        <5> QED
          BY <1>1, <4>1, <5>1 DEF LocalOk
      <4> QED
        BY <4>2, <4>3
    <3> QED
      BY <1>1, <1>2, <3>1, <3>2 DEF LocalOk, Early
  <2>2. CASE ~Ok(t)
    BY <1>1, <1>2, <1>5, <2>2 DEF LocalOk, Early
  <2> QED
    BY <2>1, <2>2
<1>9. BlockOk(t)'
  <2>1. Open(t)' => Open(t)
    BY <1>1 DEF Open, Mid
  <2> PICK k : k = conn[client[t]]
    OBVIOUS
  <2>2. ASSUME Sound(t, k)
        PROVE  ~k.failed /\ WritesMatch(t, k)' /\ MarksMatch(t, k)'
    <3>1. ~k.failed /\ k.writes = kept[t] /\ MarksMatch(t, k)
      BY <1>1, <2>2 DEF Sound, WritesMatch
    <3>2. WritesMatch(t, k)'
      BY <1>1, <1>2, <3>1 DEF WritesMatch
    <3>3. /\ \A i \in 1 .. Len(old) : Mark(old[i]) \in k.marks
          /\ Mark(e) \in k.marks
      BY <1>1, <1>4, <3>1 DEF MarksMatch
    <3>4. \A i \in 1 .. Len(open'[t]) : Mark(open'[t][i]) \in k.marks
      BY <1>5, <1>6, <3>3
    <3>5. MarksMatch(t, k)'
      BY <1>1, <1>2, <3>1, <3>4 DEF MarksMatch, Mark
    <3> QED
      BY <3>1, <3>2, <3>5
  <2>3. t \notin intruded /\ Open(t)' => k.owner = t /\ (doomed[t] \/ Sound(t, k))
    BY <1>1, <2>1 DEF BlockOk
  <2> QED
    BY <1>1, <2>2, <2>3 DEF BlockOk, Sound, WritesMatch, MarksMatch, Mark, Youngest
<1>10. OutcomeOk(t)'
  BY <1>1, <1>2 DEF OutcomeOk, Mid, Committed
<1>11. MayBeOpen(t) => MayBeOpen(t)'
  BY <1>1, <1>2 DEF MayBeOpen, Open, Mid
<1> QED
  BY <1>1, <1>2, <1>5, <1>8, <1>9, <1>10, <1>11, Types, GoKeeps

\* A statement about the youngest savepoint is sent from inside it.
LEMMA InsideSent ==
    ASSUME IInv, NEW t \in Txns, open[t] # <<>>,
           pc[t] = "body" \/ (pc[t] = "release" /\ reply[t] = "error"),
           NEW sql, NEW p, (p = "release" /\ sql = "RELEASE") \/ (p = "rollbackTo" /\ sql = "ROLLBACK_TO"),
           SendNamed(t, sql, Youngest(t).name, p),
           UNCHANGED <<client, txn, pool, conn, db, breaks, lost, history>>
    PROVE  IInv'
<1>1. /\ p \in PCs /\ p \in Held /\ pc[t] \in Held /\ sql \in Statements
      /\ p \in {"op", "release", "rollbackTo"}
  BY DEF PCs, Held, Statements
<1>2. /\ LocalOk(t) /\ OutcomeOk(t) /\ pc'[t] = p
      /\ UNCHANGED <<nextOp, doomed, savepoints, open, kept, unsure, intruded>>
  BY <1>1, Sent, Types DEF txn, history
<1>3. Youngest(t).name \in 0 .. MaxSavepoints
  <2>1. Youngest(t) \in Savepoints
    BY YoungestFacts
  <2> QED
    BY <2>1, Distinct DEF Savepoints
<1>4. BlockOk(t)' /\ (MayBeOpen(t) => MayBeOpen(t)')
  BY <1>1, BlockSent
<1>5. LocalOk(t)'
  BY <1>1, <1>2 DEF LocalOk, Early
<1>6. OutcomeOk(t)'
  BY <1>1, <1>2 DEF OutcomeOk, Mid, Committed
<1>7. Asks(t, sql, Youngest(t).name, p)
  BY <1>2 DEF Asks, Youngest
<1> PICK n \in 0 .. MaxSavepoints : n = Youngest(t).name
  BY <1>3
<1> QED
  BY <1>1, <1>2, <1>4, <1>5, <1>6, <1>7, JustSent

LEMMA AfterReleaseSavepoint ==
    ASSUME IInv, NEW t \in Txns, ReleaseSavepoint(t)
    PROVE  IInv'
<1> QED
  BY InsideSent DEF ReleaseSavepoint, Inside, InBody

LEMMA AfterRollbackTo ==
    ASSUME IInv, NEW t \in Txns, RollbackTo(t)
    PROVE  IInv'
<1> QED
  BY InsideSent DEF RollbackTo, Inside, InBody

\* The youngest savepoint is left behind, its rollback undoing what came after.
LEMMA Left ==
    ASSUME IInv, NEW t \in Txns, open[t] # <<>>, Go(t, "body"), Leave(t),
           UNCHANGED <<client, pool, conn, db, breaks, lost, unsure, intruded>>,
           \/ pc[t] = "release" /\ reply[t] = "ok" /\ kept' = kept
           \/ pc[t] = "rollbackTo" /\ reply[t] # "none" /\ kept' = [kept EXCEPT ![t] = Youngest(t).kept]
    PROVE  IInv'
<1>1. /\ pc' = [pc EXCEPT ![t] = "body"] /\ pc'[t] = "body" /\ UNCHANGED <<reply, queue, nextOp, doomed, savepoints>>
      /\ open' = [open EXCEPT ![t] = Tail(open[t])] /\ pc[t] \in Held /\ "body" \in Held
      /\ LocalOk(t) /\ BlockOk(t) /\ OutcomeOk(t) /\ reply[t] # "none"
  BY Types DEF Go, Leave, Held
<1> PICK old \in Seq(Savepoints) : old = open[t] /\ old # <<>>
  BY Types
<1>2. /\ Tail(old) \in Seq(Savepoints) /\ Len(Tail(old)) = Len(old) - 1 /\ Len(old) \in Nat \ {0}
      /\ \A i \in 1 .. Len(Tail(old)) : Tail(old)[i] = old[i + 1]
  BY HeadTailProperties, LenProperties, EmptySeq
<1>3. /\ open' \in [Txns -> Seq(Savepoints)] /\ \A u \in Txns \ {t} : open'[u] = open[u]
      /\ open'[t] = Tail(old)
  BY <1>1, <1>2, Types
<1>4. \A i \in 1 .. Len(open'[t]) : i + 1 \in 1 .. Len(old) /\ open'[t][i] = old[i + 1] /\ i + 1 # 1
  BY <1>2, <1>3
<1>5. /\ kept' \in [Txns -> SUBSET Writes] /\ \A u \in Txns \ {t} : kept'[u] = kept[u]
      /\ pc[t] = "rollbackTo" => kept'[t] = Youngest(t).kept
      /\ pc[t] = "release" => kept'[t] = kept[t]
  <2>1. Youngest(t).kept \in SUBSET Writes
    <3>1. Youngest(t) \in Savepoints
      BY YoungestFacts
    <3> QED
      BY <3>1 DEF Savepoints
  <2> QED
    BY <2>1, Types
<1>6. LocalOk(t)'
  <2>1. \A i \in 1 .. Len(open'[t]) : open'[t][i].name <= savepoints'[t]
    BY <1>1, <1>4 DEF LocalOk
  <2>2. ASSUME NEW i \in 1 .. Len(open'[t]), NEW j \in 1 .. Len(open'[t]), i < j
        PROVE  open'[t][i].name > open'[t][j].name
    <3>1. i + 1 \in 1 .. Len(old) /\ j + 1 \in 1 .. Len(old) /\ i + 1 < j + 1
      BY <1>2, <1>4, <2>2
    <3> QED
      BY <1>1, <1>4, <3>1 DEF LocalOk
  <2> QED
    BY <1>1, <2>1, <2>2 DEF LocalOk, Early
<1>7. BlockOk(t)'
  <2>1. Open(t)' => Open(t)
    BY DEF Open, Mid
  <2> PICK k : k = conn[client[t]]
    OBVIOUS
  <2>2. ASSUME Sound(t, k)
        PROVE  ~k.failed /\ WritesMatch(t, k)' /\ MarksMatch(t, k)'
    <3>1. ~k.failed /\ k.writes = kept'[t] /\ MarksMatch(t, k)
      BY <1>1, <1>5, <2>2 DEF Sound, WritesMatch
    <3>2. WritesMatch(t, k)'
      BY <1>1, <3>1 DEF WritesMatch
    <3>3. \A i \in 1 .. Len(old) : i # 1 => Mark(old[i]) \in k.marks
      BY <3>1 DEF MarksMatch
    <3>4. \A i \in 1 .. Len(open'[t]) : Mark(open'[t][i]) \in k.marks
      BY <1>4, <3>3
    <3>5. MarksMatch(t, k)'
      BY <1>1, <3>1, <3>4 DEF MarksMatch, Mark
    <3> QED
      BY <3>1, <3>2, <3>5
  <2>3. t \notin intruded /\ Open(t)' => k.owner = t /\ (doomed[t] \/ Sound(t, k))
    BY <1>1, <2>1 DEF BlockOk
  <2> QED
    BY <1>1, <2>2, <2>3 DEF BlockOk, Sound, WritesMatch, MarksMatch, Mark, Youngest
<1>8. OutcomeOk(t)'
  BY <1>1 DEF OutcomeOk, Mid, Committed
<1>9. MayBeOpen(t) => MayBeOpen(t)'
  BY <1>1 DEF MayBeOpen, Open, Mid
<1> QED
  BY <1>1, <1>3, <1>5, <1>6, <1>7, <1>8, <1>9, Types, GoKeeps

LEMMA AfterReleasedSavepoint ==
    ASSUME IInv, NEW t \in Txns, ReleasedSavepoint(t)
    PROVE  IInv'
<1>1. /\ pc[t] = "release" /\ reply[t] \in {"ok", "error"} /\ open[t] # <<>>
      /\ UNCHANGED <<client, pool, conn, db, breaks, lost, history>>
  BY Types DEF ReleasedSavepoint, Answered, LocalOk, Replies
<1>2. CASE Ok(t)
  BY <1>1, <1>2, Left DEF ReleasedSavepoint, Ok, history
<1>3. CASE ~Ok(t)
  BY <1>1, <1>3, InsideSent DEF ReleasedSavepoint, Ok
<1> QED
  BY <1>2, <1>3

LEMMA AfterRolledBackTo ==
    ASSUME IInv, NEW t \in Txns, RolledBackTo(t)
    PROVE  IInv'
<1>1. pc[t] = "rollbackTo" /\ reply[t] # "none" /\ open[t] # <<>>
  BY Types DEF RolledBackTo, Answered, LocalOk
<1> QED
  BY <1>1, Left DEF RolledBackTo

-----------------------------------------------------------------------------
LEMMA InitIInv ==
    ASSUME Init
    PROVE  IInv
<1>1. /\ NoBlock \in Blocks /\ <<>> \in Seq(Queries) /\ <<>> \in Seq(Savepoints) /\ <<>> \in Seq(Txns)
      /\ Len(<<>>) = 0 /\ NoBlock.owner = NoTxn /\ NoBlock.writes = {} /\ NoBlock.marks = {}
  BY NoBlockType, EmptySeq, LenProperties
<1>2. TypeOK
  BY <1>1, Distinct DEF Init, TypeOK, PCs, Replies
<1>3. WaitersOk
  BY <1>1 DEF Init, WaitersOk
<1>4. ASSUME NEW t \in Txns
      PROVE  HolderOk(t) /\ LocalOk(t) /\ BlockOk(t) /\ OutcomeOk(t)
  <2>1. HolderOk(t)
    BY DEF Init, HolderOk, Held, Released
  <2>2. LocalOk(t)
    BY <1>1 DEF Init, LocalOk
  <2>3. BlockOk(t) /\ OutcomeOk(t)
    BY DEF Init, BlockOk, Open, Mid, OutcomeOk, Committed
  <2> QED
    BY <2>1, <2>2, <2>3
<1>5. ASSUME NEW c \in Clients
      PROVE  QueueOk(c) /\ ConnOk(c)
  BY <1>1 DEF Init, QueueOk, ConnOk
<1> QED
  BY <1>2, <1>3, <1>4, <1>5 DEF IInv

LEMMA StepKeeps ==
    ASSUME IInv, NEW t \in Txns, Step(t)
    PROVE  IInv'
<1> QED
  BY ConnectKeeps, BeginKeeps, AfterBegun, AfterWrite, AfterWrittenAtomic, AfterCommitAtomic,
     AfterCommittedAtomic, AfterRolledBackAtomic, AfterCaughtAtomic, AfterWrittenInteractive, AfterAbort,
     AfterSavepoint, AfterSaved, AfterReleaseSavepoint, AfterReleasedSavepoint, AfterRollbackTo,
     AfterRolledBackTo, AfterReturn, AfterThrow, AfterCommittedInteractive, AfterRolledBackDoomed,
     AfterRollbackAgain, AfterCaughtInteractive
  DEF Step

LEMMA StutterKeeps ==
    ASSUME IInv, UNCHANGED vars
    PROVE  IInv'
<1>1. /\ UNCHANGED <<pc, client, reply, nextOp, doomed, savepoints, open, idle, waiters, queue, conn, db>>
      /\ UNCHANGED <<breaks, lost, kept, unsure, intruded>>
  BY DEF vars, local, txn, pool, history
<1>2. TypeOK' /\ WaitersOk'
  BY <1>1 DEF IInv, TypeOK, WaitersOk
<1>3. ASSUME NEW t \in Txns
      PROVE  HolderOk(t)' /\ LocalOk(t)' /\ BlockOk(t)' /\ OutcomeOk(t)'
  <2>1. HolderOk(t) /\ LocalOk(t) /\ BlockOk(t) /\ OutcomeOk(t)
    BY DEF IInv
  <2>2. HolderOk(t)'
    BY <1>1, <2>1 DEF HolderOk
  <2>3. LocalOk(t)'
    BY <1>1, <2>1 DEF LocalOk
  <2>4. BlockOk(t)'
    BY <1>1, <2>1 DEF BlockOk, Open, Sound, WritesMatch, MarksMatch, Mark, Youngest
  <2>5. OutcomeOk(t)'
    BY <1>1, <2>1 DEF OutcomeOk, Undecided, Committed
  <2> QED
    BY <2>2, <2>3, <2>4, <2>5
<1>4. ASSUME NEW c \in Clients
      PROVE  QueueOk(c)' /\ ConnOk(c)'
  <2>1. QueueOk(c) /\ ConnOk(c)
    BY DEF IInv
  <2>2. QueueOk(c)'
    BY <1>1, QueueKept
  <2>3. ConnOk(c)'
    BY <1>1, <2>1 DEF ConnOk, MayBeOpen, Open
  <2> QED
    BY <2>2, <2>3
<1> QED
  BY <1>2, <1>3, <1>4 DEF IInv

\* The inductive invariant holds in every reachable state, whatever the numbers
\* of transactions, connections, operations, savepoints and lost connections.
THEOREM Invariance == Spec => []IInv
<1>1. Init => IInv
  BY InitIInv
<1>2. IInv /\ [Next]_vars => IInv'
  <2>1. ASSUME IInv, Next
        PROVE  IInv'
    BY <2>1, StepKeeps, RunKeeps, BreakKeeps, StutterKeeps DEF Next
  <2> QED
    BY <2>1, StutterKeeps
<1> QED
  BY <1>1, <1>2, PTL DEF Spec

\* Every variable keeps its type: client.query is never called without a client
\* that was checked out, and the atomic loop stops after its last operation.
THEOREM TypeCorrect == Spec => []TypeOK
<1>1. IInv => TypeOK
  BY DEF IInv
<1> QED
  BY <1>1, Invariance, PTL

\* pool.connect() and client.release(): a client has one holder, and none that
\* the pool hands out is still in a block.
THEOREM Exclusive == Spec => []ClientsAreExclusive
<1>1. IInv => ClientsAreExclusive
  <2> SUFFICES ASSUME IInv
               PROVE  ClientsAreExclusive
    OBVIOUS
  <2>1. \A t \in Txns : HolderOk(t)
    BY Types
  <2>2. ASSUME NEW c \in idle
        PROVE  conn[c] = NoBlock
    <3>1. c \in Clients /\ ConnOk(c) /\ conn[c] \in Blocks
      BY <2>2 DEF IInv, TypeOK
    <3>2. CASE conn[c].owner # NoTxn
      <4> PICK u \in Txns : u = conn[c].owner
        BY <3>1, <3>2 DEF Blocks
      <4>1. client[u] = c /\ MayBeOpen(u)
        BY <3>1, <3>2 DEF ConnOk
      <4> QED
        BY <2>1, <2>2, <4>1, OpenIsHeld DEF HolderOk
    <3> QED
      BY <3>1, <3>2 DEF ConnOk
  <2> QED
    BY <2>1, <2>2 DEF ClientsAreExclusive, HolderOk
<1> QED
  BY <1>1, Invariance, PTL

\* executeAtomic and finishInteractiveSession: all the writes a transaction was
\* told of are committed or none, all once it resolves, none once it rejects.
THEOREM Atomicity == Spec => []AllOrNothing
<1>1. IInv => AllOrNothing
  <2> SUFFICES ASSUME IInv, NEW t \in Txns \ intruded
               PROVE  /\ Committed(t) \in {{}, kept[t]}
                      /\ pc[t] = "resolved" => Committed(t) = kept[t]
                      /\ pc[t] = "rejected" /\ t \notin unsure => Committed(t) = {}
    BY DEF AllOrNothing
  <2>1. OutcomeOk(t) /\ pc[t] \in PCs /\ reply[t] \in Replies
    BY Types
  <2> QED
    BY <2>1 DEF OutcomeOk, Undecided, PCs, Held, Released, Replies, Early, Mid
<1> QED
  BY <1>1, Invariance, PTL

\* finishInteractiveSession: a session that is doomed is rolled back, so none of
\* its writes is ever committed.
THEOREM Doomed == Spec => []DoomedNeverCommits
<1>1. IInv => DoomedNeverCommits
  <2> SUFFICES ASSUME IInv, NEW t \in Txns \ intruded, doomed[t]
               PROVE  Committed(t) = {}
    BY DEF DoomedNeverCommits
  <2>1. OutcomeOk(t) /\ LocalOk(t) /\ pc[t] \in PCs
    BY Types
  <2> QED
    BY <2>1 DEF OutcomeOk, LocalOk, Undecided, PCs, Held, Released, Early, Mid
<1> QED
  BY <1>1, Invariance, PTL

=============================================================================
