-------------------------- MODULE MigrationsProofs --------------------------
(* Theorems about Migrations, for every number of runs, migration files,   *)
(* contents and Auth migrations, and every choice of modes and files.      *)
EXTENDS Migrations, TLAPS

(***************************************************************************)
(* Why the plan of a connected run stays true: from Lock to Close it holds *)
(* the session lock, unless it is no longer connected.  Another run that   *)
(* commits a file is connected too, so it is the same run.                 *)
(***************************************************************************)
Holding == PCs \ {"lock", "crashed", "resolved", "rejected"}
LockInv == \A r \in linked : pc[r] \in Holding => lock = r

\* What a run has in its open transaction at each step: the file it is at, the
\* first of those it has yet to apply.
TxOk(r) ==
    /\ tx[r].version = NoVersion => tx[r] = NoTx
    /\ pc[r] = "sql" => ~tx[r].ran /\ ~tx[r].row
    /\ pc[r] = "row" => tx[r].ran /\ ~tx[r].row
    /\ pc[r] \in {"commit", "committed"} => tx[r].ran /\ tx[r].row
    /\ tx[r].version # NoVersion =>
        /\ tx[r].version \in plan[r].pending
        /\ \A u \in plan[r].pending : tx[r].version <= u
    /\ \A v \in plan[r].pending : Local(r)[v] # NoFile

TxInv == \A r \in Runners : TxOk(r)

\* The ledger, its history and the effects of the files agree.
TrueInv ==
    /\ LedgerIsTruth
    /\ \A v \in Versions : author[v] = NoRunner <=> ledger[v] = NoFile

\* The plan of a connected run is what the ledger leaves to do; between COMMIT
\* and its answer the file is in the ledger and still in the plan.
PlanOk(r) ==
    /\ pc[r] = "plan" => plan[r].pending = Pending(r) /\ plan[r].conflict = Conflict(r)
    /\ pc[r] \in Applying => plan[r].pending = Pending(r) /\ ~Conflict(r)
    /\ pc[r] = "committed" => plan[r].pending \ {tx[r].version} = Pending(r) /\ ~Conflict(r)

PlanInv == \A r \in linked : PlanOk(r)

\* What a run does not have pending it has in the ledger, connected or not.
DoneOk(r) ==
    /\ \/ pc[r] \in Applying
       \/ pc[r] = "plan" /\ ~plan[r].conflict
       => \A v \in Versions :
              Local(r)[v] # NoFile => v \in plan[r].pending \/ ledger[v] = Local(r)[v]
    /\ pc[r] = "committed" =>
           \A v \in Versions : Local(r)[v] # NoFile =>
               v \in plan[r].pending \ {tx[r].version} \/ ledger[v] = Local(r)[v]
    /\ Mode(r) = "apply" /\ pc[r] \in {"auth", "authBegin", "authCommit", "closing resolved", "resolved"}
       => \A v \in Versions : Local(r)[v] # NoFile => ledger[v] = Local(r)[v]

DoneInv == \A r \in Runners : DoneOk(r)

\* The transaction that holds the Auth lock has what was missing when it began,
\* and nobody added to the ledger since.  Inspections never come that far.
AuthOk(r) ==
    /\ pc[r] \in Applying \cup {"committed"} => Mode(r) = "apply"
    /\ pc[r] \in {"auth", "authBegin", "authCommit"} => Mode(r) # "inspect"
    /\ Mode(r) = "apply" =>
        /\ pc[r] = "authCommit" =>
            /\ authLedger \subseteq Expected(r)
            /\ authTx[r] = Expected(r) \ authLedger
        /\ pc[r] \in {"closing resolved", "resolved"} => Expected(r) \subseteq authLedger

AuthInv == \A r \in Runners : AuthOk(r)

IInv == TypeOK /\ LockInv /\ TxInv /\ TrueInv /\ PlanInv /\ DoneInv /\ AuthInv /\ AppliedInOrder

USE MigrationsAssumption DEF MigrationsAssumption

\* The parts of a run's setup.
LEMMA SetupType ==
    ASSUME TypeOK, NEW r \in Runners
    PROVE  /\ Mode(r) \in Modes /\ Local(r) \in Files
           /\ \A v \in Versions : Local(r)[v] \in Sums \cup {NoFile}
           /\ Expected(r) \subseteq AuthVersions
  BY DEF TypeOK, Mode, Local, Expected, Files

\* Updates of a plan and of a transaction keep their types.
LEMMA PlanType ==
    ASSUME NEW q \in Plans, NEW p \in SUBSET Versions, NEW c \in BOOLEAN,
           NEW d \in SUBSET AuthVersions
    PROVE  /\ [q EXCEPT !.pending = p] \in Plans
           /\ [q EXCEPT !.pending = p, !.conflict = c] \in Plans
           /\ [q EXCEPT !.drift = d] \in Plans
           /\ q.pending \subseteq Versions /\ q.drift \subseteq AuthVersions
           /\ q.conflict \in BOOLEAN
           /\ NoPlan \in Plans
  BY DEF Plans, NoPlan

LEMMA TxType ==
    ASSUME NEW q \in Transactions, NEW v \in Versions
    PROVE  /\ [q EXCEPT !.version = v] \in Transactions
           /\ [q EXCEPT !.version = v].version = v
  BY DEF Transactions

LEMMA TxFields ==
    ASSUME NEW q \in Transactions
    PROVE  /\ q.version \in Versions \cup {NoVersion}
           /\ q.ran \in BOOLEAN /\ q.row \in BOOLEAN
           /\ [q EXCEPT !.ran = TRUE] \in Transactions
           /\ [q EXCEPT !.row = TRUE] \in Transactions
           /\ [q EXCEPT !.ran = TRUE].version = q.version
           /\ [q EXCEPT !.row = TRUE].version = q.version
  BY DEF Transactions

\* Counting one more effect keeps the type of the counters.
LEMMA CountType ==
    ASSUME NEW f \in [Sums -> Nat], NEW s
    PROVE  [f EXCEPT ![s] = @ + 1] \in [Sums -> Nat]
<1>1. CASE s \in Sums
  <2>1. f[s] + 1 \in Nat
    BY <1>1
  <2> QED
    BY <2>1
<1>2. CASE s \notin Sums
  BY <1>2
<1> QED
  BY <1>1, <1>2

LEMMA NoTxType == NoTx \in Transactions /\ NoTx.version = NoVersion /\ ~NoTx.ran /\ ~NoTx.row
  BY DEF Transactions, NoTx

\* The initial states are correctly typed.
LEMMA InitType == Init => TypeOK
<1> SUFFICES ASSUME Init PROVE TypeOK
  OBVIOUS
<1>1. plan \in [Runners -> Plans] /\ tx \in [Runners -> Transactions]
  BY NoTxType DEF Init, Plans, NoPlan
<1>2. ledger \in Files /\ ran \in [Versions -> [Sums -> Nat]]
  BY DEF Init, Files
<1>3. \A r \in Runners : pc[r] = "lock" /\ tx[r].version = NoVersion /\ authLock # r
  BY NoTxType DEF Init
<1> QED
  BY <1>1, <1>2, <1>3 DEF Init, TypeOK, PCs

\* A rollback forgets the transaction of its run.
LEMMA FailType ==
    ASSUME TypeOK, NEW r \in Runners, Fail(r),
           UNCHANGED <<setup, plan, linked, lock, app, auth>>,
           pc[r] \in {"sql", "row", "commit", "committed"}
    PROVE  TypeOK'
<1>1. tx' \in [Runners -> Transactions]
  BY NoTxType DEF TypeOK, Fail
<1>2. told' \in [Runners -> Versions \cup {NoVersion}]
  BY DEF TypeOK, Fail, Transactions
<1>3. \A q \in Runners :
        /\ tx'[q].version # NoVersion <=> pc'[q] \in {"sql", "row", "commit", "committed"}
        /\ authLock = q <=> pc'[q] = "authCommit"
  BY NoTxType DEF TypeOK, Fail, Reject, Go
<1> QED
  BY <1>1, <1>2, <1>3 DEF TypeOK, Fail, Reject, Go, PCs, app, auth

\* So is every step.
LEMMA TypeStep == TypeOK /\ [Next]_vars => TypeOK'
<1> SUFFICES ASSUME TypeOK, [Next]_vars PROVE TypeOK'
  OBVIOUS
<1> USE DEF TypeOK, PCs, Go, Reject, app, auth
<1>1. ASSUME NEW r \in Runners, Lock(r) PROVE TypeOK'
  BY <1>1 DEF Lock
<1>2. ASSUME NEW r \in Runners, EnsureLedger(r) PROVE TypeOK'
  BY <1>2 DEF EnsureLedger
<1>3. ASSUME NEW r \in Runners, List(r) PROVE TypeOK'
  <2>1. Pending(r) \in SUBSET Versions /\ Conflict(r) \in BOOLEAN /\ {} \in SUBSET AuthVersions
    BY DEF Pending, Conflict
  <2>2. plan' \in [Runners -> Plans]
    BY <1>3, <2>1, PlanType DEF List
  <2> QED
    BY <1>3, <2>2 DEF List
<1>4. ASSUME NEW r \in Runners, LoadAuthPlan(r) PROVE TypeOK'
  <2>1. PICK d \in PlannedDrift(r) : plan' = [plan EXCEPT ![r].drift = d] /\ Go(r, AfterPlan(r, d))
    BY <1>4 DEF LoadAuthPlan
  <2>2. d \in SUBSET AuthVersions
    BY DEF PlannedDrift, Drift
  <2>3. plan' \in [Runners -> Plans]
    BY <2>1, <2>2, PlanType
  <2>4. AfterPlan(r, d) \in {"closing resolved", "closing rejected", "auth", "apply"}
    BY DEF AfterPlan
  <2> QED
    BY <1>4, <2>1, <2>3, <2>4 DEF LoadAuthPlan
<1>5. ASSUME NEW r \in Runners, Begin(r) PROVE TypeOK'
  <2>1. CASE Go(r, "sql")
    <3>1. PICK v \in plan[r].pending : tx' = [tx EXCEPT ![r].version = v]
      BY <1>5, <2>1 DEF Begin
    <3>2. v \in Versions
      BY <3>1 DEF Plans
    <3>3. tx' \in [Runners -> Transactions] /\ tx'[r].version = v
      BY <3>1, <3>2, TxType
    <3> QED
      BY <1>5, <2>1, <3>1, <3>2, <3>3 DEF Begin
  <2>2. CASE Reject(r) /\ UNCHANGED tx
    BY <1>5, <2>2 DEF Begin
  <2> QED
    BY <1>5, <2>1, <2>2 DEF Begin
<1>6. ASSUME NEW r \in Runners, RunSql(r) PROVE TypeOK'
  <2>1. CASE Fail(r)
    BY <1>6, <2>1, FailType DEF RunSql
  <2>2. CASE Go(r, "row") /\ tx' = [tx EXCEPT ![r].ran = TRUE] /\ UNCHANGED told
    <3>1. tx' \in [Runners -> Transactions] /\ tx'[r].version = tx[r].version
      BY <2>2, TxFields
    <3> QED
      BY <1>6, <2>2, <3>1 DEF RunSql
  <2> QED
    BY <1>6, <2>1, <2>2 DEF RunSql
<1>7. ASSUME NEW r \in Runners, InsertRow(r) PROVE TypeOK'
  <2>1. CASE Fail(r)
    BY <1>7, <2>1, FailType DEF InsertRow
  <2>2. CASE Go(r, "commit") /\ tx' = [tx EXCEPT ![r].row = TRUE] /\ UNCHANGED told
    <3>1. tx' \in [Runners -> Transactions] /\ tx'[r].version = tx[r].version
      BY <2>2, TxFields
    <3> QED
      BY <1>7, <2>2, <3>1 DEF InsertRow
  <2> QED
    BY <1>7, <2>1, <2>2 DEF InsertRow
<1>8. ASSUME NEW r \in Runners, Commit(r) PROVE TypeOK'
  <2> DEFINE v == tx[r].version
             s == Local(r)[v]
  <2>1. CASE Fail(r) /\ UNCHANGED <<ledger, author, ran>>
    BY <1>8, <2>1, FailType DEF Commit
  <2>2. CASE /\ ledger' = IF tx[r].row THEN [ledger EXCEPT ![v] = s] ELSE ledger
             /\ author' = IF tx[r].row THEN [author EXCEPT ![v] = r] ELSE author
             /\ ran' = IF tx[r].ran THEN [ran EXCEPT ![v][s] = @ + 1] ELSE ran
             /\ Go(r, "committed") /\ UNCHANGED <<tx, told>>
    <3>1. v \in Versions /\ pc[r] = "commit"
      BY <1>8, TxFields DEF Commit
    <3>2. s \in Sums \cup {NoFile}
      BY <3>1, SetupType
    <3> HIDE DEF v, s
    <3>3. ledger' \in Files
      BY <2>2, <3>1, <3>2 DEF Files
    <3>4. author' \in [Versions -> Runners \cup {NoRunner}]
      BY <2>2, <3>1
    <3>5. ran' \in [Versions -> [Sums -> Nat]]
      <4>1. [ran[v] EXCEPT ![s] = @ + 1] \in [Sums -> Nat]
        BY <3>1, CountType
      <4>2. [ran EXCEPT ![v] = [ran[v] EXCEPT ![s] = @ + 1]] \in [Versions -> [Sums -> Nat]]
        BY <4>1
      <4> QED
        BY <2>2, <4>2
    <3>6. UNCHANGED <<setup, plan, linked, lock, table, auth>>
      BY <1>8 DEF Commit
    <3> QED
      BY <2>2, <3>1, <3>3, <3>4, <3>5, <3>6
  <2> QED
    BY <1>8, <2>1, <2>2 DEF Commit
<1>9. ASSUME NEW r \in Runners, Committed(r) PROVE TypeOK'
  <2>1. plan[r].pending \ {tx[r].version} \in SUBSET Versions
    BY DEF Plans
  <2>2. plan' \in [Runners -> Plans]
    BY <1>9, <2>1, PlanType DEF Committed
  <2>3. tx' \in [Runners -> Transactions] /\ tx'[r].version = NoVersion
    BY <1>9, NoTxType DEF Committed
  <2> QED
    BY <1>9, <2>2, <2>3 DEF Committed
<1>10. ASSUME NEW r \in Runners, Unlinked(r) PROVE TypeOK'
  <2>1. CASE pc[r] \in {"sql", "row", "commit", "committed"} /\ Fail(r)
    BY <1>10, <2>1, FailType DEF Unlinked
  <2>2. CASE Reject(r) /\ UNCHANGED <<tx, told>> /\ pc[r] \in {"lock", "ledger", "list", "apply"}
    BY <1>10, <2>2 DEF Unlinked
  <2> QED
    BY <1>10, <2>1, <2>2 DEF Unlinked
<1>11. ASSUME NEW r \in Runners, Applied(r) PROVE TypeOK'
  BY <1>11 DEF Applied
<1>12. ASSUME NEW r \in Runners, PlanAuth(r) PROVE TypeOK'
  <2>1. PICK d \in PlannedDrift(r) :
          /\ plan' = [plan EXCEPT ![r].drift = d]
          /\ IF Mode(r) = "apply" /\ d # {} THEN Reject(r) ELSE Go(r, "authBegin")
    BY <1>12 DEF PlanAuth
  <2>2. d \in SUBSET AuthVersions
    BY DEF PlannedDrift, Drift
  <2>3. plan' \in [Runners -> Plans]
    BY <2>1, <2>2, PlanType
  <2>4. /\ pc[r] = "auth"
        /\ Go(r, "closing rejected") \/ Go(r, "authBegin")
        /\ UNCHANGED <<setup, linked, lock, tx, app, told, auth>>
    BY <1>12, <2>1 DEF PlanAuth
  <2> QED
    BY <2>3, <2>4
<1>13. ASSUME NEW r \in Runners, BeginAuth(r) PROVE TypeOK'
  <2>1. AuthStatements(r) \in SUBSET AuthVersions
    BY SetupType DEF AuthStatements, Plans
  <2>2. /\ pc[r] = "authBegin" /\ authLock = NoRunner
        /\ UNCHANGED <<setup, plan, linked, lock, tx, app, told, authLedger, objects>>
    BY <1>13 DEF BeginAuth
  <2>3. CASE Reject(r) /\ UNCHANGED <<authLock, authTx>>
    BY <2>2, <2>3
  <2>4. CASE /\ authLock' = r /\ Go(r, "authCommit")
             /\ authTx' = [authTx EXCEPT ![r] = AuthStatements(r)]
    BY <2>1, <2>2, <2>4
  <2> QED
    BY <1>13, <2>3, <2>4 DEF BeginAuth
<1>14. ASSUME NEW r \in Runners, EndAuth(r) PROVE TypeOK'
  BY <1>14 DEF EndAuth
<1>15. ASSUME NEW r \in Runners, Close(r) PROVE TypeOK'
  BY <1>15 DEF Close, Ends
<1>16. ASSUME NEW r \in Runners, Lose(r) PROVE TypeOK'
  BY <1>16 DEF Lose, Hangup
<1>17. ASSUME NEW r \in Runners, Crash(r) PROVE TypeOK'
  <2>1. tx' \in [Runners -> Transactions] /\ tx'[r].version = NoVersion
    BY <1>17, NoTxType DEF Crash
  <2> QED
    BY <1>17, <2>1 DEF Crash, Hangup
<1>18. ASSUME NEW a \in AuthVersions, Drop(a) PROVE TypeOK'
  BY <1>18 DEF Drop
<1>19. ASSUME UNCHANGED vars PROVE TypeOK'
  BY <1>19 DEF vars
<1> QED
  BY <1>1, <1>2, <1>3, <1>4, <1>5, <1>6, <1>7, <1>8, <1>9, <1>10, <1>11, <1>12, <1>13, <1>14,
     <1>15, <1>16, <1>17, <1>18, <1>19 DEF Next, Step

\* TypeOK: the variables keep their types, a run has an open transaction just
\* between BEGIN and its answer, and the Auth lock just while it migrates it.
THEOREM TypeCorrect == Spec => []TypeOK
<1>1. Init => TypeOK
  BY InitType
<1>2. TypeOK /\ [Next]_vars => TypeOK'
  BY TypeStep
<1> QED
  BY <1>1, <1>2, PTL DEF Spec

\* The lock stays with its run until it closes, hangs up or crashes.
LEMMA LockStep == TypeOK /\ LockInv /\ [Next]_vars => LockInv'
<1> SUFFICES ASSUME TypeOK, LockInv, [Next]_vars PROVE LockInv'
  OBVIOUS
<1> USE DEF TypeOK, LockInv, Holding, PCs, Ends, app, auth, Go, Reject
<1>1. ASSUME NEW r \in Runners, Lock(r) PROVE LockInv'
  BY <1>1 DEF Lock
<1>2. ASSUME NEW r \in Runners, EnsureLedger(r) PROVE LockInv'
  BY <1>2 DEF EnsureLedger
<1>3. ASSUME NEW r \in Runners, List(r) PROVE LockInv'
  BY <1>3 DEF List
<1>4. ASSUME NEW r \in Runners, LoadAuthPlan(r) PROVE LockInv'
  BY <1>4 DEF LoadAuthPlan, AfterPlan
<1>5. ASSUME NEW r \in Runners, Begin(r) PROVE LockInv'
  BY <1>5 DEF Begin
<1>6. ASSUME NEW r \in Runners, RunSql(r) PROVE LockInv'
  BY <1>6 DEF RunSql, Fail
<1>7. ASSUME NEW r \in Runners, InsertRow(r) PROVE LockInv'
  BY <1>7 DEF InsertRow, Fail
<1>8. ASSUME NEW r \in Runners, Commit(r) PROVE LockInv'
  BY <1>8 DEF Commit, Fail
<1>9. ASSUME NEW r \in Runners, Committed(r) PROVE LockInv'
  BY <1>9 DEF Committed
<1>10. ASSUME NEW r \in Runners, Unlinked(r) PROVE LockInv'
  BY <1>10 DEF Unlinked, Fail
<1>11. ASSUME NEW r \in Runners, Applied(r) PROVE LockInv'
  BY <1>11 DEF Applied
<1>12. ASSUME NEW r \in Runners, PlanAuth(r) PROVE LockInv'
  BY <1>12 DEF PlanAuth
<1>13. ASSUME NEW r \in Runners, BeginAuth(r) PROVE LockInv'
  BY <1>13 DEF BeginAuth
<1>14. ASSUME NEW r \in Runners, EndAuth(r) PROVE LockInv'
  BY <1>14 DEF EndAuth
<1>15. ASSUME NEW r \in Runners, Close(r) PROVE LockInv'
  BY <1>15 DEF Close
<1>16. ASSUME NEW r \in Runners, Lose(r) PROVE LockInv'
  BY <1>16 DEF Lose, Hangup
<1>17. ASSUME NEW r \in Runners, Crash(r) PROVE LockInv'
  BY <1>17 DEF Crash, Hangup
<1>18. ASSUME NEW a \in AuthVersions, Drop(a) PROVE LockInv'
  BY <1>18 DEF Drop
<1>19. ASSUME UNCHANGED vars PROVE LockInv'
  BY <1>19 DEF vars
<1> QED
  BY <1>1, <1>2, <1>3, <1>4, <1>5, <1>6, <1>7, <1>8, <1>9, <1>10, <1>11, <1>12, <1>13, <1>14,
     <1>15, <1>16, <1>17, <1>18, <1>19 DEF Next, Step

\* What the updates of a plan change, and what they leave.
LEMMA PlanFields ==
    ASSUME NEW f \in [Runners -> Plans], NEW r \in Runners, NEW p, NEW c
    PROVE  /\ [f EXCEPT ![r].pending = p][r].pending = p
           /\ [f EXCEPT ![r].pending = p][r].conflict = f[r].conflict
           /\ [f EXCEPT ![r].pending = p, ![r].conflict = c][r].pending = p
           /\ [f EXCEPT ![r].pending = p, ![r].conflict = c][r].conflict = c
           /\ \A q \in Runners :
               /\ [f EXCEPT ![r].drift = p][q].pending = f[q].pending
               /\ [f EXCEPT ![r].drift = p][q].conflict = f[q].conflict
               /\ q # r => /\ [f EXCEPT ![r].pending = p][q] = f[q]
                           /\ [f EXCEPT ![r].pending = p, ![r].conflict = c][q] = f[q]
  BY DEF Plans

\* What the updates of a transaction change, and what they leave.
LEMMA TxSets ==
    ASSUME NEW f \in [Runners -> Transactions], NEW r \in Runners, NEW v
    PROVE  /\ [f EXCEPT ![r].version = v][r].version = v
           /\ [f EXCEPT ![r].version = v][r].ran = f[r].ran
           /\ [f EXCEPT ![r].version = v][r].row = f[r].row
           /\ [f EXCEPT ![r].ran = TRUE][r].version = f[r].version
           /\ [f EXCEPT ![r].ran = TRUE][r].ran
           /\ [f EXCEPT ![r].ran = TRUE][r].row = f[r].row
           /\ [f EXCEPT ![r].row = TRUE][r].version = f[r].version
           /\ [f EXCEPT ![r].row = TRUE][r].ran = f[r].ran
           /\ [f EXCEPT ![r].row = TRUE][r].row
  BY DEF Transactions

\* A step of one run leaves the transactions of the others alone.
LEMMA TxFrame ==
    ASSUME TxInv, NEW r \in Runners, setup' = setup,
           \A q \in Runners \ {r} :
               pc'[q] = pc[q] /\ tx'[q] = tx[q] /\ plan'[q].pending = plan[q].pending,
           TxOk(r)'
    PROVE  TxInv'
  BY DEF TxInv, TxOk, Local

\* A run that is in no transaction, with pending files of its own.
LEMMA TxIdle ==
    ASSUME TxInv, NEW r \in Runners, setup' = setup,
           \A q \in Runners \ {r} :
               pc'[q] = pc[q] /\ tx'[q] = tx[q] /\ plan'[q].pending = plan[q].pending,
           tx'[r] = NoTx, pc'[r] \notin {"sql", "row", "commit", "committed"},
           \A v \in plan'[r].pending : Local(r)[v] # NoFile
    PROVE  TxInv'
<1>1. TxOk(r)'
  BY NoTxType DEF TxOk, Local
<1> QED
  BY <1>1, TxFrame

\* A run is in a transaction for the first of its pending files, and forgets it
\* with the transaction.
LEMMA TxStep == TypeOK /\ TxInv /\ [Next]_vars => TxInv'
<1> SUFFICES ASSUME TypeOK, TxInv, [Next]_vars PROVE TxInv'
  OBVIOUS
<1> USE DEF TypeOK, Local, app, auth, Go, Reject
<1>1. ASSUME NEW r \in Runners, Lock(r) PROVE TxInv'
  <2>1. tx[r] = NoTx /\ \A v \in plan[r].pending : Local(r)[v] # NoFile
    BY <1>1 DEF Lock, TxInv, TxOk
  <2> QED
    BY <1>1, <2>1, TxIdle DEF Lock
<1>2. ASSUME NEW r \in Runners, EnsureLedger(r) PROVE TxInv'
  <2>1. tx[r] = NoTx /\ \A v \in plan[r].pending : Local(r)[v] # NoFile
    BY <1>2 DEF EnsureLedger, TxInv, TxOk
  <2> QED
    BY <1>2, <2>1, TxIdle DEF EnsureLedger
<1>3. ASSUME NEW r \in Runners, List(r) PROVE TxInv'
  <2>1. plan'[r].pending = Pending(r) /\ \A q \in Runners \ {r} : plan'[q] = plan[q]
    BY <1>3, PlanFields DEF List
  <2>2. tx'[r] = NoTx
    BY <1>3 DEF List, TxInv, TxOk
  <2>3. \A v \in plan'[r].pending : Local(r)[v] # NoFile
    BY <2>1 DEF Pending
  <2>4. UNCHANGED <<setup, tx>> /\ pc'[r] = "plan" /\ \A q \in Runners \ {r} : pc'[q] = pc[q]
    BY <1>3 DEF List
  <2> QED
    BY <2>1, <2>2, <2>3, <2>4, TxIdle
<1>4. ASSUME NEW r \in Runners, LoadAuthPlan(r) PROVE TxInv'
  <2>1. PICK d \in PlannedDrift(r) : plan' = [plan EXCEPT ![r].drift = d] /\ Go(r, AfterPlan(r, d))
    BY <1>4 DEF LoadAuthPlan
  <2>3. \A q \in Runners : plan'[q].pending = plan[q].pending
    BY <2>1, PlanFields
  <2>4. tx[r] = NoTx /\ \A v \in plan[r].pending : Local(r)[v] # NoFile
    BY <1>4 DEF LoadAuthPlan, TxInv, TxOk
  <2>5. pc'[r] \notin {"sql", "row", "commit", "committed"}
    BY <2>1 DEF AfterPlan
  <2> QED
    BY <1>4, <2>1, <2>3, <2>4, <2>5, TxIdle DEF LoadAuthPlan
<1>5. ASSUME NEW r \in Runners, Begin(r) PROVE TxInv'
  <2>1. tx[r] = NoTx /\ \A v \in plan[r].pending : Local(r)[v] # NoFile
    BY <1>5 DEF Begin, TxInv, TxOk
  <2>2. CASE Reject(r) /\ UNCHANGED tx
    BY <1>5, <2>1, <2>2, TxIdle DEF Begin
  <2>3. CASE \E v \in plan[r].pending :
               /\ \A u \in plan[r].pending : v <= u
               /\ Go(r, "sql") /\ tx' = [tx EXCEPT ![r].version = v]
    <3>1. PICK v \in plan[r].pending :
               /\ \A u \in plan[r].pending : v <= u
               /\ Go(r, "sql") /\ tx' = [tx EXCEPT ![r].version = v]
      BY <2>3
    <3>2. v \in Versions
      BY DEF Plans
    <3>3. tx'[r].version = v /\ ~tx'[r].ran /\ ~tx'[r].row /\ v # NoVersion
      BY <2>1, <3>1, <3>2, TxSets, NoTxType
    <3>4. TxOk(r)'
      BY <1>5, <2>1, <3>1, <3>3 DEF Begin, TxOk
    <3> QED
      BY <1>5, <3>1, <3>4, TxFrame DEF Begin
  <2> QED
    BY <1>5, <2>2, <2>3 DEF Begin
<1>6. ASSUME NEW r \in Runners, RunSql(r) PROVE TxInv'
  <2>1. CASE Fail(r)
    <3>1. tx'[r] = NoTx /\ \A v \in plan[r].pending : Local(r)[v] # NoFile
      BY <2>1 DEF Fail, TxInv, TxOk
    <3> QED
      BY <1>6, <2>1, <3>1, TxIdle DEF RunSql, Fail
  <2>2. CASE Go(r, "row") /\ tx' = [tx EXCEPT ![r].ran = TRUE] /\ UNCHANGED told
    <3>1. tx'[r].version = tx[r].version /\ tx[r].version # NoVersion
      BY <1>6, <2>2, TxSets DEF RunSql
    <3>2. tx'[r].ran /\ ~tx'[r].row
      BY <1>6, <2>2, TxSets DEF RunSql, TxInv, TxOk
    <3>3. TxOk(r)'
      BY <1>6, <2>2, <3>1, <3>2 DEF RunSql, TxInv, TxOk
    <3> QED
      BY <1>6, <2>2, <3>3, TxFrame DEF RunSql
  <2> QED
    BY <1>6, <2>1, <2>2 DEF RunSql
<1>7. ASSUME NEW r \in Runners, InsertRow(r) PROVE TxInv'
  <2>1. CASE Fail(r)
    <3>1. tx'[r] = NoTx /\ \A v \in plan[r].pending : Local(r)[v] # NoFile
      BY <2>1 DEF Fail, TxInv, TxOk
    <3> QED
      BY <1>7, <2>1, <3>1, TxIdle DEF InsertRow, Fail
  <2>2. CASE Go(r, "commit") /\ tx' = [tx EXCEPT ![r].row = TRUE] /\ UNCHANGED told
    <3>1. tx'[r].version = tx[r].version /\ tx[r].version # NoVersion
      BY <1>7, <2>2, TxSets DEF InsertRow
    <3>2. tx'[r].ran /\ tx'[r].row
      BY <1>7, <2>2, TxSets DEF InsertRow, TxInv, TxOk
    <3>3. TxOk(r)'
      BY <1>7, <2>2, <3>1, <3>2 DEF InsertRow, TxInv, TxOk
    <3> QED
      BY <1>7, <2>2, <3>3, TxFrame DEF InsertRow
  <2> QED
    BY <1>7, <2>1, <2>2 DEF InsertRow
<1>8. ASSUME NEW r \in Runners, Commit(r) PROVE TxInv'
  <2>1. CASE Fail(r)
    <3>1. tx'[r] = NoTx /\ \A v \in plan[r].pending : Local(r)[v] # NoFile
      BY <2>1 DEF Fail, TxInv, TxOk
    <3> QED
      BY <1>8, <2>1, <3>1, TxIdle DEF Commit, Fail
  <2>2. CASE Go(r, "committed") /\ UNCHANGED <<tx, told>>
    <3>1. TxOk(r)'
      BY <1>8, <2>2 DEF Commit, TxInv, TxOk
    <3> QED
      BY <1>8, <2>2, <3>1, TxFrame DEF Commit
  <2> QED
    BY <1>8, <2>1, <2>2 DEF Commit
<1>9. ASSUME NEW r \in Runners, Committed(r) PROVE TxInv'
  <2>1. plan'[r].pending = plan[r].pending \ {tx[r].version} /\ \A q \in Runners \ {r} : plan'[q] = plan[q]
    BY <1>9, PlanFields DEF Committed
  <2>2. \A v \in plan[r].pending : Local(r)[v] # NoFile
    BY DEF TxInv, TxOk
  <2> QED
    BY <1>9, <2>1, <2>2, TxIdle DEF Committed
<1>10. ASSUME NEW r \in Runners, Unlinked(r) PROVE TxInv'
  <2>1. CASE Fail(r)
    <3>1. tx'[r] = NoTx /\ \A v \in plan[r].pending : Local(r)[v] # NoFile
      BY <2>1 DEF Fail, TxInv, TxOk
    <3> QED
      BY <1>10, <2>1, <3>1, TxIdle DEF Unlinked, Fail
  <2>2. CASE /\ pc[r] \in {"lock", "ledger", "list"} \/ (pc[r] = "apply" /\ plan[r].pending # {})
             /\ Reject(r) /\ UNCHANGED <<tx, told>>
    <3>1. tx[r] = NoTx /\ \A v \in plan[r].pending : Local(r)[v] # NoFile
      BY <2>2 DEF TxInv, TxOk
    <3> QED
      BY <1>10, <2>2, <3>1, TxIdle DEF Unlinked
  <2> QED
    BY <1>10, <2>1, <2>2 DEF Unlinked
<1>11. ASSUME NEW r \in Runners, Applied(r) PROVE TxInv'
  <2>1. tx[r] = NoTx /\ \A v \in plan[r].pending : Local(r)[v] # NoFile
    BY <1>11 DEF Applied, TxInv, TxOk
  <2> QED
    BY <1>11, <2>1, TxIdle DEF Applied
<1>12. ASSUME NEW r \in Runners, PlanAuth(r) PROVE TxInv'
  <2>1. PICK d \in PlannedDrift(r) : plan' = [plan EXCEPT ![r].drift = d]
    BY <1>12 DEF PlanAuth
  <2>2. pc[r] = "auth" /\ (Go(r, "closing rejected") \/ Go(r, "authBegin"))
    BY <1>12 DEF PlanAuth
  <2>3. \A q \in Runners : plan'[q].pending = plan[q].pending
    BY <2>1, PlanFields
  <2>4. tx[r] = NoTx /\ \A v \in plan[r].pending : Local(r)[v] # NoFile
    BY <2>2 DEF TxInv, TxOk
  <2>5. UNCHANGED <<setup, linked, lock, tx, app, told, auth>>
    BY <1>12 DEF PlanAuth
  <2> QED
    BY <2>2, <2>3, <2>4, <2>5, TxIdle
<1>13. ASSUME NEW r \in Runners, BeginAuth(r) PROVE TxInv'
  <2>1. tx[r] = NoTx /\ \A v \in plan[r].pending : Local(r)[v] # NoFile
    BY <1>13 DEF BeginAuth, TxInv, TxOk
  <2> QED
    BY <1>13, <2>1, TxIdle DEF BeginAuth
<1>14. ASSUME NEW r \in Runners, EndAuth(r) PROVE TxInv'
  <2>1. tx[r] = NoTx /\ \A v \in plan[r].pending : Local(r)[v] # NoFile
    BY <1>14 DEF EndAuth, TxInv, TxOk
  <2> QED
    BY <1>14, <2>1, TxIdle DEF EndAuth
<1>15. ASSUME NEW r \in Runners, Close(r) PROVE TxInv'
  <2>1. tx[r] = NoTx /\ \A v \in plan[r].pending : Local(r)[v] # NoFile
    BY <1>15 DEF Close, TxInv, TxOk
  <2> QED
    BY <1>15, <2>1, TxIdle DEF Close
<1>16. ASSUME NEW r \in Runners, Lose(r) PROVE TxInv'
  BY <1>16 DEF Lose, Hangup, TxInv, TxOk
<1>17. ASSUME NEW r \in Runners, Crash(r) PROVE TxInv'
  <2>1. \A v \in plan[r].pending : Local(r)[v] # NoFile
    BY DEF TxInv, TxOk
  <2> QED
    BY <1>17, <2>1, TxIdle DEF Crash
<1>18. ASSUME NEW a \in AuthVersions, Drop(a) PROVE TxInv'
  BY <1>18 DEF Drop, TxInv, TxOk
<1>19. ASSUME UNCHANGED vars PROVE TxInv'
  BY <1>19 DEF vars, TxInv, TxOk
<1> QED
  BY <1>1, <1>2, <1>3, <1>4, <1>5, <1>6, <1>7, <1>8, <1>9, <1>10, <1>11, <1>12, <1>13, <1>14,
     <1>15, <1>16, <1>17, <1>18, <1>19 DEF Next, Step

-----------------------------------------------------------------------------
(* The ledger changes in one way: the run that holds the lock commits the   *)
(* first of its pending files, which is in nobody's row.                    *)

Wrote(r) ==
    LET v == tx[r].version
        s == Local(r)[v] IN
    /\ pc[r] = "commit" /\ pc' = [pc EXCEPT ![r] = "committed"]
    /\ v \in Versions /\ v \in plan[r].pending /\ \A u \in plan[r].pending : v <= u
    /\ s \in Sums /\ ledger[v] = NoFile
    /\ ledger' = [ledger EXCEPT ![v] = s]
    /\ author' = [author EXCEPT ![v] = r]
    /\ ran' = [ran EXCEPT ![v][s] = @ + 1]
    /\ UNCHANGED <<plan, linked, lock, tx, auth>>

LEMMA CommitWrites ==
    ASSUME TypeOK, TxInv, PlanInv, NEW r \in Runners, Commit(r)
    PROVE  \/ r \in linked /\ Wrote(r)
           \/ UNCHANGED <<ledger, author, ran>> /\ Fail(r)
<1>1. CASE Fail(r) /\ UNCHANGED <<ledger, author, ran>>
  BY <1>1
<1> DEFINE v == tx[r].version
           s == Local(r)[v]
<1>2. CASE /\ ledger' = IF tx[r].row THEN [ledger EXCEPT ![v] = s] ELSE ledger
           /\ author' = IF tx[r].row THEN [author EXCEPT ![v] = r] ELSE author
           /\ ran' = IF tx[r].ran THEN [ran EXCEPT ![v][s] = @ + 1] ELSE ran
           /\ Go(r, "committed") /\ UNCHANGED <<tx, told>>
  <2>1. pc[r] = "commit" /\ r \in linked /\ UNCHANGED <<setup, plan, linked, lock, table, auth>>
    BY DEF Commit
  <2>2. tx[r].ran /\ tx[r].row /\ v \in plan[r].pending /\ \A u \in plan[r].pending : v <= u
    BY <2>1 DEF TypeOK, TxInv, TxOk
  <2>3. v \in Versions /\ s # NoFile /\ s \in Sums
    <3>1. v \in Versions
      BY <2>2 DEF TypeOK, Plans
    <3>2. s # NoFile
      BY <2>2 DEF TxInv, TxOk
    <3> QED
      BY <3>1, <3>2, SetupType
  <2>4. ledger[v] = NoFile
    BY <2>1, <2>2 DEF PlanInv, PlanOk, Applying, Pending
  <2>5. pc' = [pc EXCEPT ![r] = "committed"]
    BY <1>2 DEF Go
  <2> QED
    BY <1>2, <2>1, <2>2, <2>3, <2>4, <2>5 DEF Wrote
<1> QED
  BY <1>1, <1>2 DEF Commit

LEMMA Writes ==
    ASSUME TypeOK, TxInv, PlanInv, [Next]_vars
    PROVE  /\ setup' = setup
           /\ \/ \E r \in linked : Wrote(r)
              \/ UNCHANGED <<ledger, author, ran>>
<1> USE DEF app, auth
<1>1. ASSUME NEW r \in Runners, Step(r), ~Commit(r) PROVE setup' = setup /\ UNCHANGED <<ledger, author, ran>>
  BY <1>1 DEF Step, Lock, EnsureLedger, List, LoadAuthPlan, Begin, RunSql, InsertRow, Committed,
       Unlinked, Applied, PlanAuth, BeginAuth, EndAuth, Close
<1>2. ASSUME NEW r \in Runners, Commit(r)
      PROVE  setup' = setup /\ ((r \in linked /\ Wrote(r)) \/ UNCHANGED <<ledger, author, ran>>)
  BY <1>2, CommitWrites DEF Commit
<1>3. ASSUME NEW r \in Runners, Lose(r) \/ Crash(r) PROVE setup' = setup /\ UNCHANGED <<ledger, author, ran>>
  BY <1>3 DEF Lose, Crash
<1>4. ASSUME NEW a \in AuthVersions, Drop(a) PROVE setup' = setup /\ UNCHANGED <<ledger, author, ran>>
  BY <1>4 DEF Drop
<1>5. ASSUME UNCHANGED vars PROVE setup' = setup /\ UNCHANGED <<ledger, author, ran>>
  BY <1>5 DEF vars
<1> QED
  BY <1>1, <1>2, <1>3, <1>4, <1>5 DEF Next

\* LedgerIsTruth is kept: the file that commits was in no row and had no effect.
LEMMA TrueStep == TypeOK /\ TxInv /\ PlanInv /\ TrueInv /\ [Next]_vars => TrueInv'
<1> SUFFICES ASSUME TypeOK, TxInv, PlanInv, TrueInv, [Next]_vars PROVE TrueInv'
  OBVIOUS
<1>1. CASE UNCHANGED <<ledger, author, ran>>
  BY <1>1 DEF TrueInv, LedgerIsTruth
<1>2. CASE \E r \in linked : Wrote(r)
  <2>1. PICK r \in linked : Wrote(r)
    BY <1>2
  <2> DEFINE v == tx[r].version
             s == Local(r)[v]
  <2>2. /\ v \in Versions /\ s \in Sums /\ ledger[v] = NoFile
        /\ ledger' = [ledger EXCEPT ![v] = s] /\ author' = [author EXCEPT ![v] = r]
        /\ ran' = [ran EXCEPT ![v][s] = @ + 1]
    BY <2>1 DEF Wrote
  <2>3. ledger \in [Versions -> Sums \cup {NoFile}] /\ ran \in [Versions -> [Sums -> Nat]]
        /\ author \in [Versions -> Runners \cup {NoRunner}] /\ r \in Runners
    BY DEF TypeOK, Files
  <2> HIDE DEF v, s
  <2>4. ASSUME NEW w \in Versions, NEW t \in Sums
        PROVE  ran'[w][t] = (IF ledger'[w] = t THEN 1 ELSE 0)
    <3>1. ran[w][t] = (IF ledger[w] = t THEN 1 ELSE 0)
      BY DEF TrueInv, LedgerIsTruth
    <3>2. CASE w # v
      BY <2>2, <2>3, <3>1, <3>2
    <3>3. CASE w = v
      <4>1. ran'[w][t] = (IF t = s THEN ran[v][s] + 1 ELSE ran[v][t]) /\ ledger'[w] = s
        BY <2>2, <2>3, <3>3
      <4> QED
        BY <2>2, <3>1, <3>3, <4>1
    <3> QED
      BY <3>2, <3>3
  <2>5. \A w \in Versions : author'[w] = NoRunner <=> ledger'[w] = NoFile
    BY <2>2, <2>3 DEF TrueInv
  <2> QED
    BY <2>4, <2>5 DEF TrueInv, LedgerIsTruth
<1> QED
  BY <1>1, <1>2, Writes

\* AppliedInOrder is kept: what comes before the file that commits is not
\* pending, so it is in the ledger with the run's own contents.
LEMMA OrderStep ==
    TypeOK /\ TxInv /\ PlanInv /\ AppliedInOrder /\ [Next]_vars => AppliedInOrder'
<1> SUFFICES ASSUME TypeOK, TxInv, PlanInv, AppliedInOrder, [Next]_vars,
                    NEW w \in Versions, author'[w] # NoRunner,
                    NEW u \in Versions, u < w, Local(author'[w])[u] # NoFile
             PROVE  ledger'[u] = Local(author'[w])[u]
  BY Writes DEF AppliedInOrder, Local
<1>1. CASE UNCHANGED <<ledger, author, ran>>
  BY <1>1 DEF AppliedInOrder
<1>2. CASE \E r \in linked : Wrote(r)
  <2>1. PICK r \in linked : Wrote(r)
    BY <1>2
  <2> DEFINE v == tx[r].version
             s == Local(r)[v]
  <2>2. /\ v \in Versions /\ ledger[v] = NoFile /\ \A p \in plan[r].pending : v <= p
        /\ pc[r] = "commit" /\ ledger' = [ledger EXCEPT ![v] = s]
        /\ author' = [author EXCEPT ![v] = r]
    BY <2>1 DEF Wrote
  <2>3. ledger \in [Versions -> Sums \cup {NoFile}] /\ r \in Runners
        /\ author \in [Versions -> Runners \cup {NoRunner}]
    BY DEF TypeOK, Files
  <2> HIDE DEF v, s
  <2>4. CASE w # v
    <3>1. author'[w] = author[w]
      BY <2>2, <2>3, <2>4
    <3>2. ledger[u] = Local(author[w])[u] /\ ledger[u] # NoFile
      BY <3>1 DEF AppliedInOrder
    <3> QED
      BY <2>2, <2>3, <3>1, <3>2
  <2>5. CASE w = v
    <3>1. author'[w] = r
      BY <2>2, <2>3, <2>5
    <3>2. u \notin plan[r].pending
      BY <2>2, <2>5
    <3>3. plan[r].pending = Pending(r) /\ ~Conflict(r)
      BY <2>1, <2>2 DEF PlanInv, PlanOk, Applying
    <3>4. ledger[u] = Local(r)[u]
      BY <3>1, <3>2, <3>3 DEF Pending, Conflict
    <3> QED
      BY <2>2, <2>3, <2>5, <3>1, <3>4
  <2> QED
    BY <2>4, <2>5
<1> QED
  BY <1>1, <1>2, Writes

\* A step that leaves the ledger alone and takes one run out of the part of the
\* code that has a plan, or keeps its plan right there.
LEMMA PlanFrame ==
    ASSUME PlanInv, NEW r \in Runners, UNCHANGED <<setup, ledger>>, linked' \subseteq linked,
           \A q \in Runners \ {r} :
               /\ pc'[q] = pc[q] /\ tx'[q] = tx[q]
               /\ plan'[q].pending = plan[q].pending /\ plan'[q].conflict = plan[q].conflict,
           linked \subseteq Runners,
           r \in linked' => PlanOk(r)'
    PROVE  PlanInv'
<1> SUFFICES ASSUME NEW q \in linked', q # r PROVE PlanOk(q)'
  BY DEF PlanInv
<1>1. PlanOk(q) /\ q \in Runners \ {r}
  BY DEF PlanInv
<1>2. Pending(q)' = Pending(q) /\ Conflict(q)' = Conflict(q)
  BY DEF Pending, Conflict, Local
<1> QED
  BY <1>1, <1>2 DEF PlanOk

LEMMA PlanStill ==
    ASSUME PlanInv, linked' \subseteq linked, UNCHANGED <<setup, pc, plan, tx, ledger>>
    PROVE  PlanInv'
<1> SUFFICES ASSUME NEW q \in linked' PROVE PlanOk(q)'
  BY DEF PlanInv
<1>1. PlanOk(q) /\ Pending(q)' = Pending(q) /\ Conflict(q)' = Conflict(q)
  BY DEF PlanInv, Pending, Conflict, Local
<1> QED
  BY <1>1 DEF PlanOk

LEMMA PlanIdle ==
    ASSUME PlanInv, NEW r \in Runners, UNCHANGED <<setup, ledger>>, linked' \subseteq linked,
           \A q \in Runners \ {r} :
               /\ pc'[q] = pc[q] /\ tx'[q] = tx[q]
               /\ plan'[q].pending = plan[q].pending /\ plan'[q].conflict = plan[q].conflict,
           linked \subseteq Runners,
           pc'[r] \notin Applying \cup {"plan", "committed"}
    PROVE  PlanInv'
<1>1. PlanOk(r)'
  BY DEF PlanOk
<1> QED
  BY <1>1, PlanFrame

\* PlanStaysTrue is kept: whoever else is connected has no plan to spoil when a
\* run commits, for that run holds the lock.
LEMMA PlanStep == TypeOK /\ LockInv /\ TxInv /\ PlanInv /\ [Next]_vars => PlanInv'
<1> SUFFICES ASSUME TypeOK, LockInv, TxInv, PlanInv, [Next]_vars PROVE PlanInv'
  OBVIOUS
<1> USE DEF TypeOK, app, auth, Go, Reject
<1>1. ASSUME NEW r \in Runners, Lock(r) PROVE PlanInv'
  BY <1>1, PlanIdle DEF Lock, Applying
<1>2. ASSUME NEW r \in Runners, EnsureLedger(r) PROVE PlanInv'
  BY <1>2, PlanIdle DEF EnsureLedger, Applying
<1>3. ASSUME NEW r \in Runners, List(r) PROVE PlanInv'
  <2>1. Pending(r)' = Pending(r) /\ Conflict(r)' = Conflict(r)
    BY <1>3 DEF List, Pending, Conflict, Local
  <2>2. plan'[r].pending = Pending(r) /\ plan'[r].conflict = Conflict(r)
        /\ \A q \in Runners \ {r} : plan'[q] = plan[q]
    BY <1>3, PlanFields DEF List
  <2>3. pc'[r] = "plan" /\ \A q \in Runners \ {r} : pc'[q] = pc[q]
    BY <1>3 DEF List
  <2>4. PlanOk(r)'
    BY <2>1, <2>2, <2>3 DEF PlanOk, Applying
  <2> QED
    BY <1>3, <2>2, <2>3, <2>4, PlanFrame DEF List
<1>4. ASSUME NEW r \in Runners, LoadAuthPlan(r) PROVE PlanInv'
  <2>1. Pending(r)' = Pending(r) /\ Conflict(r)' = Conflict(r)
    BY <1>4 DEF LoadAuthPlan, Pending, Conflict, Local
  <2>2. PICK d \in PlannedDrift(r) : plan' = [plan EXCEPT ![r].drift = d] /\ Go(r, AfterPlan(r, d))
    BY <1>4 DEF LoadAuthPlan
  <2>3. \A q \in Runners : plan'[q].pending = plan[q].pending /\ plan'[q].conflict = plan[q].conflict
    BY <2>2, PlanFields
  <2>4. pc[r] = "plan" /\ UNCHANGED <<setup, linked, lock, tx, app, told, auth>>
    BY <1>4 DEF LoadAuthPlan
  <2>5. pc'[r] = AfterPlan(r, d) /\ \A q \in Runners \ {r} : pc'[q] = pc[q]
    BY <2>2, <2>4
  <2>6. ASSUME r \in linked' PROVE PlanOk(r)'
    <3>1. PlanOk(r)
      BY <2>4, <2>6 DEF PlanInv
    <3>2. plan[r].conflict \in BOOLEAN
      BY PlanType
    <3>3. \/ pc'[r] = "apply" /\ ~plan[r].conflict
          \/ pc'[r] \in {"closing resolved", "closing rejected", "auth"}
      BY <2>5 DEF AfterPlan
    <3> QED
      BY <2>1, <2>3, <2>4, <3>1, <3>2, <3>3 DEF PlanOk, Applying
  <2> QED
    BY <2>3, <2>4, <2>5, <2>6, PlanFrame
<1>5. ASSUME NEW r \in Runners, Begin(r) PROVE PlanInv'
  <2>1. Pending(r)' = Pending(r) /\ Conflict(r)' = Conflict(r)
    BY <1>5 DEF Begin, Pending, Conflict, Local
  <2>2. CASE Reject(r)
    BY <1>5, <2>2, PlanIdle DEF Begin, Applying
  <2>3. CASE Go(r, "sql")
    <3>1. PlanOk(r) /\ pc'[r] = "sql" /\ pc[r] = "apply"
      BY <1>5, <2>3 DEF Begin, PlanInv
    <3>2. PlanOk(r)'
      BY <1>5, <2>1, <3>1 DEF Begin, PlanOk, Applying
    <3> QED
      BY <1>5, <2>3, <3>2, PlanFrame DEF Begin
  <2> QED
    BY <1>5, <2>2, <2>3 DEF Begin
<1>6. ASSUME NEW r \in Runners, RunSql(r) PROVE PlanInv'
  <2>1. Pending(r)' = Pending(r) /\ Conflict(r)' = Conflict(r)
    BY <1>6 DEF RunSql, Pending, Conflict, Local
  <2>2. CASE Fail(r)
    BY <1>6, <2>2, PlanIdle DEF RunSql, Fail, Applying
  <2>3. CASE Go(r, "row") /\ tx' = [tx EXCEPT ![r].ran = TRUE] /\ UNCHANGED told
    <3>1. PlanOk(r) /\ pc'[r] = "row" /\ pc[r] \in Applying
      BY <1>6, <2>3 DEF RunSql, PlanInv, Applying
    <3>2. PlanOk(r)'
      BY <1>6, <2>1, <3>1 DEF RunSql, PlanOk, Applying
    <3> QED
      BY <1>6, <2>3, <3>2, PlanFrame DEF RunSql
  <2> QED
    BY <1>6, <2>2, <2>3 DEF RunSql
<1>7. ASSUME NEW r \in Runners, InsertRow(r) PROVE PlanInv'
  <2>1. Pending(r)' = Pending(r) /\ Conflict(r)' = Conflict(r)
    BY <1>7 DEF InsertRow, Pending, Conflict, Local
  <2>2. CASE Fail(r)
    BY <1>7, <2>2, PlanIdle DEF InsertRow, Fail, Applying
  <2>3. CASE Go(r, "commit") /\ tx' = [tx EXCEPT ![r].row = TRUE] /\ UNCHANGED told
    <3>1. PlanOk(r) /\ pc'[r] = "commit" /\ pc[r] \in Applying
      BY <1>7, <2>3 DEF InsertRow, PlanInv, Applying
    <3>2. PlanOk(r)'
      BY <1>7, <2>1, <3>1 DEF InsertRow, PlanOk, Applying
    <3> QED
      BY <1>7, <2>3, <3>2, PlanFrame DEF InsertRow
  <2> QED
    BY <1>7, <2>2, <2>3 DEF InsertRow
<1>8. ASSUME NEW r \in Runners, Commit(r) PROVE PlanInv'
  <2>1. CASE UNCHANGED <<ledger, author, ran>> /\ Fail(r)
    BY <1>8, <2>1, PlanIdle DEF Commit, Fail, Applying
  <2>2. CASE r \in linked /\ Wrote(r)
    <3>1. pc[r] = "commit" /\ pc' = [pc EXCEPT ![r] = "committed"]
          /\ UNCHANGED <<setup, plan, linked, lock, tx>>
      BY <1>8, <2>2 DEF Wrote, Commit
    <3>2. ASSUME NEW q \in linked, q # r PROVE PlanOk(q)'
      <4>1. pc[q] \notin Holding
        BY <2>2, <3>1, <3>2 DEF LockInv, Holding, PCs
      <4>2. pc'[q] = pc[q] /\ pc[q] \in PCs
        BY <3>1, <3>2
      <4> QED
        BY <4>1, <4>2 DEF Holding, PCs, Ends, PlanOk, Applying
    <3>3. /\ tx[r].version \in Versions /\ tx[r].version \in plan[r].pending
          /\ Local(r)[tx[r].version] \in Sums
          /\ ledger' = [ledger EXCEPT ![tx[r].version] = Local(r)[tx[r].version]]
      BY <2>2 DEF Wrote
    <3>4. plan[r].pending = Pending(r) /\ ~Conflict(r)
      BY <2>2, <3>1 DEF PlanInv, PlanOk, Applying
    <3>5. ledger \in [Versions -> Sums \cup {NoFile}]
      BY DEF Files
    <3>6. Pending(r)' = Pending(r) \ {tx[r].version}
      BY <3>1, <3>3, <3>5 DEF Pending, Local
    <3>7. ~Conflict(r)'
      BY <3>1, <3>3, <3>4, <3>5 DEF Conflict, Local
    <3>8. PlanOk(r)'
      BY <3>1, <3>4, <3>6, <3>7 DEF PlanOk, Applying
    <3> QED
      BY <3>1, <3>2, <3>8 DEF PlanInv
  <2> QED
    BY <1>8, <2>1, <2>2, CommitWrites
<1>9. ASSUME NEW r \in Runners, Committed(r) PROVE PlanInv'
  <2>1. Pending(r)' = Pending(r) /\ Conflict(r)' = Conflict(r)
    BY <1>9 DEF Committed, Pending, Conflict, Local
  <2>2. plan'[r].pending = plan[r].pending \ {tx[r].version} /\ \A q \in Runners \ {r} : plan'[q] = plan[q]
    BY <1>9, PlanFields DEF Committed
  <2>3. pc[r] = "committed" /\ pc'[r] = "apply" /\ r \in linked
    BY <1>9 DEF Committed
  <2>4. PlanOk(r)'
    BY <2>1, <2>2, <2>3 DEF PlanInv, PlanOk, Applying
  <2> QED
    BY <1>9, <2>2, <2>4, PlanFrame DEF Committed
<1>10. ASSUME NEW r \in Runners, Unlinked(r) PROVE PlanInv'
  BY <1>10, PlanIdle DEF Unlinked, Fail, Applying
<1>11. ASSUME NEW r \in Runners, Applied(r) PROVE PlanInv'
  BY <1>11, PlanIdle DEF Applied, Applying
<1>12. ASSUME NEW r \in Runners, PlanAuth(r) PROVE PlanInv'
  <2>1. PICK d \in PlannedDrift(r) : plan' = [plan EXCEPT ![r].drift = d]
    BY <1>12 DEF PlanAuth
  <2>2. Go(r, "closing rejected") \/ Go(r, "authBegin")
    BY <1>12 DEF PlanAuth
  <2>3. \A q \in Runners : plan'[q].pending = plan[q].pending /\ plan'[q].conflict = plan[q].conflict
    BY <2>1, PlanFields
  <2>4. UNCHANGED <<setup, linked, lock, tx, app, told, auth>>
    BY <1>12 DEF PlanAuth
  <2> QED
    BY <2>2, <2>3, <2>4, PlanIdle DEF Applying
<1>13. ASSUME NEW r \in Runners, BeginAuth(r) PROVE PlanInv'
  BY <1>13, PlanIdle DEF BeginAuth, Applying
<1>14. ASSUME NEW r \in Runners, EndAuth(r) PROVE PlanInv'
  BY <1>14, PlanIdle DEF EndAuth, Applying
<1>15. ASSUME NEW r \in Runners, Close(r) PROVE PlanInv'
  BY <1>15, PlanIdle DEF Close, Ends, Applying
<1>16. ASSUME NEW r \in Runners, Lose(r) PROVE PlanInv'
  <2>1. linked' \subseteq linked /\ UNCHANGED <<setup, pc, plan, tx, ledger>>
    BY <1>16 DEF Lose, Hangup
  <2> QED
    BY <2>1, PlanStill
<1>17. ASSUME NEW r \in Runners, Crash(r) PROVE PlanInv'
  BY <1>17, PlanIdle DEF Crash, Hangup, Applying
<1>18. ASSUME NEW a \in AuthVersions, Drop(a) PROVE PlanInv'
  BY <1>18, PlanStill DEF Drop
<1>19. ASSUME UNCHANGED vars PROVE PlanInv'
  BY <1>19, PlanStill DEF vars
<1> QED
  BY <1>1, <1>2, <1>3, <1>4, <1>5, <1>6, <1>7, <1>8, <1>9, <1>10, <1>11, <1>12, <1>13, <1>14,
     <1>15, <1>16, <1>17, <1>18, <1>19 DEF Next, Step

\* A row, once written, is never changed.
LEMMA RowsStay ==
    ASSUME TypeOK, TxInv, PlanInv, [Next]_vars
    PROVE  setup' = setup /\ \A v \in Versions : ledger[v] # NoFile => ledger'[v] = ledger[v]
<1>1. CASE UNCHANGED <<ledger, author, ran>>
  BY <1>1, Writes
<1>2. CASE \E r \in linked : Wrote(r)
  BY <1>2, Writes DEF Wrote, TypeOK, Files
<1> QED
  BY <1>1, <1>2, Writes

LEMMA DoneFrame ==
    ASSUME DoneInv, NEW r \in Runners, setup' = setup,
           \A v \in Versions : ledger[v] # NoFile => ledger'[v] = ledger[v],
           \A q \in Runners \ {r} :
               /\ pc'[q] = pc[q] /\ tx'[q] = tx[q]
               /\ plan'[q].pending = plan[q].pending /\ plan'[q].conflict = plan[q].conflict,
           DoneOk(r)'
    PROVE  DoneInv'
<1> SUFFICES ASSUME NEW q \in Runners, q # r PROVE DoneOk(q)'
  BY DEF DoneInv
<1>1. DoneOk(q) /\ q \in Runners \ {r} /\ Local(q)' = Local(q) /\ Mode(q)' = Mode(q)
  BY DEF DoneInv, Local, Mode
<1> QED
  BY <1>1 DEF DoneOk

\* What a run that keeps its files and its transaction has done stays done.
LEMMA DoneStay ==
    ASSUME DoneInv, NEW r \in Runners, setup' = setup,
           \A v \in Versions : ledger[v] # NoFile => ledger'[v] = ledger[v],
           \A q \in Runners \ {r} :
               /\ pc'[q] = pc[q] /\ tx'[q] = tx[q]
               /\ plan'[q].pending = plan[q].pending /\ plan'[q].conflict = plan[q].conflict,
           \/ pc'[r] \notin Applying \cup
                 {"plan", "committed", "auth", "authBegin", "authCommit", "closing resolved", "resolved"}
           \/ pc[r] \in Applying /\ pc'[r] \in Applying /\ plan'[r].pending = plan[r].pending
           \/ /\ pc[r] \in {"auth", "authBegin", "authCommit", "closing resolved", "resolved"}
              /\ pc'[r] \in {"auth", "authBegin", "authCommit", "closing resolved", "resolved"}
    PROVE  DoneInv'
<1>1. DoneOk(r) /\ Local(r)' = Local(r) /\ Mode(r)' = Mode(r)
  BY DEF DoneInv, Local, Mode
<1>2. DoneOk(r)'
  BY <1>1 DEF DoneOk, Applying
<1> QED
  BY <1>2, DoneFrame

\* Nothing it speaks of changes.
LEMMA DoneSame ==
    ASSUME DoneInv, UNCHANGED <<setup, pc, plan, tx, ledger>>
    PROVE  DoneInv'
<1> SUFFICES ASSUME NEW q \in Runners PROVE DoneOk(q)'
  BY DEF DoneInv
<1>1. DoneOk(q) /\ Local(q)' = Local(q) /\ Mode(q)' = Mode(q)
  BY DEF DoneInv, Local, Mode
<1> QED
  BY <1>1 DEF DoneOk

\* What a run has done stays done, whoever else runs.
LEMMA DoneStep == TypeOK /\ TxInv /\ PlanInv /\ DoneInv /\ [Next]_vars => DoneInv'
<1> SUFFICES ASSUME TypeOK, TxInv, PlanInv, DoneInv, [Next]_vars PROVE DoneInv'
  OBVIOUS
<1> USE DEF TypeOK, app, auth, Go, Reject
<1>rows. setup' = setup /\ \A v \in Versions : ledger[v] # NoFile => ledger'[v] = ledger[v]
  BY RowsStay
<1>1. ASSUME NEW r \in Runners, Lock(r) PROVE DoneInv'
  BY <1>1, <1>rows, DoneStay DEF Lock, Applying
<1>2. ASSUME NEW r \in Runners, EnsureLedger(r) PROVE DoneInv'
  BY <1>2, <1>rows, DoneStay DEF EnsureLedger, Applying
<1>3. ASSUME NEW r \in Runners, List(r) PROVE DoneInv'
  <2>1. plan'[r].pending = Pending(r) /\ plan'[r].conflict = Conflict(r)
        /\ \A q \in Runners \ {r} : plan'[q] = plan[q]
    BY <1>3, PlanFields DEF List
  <2>2. UNCHANGED <<setup, ledger, tx>> /\ pc'[r] = "plan"
    BY <1>3 DEF List
  <2>3. DoneOk(r)'
    BY <2>1, <2>2 DEF DoneOk, Applying, Pending, Conflict, Local, Mode
  <2> QED
    BY <1>3, <2>1, <2>3, <1>rows, DoneFrame DEF List
<1>4. ASSUME NEW r \in Runners, LoadAuthPlan(r) PROVE DoneInv'
  <2>1. PICK d \in PlannedDrift(r) : plan' = [plan EXCEPT ![r].drift = d] /\ Go(r, AfterPlan(r, d))
    BY <1>4 DEF LoadAuthPlan
  <2>2. \A q \in Runners : plan'[q].pending = plan[q].pending /\ plan'[q].conflict = plan[q].conflict
    BY <2>1, PlanFields
  <2>3. pc[r] = "plan" /\ UNCHANGED <<setup, linked, lock, tx, app, told, auth>>
    BY <1>4 DEF LoadAuthPlan
  <2>4. pc'[r] = AfterPlan(r, d) /\ \A q \in Runners \ {r} : pc'[q] = pc[q]
    BY <2>1, <2>3
  <2>5. \/ pc'[r] = "apply" /\ ~plan[r].conflict
        \/ pc'[r] \in {"closing resolved", "auth"} /\ Mode(r) # "apply"
        \/ pc'[r] = "closing rejected"
    BY <2>4 DEF AfterPlan
  <2>6. DoneOk(r) /\ Local(r)' = Local(r) /\ Mode(r)' = Mode(r)
    BY <2>3 DEF DoneInv, Local, Mode
  <2>7. DoneOk(r)'
    BY <2>2, <2>3, <2>5, <2>6 DEF DoneOk, Applying
  <2> QED
    BY <2>2, <2>3, <2>4, <2>7, <1>rows, DoneFrame
<1>5. ASSUME NEW r \in Runners, Begin(r) PROVE DoneInv'
  <2>1. pc[r] \in Applying /\ pc'[r] \in {"sql", "closing rejected"}
        /\ \A q \in Runners \ {r} : tx'[q] = tx[q]
    BY <1>5 DEF Begin, Applying
  <2>2. UNCHANGED <<setup, plan, ledger>> /\ \A q \in Runners \ {r} : pc'[q] = pc[q]
    BY <1>5 DEF Begin
  <2> QED
    BY <2>1, <2>2, <1>rows, DoneStay DEF Applying
<1>6. ASSUME NEW r \in Runners, RunSql(r) PROVE DoneInv'
  <2>1. pc[r] \in Applying /\ pc'[r] \in {"row", "closing rejected"}
        /\ \A q \in Runners \ {r} : tx'[q] = tx[q]
    BY <1>6 DEF RunSql, Fail, Applying
  <2>2. UNCHANGED <<setup, plan, ledger>> /\ \A q \in Runners \ {r} : pc'[q] = pc[q]
    BY <1>6 DEF RunSql, Fail
  <2> QED
    BY <2>1, <2>2, <1>rows, DoneStay DEF Applying
<1>7. ASSUME NEW r \in Runners, InsertRow(r) PROVE DoneInv'
  <2>1. pc[r] \in Applying /\ pc'[r] \in {"commit", "closing rejected"}
        /\ \A q \in Runners \ {r} : tx'[q] = tx[q]
    BY <1>7 DEF InsertRow, Fail, Applying
  <2>2. UNCHANGED <<setup, plan, ledger>> /\ \A q \in Runners \ {r} : pc'[q] = pc[q]
    BY <1>7 DEF InsertRow, Fail
  <2> QED
    BY <2>1, <2>2, <1>rows, DoneStay DEF Applying
<1>8. ASSUME NEW r \in Runners, Commit(r) PROVE DoneInv'
  <2>1. CASE Fail(r)
    BY <1>8, <2>1, <1>rows, DoneStay DEF Commit, Fail, Applying
  <2>2. CASE Wrote(r)
    <3>1. /\ pc[r] = "commit" /\ pc' = [pc EXCEPT ![r] = "committed"] /\ UNCHANGED <<plan, tx>>
          /\ tx[r].version \in Versions
          /\ ledger' = [ledger EXCEPT ![tx[r].version] = Local(r)[tx[r].version]]
      BY <2>2 DEF Wrote
    <3>2. DoneOk(r) /\ Local(r)' = Local(r) /\ Mode(r)' = Mode(r)
      BY <1>rows DEF DoneInv, Local, Mode
    <3>3. ledger \in [Versions -> Sums \cup {NoFile}]
      BY DEF Files
    <3>4. ASSUME NEW v \in Versions, Local(r)[v] # NoFile
          PROVE  v \in plan[r].pending \ {tx[r].version} \/ ledger'[v] = Local(r)[v]
      BY <1>rows, <3>1, <3>2, <3>3, <3>4 DEF DoneOk, Applying
    <3>5. DoneOk(r)'
      BY <3>1, <3>2, <3>4 DEF DoneOk, Applying
    <3> QED
      BY <3>1, <3>5, <1>rows, DoneFrame
  <2> QED
    BY <1>8, <2>1, <2>2, CommitWrites
<1>9. ASSUME NEW r \in Runners, Committed(r) PROVE DoneInv'
  <2>1. plan'[r].pending = plan[r].pending \ {tx[r].version} /\ \A q \in Runners \ {r} : plan'[q] = plan[q]
    BY <1>9, PlanFields DEF Committed
  <2>2. pc[r] = "committed" /\ pc'[r] = "apply" /\ UNCHANGED <<setup, ledger>>
    BY <1>9 DEF Committed
  <2>3. DoneOk(r) /\ Local(r)' = Local(r) /\ Mode(r)' = Mode(r)
    BY <2>2 DEF DoneInv, Local, Mode
  <2>4. DoneOk(r)'
    BY <2>1, <2>2, <2>3 DEF DoneOk, Applying
  <2> QED
    BY <1>9, <2>1, <2>4, <1>rows, DoneFrame DEF Committed
<1>10. ASSUME NEW r \in Runners, Unlinked(r) PROVE DoneInv'
  BY <1>10, <1>rows, DoneStay DEF Unlinked, Fail, Applying
<1>11. ASSUME NEW r \in Runners, Applied(r) PROVE DoneInv'
  <2>1. pc[r] = "apply" /\ pc'[r] = "auth" /\ plan[r].pending = {} /\ UNCHANGED <<setup, plan, ledger, tx>>
    BY <1>11 DEF Applied
  <2>2. DoneOk(r)'
    BY <2>1 DEF DoneInv, DoneOk, Applying, Local, Mode
  <2> QED
    BY <1>11, <2>2, <1>rows, DoneFrame DEF Applied
<1>12. ASSUME NEW r \in Runners, PlanAuth(r) PROVE DoneInv'
  <2>1. PICK d \in PlannedDrift(r) : plan' = [plan EXCEPT ![r].drift = d]
    BY <1>12 DEF PlanAuth
  <2>2. pc[r] = "auth" /\ (Go(r, "closing rejected") \/ Go(r, "authBegin"))
    BY <1>12 DEF PlanAuth
  <2>3. \A q \in Runners : plan'[q].pending = plan[q].pending /\ plan'[q].conflict = plan[q].conflict
    BY <2>1, PlanFields
  <2>4. pc[r] = "auth" /\ pc'[r] \in {"closing rejected", "authBegin"}
        /\ \A q \in Runners \ {r} : pc'[q] = pc[q]
    BY <2>2
  <2>5. UNCHANGED tx
    BY <1>12 DEF PlanAuth
  <2>6. \/ pc'[r] \notin Applying \cup
               {"plan", "committed", "auth", "authBegin", "authCommit", "closing resolved", "resolved"}
        \/ pc'[r] = "authBegin"
    BY <2>4 DEF Applying
  <2> QED
    BY <2>3, <2>4, <2>5, <2>6, <1>rows, DoneStay
<1>13. ASSUME NEW r \in Runners, BeginAuth(r) PROVE DoneInv'
  BY <1>13, <1>rows, DoneStay DEF BeginAuth, Applying
<1>14. ASSUME NEW r \in Runners, EndAuth(r) PROVE DoneInv'
  BY <1>14, <1>rows, DoneStay DEF EndAuth, Applying
<1>15. ASSUME NEW r \in Runners, Close(r) PROVE DoneInv'
  BY <1>15, <1>rows, DoneStay DEF Close, Ends, Applying
<1>16. ASSUME NEW r \in Runners, Lose(r) PROVE DoneInv'
  BY <1>16, DoneSame DEF Lose
<1>17. ASSUME NEW r \in Runners, Crash(r) PROVE DoneInv'
  <2>1. UNCHANGED plan /\ pc'[r] = "crashed"
        /\ \A q \in Runners \ {r} : pc'[q] = pc[q] /\ tx'[q] = tx[q]
    BY <1>17 DEF Crash
  <2>2. pc'[r] \notin Applying \cup
            {"plan", "committed", "auth", "authBegin", "authCommit", "closing resolved", "resolved"}
    BY <2>1 DEF Applying
  <2> QED
    BY <2>1, <2>2, <1>rows, DoneStay
<1>18. ASSUME NEW a \in AuthVersions, Drop(a) PROVE DoneInv'
  BY <1>18, DoneSame DEF Drop
<1>19. ASSUME UNCHANGED vars PROVE DoneInv'
  BY <1>19, DoneSame DEF vars
<1> QED
  BY <1>1, <1>2, <1>3, <1>4, <1>5, <1>6, <1>7, <1>8, <1>9, <1>10, <1>11, <1>12, <1>13, <1>14,
     <1>15, <1>16, <1>17, <1>18, <1>19 DEF Next, Step

\* The Auth ledger is left alone, and so are the runs but one.
LEMMA AuthFrame ==
    ASSUME AuthInv, NEW r \in Runners, UNCHANGED <<setup, authLedger>>,
           \A q \in Runners \ {r} : pc'[q] = pc[q] /\ authTx'[q] = authTx[q],
           AuthOk(r)'
    PROVE  AuthInv'
  BY DEF AuthInv, AuthOk, Mode, Expected

LEMMA AuthStay ==
    ASSUME AuthInv, NEW r \in Runners, UNCHANGED <<setup, authLedger>>,
           \A q \in Runners \ {r} : pc'[q] = pc[q] /\ authTx'[q] = authTx[q],
           \/ pc'[r] \notin Applying \cup
                 {"committed", "auth", "authBegin", "authCommit", "closing resolved", "resolved"}
           \/ pc[r] \in Applying \cup {"committed"} /\ pc'[r] \in Applying \cup {"committed"}
           \/ pc[r] = "auth" /\ pc'[r] = "authBegin"
           \/ pc[r] = "closing resolved" /\ pc'[r] = "resolved"
    PROVE  AuthInv'
<1>1. AuthOk(r) /\ Mode(r)' = Mode(r) /\ Expected(r)' = Expected(r)
  BY DEF AuthInv, Mode, Expected
<1>2. AuthOk(r)'
  BY <1>1 DEF AuthOk, Applying
<1> QED
  BY <1>2, AuthFrame

\* The Auth lock keeps the Auth ledger as its holder saw it.
LEMMA AuthStep == TypeOK /\ AuthInv /\ [Next]_vars => AuthInv'
<1> SUFFICES ASSUME TypeOK, AuthInv, [Next]_vars PROVE AuthInv'
  OBVIOUS
<1> USE DEF TypeOK, app, auth, Go, Reject
<1>1. ASSUME NEW r \in Runners, Lock(r) PROVE AuthInv'
  BY <1>1, AuthStay DEF Lock, Applying
<1>2. ASSUME NEW r \in Runners, EnsureLedger(r) PROVE AuthInv'
  BY <1>2, AuthStay DEF EnsureLedger, Applying
<1>3. ASSUME NEW r \in Runners, List(r) PROVE AuthInv'
  BY <1>3, AuthStay DEF List, Applying
<1>4. ASSUME NEW r \in Runners, LoadAuthPlan(r) PROVE AuthInv'
  <2>1. PICK d \in PlannedDrift(r) : Go(r, AfterPlan(r, d))
    BY <1>4 DEF LoadAuthPlan
  <2>2. pc[r] = "plan" /\ UNCHANGED <<setup, linked, lock, tx, app, told, auth>>
    BY <1>4 DEF LoadAuthPlan
  <2>3. Mode(r) \in {"apply", "repair", "inspect"} /\ Mode(r)' = Mode(r)
    BY <2>2, SetupType DEF Modes, Mode
  <2>4. \/ pc'[r] = "apply" /\ Mode(r) = "apply"
        \/ pc'[r] = "auth" /\ Mode(r) = "repair"
        \/ pc'[r] = "closing resolved" /\ Mode(r) # "apply"
        \/ pc'[r] = "closing rejected"
    BY <2>1, <2>2, <2>3 DEF AfterPlan
  <2>5. AuthOk(r)'
    BY <2>2, <2>3, <2>4 DEF AuthOk, Applying
  <2> QED
    BY <2>1, <2>2, <2>5, AuthFrame
<1>5. ASSUME NEW r \in Runners, Begin(r) PROVE AuthInv'
  BY <1>5, AuthStay DEF Begin, Applying
<1>6. ASSUME NEW r \in Runners, RunSql(r) PROVE AuthInv'
  BY <1>6, AuthStay DEF RunSql, Fail, Applying
<1>7. ASSUME NEW r \in Runners, InsertRow(r) PROVE AuthInv'
  BY <1>7, AuthStay DEF InsertRow, Fail, Applying
<1>8. ASSUME NEW r \in Runners, Commit(r) PROVE AuthInv'
  BY <1>8, AuthStay DEF Commit, Fail, Applying
<1>9. ASSUME NEW r \in Runners, Committed(r) PROVE AuthInv'
  BY <1>9, AuthStay DEF Committed, Applying
<1>10. ASSUME NEW r \in Runners, Unlinked(r) PROVE AuthInv'
  BY <1>10, AuthStay DEF Unlinked, Fail, Applying
<1>11. ASSUME NEW r \in Runners, Applied(r) PROVE AuthInv'
  <2>1. pc[r] = "apply" /\ pc'[r] = "auth" /\ UNCHANGED setup
    BY <1>11 DEF Applied
  <2>2. AuthOk(r)'
    BY <2>1 DEF AuthInv, AuthOk, Applying, Mode
  <2> QED
    BY <1>11, <2>2, AuthFrame DEF Applied
<1>12. ASSUME NEW r \in Runners, PlanAuth(r) PROVE AuthInv'
  BY <1>12, AuthStay DEF PlanAuth, Applying
<1>13. ASSUME NEW r \in Runners, BeginAuth(r) PROVE AuthInv'
  <2>1. CASE Reject(r) /\ UNCHANGED <<authLock, authTx>>
    BY <1>13, <2>1, AuthStay DEF BeginAuth, Applying
  <2>2. CASE /\ ~TooOld(r) /\ authLock' = r /\ Go(r, "authCommit")
             /\ authTx' = [authTx EXCEPT ![r] = AuthStatements(r)]
    <3>1. pc[r] = "authBegin" /\ UNCHANGED <<setup, authLedger>>
      BY <1>13 DEF BeginAuth
    <3>2. Mode(r) # "inspect" /\ Mode(r)' = Mode(r) /\ Expected(r)' = Expected(r)
      BY <3>1 DEF AuthInv, AuthOk, Mode, Expected
    <3>3. Mode(r) = "apply" => authLedger \subseteq Expected(r) /\ authTx'[r] = Expected(r) \ authLedger
      BY <2>2 DEF TooOld, AuthStatements
    <3>4. AuthOk(r)'
      BY <2>2, <3>1, <3>2, <3>3 DEF AuthOk, Applying
    <3> QED
      BY <2>2, <3>1, <3>4, AuthFrame
  <2> QED
    BY <1>13, <2>1, <2>2 DEF BeginAuth
<1>14. ASSUME NEW r \in Runners, EndAuth(r) PROVE AuthInv'
  <2>1. CASE Reject(r) /\ UNCHANGED <<objects, authLedger>>
    BY <1>14, <2>1, AuthStay DEF EndAuth, Applying
  <2>2. CASE /\ authLedger' = IF Mode(r) = "apply" THEN authLedger \cup authTx[r] ELSE authLedger
             /\ Go(r, "closing resolved") \/ Reject(r)
    <3>1. pc[r] = "authCommit" /\ UNCHANGED setup /\ authTx' = [authTx EXCEPT ![r] = {}]
      BY <1>14 DEF EndAuth
    <3>2. ASSUME NEW q \in Runners PROVE Mode(q)' = Mode(q) /\ Expected(q)' = Expected(q)
      BY <3>1 DEF Mode, Expected
    <3>3. ASSUME NEW q \in Runners, q # r PROVE AuthOk(q)'
      <4>1. pc[q] # "authCommit" /\ pc'[q] = pc[q] /\ AuthOk(q)
        BY <2>2, <3>1, <3>3 DEF AuthInv
      <4>2. authLedger \subseteq authLedger'
        BY <2>2
      <4> QED
        BY <3>2, <4>1, <4>2 DEF AuthOk, Applying
    <3>4. AuthOk(r)'
      <4>1. pc'[r] \in {"closing resolved", "closing rejected"} /\ AuthOk(r)
        BY <2>2, <3>1 DEF AuthInv
      <4>2. Mode(r) = "apply" => Expected(r) \subseteq authLedger'
        BY <2>2, <3>1, <4>1 DEF AuthOk
      <4> QED
        BY <3>2, <4>1, <4>2 DEF AuthOk, Applying
    <3> QED
      BY <3>3, <3>4 DEF AuthInv
  <2> QED
    BY <1>14, <2>1, <2>2 DEF EndAuth
<1>15. ASSUME NEW r \in Runners, Close(r) PROVE AuthInv'
  BY <1>15, AuthStay DEF Close, Ends, Applying
<1>16. ASSUME NEW r \in Runners, Lose(r) PROVE AuthInv'
  BY <1>16 DEF Lose, AuthInv, AuthOk, Mode, Expected
<1>17. ASSUME NEW r \in Runners, Crash(r) PROVE AuthInv'
  BY <1>17, AuthStay DEF Crash, Hangup, Applying
<1>18. ASSUME NEW a \in AuthVersions, Drop(a) PROVE AuthInv'
  BY <1>18 DEF Drop, AuthInv, AuthOk, Mode, Expected
<1>19. ASSUME UNCHANGED vars PROVE AuthInv'
  BY <1>19 DEF vars, AuthInv, AuthOk, Mode, Expected
<1> QED
  BY <1>1, <1>2, <1>3, <1>4, <1>5, <1>6, <1>7, <1>8, <1>9, <1>10, <1>11, <1>12, <1>13, <1>14,
     <1>15, <1>16, <1>17, <1>18, <1>19 DEF Next, Step

-----------------------------------------------------------------------------
(* The invariant, and what follows from it.                                 *)

LEMMA InitInv == Init => IInv
<1> SUFFICES ASSUME Init PROVE IInv
  OBVIOUS
<1>1. TypeOK
  BY InitType
<1>2. /\ \A r \in Runners : pc[r] = "lock" /\ tx[r] = NoTx /\ plan[r].pending = {}
      /\ \A v \in Versions : ledger[v] = NoFile /\ author[v] = NoRunner
      /\ \A v \in Versions, s \in Sums : ran[v][s] = 0
      /\ linked = Runners
  BY DEF Init, NoPlan
<1>3. LockInv
  BY <1>2 DEF LockInv, Holding
<1>4. TxInv
  BY <1>2, NoTxType DEF TxInv, TxOk
<1>5. TrueInv
  BY <1>2 DEF TrueInv, LedgerIsTruth
<1>6. PlanInv /\ DoneInv
  BY <1>2 DEF PlanInv, PlanOk, DoneInv, DoneOk, Applying
<1>7. AuthInv
  BY <1>2 DEF AuthInv, AuthOk, Applying
<1>8. AppliedInOrder
  BY <1>2 DEF AppliedInOrder
<1> QED
  BY <1>1, <1>3, <1>4, <1>5, <1>6, <1>7, <1>8 DEF IInv

LEMMA InvStep == IInv /\ [Next]_vars => IInv'
  BY TypeStep, LockStep, TxStep, TrueStep, PlanStep, DoneStep, AuthStep, OrderStep DEF IInv

\* IInv, the inductive invariant: the lock, the transactions, the plans and the
\* two ledgers fit together at every step.
THEOREM Invariance == Spec => []IInv
<1>1. Init => IInv
  BY InitInv
<1>2. IInv /\ [Next]_vars => IInv'
  BY InvStep
<1> QED
  BY <1>1, <1>2, PTL DEF Spec

\* LedgerIsTruth: applyMigration's transaction makes the row of a file and its
\* effect one thing, whatever crashes, hangs up or runs at the same time.
THEOREM ExactlyOnce == Spec => []LedgerIsTruth
<1>1. IInv => LedgerIsTruth
  BY DEF IInv, TrueInv
<1> QED
  BY <1>1, Invariance, PTL

\* PlanStaysTrue: the session lock covers planning and applying.
THEOREM PlanHolds == Spec => []PlanStaysTrue
<1>1. IInv => PlanStaysTrue
  BY DEF IInv, PlanInv, PlanOk, PlanStaysTrue
<1> QED
  BY <1>1, Invariance, PTL

\* AppliedInOrder: a run's rows stand on all its earlier files.
THEOREM InOrder == Spec => []AppliedInOrder
<1>1. IInv => AppliedInOrder
  BY DEF IInv
<1> QED
  BY <1>1, Invariance, PTL

\* SuccessMeansDone: a migrate that resolves has its files and its Auth schema
\* in the two ledgers.
THEOREM Success == Spec => []SuccessMeansDone
<1>1. IInv => SuccessMeansDone
  BY DEF IInv, DoneInv, DoneOk, AuthInv, AuthOk, SuccessMeansDone
<1> QED
  BY <1>1, Invariance, PTL

\* NoSilentRepair: migrateAthenaAuthSchema runs no statement of a migration the
\* Auth ledger has.
THEOREM RepairOnly == Spec => NoSilentRepair
<1> DEFINE Restored(a) == a \in authLedger /\ a \notin objects /\ a \in objects'
<1>1. ASSUME IInv, Next, NEW a \in AuthVersions, Restored(a)
      PROVE  \E r \in Runners : Mode(r) = "repair" /\ authLock = r
  <2>1. PICK r \in Runners : EndAuth(r)
    BY <1>1 DEF Next, Step, Lock, EnsureLedger, List, LoadAuthPlan, Begin, RunSql, InsertRow,
         Commit, Committed, Unlinked, Applied, PlanAuth, BeginAuth, Close, Lose, Crash, Drop,
         auth, vars
  <2>2. pc[r] = "authCommit" /\ a \in authTx[r] /\ authLock = r
    BY <1>1, <2>1 DEF EndAuth, IInv, TypeOK
  <2>3. Mode(r) \in {"apply", "repair", "inspect"}
    BY <1>1, SetupType DEF IInv, Modes
  <2>4. Mode(r) # "inspect" /\ Mode(r) # "apply"
    BY <1>1, <2>2 DEF IInv, AuthInv, AuthOk
  <2> QED
    BY <2>2, <2>3, <2>4
<1>2. ASSUME IInv, [Next]_vars, NEW a \in AuthVersions, Restored(a)
      PROVE  \E r \in Runners : Mode(r) = "repair" /\ authLock = r
  <2>1. CASE Next
    BY <1>1, <1>2, <2>1
  <2>2. CASE UNCHANGED vars
    BY <1>2, <2>2 DEF vars, auth
  <2> QED
    BY <1>2, <2>1, <2>2
<1>3. IInv /\ [Next]_vars =>
        [\A a \in AuthVersions : Restored(a) => \E r \in Runners : Mode(r) = "repair" /\ authLock = r]_vars
  BY <1>2
<1> QED
  BY <1>3, Invariance, PTL DEF Spec, NoSilentRepair

\* TooOldNeverWrites: the preflight runs under the transaction lock, so no newer
\* SDK comes between it and COMMIT.
THEOREM TooOldRefused == Spec => TooOldNeverWrites
<1>1. IInv /\ [Next]_vars =>
        [\A r \in Runners :
            Mode(r) = "apply" /\ pc[r] = "authCommit" /\ pc'[r] = "closing resolved" =>
                authLedger \subseteq Expected(r)]_vars
  BY DEF IInv, AuthInv, AuthOk
<1> QED
  BY <1>1, Invariance, PTL DEF Spec, TooOldNeverWrites

-----------------------------------------------------------------------------
(* The refinement: COMMIT is the abstract Deploy, the last step of a run    *)
(* the abstract End, and every other step a stutter.                        *)

\* What has taken effect of a version is what its ledger row says.
LEMMA EffectIsRow ==
    ASSUME IInv, NEW v \in Versions
    PROVE  Deployed!InEffect(v) = IF ledger[v] = NoFile THEN {} ELSE {ledger[v]}
  BY DEF Deployed!InEffect, IInv, TrueInv, LedgerIsTruth, TypeOK, Files

\* A run that goes on does not end, and the others stay where they are.
LEMMA GoesOn ==
    ASSUME TypeOK, NEW r \in Runners, NEW next, Go(r, next), ~Ended(r),
           next \notin Ends \cup {"crashed"}
    PROVE  Outcome' = Outcome
<1>1. ASSUME NEW q \in Runners
      PROVE  (IF Ended(q) THEN pc[q] ELSE "running")' = (IF Ended(q) THEN pc[q] ELSE "running")
  BY DEF Go, TypeOK, Ended
<1> QED
  BY <1>1 DEF Outcome

\* A run that ends, ends the abstract one.
LEMMA Goes ==
    ASSUME TypeOK, NEW r \in Runners, NEW next, Go(r, next), ~Ended(r),
           next \in Ends \cup {"crashed"}
    PROVE  Outcome[r] = "running" /\ Outcome' = [Outcome EXCEPT ![r] = next]
<1>1. ASSUME NEW q \in Runners
      PROVE  (IF Ended(q) THEN pc[q] ELSE "running")' =
                IF q = r THEN next ELSE (IF Ended(q) THEN pc[q] ELSE "running")
  BY DEF Go, TypeOK, Ended
<1> QED
  BY <1>1 DEF Outcome

\* A run that closes its connection has not ended yet.
Ending == Ends \cup {"crashed"}
LEMMA ClosingGoesOn ==
    ASSUME NEW r, NEW d
    PROVE  AfterPlan(r, d) \notin Ending /\ "closing resolved" \notin Ending
           /\ "closing rejected" \notin Ending
  BY Zenon DEF AfterPlan, Ending, Ends

\* So does a run that is refused.
LEMMA RejectGoesOn ==
    ASSUME TypeOK, NEW r \in Runners, Reject(r), ~Ended(r)
    PROVE  Outcome' = Outcome
  BY GoesOn, ClosingGoesOn, Zenon DEF Reject, Ending

\* Only Close and Crash end a run.
LEMMA StepGoesOn ==
    ASSUME TypeOK, NEW r \in Runners, Step(r), ~Close(r)
    PROVE  Outcome' = Outcome
<1>1. ASSUME NEW next, next \notin Ending, Go(r, next), ~Ended(r) PROVE Outcome' = Outcome
  BY <1>1, GoesOn DEF Ending
<1>2. \A next \in {"ledger", "list", "plan", "sql", "row", "commit", "committed", "apply",
                   "auth", "authBegin", "authCommit"} : next \notin Ending
  BY DEF Ending, Ends
<1>3. ASSUME pc[r] \in {"lock", "ledger", "list", "plan", "apply", "sql", "row", "commit",
                       "committed", "auth", "authBegin", "authCommit"}
      PROVE  ~Ended(r)
  BY <1>3 DEF Ended, Ends
<1>4. CASE Lock(r) \/ EnsureLedger(r) \/ List(r) \/ Committed(r) \/ Applied(r)
  BY <1>1, <1>2, <1>3, <1>4 DEF Lock, EnsureLedger, List, Committed, Applied
<1>5. CASE LoadAuthPlan(r)
  BY <1>1, <1>3, <1>5, ClosingGoesOn DEF LoadAuthPlan
<1>6. CASE Begin(r) \/ RunSql(r) \/ InsertRow(r) \/ Commit(r) \/ Unlinked(r)
  BY <1>1, <1>2, <1>3, <1>6, RejectGoesOn DEF Begin, RunSql, InsertRow, Commit, Unlinked, Fail
<1>7. CASE PlanAuth(r) \/ BeginAuth(r)
  BY <1>1, <1>2, <1>3, <1>7, RejectGoesOn DEF PlanAuth, BeginAuth
<1>8. CASE EndAuth(r)
  <2>1. Go(r, "closing resolved") \/ Reject(r)
    BY <1>8, Zenon DEF EndAuth
  <2>2. ~Ended(r)
    BY <1>3, <1>8 DEF EndAuth
  <2>3. CASE Go(r, "closing resolved")
    BY <1>1, <2>2, <2>3, ClosingGoesOn, Zenon
  <2> QED
    BY <2>1, <2>2, <2>3, RejectGoesOn, Zenon
<1> QED
  BY <1>4, <1>5, <1>6, <1>7, <1>8 DEF Step

\* A file that commits is the next one of its run, on a history that agrees.
LEMMA WroteDeploys ==
    ASSUME IInv, NEW r \in linked, Wrote(r), setup' = setup, Outcome' = Outcome
    PROVE  Deployed!Deploy(r)
<1> DEFINE v == tx[r].version
           s == Local(r)[v]
<1>1. /\ v \in Versions /\ s \in Sums /\ s # NoFile /\ ledger[v] = NoFile /\ pc[r] = "commit"
      /\ ran' = [ran EXCEPT ![v][s] = @ + 1] /\ \A u \in plan[r].pending : v <= u
      /\ r \in Runners
  BY DEF Wrote, IInv, TypeOK
<1>2. /\ plan[r].pending = Pending(r) /\ ~Conflict(r)
      /\ Mode(r) = "apply"
  BY <1>1 DEF IInv, PlanInv, PlanOk, AuthInv, AuthOk, Applying
<1>3. Outcome[r] = "running"
  BY <1>1 DEF Outcome, Ended, Ends
<1>4. \A u \in Versions : ledger[u] = NoFile \/ ledger[u] = Local(r)[u]
  BY <1>2 DEF Conflict
<1>5. \A u \in Versions : u < v /\ Local(r)[u] # NoFile => ledger[u] # NoFile
  BY <1>1, <1>2 DEF Pending
<1>6. ran[v][s] = 0 /\ ran \in [Versions -> [Sums -> Nat]]
  BY <1>1 DEF IInv, TrueInv, LedgerIsTruth, TypeOK
<1> HIDE DEF v, s
<1>7. ran' = [ran EXCEPT ![v][s] = 1]
  BY <1>1, <1>6
<1>8. \A u \in Versions : Deployed!InEffect(u) = IF ledger[u] = NoFile THEN {} ELSE {ledger[u]}
  BY EffectIsRow
<1>9. \A u \in Versions : Deployed!InEffect(u) \subseteq {Local(r)[u]}
  BY <1>4, <1>8
<1>10. Deployed!InEffect(v) = {} /\ \A u \in Versions :
          u < v /\ Local(r)[u] # NoFile => Deployed!InEffect(u) # {}
  BY <1>1, <1>5, <1>8
<1>11. Deployed!Local(r) = Local(r) /\ Deployed!Local(r)[v] = s
  BY DEF Deployed!Local, Local, s
<1> QED
  BY <1>1, <1>2, <1>3, <1>7, <1>9, <1>10, <1>11 DEF Deployed!Deploy, Mode

\* The last step of a run: a migrate that resolves has its files in the ledger.
LEMMA CloseEnds ==
    ASSUME IInv, NEW r \in Runners, Close(r) \/ Crash(r)
    PROVE  Deployed!End(r)
<1>1. /\ UNCHANGED <<setup, ran>> /\ ~Ended(r)
      /\ \E how \in {"resolved", "rejected", "crashed"} :
            Go(r, how) /\ (how = "resolved" => pc[r] = "closing resolved")
  BY DEF Close, Crash, app, Ended, Ends
<1>2. PICK how \in {"resolved", "rejected", "crashed"} :
            Go(r, how) /\ (how = "resolved" => pc[r] = "closing resolved")
  BY <1>1
<1>3. Outcome[r] = "running" /\ Outcome' = [Outcome EXCEPT ![r] = how]
  BY <1>1, <1>2, Goes DEF IInv, Ends
<1>4. ASSUME how = "resolved", Mode(r) = "apply", NEW v \in Versions, Local(r)[v] # NoFile
      PROVE  Deployed!InEffect(v) = {Local(r)[v]}
  <2>1. ledger[v] = Local(r)[v]
    BY <1>2, <1>4 DEF IInv, DoneInv, DoneOk
  <2> QED
    BY <2>1, <1>4, EffectIsRow
<1> QED
  BY <1>1, <1>3, <1>4 DEF Deployed!End, Deployed!Local, Local, Mode

\* Every concrete step is an abstract one.
LEMMA StepMaps == IInv /\ [Next]_vars => [Deployed!Next]_(Deployed!vars)
<1> SUFFICES ASSUME IInv, [Next]_vars PROVE [Deployed!Next]_(Deployed!vars)
  OBVIOUS
<1>1. CASE \E r \in Runners : Close(r) \/ Crash(r)
  BY <1>1, CloseEnds DEF Deployed!Next
<1>2. CASE \E r \in Runners : Step(r) /\ ~Close(r)
  BY <1>2, StepGoesOn, Writes, WroteDeploys DEF IInv, TypeOK, Deployed!Next, Deployed!vars
<1>3. CASE \/ \E r \in Runners : Lose(r)
           \/ \E a \in AuthVersions : Drop(a)
           \/ UNCHANGED vars
  <2>1. UNCHANGED <<setup, pc, ran>>
    BY <1>3 DEF Lose, Drop, vars, app
  <2> QED
    BY <2>1 DEF Outcome, Ended, Deployed!vars
<1> QED
  BY <1>1, <1>2, <1>3 DEF Next

\* ImplementsDeployment: however runs of athena-js migrate overlap, fail and
\* crash, their files take effect as Deployment says, for every number of
\* runs and every set of files.
THEOREM Refinement == Spec => ImplementsDeployment
<1>1. Init => Deployed!Init
  BY DEF Init, Deployed!Init, Outcome, Ended, Ends
<1>2. IInv /\ [Next]_vars => [Deployed!Next]_(Deployed!vars)
  BY StepMaps
<1> QED
  BY <1>1, <1>2, Invariance, PTL DEF Spec, ImplementsDeployment, Deployed!Spec
=============================================================================
