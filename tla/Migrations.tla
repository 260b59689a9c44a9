----------------------------- MODULE Migrations -----------------------------
(***************************************************************************)
(* athena-js migrate: concurrent runs of runMigrations                     *)
(* (src/migrations/runner.ts) against one PostgreSQL database, with the    *)
(* backend of src/migrations/postgres.ts, the planner of                   *)
(* src/migrations/planner.ts and the embedded Auth schema of               *)
(* src/auth/local/schema.ts.                                               *)
(*                                                                         *)
(* A run keeps one connection with a session advisory lock, under which it *)
(* reads the ledger, plans and applies each pending file in a transaction  *)
(* of its own.  The Auth schema is migrated through other connections,     *)
(* under a transaction lock of its own.  Any statement may fail, the       *)
(* connection may be lost (the server then drops lock and transaction      *)
(* while the process goes on), and the process may crash.                  *)
(***************************************************************************)
EXTENDS Integers, FiniteSets

CONSTANTS
    Runners,       \* runs of the command
    Versions,      \* versions of the application's migration files
    Sums,          \* checksums of file contents
    AuthVersions,  \* migrations of the Auth schema, 1 .. n
    Setups,        \* the runs' modes, files and SDK generations
    NoFile, NoRunner, NoVersion

Modes == {"apply", "repair", "inspect"}  \* inspect: status, plan and dry-run
Files == [Versions -> Sums \cup {NoFile}]

ASSUME MigrationsAssumption ==
    /\ Versions \subseteq Nat /\ IsFiniteSet(Versions)
    /\ AuthVersions \subseteq Nat /\ IsFiniteSet(AuthVersions)
    /\ NoFile \notin Sums /\ NoRunner \notin Runners /\ NoVersion \notin Versions
    /\ Setups \subseteq [Runners -> [mode : Modes, files : Files, sdk : Nat]]

VARIABLES
    setup,       \* each run's mode, files and the generation its SDK expects
    pc,          \* where each run has come to
    plan,        \* pending versions, whether the history conflicts, drifted Auth migrations
    linked,      \* runs whose connection is up
    lock,        \* holder of the session advisory lock
    tx,          \* open transaction of a run: its version, whether the SQL ran, the row is in
    table,       \* athena.schema_migrations exists
    ledger,      \* its rows: checksum by version
    ran,         \* history: how often the SQL of a file took effect
    author,      \* history: which run a ledger row is from
    told,        \* version whose rollback a run reported
    authLock,    \* holder of the Auth schema's transaction lock
    authLedger,  \* athena.auth_schema_migrations
    objects,     \* Auth migrations whose objects exist
    authTx       \* Auth migrations run in a run's open transaction

app == <<table, ledger, ran, author>>
auth == <<authLock, authLedger, objects, authTx>>
vars == <<setup, pc, plan, linked, lock, tx, app, told, auth>>

Mode(r) == setup[r].mode
Local(r) == setup[r].files
Expected(r) == {a \in AuthVersions : a <= setup[r].sdk}

Ends == {"resolved", "rejected"}
PCs == {"lock", "ledger", "list", "plan", "apply", "sql", "row", "commit", "committed",
        "auth", "authBegin", "authCommit", "closing resolved", "closing rejected",
        "crashed"} \cup Ends

Plans == [pending : SUBSET Versions, conflict : BOOLEAN, drift : SUBSET AuthVersions]
Transactions == [version : Versions \cup {NoVersion}, ran : BOOLEAN, row : BOOLEAN]
NoTx == [version |-> NoVersion, ran |-> FALSE, row |-> FALSE]
NoPlan == [pending |-> {}, conflict |-> FALSE, drift |-> {}]

Init ==
    /\ setup \in Setups
    /\ pc = [r \in Runners |-> "lock"]
    /\ plan = [r \in Runners |-> NoPlan]
    /\ linked = Runners /\ lock = NoRunner
    /\ tx = [r \in Runners |-> NoTx]
    /\ table = FALSE
    /\ ledger = [v \in Versions |-> NoFile]
    /\ ran = [v \in Versions |-> [s \in Sums |-> 0]]
    /\ author = [v \in Versions |-> NoRunner]
    /\ told = [r \in Runners |-> NoVersion]
    /\ authLock = NoRunner /\ authLedger = {} /\ objects = {}
    /\ authTx = [r \in Runners |-> {}]

Go(r, next) == pc' = [pc EXCEPT ![r] = next]
Reject(r) == Go(r, "closing rejected")

-----------------------------------------------------------------------------
(* Lock, ledger and plan.                                                   *)

\* Mutant of Lock: the answer of the lock is not awaited.
LockAnyway(r) ==
    /\ pc[r] = "lock" /\ r \in linked
    /\ lock' = r /\ Go(r, "ledger")
    /\ UNCHANGED <<setup, plan, linked, tx, app, told, auth>>

Lock(r) ==
    /\ pc[r] = "lock" /\ r \in linked /\ lock = NoRunner
    /\ lock' = r /\ Go(r, "ledger")
    /\ UNCHANGED <<setup, plan, linked, tx, app, told, auth>>

\* inspection modes create nothing
EnsureLedger(r) ==
    /\ pc[r] = "ledger" /\ r \in linked
    /\ table' = (table \/ Mode(r) # "inspect") /\ Go(r, "list")
    /\ UNCHANGED <<setup, plan, linked, lock, tx, ledger, ran, author, told, auth>>

Pending(r) == {v \in Versions : Local(r)[v] # NoFile /\ ledger[v] = NoFile}

\* Mutant of Conflict: only versions without a local file conflict.
ConflictMissing(r) == \E v \in Versions : ledger[v] # NoFile /\ Local(r)[v] = NoFile
Conflict(r) == \E v \in Versions : ledger[v] # NoFile /\ ledger[v] # Local(r)[v]

\* listAppliedMigrations and planMigrations; a missing ledger reads as empty
List(r) ==
    /\ pc[r] = "list" /\ r \in linked
    /\ plan' = [plan EXCEPT ![r].pending = Pending(r), ![r].conflict = Conflict(r)]
    /\ Go(r, "plan")
    /\ UNCHANGED <<setup, linked, lock, tx, app, told, auth>>

Drift(r) == (authLedger \cap Expected(r)) \ objects

\* planAthenaAuthSchema, on a connection of its own: when it cannot read the
\* ledger or inspect the schema it takes nothing to be applied or drifted
PlannedDrift(r) == {Drift(r), {}}

\* where a run goes once it has both plans: a repair repairs whatever the
\* history says, a conflict ends the others, and drift ends an apply
AfterPlan(r, d) ==
    IF Mode(r) = "repair" THEN IF d = {} THEN "closing resolved" ELSE "auth"
    ELSE IF plan[r].conflict THEN "closing rejected"
    ELSE IF Mode(r) = "inspect" THEN "closing resolved"
    ELSE IF d # {} THEN "closing rejected" ELSE "apply"

LoadAuthPlan(r) ==
    /\ pc[r] = "plan"
    /\ \E d \in PlannedDrift(r) :
        plan' = [plan EXCEPT ![r].drift = d] /\ Go(r, AfterPlan(r, d))
    /\ UNCHANGED <<setup, linked, lock, tx, app, told, auth>>

-----------------------------------------------------------------------------
(* applyMigration.                                                          *)

\* Mutant of Begin: the pending files come in any order.
BeginAny(r) ==
    /\ pc[r] = "apply" /\ plan[r].pending # {} /\ r \in linked
    /\ \E v \in plan[r].pending : Go(r, "sql") /\ tx' = [tx EXCEPT ![r].version = v]
    /\ UNCHANGED <<setup, plan, linked, lock, app, told, auth>>

\* the next file in order; the SQL guard refuses it, or BEGIN fails
Begin(r) ==
    /\ pc[r] = "apply" /\ plan[r].pending # {} /\ r \in linked
    /\ \/ \E v \in plan[r].pending :
            /\ \A u \in plan[r].pending : v <= u
            /\ Go(r, "sql") /\ tx' = [tx EXCEPT ![r].version = v]
       \/ Reject(r) /\ UNCHANGED tx
    /\ UNCHANGED <<setup, plan, linked, lock, app, told, auth>>

\* ROLLBACK, and the error that says so
Fail(r) ==
    /\ tx' = [tx EXCEPT ![r] = NoTx]
    /\ told' = [told EXCEPT ![r] = tx[r].version]
    /\ Reject(r)

\* Mutant of RunSql: the runner goes on with the next file.
RunSqlSkips(r) ==
    /\ pc[r] = "sql" /\ r \in linked
    /\ \/ Go(r, "row") /\ tx' = [tx EXCEPT ![r].ran = TRUE] /\ UNCHANGED plan
       \/ /\ Go(r, "apply") /\ tx' = [tx EXCEPT ![r] = NoTx]
          /\ plan' = [plan EXCEPT ![r].pending = @ \ {tx[r].version}]
    /\ UNCHANGED <<setup, linked, lock, app, told, auth>>

\* Mutant of RunSql: the file runs outside the transaction.
RunSqlOutside(r) ==
    /\ pc[r] = "sql" /\ r \in linked
    /\ LET v == tx[r].version IN ran' = [ran EXCEPT ![v][Local(r)[v]] = @ + 1]
    /\ Go(r, "row")
    /\ UNCHANGED <<setup, plan, linked, lock, tx, table, ledger, author, told, auth>>

RunSql(r) ==
    /\ pc[r] = "sql" /\ r \in linked
    /\ \/ Go(r, "row") /\ tx' = [tx EXCEPT ![r].ran = TRUE] /\ UNCHANGED told
       \/ Fail(r)
    /\ UNCHANGED <<setup, plan, linked, lock, app, auth>>

\* the primary key refuses a second row
InsertRow(r) ==
    /\ pc[r] = "row" /\ r \in linked
    /\ \/ /\ ledger[tx[r].version] = NoFile
          /\ Go(r, "commit") /\ tx' = [tx EXCEPT ![r].row = TRUE] /\ UNCHANGED told
       \/ Fail(r)
    /\ UNCHANGED <<setup, plan, linked, lock, app, auth>>

\* the server commits, or refuses to
Commit(r) ==
    LET v == tx[r].version
        s == Local(r)[v] IN
    /\ pc[r] = "commit" /\ r \in linked
    /\ \/ /\ ledger' = IF tx[r].row THEN [ledger EXCEPT ![v] = s] ELSE ledger
          /\ author' = IF tx[r].row THEN [author EXCEPT ![v] = r] ELSE author
          /\ ran' = IF tx[r].ran THEN [ran EXCEPT ![v][s] = @ + 1] ELSE ran
          /\ Go(r, "committed") /\ UNCHANGED <<tx, told>>
       \/ Fail(r) /\ UNCHANGED <<ledger, author, ran>>
    /\ UNCHANGED <<setup, plan, linked, lock, table, auth>>

\* Mutant of Committed: the transaction is not forgotten.
CommittedKeeps(r) ==
    /\ pc[r] = "committed" /\ r \in linked
    /\ plan' = [plan EXCEPT ![r].pending = @ \ {tx[r].version}]
    /\ Go(r, "apply")
    /\ UNCHANGED <<setup, linked, lock, tx, app, told, auth>>

\* the answer arrives
Committed(r) ==
    /\ pc[r] = "committed" /\ r \in linked
    /\ plan' = [plan EXCEPT ![r].pending = @ \ {tx[r].version}]
    /\ tx' = [tx EXCEPT ![r] = NoTx]
    /\ Go(r, "apply")
    /\ UNCHANGED <<setup, linked, lock, app, told, auth>>

\* a statement sent over a lost connection throws
Unlinked(r) ==
    /\ r \notin linked
    /\ \/ /\ pc[r] \in {"lock", "ledger", "list"} \/ (pc[r] = "apply" /\ plan[r].pending # {})
          /\ Reject(r) /\ UNCHANGED <<tx, told>>
       \/ pc[r] \in {"sql", "row", "commit", "committed"} /\ Fail(r)
    /\ UNCHANGED <<setup, plan, linked, lock, app, auth>>

-----------------------------------------------------------------------------
(* migrateAthenaAuthSchema and repairAthenaAuthSchema.                      *)

Applied(r) ==
    /\ pc[r] = "apply" /\ plan[r].pending = {}
    /\ Go(r, "auth")
    /\ UNCHANGED <<setup, plan, linked, lock, tx, app, told, auth>>

\* both read the plan again before they take the lock
PlanAuth(r) ==
    /\ pc[r] = "auth"
    /\ \E d \in PlannedDrift(r) :
        /\ plan' = [plan EXCEPT ![r].drift = d]
        /\ IF Mode(r) = "apply" /\ d # {} THEN Reject(r) ELSE Go(r, "authBegin")
    /\ UNCHANGED <<setup, linked, lock, tx, app, told, auth>>

\* Mutant of AuthStatements: the idempotent statements run every time.
AuthStatementsAll(r) == Expected(r)

AuthStatements(r) == IF Mode(r) = "repair" THEN plan[r].drift ELSE Expected(r) \ authLedger
TooOld(r) == Mode(r) = "apply" /\ ~(authLedger \subseteq Expected(r))

\* Mutant of BeginAuth: no advisory lock.
BeginAuthUnlocked(r) ==
    /\ pc[r] = "authBegin"
    /\ IF TooOld(r)
       THEN Reject(r) /\ UNCHANGED <<authLock, authTx>>
       ELSE /\ authLock' = r /\ Go(r, "authCommit")
            /\ authTx' = [authTx EXCEPT ![r] = AuthStatements(r)]
    /\ UNCHANGED <<setup, plan, linked, lock, tx, app, told, authLedger, objects>>

\* BEGIN, the lock, the preflight on the ledger and the statements
BeginAuth(r) ==
    /\ pc[r] = "authBegin" /\ authLock = NoRunner
    /\ IF TooOld(r)
       THEN Reject(r) /\ UNCHANGED <<authLock, authTx>>
       ELSE /\ authLock' = r /\ Go(r, "authCommit")
            /\ authTx' = [authTx EXCEPT ![r] = AuthStatements(r)]
    /\ UNCHANGED <<setup, plan, linked, lock, tx, app, told, authLedger, objects>>

\* COMMIT; or a statement fails, or the connection is lost, and the
\* transaction rolls back.  The report that follows reads the plan once more
\* and may throw.
EndAuth(r) ==
    /\ pc[r] = "authCommit"
    /\ \/ /\ objects' = objects \cup authTx[r]
          /\ authLedger' = IF Mode(r) = "apply" THEN authLedger \cup authTx[r] ELSE authLedger
          /\ Go(r, "closing resolved") \/ Reject(r)
       \/ Reject(r) /\ UNCHANGED <<objects, authLedger>>
    /\ authLock' = NoRunner /\ authTx' = [authTx EXCEPT ![r] = {}]
    /\ UNCHANGED <<setup, plan, linked, lock, tx, app, told>>

-----------------------------------------------------------------------------
(* The end of a run, and what befalls it.                                   *)

\* Mutant of Close: the lock is only released after a success.
CloseResolved(r) ==
    /\ pc[r] \in {"closing resolved", "closing rejected"}
    /\ lock' = IF lock = r /\ pc[r] = "closing resolved" THEN NoRunner ELSE lock
    /\ Go(r, IF pc[r] = "closing resolved" THEN "resolved" ELSE "rejected")
    /\ UNCHANGED <<setup, plan, linked, tx, app, told, auth>>

\* finally: backend.close()
Close(r) ==
    /\ pc[r] \in {"closing resolved", "closing rejected"}
    /\ lock' = IF lock = r THEN NoRunner ELSE lock
    /\ Go(r, IF pc[r] = "closing resolved" THEN "resolved" ELSE "rejected")
    /\ UNCHANGED <<setup, plan, linked, tx, app, told, auth>>

Ended(r) == pc[r] \in Ends \cup {"crashed"}

\* the server ends the session: lock and transaction are gone
Hangup(r) ==
    /\ linked' = linked \ {r}
    /\ lock' = IF lock = r THEN NoRunner ELSE lock

Lose(r) ==
    /\ r \in linked /\ ~Ended(r) /\ Hangup(r)
    /\ UNCHANGED <<setup, pc, plan, tx, app, told, auth>>

Crash(r) ==
    /\ ~Ended(r) /\ Hangup(r) /\ Go(r, "crashed")
    /\ tx' = [tx EXCEPT ![r] = NoTx]
    /\ authLock' = IF authLock = r THEN NoRunner ELSE authLock
    /\ authTx' = [authTx EXCEPT ![r] = {}]
    /\ UNCHANGED <<setup, plan, app, told, authLedger, objects>>

\* somebody drops a table of the Auth schema
Drop(a) ==
    /\ a \in objects /\ objects' = objects \ {a}
    /\ UNCHANGED <<setup, pc, plan, linked, lock, tx, app, told, authLock, authLedger, authTx>>

Step(r) ==
    \/ Lock(r) \/ EnsureLedger(r) \/ List(r) \/ LoadAuthPlan(r)
    \/ Begin(r) \/ RunSql(r) \/ InsertRow(r) \/ Commit(r) \/ Committed(r) \/ Unlinked(r)
    \/ Applied(r) \/ PlanAuth(r) \/ BeginAuth(r) \/ EndAuth(r) \/ Close(r)

Next ==
    \/ \E r \in Runners : Step(r) \/ Lose(r) \/ Crash(r)
    \/ \E a \in AuthVersions : Drop(a)
    \/ (\A r \in Runners : Ended(r)) /\ UNCHANGED vars

Spec == Init /\ [][Next]_vars

\* The server answers, and a run goes on as long as it lives.
FairSpec == Spec /\ \A r \in Runners : WF_vars(Step(r))

-----------------------------------------------------------------------------
\* Types, and which locks and transactions go with which step of a run.
TypeOK ==
    /\ setup \in Setups
    /\ pc \in [Runners -> PCs]
    /\ plan \in [Runners -> Plans]
    /\ linked \subseteq Runners /\ lock \in Runners \cup {NoRunner}
    /\ tx \in [Runners -> Transactions]
    /\ table \in BOOLEAN
    /\ ledger \in Files
    /\ ran \in [Versions -> [Sums -> Nat]]
    /\ author \in [Versions -> Runners \cup {NoRunner}]
    /\ told \in [Runners -> Versions \cup {NoVersion}]
    /\ authLock \in Runners \cup {NoRunner}
    /\ authLedger \subseteq AuthVersions /\ objects \subseteq AuthVersions
    /\ authTx \in [Runners -> SUBSET AuthVersions]
    /\ \A r \in Runners :
        /\ tx[r].version # NoVersion <=> pc[r] \in {"sql", "row", "commit", "committed"}
        /\ authLock = r <=> pc[r] = "authCommit"

\* migrations.md: "execute full SQL file -> insert ledger row -> commit".  A
\* file has taken effect exactly once if its row is in the ledger, and not at
\* all if it is not, whatever crashed, hung up or ran at the same time.
LedgerIsTruth ==
    \A v \in Versions, s \in Sums : ran[v][s] = (IF ledger[v] = s THEN 1 ELSE 0)

\* migrations.md: "session advisory lock for the full run (concurrent deploy
\* safe)".  While a run that is still connected applies, nobody changes what
\* it planned on: what it has yet to apply is in nobody's ledger row, and
\* every other row is one of its own files.
Applying == {"apply", "sql", "row", "commit"}
PlanStaysTrue ==
    \A r \in linked : pc[r] \in Applying =>
        plan[r].pending = Pending(r) /\ ~Conflict(r)

\* migrations.md: "later migrations not attempted".  A row a run wrote stands
\* on all the files the run has before it, with that run's contents.
AppliedInOrder ==
    \A v \in Versions : author[v] # NoRunner =>
        \A u \in Versions : u < v /\ Local(author[v])[u] # NoFile =>
            ledger[u] = Local(author[v])[u]

\* A migrate that reports success leaves all its files in the ledger, as they
\* are on its disk, and the Auth schema its SDK expects.
SuccessMeansDone ==
    \A r \in Runners : pc[r] = "resolved" /\ Mode(r) = "apply" =>
        /\ \A v \in Versions : Local(r)[v] # NoFile => ledger[v] = Local(r)[v]
        /\ Expected(r) \subseteq authLedger

\* "Athena will not silently modify a drifted schema": objects the ledger has
\* and somebody dropped come back by a repair only.
NoSilentRepair ==
    [][\A a \in AuthVersions : a \in authLedger /\ a \notin objects /\ a \in objects' =>
        \E r \in Runners : Mode(r) = "repair" /\ authLock = r]_vars

\* An SDK that is too old for the Auth schema ("Upgrade @xylex-group/athena")
\* does not migrate it, even if a newer one overtakes it after its own check.
TooOldNeverWrites ==
    [][\A r \in Runners :
        Mode(r) = "apply" /\ pc[r] = "authCommit" /\ pc'[r] = "closing resolved" =>
            authLedger \subseteq Expected(r)]_vars

\* "Released in finally. If the session dies, PostgreSQL drops session locks":
\* no run waits for ever behind one that failed, hung up or crashed.
RunsEnd == \A r \in Runners : <>Ended(r)

\* migrations.md as a whole: what the runs do to the database is what Deployment
\* allows, files taking effect whole, once, in order and on a history that
\* agrees, and a migrate that succeeds has all of them in effect.
Outcome == [r \in Runners |-> IF Ended(r) THEN pc[r] ELSE "running"]
Deployed == INSTANCE Deployment WITH outcome <- Outcome
ImplementsDeployment == Deployed!Spec

\* migrations.md: "Failure -> rollback that migration, no ledger row".  A
\* migration reported as rolled back is not in the ledger from that run.
FailureRollsBack ==
    \A r \in Runners : told[r] # NoVersion => author[told[r]] # r
=============================================================================
