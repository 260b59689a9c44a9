# Athena JS: models and proofs

TLA+ models of the parts of `@xylex-group/athena` whose correctness depends on the *order* of things: answers that
arrive late, listeners that call back, two deployments at once, a connection lost under COMMIT, a ban against a sign-in,
a draft whose mutation fails. TLC checks them on small instances; TLAPS proves every safety property for every instance.
Paths are relative to `src/` in the repository unless they start with `docs/` or `test/`.

- [The system](#the-system): components, state, interactions, what makes them correct
- [The modules](#the-modules): how each model corresponds to the code
- [The runs](#the-runs): what TLC checks, with which bounds
- [The proofs](#the-proofs): what TLAPS proves, and why the invariants are what they are
- [Where code and documents disagree](#where-code-and-documents-disagree)
- [What is not modelled](#what-is-not-modelled) and the [plan](#plan)

Commands, from this directory:

    tlc -workers 2 -config SessionStore.cfg MCSessionStore
    tlapm MigrationsProofs.tla            # up to five minutes per module

## The system

Athena JS is a client SDK with an embedded server side. In a browser: an auth client with a session store, and React
hooks over a query client. On a server: the same API over PostgreSQL, a gateway or Cloudflare D1, an embedded auth
server with its own schema, and a migration runner.

| component | state it keeps | operations | talks to |
| --- | --- | --- | --- |
| session store `auth/session-store.ts` | snapshot, `epoch`, `inFlightEpoch`, listeners | `setSession`, `invalidate`, `setError`, `beginRefresh`, `completeRefresh`, `subscribe` | listeners (synchronously), auth client |
| auth client `auth/client.ts` | its store, the cookie jar | sign-in, sign-out, get-session, set-active, update-user, revoke, revoke-all | session store, auth server over HTTP |
| query client `react/query-client.ts` | query entries, `inflightQueries`, `requestCounter` | fetch, prefetch, invalidate, set, reset, subscribe | hooks, transports |
| entity graph and mutations `react/query-client.ts`, `react/use-mutation.ts` | entity nodes, normalized pages, entity index | mutate, draft and undo, reconcile, hydrate | query entries, hooks, committed transactions |
| transactions `db/transaction/`, `postgres/transaction.ts`, `client.ts` | a checked-out client, doomed flag, savepoints | `db.transaction`, `db.withTransaction`, `withSavepoint`, `abort` | connection pool, PostgreSQL |
| migration runner `migrations/` | a connection with an advisory lock; the ledger in the database | migrate, repair, status, plan, dry-run | PostgreSQL, Auth schema |
| Auth schema `auth/local/schema.ts` | its own ledger and objects in the database | plan, migrate, repair, readiness | migration runner, embedded auth |
| embedded auth `auth/local/runtime.ts`, `extended-routes.ts` | users, sessions, accounts, verifications, two factors, organizations in a database or in memory | about forty routes | stores, cookies, email callbacks |
| token provider `auth/token-provider.ts` | one cached token, one request in flight | `getToken`, `invalidate` | auth server |
| JWKS cache `auth/oauth2/jwks/` | key sets with fetch times, by URL | lookup, fetch, verification, forced refetch | identity provider |
| owned Postgres runtime `postgres/owned-runtime.ts` | pools by connection string, reference counts | create, `getPool`, `close` | client, transactions |
| cookies `cookies/session-store.ts` | session cookie in chunks | `chunk`, `clean`, read | requests and responses |
| the rest | none that outlives a call | query AST and SQL compilers, policies, gateway, D1/R2, generator, CLI, schema diff, storage, billing, chat | |

What is hard, and what would make each part correct:

- **Session store.** Answers overtake each other and the mutations made meanwhile; a listener may call the store while
  it is being told of a change, inside the loop that tells the others. Correct: a refresh begun before a sign-in or
  sign-out never overwrites it; every listener ends up on the current snapshot and never goes back; no refresh stays
  "in flight" after its caller is gone, for that would disable refreshing for good.
- **Auth client.** Its calls overlap, the server serves them in another order than they were sent, and answers are
  handled in a third one. Correct: at rest the store says what the server would; lost requests change nothing.
- **Query client.** Requests, writes, resets, retries and garbage collection of the same key. Correct: the newest of
  them is shown, callers join the one pending request and never a dead one, `loading` ends.
- **Entity graph and mutations.** One row is on several pages, put together from the graph or holding its own copy,
  filtered by what an update changes or not, while pages are being fetched and mutations overlap. Correct: at rest every
  page shows what the newest reconciled mutation left; a draft does not survive its mutation.
- **Transactions.** A statement, a savepoint, COMMIT or the connection fails, and clients go from hand to hand.
  Correct: all or nothing; a doomed transaction never commits; a client has one user; everybody ends.
- **Migrations.** Deployments race from different branches and SDK versions; processes die between two statements.
  Correct: a file has taken effect exactly once iff its ledger row is there, in order, on a plan that is still true;
  drift is never repaired silently; an old SDK never touches a newer Auth schema; nobody waits for ever.
- **Embedded auth.** Handlers are sequences of store calls without a transaction, so that requests interleave between
  a read and what is decided on it, and a handler may end between two writes. Correct: session routes and sign-ins that
  began under a ban, and sign-ins that began under two factors, are held to them; what was revoked never comes back; a
  reset leaves no session issued before its end; nobody is locked out by writes that went through.
- **JWKS cache.** Verifications overlap, nothing joins their fetches, and the provider rotates its keys. Correct: a key
  that is published verifies, a retired one is not trusted for longer than the time to live and a fetch.

## The modules

| module | models | composed with |
| --- | --- | --- |
| `SessionStore` | `auth/session-store.ts`, `auth/session-controller.ts` | |
| `SessionStoreProofs` | theorems about it | extends `SessionStore` |
| `AuthClient` | session handling of `auth/client.ts`, with cookie jar, network and server | extends `SessionStore`: its actions conjoin the store's own |
| `AuthClientProofs` | theorems about it | extends `AuthClient`, `SessionStoreProofs` |
| `QueryCache` | query entries and requests of `react/query-client.ts`, `react/use-query.ts` | |
| `QueryCacheProofs` | theorems about it | extends `QueryCache` |
| `EntityCache` | normalized pages and mutations of `react/query-client.ts`, `react/use-mutation.ts`, `react/use-athena-mutation.ts` | |
| `EntityCacheProofs` | theorems about it | extends `EntityCache` |
| `Transactions` | `db.transaction`, `db.withTransaction`, pool and server connection | |
| `TransactionsProofs` | theorems about it | extends `Transactions` |
| `Deployment` | what `athena-js migrate` promises: files take effect whole, once, in order | |
| `Migrations` | `migrations/runner.ts`, `planner.ts`, `postgres.ts`, `auth/local/schema.ts` | implements `Deployment` (`Deployed == INSTANCE Deployment WITH outcome <- Outcome`) |
| `MigrationsProofs` | theorems about it | extends `Migrations` |
| `AuthRuntime` | `auth/local/runtime.ts`, `extended-routes.ts`, `admin-routes.ts` over `stores.ts` | |
| `AuthRuntimeProofs` | theorems about it | extends `AuthRuntime` |
| `JwksCache` | `auth/oauth2/jwks/cache.ts`, `get-jwks.ts`, `verify-jws.ts` | |
| `JwksCacheProofs` | theorems about it | extends `JwksCache` |
| `MC...` | the instances TLC checks | extend the above |

JavaScript runs to completion: an action is the synchronous code between two awaits. Where the code between two awaits
calls *out* (the store's listeners), the call is modelled as a stack so that other operations may come in between.

### SessionStore

`epoch`, `inFlight`, `snapshot` and `listeners` are the variables of the closure; the actions bear the names of its
methods. `emits` is the stack of `emit()` loops: each frame has the listeners it has yet to call (the code copies the
set before it iterates, so that `Unsubscribe` does not shorten a loop). While the stack is not empty, only the listener
being notified may call (`Running`, `CanCall`), any operation, or throw: `Throw` ends its loop and the operation that
notifies, in a nested loop too, where the listener around it catches or throws in its turn. A frame pushed by
`beginRefresh` remembers its caller: the function returns the *variable* `epoch` when its loop is over
(`session-store.ts:131`), which a listener may have advanced, and nothing at all when a listener throws.
`calls` is the epoch each asynchronous caller holds until its transport answers. The rest is history: `seen` is what
listeners saw, `authority` the epoch of the last sign-in, sign-out or revocation, `basis` the epoch at which what the
snapshot says was asked for, `missed` the listeners that a throwing one cut off and nothing has notified since, and
`abandoned` the refresh in flight whose caller was not told its epoch.

### AuthClient

A task is one API call of seven kinds: sent, served, answered, handled. The store's refreshers are the tasks. `SignOut`
invalidates before it posts, the others call the server first; `PatchActive` and `RereadActive` are the two halves of one
synchronous run of `setActive` (the store's emit loop lies between them), during which `turn` keeps other tasks out.
`session.revoke` of one token forgets the session shown if it is that token's (`HandleRevoke`); of several, it posts
`/revoke-sessions` and then forgets whatever session is shown (`RevokeAll`, `HandleRevokeAll`, `client.ts:1771-1777`). A
sign-in is answered with a session, with a pending second factor, after which the client reads the session
(`HandleRedirect`, `refreshIfMissing`, `client.ts:1257`), or with a refusal.

The server is a map from session tokens to "unused", "gone" or the organization they are active in, changed atomically by
one `Serve...` per route, translated from `auth/local/runtime.ts` with its guards: a revocation needs a live session and
is of one's own (`UserOf`), set-active may answer that one is no member. `task.arg` is the organization or the token the
call is about, `task.token` the cookie it was sent with; the cookie is set or expired when an answer is handled, except
that a later sign-in may have set it between the headers and the body of `/revoke-sessions` (`HandleRevokeAll` leaves
both open). `Lose` loses a request or an answer; both look alike to the client. `crossed` is history: a revocation ended
a token whose sign-in had been served and not yet handled, or the answer to a revocation of all forgot a session signed
in after it was sent.

### QueryCache

An entry is a record of the fields of `AthenaQueryEntry` that decide anything; data is the version of what the query
returns, `Manual` for `setQueryData`. `requests` holds each started request with its phase until its `.finally` has run:
attempt, `.then`/`.catch`, `.finally` are separate steps because other code runs between them. `Gc` deletes the entry
under a running request, which then goes on with an object the map no longer holds (`orphan`). Server data may change at
any time (`ServerWrite`), so that an answer may be older than another one that was sent later. `writer` and
`invalidatedAt` are history.

### EntityCache

`cache` has the graph (`nodes`), the pages and their requests in flight. A page has its `data`, its `normalizedPage`
(`page`: the rows it is put together from, or none) and its `entityRefs` (`refs`), which the code does not always change
together. `Plain` pages have a partial projection and keep copies; `Watched` ones filter or order by the updated column
and are invalidated instead of patched. A row is its version on the server plus the mutation whose draft it shows.
`WriteEntity`, `Without`, `ReconcileDelete`, `Dehydrated`, `Hydrated` and `Ingested` are the methods of the client as
functions of `cache`; a mutation goes `Begin` (draft and snapshot), `Serve` or `Refuse` (the server), `Updated`, `Deleted`
or `Failed` (reconciled), `Undo`. Of a request only what `QueryCache` shows to matter is kept: whether it is listed
(joined by invalidations), and whether it is superseded (its answer is dropped). `confirmed`, `removed`, `behind` and
`mixed` are history. Two of its effects were found by the proofs, see [below](#the-proofs): removing a row replaces the
page's data, which supersedes even a refetch that was just asked for (`Overtaken`), and undoing a draft does not take a
row out of the graph that was not in it before (`Back` in `Undo`).

### Transactions

Statements are queued on a connection and run in order, whoever queued them: that is what the `pg` client does, and what
makes a statement on a client one has given back dangerous. `Outcomes` is PostgreSQL's side: a block with its writes, a
failed flag and its savepoints, which nest as `withSavepoint` calls do; COMMIT of a failed block rolls back; a write outside of a block commits by itself. Any
write may fail, on the server or already in the compiler; COMMIT may be refused; `Break` loses a connection, rolls its
block back and drops the answers under way. `Release` hands the client to the first transaction waiting, in the same
synchronous run, as the pool does. The callback of `withTransaction` is nondeterministic: it writes, opens savepoints,
catches errors or not, aborts, returns or throws at any point.

### Migrations

A run follows `runMigrations`: lock, ensure the ledger, list and plan, read the Auth plan, apply each file in a
transaction (`sql`, `row`, `commit`, `committed`), migrate or repair the Auth schema, close. A file is its checksum;
its effect is a counter per version and content (`ran`). COMMIT and the arrival of its answer are two steps: between
them the connection may be lost and the run is told of a failure that was none. `Lose` drops lock and transaction on
the server while the process goes on; `Crash` ends both. The Auth schema lives on other connections with its own
transaction lock, so that a run that lost its first connection may still migrate it. `Drop` is somebody dropping an Auth
table. `setup` gives each run its mode, files and SDK generation, so that the instance races different branches.

`Deployment` knows nothing of locks, ledgers, transactions or connections: a migrate that is under way may deploy its
next file, and ends. `Migrations` implements it: the server's COMMIT is `Deploy`, closing and crashing are `End`, and every
other step stutters.

### AuthRuntime

A request is its route and a program counter; an action is one store statement and the code up to the next one, which is
what PostgreSQL makes atomic here: the handlers use no transactions. `ReadSession`, `ReadUser`, `Lift` (an expired ban)
and `Refresh` are `resolveSession`; `SignIn` decides on the row it read (`Verified`), `Rehash` upgrades an old hash,
`Pend` leaves a verification for the second factor instead of a session. `users` is a row with the flags that decide
anything (banned, two factors on, old hash) and its two-factor record; `sessions` and `links` (reset tokens, pending
sign-ins) have a state. `EndEarly` ends a handler between two statements: refused, or dead. Sessions, links and bans run
out at any time (`Lapse`, `Expire`, `BanEnds`). `barred`, `strict` in a request and `torn` are history: it began under a
ban, under two factors; two-factor writes of the user were interrupted or mixed.

### JwksCache

One cache entry and a clock in ticks. A verification looks up (`Start`), fetches if it must (`Provide` is the provider
reading its set, `Store` the arrival of the answer), verifies, and for a token without a key id may fetch once more.
Fetches take up to `Longest` and may fail; the entry is stamped on arrival. The provider publishes and retires keys at
any time.

## The runs

Passing runs:

| run | states | what it shows |
| --- | --- | --- |
| `session_store` | 510,388 | Two refreshers, two listeners that call back with any operation or throw: `LastAuthoritativeWins`, `AllNotified`, `MonotonicNotifications`, `RefreshLands`. |
| `auth_client` | 243,251 (up to symmetry) | Three overlapping calls of any of seven kinds, one lost request: `StoreCurrent` (at rest the store holds the server's session, active organization included), `ErrorsNeverSignOut`, `NotLeftLoading`. |
| `query_cache` | 244,846 | Three requests or writes with a retry, and garbage collection: `NewestWins`, `NewestIsShown`, `CallersJoinPending`, `LoadingEnds`. |
| `entity_cache` | 1,771,187 (up to symmetry) | Two updates or deletions of one row or of two, which three kinds of pages show, with or without drafts, and a fetch: `MutationIsShown`, `DraftsVanish`; `TypeOK` includes that no normalized page names a row the graph has lost. |
| `transactions` | 120,103 | A `db.transaction` and a `db.withTransaction` with up to three savepoints, nested or not, on one client, one lost connection: `AllOrNothing`, `DoomedNeverCommits`, `ClientsAreExclusive`, `CallsEnd`. |
| `migrations` | 72,785 | Two runs out of 18 pairs of modes, branches and SDKs, with failures, lost connections, crashes and drift: `LedgerIsTruth`, `PlanStaysTrue`, `AppliedInOrder`, `SuccessMeansDone`, `NoSilentRepair`, `TooOldNeverWrites`, `RunsEnd`, and the refinement `ImplementsDeployment`. |
| `auth_runtime` | 684,636 | Three overlapping requests of any of nineteen routes on one account, one of which may end early: `BanHolds`, `SecondFactorHolds`, `NeverLockedOut`, `RevokedStaysGone`, `RevokedAtTheEnd`. |
| `jwks_cache` | 3,484,781 | Three overlapping verifications, two keys that come and go, slow and failing fetches: `PublishedKeysVerify`, `RetiredKeysExpire`. |

The other four runs each check one sentence of the documents, comments or tests which the code does not keep; see
[below](#where-code-and-documents-disagree). Every property of a passing run is violated by at least one plausible
change of the code, which PROJECT.json lists under "mutants" and the modules define beside the original ("Mutant").

### Bounds, and why they are enough

| bound | run | why |
| --- | --- | --- |
| `MaxEpoch = 4`, `MaxDepth = 2` | session_store | A stale answer needs a refresh, a mutation and a second refresh: three epochs. Two nested loops suffice for a listener to be told of a newer commit inside an older loop. `MaxEpoch` stops callers only; `CompleteRefresh` may go beyond it. |
| two listeners, two refreshers, one payload | session_store | One listener to call back and one to be overtaken; one refresh cancelled and one after it. Payloads are never compared. |
| three tasks, three tokens of two users, two organizations, `MaxFailures = 1` | auth_client | Every pair of calls overlaps with a third that reads; a revocation of all meets a sign-in of the same user and of another. Tasks are interchangeable (symmetry; only safety is checked). `MaxEpoch = 12` and `MaxDepth = 1` are never reached (no listeners): three tasks make at most three store operations each, besides hydration. |
| `MaxRequests = 3`, `MaxVersion = 1`, `Retries = 1`, one key, one observer | query_cache | Keys do not interact outside of normalized pages. Three numbers allow an old request, a newer one and a write or reset. One retry separates the first attempt from later ones. |
| three pages, two rows, two mutations, `MaxFetches = 1` | entity_cache | One page of each kind. Two mutations overlap, one of them with an older draft, answer or snapshot; with a second row, a removal of one supersedes the refetch that an update of the other asked for. Rows and mutations are interchangeable (symmetry; the run checks only safety). Invalidations fetch beyond the bound, which is for fetches by hooks. The theorems lift these bounds. |
| one call of each kind, one client, `Ops = 2`, `MaxSavepoints = 3`, `MaxBreaks = 1` | transactions | One client forces the hand-over that is at stake; two operations make "part of it" possible; three savepoints nest and follow one another, so that one is opened while an older, rolled back one is still in the block. |
| two runs, two versions, two contents, two Auth migrations | migrations | Locks exclude two; order needs two files; the theorems lift these bounds. |
| one account, two session tokens, one link, `MaxRequests = 3`, `MaxEarly = 1` | auth_runtime | Accounts meet nowhere in these routes. Two requests race on a row while a third decides on what it read before both; a session to be revoked and one issued meanwhile need two tokens. |
| `TTL = 2`, `Cooldown = 1`, `Longest = 1`, `MaxTime = 4`, two keys, three verifications | jwks_cache | Times are compared, never counted: each can be passed and just missed. An old answer, a newer one and a reader of the result are three verifications. |

### Fairness

- `SessionStore`: an `emit()` loop is a JavaScript loop and ends (`WF` of `Deliver` and `Return`); the transport of a
  refresh settles, since `fetch` either answers or rejects.
- `QueryCache`: an attempt ends, by an answer or an error, and what follows is a microtask or a timer of the runtime.
- `Transactions`: the server runs what it is sent, the `pg` client rejects what is outstanding when the connection ends,
  and callbacks come to their end.
- `Migrations`: the server answers and a live process goes on. A run that waits for the advisory lock gets it once it is
  free often enough: weak fairness is sufficient as the holder, live or dead, gives it up for good.

No fairness is assumed of users, of failures, or of garbage collection. `auth_client`, `entity_cache`, `auth_runtime` and
`jwks_cache` check only safety: nothing in that code waits for anything but an answer. Two configurations say
`CHECK_DEADLOCK FALSE`: `auth_client`, whose tasks are used once, and `auth_runtime`, whose limits on tokens, links and
requests end a behaviour.

## The proofs

| theorems | say |
| --- | --- |
| `SessionStoreProofs!TypeCorrect`, `AuthoritativeWins`, `Monotonic`, `Notified` | `TypeOK`, `LastAuthoritativeWins`, `MonotonicNotifications` and `AllNotified` for all payloads, listeners, refreshers, re-entrant operations and bounds |
| `MigrationsProofs!TypeCorrect`, `ExactlyOnce`, `PlanHolds`, `InOrder`, `Success`, `RepairOnly`, `TooOldRefused` | `TypeOK`, `LedgerIsTruth`, `PlanStaysTrue`, `AppliedInOrder`, `SuccessMeansDone`, `NoSilentRepair`, `TooOldNeverWrites` for any number of runs, files, contents and Auth migrations |
| `MigrationsProofs!Refinement` | `Migrations` implements `Deployment`: `Spec => ImplementsDeployment` |
| `TransactionsProofs!TypeCorrect`, `Exclusive`, `Atomicity`, `Doomed` | `TypeOK`, `ClientsAreExclusive`, `AllOrNothing`, `DoomedNeverCommits` for any number of transactions, clients, operations, savepoints and lost connections |
| `AuthClientProofs!ClientTypeCorrect`, `ErrorsKeepSession`, `NoReadNoLoading`, `StoreIsCurrent` | `AuthTypeOK`, `ErrorsNeverSignOut`, `NotLeftLoading`, `StoreCurrent` for any number of tasks, tokens and organizations, any kinds of calls and any number of losses |
| `AuthClientProofs!ClientUsesStore`, `ClientAuthoritativeWins` | what the client does is a behaviour of `SessionStore` (`AuthSpec => Spec`), so what is proved of the store holds of the client's, such as `LastAuthoritativeWins` |
| `QueryCacheProofs!TypeCorrect`, `NewestShown`, `JoinPending`, `Newest` | `TypeOK`, `NewestIsShown`, `CallersJoinPending`, `NewestWins` for any number of keys, observers, requests, retries and versions |
| `EntityCacheProofs!TypeCorrect`, `NewestReconciled`, `Undone` | `TypeOK`, `MutationIsShown`, `DraftsVanish` for any number of pages of each kind, rows, mutations and fetches |
| `AuthRuntimeProofs!TypeCorrect`, `Bans`, `SecondFactor`, `LockedOut`, `Revocation`, `PurgedAtTheEnd` | `TypeOK`, `BanHolds`, `SecondFactorHolds`, `NeverLockedOut`, `RevokedStaysGone`, `RevokedAtTheEnd` for any number of accounts, session tokens, links, requests and early ends |
| `JwksCacheProofs!TypeCorrect`, `PublishedVerify`, `RetiredExpire` | `TypeOK`, `PublishedKeysVerify`, `RetiredKeysExpire` for any number of keys and verifications and all durations |

They rest on the assumption each module names (`SessionStoreAssumption`, `MigrationsAssumption`, ...) and on nothing
else: null values are not values, bounds and durations are natural numbers, kinds are those the code has, setups have
the right shape, a session is a token and an organization, and an identity provider has some keys, finitely many. In
every module `Spec => TypeOK` and the other theorems follow from one inductive invariant, `IInv` (`AInv` in
`AuthClientProofs`), for which `Invariance` is proved: it holds initially, and every action keeps it (one lemma per
action, or per kind of action).

**SessionStore.** `LastAuthoritativeWins` is not inductive: it says nothing of the refresh in flight that may be installed
next. `FlightInv` adds that *the refresh in flight, if any, was begun after the last authoritative mutation*
(`authority < inFlight <= epoch`), which holds as every mutation ends the flight and takes a new epoch. A stale answer
carries an epoch other than `inFlight` and changes nothing. For `Monotonic`: the snapshot's epoch is `epoch`, and no
listener or open frame is ahead of it, so what a loop passes on (the variable, not what it was started for) is at least
as new as what was seen before. For `Notified`, `Covered` adds that a listener has seen the current snapshot or is in a
loop under way: `emit()` copies all listeners, and one leaves a loop only by being shown what is current *then*.

**AuthClient.** `StoreCurrent` speaks of the end of all calls; the invariant has to say why it will be true then. `AInv`
adds to the store's `IInv`

1. `Loop`: the model has no subscribers, so a loop of the store has nobody to call and none is nested in it;
2. `TasksOk`: what a task was answered is what the server did for it. A read that was refused, or a revocation that
   succeeded, is about a token that has *ended*, and ended tokens stay so (`AnswerOk`); the token of a sign-in whose answer
   is not handled yet is nobody else's (`Fresh`), though a revocation may have ended it, which is `crossed`;
3. `Flights`: the read in flight belongs to a task that waits for its answer, and was sent with the present cookie. So
   `loading` has an answer to come, which is `NotLeftLoading`;
4. `Shown`: the session shown is the cookie's, or none, and then the cookie's token has ended. This is `ErrorsNeverSignOut`:
   a lost request ends no token. A revocation of all that forgets a session signed in since is the exception, `crossed`;
5. `Current`: the store shows what the server holds, or the difference is *on its way*: in the answer to a switch or a
   revocation, which makes the client read again or forget the session (`Coming`), or in the answer to the read in flight,
   which is then up to date (`Good`). A switch that finds a session cancels that read; one that finds none can leave an old
   read in flight, which is harmless where none means ended (4), and is not on a page that starts without its session.
   The attempt to prove `StoreCurrent` for such pages showed that, and TLC has a trace: hence `Hydrated` in it.

The proof goes through an intermediate layer: `Steps` shows each action to be one of twenty-one steps that say only what becomes of
the session shown, the read in flight and one task (`StartsRead`, `Takes`, `Patched`, ...); the five parts are then
preserved by these. `StoreSteps` shows that each of them is a step of the store's own specification.

**Migrations.** The invariant is a conjunction of

1. `LockInv`: a *connected* run holds the session lock from its first statement after it until it closes. A run that lost
   its connection holds nothing, but can commit nothing either: `Commit` needs the connection. So two runs never commit
   in the same period.
2. `TxInv`: the open transaction is at the first file the run has pending, and has run exactly what its step says.
3. `TrueInv`: `LedgerIsTruth`, and rows have authors.
4. `PlanInv`: the plan of a connected run is what the ledger leaves to do. Only the lock holder writes the ledger (1), and
   it takes out of its plan what it has committed. Between COMMIT and its answer the two differ by that file, which
   is why `committed` is a case of its own.
5. `DoneInv`: what a run no longer has pending is in the ledger, connected or not, because rows are never removed.
6. `AuthInv`: the transaction under the Auth lock inserts what was missing when it began, and nobody else inserts.
7. `AppliedInOrder`: the file committed is the first pending (2), so all earlier ones of that run are in the ledger (4).

`IInv => PlanStaysTrue, LedgerIsTruth, ...` is then immediate; `SuccessMeansDone` follows from 5 and 6, and the two action
properties from 6. The proofs have one step per action; frame lemmas (`TxFrame`, ...) state that a run's part of
the invariant is untouched by another run's step.

**Refinement.** `Refinement` uses the same invariant. `Commit` is the one step that is a `Deploy`: the open transaction
holds the first pending file (2), the plan it is taken from agrees with the ledger (4), and the ledger says what is in
effect (3), which are the guards of `Deploy`. `Close` and `Crash` are `End`; a run that closes with success has its files in
effect (5, 3). No other step changes `setup`, `ran` or an outcome.

**Transactions.** `AllOrNothing` speaks of what is committed; the invariant has to say what is *about to be*.

1. `HolderOk`, `WaitersOk`: who is between checkout and release has its client to itself; a lost connection has neither a
   block nor a queue, and nobody new gets it.
2. `QueueOk`: nobody has two statements under way, and each is the one its transaction's step has sent. So on a client
   there is at most one statement of its holder, besides a `ROLLBACK` that an earlier holder sent after its release.
3. `ConnOk`: a block belongs to a transaction that may have one, and holds only that transaction's writes.
4. `BlockOk`: unless such a left-over `ROLLBACK` struck it (`intruded`) or it is doomed, an open transaction's block holds
   exactly what it was told of, and each of its savepoints what it was told of when it was set (`WritesMatch`,
   `MarksMatch`). This is what makes `ROLLBACK TO` restore the right set and COMMIT write the whole of it.
5. `OutcomeOk`: nothing is committed before COMMIT; after it, all or nothing, "or" only where the connection was lost.

`DoomedNeverCommits` is 5 for doomed ones: COMMIT is never sent for them (`LocalOk`), and nothing else commits.

**QueryCache.** Request ids come from one counter and are never given out again (`RequestOk`, `ListedOk`). So the number
an entry calls active is that of a request *for this very entry* or of none at all (`EntryOk`): a request that was running
when its entry was reclaimed is `orphan`, and a new entry of that key never calls it active. `writer <= active` is why an
answer that passes the test of `activeRequestId` is the newest. That `loading` has a pending request, and that this
request is the listed one, hold together: either alone is not inductive.

**EntityCache.** The invariant follows a row on its way from the server to a page. `Shape`: a normalized page is put
together from rows the graph has. `Fresh`: whatever the graph or a page shows is current, or behind, or the draft of a
mutation under way, or (on a page that filters) waits for a live refetch. That is not enough for `Undo`, which brings
back a snapshot but leaves alone pages that were not in it: `UnknownCurrent` says that what *they* show of the draft is
not older than what was confirmed. `Drafted` is the same for drafts: unless two were shown at once, a snapshot has none
(`SnapshotClean`), and a page that the undo will not touch shows the draft only of a row that is behind
(`UnknownDrafted`). The attempt to prove this with two rows found two cases that the model with one row did not have,
which TLC then confirmed: a removal supersedes a refetch that an update of another row had asked for, and the undo leaves
the draft of a row that was not in the graph before. `behind` covers both now.

**AuthRuntime.** `Control` says where each route may be and whom it is about, `RowsKnown` whose a session or link is. What
the rows *owe* to a request is the core: while a request that began under a ban has not met it, the ban is still there or
the account is not (`Barred`); a sign-in that began under two factors has read the flag or will read it (`Strict`); whoever
is about to set the flag has stored the secret, or the user's two-factor writes were torn (`Recorded`). Each is kept by
the other requests because lifting a ban or turning two factors off also ends the claim (`barred`, `strict`). `barred` is
set for the routes that look at bans only, session routes and sign-in.

**JwksCache.** `ClockInv`: an answer that has a key was asked for before the key was retired, and it is stamped `Longest`
later at the most; `CallOk` carries this from the fetch through the verification, together with the fact that the key of
a token that stays published is in whatever set is fetched for it.

**Model-checked only.** Liveness (`RefreshLands`, `LoadingEnds`, `CallsEnd`, `RunsEnd`) is out of the prover's reach, as is
anything that needs induction over data.

## Where code and documents disagree

Four sentences are checked by a run of their own. Each has one property, which TLC violates; the trace is the scenario.

| run | what is said | what happens |
| --- | --- | --- |
| `auth_client_sign_out` | `session-invariants.ts:11`: a stale refresh cannot resurrect a signed-out session | A get-session sent after `signOut` invalidated the store and served before the server handles `/sign-out` brings the session back; nothing invalidates afterwards. |
| `query_invalidate` | `react/types.ts:17`: invalidation refetches mounted queries | It joins a request that has read the server already, and that answer is then fresh. |
| `transactions_intruded` | `docs/database-transactions.md:7`: one atomic unit | A doomed `withTransaction` releases its client and then rolls back once more on it, ending the block of the transaction that has it by then. |
| `migrations_failure` | `migrations/postgres.ts:347`: "The migration was rolled back." | The connection is lost after the server committed: the file has taken effect. The next run finds that out from the ledger. |

Others were met while modelling and are plain from the code; the models do what the code does.

- A transient error that ends a refresh leaves the status `loading` with nothing in flight (`auth/session-store.ts:159`);
  `test/finality-session.test.ts:111` has a transient error preserve `authenticated`.
- `setActive` during the first read of a page skips its re-read, and the read begun before the switch is installed
  (`auth/client.ts:1652`); the comment at 1650 says that the live session is always re-read.
- The answer to `/update-user`, a bare user, becomes the session, without token or organization (`auth/client.ts:1188`);
  the comment at 1238 is about keeping the store current.
- A failed `requireAffected` does not doom the transaction (`client.ts:557`), so that a callback that catches it commits;
  ADR 0025 has such a failure always roll back.
- A committed interactive transaction reconciles the caches with an empty list of operations (`client.ts:3146`); ADR 0025
  has mutation descriptors reconciled after commit.
- Undoing a failed optimistic mutation puts back the snapshot of the whole cache (`react/query-client.ts:419`), with
  older data of rows the mutation never touched; a row that the graph did not have keeps its draft there (lines 376-414
  only add), and a page fetched meanwhile goes on showing it.
- An update refetches the pages that filter by what it changed; a removal of another row from such a page before the
  answer supersedes that refetch (`react/query-client.ts:1350`), and the invalidation that follows joins it.
- Sign-in with an old hash writes back the account metadata it read (`auth/local/runtime.ts:497`): a password reset in
  between is undone.

- A sign-in and a revocation cross: the answer to a revocation of several tokens forgets the session that a sign-in has
  installed since it was sent (`auth/client.ts:1771-1777`), and the answer to a sign-in installs a session that a
  revocation served later has ended.
- A listener that throws in the loop of `beginRefresh` leaves the flight in place for good, since `client.ts:1208` is
  outside the `try` that would complete it; one that calls `setError` in that loop has the caller hold an epoch that is
  not in flight (`auth/session-store.ts:131`).
- `verify-totp` asks for no ban (`auth/local/extended-routes.ts:413-452`): it issues a session to an account that was
  banned after its sign-in, which `resolveSession` refuses while the ban stands.

The passing runs exempt these scenarios, and no more:

- `StoreCurrent` and `NotLeftLoading` are stated for behaviours without lost requests, `ErrorsNeverSignOut` without
  sign-out, `StoreCurrent` without sign-out and profile updates and on a page that hands its session to the store
  (`Hydrated`).
- `StoreCurrent` and `ErrorsNeverSignOut` exempt behaviours in which a sign-in and a revocation crossed (`crossed`).
- `RefreshLands` exempts a flight whose caller was not told its epoch (`abandoned`): a listener threw in the loop of
  `beginRefresh`, or called `setError` in it. `AllNotified` exempts the listeners that one that threw cut off, until they
  are next notified (`missed`).
- `AllOrNothing` and `DoomedNeverCommits` exempt a transaction in whose block a foreign ROLLBACK ran (`intruded`).
- `MutationIsShown` exempts a row of which something older was put back (`behind`): by an older answer, an undo, or a
  page whose refetch joined a request that is dropped or was superseded by a removal. `DraftsVanish` exempts a row that
  is behind in this sense, among which is one the graph did not have when its draft was shown, and it exempts behaviours in which two drafts were shown
  at once (`mixed`), since the second snapshot holds the first draft.
- `BanHolds` speaks of session routes and sign-ins that began under a ban, `SecondFactorHolds` of sign-ins that began
  under two factors, neither lifted meanwhile; a ban or a flag written during the sign-in is outside them, and so is
  `verify-totp`. `NeverLockedOut` exempts a user whose two-factor writes were cut short or mixed (`torn`).
  `RevokedAtTheEnd` speaks of sessions issued before the reset or ban ended, not of what a sign-in that verified the old
  password issues after it.
- `PublishedKeysVerify` lets a token *without* key id be rejected among several keys, or within the cooldown.

## What is not modelled

PROJECT.json lists every component with its status. Within the modelled ones:

- `SessionStore`: the texts of errors and reasons; what a session contains beyond its identity.
- `AuthClient`: routes that do not touch the store, among them `verifyTotp`, `verifyOtp` and `verifyBackupCode`
  (`client.ts:2311-2318`), which leave it as it was; sign-up and username sign-in, whose code is that of sign-in; social
  sign-in, which differs in starting no read when its answer has no session (`client.ts:2257-2292`). A `setActive` answer
  that is itself a session (`client.ts:1645-1647`), which the embedded server does not send. An answer's headers and body
  are taken in one step (but see `HandleRevokeAll`). Listeners of the store, which `SessionStore` has; sessions of API
  keys, rate limits.
- `QueryCache`: hydration and `transaction()`, which write entries of several keys at once (pages are `EntityCache`); hooks
  that are disabled; retry delays. A prefetch that makes a new entry has no retries in the code (`entry.retry` is not set);
  the model lets it retry like a fetch.
- `EntityCache`: inserts and upserts, after which the code also invalidates the model's pages; relations between entities; several
  contexts; `cache.transaction()` and the reconciliation of a committed `db.transaction`. The `Plain` pages have the
  primary key: rows without it are not patched by the code (`react/query-client.ts:1277-1318`). An update returns its
  row (one that returns none is not reconciled, line 455); the retries of `executeMutation` are left out.
- `Transactions`: operations of a callback that nobody awaits, and savepoints it runs concurrently; `pool.connect()`
  failing; affected-row checks; D1 batches and gateway transactions, which are one request each.
- `Migrations`: an inspection of the Auth schema succeeds or fails as a whole, where the code records an error per entry
  (`auth/local/schema.ts:598-609`); discovery of files and the SQL guard (a file is a checksum, the guard a refusal); different statement
  checksums for the same Auth migration, blank checksums of old ledgers, holes in the Auth ledger; two rows of one
  version, which the primary key excludes.
- `AuthRuntime`: verification and change of emails, one-time passwords, backup codes, organizations, API keys,
  impersonation; what tokens and passwords look like.
- `JwksCache`: token introspection; signatures (a key verifies its own tokens). `Longest` bounds how long a fetch takes;
  the code sets no such limit, so that `RetiredKeysExpire` is relative to one that the network keeps.

Left out altogether are parts whose state does not outlive a call: compilers from queries to SQL, policies, gateway, D1 and
R2 transports, generator, CLI, schema comparison, email, social providers, billing, chat, storage. They are most of the
repository's lines, so the share of it that is modelled is small. Organizations and invitations
were considered: their handlers check a membership and write a row, and the code keeps nothing across them, neither an
owner nor an invitation's last status. In `postgres/owned-runtime.ts` nothing overlaps: references are counted
synchronously, and a client closes once.

## Plan

Done: every module with theorems for every safety property; `Deployment` with its refinement, and the session store as
the client uses it.

Left to model: single flights with expiry (`auth/token-provider.ts`, `next/topology.ts`); chunked cookies
(`cookies/session-store.ts`); `cache.transaction()`; callbacks that do not await what they start; backup codes and
one-time passwords. An atomic commit per transaction (`Transactions`, through `db`) and a register that takes the latest
write (`SessionStore`, through `authority` and `basis`) are the abstract specifications still worth stating.
