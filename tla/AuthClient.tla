----------------------------- MODULE AuthClient -----------------------------
(***************************************************************************)
(* The browser's auth client (createAuthModule, src/auth/client.ts)        *)
(* composed with its session store, the cookie jar and the auth server.    *)
(*                                                                         *)
(* A task is one call of the client's API.  It sends a request, the server *)
(* serves it, the answer is handled by synchronous code that calls the     *)
(* session store; requests of different tasks are served and answered in   *)
(* any order.  A request or its answer may be lost, which the client sees  *)
(* as a transport error.                                                   *)
(***************************************************************************)
EXTENDS SessionStore

CONSTANTS
    Tokens,       \* the session tokens the server may issue
    UserOf,       \* per token: the user who signs in with it
    Orgs,         \* the organizations a session may be active in
    Kinds,        \* the API calls the tasks make
    Hydrated,     \* whether the page starts with a session set by the caller
    FirstToken,   \* the token of the session the cookie starts with
    MaxFailures,  \* bound: transport errors in a behaviour
    NoToken, NoOrg, NoTask

ApiCalls ==
    {"signIn", "signOut", "getSession", "setActive", "updateUser", "revoke", "revokeAll"}

\* a session as the client sees it; a token the client does not know is NoToken
ClientSessions == [token : Tokens \cup {NoToken}, org : Orgs \cup {NoOrg}]

ASSUME AuthClientAssumption ==
    /\ Sessions = ClientSessions
    /\ Kinds \subseteq ApiCalls
    /\ FirstToken \in Tokens /\ DOMAIN UserOf = Tokens
    /\ NoToken \notin Tokens /\ NoOrg \notin Orgs /\ NoTask \notin Refreshers
    /\ {"unused", "gone"} \cap (Orgs \cup {NoOrg}) = {}
    /\ Hydrated \in BOOLEAN
    /\ MaxFailures \in Nat

VARIABLES
    task,      \* per task: what it does and how far it has come
    turn,      \* the task whose synchronous code is running
    cookie,    \* the session token in the cookie jar
    server,    \* per token: "unused", "gone" or the organization it is active in
    failures,  \* transport errors so far
    hydrated,  \* the page has handed its initial session to the store
    crossed    \* history: a sign-in and a revocation have crossed

clientVars == <<task, turn, cookie, server, failures, hydrated, crossed>>
allVars == <<vars, clientVars>>

Tasks == Refreshers
Idle == [kind |-> "none", pc |-> "idle", arg |-> NoOrg, token |-> NoToken, answer |-> Failed(FALSE)]
Live(tok) == tok \in Tokens /\ server[tok] \in Orgs \cup {NoOrg}

\* The event loop runs a task's code when no other task's is running.
Free == emits = <<>> /\ turn = NoTask /\ hydrated

AuthInit ==
    /\ Init
    /\ task = [t \in Tasks |-> Idle]
    /\ turn = NoTask
    /\ cookie = FirstToken
    /\ server = [tok \in Tokens |-> IF tok = FirstToken THEN NoOrg ELSE "unused"]
    /\ failures = 0
    /\ hydrated = ~Hydrated
    /\ crossed = FALSE

\* session.setSession(initial session) by the page that holds it
Hydrate ==
    /\ ~hydrated /\ hydrated' = TRUE
    /\ SetSession([token |-> FirstToken, org |-> NoOrg], "authenticated")
    /\ UNCHANGED <<task, turn, cookie, server, failures, crossed>>

Goes(t, pc) == task' = [task EXCEPT ![t].pc = pc]
Done(t) == Goes(t, "done")

\* `arg` is what the call is about: the organization to switch to, or none, or
\* the token to revoke.
Request(t, kind, arg, token) ==
    task' = [task EXCEPT ![t] = [@ EXCEPT !.kind = kind, !.pc = "sent", !.arg = arg, !.token = token]]

\* what no synchronous code of the client changes
Elsewhere == <<server, failures, hydrated>>

\* Start a read of the session, or return at once when one is in flight:
\* refreshSessionStore() and getSession().
Read(t) ==
    IF inFlight = NoEpoch
    THEN BeginRefresh(t) /\ Request(t, "getSession", NoOrg, cookie)
    ELSE Done(t) /\ UNCHANGED vars

GetSession(t) ==
    /\ Free /\ task[t].pc = "idle" /\ "getSession" \in Kinds
    /\ Read(t)
    /\ UNCHANGED <<turn, cookie, crossed, Elsewhere>>

\* every call but getSession and signOut calls the server before the store
CallServer(t, kind, arg) ==
    /\ Free /\ task[t].pc = "idle" /\ kind \in Kinds
    /\ Request(t, kind, arg, cookie)
    /\ UNCHANGED <<vars, turn, cookie, crossed, Elsewhere>>

\* signOut() invalidates the store, then calls the server
SignOut(t) ==
    /\ Free /\ task[t].pc = "idle" /\ "signOut" \in Kinds
    /\ Invalidate
    /\ Request(t, "signOut", NoOrg, cookie)
    /\ UNCHANGED <<turn, cookie, crossed, Elsewhere>>

\* session.revoke of one token, which any listing of sessions may have told;
\* of more than one, it posts /revoke-sessions
Revoke(t) == \E tok \in Tokens : server[tok] # "unused" /\ CallServer(t, "revoke", tok)
RevokeAll(t) == CallServer(t, "revokeAll", NoOrg)

-----------------------------------------------------------------------------
(* The server.  A request reaches it once the store call that sends it has  *)
(* returned.                                                                *)

Serveable(t, kind) ==
    /\ task[t].pc = "sent" /\ task[t].kind = kind /\ turn # t
    /\ kind = "getSession" => calls[t] # NoEpoch

Answer(t, result) == task' = [task EXCEPT ![t] = [@ EXCEPT !.pc = "answered", !.answer = result]]

Refuse(t, kind, clear) ==
    Serveable(t, kind) /\ Answer(t, Failed(clear)) /\ UNCHANGED <<server, crossed>>

\* /sign-in: a session, or a pending second factor without one (line 513), or
\* a refusal
ServeSignIn(t) ==
    \/ /\ Serveable(t, "signIn")
       /\ \E tok \in Tokens :
            /\ server[tok] = "unused"
            /\ server' = [server EXCEPT ![tok] = NoOrg]
            /\ Answer(t, Ok([token |-> tok, org |-> NoOrg]))
       /\ UNCHANGED crossed
    \/ Serveable(t, "signIn") /\ Answer(t, Ok(NoSession)) /\ UNCHANGED <<server, crossed>>
    \/ Refuse(t, "signIn", TRUE)

\* A session whose sign-in has been answered is not known to the client yet.
SigningIn(tok) ==
    \E u \in Tasks : /\ task[u].kind = "signIn" /\ task[u].pc = "answered"
                     /\ task[u].answer = Ok([token |-> tok, org |-> NoOrg])

\* the rows of the tokens are deleted
End(t, tokens) ==
    /\ server' = [tok \in Tokens |-> IF tok \in tokens /\ Live(tok) THEN "gone" ELSE server[tok]]
    /\ crossed' = (crossed \/ \E tok \in tokens : Live(tok) /\ SigningIn(tok))
    /\ Answer(t, Ok(NoSession))

\* /sign-out needs no session
ServeSignOut(t) == Serveable(t, "signOut") /\ End(t, {task[t].token})

\* /revoke-session: of a session of the same user
ServeRevoke(t) ==
    LET own == task[t].token
        target == task[t].arg
    IN  IF ~Live(own) THEN Refuse(t, "revoke", TRUE)
        ELSE IF Live(target) /\ UserOf[target] # UserOf[own] THEN Refuse(t, "revoke", FALSE)
        ELSE Serveable(t, "revoke") /\ End(t, {target})

\* /revoke-sessions
ServeRevokeAll(t) ==
    LET own == task[t].token
    IN  IF ~Live(own) THEN Refuse(t, "revokeAll", TRUE)
        ELSE Serveable(t, "revokeAll") /\ End(t, {tok \in Tokens : UserOf[tok] = UserOf[own]})

\* /organization/set-active: 403 for an organization the user is no member of
ServeSetActive(t) ==
    IF ~Live(task[t].token) THEN Refuse(t, "setActive", TRUE)
    ELSE \/ /\ Serveable(t, "setActive")
            /\ server' = [server EXCEPT ![task[t].token] = task[t].arg]
            /\ Answer(t, Ok(NoSession))
            /\ UNCHANGED crossed
         \/ task[t].arg # NoOrg /\ Refuse(t, "setActive", FALSE)

\* the session of the request's token, or 401
Tell(t, kind) ==
    IF ~Live(task[t].token) THEN Refuse(t, kind, TRUE)
    ELSE /\ Serveable(t, kind)
         /\ Answer(t, Ok([token |-> task[t].token, org |-> server[task[t].token]]))
         /\ UNCHANGED <<server, crossed>>

ServeGetSession(t) == Tell(t, "getSession")
\* answers {user}, of which the client makes a session (FromSignIn)
ServeUpdateUser(t) == Tell(t, "updateUser")

Serve(t) ==
    /\ \/ ServeSignIn(t) \/ ServeSignOut(t) \/ ServeRevoke(t) \/ ServeRevokeAll(t)
       \/ ServeSetActive(t) \/ ServeGetSession(t) \/ ServeUpdateUser(t)
    /\ UNCHANGED <<vars, turn, cookie, failures, hydrated>>

\* The request is lost on its way or its answer on the way back.
Lose(t) ==
    /\ failures < MaxFailures /\ failures' = failures + 1
    /\ task[t].pc \in {"sent", "answered"} /\ turn # t
    /\ task[t].kind = "getSession" => calls[t] # NoEpoch
    /\ Answer(t, Failed(FALSE))
    /\ UNCHANGED <<vars, turn, cookie, server, hydrated, crossed>>

-----------------------------------------------------------------------------
(* Handling the answers.                                                    *)

Answered(t, kind) == Free /\ task[t].pc = "answered" /\ task[t].kind = kind

\* mutant: every failed read clears the session
HandleGetSessionClears(t) ==
    /\ Answered(t, "getSession")
    /\ CompleteRefresh(t, [task[t].answer EXCEPT !.clear = ~task[t].answer.ok])
    /\ Done(t)
    /\ UNCHANGED <<turn, cookie, crossed, Elsewhere>>

\* mutant: a refused read is not reported to the store
HandleGetSessionIgnores(t) ==
    /\ Answered(t, "getSession")
    /\ IF task[t].answer.ok THEN CompleteRefresh(t, task[t].answer) ELSE UNCHANGED vars
    /\ Done(t)
    /\ UNCHANGED <<turn, cookie, crossed, Elsewhere>>

HandleGetSession(t) ==
    /\ Answered(t, "getSession")
    /\ CompleteRefresh(t, task[t].answer)
    /\ Done(t)
    /\ UNCHANGED <<turn, cookie, crossed, Elsewhere>>

\* mutant: an answer without a token gives no session
FromSignInToken(t) == IF task[t].kind = "signIn" THEN task[t].answer.session ELSE NoSession

\* the session in an answer: a sign-in's is a session response; {user}, the
\* answer to an update, is read as one without token
FromSignIn(t) ==
    IF task[t].kind = "signIn" THEN task[t].answer.session
                               ELSE [token |-> NoToken, org |-> NoOrg]

\* applyAuthMutationToSessionStore: an answer with a session becomes the session
HandleMutation(t) ==
    /\ Answered(t, "signIn") \/ Answered(t, "updateUser")
    /\ task[t].answer # Ok(NoSession)
    /\ IF task[t].answer.ok
       THEN SetSession(FromSignIn(t), "authenticated")
       ELSE UNCHANGED vars
    /\ cookie' = IF task[t].kind = "signIn" /\ task[t].answer.ok
                 THEN task[t].answer.session.token ELSE cookie
    /\ Done(t)
    /\ UNCHANGED <<turn, crossed, Elsewhere>>

\* an answer without one, as that of a pending second factor, starts a read
HandleRedirect(t) ==
    /\ Answered(t, "signIn") /\ task[t].answer = Ok(NoSession)
    /\ Read(t)
    /\ UNCHANGED <<turn, cookie, crossed, Elsewhere>>

\* the answer to sign-out expires the cookie and leaves the store alone
HandleSignOut(t) ==
    /\ Answered(t, "signOut")
    /\ cookie' = IF task[t].answer.ok THEN NoToken ELSE cookie
    /\ Done(t)
    /\ UNCHANGED <<vars, turn, crossed, Elsewhere>>

\* shouldInvalidateForRevokedTokens
IsCurrent(token) == snapshot.session # NoSession /\ snapshot.session.token = token

HandleRevoke(t) ==
    /\ Answered(t, "revoke")
    /\ IF task[t].answer.ok /\ IsCurrent(task[t].arg)
       THEN Invalidate ELSE UNCHANGED vars
    /\ Done(t)
    /\ UNCHANGED <<turn, cookie, crossed, Elsewhere>>

\* revokedAll: whatever session is shown is forgotten.  The answer's headers
\* expire the cookie, unless the answer to a sign-in has set it since.
HandleRevokeAll(t) ==
    /\ Answered(t, "revokeAll")
    /\ IF task[t].answer.ok
       THEN /\ Invalidate
            /\ cookie' \in {cookie, NoToken}
            /\ crossed' = (crossed \/ (Live(cookie') /\ cookie # task[t].token))
       ELSE UNCHANGED <<vars, cookie, crossed>>
    /\ Done(t)
    /\ UNCHANGED <<turn, Elsewhere>>

\* patchActiveOrganization, when there is a session to patch; the read of the
\* live session follows in the same turn.
PatchActive(t) ==
    /\ Answered(t, "setActive")
    /\ IF ~task[t].answer.ok
       THEN Done(t) /\ UNCHANGED <<vars, turn>>
       ELSE /\ turn' = t
            /\ Goes(t, "reread")
            /\ IF snapshot.session # NoSession
               THEN SetSession([snapshot.session EXCEPT !.org = task[t].arg], "authenticated")
               ELSE UNCHANGED vars
    /\ UNCHANGED <<cookie, crossed, Elsewhere>>

\* mutant: the patched session is taken for the live one
RereadActiveSkips(t) ==
    /\ turn = t /\ task[t].pc = "reread" /\ emits = <<>>
    /\ turn' = NoTask
    /\ Done(t)
    /\ UNCHANGED <<vars, cookie, crossed, Elsewhere>>

\* await refreshSessionStore()
RereadActive(t) ==
    /\ turn = t /\ task[t].pc = "reread" /\ emits = <<>>
    /\ turn' = NoTask
    /\ Read(t)
    /\ UNCHANGED <<cookie, crossed, Elsewhere>>

StoreLoop == (Deliver \/ Return) /\ UNCHANGED clientVars

AuthNext ==
    \/ Hydrate
    \/ \E t \in Tasks :
         \/ GetSession(t) \/ SignOut(t) \/ Revoke(t) \/ RevokeAll(t)
         \/ CallServer(t, "signIn", NoOrg) \/ CallServer(t, "updateUser", NoOrg)
         \/ \E org \in Orgs \cup {NoOrg} : CallServer(t, "setActive", org)
         \/ Serve(t) \/ Lose(t)
         \/ HandleGetSession(t) \/ HandleMutation(t) \/ HandleRedirect(t) \/ HandleSignOut(t)
         \/ HandleRevoke(t) \/ HandleRevokeAll(t) \/ PatchActive(t) \/ RereadActive(t)
    \/ StoreLoop

AuthSpec == AuthInit /\ [][AuthNext]_allVars

-----------------------------------------------------------------------------
(* Properties                                                               *)

Settled == Free /\ \A t \in Tasks : task[t].pc \in {"idle", "done"}
SomeDone(kind) == \E t \in Tasks : task[t].pc = "done" /\ task[t].kind = kind

\* what get-session would answer now
ServerView == IF Live(cookie) THEN [token |-> cookie, org |-> server[cookie]] ELSE NoSession

\* The tasks and the server keep their types, and a client that shows itself
\* authenticated has a session.
AuthTypeOK ==
    /\ TypeOK
    /\ task \in [Tasks -> [kind : ApiCalls \cup {"none"},
                           pc : {"idle", "sent", "answered", "reread", "done"},
                           arg : Orgs \cup Tokens \cup {NoOrg},
                           token : Tokens \cup {NoToken}, answer : Results]]
    /\ turn \in Tasks \cup {NoTask}
    /\ cookie \in Tokens \cup {NoToken}
    /\ server \in [Tokens -> Orgs \cup {NoOrg, "unused", "gone"}]
    /\ failures \in 0..MaxFailures
    /\ crossed \in BOOLEAN
    /\ snapshot.status = "authenticated" => snapshot.session # NoSession

Made(kind) == \E t \in Tasks : task[t].kind = kind

\* client.ts:1237-1240, "keep SSOT store current": when no request is under way
\* and none was lost, the session the client shows is the one the server holds
\* for its cookie, active organization included, however sign-ins, switches of
\* organization, revocations and reads overlapped.  Without sign-outs, whose
\* case is SignOutIsFinal, and profile updates, whose answer, a bare user,
\* replaces the stored session (client.ts:1188); on a page that starts with its
\* session, for otherwise a switch during the first read has no session to
\* patch and the read it skips for (client.ts:1204) may be older; and unless a
\* sign-in and a revocation crossed: the answer to the sign-in then installs a
\* session that has been revoked, or the answer to a revocation of several
\* tokens forgets one that has not (client.ts:1771-1777).
StoreCurrent ==
    Settled /\ Hydrated /\ failures = 0 /\ ~crossed /\ ~Made("signOut") /\ ~Made("updateUser")
        => snapshot.session = ServerView

\* A lost request never makes the client drop a session the server would still
\* accept (client.ts:1219-1232, SESSION-INV-05), whatever it overlapped with,
\* unless the user asked to sign out or a revocation of several tokens crossed
\* a sign-in.
ErrorsNeverSignOut ==
    Settled /\ Live(cookie) /\ Hydrated /\ ~crossed /\ ~Made("signOut")
        => snapshot.session # NoSession

\* refreshSessionStore and getSession (client.ts:1204-1343): whatever mix of
\* calls overlapped, when they are over and none was lost the store is not left
\* "loading" for a read that is already over.
NotLeftLoading == Settled /\ failures = 0 => snapshot.status # "loading"

\* SESSION-INV-03 (session-invariants.ts:11): "A stale refresh cannot resurrect
\* a signed-out session."  After a completed sign-out and no sign-in the client
\* shows no session.
SignOutIsFinal ==
    Settled /\ SomeDone("signOut") /\ ~SomeDone("signIn") /\ failures = 0
        => snapshot.session = NoSession

=============================================================================
