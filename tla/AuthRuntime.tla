---------------------------- MODULE AuthRuntime ----------------------------
(***************************************************************************)
(* The embedded auth server: the routes of src/auth/local/runtime.ts,      *)
(* extended-routes.ts and admin-routes.ts that sign users in and out, and  *)
(* the statements of stores.ts they are made of.                           *)
(*                                                                         *)
(* A request handler runs its store statements one after the other, each   *)
(* its own implicit transaction; between two of them any statement of      *)
(* another request may run, and what a handler decides it decides on the   *)
(* rows it read before.  An action is one statement and the code up to the *)
(* next one.  A handler may also end early, between two statements: it     *)
(* refused the request (a wrong password, a wrong code), or it died.       *)
(***************************************************************************)
EXTENDS Integers, FiniteSets

CONSTANTS
    Users, Tokens, Links,  \* accounts, session tokens, verification tokens
    Requests,     \* requests the server handles at a time
    Kinds,        \* the routes they call
    MaxRequests,  \* bound: requests in a behaviour
    MaxEarly,     \* bound: requests that end early
    NoUser, NoToken, NoLink

SessionKinds == {"changePassword", "setPassword", "revoke", "revokeAll", "revokeOthers",
                 "enable", "disable", "stepUp", "deleteUser"}
AccountKinds == {"signUp", "signIn", "forget", "ban", "unban", "adminRevoke", "remove"}
LinkKinds == {"reset", "verify"}

ASSUME AuthRuntimeAssumption ==
    /\ Kinds \subseteq SessionKinds \cup AccountKinds \cup LinkKinds \cup {"signOut"}
    /\ MaxRequests \in Nat /\ MaxEarly \in Nat
    /\ NoUser \notin Users /\ NoToken \notin Tokens /\ NoLink \notin Links

VARIABLES
    users,     \* rows of athena_auth users, with their two-factor record
    sessions,  \* rows of sessions
    links,     \* rows of verifications: reset tokens and pending sign-ins
    req,       \* the requests under way
    begun, early,  \* requests so far, and those that ended early
    torn       \* history: users whose two-factor writes were interrupted or mixed

tables == <<users, sessions, links>>
vars == <<tables, req, begun, early, torn>>

\* What a handler does first, once it knows who calls.
First == [changePassword |-> "password", setPassword |-> "password", revoke |-> "target",
          revokeAll |-> "purge", revokeOthers |-> "purgeOthers", enable |-> "record",
          disable |-> "unrecord", stepUp |-> "factor", deleteUser |-> "remove",
          signUp |-> "signUp", signIn |-> "signIn", signOut |-> "delete",
          forget |-> "forget", reset |-> "consume", verify |-> "consume",
          ban |-> "ban", unban |-> "unban", adminRevoke |-> "purge", remove |-> "remove"]

PCs == {First[k] : k \in DOMAIN First} \cup
       {"idle", "session", "user", "lift", "refresh", "create", "issue", "rehash", "pend",
        "send", "find", "second", "flagOn", "flagOff"}

UserRows == [status : {"none", "live", "deleted"}, legacy : BOOLEAN,
             flag : BOOLEAN, record : BOOLEAN, ban : {"none", "running", "over"}]
SessionRows == [state : {"unused", "live", "lapsed", "gone"}, user : Users \cup {NoUser}]
LinkRows == [state : {"unused", "live", "gone"}, for : {"none", "reset", "pending"},
             user : Users \cup {NoUser}]
Calls == [kind : DOMAIN First \cup {"none"}, pc : PCs, user : Users \cup {NoUser},
          token : Tokens \cup {NoToken}, link : Links \cup {NoLink},
          legacy : BOOLEAN, flag : BOOLEAN, barred : BOOLEAN, strict : BOOLEAN]

\* legacy and flag are read by a sign-in.  barred and strict are history: begun
\* under a ban not lifted since, begun with two factors not turned off since.
Idle == [kind |-> "none", pc |-> "idle", user |-> NoUser, token |-> NoToken, link |-> NoLink,
         legacy |-> FALSE, flag |-> FALSE, barred |-> FALSE, strict |-> FALSE]
NewUser == [status |-> "live", legacy |-> FALSE, flag |-> FALSE, record |-> FALSE, ban |-> "none"]

\* An account that exists, maybe with an old hash, two factors or a ban that
\* has run out, and its session; or nobody yet.
Init ==
    /\ \/ /\ users \in [Users -> {row \in UserRows : /\ row.status = "live" /\ row.ban # "running"
                                                     /\ row.flag <=> row.record}]
          /\ \E t \in Tokens, u \in Users :
             sessions = [s \in Tokens |-> IF s = t THEN [state |-> "live", user |-> u]
                                                   ELSE [state |-> "unused", user |-> NoUser]]
       \/ /\ users = [u \in Users |-> [NewUser EXCEPT !.status = "none"]]
          /\ sessions = [s \in Tokens |-> [state |-> "unused", user |-> NoUser]]
    /\ links = [l \in Links |-> [state |-> "unused", for |-> "none", user |-> NoUser]]
    /\ req = [r \in Requests |-> Idle]
    /\ begun = 0 /\ early = 0
    /\ torn = {}

-----------------------------------------------------------------------------
(* The statements: what is left of the tables after each.                   *)

Exists(u) == u \in Users /\ users[u].status = "live"

Moved(r, pc) == [req EXCEPT ![r] = IF pc = "idle" THEN Idle ELSE [@ EXCEPT !.pc = pc]]
Goto(r, pc) == req' = Moved(r, pc)
Pardon(q, u) == [r \in Requests |-> IF q[r].user = u THEN [q[r] EXCEPT !.barred = FALSE] ELSE q[r]]

\* UPDATE users: the handler goes on if there was a row, and throws if not.
Row(u, row) == users' = IF Exists(u) THEN [users EXCEPT ![u] = row] ELSE users
Onward(u, next) == IF Exists(u) THEN next ELSE "idle"
Update(r, row, next) == Row(req[r].user, row) /\ Goto(r, Onward(req[r].user, next))

\* Mutant of Delete: rows that have expired are not deleted.
DeleteLive(gone) ==
    sessions' = [t \in Tokens |-> IF t \in gone /\ sessions[t].state = "live"
                                  THEN [sessions[t] EXCEPT !.state = "gone"] ELSE sessions[t]]

\* DELETE FROM sessions
Delete(gone) ==
    sessions' = [t \in Tokens |-> IF t \in gone /\ sessions[t].state \in {"live", "lapsed"}
                                  THEN [sessions[t] EXCEPT !.state = "gone"] ELSE sessions[t]]
SessionsOf(u) == {t \in Tokens : sessions[t].user = u /\ sessions[t].state \in {"live", "lapsed"}}

\* Mutant of Extend: the refresh writes the row back as an upsert.
ExtendUpserts(t) == sessions' = [sessions EXCEPT ![t].state = "live"]

\* UPDATE sessions SET expires_at: a row deleted meanwhile stays deleted.
Extend(t) ==
    sessions' = IF sessions[t].state \in {"live", "lapsed"}
                THEN [sessions EXCEPT ![t].state = "live"] ELSE sessions

\* INSERT INTO verifications
Store(for, u) ==
    \E l \in Links :
       /\ links[l].state = "unused"
       /\ links' = [links EXCEPT ![l] = [state |-> "live", for |-> for, user |-> u]]

\* DELETE FROM verifications ... RETURNING: one of two requests gets the row.
Consume(l) == links' = [links EXCEPT ![l].state = "gone"]

-----------------------------------------------------------------------------
(* A request begins, ends early, and finds out who calls.                   *)

Running(u) == Exists(u) /\ users[u].ban = "running"

Begin(r) ==
    /\ req[r].pc = "idle" /\ begun < MaxRequests
    /\ begun' = begun + 1
    /\ \E k \in Kinds :
       \E u \in Users \cup {NoUser}, t \in Tokens \cup {NoToken}, l \in Links \cup {NoLink} :
          /\ (k \in AccountKinds) = (u # NoUser /\ t = NoToken)
          /\ (k \in LinkKinds) = (l # NoLink) /\ (l # NoLink => links[l].state # "unused")
          /\ (k \in SessionKinds \cup {"signOut"}) = (t # NoToken)
          /\ t # NoToken => sessions[t].state # "unused" /\ u = sessions[t].user
          /\ l # NoLink => u = NoUser
          /\ req' = [req EXCEPT ![r] = [Idle EXCEPT
                       !.kind = k, !.user = u, !.token = t, !.link = l,
                       !.pc = IF k \in SessionKinds THEN "session" ELSE First[k],
                       !.barred = k \in SessionKinds \cup {"signIn"} /\ Running(u),
                       !.strict = k = "signIn" /\ Exists(u) /\ users[u].flag]]
    /\ UNCHANGED <<tables, early, torn>>

\* The handler refuses the request, or dies, before its next statement.
EndEarly(r) ==
    /\ req[r].pc # "idle" /\ early < MaxEarly
    /\ early' = early + 1
    /\ torn' = IF req[r].pc = "flagOff" THEN torn \cup {req[r].user} ELSE torn
    /\ Goto(r, "idle")
    /\ UNCHANGED <<tables, begun>>

\* resolveSession: getSessionByToken ...
ReadSession(r) ==
    /\ req[r].pc = "session"
    /\ Goto(r, IF sessions[req[r].token].state = "live" THEN "user" ELSE "idle")
    /\ UNCHANGED <<tables, begun, early, torn>>

\* Mutant of ReadUser: the ban is left to sign-in.
ReadUserOnly(r) ==
    LET u == req[r].user IN
    /\ req[r].pc = "user"
    /\ IF ~Exists(u) THEN Goto(r, "idle")
       ELSE \E next \in {"refresh", First[req[r].kind]} : Goto(r, next)
    /\ UNCHANGED <<tables, begun, early, torn>>

\* ... getUserById ...
ReadUser(r) ==
    LET u == req[r].user IN
    /\ req[r].pc = "user"
    /\ IF ~Exists(u) \/ users[u].ban = "running" THEN Goto(r, "idle")
       ELSE IF users[u].ban = "over" THEN Goto(r, "lift")
       ELSE \E next \in {"refresh", First[req[r].kind]} : Goto(r, next)
    /\ UNCHANGED <<tables, begun, early, torn>>

\* What the password check of sign-in leads to, on the row read by SignIn: the
\* old hash is replaced, then a second factor is asked for or a session issued.
Verified(row) == IF row.legacy THEN "rehash" ELSE IF row.flag THEN "pend" ELSE "issue"

\* The ban read as run out is cleared, in resolveSession and in sign-in.
Lift(r) ==
    LET u == req[r].user IN
    /\ req[r].pc = "lift"
    /\ \E next \in IF req[r].kind = "signIn" THEN {Verified(req[r])}
                   ELSE {"refresh", First[req[r].kind]} :
       /\ Row(u, [users[u] EXCEPT !.ban = "none"])
       /\ req' = Pardon(Moved(r, Onward(u, next)), u)
    /\ UNCHANGED <<sessions, links, begun, early, torn>>

\* ... updateSessionExpiry
Refresh(r) ==
    /\ req[r].pc = "refresh"
    /\ Extend(req[r].token)
    /\ Goto(r, First[req[r].kind])
    /\ UNCHANGED <<users, links, begun, early, torn>>

-----------------------------------------------------------------------------
(* Signing up, in and out.                                                  *)

SignUp(r) ==
    /\ req[r].pc = "signUp"
    /\ Goto(r, IF users[req[r].user].status = "none" THEN "create" ELSE "idle")
    /\ UNCHANGED <<tables, begun, early, torn>>

\* createUser, which the UNIQUE email refuses to the second of two, and its
\* credential account; with autoSignIn a session follows.
CreateUser(r) ==
    LET u == req[r].user IN
    /\ req[r].pc = "create"
    /\ IF users[u].status = "none"
       THEN /\ users' = [users EXCEPT ![u] = NewUser]
            /\ \E next \in {"issue", "idle"} : Goto(r, next)
       ELSE UNCHANGED users /\ Goto(r, "idle")
    /\ UNCHANGED <<sessions, links, begun, early, torn>>

\* issueSession: createSession needs the user's row; the sign-in's time stamp.
IssueSession(r) ==
    LET u == req[r].user IN
    /\ req[r].pc = "issue"
    /\ IF Exists(u)
       THEN \E t \in Tokens : /\ sessions[t].state = "unused"
                              /\ sessions' = [sessions EXCEPT ![t] = [state |-> "live", user |-> u]]
       ELSE UNCHANGED sessions
    /\ Goto(r, "idle")
    /\ UNCHANGED <<users, links, begun, early, torn>>

\* getUserByEmail, the ban and the password, all on this copy of the row.
SignIn(r) ==
    LET row == users[req[r].user] IN
    /\ req[r].pc = "signIn"
    /\ IF row.status # "live" \/ row.ban = "running" THEN Goto(r, "idle")
       ELSE req' = [req EXCEPT ![r].pc = IF row.ban = "over" THEN "lift" ELSE Verified(row),
                               ![r].legacy = row.legacy, ![r].flag = row.flag]
    /\ UNCHANGED <<tables, begun, early, torn>>

\* Mutant of Rehash: the upgrade path forgets the second factor.
RehashIssues(r) ==
    /\ req[r].pc = "rehash"
    /\ Update(r, [users[req[r].user] EXCEPT !.legacy = FALSE], "issue")
    /\ UNCHANGED <<sessions, links, begun, early, torn>>

\* needsRehash: the whole metadata is written back, with a new hash.
Rehash(r) ==
    /\ req[r].pc = "rehash"
    /\ Update(r, [users[req[r].user] EXCEPT !.legacy = FALSE],
              IF req[r].flag THEN "pend" ELSE "issue")
    /\ UNCHANGED <<sessions, links, begun, early, torn>>

\* two_factor_enabled: a pending sign-in instead of a session.
Pend(r) ==
    /\ req[r].pc = "pend"
    /\ Store("pending", req[r].user)
    /\ Goto(r, "idle")
    /\ UNCHANGED <<users, sessions, begun, early, torn>>

\* /two-factor/verify-totp: the pending sign-in was consumed, or the caller has
\* a session; getUserById, then the record and the code.
Second(r) ==
    /\ req[r].pc = "second"
    /\ Goto(r, IF Exists(req[r].user) THEN "factor" ELSE "idle")
    /\ UNCHANGED <<tables, begun, early, torn>>

Factor(r) ==
    /\ req[r].pc = "factor"
    /\ Goto(r, IF Exists(req[r].user) /\ users[req[r].user].record THEN "issue" ELSE "idle")
    /\ UNCHANGED <<tables, begun, early, torn>>

-----------------------------------------------------------------------------
(* Passwords.                                                               *)

\* /forget-password answers the same whether the user exists or not.
Forget(r) ==
    /\ req[r].pc = "forget"
    /\ Goto(r, IF Exists(req[r].user) THEN "send" ELSE "idle")
    /\ UNCHANGED <<tables, begun, early, torn>>

SendReset(r) ==
    /\ req[r].pc = "send"
    /\ Store("reset", req[r].user)
    /\ Goto(r, "idle")
    /\ UNCHANGED <<users, sessions, begun, early, torn>>

\* consumeVerification, of /reset-password and of /two-factor/verify-totp, which
\* is not called for a token without the prefix of a pending sign-in.
ConsumeLink(r) ==
    LET l == req[r].link
        taken == links[l].state = "live" /\ (req[r].kind = "verify" => links[l].for = "pending")
        mine == links[l].for = IF req[r].kind = "reset" THEN "reset" ELSE "pending"
    IN
    /\ req[r].pc = "consume"
    /\ IF taken THEN Consume(l) ELSE UNCHANGED links
    /\ req' = [req EXCEPT ![r] = IF taken /\ mine
                 THEN [@ EXCEPT !.pc = IF req[r].kind = "reset" THEN "find" ELSE "second",
                                !.user = links[l].user]
                 ELSE Idle]
    /\ UNCHANGED <<users, sessions, begun, early, torn>>

FindUser(r) ==
    /\ req[r].pc = "find"
    /\ Goto(r, IF Exists(req[r].user) THEN "password" ELSE "idle")
    /\ UNCHANGED <<tables, begun, early, torn>>

\* The new hash: then reset-password ends the user's sessions, change-password
\* may end the others, set-password ends none.
WritePassword(r) ==
    /\ req[r].pc = "password"
    /\ \E next \in {"purge", "purgeOthers", "idle"} :
       /\ (next = "purge") = (req[r].kind = "reset")
       /\ next = "purgeOthers" => req[r].kind = "changePassword"
       /\ Update(r, [users[req[r].user] EXCEPT !.legacy = FALSE], next)
    /\ UNCHANGED <<sessions, links, begun, early, torn>>

-----------------------------------------------------------------------------
(* Sessions.                                                                *)

\* /revoke-session: the target must be the caller's, if there is one.
Target(r) ==
    /\ req[r].pc = "target"
    /\ \E t \in Tokens :
       /\ sessions[t].state # "unused"
       /\ req' = [req EXCEPT ![r] =
                    IF sessions[t].state = "live" /\ sessions[t].user # req[r].user THEN Idle
                    ELSE [@ EXCEPT !.pc = "delete", !.token = t]]
    /\ UNCHANGED <<tables, begun, early, torn>>

\* deleteSession, of /sign-out and of /revoke-session.
DeleteSession(r) ==
    /\ req[r].pc = "delete"
    /\ Delete({req[r].token})
    /\ Goto(r, "idle")
    /\ UNCHANGED <<users, links, begun, early, torn>>

\* deleteUserSessions, of /revoke-sessions, /reset-password and the admin routes;
\* with the caller's token excepted of /revoke-other-sessions and /change-password.
Purge(r) ==
    /\ req[r].pc \in {"purge", "purgeOthers"}
    /\ Delete(SessionsOf(req[r].user) \ (IF req[r].pc = "purge" THEN {} ELSE {req[r].token}))
    /\ Goto(r, "idle")
    /\ UNCHANGED <<users, links, begun, early, torn>>

-----------------------------------------------------------------------------
(* Two factors: the record and the flag of the user are written one after   *)
(* the other; the history notes when these writes of two requests mix.      *)

Between(u, pcs) == \E r \in Requests : req[r].user = u /\ req[r].pc \in pcs
Mixed(u, pcs) == IF Between(u, pcs) THEN torn \cup {u} ELSE torn

\* Mutant of Record: the flag is written first.
RecordFlags(r) ==
    /\ req[r].pc = "record"
    /\ Update(r, [users[req[r].user] EXCEPT !.flag = TRUE], "flagOn")
    /\ torn' = Mixed(req[r].user, {"flagOff"})
    /\ UNCHANGED <<sessions, links, begun, early>>

\* createTwoFactor is an upsert; its user must exist.
Record(r) ==
    /\ req[r].pc = "record"
    /\ Update(r, [users[req[r].user] EXCEPT !.record = TRUE], "flagOn")
    /\ torn' = Mixed(req[r].user, {"flagOff"})
    /\ UNCHANGED <<sessions, links, begun, early>>

FlagOn(r) ==
    /\ req[r].pc = "flagOn"
    /\ Update(r, [users[req[r].user] EXCEPT !.flag = TRUE], "idle")
    /\ torn' = Mixed(req[r].user, {"flagOff"})
    /\ UNCHANGED <<sessions, links, begun, early>>

\* deleteTwoFactor deletes what there is.
Unrecord(r) ==
    /\ req[r].pc = "unrecord"
    /\ Row(req[r].user, [users[req[r].user] EXCEPT !.record = FALSE])
    /\ Goto(r, "flagOff")
    /\ torn' = Mixed(req[r].user, {"flagOn"})
    /\ UNCHANGED <<sessions, links, begun, early>>

FlagOff(r) ==
    LET u == req[r].user
        next == Moved(r, "idle")
    IN
    /\ req[r].pc = "flagOff"
    /\ Row(u, [users[u] EXCEPT !.flag = FALSE])
    /\ req' = [x \in Requests |-> IF next[x].user = u THEN [next[x] EXCEPT !.strict = FALSE]
                                   ELSE next[x]]
    /\ torn' = Mixed(u, {"flagOn"})
    /\ UNCHANGED <<sessions, links, begun, early>>

-----------------------------------------------------------------------------
(* Administration, and the end of an account.                               *)

\* Mutant of Ban: a ban without an end is stored as something else.
BanForever(r) ==
    /\ req[r].pc = "ban"
    /\ Update(r, [users[req[r].user] EXCEPT !.ban = "permanent"], "purge")
    /\ UNCHANGED <<sessions, links, begun, early, torn>>

\* /admin/ban-user: updateUser, then deleteUserSessions.
Ban(r) ==
    /\ req[r].pc = "ban"
    /\ Update(r, [users[req[r].user] EXCEPT !.ban = "running"], "purge")
    /\ UNCHANGED <<sessions, links, begun, early, torn>>

Unban(r) ==
    LET u == req[r].user IN
    /\ req[r].pc = "unban"
    /\ Row(u, [users[u] EXCEPT !.ban = "none"])
    /\ req' = Pardon(Moved(r, "idle"), u)
    /\ UNCHANGED <<sessions, links, begun, early, torn>>

\* deleteUser, of /delete-user and /admin/remove-user: its sessions and its
\* two-factor record go with it (ON DELETE CASCADE), verifications stay.
Remove(r) ==
    LET u == req[r].user IN
    /\ req[r].pc = "remove"
    /\ Row(u, [NewUser EXCEPT !.status = "deleted"])
    /\ Delete(SessionsOf(u))
    /\ Goto(r, "idle")
    /\ UNCHANGED <<links, begun, early, torn>>

-----------------------------------------------------------------------------
(* Time: sessions and verifications expire, and so do bans.                 *)

Lapse(t) ==
    /\ sessions[t].state = "live"
    /\ sessions' = [sessions EXCEPT ![t].state = "lapsed"]
    /\ UNCHANGED <<users, links, req, begun, early, torn>>

Expire(l) ==
    /\ links[l].state = "live"
    /\ links' = [links EXCEPT ![l].state = "gone"]
    /\ UNCHANGED <<users, sessions, req, begun, early, torn>>

BanEnds(u) ==
    /\ Running(u)
    /\ users' = [users EXCEPT ![u].ban = "over"]
    /\ req' = Pardon(req, u)
    /\ UNCHANGED <<sessions, links, begun, early, torn>>

Step(r) ==
    \/ Begin(r) \/ EndEarly(r)
    \/ ReadSession(r) \/ ReadUser(r) \/ Lift(r) \/ Refresh(r)
    \/ SignUp(r) \/ CreateUser(r) \/ IssueSession(r)
    \/ SignIn(r) \/ Rehash(r) \/ Pend(r) \/ Second(r) \/ Factor(r)
    \/ Forget(r) \/ SendReset(r) \/ ConsumeLink(r) \/ FindUser(r) \/ WritePassword(r)
    \/ Target(r) \/ DeleteSession(r) \/ Purge(r)
    \/ Record(r) \/ FlagOn(r) \/ Unrecord(r) \/ FlagOff(r)
    \/ Ban(r) \/ Unban(r) \/ Remove(r)

Next ==
    \/ \E r \in Requests : Step(r)
    \/ \E t \in Tokens : Lapse(t)
    \/ \E l \in Links : Expire(l)
    \/ \E u \in Users : BanEnds(u)

Spec == Init /\ [][Next]_vars

-----------------------------------------------------------------------------
(* What the server promises.                                                *)

\* Every row and every request is of its type.
TypeOK ==
    /\ users \in [Users -> UserRows]
    /\ sessions \in [Tokens -> SessionRows]
    /\ links \in [Links -> LinkRows]
    /\ req \in [Requests -> Calls]
    /\ begun \in 0 .. MaxRequests /\ early \in 0 .. MaxEarly
    /\ torn \subseteq Users

\* A session that was signed out, revoked, or ended by a reset, a ban or the
\* end of its account never comes back: not by the refresh of a request that
\* had read it before.
RevokedStaysGone ==
    [][\A t \in Tokens : sessions[t].state = "gone" => sessions'[t].state = "gone"]_vars

\* A request for a route that resolves a session, or a sign-in, that began under
\* a ban gets past neither resolveSession nor the check of /sign-in/email
\* (runtime.ts:213-236, 488-494), unless the ban ended or was lifted meanwhile,
\* be it by another request that had read an older one.  Other routes ask for no
\* ban: /two-factor/verify-totp issues a session whoever is banned
\* (extended-routes.ts:413-452), which resolveSession then refuses.
BanHolds ==
    \A r \in Requests :
       req[r].barred => req[r].pc \in {"session", "user", "signIn"}

\* A sign-in that began when the account had two factors gets no session from
\* the password alone (runtime.ts:504), however its hash was upgraded and its row
\* written meanwhile, unless they were turned off.  One that began before they
\* were turned on may go by the row it had read.
SecondFactorHolds ==
    \A r \in Requests : req[r].kind = "signIn" /\ req[r].pc = "issue" => ~req[r].strict

\* An account that asks for a second factor has the record to check it with:
\* enable stores the record first.  disable deletes it first, so the account is
\* without until disable goes on (extended-routes.ts:388-395).  If it ends there
\* or its writes mix with those of an enable, the account stays without, and is
\* not claimed to be otherwise (`torn`).
NeverLockedOut ==
    \A u \in Users : Exists(u) /\ users[u].flag /\ ~users[u].record
                    => u \in torn \/ Between(u, {"flagOff"})

\* When a password reset or a ban ends, no session of the account is left that
\* was issued before (runtime.ts:608-656, admin-routes.ts:228-239), those issued
\* between its writes included.  A sign-in that has verified the old password may
\* still issue one afterwards.
RevokedAtTheEnd ==
    [][\A r \in Requests :
          /\ req[r].pc # "idle" /\ req'[r].pc = "idle" /\ early' = early
          /\ req[r].kind \in {"reset", "ban"} /\ req[r].pc \notin {"consume", "find"}
          /\ Exists(req[r].user)
          => \A t \in Tokens : sessions'[t].user = req[r].user => sessions'[t].state \in {"gone"}]_vars

=============================================================================
