--------------------------- MODULE AuthRuntimeProofs ---------------------------
(***************************************************************************)
(* Proofs about AuthRuntime.  The inductive invariant IInv says, beside    *)
(* the types, whom rows and requests are about, where each route may be,   *)
(* and what the rows still owe to a request that began under a ban or with *)
(* two factors, or that is about to turn two factors on.                   *)
(***************************************************************************)
EXTENDS AuthRuntime, TLAPS

\* A session or verification that was ever issued is somebody's; one that was
\* not is nobody's.
RowsKnown ==
    /\ \A t \in Tokens : (sessions[t].state = "unused") <=> (sessions[t].user = NoUser)
    /\ \A l \in Links : links[l].state # "unused" => links[l].user \in Users

\* Where a request may be, and whom it is about.
Control(q) ==
    /\ q.pc = "idle" => q.kind = "none" /\ q.user = NoUser
    /\ q.pc = "consume" => q.kind \in LinkKinds /\ q.link \in Links
    /\ q.pc \notin {"idle", "consume"} => q.user \in Users
    /\ q.pc \in {"session", "user", "refresh"} => q.kind \in SessionKinds
    /\ q.pc = "signIn" => q.kind = "signIn"
    /\ q.pc = "lift" => q.kind \in SessionKinds \cup {"signIn"}
    /\ q.kind \in SessionKinds => q.token \in Tokens
    /\ q.kind = "reset" => q.pc \in {"consume", "find", "password", "purge"}
    /\ q.kind = "ban" => q.pc \in {"ban", "purge"}

\* A barred request has the ban before it, or an account that is no more.
Barred(q, row) ==
    q.barred => /\ q.pc \in {"session", "user", "signIn"}
                /\ row.status = "deleted" \/ (row.status = "live" /\ row.ban = "running")

\* A strict sign-in will read the flag, or has read it.
Strict(q, row) ==
    q.strict => /\ q.kind = "signIn" /\ q.pc \in {"signIn", "lift", "rehash", "pend"}
                /\ q.pc = "signIn" => row.status = "deleted" \/ (row.status = "live" /\ row.flag)
                /\ q.pc \in {"lift", "rehash"} => q.flag

\* Who is about to set the flag has stored the record, unless another request
\* deleted it meanwhile.
Recorded(q, row, tn) ==
    q.pc = "flagOn" => row.status = "deleted" \/ (row.status = "live" /\ (row.record \/ q.user \in tn))

Owed(q, us, tn) == Barred(q, us[q.user]) /\ Strict(q, us[q.user]) /\ Recorded(q, us[q.user], tn)

\* The inductive invariant.
IInv ==
    /\ TypeOK /\ RowsKnown /\ NeverLockedOut
    /\ \A r \in Requests : Control(req[r]) /\ Owed(req[r], users, torn)

-----------------------------------------------------------------------------
(* Where the routes begin, and the records of a request.                    *)

LEMMA FirstOf ==
    /\ DOMAIN First = SessionKinds \cup AccountKinds \cup LinkKinds \cup {"signOut"}
    /\ \A k \in SessionKinds : First[k] \in {"password", "target", "purge", "purgeOthers", "record",
                                             "unrecord", "factor", "remove"}
    /\ \A k \in AccountKinds : First[k] \in {"signUp", "signIn", "forget", "ban", "unban", "purge",
                                             "remove"}
    /\ First["signIn"] = "signIn" /\ First["ban"] = "ban" /\ First["signOut"] = "delete"
    /\ \A k \in LinkKinds : First[k] = "consume"
    /\ \A k \in AccountKinds : First[k] \in {"ban", "signIn"} => k = First[k]
<1> QED
  BY DEF First, SessionKinds, AccountKinds, LinkKinds

LEMMA PCsOf ==
    /\ {"password", "target", "purge", "purgeOthers", "record", "unrecord", "factor", "remove",
        "signUp", "signIn", "delete", "forget", "consume", "ban", "unban"} \subseteq PCs
    /\ {"idle", "session", "user", "lift", "refresh", "create", "issue", "rehash", "pend",
        "send", "find", "second", "flagOn", "flagOff"} \subseteq PCs
<1> QED
  BY DEF First, PCs

LEMMA IdleCall ==
    /\ Idle \in Calls /\ Idle.pc = "idle" /\ Control(Idle)
    /\ \A us, tn : Owed(Idle, us, tn)
<1>1. /\ Idle \in Calls /\ Idle.pc = "idle" /\ Idle.kind = "none" /\ Idle.user = NoUser
      /\ ~Idle.barred /\ ~Idle.strict
  BY PCsOf DEF Idle, Calls
<1> QED
  BY <1>1 DEF Control, Owed, Barred, Strict, Recorded, SessionKinds

\* The request q, gone on to pc.
At(q, pc) == [q EXCEPT !.pc = pc]

LEMMA AtFields ==
    ASSUME NEW q \in Calls, NEW pc \in PCs
    PROVE  /\ At(q, pc) \in Calls /\ At(q, pc).pc = pc
           /\ At(q, pc).kind = q.kind /\ At(q, pc).user = q.user /\ At(q, pc).token = q.token
           /\ At(q, pc).link = q.link /\ At(q, pc).legacy = q.legacy /\ At(q, pc).flag = q.flag
           /\ At(q, pc).barred = q.barred /\ At(q, pc).strict = q.strict
<1> QED
  BY DEF At, Calls

LEMMA CallFields ==
    ASSUME NEW q \in Calls
    PROVE  /\ q.kind \in DOMAIN First \cup {"none"} /\ q.pc \in PCs /\ q.user \in Users \cup {NoUser}
           /\ q.token \in Tokens \cup {NoToken} /\ q.link \in Links \cup {NoLink}
           /\ q.legacy \in BOOLEAN /\ q.flag \in BOOLEAN /\ q.barred \in BOOLEAN
           /\ q.strict \in BOOLEAN
<1> QED
  BY DEF Calls

\* Goto changes one request.
LEMMA MovedTo ==
    ASSUME TypeOK, NEW r \in Requests, NEW pc \in PCs
    PROVE  /\ pc # "idle" => Moved(r, pc) = [req EXCEPT ![r] = At(req[r], pc)]
           /\ Moved(r, "idle") = [req EXCEPT ![r] = Idle]
<1> QED
  BY DEF Moved, At, TypeOK

-----------------------------------------------------------------------------
(* What a step must respect.                                                *)

\* A row is kept, created, removed, or changed so that no ban ends and no
\* second factor is taken away.
Gentle(a, b) ==
    \/ b = a \/ a.status = "none"
    \/ a.status = "live" /\ b.status = "deleted"
    \/ /\ a.status = "live" /\ b.status = "live"
       /\ a.ban = "running" => b.ban = "running"
       /\ a.flag => b.flag
       /\ a.record => b.record

\* An account that asks for a factor it cannot check.
Locked(row) == row.status = "live" /\ row.flag /\ ~row.record

Considerate ==
    \A u \in Users : /\ Gentle(users[u], users'[u])
                     /\ Locked(users'[u]) => Locked(users[u]) \/ u \in torn'

RowsOk ==
    /\ sessions \in [Tokens -> SessionRows] /\ links \in [Links -> LinkRows]
    /\ RowsKnown

\* What a row owes to a request survives a gentle change.
LEMMA OwedStays ==
    ASSUME NEW q, NEW us, NEW us2, NEW tn, NEW tn2, Owed(q, us, tn), tn \subseteq tn2,
           Gentle(us[q.user], us2[q.user])
    PROVE  Owed(q, us2, tn2)
<1> QED
  BY DEF Owed, Barred, Strict, Recorded, Gentle

\* A step of one request that does not turn its account's flag off.
LEMMA StepKeeps ==
    ASSUME IInv, NEW r \in Requests, req[r].pc # "flagOff",
           NEW q \in Calls, req' = [req EXCEPT ![r] = q], Control(q), Owed(q, users', torn'),
           users' \in [Users -> UserRows], RowsOk', torn \subseteq torn', torn' \subseteq Users,
           begun' \in 0 .. MaxRequests, early' \in 0 .. MaxEarly,
           Considerate
    PROVE  IInv'
<1>1. TypeOK'
  BY DEF TypeOK, RowsOk, IInv
<1>2. \A x \in Requests : req'[x] = IF x = r THEN q ELSE req[x]
  BY DEF IInv, TypeOK
<1>3. \A x \in Requests : Control(req'[x]) /\ Owed(req'[x], users', torn')
  <2> SUFFICES ASSUME NEW x \in Requests, x # r
               PROVE  Control(req[x]) /\ Owed(req[x], users', torn')
    BY <1>2
  <2>1. Control(req[x]) /\ Owed(req[x], users, torn) /\ req[x] \in Calls
    BY DEF IInv, TypeOK
  <2>2. CASE req[x].user \in Users
    BY <2>1, <2>2, OwedStays DEF Considerate
  <2>3. CASE req[x].user \notin Users
    <3>1. req[x].pc \in {"idle", "consume"}
      BY <2>1, <2>3 DEF Control
    <3> QED
      BY <2>1, <3>1 DEF Owed, Barred, Strict, Recorded
  <2> QED
    BY <2>1, <2>2, <2>3
<1>4. ASSUME NEW u \in Users, Exists(u)', users'[u].flag, ~users'[u].record
      PROVE  u \in torn' \/ Between(u, {"flagOff"})'
  <2>1. CASE u \in torn'
    BY <2>1
  <2>2. CASE u \notin torn'
    <3>1. Exists(u) /\ users[u].flag /\ ~users[u].record
      BY <1>4, <2>2 DEF Exists, Considerate, Locked, IInv, TypeOK, UserRows
    <3>2. u \notin torn
      BY <2>2
    <3>3. PICK x \in Requests : req[x].user = u /\ req[x].pc = "flagOff"
      BY <3>1, <3>2 DEF IInv, NeverLockedOut, Between
    <3> QED
      BY <1>2, <3>3 DEF Between
  <2> QED
    BY <2>1, <2>2
<1> QED
  BY <1>1, <1>3, <1>4 DEF IInv, RowsOk, NeverLockedOut

\* Where a request may go on to.
MayGo(q, pc) ==
    /\ q.pc \notin {"idle", "consume"} /\ pc \notin {"consume", "signIn"}
    /\ pc \in {"session", "user", "refresh"} => q.kind \in SessionKinds
    /\ pc = "lift" => q.kind \in SessionKinds \cup {"signIn"}
    /\ q.kind = "reset" => pc \in {"find", "password", "purge"}
    /\ q.kind = "ban" => pc = "purge"
    /\ q.barred => pc = "user"
    /\ q.strict => pc = "pend" \/ (pc \in {"lift", "rehash"} /\ q.flag)

LEMMA AtOk ==
    ASSUME NEW q \in Calls, NEW pc \in PCs, NEW us, NEW tn, Control(q), Owed(q, us, tn),
           pc # "idle", MayGo(q, pc), pc = "flagOn" => Recorded(At(q, pc), us[q.user], tn)
    PROVE  Control(At(q, pc)) /\ Owed(At(q, pc), us, tn)
<1> DEFINE e == At(q, pc)
<1>1. /\ e.pc = pc /\ e.kind = q.kind /\ e.user = q.user /\ e.token = q.token
      /\ e.flag = q.flag /\ e.barred = q.barred /\ e.strict = q.strict
  BY AtFields
<1> HIDE DEF e
<1>2. Control(e)
  BY <1>1 DEF Control, MayGo
<1>3. Barred(e, us[e.user])
  BY <1>1 DEF Owed, Barred, MayGo
<1>4. Strict(e, us[e.user])
  BY <1>1 DEF Owed, Strict, MayGo
<1>5. Recorded(e, us[e.user], tn)
  BY <1>1 DEF Recorded, e
<1> QED
  BY <1>2, <1>3, <1>4, <1>5 DEF Owed, e

\* A step that goes to pc, or ends the request.
LEMMA GotoKeeps ==
    ASSUME IInv, NEW r \in Requests, req[r].pc # "flagOff", NEW pc \in PCs, Goto(r, pc),
           pc # "idle" => MayGo(req[r], pc),
           pc = "flagOn" => Recorded(At(req[r], pc), users'[req[r].user], torn'),
           users' \in [Users -> UserRows], RowsOk', torn \subseteq torn', torn' \subseteq Users,
           begun' \in 0 .. MaxRequests, early' \in 0 .. MaxEarly,
           Considerate
    PROVE  IInv'
<1>1. TypeOK /\ req[r] \in Calls /\ Control(req[r]) /\ Owed(req[r], users, torn)
  BY DEF IInv, TypeOK
<1>2. CASE pc = "idle"
  <2>1. req' = [req EXCEPT ![r] = Idle]
    BY <1>1, <1>2, MovedTo DEF Goto
  <2> QED
    BY <2>1, IdleCall, StepKeeps
<1>3. CASE pc # "idle"
  <2>1. req' = [req EXCEPT ![r] = At(req[r], pc)]
    BY <1>1, <1>3, MovedTo DEF Goto
  <2>2. At(req[r], pc) \in Calls
    BY <1>1, AtFields
  <2>3. Owed(req[r], users', torn')
    <3>1. req[r].user \in Users
      BY <1>1, <1>3 DEF Control, MayGo
    <3> QED
      BY <1>1, <3>1, OwedStays DEF Considerate
  <2>4. Control(At(req[r], pc)) /\ Owed(At(req[r], pc), users', torn')
    BY <1>1, <1>3, <2>3, AtOk
  <2> QED
    BY <2>1, <2>2, <2>4, StepKeeps
<1> QED
  BY <1>2, <1>3

\* A step that leaves the users alone.
LEMMA QuietKeeps ==
    ASSUME IInv, NEW r \in Requests, req[r].pc # "flagOff", NEW pc \in PCs, Goto(r, pc),
           pc # "idle" => MayGo(req[r], pc) /\ pc # "flagOn",
           UNCHANGED <<users, torn>>, RowsOk',
           begun' \in 0 .. MaxRequests, early' \in 0 .. MaxEarly
    PROVE  IInv'
<1>1. users \in [Users -> UserRows] /\ torn \subseteq Users
  BY DEF IInv, TypeOK
<1>2. Considerate
  BY DEF Considerate, Gentle
<1> QED
  BY <1>1, <1>2, GotoKeeps

LEMMA RowsKept ==
    ASSUME IInv
    PROVE  /\ RowsOk
           /\ UNCHANGED <<sessions, links>> => RowsOk'
           /\ begun \in 0 .. MaxRequests /\ early \in 0 .. MaxEarly
<1> QED
  BY DEF IInv, TypeOK, RowsOk, RowsKnown

LEMMA DeleteKeeps ==
    ASSUME IInv, NEW gone, Delete(gone), UNCHANGED links
    PROVE  RowsOk'
<1>1. sessions' \in [Tokens -> SessionRows]
  BY DEF Delete, IInv, TypeOK, SessionRows
<1>2. ASSUME NEW t \in Tokens
      PROVE  (sessions'[t].state = "unused") <=> (sessions'[t].user = NoUser)
  BY DEF Delete, IInv, TypeOK, SessionRows, RowsKnown
<1> QED
  BY <1>1, <1>2 DEF RowsOk, RowsKnown, IInv, TypeOK

LEMMA StoreKeeps ==
    ASSUME IInv, NEW for \in {"reset", "pending"}, NEW u \in Users, Store(for, u),
           UNCHANGED sessions
    PROVE  RowsOk'
<1>1. PICK l \in Links : links' = [links EXCEPT ![l] = [state |-> "live", for |-> for, user |-> u]]
  BY DEF Store
<1> QED
  BY <1>1 DEF RowsOk, RowsKnown, IInv, TypeOK, LinkRows

-----------------------------------------------------------------------------
(* The steps that leave the users alone.                                    *)

LEMMA RequestFacts ==
    ASSUME IInv, NEW r \in Requests
    PROVE  /\ req[r] \in Calls /\ Control(req[r]) /\ Owed(req[r], users, torn)
           /\ users \in [Users -> UserRows] /\ torn \subseteq Users
<1> QED
  BY DEF IInv, TypeOK

\* A request with a barred or strict past, and where its route may be.
LEMMA Facts ==
    ASSUME IInv, NEW r \in Requests
    PROVE  /\ Control(req[r])
           /\ Barred(req[r], users[req[r].user]) /\ Strict(req[r], users[req[r].user])
<1> QED
  BY DEF IInv, Owed

LEMMA ReadSessionKeeps == ASSUME NEW r \in Requests, IInv, ReadSession(r) PROVE IInv'
<1> DEFINE pc == IF sessions[req[r].token].state = "live" THEN "user" ELSE "idle"
<1>1. pc \in {"user", "idle"} /\ Goto(r, pc) /\ req[r].pc = "session"
  BY DEF ReadSession
<1> HIDE DEF pc
<1>2. pc # "idle" => MayGo(req[r], pc)
  BY <1>1, Facts DEF Control, Barred, Strict, MayGo, SessionKinds
<1> QED
  BY <1>1, <1>2, PCsOf, QuietKeeps, RowsKept DEF ReadSession, tables

LEMMA ReadUserKeeps == ASSUME NEW r \in Requests, IInv, ReadUser(r) PROVE IInv'
<1>1. req[r].pc = "user" /\ req[r].kind \in SessionKinds /\ req[r].user \in Users
  BY Facts DEF ReadUser, Control
<1>2. PICK pc \in {"idle", "lift", "refresh", First[req[r].kind]} :
         Goto(r, pc) /\ (pc # "idle" => ~req[r].barred)
  BY <1>1, Facts DEF ReadUser, Barred, Exists
<1>3. pc \in PCs /\ pc # "flagOn" /\ (pc # "idle" => MayGo(req[r], pc))
  BY <1>1, <1>2, Facts, PCsOf, FirstOf DEF Strict, MayGo, SessionKinds
<1> QED
  BY <1>1, <1>2, <1>3, QuietKeeps, RowsKept DEF ReadUser, tables

LEMMA RefreshKeeps == ASSUME NEW r \in Requests, IInv, Refresh(r) PROVE IInv'
<1>1. req[r].pc = "refresh" /\ req[r].kind \in SessionKinds /\ req[r].token \in Tokens
  BY Facts DEF Refresh, Control
<1>2. RowsOk'
  BY <1>1 DEF Refresh, Extend, RowsOk, RowsKnown, IInv, TypeOK, SessionRows
<1>3. First[req[r].kind] \in PCs \ {"flagOn"} /\ MayGo(req[r], First[req[r].kind])
  BY <1>1, Facts, PCsOf, FirstOf DEF Strict, Barred, MayGo, SessionKinds
<1> QED
  BY <1>1, <1>2, <1>3, QuietKeeps, RowsKept DEF Refresh

LEMMA SignUpKeeps == ASSUME NEW r \in Requests, IInv, SignUp(r) PROVE IInv'
<1>1. req[r].pc = "signUp" /\ \E pc \in {"create", "idle"} : Goto(r, pc)
  BY DEF SignUp
<1>2. PICK pc \in {"create", "idle"} : Goto(r, pc)
  BY <1>1
<1>3. pc # "idle" => MayGo(req[r], pc)
  BY <1>1, Facts DEF Control, Barred, Strict, MayGo
<1> QED
  BY <1>1, <1>2, <1>3, PCsOf, QuietKeeps, RowsKept DEF SignUp, tables

LEMMA SecondKeeps == ASSUME NEW r \in Requests, IInv, Second(r) PROVE IInv'
<1>1. req[r].pc = "second" /\ \E pc \in {"factor", "idle"} : Goto(r, pc)
  BY DEF Second
<1>2. PICK pc \in {"factor", "idle"} : Goto(r, pc)
  BY <1>1
<1>3. pc # "idle" => MayGo(req[r], pc)
  BY <1>1, Facts DEF Control, Barred, Strict, MayGo
<1> QED
  BY <1>1, <1>2, <1>3, PCsOf, QuietKeeps, RowsKept DEF Second, tables

LEMMA FactorKeeps == ASSUME NEW r \in Requests, IInv, Factor(r) PROVE IInv'
<1>1. req[r].pc = "factor" /\ \E pc \in {"issue", "idle"} : Goto(r, pc)
  BY DEF Factor
<1>2. PICK pc \in {"issue", "idle"} : Goto(r, pc)
  BY <1>1
<1>3. pc # "idle" => MayGo(req[r], pc)
  BY <1>1, Facts DEF Control, Barred, Strict, MayGo
<1> QED
  BY <1>1, <1>2, <1>3, PCsOf, QuietKeeps, RowsKept DEF Factor, tables

LEMMA ForgetKeeps == ASSUME NEW r \in Requests, IInv, Forget(r) PROVE IInv'
<1>1. req[r].pc = "forget" /\ \E pc \in {"send", "idle"} : Goto(r, pc)
  BY DEF Forget
<1>2. PICK pc \in {"send", "idle"} : Goto(r, pc)
  BY <1>1
<1>3. pc # "idle" => MayGo(req[r], pc)
  BY <1>1, Facts DEF Control, Barred, Strict, MayGo
<1> QED
  BY <1>1, <1>2, <1>3, PCsOf, QuietKeeps, RowsKept DEF Forget, tables

LEMMA FindUserKeeps == ASSUME NEW r \in Requests, IInv, FindUser(r) PROVE IInv'
<1>1. req[r].pc = "find" /\ \E pc \in {"password", "idle"} : Goto(r, pc)
  BY DEF FindUser
<1>2. PICK pc \in {"password", "idle"} : Goto(r, pc)
  BY <1>1
<1>3. pc # "idle" => MayGo(req[r], pc)
  BY <1>1, Facts DEF Control, Barred, Strict, MayGo
<1> QED
  BY <1>1, <1>2, <1>3, PCsOf, QuietKeeps, RowsKept DEF FindUser, tables

LEMMA IssueSessionKeeps == ASSUME NEW r \in Requests, IInv, IssueSession(r) PROVE IInv'
<1>1. req[r].pc = "issue" /\ req[r].user \in Users
  BY Facts DEF IssueSession, Control
<1>2. RowsOk'
  <2>1. CASE UNCHANGED sessions
    BY <2>1, RowsKept DEF IssueSession
  <2>2. ASSUME NEW t \in Tokens,
               sessions' = [sessions EXCEPT ![t] = [state |-> "live", user |-> req[r].user]]
        PROVE  RowsOk'
    BY <1>1, <2>2, AuthRuntimeAssumption
       DEF IssueSession, RowsOk, RowsKnown, IInv, TypeOK, SessionRows
  <2> QED
    BY <2>1, <2>2 DEF IssueSession
<1> QED
  BY <1>1, <1>2, PCsOf, QuietKeeps, RowsKept DEF IssueSession

LEMMA SignInKeeps == ASSUME NEW r \in Requests, IInv, SignIn(r) PROVE IInv'
<1> DEFINE row == users[req[r].user]
<1>1. /\ req[r].pc = "signIn" /\ req[r].user \in Users /\ row \in UserRows
      /\ UNCHANGED <<tables, begun, early, torn>>
  BY Facts DEF SignIn, Control, IInv, TypeOK
<1>2. CASE row.status # "live" \/ row.ban = "running"
  <2>1. Goto(r, "idle")
    BY <1>2 DEF SignIn
  <2> QED
    BY <1>1, <2>1, PCsOf, QuietKeeps, RowsKept DEF tables
<1>3. CASE row.status = "live" /\ row.ban # "running"
  <2> DEFINE pc == IF row.ban = "over" THEN "lift" ELSE Verified(row)
             q == [req[r] EXCEPT !.pc = pc, !.legacy = row.legacy, !.flag = row.flag]
  <2>1. req[r] \in Calls /\ row.flag \in BOOLEAN /\ row.legacy \in BOOLEAN
    BY <1>1 DEF IInv, TypeOK, UserRows
  <2>2. pc \in {"lift", "rehash", "pend", "issue"} /\ (row.flag => pc # "issue")
    BY DEF Verified
  <2>3. req' = [req EXCEPT ![r] = q]
    BY <1>3, <2>1 DEF SignIn, IInv, TypeOK
  <2> HIDE DEF pc
  <2>4. /\ q \in Calls /\ q.pc = pc /\ q.kind = req[r].kind /\ q.user = req[r].user
        /\ q.token = req[r].token /\ q.flag = row.flag /\ q.barred = req[r].barred
        /\ q.strict = req[r].strict
    BY <2>1, <2>2, PCsOf DEF Calls
  <2> HIDE DEF q
  <2>5. ~req[r].barred /\ (req[r].strict => row.flag)
    BY <1>1, <1>3, Facts DEF Barred, Strict
  <2>6. Control(q)
    BY <1>1, <2>2, <2>4, Facts DEF Control
  <2>7. Owed(q, users, torn)
    BY <1>1, <2>2, <2>4, <2>5, Facts DEF Owed, Barred, Strict, Recorded
  <2>8. Considerate /\ users \in [Users -> UserRows] /\ torn \subseteq Users
    BY <1>1 DEF Considerate, Gentle, tables, IInv, TypeOK
  <2> QED
    BY <1>1, <2>3, <2>4, <2>6, <2>7, <2>8, StepKeeps, RowsKept DEF tables
<1> QED
  BY <1>2, <1>3

LEMMA StoreSteps ==
    ASSUME NEW r \in Requests, IInv, Pend(r) \/ SendReset(r)
    PROVE  IInv'
<1>1. /\ req[r].pc \in {"pend", "send"} /\ Goto(r, "idle")
      /\ Store("pending", req[r].user) \/ Store("reset", req[r].user)
      /\ UNCHANGED <<users, sessions, begun, early, torn>>
  BY DEF Pend, SendReset
<1>2. req[r].user \in Users
  BY <1>1, Facts DEF Control
<1> QED
  BY <1>1, <1>2, StoreKeeps, PCsOf, QuietKeeps, RowsKept

LEMMA DeleteSteps ==
    ASSUME NEW r \in Requests, IInv, DeleteSession(r) \/ Purge(r)
    PROVE  IInv'
<1>1. PICK gone : Delete(gone)
  BY DEF DeleteSession, Purge
<1>2. /\ req[r].pc \in {"delete", "purge", "purgeOthers"} /\ Goto(r, "idle")
      /\ UNCHANGED <<users, links, begun, early, torn>>
  BY DEF DeleteSession, Purge
<1> QED
  BY <1>1, <1>2, DeleteKeeps, PCsOf, QuietKeeps, RowsKept

LEMMA ConsumeLinkKeeps == ASSUME NEW r \in Requests, IInv, ConsumeLink(r) PROVE IInv'
<1> DEFINE l == req[r].link
           pc == IF req[r].kind = "reset" THEN "find" ELSE "second"
           q == [req[r] EXCEPT !.pc = pc, !.user = links[l].user]
<1>1. /\ req[r].pc = "consume" /\ l \in Links /\ req[r].kind \in LinkKinds /\ req[r] \in Calls
      /\ ~req[r].barred /\ ~req[r].strict
      /\ UNCHANGED <<users, sessions, begun, early, torn>>
  BY Facts DEF ConsumeLink, Control, Barred, Strict, IInv, TypeOK
<1>2. links' = [links EXCEPT ![l].state = "gone"] \/ UNCHANGED links
  BY DEF ConsumeLink, Consume
<1>3. RowsOk'
  <2>1. CASE UNCHANGED links
    BY <1>1, <2>1, RowsKept
  <2>2. CASE links[l].user \in Users /\ links' = [links EXCEPT ![l].state = "gone"]
    BY <1>1, <2>2 DEF RowsOk, RowsKnown, IInv, TypeOK, LinkRows
  <2>3. CASE links[l].user \notin Users /\ links' = [links EXCEPT ![l].state = "gone"]
    BY <1>1, <2>3 DEF ConsumeLink, RowsOk, RowsKnown, IInv, TypeOK, LinkRows
  <2> QED
    BY <1>2, <2>1, <2>2, <2>3
<1>4. Considerate /\ users \in [Users -> UserRows] /\ torn \subseteq Users
  BY <1>1 DEF Considerate, Gentle, IInv, TypeOK
<1>5. CASE req' = [req EXCEPT ![r] = Idle]
  BY <1>1, <1>3, <1>4, <1>5, IdleCall, StepKeeps, RowsKept
<1>6. CASE req' = [req EXCEPT ![r] = q] /\ links[l].state = "live"
  <2>1. links[l].user \in Users
    BY <1>1, <1>6 DEF IInv, RowsKnown
  <2>2. /\ q \in Calls /\ q.pc = pc /\ q.kind = req[r].kind /\ q.user \in Users
        /\ ~q.barred /\ ~q.strict
    BY <1>1, <2>1, PCsOf DEF Calls
  <2> HIDE DEF q
  <2>3. Control(q)
    BY <1>1, <2>2 DEF Control, LinkKinds, SessionKinds
  <2>4. Owed(q, users, torn)
    BY <2>2 DEF Owed, Barred, Strict, Recorded
  <2> QED
    BY <1>1, <1>3, <1>4, <1>6, <2>2, <2>3, <2>4, StepKeeps, RowsKept
<1> QED
  BY <1>5, <1>6 DEF ConsumeLink

LEMMA TargetKeeps == ASSUME NEW r \in Requests, IInv, Target(r) PROVE IInv'
<1>1. /\ req[r].pc = "target" /\ req[r].user \in Users /\ req[r] \in Calls
      /\ req[r].kind \notin {"reset", "ban"} /\ ~req[r].barred /\ ~req[r].strict
      /\ UNCHANGED <<tables, begun, early, torn>>
  BY Facts DEF Target, Control, Barred, Strict, IInv, TypeOK
<1>2. PICK t \in Tokens : \/ req' = [req EXCEPT ![r] = Idle]
                          \/ req' = [req EXCEPT ![r] = [@ EXCEPT !.pc = "delete", !.token = t]]
  BY DEF Target
<1>3. Considerate /\ users \in [Users -> UserRows] /\ torn \subseteq Users
  BY <1>1 DEF Considerate, Gentle, tables, IInv, TypeOK
<1>4. CASE req' = [req EXCEPT ![r] = Idle]
  BY <1>1, <1>3, <1>4, IdleCall, StepKeeps, RowsKept DEF tables
<1>5. CASE req' = [req EXCEPT ![r] = [@ EXCEPT !.pc = "delete", !.token = t]]
  <2> DEFINE q == [req[r] EXCEPT !.pc = "delete", !.token = t]
  <2>1. /\ q \in Calls /\ q.pc = "delete" /\ q.kind = req[r].kind /\ q.user = req[r].user
        /\ q.token \in Tokens /\ ~q.barred /\ ~q.strict
    BY <1>1, PCsOf DEF Calls
  <2>2. req' = [req EXCEPT ![r] = q]
    BY <1>5 DEF IInv, TypeOK
  <2> HIDE DEF q
  <2>3. Control(q)
    BY <1>1, <2>1 DEF Control
  <2>4. Owed(q, users, torn)
    BY <2>1 DEF Owed, Barred, Strict, Recorded
  <2> QED
    BY <1>1, <1>3, <2>1, <2>2, <2>3, <2>4, StepKeeps, RowsKept DEF tables
<1> QED
  BY <1>2, <1>4, <1>5

\* The request Begin makes.
Begun(k, u, t, l, pc, b, s) ==
    [Idle EXCEPT !.kind = k, !.user = u, !.token = t, !.link = l, !.pc = pc,
                 !.barred = b, !.strict = s]

LEMMA BegunFields ==
    ASSUME NEW k \in DOMAIN First, NEW u \in Users \cup {NoUser}, NEW t \in Tokens \cup {NoToken},
           NEW l \in Links \cup {NoLink}, NEW pc \in PCs, NEW b \in BOOLEAN, NEW s \in BOOLEAN
    PROVE  /\ Begun(k, u, t, l, pc, b, s) \in Calls /\ Begun(k, u, t, l, pc, b, s).pc = pc
           /\ Begun(k, u, t, l, pc, b, s).kind = k /\ Begun(k, u, t, l, pc, b, s).user = u
           /\ Begun(k, u, t, l, pc, b, s).token = t /\ Begun(k, u, t, l, pc, b, s).link = l
           /\ Begun(k, u, t, l, pc, b, s).barred = b /\ Begun(k, u, t, l, pc, b, s).strict = s
<1> DEFINE q1 == [Idle EXCEPT !.kind = k, !.user = u, !.token = t]
           q2 == [q1 EXCEPT !.link = l, !.pc = pc]
           q == [q2 EXCEPT !.barred = b, !.strict = s]
<1>1. q1 \in Calls /\ q1.kind = k /\ q1.user = u /\ q1.token = t
  BY IdleCall DEF Calls
<1>2. Begun(k, u, t, l, pc, b, s) = q
  BY DEF Begun
<1> HIDE DEF q1
<1>3. q2 \in Calls /\ q2.kind = k /\ q2.user = u /\ q2.token = t /\ q2.link = l /\ q2.pc = pc
  BY <1>1 DEF Calls
<1> HIDE DEF q2
<1>4. /\ q \in Calls /\ q.kind = k /\ q.user = u /\ q.token = t /\ q.link = l /\ q.pc = pc
      /\ q.barred = b /\ q.strict = s
  BY <1>3 DEF Calls
<1> QED
  BY <1>2, <1>4

LEMMA BegunOk ==
    ASSUME NEW r \in Requests, IInv, Begin(r)
    PROVE  \E q \in Calls : /\ req' = [req EXCEPT ![r] = q]
                            /\ Control(q) /\ Owed(q, users, torn)
<1>1. PICK k \in Kinds, u \in Users \cup {NoUser}, t \in Tokens \cup {NoToken},
           l \in Links \cup {NoLink} :
          /\ (k \in AccountKinds) = (u # NoUser /\ t = NoToken)
          /\ (k \in LinkKinds) = (l # NoLink) /\ (l # NoLink => links[l].state # "unused")
          /\ (k \in SessionKinds \cup {"signOut"}) = (t # NoToken)
          /\ t # NoToken => sessions[t].state # "unused" /\ u = sessions[t].user
          /\ l # NoLink => u = NoUser
          /\ req' = [req EXCEPT ![r] = [Idle EXCEPT
                       !.kind = k, !.user = u, !.token = t, !.link = l,
                       !.pc = IF k \in SessionKinds THEN "session" ELSE First[k],
                       !.barred = k \in SessionKinds \cup {"signIn"} /\ Running(u),
                       !.strict = k = "signIn" /\ Exists(u) /\ users[u].flag]]
  BY DEF Begin
<1> DEFINE pc == IF k \in SessionKinds THEN "session" ELSE First[k]
           barred == k \in SessionKinds \cup {"signIn"} /\ Running(u)
           strict == k = "signIn" /\ Exists(u) /\ users[u].flag
<1>2. PICK b \in BOOLEAN, s \in BOOLEAN : b = barred /\ s = strict
  <2>1. barred \in BOOLEAN /\ strict \in BOOLEAN
    OBVIOUS
  <2> HIDE DEF barred, strict
  <2> QED
    BY <2>1
<1> DEFINE q == Begun(k, u, t, l, pc, b, s)
<1>12. req' = [req EXCEPT ![r] = q]
  BY <1>1, <1>2, Zenon DEF Begun
<1>4. k \in SessionKinds \cup AccountKinds \cup LinkKinds \cup {"signOut"}
  BY AuthRuntimeAssumption
<1>5. pc \in PCs /\ (pc # "consume" => u \in Users)
  BY <1>1, <1>4, FirstOf, PCsOf DEF IInv, RowsKnown, TypeOK, SessionRows
<1>6. /\ b => pc \in {"session", "signIn"} /\ users[u].status = "live" /\ users[u].ban = "running"
      /\ s => k = "signIn" /\ pc = "signIn" /\ users[u].status = "live" /\ users[u].flag
      /\ b \in BOOLEAN /\ s \in BOOLEAN
  <2>1. /\ b => k \in SessionKinds \cup {"signIn"} /\ Running(u)
        /\ s => k = "signIn" /\ Exists(u) /\ users[u].flag
    BY <1>2
  <2>2. k = "signIn" => k \notin SessionKinds /\ pc = "signIn"
    BY FirstOf DEF SessionKinds
  <2>3. k \in SessionKinds => pc = "session"
    OBVIOUS
  <2> HIDE DEF pc, barred, strict
  <2> QED
    BY <2>1, <2>2, <2>3 DEF Running, Exists
<1>7. /\ pc \notin {"idle", "user", "lift", "refresh", "flagOn"}
      /\ pc = "session" => k \in SessionKinds
      /\ pc = "consume" => k \in LinkKinds /\ l \in Links
      /\ k \in SessionKinds => t \in Tokens
      /\ k = "reset" => pc = "consume"
      /\ k = "ban" => pc = "ban"
      /\ pc = "signIn" => k = "signIn"
  BY <1>1, <1>4, FirstOf DEF SessionKinds, AccountKinds, LinkKinds
<1> HIDE DEF pc, barred, strict
<1>8. /\ q \in Calls /\ q.pc = pc /\ q.kind = k /\ q.user = u /\ q.token = t /\ q.link = l
      /\ q.barred = b /\ q.strict = s
  <2>1. k \in DOMAIN First
    BY <1>4, FirstOf
  <2>2. pc \in PCs /\ b \in BOOLEAN /\ s \in BOOLEAN
    BY <1>5, <1>6
  <2>3. q \in Calls
    BY <2>1, <2>2, BegunFields
  <2>6. q.barred = b
    BY <2>1, <2>2, BegunFields
  <2>7. q.strict = s
    BY <2>1, <2>2, BegunFields
  <2>4. q.pc = pc /\ q.kind = k /\ q.user = u
    BY <2>1, <2>2, BegunFields
  <2>5. q.token = t /\ q.link = l
    BY <2>1, <2>2, BegunFields
  <2> HIDE DEF q
  <2> QED
    BY <2>3, <2>4, <2>5, <2>6, <2>7
<1> HIDE DEF q
<1>9. Control(q)
  BY <1>5, <1>7, <1>8 DEF Control
<1>10. Owed(q, users, torn)
  BY <1>6, <1>7, <1>8 DEF Owed, Barred, Strict, Recorded
<1> QED
  BY <1>8, <1>9, <1>10, <1>12

LEMMA BeginKeeps == ASSUME NEW r \in Requests, IInv, Begin(r) PROVE IInv'
<1>1. PICK q \in Calls : req' = [req EXCEPT ![r] = q] /\ Control(q) /\ Owed(q, users, torn)
  BY BegunOk
<1>2. /\ req[r].pc = "idle" /\ begun' \in 0 .. MaxRequests
      /\ UNCHANGED <<users, sessions, links, early, torn>>
  BY AuthRuntimeAssumption, RowsKept DEF Begin, tables
<1>3. Considerate /\ users \in [Users -> UserRows] /\ torn \subseteq Users
  BY <1>2 DEF Considerate, Gentle, IInv, TypeOK
<1> QED
  BY <1>1, <1>2, <1>3, StepKeeps, RowsKept

-----------------------------------------------------------------------------
(* The steps that change a user's row.                                      *)

LEMMA RowFields ==
    ASSUME NEW row \in UserRows
    PROVE  /\ [row EXCEPT !.legacy = FALSE] \in UserRows
           /\ Gentle(row, [row EXCEPT !.legacy = FALSE]) \/ row.status # "live"
           /\ Locked([row EXCEPT !.legacy = FALSE]) => Locked(row)
<1> DEFINE e == [row EXCEPT !.legacy = FALSE]
<1>1. /\ e \in UserRows /\ e.status = row.status /\ e.flag = row.flag /\ e.record = row.record
      /\ e.ban = row.ban
  BY DEF UserRows
<1> HIDE DEF e
<1>2. (Gentle(row, e) \/ row.status # "live") /\ (Locked(e) => Locked(row))
  BY <1>1 DEF Gentle, Locked
<1> QED
  BY <1>1, <1>2 DEF e

LEMMA FactorFields ==
    ASSUME NEW row \in UserRows, NEW b \in BOOLEAN
    PROVE  /\ [row EXCEPT !.record = b] \in UserRows /\ [row EXCEPT !.flag = b] \in UserRows
           /\ [row EXCEPT !.record = b].status = row.status /\ [row EXCEPT !.flag = b].status = row.status
           /\ [row EXCEPT !.record = b].ban = row.ban /\ [row EXCEPT !.flag = b].ban = row.ban
           /\ [row EXCEPT !.record = b].flag = row.flag /\ [row EXCEPT !.flag = b].record = row.record
           /\ ([row EXCEPT !.record = b].record <=> b) /\ ([row EXCEPT !.flag = b].flag <=> b)
<1> QED
  BY DEF UserRows

LEMMA BanFields ==
    ASSUME NEW row \in UserRows, NEW b \in {"none", "running", "over"}
    PROVE  /\ [row EXCEPT !.ban = b] \in UserRows
           /\ [row EXCEPT !.ban = b].ban = b /\ [row EXCEPT !.ban = b].status = row.status
           /\ [row EXCEPT !.ban = b].flag = row.flag /\ [row EXCEPT !.ban = b].record = row.record
<1> QED
  BY DEF UserRows

\* An update of the caller's row, and what follows it.
LEMMA UpdateKeeps ==
    ASSUME IInv, NEW r \in Requests, req[r].pc # "flagOff", req[r].user \in Users,
           NEW row \in UserRows, NEW next \in PCs, Update(r, row, next),
           Exists(req[r].user) => Gentle(users[req[r].user], row),
           Locked(row) => Locked(users[req[r].user]) \/ req[r].user \in torn',
           next # "idle" => MayGo(req[r], next),
           next = "flagOn" => row.status = "live" /\ row.record,
           RowsOk', torn \subseteq torn', torn' \subseteq Users, UNCHANGED <<begun, early>>
    PROVE  IInv'
<1> DEFINE u == req[r].user
           pc == Onward(u, next)
<1>1. Goto(r, pc) /\ Row(u, row)
  BY DEF Update
<1>2. users \in [Users -> UserRows]
  BY DEF IInv, TypeOK
<1>3. users' \in [Users -> UserRows]
  BY <1>1, <1>2 DEF Row
<1>4. Considerate
  BY <1>1, <1>2 DEF Considerate, Row, Gentle
<1>5. pc \in PCs /\ (pc # "idle" => MayGo(req[r], pc) /\ pc = next /\ users'[u] = row)
  BY <1>1, <1>2, PCsOf DEF Onward, Row
<1>6. pc = "flagOn" => Recorded(At(req[r], pc), users'[u], torn')
  BY <1>5 DEF Recorded
<1> HIDE DEF pc
<1> QED
  BY <1>1, <1>3, <1>4, <1>5, <1>6, GotoKeeps, RowsKept

\* What a request may do from here on, and the row it may do it to.
LEMMA CallerFacts ==
    ASSUME IInv, NEW r \in Requests, req[r].pc \notin {"idle", "consume"}
    PROVE  /\ req[r].user \in Users /\ users[req[r].user] \in UserRows
           /\ torn \subseteq Users
<1> QED
  BY Facts DEF Control, IInv, TypeOK

\* The same for an update of the password.
LEMMA RowKeeps ==
    ASSUME IInv, NEW r \in Requests, req[r].pc \in {"rehash", "password"}, NEW next \in PCs,
           Update(r, [users[req[r].user] EXCEPT !.legacy = FALSE], next),
           next # "idle" => MayGo(req[r], next), next # "flagOn",
           UNCHANGED <<sessions, links, begun, early, torn>>
    PROVE  IInv'
<1> DEFINE row == [users[req[r].user] EXCEPT !.legacy = FALSE]
<1>1. row \in UserRows /\ (Exists(req[r].user) => Gentle(users[req[r].user], row))
      /\ (Locked(row) => Locked(users[req[r].user]))
  BY CallerFacts, RowFields DEF Exists
<1> HIDE DEF row
<1>2. Update(r, row, next)
  BY DEF row
<1> QED
  BY <1>1, <1>2, CallerFacts, UpdateKeeps, RowsKept

LEMMA RehashKeeps == ASSUME NEW r \in Requests, IInv, Rehash(r) PROVE IInv'
<1> DEFINE next == IF req[r].flag THEN "pend" ELSE "issue"
<1>1. req[r].pc = "rehash" /\ next \in {"pend", "issue"} /\ MayGo(req[r], next)
  BY Facts DEF Rehash, Control, Barred, Strict, MayGo
<1> QED
  BY <1>1, PCsOf, RowKeeps DEF Rehash

LEMMA WritePasswordKeeps == ASSUME NEW r \in Requests, IInv, WritePassword(r) PROVE IInv'
<1>1. PICK next \in {"purge", "purgeOthers", "idle"} :
         /\ Update(r, [users[req[r].user] EXCEPT !.legacy = FALSE], next)
         /\ req[r].kind = "reset" => next = "purge"
  BY DEF WritePassword
<1>2. req[r].pc = "password" /\ (next # "idle" => MayGo(req[r], next))
  BY <1>1, Facts DEF WritePassword, Control, Barred, Strict, MayGo
<1> QED
  BY <1>1, <1>2, PCsOf, RowKeeps DEF WritePassword

LEMMA RecordKeeps == ASSUME NEW r \in Requests, IInv, Record(r) PROVE IInv'
<1> DEFINE u == req[r].user
           row == [users[u] EXCEPT !.record = TRUE]
<1>1. /\ req[r].pc = "record" /\ UNCHANGED <<sessions, links, begun, early>>
      /\ torn' \in {torn, torn \cup {u}} /\ Update(r, row, "flagOn")
  BY DEF Record, Mixed
<1>2. /\ row \in UserRows /\ row.status = users[u].status /\ row.ban = users[u].ban
      /\ row.flag = users[u].flag /\ row.record
  BY <1>1, CallerFacts, FactorFields
<1> HIDE DEF row
<1>3. (Exists(u) => Gentle(users[u], row)) /\ ~Locked(row)
  BY <1>2 DEF Gentle, Exists, Locked
<1>4. MayGo(req[r], "flagOn")
  BY <1>1, Facts DEF Control, Barred, Strict, MayGo
<1>5. CASE Exists(u)
  BY <1>1, <1>2, <1>3, <1>4, <1>5, CallerFacts, PCsOf, UpdateKeeps, RowsKept DEF Exists
<1>6. CASE ~Exists(u)
  <2>1. Goto(r, "idle") /\ UNCHANGED users
    BY <1>1, <1>6 DEF Update, Row, Onward
  <2>2. Considerate /\ users \in [Users -> UserRows] /\ torn' \subseteq Users
    BY <1>1, <2>1, CallerFacts DEF Considerate, Gentle, IInv, TypeOK
  <2> QED
    BY <1>1, <2>1, <2>2, PCsOf, GotoKeeps, RowsKept
<1> QED
  BY <1>5, <1>6

LEMMA FlagOnKeeps == ASSUME NEW r \in Requests, IInv, FlagOn(r) PROVE IInv'
<1> DEFINE u == req[r].user
           row == [users[u] EXCEPT !.flag = TRUE]
<1>1. /\ req[r].pc = "flagOn" /\ UNCHANGED <<sessions, links, begun, early>>
      /\ torn' \in {torn, torn \cup {u}} /\ Update(r, row, "idle")
  BY DEF FlagOn, Mixed
<1>2. /\ row \in UserRows /\ row.status = users[u].status /\ row.ban = users[u].ban
      /\ row.record = users[u].record /\ row.flag
  BY <1>1, CallerFacts, FactorFields
<1> HIDE DEF row
<1>3. Exists(u) => Gentle(users[u], row)
  BY <1>2 DEF Gentle, Exists
<1>4. Locked(row) => u \in torn
  BY <1>1, <1>2 DEF Locked, IInv, Owed, Recorded
<1> QED
  BY <1>1, <1>2, <1>3, <1>4, CallerFacts, PCsOf, UpdateKeeps, RowsKept

LEMMA BanKeeps == ASSUME NEW r \in Requests, IInv, Ban(r) PROVE IInv'
<1> DEFINE u == req[r].user
           row == [users[u] EXCEPT !.ban = "running"]
<1>1. /\ req[r].pc = "ban" /\ UNCHANGED <<sessions, links, begun, early, torn>>
      /\ Update(r, row, "purge")
  BY DEF Ban
<1>2. /\ row \in UserRows /\ row.status = users[u].status /\ row.ban = "running"
      /\ row.record = users[u].record /\ row.flag = users[u].flag
  BY <1>1, CallerFacts, BanFields
<1> HIDE DEF row
<1>3. (Exists(u) => Gentle(users[u], row)) /\ (Locked(row) => Locked(users[u]))
  BY <1>2 DEF Gentle, Exists, Locked
<1>4. MayGo(req[r], "purge")
  BY <1>1, Facts DEF Control, Barred, Strict, MayGo
<1> QED
  BY <1>1, <1>2, <1>3, <1>4, CallerFacts, PCsOf, UpdateKeeps, RowsKept

LEMMA NewRows ==
    /\ NewUser \in UserRows /\ ~Locked(NewUser)
    /\ [NewUser EXCEPT !.status = "deleted"] \in UserRows
    /\ [NewUser EXCEPT !.status = "deleted"].status = "deleted"
<1> QED
  BY DEF UserRows, NewUser, Locked

LEMMA RemoveKeeps == ASSUME NEW r \in Requests, IInv, Remove(r) PROVE IInv'
<1> DEFINE u == req[r].user
           row == [NewUser EXCEPT !.status = "deleted"]
<1>1. /\ req[r].pc = "remove" /\ UNCHANGED <<links, begun, early, torn>>
      /\ Row(u, row) /\ Delete(SessionsOf(u)) /\ Goto(r, "idle")
  BY DEF Remove
<1>2. row \in UserRows /\ row.status = "deleted"
  BY NewRows
<1> HIDE DEF row
<1>3. users \in [Users -> UserRows] /\ users' \in [Users -> UserRows] /\ torn \subseteq Users
  BY <1>1, <1>2 DEF Row, IInv, TypeOK
<1>4. Considerate
  BY <1>1, <1>2, <1>3 DEF Considerate, Row, Exists, Gentle, Locked
<1> QED
  BY <1>1, <1>3, <1>4, DeleteKeeps, PCsOf, GotoKeeps, RowsKept

LEMMA CreateUserKeeps == ASSUME NEW r \in Requests, IInv, CreateUser(r) PROVE IInv'
<1> DEFINE u == req[r].user
<1>1. /\ req[r].pc = "create" /\ UNCHANGED <<sessions, links, begun, early, torn>>
      /\ \E pc \in {"issue", "idle"} : Goto(r, pc)
      /\ users' = users \/ (users[u].status = "none" /\ users' = [users EXCEPT ![u] = NewUser])
  BY DEF CreateUser
<1>2. PICK pc \in {"issue", "idle"} : Goto(r, pc)
  BY <1>1
<1>3. users \in [Users -> UserRows] /\ users' \in [Users -> UserRows] /\ torn \subseteq Users
  BY <1>1, NewRows DEF IInv, TypeOK
<1>4. Considerate
  BY <1>1, <1>3, NewRows DEF Considerate, Gentle
<1>5. pc # "idle" => MayGo(req[r], pc)
  BY <1>1, <1>2, Facts DEF Control, Barred, Strict, MayGo
<1> QED
  BY <1>1, <1>2, <1>3, <1>4, <1>5, PCsOf, GotoKeeps, RowsKept

-----------------------------------------------------------------------------
(* The ends of a ban: they pardon the requests that began under it.         *)

LEMMA PardonFields ==
    ASSUME NEW q \in Calls
    PROVE  LET e == [q EXCEPT !.barred = FALSE] IN
           /\ e \in Calls /\ ~e.barred /\ e.pc = q.pc /\ e.kind = q.kind /\ e.user = q.user
           /\ e.token = q.token /\ e.link = q.link /\ e.flag = q.flag /\ e.strict = q.strict
<1> QED
  BY DEF Calls

LEMMA PardonKeeps ==
    ASSUME IInv, NEW u \in Users, NEW ban \in {"none", "over"},
           users' = users \/ (Exists(u) /\ users' = [users EXCEPT ![u] = [@ EXCEPT !.ban = ban]]),
           NEW m \in [Requests -> Calls], req' = Pardon(m, u),
           \A x \in Requests : /\ Control(m[x]) /\ Owed(m[x], users, torn)
                               /\ req[x].pc = "flagOff" => m[x] = req[x],
           UNCHANGED <<sessions, links, begun, early, torn>>
    PROVE  IInv'
<1>1. /\ users \in [Users -> UserRows] /\ users' \in [Users -> UserRows] /\ torn \subseteq Users
      /\ \A v \in Users : /\ users'[v].status = users[v].status /\ users'[v].flag = users[v].flag
                          /\ users'[v].record = users[v].record
                          /\ v # u => users'[v] = users[v]
  <2>1. users \in [Users -> UserRows] /\ torn \subseteq Users
    BY DEF IInv, TypeOK
  <2> DEFINE row == [users[u] EXCEPT !.ban = ban]
  <2>2. /\ row \in UserRows /\ row.status = users[u].status /\ row.flag = users[u].flag
        /\ row.record = users[u].record
    <3>1. ban \in {"none", "running", "over"} /\ users[u] \in UserRows
      BY <2>1
    <3>2. row \in UserRows /\ row.status = users[u].status
      BY <3>1, BanFields
    <3>3. row.flag = users[u].flag
      BY <3>1, BanFields
    <3>4. row.record = users[u].record
      BY <3>1, BanFields
    <3> QED
      BY <3>2, <3>3, <3>4
  <2>3. users' = users \/ users' = [users EXCEPT ![u] = row]
    BY <2>1
  <2> HIDE DEF row
  <2> QED
    BY <2>1, <2>2, <2>3
<1>2. ASSUME NEW x \in Requests
      PROVE  /\ req'[x] \in Calls /\ Control(req'[x]) /\ Owed(req'[x], users', torn')
             /\ req'[x].pc = m[x].pc /\ req'[x].user = m[x].user
  <2>1. m[x] \in Calls /\ Control(m[x]) /\ Owed(m[x], users, torn)
    OBVIOUS
  <2>2. CASE m[x].user = u
    <3> DEFINE e == [m[x] EXCEPT !.barred = FALSE]
    <3>1. req'[x] = e
      BY <2>2 DEF Pardon
    <3>2. /\ e \in Calls /\ ~e.barred /\ e.pc = m[x].pc /\ e.kind = m[x].kind
          /\ e.user = m[x].user /\ e.token = m[x].token /\ e.link = m[x].link
          /\ e.flag = m[x].flag /\ e.strict = m[x].strict
      BY <2>1, PardonFields
    <3> HIDE DEF e
    <3>3. Control(e)
      BY <2>1, <3>2 DEF Control
    <3>4. Owed(e, users', torn')
      BY <1>1, <2>1, <2>2, <3>2 DEF Owed, Barred, Strict, Recorded
    <3> QED
      BY <3>1, <3>2, <3>3, <3>4
  <2>3. CASE m[x].user # u
    <3>1. req'[x] = m[x]
      BY <2>3 DEF Pardon
    <3>2. CASE m[x].user \in Users
      BY <1>1, <2>1, <2>3, <3>1, <3>2 DEF Owed
    <3>3. CASE m[x].user \notin Users
      BY <2>1, <3>1, <3>3 DEF Control, Owed, Barred, Strict, Recorded
    <3> QED
      BY <3>2, <3>3
  <2> QED
    BY <2>2, <2>3
<1>3. TypeOK' /\ RowsKnown'
  <2>1. req' \in [Requests -> Calls]
    BY <1>2 DEF Pardon
  <2> QED
    BY <1>1, <2>1, RowsKept DEF TypeOK, RowsOk
<1>4. NeverLockedOut'
  BY <1>1, <1>2 DEF IInv, NeverLockedOut, Exists, Between
<1> QED
  BY <1>2, <1>3, <1>4 DEF IInv

\* The requests once r has gone on.
LEMMA MovedOk ==
    ASSUME IInv, NEW r \in Requests, req[r].pc # "flagOff", NEW pc \in PCs, pc # "flagOn",
           pc # "idle" => MayGo(req[r], pc)
    PROVE  /\ Moved(r, pc) \in [Requests -> Calls]
           /\ \A x \in Requests : /\ Control(Moved(r, pc)[x]) /\ Owed(Moved(r, pc)[x], users, torn)
                                  /\ req[x].pc = "flagOff" => Moved(r, pc)[x] = req[x]
<1>1. /\ TypeOK /\ req \in [Requests -> Calls]
      /\ \A x \in Requests : Control(req[x]) /\ Owed(req[x], users, torn)
  BY DEF IInv, TypeOK
<1>2. PICK q \in Calls : /\ Moved(r, pc) = [req EXCEPT ![r] = q]
                         /\ Control(q) /\ Owed(q, users, torn)
  <2>1. CASE pc = "idle"
    BY <1>1, <2>1, MovedTo, IdleCall
  <2>2. CASE pc # "idle"
    BY <1>1, <2>2, MovedTo, AtFields, AtOk
  <2> QED
    BY <2>1, <2>2
<1> QED
  BY <1>1, <1>2

LEMMA LiftKeeps == ASSUME NEW r \in Requests, IInv, Lift(r) PROVE IInv'
<1> DEFINE u == req[r].user
<1>1. /\ req[r].pc = "lift" /\ u \in Users /\ req[r].kind \in SessionKinds \cup {"signIn"}
      /\ UNCHANGED <<sessions, links, begun, early, torn>>
  BY Facts DEF Lift, Control
<1>2. PICK next \in IF req[r].kind = "signIn" THEN {Verified(req[r])}
                    ELSE {"refresh", First[req[r].kind]} :
         /\ Row(u, [users[u] EXCEPT !.ban = "none"])
         /\ req' = Pardon(Moved(r, Onward(u, next)), u)
  BY DEF Lift
<1> DEFINE pc == Onward(u, next)
<1>3. /\ pc \in PCs /\ pc # "flagOn" /\ (pc # "idle" => MayGo(req[r], pc))
  <2>1. CASE req[r].kind = "signIn"
    BY <1>1, <1>2, <2>1, Facts, PCsOf DEF Onward, Verified, Strict, Barred, MayGo
  <2>2. CASE req[r].kind # "signIn"
    BY <1>1, <1>2, <2>2, Facts, PCsOf, FirstOf DEF Onward, Strict, Barred, MayGo, SessionKinds
  <2> QED
    BY <2>1, <2>2
<1>4. users' = users \/ (Exists(u) /\ users' = [users EXCEPT ![u] = [@ EXCEPT !.ban = "none"]])
  BY <1>2 DEF Row, IInv, TypeOK
<1> HIDE DEF pc
<1>5. req' = Pardon(Moved(r, pc), u)
  BY <1>2 DEF pc
<1> QED
  BY <1>1, <1>3, <1>4, <1>5, MovedOk, PardonKeeps

LEMMA UnbanKeeps == ASSUME NEW r \in Requests, IInv, Unban(r) PROVE IInv'
<1> DEFINE u == req[r].user
<1>1. /\ req[r].pc = "unban" /\ u \in Users /\ UNCHANGED <<sessions, links, begun, early, torn>>
      /\ req' = Pardon(Moved(r, "idle"), u)
  BY Facts DEF Unban, Control
<1>2. users' = users \/ (Exists(u) /\ users' = [users EXCEPT ![u] = [@ EXCEPT !.ban = "none"]])
  BY DEF Unban, Row, IInv, TypeOK
<1> QED
  BY <1>1, <1>2, PCsOf, MovedOk, PardonKeeps

LEMMA BanEndsKeeps == ASSUME NEW u \in Users, IInv, BanEnds(u) PROVE IInv'
<1>1. /\ Exists(u) /\ users' = [users EXCEPT ![u] = [@ EXCEPT !.ban = "over"]]
      /\ req' = Pardon(req, u) /\ UNCHANGED <<sessions, links, begun, early, torn>>
  BY DEF BanEnds, Running, IInv, TypeOK
<1>2. req \in [Requests -> Calls] /\ \A x \in Requests : Control(req[x]) /\ Owed(req[x], users, torn)
  BY DEF IInv, TypeOK
<1> QED
  BY <1>1, <1>2, PardonKeeps

-----------------------------------------------------------------------------
(* Disabling two factors, and ending early in the middle of it.             *)

LEMMA UnrecordKeeps == ASSUME NEW r \in Requests, IInv, Unrecord(r) PROVE IInv'
<1> DEFINE u == req[r].user
           row == [users[u] EXCEPT !.record = FALSE]
           q == At(req[r], "flagOff")
<1>1. /\ req[r].pc = "unrecord" /\ u \in Users /\ UNCHANGED <<sessions, links, begun, early>>
      /\ users' = users \/ users' = [users EXCEPT ![u] = row]
      /\ torn' = Mixed(u, {"flagOn"})
  BY Facts DEF Unrecord, Row, Control
<1>2. /\ users \in [Users -> UserRows] /\ req \in [Requests -> Calls] /\ torn \subseteq Users
      /\ TypeOK
  BY DEF IInv, TypeOK
<1>3. /\ row \in UserRows /\ row.status = users[u].status /\ row.ban = users[u].ban
      /\ row.flag = users[u].flag
  BY <1>1, <1>2, FactorFields
<1>4. /\ req' = [req EXCEPT ![r] = q] /\ q \in Calls /\ q.pc = "flagOff" /\ q.user = u
  <2>1. "flagOff" \in PCs /\ req[r] \in Calls
    BY <1>2, PCsOf
  <2>2. req' = [req EXCEPT ![r] = q]
    BY <1>2, <2>1, MovedTo DEF Unrecord, Goto
  <2>3. q \in Calls /\ q.pc = "flagOff" /\ q.user = u
    BY <2>1, AtFields
  <2> QED
    BY <2>2, <2>3
<1>5. Control(q) /\ Owed(q, users, torn)
  <2>1. MayGo(req[r], "flagOff")
    BY <1>1, Facts DEF Control, Barred, Strict, MayGo
  <2> QED
    BY <1>2, <2>1, PCsOf, AtOk DEF IInv
<1> HIDE DEF row, q
<1>6. /\ torn \subseteq torn' /\ torn' \subseteq Users
      /\ users' \in [Users -> UserRows]
      /\ \A v \in Users : /\ users'[v].status = users[v].status /\ users'[v].flag = users[v].flag
                          /\ users'[v].ban = users[v].ban
                          /\ v # u => users'[v] = users[v]
  BY <1>1, <1>2, <1>3 DEF Mixed
<1>7. ASSUME NEW x \in Requests
      PROVE  Control(req'[x]) /\ Owed(req'[x], users', torn')
  <2>1. Control(req'[x]) /\ Owed(req'[x], users, torn)
    BY <1>2, <1>4, <1>5 DEF IInv
  <2>2. req'[x].pc = "flagOn" /\ req'[x].user = u => u \in torn'
    BY <1>1, <1>2, <1>4 DEF Mixed, Between
  <2>3. CASE req'[x].user \in Users
    BY <1>6, <2>1, <2>2, <2>3 DEF Owed, Barred, Strict, Recorded
  <2>4. CASE req'[x].user \notin Users
    BY <2>1, <2>4 DEF Control, Owed, Barred, Strict, Recorded
  <2> QED
    BY <2>1, <2>3, <2>4
<1>8. ASSUME NEW v \in Users, Exists(v)', users'[v].flag, ~users'[v].record
      PROVE  v \in torn' \/ Between(v, {"flagOff"})'
  <2>1. CASE v = u
    BY <1>2, <1>4, <2>1 DEF Between
  <2>2. CASE v # u
    BY <1>1, <1>2, <1>4, <1>6, <1>8, <2>2 DEF IInv, NeverLockedOut, Exists, Between
  <2> QED
    BY <2>1, <2>2
<1>9. TypeOK' /\ RowsKnown'
  BY <1>1, <1>2, <1>4, <1>6, RowsKept DEF TypeOK, RowsOk
<1> QED
  BY <1>7, <1>8, <1>9 DEF IInv, NeverLockedOut

LEMMA FlagOffKeeps == ASSUME NEW r \in Requests, IInv, FlagOff(r) PROVE IInv'
<1> DEFINE u == req[r].user
           row == [users[u] EXCEPT !.flag = FALSE]
           m == [req EXCEPT ![r] = Idle]
<1>1. /\ req[r].pc = "flagOff" /\ u \in Users /\ UNCHANGED <<sessions, links, begun, early>>
      /\ (Exists(u) /\ users' = [users EXCEPT ![u] = row]) \/ (~Exists(u) /\ users' = users)
      /\ torn' = Mixed(u, {"flagOn"})
  BY Facts DEF FlagOff, Row, Control
<1>2. /\ users \in [Users -> UserRows] /\ req \in [Requests -> Calls] /\ torn \subseteq Users
      /\ TypeOK
  BY DEF IInv, TypeOK
<1>3. /\ row \in UserRows /\ row.status = users[u].status /\ row.ban = users[u].ban
      /\ row.record = users[u].record /\ ~row.flag
  BY <1>1, <1>2, FactorFields
<1> HIDE DEF row
<1>4. /\ torn \subseteq torn' /\ torn' \subseteq Users /\ users' \in [Users -> UserRows]
      /\ \A v \in Users : /\ users'[v].status = users[v].status /\ users'[v].record = users[v].record
                          /\ users'[v].ban = users[v].ban
                          /\ v # u => users'[v] = users[v]
  BY <1>1, <1>2, <1>3 DEF Mixed
<1>5. /\ m \in [Requests -> Calls]
      /\ \A x \in Requests : /\ Control(m[x]) /\ Owed(m[x], users, torn)
                             /\ x # r => m[x] = req[x]
  BY <1>2, IdleCall DEF IInv
<1>6. req' = [x \in Requests |-> IF m[x].user = u THEN [m[x] EXCEPT !.strict = FALSE] ELSE m[x]]
  BY <1>2, PCsOf, MovedTo DEF FlagOff
<1> HIDE DEF m
<1>7. ASSUME NEW x \in Requests
      PROVE  /\ req'[x] \in Calls /\ Control(req'[x]) /\ Owed(req'[x], users', torn')
             /\ req'[x].pc = m[x].pc /\ req'[x].user = m[x].user
  <2>1. CASE m[x].user = u
    <3> DEFINE e == [m[x] EXCEPT !.strict = FALSE]
    <3>1. req'[x] = e
      BY <1>6, <2>1
    <3>2. /\ e \in Calls /\ ~e.strict /\ e.pc = m[x].pc /\ e.kind = m[x].kind
          /\ e.user = m[x].user /\ e.token = m[x].token /\ e.link = m[x].link
          /\ e.flag = m[x].flag /\ e.barred = m[x].barred
      BY <1>5 DEF Calls
    <3> HIDE DEF e
    <3>3. Control(e)
      BY <1>5, <3>2 DEF Control
    <3>4. Owed(e, users', torn')
      BY <1>1, <1>4, <1>5, <2>1, <3>2 DEF Owed, Barred, Strict, Recorded
    <3> QED
      BY <3>1, <3>2, <3>3, <3>4
  <2>2. CASE m[x].user # u
    <3>1. req'[x] = m[x]
      BY <1>6, <2>2
    <3>2. CASE m[x].user \in Users
      BY <1>4, <1>5, <2>2, <3>1, <3>2 DEF Owed, Barred, Strict, Recorded
    <3>3. CASE m[x].user \notin Users
      BY <1>5, <3>1, <3>3 DEF Control, Owed, Barred, Strict, Recorded
    <3> QED
      BY <1>5, <3>1, <3>2, <3>3
  <2> QED
    BY <2>1, <2>2
<1>8. ASSUME NEW v \in Users, Exists(v)', users'[v].flag, ~users'[v].record
      PROVE  v \in torn' \/ Between(v, {"flagOff"})'
  <2>1. v # u
    BY <1>1, <1>2, <1>3, <1>8 DEF Exists
  <2>2. v \in torn \/ \E x \in Requests : req[x].user = v /\ req[x].pc = "flagOff"
    BY <1>4, <1>8, <2>1 DEF IInv, NeverLockedOut, Exists, Between
  <2> QED
    BY <1>4, <1>5, <1>7, <2>1, <2>2 DEF Between
<1>9. TypeOK' /\ RowsKnown'
  <2>1. req' \in [Requests -> Calls]
    BY <1>6, <1>7
  <2> QED
    BY <1>1, <1>4, <2>1, RowsKept DEF TypeOK, RowsOk
<1> QED
  BY <1>7, <1>8, <1>9 DEF IInv, NeverLockedOut

LEMMA EndEarlyKeeps == ASSUME NEW r \in Requests, IInv, EndEarly(r) PROVE IInv'
<1>1. /\ req[r].pc # "idle" /\ Goto(r, "idle") /\ UNCHANGED <<users, sessions, links, begun>>
      /\ early' \in 0 .. MaxEarly
  BY AuthRuntimeAssumption, RowsKept DEF EndEarly, tables
<1>2. CASE req[r].pc # "flagOff"
  BY <1>1, <1>2, PCsOf, QuietKeeps, RowsKept DEF EndEarly
<1>3. CASE req[r].pc = "flagOff"
  <2> DEFINE u == req[r].user
  <2>1. torn' = torn \cup {u} /\ u \in Users
    BY <1>3, CallerFacts DEF EndEarly
  <2>2. /\ users \in [Users -> UserRows] /\ req \in [Requests -> Calls] /\ torn \subseteq Users
        /\ TypeOK
    BY DEF IInv, TypeOK
  <2>3. req' = [req EXCEPT ![r] = Idle]
    BY <1>1, <2>2, PCsOf, MovedTo DEF Goto
  <2>4. ASSUME NEW x \in Requests
        PROVE  Control(req'[x]) /\ Owed(req'[x], users', torn')
    <3>1. Owed(req[x], users, torn) /\ Control(req[x])
      BY DEF IInv
    <3>2. Owed(req[x], users, torn')
      BY <2>1, <3>1 DEF Owed, Recorded
    <3> QED
      BY <1>1, <2>2, <2>3, <3>1, <3>2, IdleCall
  <2>5. ASSUME NEW v \in Users, Exists(v)', users'[v].flag, ~users'[v].record
        PROVE  v \in torn' \/ Between(v, {"flagOff"})'
    BY <1>1, <2>1, <2>2, <2>3, <2>5 DEF IInv, NeverLockedOut, Exists, Between
  <2>6. TypeOK' /\ RowsKnown'
    BY <1>1, <2>1, <2>2, <2>3, IdleCall, RowsKept DEF TypeOK, RowsOk
  <2> QED
    BY <2>4, <2>5, <2>6 DEF IInv, NeverLockedOut
<1> QED
  BY <1>2, <1>3

-----------------------------------------------------------------------------
(* Time, and every step.                                                    *)

LEMMA SameRequests ==
    ASSUME IInv, RowsOk', UNCHANGED <<users, req, begun, early, torn>>
    PROVE  IInv'
<1> QED
  BY DEF IInv, TypeOK, RowsOk, NeverLockedOut, Exists, Between

LEMMA TimeKeeps ==
    ASSUME IInv, (\E t \in Tokens : Lapse(t)) \/ (\E l \in Links : Expire(l))
    PROVE  IInv'
<1>1. ASSUME NEW t \in Tokens, Lapse(t)
      PROVE  RowsOk' /\ UNCHANGED <<users, req, begun, early, torn>>
  BY <1>1 DEF Lapse, RowsOk, RowsKnown, IInv, TypeOK, SessionRows
<1>2. ASSUME NEW l \in Links, Expire(l)
      PROVE  RowsOk' /\ UNCHANGED <<users, req, begun, early, torn>>
  BY <1>2 DEF Expire, RowsOk, RowsKnown, IInv, TypeOK, LinkRows
<1> QED
  BY <1>1, <1>2, SameRequests

LEMMA NextIInv == IInv /\ [Next]_vars => IInv'
<1> SUFFICES ASSUME IInv, [Next]_vars
             PROVE  IInv'
  OBVIOUS
<1>1. CASE UNCHANGED vars
  BY <1>1, RowsKept, SameRequests DEF vars, tables
<1>2. ASSUME NEW r \in Requests, Step(r)
      PROVE  IInv'
  BY <1>2, BeginKeeps, EndEarlyKeeps, ReadSessionKeeps, ReadUserKeeps, LiftKeeps, RefreshKeeps,
     SignUpKeeps, CreateUserKeeps, IssueSessionKeeps, SignInKeeps, RehashKeeps, StoreSteps,
     SecondKeeps, FactorKeeps, ForgetKeeps, ConsumeLinkKeeps, FindUserKeeps, WritePasswordKeeps,
     TargetKeeps, DeleteSteps, RecordKeeps, FlagOnKeeps, UnrecordKeeps, FlagOffKeeps, BanKeeps,
     UnbanKeeps, RemoveKeeps
     DEF Step
<1> QED
  BY <1>1, <1>2, TimeKeeps, BanEndsKeeps DEF Next

LEMMA InitIInv == Init => IInv
<1> SUFFICES ASSUME Init
             PROVE  IInv
  OBVIOUS
<1>1. /\ req \in [Requests -> Calls]
      /\ \A r \in Requests : req[r] = Idle
  BY IdleCall DEF Init
<1>2. links \in [Links -> LinkRows] /\ begun = 0 /\ early = 0 /\ torn = {}
  BY DEF Init, LinkRows
<1>3. /\ sessions \in [Tokens -> SessionRows]
      /\ \A t \in Tokens : (sessions[t].state = "unused") <=> (sessions[t].user = NoUser)
  <2>1. ASSUME NEW t \in Tokens, NEW u \in Users,
               sessions = [s \in Tokens |-> IF s = t THEN [state |-> "live", user |-> u]
                                            ELSE [state |-> "unused", user |-> NoUser]]
        PROVE  /\ sessions \in [Tokens -> SessionRows]
               /\ \A s \in Tokens : (sessions[s].state = "unused") <=> (sessions[s].user = NoUser)
    BY <2>1, AuthRuntimeAssumption DEF SessionRows
  <2>2. CASE sessions = [s \in Tokens |-> [state |-> "unused", user |-> NoUser]]
    BY <2>2 DEF SessionRows
  <2> QED
    BY <2>1, <2>2 DEF Init
<1>4. /\ users \in [Users -> UserRows]
      /\ \A u \in Users : users[u].flag => users[u].record
  <2>1. [NewUser EXCEPT !.status = "none"] \in UserRows /\ ~[NewUser EXCEPT !.status = "none"].flag
    BY DEF NewUser, UserRows
  <2>2. CASE users \in [Users -> {row \in UserRows : /\ row.status = "live" /\ row.ban # "running"
                                                     /\ row.flag <=> row.record}]
    BY <2>2
  <2>3. CASE users = [u \in Users |-> [NewUser EXCEPT !.status = "none"]]
    BY <2>1, <2>3
  <2> QED
    BY <2>2, <2>3 DEF Init
<1>5. TypeOK /\ RowsKnown
  BY <1>1, <1>2, <1>3, <1>4, AuthRuntimeAssumption DEF TypeOK, RowsKnown, Init
<1> QED
  BY <1>1, <1>4, <1>5, IdleCall DEF IInv, NeverLockedOut

-----------------------------------------------------------------------------
(* What becomes of sessions.                                                *)

LEMMA SessionSteps ==
    ASSUME IInv, [Next]_vars
    PROVE  \/ UNCHANGED sessions
           \/ \E r \in Requests : IssueSession(r) \/ Refresh(r)
           \/ \E gone : Delete(gone)
           \/ \E t \in Tokens : Lapse(t)
<1>1. ASSUME NEW r \in Requests, Step(r)
      PROVE  UNCHANGED sessions \/ IssueSession(r) \/ Refresh(r) \/ \E gone : Delete(gone)
  <2>1. CASE DeleteSession(r) \/ Purge(r) \/ Remove(r)
    BY <2>1 DEF DeleteSession, Purge, Remove
  <2>2. CASE Begin(r) \/ EndEarly(r) \/ ReadSession(r) \/ ReadUser(r) \/ Lift(r) \/ SignUp(r)
             \/ CreateUser(r) \/ SignIn(r) \/ Rehash(r) \/ Pend(r) \/ Second(r) \/ Factor(r)
    BY <2>2 DEF Begin, EndEarly, ReadSession, ReadUser, Lift, SignUp, CreateUser, SignIn, Rehash,
                Pend, Second, Factor, tables
  <2>3. CASE Forget(r) \/ SendReset(r) \/ ConsumeLink(r) \/ FindUser(r) \/ WritePassword(r)
             \/ Target(r) \/ Record(r) \/ FlagOn(r) \/ Unrecord(r) \/ FlagOff(r) \/ Ban(r) \/ Unban(r)
    BY <2>3 DEF Forget, SendReset, ConsumeLink, FindUser, WritePassword, Target, Record, FlagOn,
                Unrecord, FlagOff, Ban, Unban, tables
  <2> QED
    BY <1>1, <2>1, <2>2, <2>3 DEF Step
<1>2. (\E l \in Links : Expire(l)) \/ (\E u \in Users : BanEnds(u)) => UNCHANGED sessions
  BY DEF Expire, BanEnds
<1> QED
  BY <1>1, <1>2 DEF Next, vars, tables

LEMMA GoneStays ==
    ASSUME IInv, [Next]_vars, NEW t \in Tokens, sessions[t].state = "gone"
    PROVE  sessions'[t].state = "gone"
<1>1. sessions \in [Tokens -> SessionRows]
  BY DEF IInv, TypeOK
<1>2. ASSUME NEW r \in Requests, IssueSession(r) PROVE sessions'[t].state = "gone"
  BY <1>1, <1>2 DEF IssueSession, SessionRows
<1>3. ASSUME NEW r \in Requests, Refresh(r) PROVE sessions'[t].state = "gone"
  BY <1>1, <1>3 DEF Refresh, Extend, SessionRows
<1>4. ASSUME NEW gone, Delete(gone) PROVE sessions'[t].state = "gone"
  BY <1>1, <1>4 DEF Delete, SessionRows
<1>5. ASSUME NEW s \in Tokens, Lapse(s) PROVE sessions'[t].state = "gone"
  BY <1>1, <1>5 DEF Lapse, SessionRows
<1> QED
  BY <1>2, <1>3, <1>4, <1>5, SessionSteps

\* The steps of the last statements of a reset and of a ban.
LEMMA LastSteps ==
    ASSUME IInv, NEW r \in Requests, Step(r), req[r].pc \in {"password", "purge", "ban"}
    PROVE  EndEarly(r) \/ WritePassword(r) \/ Purge(r) \/ Ban(r)
<1>1. ~(Begin(r) \/ ReadSession(r) \/ ReadUser(r) \/ Lift(r) \/ Refresh(r) \/ SignUp(r)
        \/ CreateUser(r) \/ IssueSession(r) \/ SignIn(r) \/ Rehash(r) \/ Pend(r) \/ Second(r)
        \/ Factor(r))
  BY DEF Begin, ReadSession, ReadUser, Lift, Refresh, SignUp, CreateUser, IssueSession, SignIn,
         Rehash, Pend, Second, Factor
<1>2. ~(Forget(r) \/ SendReset(r) \/ ConsumeLink(r) \/ FindUser(r) \/ Target(r) \/ DeleteSession(r)
        \/ Record(r) \/ FlagOn(r) \/ Unrecord(r) \/ FlagOff(r) \/ Unban(r) \/ Remove(r))
  BY DEF Forget, SendReset, ConsumeLink, FindUser, Target, DeleteSession, Record, FlagOn, Unrecord,
         FlagOff, Unban, Remove
<1> QED
  BY <1>1, <1>2 DEF Step

\* A request goes on by its own steps only.
LEMMA OthersStay ==
    ASSUME IInv, NEW r \in Requests, NEW x \in Requests, x # r, Step(x)
    PROVE  req'[r].pc = req[r].pc
<1>1. req \in [Requests -> Calls] /\ TypeOK
  BY DEF IInv, TypeOK
<1>2. ASSUME NEW pc PROVE Moved(x, pc)[r] = req[r]
  BY <1>1 DEF Moved
<1>3. ASSUME NEW pc, NEW u PROVE Pardon(Moved(x, pc), u)[r].pc = req[r].pc
  BY <1>1, <1>2 DEF Pardon, Calls
<1>4. CASE \E pc : Goto(x, pc)
  BY <1>2, <1>4 DEF Goto
<1>5. CASE Begin(x) \/ SignIn(x) \/ ConsumeLink(x) \/ Target(x)
  <2>1. \E q : req' = [req EXCEPT ![x] = q]
    <3>1. CASE Begin(x)
      BY <3>1, BegunOk
    <3>2. CASE SignIn(x)
      BY <1>1, <3>2 DEF SignIn, Goto, Moved
    <3>3. CASE ConsumeLink(x)
      BY <1>1, <3>3 DEF ConsumeLink
    <3>4. CASE Target(x)
      BY <1>1, <3>4 DEF Target
    <3> QED
      BY <1>5, <3>1, <3>2, <3>3, <3>4
  <2> QED
    BY <1>1, <2>1
<1>6. CASE Lift(x) \/ Unban(x)
  BY <1>3, <1>6 DEF Lift, Unban
<1>7. CASE FlagOff(x)
  BY <1>1, <1>2, <1>7 DEF FlagOff, Calls
<1>8. CASE EndEarly(x) \/ ReadSession(x) \/ ReadUser(x) \/ Refresh(x) \/ SignUp(x) \/ CreateUser(x)
           \/ IssueSession(x) \/ Rehash(x) \/ Pend(x) \/ Second(x) \/ Factor(x)
  <2>1. \E pc : Goto(x, pc)
    BY <1>8 DEF EndEarly, ReadSession, ReadUser, Refresh, SignUp, CreateUser, IssueSession, Rehash,
                Pend, Second, Factor, Update
  <2> QED
    BY <1>4, <2>1
<1>9. CASE Forget(x) \/ SendReset(x) \/ FindUser(x) \/ WritePassword(x) \/ DeleteSession(x)
           \/ Purge(x) \/ Record(x) \/ FlagOn(x) \/ Unrecord(x) \/ Ban(x) \/ Remove(x)
  <2>1. \E pc : Goto(x, pc)
    BY <1>9 DEF Forget, SendReset, FindUser, WritePassword, DeleteSession, Purge, Record, FlagOn,
                Unrecord, Ban, Remove, Update
  <2> QED
    BY <1>4, <2>1
<1> QED
  BY <1>5, <1>6, <1>7, <1>8, <1>9 DEF Step

\* A reset and a ban end with the purge, unless the account is no more.
LEMMA EndsPurged ==
    ASSUME IInv, [Next]_vars, NEW r \in Requests,
           req[r].pc # "idle", req'[r].pc = "idle", early' = early,
           req[r].kind \in {"reset", "ban"}, req[r].pc \notin {"consume", "find"},
           Exists(req[r].user), NEW t \in Tokens, sessions'[t].user = req[r].user
    PROVE  sessions'[t].state = "gone"
<1>1. /\ req[r].pc \in {"password", "purge", "ban"} /\ TypeOK /\ req[r].user \in Users
      /\ req[r].pc = "password" => req[r].kind = "reset"
  BY Facts DEF Control, IInv
<1>2. Step(r)
  <2>1. req' # req
    OBVIOUS
  <2>2. ASSUME NEW u \in Users, BanEnds(u)
        PROVE  req'[r].pc = req[r].pc
    BY <2>2 DEF BanEnds, Pardon, IInv, TypeOK, Calls
  <2>3. (\E s \in Tokens : Lapse(s)) \/ (\E l \in Links : Expire(l)) => req' = req
    BY DEF Lapse, Expire
  <2> QED
    BY <2>1, <2>2, <2>3, OthersStay DEF Next, vars
<1>3. CASE EndEarly(r)
  BY <1>3, RowsKept DEF EndEarly
<1>4. CASE WritePassword(r) \/ Ban(r)
  <2>1. PICK row : Update(r, row, "purge")
    BY <1>1, <1>4 DEF WritePassword, Ban
  <2>2. Goto(r, "purge")
    BY <2>1 DEF Update, Onward
  <2>3. "purge" \in PCs /\ req[r] \in Calls
    BY <1>1, PCsOf DEF TypeOK
  <2>4. req' = [req EXCEPT ![r] = At(req[r], "purge")]
    BY <1>1, <2>2, <2>3, MovedTo DEF Goto
  <2>5. req'[r].pc = "purge"
    BY <1>1, <2>3, <2>4, AtFields DEF TypeOK
  <2> QED
    BY <2>5
<1>5. CASE Purge(r)
  <2>1. CASE req[r].pc = "purge"
    <3>1. Delete(SessionsOf(req[r].user) \ {})
      BY <1>5, <2>1 DEF Purge
    <3>2. sessions \in [Tokens -> SessionRows] /\ NoUser \notin Users
      BY AuthRuntimeAssumption DEF IInv, TypeOK
    <3>3. sessions[t].user = req[r].user
      BY <3>1, <3>2 DEF Delete, SessionRows
    <3>4. sessions[t].state \in {"live", "lapsed", "gone"}
      BY <1>1, <3>2, <3>3 DEF IInv, RowsKnown, SessionRows
    <3> QED
      BY <3>1, <3>2, <3>3, <3>4 DEF Delete, SessionsOf, SessionRows
  <2> QED
    BY <1>1, <1>5, <2>1 DEF Purge
<1> QED
  BY <1>1, <1>2, <1>3, <1>4, <1>5, LastSteps

-----------------------------------------------------------------------------
(* The theorems.                                                            *)

\* The inductive invariant holds in every reachable state.
THEOREM Invariance == Spec => []IInv
<1> QED
  BY InitIInv, NextIInv, PTL DEF Spec

\* Type correctness of the tables and the requests (stores.ts, runtime.ts).
THEOREM TypeCorrect == Spec => []TypeOK
<1>1. IInv => TypeOK
  BY DEF IInv
<1> QED
  BY <1>1, Invariance, PTL

\* While a ban stands, no request for a session route and no sign-in that began
\* under it gets past resolveSession or /sign-in/email (runtime.ts), however other
\* requests interleave and end early.  It says nothing of routes that do not look
\* at bans, such as /two-factor/verify-totp.
THEOREM Bans == Spec => []BanHolds
<1>1. IInv => BanHolds
  BY DEF IInv, BanHolds, Owed, Barred
<1> QED
  BY <1>1, Invariance, PTL

\* No session from the password alone for a sign-in that began when the account
\* had two factors (/sign-in/email of runtime.ts).
THEOREM SecondFactor == Spec => []SecondFactorHolds
<1>1. IInv => SecondFactorHolds
  BY DEF IInv, SecondFactorHolds, Owed, Strict
<1> QED
  BY <1>1, Invariance, PTL

\* /two-factor/enable and /disable leave no account that asks for a factor it
\* cannot check, except where their own writes mixed or broke off.
THEOREM LockedOut == Spec => []NeverLockedOut
<1>1. IInv => NeverLockedOut
  BY DEF IInv
<1> QED
  BY <1>1, Invariance, PTL

\* A row of sessions that was deleted is never brought back (updateSessionExpiry
\* and deleteSession of stores.ts).
THEOREM Revocation == Spec => RevokedStaysGone
<1>1. IInv /\ [Next]_vars => \A t \in Tokens : sessions[t].state = "gone" => sessions'[t].state = "gone"
  BY GoneStays
<1> QED
  BY <1>1, Invariance, PTL DEF Spec, RevokedStaysGone

\* A reset and a ban that answer have ended every session of the account issued
\* up to then, not what a sign-in under way issues later (/reset-password,
\* /admin/ban-user).
THEOREM PurgedAtTheEnd == Spec => RevokedAtTheEnd
<1>1. IInv /\ [Next]_vars =>
        \A r \in Requests :
          /\ req[r].pc # "idle" /\ req'[r].pc = "idle" /\ early' = early
          /\ req[r].kind \in {"reset", "ban"} /\ req[r].pc \notin {"consume", "find"}
          /\ Exists(req[r].user)
          => \A t \in Tokens : sessions'[t].user = req[r].user => sessions'[t].state \in {"gone"}
  BY EndsPurged
<1> QED
  BY <1>1, Invariance, PTL DEF Spec, RevokedAtTheEnd

=============================================================================
