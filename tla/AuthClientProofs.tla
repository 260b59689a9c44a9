-------------------------- MODULE AuthClientProofs --------------------------
(* Theorems about AuthClient, for every set of tasks, tokens and           *)
(* organizations, every mix of calls and every bound.                      *)
EXTENDS AuthClient, SessionStoreProofs

TaskTypes == [kind : ApiCalls \cup {"none"}, pc : {"idle", "sent", "answered", "reread", "done"},
              arg : Orgs \cup Tokens \cup {NoOrg}, token : Tokens \cup {NoToken}, answer : Results]

Types ==
    /\ task \in [Tasks -> TaskTypes] /\ turn \in Tasks \cup {NoTask}
    /\ cookie \in Tokens \cup {NoToken} /\ server \in [Tokens -> Orgs \cup {NoOrg, "unused", "gone"}]
    /\ failures \in 0..MaxFailures /\ hydrated \in BOOLEAN /\ crossed \in BOOLEAN

\* The task whose read the loop under way announces, and the task that waits
\* for the answer to the read in flight.
Opening(t) == emits # <<>> /\ Head(emits).caller = t
Reads(t) == inFlight # NoEpoch /\ (calls[t] = inFlight \/ Opening(t))

\* Nobody subscribes and nothing runs while the store notifies, so a loop has
\* nobody to call and none is nested in it.
Loop ==
    /\ listeners = <<>>
    /\ emits # <<>> => Head(emits).rest = <<>> /\ Tail(emits) = <<>>
    /\ \A t \in Tasks : /\ calls[t] # NoEpoch => calls[t] <= epoch
                        /\ Opening(t) => inFlight = epoch /\ calls[t] = NoEpoch
    /\ ~hydrated => /\ Hydrated /\ emits = <<>> /\ inFlight = NoEpoch
                    /\ cookie = FirstToken /\ server[FirstToken] = NoOrg
                    /\ \A t \in Tasks : task[t].pc = "idle"

\* A token is unused until it is handed out, and what has ended stays ended.
Ended(tok) == tok \in Tokens => server[tok] = "gone"
Used(tok) == tok \in Tokens => server[tok] # "unused"

\* The session of a sign-in whose answer was not handled yet: nobody has it, but
\* somebody may have revoked it.
Signing(t) == /\ task[t].pc = "answered" /\ task[t].kind = "signIn"
              /\ task[t].answer.ok /\ task[t].answer.session # NoSession
New(tok) == server[tok] = NoOrg \/ (crossed /\ server[tok] = "gone")
Fresh(t) ==
    LET tok == task[t].answer.session.token IN
    /\ task[t].answer.session = [token |-> tok, org |-> NoOrg]
    /\ tok \in Tokens /\ New(tok) /\ tok # cookie
    /\ snapshot.session # NoSession => snapshot.session.token # tok
    /\ \A u \in Tasks : /\ task[u].token # tok
                        /\ u # t /\ Signing(u) => task[u].answer.session.token # tok

\* What a task was answered is what the server did for it.
AnswerOk(t) ==
    /\ task[t].kind = "getSession" =>
        /\ task[t].answer.ok => /\ task[t].answer.session # NoSession
                                /\ task[t].answer.session.token = task[t].token
        /\ task[t].answer.clear => Ended(task[t].token)
        /\ failures = 0 => task[t].answer.ok \/ task[t].answer.clear
    /\ task[t].kind = "revoke" /\ task[t].answer.ok => Ended(task[t].arg)
    /\ task[t].kind = "revokeAll" /\ task[t].answer.ok => Ended(task[t].token)

TaskOk(t) ==
    /\ task[t].pc = "idle" => task[t].kind = "none"
    /\ task[t].pc \in {"sent", "answered"} => task[t].kind # "none"
    /\ task[t].pc = "reread" => turn = t /\ task[t].kind = "setActive"
    /\ turn = t => task[t].pc = "reread"
    /\ Used(task[t].token)
    /\ task[t].kind = "revoke" => task[t].arg \in Tokens /\ Used(task[t].arg)
    /\ task[t].kind = "setActive" => task[t].arg \in Orgs \cup {NoOrg}
    /\ Signing(t) => Fresh(t)
    /\ task[t].pc = "answered" => AnswerOk(t)

\* The read in flight belongs to a task that waits for its answer, and the
\* store says "loading" for no other reason unless a request was lost.
Flights ==
    /\ inFlight # NoEpoch => \E t \in Tasks : Reads(t)
    /\ \A t \in Tasks :
        Reads(t) => /\ task[t].kind = "getSession" /\ task[t].pc \in {"sent", "answered"}
                    /\ ~Made("signOut") => task[t].token = cookie
    /\ failures = 0 /\ snapshot.status = "loading" => inFlight # NoEpoch

\* What the client shows is the session of its cookie, and it shows none only
\* when that is over, or a revocation has crossed a sign-in.
Shown ==
    /\ snapshot.status = "authenticated" => snapshot.session # NoSession
    /\ Used(cookie)
    /\ snapshot.session # NoSession => Used(snapshot.session.token)
    /\ ~Made("signOut") /\ hydrated =>
        /\ snapshot.session # NoSession =>
            \/ snapshot.session.token = cookie
            \/ snapshot.session.token = NoToken /\ Made("updateUser")
        /\ Hydrated /\ snapshot.session = NoSession => Ended(cookie) \/ crossed

\* A change on the server that the client does not show yet is on its way to it:
\* in an answer that makes it read again or forget its session, or in the
\* answer to the read in flight.
Brings(t) ==
    \/ task[t].pc = "reread"
    \/ /\ task[t].pc = "answered" /\ task[t].answer.ok
       /\ \/ task[t].kind = "setActive" /\ task[t].token = cookie
          \/ task[t].kind = "revoke" /\ task[t].arg = cookie
          \/ task[t].kind = "revokeAll"
Coming == \E t \in Tasks : Brings(t)
Good == \A t \in Tasks : Reads(t) /\ task[t].pc = "answered" => task[t].answer.session = ServerView
Calm ==
    Hydrated /\ hydrated /\ failures = 0 /\ ~crossed /\ ~Made("signOut") /\ ~Made("updateUser")
Current ==
    Calm =>
        /\ snapshot.session = NoSession =>
             \A t \in Tasks : Reads(t) /\ task[t].pc = "answered" => ~task[t].answer.ok
        /\ \A t \in Tasks : task[t].pc = "reread" => snapshot.session = NoSession \/ inFlight = NoEpoch
        /\ Coming \/ (Good /\ (inFlight # NoEpoch \/ snapshot.session = ServerView))

TasksOk == \A t \in Tasks : TaskOk(t)
AInv == IInv /\ Types /\ Loop /\ TasksOk /\ Flights /\ Shown /\ Current

-----------------------------------------------------------------------------
(* What a call does to the store, to the tasks and to the tokens.           *)

\* The constants are told apart.
LEMMA Apart ==
    /\ NoSession \notin Sessions /\ NoCaller \notin Tasks /\ NoTask \notin Tasks
    /\ \A n \in Nat : n # NoEpoch
    /\ NoToken \notin Tokens /\ FirstToken \in Tokens /\ Sessions = ClientSessions
    /\ \A o \in Orgs \cup {NoOrg} : o # "unused" /\ o # "gone"
<1> QED
  BY SessionStoreAssumption, AuthClientAssumption DEF Tasks, SessionStoreAssumption, AuthClientAssumption

Keeps ==
    /\ snapshot' = snapshot /\ (inFlight' = inFlight)
    /\ \A u \in Tasks : Reads(u)' <=> Reads(u)
Sets(session, status) ==
    /\ snapshot'.session = session /\ snapshot'.status = status /\ inFlight' = NoEpoch
    /\ \A u \in Tasks : ~Reads(u)'
Begins(t) ==
    /\ snapshot'.session = snapshot.session /\ snapshot'.status = "loading"
    /\ inFlight = NoEpoch /\ inFlight' # NoEpoch /\ \A u \in Tasks : Reads(u)' <=> u = t

\* The parts of Loop that speak of the store.
Engine ==
    /\ listeners = <<>>
    /\ emits # <<>> => Head(emits).rest = <<>> /\ Tail(emits) = <<>>
    /\ \A t \in Tasks : /\ calls[t] # NoEpoch => calls[t] <= epoch
                        /\ Opening(t) => inFlight = epoch /\ calls[t] = NoEpoch

\* A commit between two turns starts a loop of its own.
LEMMA Committed ==
    ASSUME IInv, Engine, emits = <<>>, NEW caller \in Tasks \cup {NoCaller}, Emit(caller),
           listeners' = listeners
    PROVE  /\ emits' # <<>> /\ Head(emits').rest = <<>> /\ Tail(emits') = <<>>
           /\ Head(emits').caller = caller
           /\ \A u \in Tasks : Opening(u)' <=> u = caller
<1>1. PICK f : f = [rest |-> listeners, epoch |-> epoch', started |-> FALSE, caller |-> caller]
  OBVIOUS
<1>2. f.rest = <<>> /\ f.caller = caller
  BY <1>1 DEF Engine
<1>3. emits' = <<f>> \o <<>>
  BY <1>1 DEF Emit
<1>4. emits' = <<f>>
  BY <1>3
<1> QED
  BY <1>2, <1>4 DEF Opening

LEMMA SetsStore ==
    ASSUME IInv, Engine, emits = <<>>, NEW session, NEW status, SetSession(session, status)
    PROVE  Sets(session, status) /\ Engine'
<1>1. /\ epoch \in Nat /\ epoch' = epoch + 1 /\ inFlight' = NoEpoch /\ UNCHANGED <<listeners, calls>>
      /\ snapshot'.session = session /\ snapshot'.status = status /\ Emit(NoCaller)
      /\ calls \in [Tasks -> Nat \cup {NoEpoch}]
  BY DEF SetSession, Commit, IInv, TypeOK, Tasks
<1>2. /\ emits' # <<>> /\ Head(emits').rest = <<>> /\ Tail(emits') = <<>>
      /\ \A u \in Tasks : Opening(u)' <=> u = NoCaller
  BY <1>1, Committed
<1>3. \A u \in Tasks : ~Opening(u)'
  BY <1>2, Apart
<1> QED
  BY <1>1, <1>2, <1>3, Apart DEF Sets, Reads, Engine

LEMMA InvalidatesStore ==
    ASSUME IInv, Engine, emits = <<>>, Invalidate
    PROVE  Sets(NoSession, "unauthenticated") /\ Engine'
<1>1. /\ epoch \in Nat /\ epoch' = epoch + 1 /\ inFlight' = NoEpoch /\ UNCHANGED <<listeners, calls>>
      /\ snapshot'.session = NoSession /\ snapshot'.status = "unauthenticated" /\ Emit(NoCaller)
      /\ calls \in [Tasks -> Nat \cup {NoEpoch}]
  BY DEF Invalidate, Commit, IInv, TypeOK, Tasks
<1>2. /\ emits' # <<>> /\ Head(emits').rest = <<>> /\ Tail(emits') = <<>>
      /\ \A u \in Tasks : Opening(u)' <=> u = NoCaller
  BY <1>1, Committed
<1>3. \A u \in Tasks : ~Opening(u)'
  BY <1>2, Apart
<1> QED
  BY <1>1, <1>2, <1>3, Apart DEF Sets, Reads, Engine

LEMMA BeginsRead ==
    ASSUME IInv, Engine, emits = <<>>, NEW t \in Tasks, BeginRefresh(t)
    PROVE  Begins(t) /\ Engine'
<1>1. /\ epoch \in Nat /\ epoch' = epoch + 1 /\ inFlight' = epoch' /\ UNCHANGED <<listeners, calls>>
      /\ snapshot'.session = snapshot.session /\ snapshot'.status = "loading" /\ Emit(t)
      /\ calls \in [Tasks -> Nat \cup {NoEpoch}] /\ calls[t] = NoEpoch /\ inFlight = NoEpoch
  BY DEF BeginRefresh, Commit, IInv, TypeOK, Tasks
<1>2. /\ emits' # <<>> /\ Head(emits').rest = <<>> /\ Tail(emits') = <<>>
      /\ \A u \in Tasks : Opening(u)' <=> u = t
  BY <1>1, Committed
<1>3. epoch + 1 # NoEpoch /\ \A u \in Tasks : calls[u] # epoch + 1
  BY <1>1, Apart DEF Engine
<1> QED
  BY <1>1, <1>2, <1>3 DEF Begins, Reads, Engine

LEMMA IgnoresAnswer ==
    ASSUME IInv, Engine, NEW t \in Tasks, NEW result, CompleteRefresh(t, result), Stale(calls[t])
    PROVE  Keeps /\ Engine' /\ ~Reads(t)
<1>1. /\ emits = <<>> /\ calls[t] # NoEpoch /\ calls[t] # inFlight
      /\ calls' = [calls EXCEPT ![t] = NoEpoch] /\ calls \in [Tasks -> Nat \cup {NoEpoch}]
      /\ UNCHANGED <<epoch, inFlight, snapshot, emits, listeners>>
  BY DEF CompleteRefresh, Stale, IInv, TypeOK, Tasks
<1>2. \A u \in Tasks : calls'[u] = calls[u] \/ (u = t /\ calls'[u] = NoEpoch)
  BY <1>1
<1> QED
  BY <1>1, <1>2 DEF Keeps, Reads, Opening, Engine

LEMMA TakesAnswer ==
    ASSUME IInv, Engine, NEW t \in Tasks, NEW result, CompleteRefresh(t, result), ~Stale(calls[t])
    PROVE  /\ Engine' /\ Reads(t)
           /\ Sets(IF result.ok \/ result.clear THEN result.session ELSE snapshot.session,
                   IF result.ok \/ result.clear THEN DerivedStatus(result.session) ELSE KeptStatus)
<1>1. /\ emits = <<>> /\ calls[t] # NoEpoch /\ calls[t] = inFlight
      /\ calls' = [calls EXCEPT ![t] = NoEpoch] /\ calls \in [Tasks -> Nat \cup {NoEpoch}]
      /\ epoch \in Nat /\ epoch' = epoch + 1 /\ inFlight' = NoEpoch /\ UNCHANGED listeners
      /\ snapshot' = Completed(result) /\ Emit(NoCaller)
  BY DEF CompleteRefresh, Commit, Stale, IInv, TypeOK, Tasks
<1>2. /\ emits' # <<>> /\ Head(emits').rest = <<>> /\ Tail(emits') = <<>>
      /\ \A u \in Tasks : Opening(u)' <=> u = NoCaller
  BY <1>1, Committed
<1>3. \A u \in Tasks : ~Opening(u)'
  BY <1>2, Apart
<1>4. \A u \in Tasks : calls'[u] = calls[u] \/ calls'[u] = NoEpoch
  BY <1>1
<1>5. Engine'
  BY <1>1, <1>2, <1>3, <1>4, Apart DEF Engine
<1>6. Reads(t) /\ \A u \in Tasks : ~Reads(u)'
  BY <1>1, Apart DEF Reads
<1> QED
  BY <1>1, <1>5, <1>6 DEF Sets, Completed

LEMMA ReturnsStore ==
    ASSUME IInv, Engine, Return
    PROVE  Keeps /\ Engine'
<1>1. /\ emits \in Seq(Frames) /\ emits # <<>> /\ emits' = Tail(emits) /\ epoch \in Nat
      /\ UNCHANGED <<epoch, inFlight, snapshot, listeners>>
      /\ calls \in [Tasks -> Nat \cup {NoEpoch}]
  BY DEF Return, IInv, TypeOK, Tasks
<1>0. Head(emits) \in Frames
  BY <1>1
<1> PICK c \in Tasks \cup {NoCaller} : c = Head(emits).caller
  BY <1>0 DEF Frames, Tasks
<1>2. emits' = <<>>
  BY <1>1 DEF Engine
<1>3. calls' = IF c = NoCaller THEN calls ELSE [calls EXCEPT ![c] = epoch]
  BY DEF Return
<1>4. \A u \in Tasks : Opening(u) <=> u = c
  BY <1>1 DEF Opening
<1>5. \A u \in Tasks : calls'[u] = IF u = c THEN epoch ELSE calls[u]
  BY <1>1, <1>3, Apart
<1>6. \A u \in Tasks : ~Opening(u)'
  BY <1>2 DEF Opening
<1>7. \A u \in Tasks : u = c => inFlight = epoch /\ calls[u] = NoEpoch
  BY <1>4 DEF Engine
<1>8. Keeps
  BY <1>1, <1>4, <1>5, <1>6, <1>7, Apart DEF Keeps, Reads
<1> QED
  BY <1>1, <1>2, <1>5, <1>6, <1>8 DEF Engine

\* What becomes of the task of a call.
Moves(t, kind, pc, arg, token, answer) ==
    /\ task' \in [Tasks -> TaskTypes] /\ \A u \in Tasks \ {t} : task'[u] = task[u]
    /\ task'[t].kind = kind /\ task'[t].pc = pc /\ task'[t].arg = arg
    /\ task'[t].token = token /\ task'[t].answer = answer
Keeping(t, pc) == Moves(t, task[t].kind, pc, task[t].arg, task[t].token, task[t].answer)

LEMMA ResultFields ==
    /\ \A s \in Sessions \cup {NoSession} :
         Ok(s) \in Results /\ Ok(s).ok /\ Ok(s).session = s /\ ~Ok(s).clear
    /\ \A c \in BOOLEAN :
         Failed(c) \in Results /\ ~Failed(c).ok /\ Failed(c).session = NoSession /\ Failed(c).clear = c
    /\ \A r \in Results : /\ r.ok \in BOOLEAN /\ r.clear \in BOOLEAN /\ r.session \in Sessions \cup {NoSession}
                          /\ ~(r.ok /\ r.clear) /\ (r.clear => r.session = NoSession)
                          /\ (r.ok => r = Ok(r.session))
<1>1. \A s \in Sessions \cup {NoSession} :
         Ok(s) \in Results /\ Ok(s).ok /\ Ok(s).session = s /\ ~Ok(s).clear
  BY DEF Ok, Results
<1>2. \A c \in BOOLEAN :
         Failed(c) \in Results /\ ~Failed(c).ok /\ Failed(c).session = NoSession /\ Failed(c).clear = c
  BY DEF Failed, Results
<1>3. ASSUME NEW r \in Results
      PROVE  /\ r.ok \in BOOLEAN /\ r.clear \in BOOLEAN /\ r.session \in Sessions \cup {NoSession}
             /\ ~(r.ok /\ r.clear) /\ (r.clear => r.session = NoSession)
             /\ (r.ok => r = Ok(r.session))
  <2>1. CASE \E s \in Sessions \cup {NoSession} : r = Ok(s)
    BY <2>1 DEF Ok
  <2>2. CASE \E c \in BOOLEAN : r = Failed(c)
    BY <2>2 DEF Failed
  <2> QED
    BY <1>3, <2>1, <2>2 DEF Results
<1> QED
  BY <1>1, <1>2, <1>3

LEMMA GoesMoves ==
    ASSUME Types, NEW t \in Tasks, NEW pc \in {"reread", "done"}, Goes(t, pc)
    PROVE  Keeping(t, pc)
<1> PICK old \in TaskTypes : old = task[t]
  BY DEF Types
<1> PICK k : k = [old EXCEPT !.pc = pc]
  OBVIOUS
<1>1. k \in TaskTypes /\ k.pc = pc /\ k.kind = old.kind /\ k.arg = old.arg /\ k.token = old.token /\ k.answer = old.answer
  BY DEF TaskTypes
<1>2. task' = [task EXCEPT ![t] = k]
  BY DEF Goes
<1> QED
  BY <1>1, <1>2 DEF Types, Keeping, Moves

LEMMA RequestMoves ==
    ASSUME Types, NEW t \in Tasks, NEW kind \in ApiCalls, NEW arg \in Orgs \cup Tokens \cup {NoOrg},
           NEW token \in Tokens \cup {NoToken}, Request(t, kind, arg, token)
    PROVE  Moves(t, kind, "sent", arg, token, task[t].answer)
<1> PICK old \in TaskTypes : old = task[t]
  BY DEF Types
<1> PICK k : k = [old EXCEPT !.kind = kind, !.pc = "sent", !.arg = arg, !.token = token]
  OBVIOUS
<1>1. k \in TaskTypes /\ k.kind = kind /\ k.pc = "sent" /\ k.arg = arg /\ k.token = token /\ k.answer = old.answer
  BY DEF TaskTypes
<1>2. task' = [task EXCEPT ![t] = k]
  BY DEF Request
<1> QED
  BY <1>1, <1>2 DEF Types, Moves

LEMMA AnswerMoves ==
    ASSUME Types, NEW t \in Tasks, NEW result \in Results, Answer(t, result)
    PROVE  Moves(t, task[t].kind, "answered", task[t].arg, task[t].token, result)
<1> PICK old \in TaskTypes : old = task[t]
  BY DEF Types
<1> PICK k : k = [old EXCEPT !.pc = "answered", !.answer = result]
  OBVIOUS
<1>1. k \in TaskTypes /\ k.kind = old.kind /\ k.pc = "answered" /\ k.arg = old.arg /\ k.token = old.token /\ k.answer = result
  BY DEF TaskTypes
<1>2. task' = [task EXCEPT ![t] = k]
  BY DEF Answer
<1> QED
  BY <1>1, <1>2 DEF Types, Moves

\* The fields of a task.
LEMMA TaskFields ==
    ASSUME Types, NEW t \in Tasks
    PROVE  /\ task[t].kind \in ApiCalls \cup {"none"} /\ task[t].arg \in Orgs \cup Tokens \cup {NoOrg}
           /\ task[t].pc \in {"idle", "sent", "answered", "reread", "done"}
           /\ task[t].token \in Tokens \cup {NoToken} /\ task[t].answer \in Results
  BY DEF Types, TaskTypes

-----------------------------------------------------------------------------
(* The steps of the client, as what they do to the store and to one task.   *)

Same == UNCHANGED <<cookie, server, failures, hydrated, crossed>>
MayRead(t) == \/ turn = NoTask /\ task[t].pc = "idle"
              \/ turn = NoTask /\ task[t].pc = "answered" /\ task[t].kind = "signIn" /\ ~Signing(t)
              \/ turn = t /\ task[t].pc = "reread"
StartsRead(t) ==
    /\ MayRead(t) /\ Begins(t) /\ Moves(t, "getSession", "sent", NoOrg, cookie, task[t].answer)
    /\ turn' = NoTask /\ Same
SkipsRead(t) ==
    /\ MayRead(t) /\ inFlight # NoEpoch /\ Keeps /\ Keeping(t, "done") /\ turn' = NoTask /\ Same
CallsServer(t) ==
    \E kind \in ApiCalls \ {"getSession", "signOut"}, arg \in Orgs \cup Tokens \cup {NoOrg} :
        /\ task[t].pc = "idle"
        /\ kind = "revoke" => arg \in Tokens /\ Used(arg)
        /\ kind = "setActive" => arg \in Orgs \cup {NoOrg}
        /\ Keeps /\ Moves(t, kind, "sent", arg, cookie, task[t].answer) /\ Same /\ turn = NoTask /\ turn' = turn
Leaves(t) ==
    /\ task[t].pc = "idle" /\ Sets(NoSession, "unauthenticated")
    /\ Moves(t, "signOut", "sent", NoOrg, cookie, task[t].answer) /\ Same /\ turn = NoTask /\ turn' = turn

Answers(t, result) == Moves(t, task[t].kind, "answered", task[t].arg, task[t].token, result)
Served(t, kind) ==
    /\ task[t].pc = "sent" /\ task[t].kind = kind /\ turn # t /\ Keeps
    /\ UNCHANGED <<turn, cookie, failures, hydrated>>
Kept == UNCHANGED <<server, crossed>>
SignsIn(t) ==
    Served(t, "signIn") /\ crossed' = crossed /\ \E tok \in Tokens :
        /\ server[tok] = "unused" /\ server' = [server EXCEPT ![tok] = NoOrg]
        /\ Answers(t, Ok([token |-> tok, org |-> NoOrg]))
Ends(t) ==
    /\ \E kind \in {"signOut", "revoke", "revokeAll"} : Served(t, kind)
    /\ \E tokens : /\ End(t, tokens)
                   /\ task[t].kind = "signOut" => tokens = {task[t].token}
                   /\ task[t].kind = "revoke" => tokens = {task[t].arg}
                   /\ task[t].kind = "revokeAll" => task[t].token \in tokens
    /\ Answers(t, Ok(NoSession))
Switches(t) ==
    /\ Served(t, "setActive") /\ Live(task[t].token) /\ crossed' = crossed
    /\ server' = [server EXCEPT ![task[t].token] = task[t].arg] /\ Answers(t, Ok(NoSession))
Refuses(t) == Served(t, "getSession") /\ ~Live(task[t].token) /\ Kept /\ Answers(t, Failed(TRUE))
Declines(t) ==
    \E kind \in ApiCalls \ {"getSession", "signOut"}, result \in Results :
        /\ Served(t, kind) /\ Kept /\ Answers(t, result)
        /\ result.ok => kind = "signIn" /\ result.session = NoSession
Tells(t) ==
    /\ Served(t, "getSession") \/ Served(t, "updateUser")
    /\ Live(task[t].token) /\ Kept
    /\ Answers(t, Ok([token |-> task[t].token, org |-> server[task[t].token]]))
Loses(t) ==
    /\ task[t].pc \in {"sent", "answered"} /\ turn # t /\ Answers(t, Failed(FALSE)) /\ Keeps
    /\ failures' = failures + 1 /\ failures' <= MaxFailures
    /\ UNCHANGED <<turn, cookie, server, hydrated, crossed>>

Handles(t, kind) ==
    /\ turn = NoTask /\ task[t].pc = "answered" /\ task[t].kind = kind
    /\ UNCHANGED <<server, failures, hydrated, crossed>>
Drops(t) ==
    /\ \/ Handles(t, "getSession") /\ ~Reads(t)
       \/ (Handles(t, "signIn") \/ Handles(t, "updateUser") \/ Handles(t, "setActive")
              \/ Handles(t, "signOut") \/ Handles(t, "revokeAll")) /\ ~task[t].answer.ok
       \/ Handles(t, "revoke") /\ ~(task[t].answer.ok /\ IsCurrent(task[t].arg))
    /\ Keeps /\ Keeping(t, "done") /\ UNCHANGED <<turn, cookie>>
Takes(t) ==
    LET r == task[t].answer IN
    /\ Handles(t, "getSession") /\ Reads(t)
    /\ Sets(IF r.ok \/ r.clear THEN r.session ELSE snapshot.session,
            IF r.ok \/ r.clear THEN DerivedStatus(r.session) ELSE KeptStatus)
    /\ Keeping(t, "done") /\ UNCHANGED <<turn, cookie>>
SignedIn(t) ==
    /\ Handles(t, "signIn") /\ Signing(t) /\ Sets(task[t].answer.session, "authenticated")
    /\ cookie' = task[t].answer.session.token /\ Keeping(t, "done") /\ turn' = turn
Updated(t) ==
    /\ Handles(t, "updateUser") /\ Sets([token |-> NoToken, org |-> NoOrg], "authenticated")
    /\ Keeping(t, "done") /\ UNCHANGED <<turn, cookie>>
SignedOut(t) ==
    Handles(t, "signOut") /\ Keeps /\ cookie' = NoToken /\ Keeping(t, "done") /\ turn' = turn
Revoked(t) ==
    /\ Handles(t, "revoke") /\ task[t].answer.ok /\ IsCurrent(task[t].arg)
    /\ Sets(NoSession, "unauthenticated") /\ Keeping(t, "done") /\ UNCHANGED <<turn, cookie>>
RevokedAll(t) ==
    /\ turn = NoTask /\ task[t].pc = "answered" /\ task[t].kind = "revokeAll" /\ task[t].answer.ok
    /\ Sets(NoSession, "unauthenticated") /\ Keeping(t, "done")
    /\ cookie' \in {cookie, NoToken} /\ crossed' = (crossed \/ (Live(cookie') /\ cookie # task[t].token))
    /\ UNCHANGED <<turn, server, failures, hydrated>>
Patched(t) ==
    /\ Handles(t, "setActive") /\ turn' = t /\ Keeping(t, "reread") /\ cookie' = cookie
    /\ IF snapshot.session # NoSession
       THEN Sets([snapshot.session EXCEPT !.org = task[t].arg], "authenticated") ELSE Keeps

Hydrates ==
    /\ ~hydrated /\ hydrated' = TRUE /\ Sets([token |-> FirstToken, org |-> NoOrg], "authenticated")
    /\ UNCHANGED <<task, turn, cookie, server, failures, crossed>>
Rests == Keeps /\ UNCHANGED clientVars
Acts(t) ==
    \/ StartsRead(t) \/ SkipsRead(t) \/ CallsServer(t) \/ Leaves(t)
    \/ SignsIn(t) \/ Ends(t) \/ Switches(t) \/ Refuses(t) \/ Declines(t) \/ Tells(t) \/ Loses(t)
    \/ Drops(t) \/ Takes(t) \/ SignedIn(t) \/ Updated(t) \/ SignedOut(t) \/ Revoked(t) \/ RevokedAll(t)
    \/ Patched(t)

\* A session with another active organization is the session of the same token.
LEMMA PatchedSession ==
    ASSUME NEW s \in Sessions, NEW org \in Orgs \cup {NoOrg}
    PROVE  /\ [s EXCEPT !.org = org] \in Sessions /\ [s EXCEPT !.org = org].token = s.token
           /\ [s EXCEPT !.org = org] # NoSession
<1>1. s \in ClientSessions
  BY Apart
<1> PICK p : p = [s EXCEPT !.org = org]
  OBVIOUS
<1>2. p \in ClientSessions /\ p.token = s.token
  BY <1>1 DEF ClientSessions
<1> QED
  BY <1>2, Apart

LEMMA StartedRead ==
    ASSUME AInv, emits = <<>>, hydrated, NEW t \in Tasks, MayRead(t), Read(t), turn' = NoTask, Same
    PROVE  Engine' /\ hydrated' /\ (StartsRead(t) \/ SkipsRead(t))
<1>0. Engine /\ IInv /\ Types /\ hydrated'
  BY DEF AInv, Loop, Engine, Same
<1>1. CASE inFlight = NoEpoch
  <2>1. BeginRefresh(t) /\ Request(t, "getSession", NoOrg, cookie)
    BY <1>1 DEF Read
  <2>2. Begins(t) /\ Engine'
    BY <1>0, <2>1, BeginsRead
  <2>3. Moves(t, "getSession", "sent", NoOrg, cookie, task[t].answer)
    BY <1>0, <2>1, RequestMoves DEF Types, ApiCalls
  <2> QED
    BY <1>0, <2>2, <2>3 DEF StartsRead
<1>2. CASE inFlight # NoEpoch
  <2>1. Done(t) /\ UNCHANGED vars
    BY <1>2 DEF Read
  <2>2. Keeping(t, "done")
    BY <1>0, <2>1, GoesMoves DEF Done
  <2>3. Keeps /\ Engine'
    BY <1>0, <2>1 DEF Keeps, Engine, Reads, Opening, vars
  <2> QED
    BY <1>0, <1>2, <2>2, <2>3 DEF SkipsRead
<1> QED
  BY <1>1, <1>2

LEMMA CalledServer ==
    ASSUME AInv, NEW t \in Tasks, NEW kind \in ApiCalls \ {"getSession", "signOut"},
           NEW arg \in Orgs \cup Tokens \cup {NoOrg}, CallServer(t, kind, arg),
           kind = "revoke" => arg \in Tokens /\ Used(arg),
           kind = "setActive" => arg \in Orgs \cup {NoOrg}
    PROVE  Engine' /\ hydrated' /\ CallsServer(t)
<1>0. /\ Engine /\ IInv /\ Types /\ hydrated /\ turn = NoTask /\ task[t].pc = "idle"
      /\ Request(t, kind, arg, cookie) /\ UNCHANGED <<vars, turn>> /\ Same
  BY DEF AInv, Loop, Engine, Free, CallServer, Elsewhere, Same
<1>1. Moves(t, kind, "sent", arg, cookie, task[t].answer)
  BY <1>0, RequestMoves DEF Types
<1>2. Keeps /\ Engine'
  BY <1>0 DEF Keeps, Engine, Reads, Opening, vars
<1> QED
  BY <1>0, <1>1, <1>2 DEF CallsServer, Same

LEMMA LeftClient ==
    ASSUME AInv, NEW t \in Tasks, SignOut(t)
    PROVE  Engine' /\ hydrated' /\ Leaves(t)
<1>0. /\ Engine /\ IInv /\ Types /\ hydrated /\ turn = NoTask /\ emits = <<>> /\ Invalidate
      /\ Request(t, "signOut", NoOrg, cookie) /\ UNCHANGED turn /\ Same
      /\ task[t].pc = "idle"
  BY DEF AInv, Loop, Engine, Free, SignOut, Elsewhere, Same
<1>1. Moves(t, "signOut", "sent", NoOrg, cookie, task[t].answer)
  BY <1>0, RequestMoves DEF Types, ApiCalls
<1>2. Sets(NoSession, "unauthenticated") /\ Engine'
  BY <1>0, InvalidatesStore
<1> QED
  BY <1>0, <1>1, <1>2 DEF Leaves, Same

\* A live token's session, and the answer that tells it.
LEMMA LiveSession ==
    ASSUME Types, NEW tok \in Tokens \cup {NoToken}, Live(tok)
    PROVE  tok \in Tokens /\ [token |-> tok, org |-> server[tok]] \in Sessions
  BY Apart DEF Live, ClientSessions

LEMMA ServedTask ==
    ASSUME AInv, NEW t \in Tasks, Serve(t)
    PROVE  Engine' /\ hydrated'
           /\ (SignsIn(t) \/ Ends(t) \/ Switches(t) \/ Refuses(t) \/ Declines(t) \/ Tells(t))
<1>0. /\ Engine /\ IInv /\ Types /\ TaskOk(t) /\ UNCHANGED <<vars, turn, cookie, failures, hydrated>>
      /\ ~hydrated => task[t].pc = "idle"
  BY DEF AInv, Loop, Engine, Serve, TasksOk
<1>1. Keeps /\ Engine'
  BY <1>0 DEF Keeps, Engine, Reads, Opening, vars
<1>2. ASSUME NEW kind, Serveable(t, kind) PROVE Served(t, kind) /\ hydrated'
  BY <1>0, <1>1, <1>2 DEF Serveable, Served, Types
<1>4. \A r \in Results : Answer(t, r) => Answers(t, r)
  BY <1>0, AnswerMoves DEF Answers
<1>5. Ok(NoSession) \in Results /\ \A s \in Sessions : Ok(s) \in Results
  BY ResultFields
<1>6. task[t].token \in Tokens \cup {NoToken}
  BY <1>0, TaskFields
<1> DEFINE Goal == hydrated' /\ (SignsIn(t) \/ Ends(t) \/ Switches(t) \/ Refuses(t) \/ Declines(t) \/ Tells(t))
<1>a. ASSUME NEW kind \in ApiCalls \ {"signOut"}, NEW clear \in BOOLEAN, Refuse(t, kind, clear),
             kind = "getSession" => clear /\ ~Live(task[t].token)
      PROVE  Goal
  <2>1. Served(t, kind) /\ hydrated' /\ Kept /\ Answer(t, Failed(clear))
    BY <1>2, <1>a DEF Refuse, Kept
  <2>2. Failed(clear) \in Results /\ ~Failed(clear).ok
    BY ResultFields
  <2>3. Answers(t, Failed(clear))
    BY <1>4, <2>1, <2>2
  <2> PICK result \in Results : result = Failed(clear)
    BY <2>2
  <2>4. CASE kind = "getSession"
    <3>1. clear = TRUE
      BY <1>a, <2>4
    <3> QED
      BY <1>a, <2>1, <2>3, <2>4, <3>1 DEF Refuses
  <2>5. CASE kind # "getSession"
    BY <2>1, <2>2, <2>3, <2>5 DEF Declines
  <2> QED
    BY <2>4, <2>5
<1>b. ASSUME NEW kind \in {"signOut", "revoke", "revokeAll"}, NEW tokens, Serveable(t, kind), End(t, tokens),
             kind = "signOut" => tokens = {task[t].token}, kind = "revoke" => tokens = {task[t].arg},
             kind = "revokeAll" => task[t].token \in tokens
      PROVE  Goal
  <2>1. Served(t, kind) /\ hydrated' /\ task[t].kind = kind
    BY <1>2, <1>b DEF Served
  <2>2. Answers(t, Ok(NoSession))
    BY <1>4, <1>5, <1>b DEF End
  <2> QED
    BY <1>b, <2>1, <2>2 DEF Ends
<1>c. ASSUME NEW kind \in {"getSession", "updateUser"}, Tell(t, kind)
      PROVE  Goal
  <2>1. CASE ~Live(task[t].token)
    BY <1>a, <1>c, <2>1 DEF Tell, ApiCalls
  <2>2. CASE Live(task[t].token)
    <3>1. [token |-> task[t].token, org |-> server[task[t].token]] \in Sessions
      BY <1>0, <1>6, <2>2, LiveSession
    <3>2. /\ Serveable(t, kind) /\ Kept
          /\ Answer(t, Ok([token |-> task[t].token, org |-> server[task[t].token]]))
      BY <1>c, <2>2 DEF Tell, Kept
    <3>3. Answers(t, Ok([token |-> task[t].token, org |-> server[task[t].token]]))
      BY <1>4, <1>5, <3>1, <3>2
    <3>4. Served(t, kind) /\ hydrated'
      BY <1>2, <3>2
    <3> QED
      BY <2>2, <3>2, <3>3, <3>4 DEF Tells
  <2> QED
    BY <2>1, <2>2
<1> SUFFICES Goal
  BY <1>1
<1>7. CASE ServeSignIn(t)
  <2>1. CASE Refuse(t, "signIn", TRUE)
    BY <1>a, <2>1 DEF ApiCalls
  <2>2. CASE Serveable(t, "signIn") /\ Answer(t, Ok(NoSession)) /\ UNCHANGED <<server, crossed>>
    <3>1. Served(t, "signIn") /\ hydrated' /\ Answers(t, Ok(NoSession)) /\ Kept
      BY <1>2, <1>4, <1>5, <2>2 DEF Kept
    <3> PICK result \in Results : result = Ok(NoSession) /\ result.session = NoSession
      BY ResultFields
    <3> QED
      BY <3>1 DEF Declines, ApiCalls
  <2>3. CASE /\ Serveable(t, "signIn") /\ UNCHANGED crossed
             /\ \E tok \in Tokens :
                  /\ server[tok] = "unused" /\ server' = [server EXCEPT ![tok] = NoOrg]
                  /\ Answer(t, Ok([token |-> tok, org |-> NoOrg]))
    <3>1. PICK tok \in Tokens : /\ server[tok] = "unused" /\ server' = [server EXCEPT ![tok] = NoOrg]
                                /\ Answer(t, Ok([token |-> tok, org |-> NoOrg]))
      BY <2>3
    <3>2. [token |-> tok, org |-> NoOrg] \in Sessions
      BY Apart DEF ClientSessions
    <3>3. Answers(t, Ok([token |-> tok, org |-> NoOrg]))
      BY <1>4, <1>5, <3>1, <3>2
    <3>4. Served(t, "signIn") /\ hydrated'
      BY <1>2, <2>3
    <3> QED
      BY <2>3, <3>1, <3>3, <3>4 DEF SignsIn
  <2> QED
    BY <1>7, <2>1, <2>2, <2>3 DEF ServeSignIn
<1>8. CASE ServeSignOut(t)
  BY <1>b, <1>8 DEF ServeSignOut
<1>9. CASE ServeRevoke(t)
  <2>1. CASE ~Live(task[t].token)
    BY <1>a, <1>9, <2>1 DEF ServeRevoke, ApiCalls
  <2>2. CASE Refuse(t, "revoke", FALSE)
    BY <1>a, <2>2 DEF ApiCalls
  <2>3. CASE Serveable(t, "revoke") /\ End(t, {task[t].arg})
    BY <1>b, <2>3
  <2> QED
    BY <1>9, <2>1, <2>2, <2>3 DEF ServeRevoke
<1>10. CASE ServeRevokeAll(t)
  <2>1. CASE ~Live(task[t].token)
    BY <1>a, <1>10, <2>1 DEF ServeRevokeAll, ApiCalls
  <2>2. CASE Live(task[t].token)
    <3>1. PICK tokens : Serveable(t, "revokeAll") /\ End(t, tokens) /\ task[t].token \in tokens
      BY <1>10, <2>2 DEF ServeRevokeAll, Live
    <3> QED
      BY <1>b, <3>1
  <2> QED
    BY <2>1, <2>2
<1>11. CASE ServeSetActive(t)
  <2>1. CASE ~Live(task[t].token)
    BY <1>a, <1>11, <2>1 DEF ServeSetActive, ApiCalls
  <2>2. CASE Refuse(t, "setActive", FALSE)
    BY <1>a, <2>2 DEF ApiCalls
  <2>3. CASE /\ Live(task[t].token) /\ Serveable(t, "setActive") /\ crossed' = crossed
             /\ server' = [server EXCEPT ![task[t].token] = task[t].arg] /\ Answer(t, Ok(NoSession))
    <3>1. Served(t, "setActive") /\ hydrated' /\ Answers(t, Ok(NoSession))
      BY <1>2, <1>4, <1>5, <2>3
    <3> QED
      BY <2>3, <3>1 DEF Switches
  <2> QED
    BY <1>11, <2>1, <2>2, <2>3 DEF ServeSetActive
<1>12. CASE ServeGetSession(t) \/ ServeUpdateUser(t)
  BY <1>c, <1>12 DEF ServeGetSession, ServeUpdateUser
<1> QED
  BY <1>1, <1>7, <1>8, <1>9, <1>10, <1>11, <1>12 DEF Serve

LEMMA LostTask ==
    ASSUME AInv, NEW t \in Tasks, Lose(t)
    PROVE  Engine' /\ hydrated' /\ Loses(t)
<1>0. /\ Engine /\ IInv /\ Types /\ UNCHANGED <<vars, turn, cookie, server, hydrated, crossed>>
      /\ ~hydrated => task[t].pc = "idle"
      /\ failures < MaxFailures /\ failures' = failures + 1 /\ MaxFailures \in Nat
      /\ task[t].pc \in {"sent", "answered"} /\ turn # t /\ Answer(t, Failed(FALSE))
  BY AuthClientAssumption DEF AInv, Loop, Engine, Lose, AuthClientAssumption
<1>1. Keeps /\ Engine'
  BY <1>0 DEF Keeps, Engine, Reads, Opening, vars
<1>2. Failed(FALSE) \in Results
  BY ResultFields
<1>3. Answers(t, Failed(FALSE))
  BY <1>0, <1>2, AnswerMoves DEF Answers
<1>4. failures + 1 <= MaxFailures /\ hydrated
  BY <1>0 DEF Types
<1> QED
  BY <1>0, <1>1, <1>3, <1>4 DEF Loses

\* Between two turns, when a task's answer is handled.
LEMMA Turn ==
    ASSUME AInv, Free, NEW t \in Tasks
    PROVE  /\ Engine /\ IInv /\ Types /\ hydrated /\ turn = NoTask /\ emits = <<>> /\ TaskOk(t)
           /\ (Done(t) => Keeping(t, "done")) /\ (Goes(t, "reread") => Keeping(t, "reread"))
<1>1. Engine /\ IInv /\ Types /\ hydrated /\ turn = NoTask /\ emits = <<>> /\ TaskOk(t)
  BY DEF AInv, Loop, Engine, Free, TasksOk
<1> QED
  BY <1>1, GoesMoves DEF Done

\* A handler that leaves the store alone.
LEMMA Untouched ==
    ASSUME Engine, UNCHANGED vars
    PROVE  Keeps /\ Engine'
  BY DEF Keeps, Engine, Reads, Opening, vars

LEMMA HandledRead ==
    ASSUME AInv, NEW t \in Tasks, HandleGetSession(t)
    PROVE  Engine' /\ hydrated' /\ (Drops(t) \/ Takes(t))
<1>0. /\ Free /\ task[t].pc = "answered" /\ task[t].kind = "getSession" /\ Done(t)
      /\ CompleteRefresh(t, task[t].answer) /\ UNCHANGED <<turn, cookie, crossed, server, failures, hydrated>>
  BY DEF HandleGetSession, Answered, Elsewhere
<1>1. Engine /\ IInv /\ hydrated /\ turn = NoTask /\ Keeping(t, "done")
  BY <1>0, Turn
<1>2. Handles(t, "getSession")
  BY <1>0, <1>1 DEF Handles
<1>3. CASE Stale(calls[t])
  <2>1. Keeps /\ Engine' /\ ~Reads(t)
    BY <1>0, <1>1, <1>3, IgnoresAnswer
  <2> QED
    BY <1>0, <1>1, <1>2, <2>1 DEF Drops
<1>4. CASE ~Stale(calls[t])
  <2> DEFINE r == task[t].answer
  <2>1. /\ Engine' /\ Reads(t)
        /\ Sets(IF r.ok \/ r.clear THEN r.session ELSE snapshot.session,
                IF r.ok \/ r.clear THEN DerivedStatus(r.session) ELSE KeptStatus)
    BY <1>0, <1>1, <1>4, TakesAnswer
  <2> QED
    BY <1>0, <1>1, <1>2, <2>1 DEF Takes
<1> QED
  BY <1>3, <1>4

LEMMA HandledMutation ==
    ASSUME AInv, NEW t \in Tasks, HandleMutation(t)
    PROVE  Engine' /\ hydrated' /\ (Drops(t) \/ SignedIn(t) \/ Updated(t))
<1>0. /\ Free /\ task[t].pc = "answered" /\ Done(t) /\ UNCHANGED <<turn, crossed, server, failures, hydrated>>
      /\ task[t].kind \in {"signIn", "updateUser"} /\ task[t].answer # Ok(NoSession)
  BY DEF HandleMutation, Answered, Elsewhere
<1>1. Engine /\ IInv /\ Types /\ hydrated /\ turn = NoTask /\ Keeping(t, "done") /\ emits = <<>>
  BY <1>0, Turn
<1>2. Handles(t, task[t].kind)
  BY <1>0, <1>1 DEF Handles
<1>3. CASE ~task[t].answer.ok
  <2>1. UNCHANGED vars /\ cookie' = cookie
    BY <1>3 DEF HandleMutation
  <2>2. Keeps /\ Engine'
    BY <1>1, <2>1, Untouched
  <2> QED
    BY <1>0, <1>1, <1>2, <1>3, <2>1, <2>2 DEF Drops
<1>4. CASE task[t].answer.ok /\ task[t].kind = "signIn"
  <2>1. SetSession(task[t].answer.session, "authenticated") /\ cookie' = task[t].answer.session.token
    BY <1>4 DEF HandleMutation, FromSignIn
  <2>2. Sets(task[t].answer.session, "authenticated") /\ Engine'
    BY <1>1, <2>1, SetsStore
  <2>3. Signing(t)
    BY <1>0, <1>1, <1>4, TaskFields, ResultFields DEF Signing
  <2> QED
    BY <1>0, <1>1, <1>2, <1>4, <2>1, <2>2, <2>3 DEF SignedIn
<1>5. CASE task[t].answer.ok /\ task[t].kind = "updateUser"
  <2>1. SetSession([token |-> NoToken, org |-> NoOrg], "authenticated") /\ cookie' = cookie
    BY <1>5 DEF HandleMutation, FromSignIn
  <2>2. Sets([token |-> NoToken, org |-> NoOrg], "authenticated") /\ Engine'
    BY <1>1, <2>1, SetsStore
  <2> QED
    BY <1>0, <1>1, <1>2, <1>5, <2>1, <2>2 DEF Updated
<1> QED
  BY <1>0, <1>3, <1>4, <1>5

LEMMA HandledRedirect ==
    ASSUME AInv, NEW t \in Tasks, HandleRedirect(t)
    PROVE  Engine' /\ hydrated' /\ (StartsRead(t) \/ SkipsRead(t))
<1>1. /\ emits = <<>> /\ hydrated /\ turn' = NoTask /\ turn = NoTask /\ Same /\ Read(t)
      /\ task[t].pc = "answered" /\ task[t].kind = "signIn" /\ task[t].answer = Ok(NoSession)
  BY DEF HandleRedirect, Answered, Free, Elsewhere, Same
<1>2. Ok(NoSession).session = NoSession
  BY ResultFields
<1>3. MayRead(t)
  BY <1>1, <1>2 DEF MayRead, Signing
<1> QED
  BY <1>1, <1>3, StartedRead

LEMMA HandledSignOut ==
    ASSUME AInv, NEW t \in Tasks, HandleSignOut(t)
    PROVE  Engine' /\ hydrated' /\ (Drops(t) \/ SignedOut(t))
<1>0. /\ Free /\ task[t].pc = "answered" /\ Done(t) /\ UNCHANGED <<vars, turn, crossed, server, failures, hydrated>>
      /\ task[t].kind = "signOut" /\ cookie' = IF task[t].answer.ok THEN NoToken ELSE cookie
  BY DEF HandleSignOut, Answered, Elsewhere
<1>1. Engine /\ hydrated /\ turn = NoTask /\ Keeping(t, "done")
  BY <1>0, Turn
<1>2. Handles(t, "signOut") /\ Keeps /\ Engine'
  BY <1>0, <1>1, Untouched DEF Handles
<1> QED
  BY <1>0, <1>1, <1>2 DEF Drops, SignedOut

LEMMA HandledRevoke ==
    ASSUME AInv, NEW t \in Tasks, HandleRevoke(t)
    PROVE  Engine' /\ hydrated' /\ (Drops(t) \/ Revoked(t))
<1>0. /\ Free /\ task[t].pc = "answered" /\ Done(t) /\ UNCHANGED <<turn, cookie, crossed, server, failures, hydrated>>
      /\ task[t].kind = "revoke"
  BY DEF HandleRevoke, Answered, Elsewhere
<1>1. Engine /\ IInv /\ hydrated /\ turn = NoTask /\ Keeping(t, "done") /\ emits = <<>>
  BY <1>0, Turn
<1>2. Handles(t, "revoke")
  BY <1>0, <1>1 DEF Handles
<1>3. CASE task[t].answer.ok /\ IsCurrent(task[t].arg)
  <2>1. Invalidate
    BY <1>3 DEF HandleRevoke
  <2>2. Sets(NoSession, "unauthenticated") /\ Engine'
    BY <1>1, <2>1, InvalidatesStore
  <2> QED
    BY <1>0, <1>1, <1>2, <1>3, <2>2 DEF Revoked
<1>4. CASE ~(task[t].answer.ok /\ IsCurrent(task[t].arg))
  <2>1. UNCHANGED vars
    BY <1>4 DEF HandleRevoke
  <2>2. Keeps /\ Engine'
    BY <1>1, <2>1, Untouched
  <2> QED
    BY <1>0, <1>1, <1>2, <1>4, <2>2 DEF Drops
<1> QED
  BY <1>3, <1>4

LEMMA HandledRevokeAll ==
    ASSUME AInv, NEW t \in Tasks, HandleRevokeAll(t)
    PROVE  Engine' /\ hydrated' /\ (Drops(t) \/ RevokedAll(t))
<1>0. /\ Free /\ task[t].pc = "answered" /\ Done(t) /\ UNCHANGED <<turn, server, failures, hydrated>>
      /\ task[t].kind = "revokeAll"
  BY DEF HandleRevokeAll, Answered, Elsewhere
<1>1. Engine /\ IInv /\ hydrated /\ turn = NoTask /\ Keeping(t, "done") /\ emits = <<>>
  BY <1>0, Turn
<1>2. CASE task[t].answer.ok
  <2>1. /\ Invalidate /\ cookie' \in {cookie, NoToken}
        /\ crossed' = (crossed \/ (Live(cookie') /\ cookie # task[t].token))
    BY <1>2 DEF HandleRevokeAll
  <2>2. Sets(NoSession, "unauthenticated") /\ Engine'
    BY <1>1, <2>1, InvalidatesStore
  <2> QED
    BY <1>0, <1>1, <1>2, <2>1, <2>2 DEF RevokedAll
<1>3. CASE ~task[t].answer.ok
  <2>1. UNCHANGED vars /\ UNCHANGED <<cookie, crossed>>
    BY <1>3 DEF HandleRevokeAll
  <2>2. Keeps /\ Engine'
    BY <1>1, <2>1, Untouched
  <2>3. Handles(t, "revokeAll")
    BY <1>0, <1>1, <2>1 DEF Handles
  <2> QED
    BY <1>0, <1>1, <1>3, <2>1, <2>2, <2>3 DEF Drops
<1> QED
  BY <1>2, <1>3

LEMMA HandledSwitch ==
    ASSUME AInv, NEW t \in Tasks, PatchActive(t)
    PROVE  Engine' /\ hydrated' /\ (Drops(t) \/ Patched(t))
<1>0. /\ Free /\ task[t].pc = "answered" /\ UNCHANGED <<cookie, crossed, server, failures, hydrated>>
      /\ task[t].kind = "setActive"
  BY DEF PatchActive, Answered, Elsewhere
<1>1. /\ Engine /\ IInv /\ hydrated /\ turn = NoTask /\ emits = <<>>
      /\ (Done(t) => Keeping(t, "done")) /\ (Goes(t, "reread") => Keeping(t, "reread"))
  BY <1>0, Turn
<1>2. Handles(t, "setActive")
  BY <1>0, <1>1 DEF Handles
<1>3. CASE ~task[t].answer.ok
  <2>1. Done(t) /\ UNCHANGED <<vars, turn>>
    BY <1>3 DEF PatchActive
  <2>2. Keeps /\ Engine'
    BY <1>1, <2>1, Untouched
  <2> QED
    BY <1>0, <1>1, <1>2, <1>3, <2>1, <2>2 DEF Drops
<1>4. CASE task[t].answer.ok /\ snapshot.session = NoSession
  <2>1. turn' = t /\ Goes(t, "reread") /\ UNCHANGED vars
    BY <1>4 DEF PatchActive
  <2>2. Keeps /\ Engine'
    BY <1>1, <2>1, Untouched
  <2> QED
    BY <1>0, <1>1, <1>2, <1>4, <2>1, <2>2 DEF Patched
<1>5. CASE task[t].answer.ok /\ snapshot.session # NoSession
  <2>1. /\ turn' = t /\ Goes(t, "reread")
        /\ SetSession([snapshot.session EXCEPT !.org = task[t].arg], "authenticated")
    BY <1>5 DEF PatchActive
  <2>2. Sets([snapshot.session EXCEPT !.org = task[t].arg], "authenticated") /\ Engine'
    BY <1>1, <2>1, SetsStore
  <2> QED
    BY <1>0, <1>1, <1>2, <1>5, <2>1, <2>2 DEF Patched
<1> QED
  BY <1>3, <1>4, <1>5

LEMMA Hydrated1 ==
    ASSUME AInv, Hydrate
    PROVE  Engine' /\ hydrated' /\ Hydrates
<1>1. /\ Engine /\ IInv /\ emits = <<>> /\ ~hydrated /\ hydrated' = TRUE
      /\ SetSession([token |-> FirstToken, org |-> NoOrg], "authenticated")
      /\ UNCHANGED <<task, turn, cookie, server, failures, crossed>>
  BY DEF AInv, Loop, Engine, Hydrate
<1>2. Sets([token |-> FirstToken, org |-> NoOrg], "authenticated") /\ Engine'
  BY <1>1, SetsStore
<1> QED
  BY <1>1, <1>2 DEF Hydrates

\* A loop has nobody to call, so it only ends.
LEMMA Looped ==
    ASSUME AInv, StoreLoop
    PROVE  Engine' /\ hydrated' /\ Rests
<1>1. Engine /\ IInv /\ UNCHANGED clientVars
  BY DEF AInv, Loop, Engine, StoreLoop
<1>2. ~Deliver
  BY <1>1 DEF Engine, Deliver
<1>3. Return /\ emits # <<>>
  BY <1>2 DEF StoreLoop, Return
<1>4. Keeps /\ Engine'
  BY <1>1, <1>3, ReturnsStore
<1>5. hydrated' = hydrated /\ hydrated
  BY <1>1, <1>3 DEF clientVars, AInv, Loop
<1> QED
  BY <1>1, <1>4, <1>5 DEF Rests

\* Every action is one of the steps.
LEMMA Steps ==
    ASSUME AInv, AuthNext
    PROVE  Engine' /\ hydrated' /\ (Hydrates \/ Rests \/ \E t \in Tasks : Acts(t))
<1>1. CASE Hydrate
  BY <1>1, Hydrated1
<1>2. CASE StoreLoop
  BY <1>2, Looped
<1>3. ASSUME NEW t \in Tasks, GetSession(t)
      PROVE  Engine' /\ hydrated' /\ Acts(t)
  <2>1. /\ Free /\ task[t].pc = "idle" /\ Read(t)
        /\ UNCHANGED <<turn, cookie, server, failures, hydrated, crossed>>
    BY <1>3 DEF GetSession, Elsewhere
  <2>2. emits = <<>> /\ hydrated /\ MayRead(t) /\ turn' = NoTask /\ Same
    BY <2>1 DEF Free, MayRead, Same
  <2> QED
    BY <2>1, <2>2, StartedRead DEF Acts
<1>4. ASSUME NEW t \in Tasks, RereadActive(t)
      PROVE  Engine' /\ hydrated' /\ Acts(t)
  <2>1. turn = t /\ task[t].pc = "reread" /\ emits = <<>> /\ turn' = NoTask /\ Read(t) /\ Same
    BY <1>4 DEF RereadActive, Same, Elsewhere
  <2>2. hydrated /\ MayRead(t)
    BY <2>1 DEF AInv, Loop, Types, MayRead
  <2> QED
    BY <2>1, <2>2, StartedRead DEF Acts
<1>5. ASSUME NEW t \in Tasks, NEW kind \in {"signIn", "updateUser", "setActive", "revokeAll"},
             NEW org \in Orgs \cup {NoOrg}, CallServer(t, kind, org)
      PROVE  Engine' /\ hydrated' /\ Acts(t)
  <2>1. kind \in ApiCalls \ {"getSession", "signOut"} /\ kind # "revoke" /\ org \in Orgs \cup Tokens \cup {NoOrg}
    BY DEF ApiCalls
  <2> QED
    BY <1>5, <2>1, CalledServer DEF Acts
<1>6. ASSUME NEW t \in Tasks, Revoke(t)
      PROVE  Engine' /\ hydrated' /\ Acts(t)
  <2>1. PICK tok \in Tokens : server[tok] # "unused" /\ CallServer(t, "revoke", tok)
    BY <1>6 DEF Revoke
  <2>2. Used(tok) /\ tok \in Orgs \cup Tokens \cup {NoOrg} /\ "revoke" \in ApiCalls \ {"getSession", "signOut"}
    BY <2>1 DEF ApiCalls, Used
  <2> QED
    BY <2>1, <2>2, CalledServer DEF Acts
<1>7. ASSUME NEW t \in Tasks, SignOut(t)
      PROVE  Engine' /\ hydrated' /\ Acts(t)
  BY <1>7, LeftClient DEF Acts
<1>8. ASSUME NEW t \in Tasks, Serve(t)
      PROVE  Engine' /\ hydrated' /\ Acts(t)
  BY <1>8, ServedTask DEF Acts
<1>9. ASSUME NEW t \in Tasks, Lose(t)
      PROVE  Engine' /\ hydrated' /\ Acts(t)
  BY <1>9, LostTask DEF Acts
<1>10. ASSUME NEW t \in Tasks, HandleGetSession(t) \/ HandleMutation(t) \/ HandleRedirect(t) \/ HandleSignOut(t)
       PROVE  Engine' /\ hydrated' /\ Acts(t)
  BY <1>10, HandledRead, HandledMutation, HandledRedirect, HandledSignOut DEF Acts
<1>11. ASSUME NEW t \in Tasks, HandleRevoke(t) \/ HandleRevokeAll(t) \/ PatchActive(t)
       PROVE  Engine' /\ hydrated' /\ Acts(t)
  BY <1>11, HandledRevoke, HandledRevokeAll, HandledSwitch DEF Acts
<1>12. ASSUME NEW t \in Tasks, RevokeAll(t)
       PROVE  Engine' /\ hydrated' /\ Acts(t)
  BY <1>5, <1>12 DEF RevokeAll
<1> QED
  BY <1>1, <1>2, <1>3, <1>4, <1>5, <1>6, <1>7, <1>8, <1>9, <1>10, <1>11, <1>12 DEF AuthNext

\* Whatever the client does, the store makes a step of its own or none.
LEMMA StoreSteps == AInv /\ [AuthNext]_allVars => [Next]_vars
<1> SUFFICES ASSUME AInv, AuthNext PROVE [Next]_vars
  BY DEF allVars, vars
<1>1. ASSUME NEW s \in Sessions, SetSession(s, "authenticated")
      PROVE  Next
  <2>1. DerivedStatus(s) = "authenticated"
    BY Apart DEF DerivedStatus
  <2> QED
    BY <1>1, <2>1 DEF Next
<1>2. ASSUME NEW t \in Tasks, Read(t)
      PROVE  [Next]_vars
  BY <1>2 DEF Read, Next, Tasks
<1>3. CASE Hydrate
  <2>1. [token |-> FirstToken, org |-> NoOrg] \in Sessions
    BY Apart DEF ClientSessions
  <2> QED
    BY <1>1, <1>3, <2>1 DEF Hydrate
<1>4. CASE StoreLoop
  BY <1>4 DEF StoreLoop, Next
<1>5. CASE \E t \in Tasks : GetSession(t) \/ RereadActive(t) \/ HandleRedirect(t)
  BY <1>2, <1>5 DEF GetSession, RereadActive, HandleRedirect
<1>6. CASE \E t \in Tasks : SignOut(t)
  BY <1>6 DEF SignOut, Next
<1>7. CASE \E t \in Tasks : Revoke(t) \/ RevokeAll(t) \/ (\E kind, org : CallServer(t, kind, org)) \/ Serve(t)
              \/ Lose(t) \/ HandleSignOut(t)
  BY <1>7 DEF Revoke, RevokeAll, CallServer, Serve, Lose, HandleSignOut
<1>8. ASSUME NEW t \in Tasks, HandleGetSession(t)
      PROVE  [Next]_vars
  <2>1. task[t].answer \in Results /\ CompleteRefresh(t, task[t].answer)
    BY <1>8, TaskFields DEF HandleGetSession, AInv
  <2> QED
    BY <2>1 DEF Next, Tasks
<1>9. ASSUME NEW t \in Tasks, HandleMutation(t)
      PROVE  [Next]_vars
  <2>1. CASE ~task[t].answer.ok
    BY <1>9, <2>1 DEF HandleMutation
  <2>2. CASE task[t].answer.ok
    <3>0. task[t].answer.session = NoSession => task[t].answer = Ok(NoSession)
      BY <2>2, TaskFields, ResultFields DEF AInv
    <3>1. Signing(t) \/ task[t].kind = "updateUser"
      BY <1>9, <2>2, <3>0 DEF HandleMutation, Answered, Signing
    <3>2. CASE Signing(t)
      <4>1. Fresh(t)
        BY <3>2 DEF AInv, TasksOk, TaskOk
      <4> PICK tok \in Tokens : tok = task[t].answer.session.token
        BY <4>1 DEF Fresh
      <4>2. task[t].answer.session = [token |-> tok, org |-> NoOrg]
        BY <4>1 DEF Fresh
      <4>3. [token |-> tok, org |-> NoOrg] \in Sessions
        BY Apart DEF ClientSessions
      <4>4. SetSession(task[t].answer.session, "authenticated")
        BY <1>9, <2>2, <3>2 DEF HandleMutation, FromSignIn, Signing
      <4> QED
        BY <1>1, <4>2, <4>3, <4>4
    <3>3. CASE task[t].kind = "updateUser"
      <4>1. [token |-> NoToken, org |-> NoOrg] \in Sessions
        BY Apart DEF ClientSessions
      <4>2. SetSession([token |-> NoToken, org |-> NoOrg], "authenticated")
        BY <1>9, <2>2, <3>3 DEF HandleMutation, FromSignIn
      <4> QED
        BY <1>1, <4>1, <4>2
    <3> QED
      BY <3>1, <3>2, <3>3
  <2> QED
    BY <2>1, <2>2
<1>10. CASE \E t \in Tasks : HandleRevoke(t) \/ HandleRevokeAll(t)
  BY <1>10 DEF HandleRevoke, HandleRevokeAll, Next
<1>11. ASSUME NEW t \in Tasks, PatchActive(t)
       PROVE  [Next]_vars
  <2>1. snapshot \in Snapshots /\ task[t].arg \in Orgs \cup {NoOrg}
    BY <1>11 DEF AInv, IInv, TypeOK, PatchActive, Answered, TasksOk, TaskOk
  <2>2. CASE snapshot.session = NoSession \/ ~task[t].answer.ok
    BY <1>11, <2>2 DEF PatchActive
  <2>3. CASE snapshot.session # NoSession /\ task[t].answer.ok
    <3>1. snapshot.session \in Sessions
      BY <2>1, <2>3 DEF Snapshots
    <3>2. SetSession([snapshot.session EXCEPT !.org = task[t].arg], "authenticated")
      BY <1>11, <2>3 DEF PatchActive
    <3> QED
      BY <1>1, <2>1, <3>1, <3>2, PatchedSession
  <2> QED
    BY <2>2, <2>3
<1> QED
  BY <1>3, <1>4, <1>5, <1>6, <1>7, <1>8, <1>9, <1>10, <1>11 DEF AuthNext

-----------------------------------------------------------------------------
(* What every step keeps.                                                   *)

Fates ==
    \A tok \in Tokens : /\ server[tok] = "gone" => server'[tok] = "gone"
                        /\ server[tok] # "unused" => server'[tok] # "unused"
Turns(t) ==
    /\ \A u \in Tasks \ {t} : turn' = u <=> turn = u
    /\ turn' = t <=> task'[t].pc = "reread"
Frame(t) ==
    /\ task' \in [Tasks -> TaskTypes] /\ \A u \in Tasks \ {t} : task'[u] = task[u]
    /\ turn' \in Tasks \cup {NoTask} /\ cookie' \in Tokens \cup {NoToken}
    /\ server' \in [Tokens -> Orgs \cup {NoOrg, "unused", "gone"}]
    /\ failures' \in 0..MaxFailures /\ (failures' = 0 => failures = 0)
    /\ crossed' \in BOOLEAN /\ (crossed => crossed')
    /\ \A kind \in {"signOut", "updateUser"} : task[t].kind = kind => task'[t].kind = kind
    /\ Fates /\ Turns(t) /\ hydrated /\ hydrated' = hydrated

LEMMA ActFrame ==
    ASSUME AInv, NEW t \in Tasks, Acts(t), hydrated'
    PROVE  Frame(t)
<1>0. /\ Types /\ TaskOk(t) /\ t # NoTask /\ \A u \in Tasks : turn = u => task[u].pc = "reread"
      /\ NoTask \notin Tasks
  BY Apart DEF AInv, TasksOk, TaskOk
<1>1. /\ task[t].token \in Tokens \cup {NoToken} /\ task[t].arg \in Orgs \cup Tokens \cup {NoOrg}
      /\ task[t].answer \in Results /\ failures \in 0..MaxFailures /\ MaxFailures \in Nat
  BY <1>0, TaskFields, AuthClientAssumption DEF AuthClientAssumption, Types
<1>2. UNCHANGED server => Fates /\ server' \in [Tokens -> Orgs \cup {NoOrg, "unused", "gone"}]
  BY <1>0 DEF Fates, Types
<1>3. CASE StartsRead(t)
  BY <1>0, <1>2, <1>3 DEF StartsRead, MayRead, Moves, Same, Frame, Turns, TaskOk, Types
<1>4. CASE SkipsRead(t)
  BY <1>0, <1>2, <1>4 DEF SkipsRead, MayRead, Keeping, Moves, Same, Frame, Turns, TaskOk, Types
<1>5. CASE CallsServer(t)
  <2>1. PICK kind, arg : /\ task[t].pc = "idle" /\ Moves(t, kind, "sent", arg, cookie, task[t].answer)
                         /\ Same /\ turn = NoTask /\ turn' = turn
    BY <1>5 DEF CallsServer
  <2> QED
    BY <1>0, <1>2, <2>1 DEF Moves, Same, Frame, Turns, TaskOk, Types
<1>6. CASE Leaves(t)
  BY <1>0, <1>2, <1>6 DEF Leaves, Moves, Same, Frame, Turns, TaskOk, Types
<1>7. CASE SignsIn(t)
  <2>1. PICK tok \in Tokens : /\ server[tok] = "unused" /\ server' = [server EXCEPT ![tok] = NoOrg]
                              /\ Answers(t, Ok([token |-> tok, org |-> NoOrg]))
    BY <1>7 DEF SignsIn
  <2>2. Fates /\ server' \in [Tokens -> Orgs \cup {NoOrg, "unused", "gone"}]
    BY <1>0, <2>1, Apart DEF Fates, Types
  <2> QED
    BY <1>0, <1>7, <2>1, <2>2 DEF SignsIn, Served, Answers, Moves, Frame, Turns, TaskOk, Types
<1>8. CASE Ends(t)
  <2>0. PICK tokens : End(t, tokens)
    BY <1>8 DEF Ends
  <2>1. Fates /\ server' \in [Tokens -> Orgs \cup {NoOrg, "unused", "gone"}]
    BY <1>0, <2>0 DEF End, Fates, Types
  <2>2. crossed' \in BOOLEAN /\ (crossed => crossed')
    BY <1>0, <2>0 DEF End, Types
  <2> QED
    BY <1>0, <1>8, <2>1, <2>2 DEF Ends, Served, Answers, Moves, Frame, Turns, TaskOk, Types
<1>9. CASE Switches(t)
  <2>1. /\ Served(t, "setActive") /\ Live(task[t].token) /\ Answers(t, Ok(NoSession))
        /\ server' = [server EXCEPT ![task[t].token] = task[t].arg] /\ crossed' = crossed
        /\ task[t].arg \in Orgs \cup {NoOrg}
    BY <1>0, <1>9 DEF Switches, Served, TaskOk
  <2>2. Fates /\ server' \in [Tokens -> Orgs \cup {NoOrg, "unused", "gone"}]
    BY <1>0, <1>1, <2>1, Apart DEF Fates, Types, Live
  <2> QED
    BY <1>0, <2>1, <2>2 DEF Served, Answers, Moves, Frame, Turns, TaskOk, Types
<1>10. CASE Refuses(t)
  BY <1>0, <1>2, <1>10 DEF Refuses, Kept, Served, Answers, Moves, Frame, Turns, TaskOk, Types
<1>20. CASE Declines(t)
  <2>1. PICK kind, result : Served(t, kind) /\ Kept /\ Answers(t, result)
    BY <1>20 DEF Declines
  <2> QED
    BY <1>0, <1>2, <2>1 DEF Kept, Served, Answers, Moves, Frame, Turns, TaskOk, Types
<1>11. CASE Tells(t)
  BY <1>0, <1>2, <1>11 DEF Tells, Kept, Served, Answers, Moves, Frame, Turns, TaskOk, Types
<1>12. CASE Loses(t)
  <2>1. failures' \in 0..MaxFailures /\ failures' # 0
    BY <1>1, <1>12 DEF Loses
  <2> QED
    BY <1>0, <1>2, <1>12, <2>1 DEF Loses, Answers, Moves, Frame, Turns, TaskOk, Types
<1>13. CASE Drops(t)
  <2>1. /\ turn = NoTask /\ UNCHANGED <<turn, cookie, server, failures, hydrated, crossed>> /\ Keeping(t, "done")
    BY <1>13 DEF Drops, Handles
  <2> QED
    BY <1>0, <1>2, <2>1 DEF Keeping, Moves, Frame, Turns, TaskOk, Types
<1>14. CASE Takes(t)
  BY <1>0, <1>2, <1>14 DEF Takes, Handles, Keeping, Moves, Frame, Turns, TaskOk, Types
<1>15. CASE SignedIn(t)
  <2>1. cookie' \in Tokens
    BY <1>0, <1>15 DEF SignedIn, Handles, TaskOk, Signing, Fresh
  <2> QED
    BY <1>0, <1>2, <1>15, <2>1 DEF SignedIn, Handles, Keeping, Moves, Frame, Turns, TaskOk, Types
<1>16. CASE Updated(t)
  BY <1>0, <1>2, <1>16 DEF Updated, Handles, Keeping, Moves, Frame, Turns, TaskOk, Types
<1>17. CASE SignedOut(t)
  BY <1>0, <1>2, <1>17 DEF SignedOut, Handles, Keeping, Moves, Frame, Turns, TaskOk, Types
<1>18. CASE Revoked(t)
  BY <1>0, <1>2, <1>18 DEF Revoked, Handles, Keeping, Moves, Frame, Turns, TaskOk, Types
<1>19. CASE Patched(t)
  BY <1>0, <1>2, <1>19 DEF Patched, Handles, Keeping, Moves, Frame, Turns, TaskOk, Types
<1>21. CASE RevokedAll(t)
  <2>1. crossed' \in BOOLEAN /\ (crossed => crossed') /\ cookie' \in Tokens \cup {NoToken}
    BY <1>0, <1>21 DEF RevokedAll, Types
  <2> QED
    BY <1>0, <1>2, <1>21, <2>1 DEF RevokedAll, Keeping, Moves, Frame, Turns, TaskOk, Types
<1> QED
  BY <1>3, <1>4, <1>5, <1>6, <1>7, <1>8, <1>9, <1>10, <1>11, <1>12, <1>13, <1>14, <1>15, <1>16, <1>17,
     <1>18, <1>19, <1>20, <1>21 DEF Acts

\* A session being signed in stays apart from every other, whatever a task does.
Unknown(tok, t) ==
    /\ tok \in Tokens /\ New(tok) /\ tok # cookie /\ SigningIn(tok)
    /\ snapshot.session # NoSession => snapshot.session.token # tok
    /\ \A u \in Tasks : task[u].token # tok
    /\ Signing(t) => task[t].answer.session.token # tok
StaysUnknown(tok, t) ==
    /\ New(tok)' /\ tok # cookie'
    /\ snapshot'.session # NoSession => snapshot'.session.token # tok
    /\ task'[t].token # tok
    /\ Signing(t)' => task'[t].answer.session.token # tok

LEMMA FreshStays ==
    ASSUME AInv, NEW t \in Tasks, NEW tok, Unknown(tok, t), Acts(t)
    PROVE  StaysUnknown(tok, t)
<1>0. /\ tok \in Tokens /\ tok # NoToken /\ server[tok] # "unused" /\ Types /\ TaskOk(t)
      /\ task[t].answer \in Results /\ snapshot \in Snapshots
  BY Apart, TaskFields DEF AInv, TasksOk, Unknown, New, IInv, TypeOK
<1>n. New(tok)'
  <2>1. CASE ~Ends(t) /\ ~SignsIn(t) /\ ~Switches(t)
    <3>1. CASE \/ StartsRead(t) \/ SkipsRead(t) \/ CallsServer(t) \/ Leaves(t) \/ Refuses(t) \/ Declines(t)
               \/ Tells(t) \/ Loses(t)
      <4>1. server' = server /\ crossed' = crossed
        BY <3>1 DEF StartsRead, SkipsRead, CallsServer, Leaves, Refuses, Declines, Tells, Loses, Same, Kept
      <4> QED
        BY <4>1 DEF Unknown, New
    <3>2. CASE Drops(t) \/ Takes(t) \/ SignedIn(t) \/ Updated(t) \/ SignedOut(t) \/ Revoked(t) \/ Patched(t)
      <4>1. server' = server /\ crossed' = crossed
        BY <3>2 DEF Drops, Takes, SignedIn, Updated, SignedOut, Revoked, Patched, Handles
      <4> QED
        BY <4>1 DEF Unknown, New
    <3>3. CASE RevokedAll(t)
      BY <3>3 DEF RevokedAll, Unknown, New
    <3> QED
      BY <2>1, <3>1, <3>2, <3>3 DEF Acts
  <2>2. CASE SignsIn(t)
    BY <1>0, <2>2 DEF SignsIn, Unknown, New, Types
  <2>3. CASE Switches(t)
    BY <1>0, <2>3 DEF Switches, Unknown, New, Types
  <2>4. CASE Ends(t)
    <3>1. PICK tokens : End(t, tokens)
      BY <2>4 DEF Ends
    <3>2. CASE tok \in tokens /\ Live(tok)
      <4>1. server'[tok] = "gone" /\ crossed'
        BY <1>0, <3>1, <3>2 DEF End, Unknown
      <4> QED
        BY <4>1 DEF New
    <3>3. CASE ~(tok \in tokens /\ Live(tok))
      <4>1. server'[tok] = server[tok] /\ (crossed => crossed')
        BY <1>0, <3>1, <3>3 DEF End, Types
      <4> QED
        BY <4>1 DEF Unknown, New
    <3> QED
      BY <3>2, <3>3
  <2> QED
    BY <2>1, <2>2, <2>3, <2>4
<1>3. CASE StartsRead(t)
  BY <1>0, <1>n, <1>3 DEF StartsRead, MayRead, Moves, Same, Begins, Unknown, StaysUnknown, Signing
<1>4. CASE SkipsRead(t)
  BY <1>0, <1>n, <1>4 DEF SkipsRead, MayRead, Keeping, Moves, Same, Keeps, Unknown, StaysUnknown, Signing
<1>5. CASE CallsServer(t)
  BY <1>0, <1>n, <1>5 DEF CallsServer, Moves, Same, Keeps, Unknown, StaysUnknown, Signing
<1>6. CASE Leaves(t)
  BY <1>0, <1>n, <1>6 DEF Leaves, Moves, Same, Sets, Unknown, StaysUnknown, Signing
<1>7. CASE SignsIn(t)
  <2>1. PICK new \in Tokens : /\ server[new] = "unused" /\ server' = [server EXCEPT ![new] = NoOrg]
                              /\ Answers(t, Ok([token |-> new, org |-> NoOrg]))
    BY <1>7 DEF SignsIn
  <2>2. Ok([token |-> new, org |-> NoOrg]).session.token = new /\ new # tok
    BY <1>0, <2>1 DEF Ok, Types, Unknown
  <2> QED
    BY <1>0, <1>n, <1>7, <2>1, <2>2 DEF SignsIn, Served, Answers, Moves, Keeps, Unknown, StaysUnknown, Signing
<1>8. CASE Ends(t)
  BY <1>0, <1>n, <1>8 DEF Ends, Served, Answers, Moves, Keeps, Unknown, StaysUnknown, Signing
<1>9. CASE Switches(t)
  BY <1>0, <1>n, <1>9 DEF Switches, Served, Answers, Moves, Keeps, Unknown, StaysUnknown, Signing
<1>10. CASE Refuses(t)
  BY <1>0, <1>n, <1>10 DEF Refuses, Served, Answers, Moves, Keeps, Unknown, StaysUnknown, Signing
<1>20. CASE Declines(t)
  BY <1>0, <1>n, <1>20 DEF Declines, Served, Answers, Moves, Keeps, Unknown, StaysUnknown, Signing
<1>11. CASE Tells(t)
  BY <1>0, <1>n, <1>11 DEF Tells, Served, Answers, Moves, Keeps, Unknown, StaysUnknown, Signing
<1>12. CASE Loses(t)
  BY <1>0, <1>n, <1>12, ResultFields DEF Loses, Answers, Moves, Keeps, Unknown, StaysUnknown, Signing
<1>13. CASE Drops(t)
  BY <1>0, <1>n, <1>13 DEF Drops, Handles, Keeping, Moves, Keeps, Unknown, StaysUnknown, Signing
<1>14. CASE Takes(t)
  <2>1. task[t].answer.ok => task[t].answer.session.token = task[t].token
    BY <1>0, <1>n, <1>14 DEF Takes, Handles, TaskOk, AnswerOk
  <2>2. task[t].answer.clear => task[t].answer.session = NoSession
    BY <1>0, ResultFields
  <2>3. snapshot'.session # NoSession => snapshot'.session.token # tok
    BY <1>14, <2>1, <2>2 DEF Takes, Sets, Unknown
  <2> QED
    BY <1>0, <1>n, <1>14, <2>3 DEF Takes, Handles, Keeping, Moves, Unknown, StaysUnknown, Signing
<1>15. CASE SignedIn(t)
  <2>1. Signing(t) /\ task[t].answer.session.token # tok
    BY <1>15 DEF SignedIn, Handles, Signing, Unknown
  <2> QED
    BY <1>0, <1>n, <1>15, <2>1 DEF SignedIn, Handles, Keeping, Moves, Sets, Unknown, StaysUnknown, Signing
<1>16. CASE Updated(t)
  BY <1>0, <1>n, <1>16 DEF Updated, Handles, Keeping, Moves, Sets, Unknown, StaysUnknown, Signing
<1>17. CASE SignedOut(t)
  BY <1>0, <1>n, <1>17 DEF SignedOut, Handles, Keeping, Moves, Keeps, Unknown, StaysUnknown, Signing
<1>18. CASE Revoked(t)
  BY <1>0, <1>n, <1>18 DEF Revoked, Handles, Keeping, Moves, Sets, Unknown, StaysUnknown, Signing
<1>19. CASE Patched(t)
  <2>1. snapshot'.session # NoSession => snapshot'.session.token # tok
    <3>1. CASE snapshot.session = NoSession
      BY <1>19, <3>1 DEF Patched, Keeps
    <3>2. CASE snapshot.session # NoSession
      <4>1. snapshot.session \in Sessions /\ task[t].arg \in Orgs \cup {NoOrg}
        BY <1>0, <1>19, <3>2 DEF Snapshots, Patched, Handles, TaskOk
      <4> QED
        BY <1>19, <3>2, <4>1, PatchedSession DEF Patched, Sets, Unknown
    <3> QED
      BY <3>1, <3>2
  <2> QED
    BY <1>0, <1>n, <1>19, <2>1 DEF Patched, Handles, Keeping, Moves, Unknown, StaysUnknown, Signing
<1>21. CASE RevokedAll(t)
  BY <1>0, <1>n, <1>21 DEF RevokedAll, Keeping, Moves, Sets, Unknown, StaysUnknown, Signing
<1> QED
  BY <1>3, <1>4, <1>5, <1>6, <1>7, <1>8, <1>9, <1>10, <1>11, <1>12, <1>13, <1>14, <1>15, <1>16, <1>17,
     <1>18, <1>19, <1>20, <1>21 DEF Acts

\* The tasks that did not move keep what is known of them.
LEMMA OthersOk ==
    ASSUME AInv, NEW t \in Tasks, Frame(t), Acts(t), NEW u \in Tasks \ {t}
    PROVE  TaskOk(u)'
<1>0. Types /\ TaskOk(u) /\ task'[u] = task[u] /\ Fates /\ (turn' = u <=> turn = u)
  BY DEF AInv, TasksOk, Frame, Turns
<1>1. task[u].token \in Tokens \cup {NoToken}
  BY <1>0, TaskFields
<1>2. /\ Used(task[u].token)' /\ (Ended(task[u].token) => Ended(task[u].token)')
      /\ (Used(task[u].arg) => Used(task[u].arg)') /\ (Ended(task[u].arg) => Ended(task[u].arg)')
  BY <1>0 DEF Fates, Used, Ended, TaskOk
<1>3. task[u].pc = "answered" => AnswerOk(u)'
  BY <1>0, <1>2 DEF AnswerOk, TaskOk, Frame, Ended
<1>4. ASSUME Signing(u)
      PROVE  Fresh(u)'
  <2>0. Fresh(u) /\ Signing(u)'
    BY <1>0, <1>4 DEF TaskOk, Signing
  <2> PICK tok : tok = task[u].answer.session.token
    OBVIOUS
  <2>1. Unknown(tok, t)
    <3>1. SigningIn(tok)
      <4>1. task[u].answer.session = [token |-> tok, org |-> NoOrg]
        BY <2>0 DEF Fresh
      <4>0. task[u].answer \in Results /\ task[u].answer.ok
        BY <1>0, <1>4, TaskFields DEF Signing
      <4>2. task[u].answer = Ok([token |-> tok, org |-> NoOrg])
        BY <4>0, <4>1, ResultFields
      <4> QED
        BY <1>4, <4>2 DEF SigningIn, Signing
    <3> QED
      BY <2>0, <3>1 DEF Fresh, Unknown
  <2>2. StaysUnknown(tok, t)
    BY <2>1, FreshStays
  <2>3. \A v \in Tasks \ {t} : task'[v] = task[v]
    BY DEF Frame
  <2> QED
    BY <1>0, <2>0, <2>1, <2>2, <2>3 DEF Fresh, Unknown, StaysUnknown, Signing
<1> QED
  BY <1>0, <1>2, <1>3, <1>4 DEF TaskOk, Signing, Used

\* The task that moved.
LEMMA MovedOk ==
    ASSUME AInv, NEW t \in Tasks, Frame(t), Acts(t)
    PROVE  TaskOk(t)'
<1>0. /\ Types /\ TaskOk(t) /\ Fates /\ (turn' = t <=> task'[t].pc = "reread")
      /\ NoToken \notin Tokens /\ task[t].token \in Tokens \cup {NoToken} /\ Used(cookie)
  BY Apart, TaskFields DEF AInv, TasksOk, Frame, Turns, Shown
<1>1. \A tok : Used(tok) => Used(tok)'
  BY <1>0 DEF Fates, Used
<1>2. \A tok : Ended(tok) => Ended(tok)'
  BY <1>0 DEF Fates, Ended
<1>3. CASE StartsRead(t)
  BY <1>0, <1>1, <1>3 DEF StartsRead, Moves, TaskOk, Signing, Used
<1>4. CASE SkipsRead(t)
  BY <1>0, <1>1, <1>4 DEF SkipsRead, Keeping, Moves, TaskOk, Signing, Used
<1>5. CASE CallsServer(t)
  <2>1. "none" \notin ApiCalls
    BY DEF ApiCalls
  <2>2. PICK kind \in ApiCalls, arg \in Orgs \cup Tokens \cup {NoOrg} :
            /\ Moves(t, kind, "sent", arg, cookie, task[t].answer)
            /\ kind = "revoke" => arg \in Tokens /\ Used(arg)
            /\ kind = "setActive" => arg \in Orgs \cup {NoOrg}
            /\ task[t].pc = "idle" /\ Same /\ turn = NoTask /\ turn' = turn
    BY <1>5 DEF CallsServer
  <2> QED
    BY <1>0, <1>1, <2>1, <2>2 DEF Moves, TaskOk, Signing, Used
<1>6. CASE Leaves(t)
  BY <1>0, <1>1, <1>6 DEF Leaves, Moves, TaskOk, Signing, Used
<1> DEFINE tk == task[t].token
<1>a. ASSUME NEW r \in Results, task[t].pc \in {"sent", "answered"}, Answers(t, r),
             Signing(t)' => Fresh(t)', AnswerOk(t)'
      PROVE  TaskOk(t)'
  BY <1>0, <1>1, <1>a DEF Answers, Moves, TaskOk, Used
<1>7. CASE SignsIn(t)
  <2>1. PICK tok \in Tokens : /\ server[tok] = "unused" /\ server' = [server EXCEPT ![tok] = NoOrg]
                              /\ Answers(t, Ok([token |-> tok, org |-> NoOrg]))
    BY <1>7 DEF SignsIn
  <2> PICK s : s = [token |-> tok, org |-> NoOrg]
    OBVIOUS
  <2>2. s \in Sessions /\ s.token = tok
    BY Apart DEF ClientSessions
  <2>3. Ok(s) \in Results /\ Ok(s).session = s /\ Answers(t, Ok(s))
    BY <2>1, <2>2, ResultFields
  <2>4. Served(t, "signIn") /\ task[t].pc = "sent" /\ task[t].kind = "signIn"
    BY <1>7 DEF SignsIn, Served
  <2>5. AnswerOk(t)'
    BY <2>3, <2>4 DEF AnswerOk, Answers, Moves
  <2>6. \A u \in Tasks : task'[u].token # tok
    <3>1. \A u \in Tasks : task[u].token # tok
      BY <2>1 DEF AInv, TasksOk, TaskOk, Used
    <3> QED
      BY <2>3, <3>1 DEF Answers, Moves
  <2>7. ASSUME NEW u \in Tasks, u # t, Signing(u)'
        PROVE  task'[u].answer.session.token # tok
    <3>1. task'[u] = task[u] /\ Signing(u)
      BY <2>3, <2>7 DEF Answers, Moves, Signing
    <3>2. Fresh(u)
      BY <3>1 DEF AInv, TasksOk, TaskOk
    <3>3. server[task[u].answer.session.token] # "unused"
      BY <3>2, Apart DEF Fresh, New
    <3> QED
      BY <2>1, <3>1, <3>3
  <2>8. New(tok)' /\ tok # cookie' /\ (snapshot'.session # NoSession => snapshot'.session.token # tok)
    BY <1>0, <2>1, <2>4 DEF Types, Served, Keeps, AInv, Shown, Used, New
  <2>9. task'[t].answer.session = s
    BY <2>3 DEF Answers, Moves
  <2>10. Fresh(t)'
    BY <2>2, <2>6, <2>7, <2>8, <2>9 DEF Fresh
  <2> QED
    BY <1>a, <2>3, <2>4, <2>5, <2>10
<1>8. CASE Ends(t)
  <2>1. PICK tokens : /\ End(t, tokens) /\ (task[t].kind = "revoke" => tokens = {task[t].arg})
                      /\ (task[t].kind = "revokeAll" => task[t].token \in tokens)
    BY <1>8 DEF Ends
  <2>2. /\ task[t].pc = "sent" /\ task[t].kind \in {"signOut", "revoke", "revokeAll"}
        /\ server' = [tok \in Tokens |-> IF tok \in tokens /\ Live(tok) THEN "gone" ELSE server[tok]]
        /\ Answers(t, Ok(NoSession)) /\ Ok(NoSession) \in Results
    BY <1>8, <2>1, ResultFields DEF Ends, Served, End
  <2>3. task[t].kind = "revoke" => Ended(task[t].arg)'
    <3> SUFFICES ASSUME task[t].kind = "revoke" PROVE server'[task[t].arg] = "gone"
      BY <2>2 DEF Answers, Moves, Ended
    <3> PICK k \in Tokens : k = task[t].arg
      BY <1>0 DEF TaskOk
    <3>1. server[k] # "unused" /\ server[k] \in Orgs \cup {NoOrg, "unused", "gone"}
      BY <1>0 DEF TaskOk, Used, Types
    <3> QED
      BY <2>1, <2>2, <3>1 DEF Live
  <2>5. task[t].kind = "revokeAll" => Ended(task[t].token)'
    <3> SUFFICES ASSUME task[t].kind = "revokeAll", task[t].token \in Tokens PROVE server'[task[t].token] = "gone"
      BY <2>2 DEF Answers, Moves, Ended
    <3> PICK k \in Tokens : k = task[t].token
      OBVIOUS
    <3>1. server[k] # "unused" /\ server[k] \in Orgs \cup {NoOrg, "unused", "gone"}
      BY <1>0 DEF TaskOk, Used, Types
    <3> QED
      BY <2>1, <2>2, <3>1 DEF Live
  <2>4. AnswerOk(t)' /\ ~Signing(t)'
    BY <2>2, <2>3, <2>5 DEF Answers, Moves, AnswerOk, Signing, Ended
  <2> QED
    BY <1>a, <2>2, <2>4
<1>9. CASE Switches(t)
  <2>1. /\ task[t].pc = "sent" /\ task[t].kind = "setActive"
        /\ Answers(t, Ok(NoSession)) /\ Ok(NoSession) \in Results
    BY <1>9, ResultFields DEF Switches, Served
  <2>2. AnswerOk(t)' /\ ~Signing(t)'
    BY <2>1 DEF Answers, Moves, AnswerOk, Signing
  <2> QED
    BY <1>a, <2>1, <2>2
<1>10. CASE Refuses(t)
  <2>1. /\ task[t].pc = "sent" /\ task[t].kind = "getSession" /\ ~Live(tk)
        /\ server' = server /\ Answers(t, Failed(TRUE))
        /\ Failed(TRUE) \in Results /\ ~Failed(TRUE).ok /\ Failed(TRUE).clear
    BY <1>10, ResultFields DEF Refuses, Kept, Served
  <2>2. Ended(tk)
    BY <1>0, <2>1 DEF TaskOk, Used, Ended, Types, Live
  <2>3. AnswerOk(t)' /\ ~Signing(t)'
    BY <2>1, <2>2 DEF Answers, Moves, AnswerOk, Signing, Ended
  <2> QED
    BY <1>a, <2>1, <2>3
<1>20. CASE Declines(t)
  <2>1. PICK result \in Results :
            /\ task[t].pc = "sent" /\ task[t].kind \in ApiCalls \ {"getSession", "signOut"}
            /\ Answers(t, result) /\ (result.ok => task[t].kind = "signIn" /\ result.session = NoSession)
    BY <1>20 DEF Declines, Served
  <2>2. AnswerOk(t)' /\ ~Signing(t)'
    BY <2>1 DEF Answers, Moves, AnswerOk, Signing
  <2> QED
    BY <1>a, <2>1, <2>2
<1>11. CASE Tells(t)
  <2>1. /\ task[t].pc = "sent" /\ task[t].kind \in {"getSession", "updateUser"} /\ Live(tk)
        /\ Answers(t, Ok([token |-> tk, org |-> server[tk]]))
    BY <1>11 DEF Tells, Served
  <2>2. [token |-> tk, org |-> server[tk]] \in Sessions
    BY <1>0, <2>1, LiveSession
  <2> PICK s \in Sessions : s = [token |-> tk, org |-> server[tk]]
    BY <2>2
  <2>3. /\ Ok(s) \in Results /\ Ok(s).ok /\ ~Ok(s).clear /\ Ok(s).session = s /\ s.token = tk
        /\ s # NoSession /\ Answers(t, Ok(s))
    BY <2>1, ResultFields, Apart
  <2>4. AnswerOk(t)' /\ ~Signing(t)'
    BY <2>1, <2>3 DEF Answers, Moves, AnswerOk, Signing, Ended
  <2> QED
    BY <1>a, <2>1, <2>3, <2>4
<1>12. CASE Loses(t)
  <2>0. failures \in Nat
    BY <1>0, AuthClientAssumption DEF Types, AuthClientAssumption
  <2>1. task[t].pc \in {"sent", "answered"} /\ Answers(t, Failed(FALSE)) /\ failures' = failures + 1
    BY <1>12 DEF Loses
  <2> PICK r \in Results : r = Failed(FALSE) /\ ~r.ok /\ ~r.clear
    BY ResultFields
  <2>2. task'[t].answer = r /\ failures' # 0 /\ Answers(t, r)
    BY <2>0, <2>1 DEF Answers, Moves
  <2>3. AnswerOk(t)' /\ ~Signing(t)'
    BY <2>2 DEF AnswerOk, Signing
  <2> QED
    BY <1>a, <2>1, <2>2, <2>3
<1>b. ASSUME Keeping(t, "done")
      PROVE  TaskOk(t)'
  BY <1>0, <1>1, <1>b DEF Keeping, Moves, TaskOk, Signing, Used
<1>13. CASE Drops(t) \/ Takes(t) \/ SignedIn(t) \/ Updated(t) \/ SignedOut(t) \/ Revoked(t)
           \/ RevokedAll(t)
  BY <1>b, <1>13 DEF Drops, Takes, SignedIn, Updated, SignedOut, Revoked, RevokedAll
<1>14. CASE Patched(t)
  BY <1>0, <1>1, <1>14 DEF Patched, Handles, Keeping, Moves, TaskOk, Signing, Used
<1> QED
  BY <1>3, <1>4, <1>5, <1>6, <1>7, <1>8, <1>9, <1>10, <1>11, <1>12, <1>13, <1>14, <1>20 DEF Acts

\* What was asked of the client was asked of it.
LEMMA MadeStays ==
    ASSUME NEW t \in Tasks, Frame(t), NEW kind \in {"signOut", "updateUser"}, Made(kind)
    PROVE  Made(kind)'
  BY DEF Frame, Made

\* What the answer to the read in flight is worth.
LEMMA TakenAnswer ==
    ASSUME AInv, NEW t \in Tasks, Takes(t)
    PROVE  LET r == task[t].answer IN
           /\ r.ok => r.session # NoSession /\ r.session.token = task[t].token
           /\ r.clear => r.session = NoSession /\ Ended(task[t].token)
           /\ failures = 0 => r.ok \/ r.clear
           /\ ~Made("signOut") => task[t].token = cookie
<1>1. TaskOk(t) /\ Types /\ Flights /\ Reads(t) /\ task[t].pc = "answered" /\ task[t].kind = "getSession"
  BY DEF AInv, TasksOk, Takes, Handles
<1>2. task[t].answer.clear => task[t].answer.session = NoSession
  BY <1>1, TaskFields, ResultFields
<1> QED
  BY <1>1, <1>2 DEF TaskOk, AnswerOk, Flights

LEMMA FlightsNext ==
    ASSUME AInv, NEW t \in Tasks, Frame(t), Acts(t)
    PROVE  Flights'
<1>0. /\ Flights /\ (failures' = 0 => failures = 0) /\ (Made("signOut") => Made("signOut")')
      /\ \A u \in Tasks \ {t} : task'[u] = task[u]
  BY MadeStays DEF AInv, Frame
<1>a. ASSUME NEW s, NEW status, Sets(s, status), failures' = 0 => status # "loading"
      PROVE  Flights'
  BY <1>a DEF Flights, Sets
<1>b. ASSUME Keeps, cookie' = cookie \/ Made("signOut")',
             Reads(t) => /\ task'[t].kind = "getSession" /\ task'[t].pc \in {"sent", "answered"}
                         /\ task'[t].token = task[t].token
      PROVE  Flights'
  <2>1. inFlight' # NoEpoch => \E u \in Tasks : Reads(u)'
    BY <1>0, <1>b DEF Keeps, Flights
  <2>2. ASSUME NEW u \in Tasks, Reads(u)'
        PROVE  /\ task'[u].kind = "getSession" /\ task'[u].pc \in {"sent", "answered"}
               /\ ~Made("signOut")' => task'[u].token = cookie'
    BY <1>0, <1>b, <2>2 DEF Keeps, Flights
  <2>3. failures' = 0 /\ snapshot'.status = "loading" => inFlight' # NoEpoch
    BY <1>0, <1>b DEF Keeps, Flights
  <2> QED
    BY <2>1, <2>2, <2>3 DEF Flights
<1>c. Reads(t) => task[t].kind = "getSession" /\ task[t].pc \in {"sent", "answered"}
  BY <1>0 DEF Flights
<1>3. CASE StartsRead(t)
  BY <1>3 DEF StartsRead, Begins, Moves, Same, Flights
<1>4. CASE SkipsRead(t)
  BY <1>b, <1>c, <1>4 DEF SkipsRead, MayRead, Same
<1>5. CASE CallsServer(t)
  BY <1>b, <1>c, <1>5 DEF CallsServer, Same
<1>6. CASE Leaves(t)
  BY <1>a, <1>6 DEF Leaves
<1>7. CASE SignsIn(t)
  BY <1>b, <1>c, <1>7 DEF SignsIn, Served
<1>8. CASE Ends(t)
  BY <1>b, <1>c, <1>8 DEF Ends, Served
<1>9. CASE Switches(t)
  BY <1>b, <1>c, <1>9 DEF Switches, Served
<1>10. CASE Refuses(t)
  BY <1>b, <1>c, <1>10 DEF Refuses, Served, Answers, Moves
<1>20. CASE Declines(t)
  BY <1>b, <1>c, <1>20 DEF Declines, Served
<1>11. CASE Tells(t)
  BY <1>b, <1>c, <1>11 DEF Tells, Served, Answers, Moves
<1>12. CASE Loses(t)
  BY <1>b, <1>c, <1>12 DEF Loses, Answers, Moves
<1>13. CASE Drops(t)
  BY <1>b, <1>c, <1>13 DEF Drops, Handles
<1>14. CASE Takes(t)
  <2> DEFINE r == task[t].answer
             status == IF r.ok \/ r.clear THEN DerivedStatus(r.session) ELSE KeptStatus
  <2>1. failures' = 0 => status # "loading"
    BY <1>0, <1>14, TakenAnswer DEF DerivedStatus
  <2>2. Sets(IF r.ok \/ r.clear THEN r.session ELSE snapshot.session, status)
    BY <1>14 DEF Takes
  <2> HIDE DEF status
  <2> QED
    BY <1>a, <2>1, <2>2
<1>15. CASE SignedIn(t)
  BY <1>a, <1>15 DEF SignedIn
<1>16. CASE Updated(t)
  BY <1>a, <1>16 DEF Updated
<1>17. CASE SignedOut(t)
  <2>1. Made("signOut")'
    BY <1>17 DEF SignedOut, Handles, Keeping, Moves, Made
  <2> QED
    BY <1>b, <1>c, <1>17, <2>1 DEF SignedOut, Handles
<1>18. CASE Revoked(t)
  BY <1>a, <1>18 DEF Revoked
<1>19. CASE Patched(t)
  BY <1>a, <1>b, <1>c, <1>19 DEF Patched, Handles
<1>21. CASE RevokedAll(t)
  BY <1>a, <1>21 DEF RevokedAll
<1> QED
  BY <1>3, <1>4, <1>5, <1>6, <1>7, <1>8, <1>9, <1>10, <1>11, <1>12, <1>13, <1>14, <1>15, <1>16, <1>17,
     <1>18, <1>19, <1>20, <1>21 DEF Acts

LEMMA ShownNext ==
    ASSUME AInv, NEW t \in Tasks, Frame(t), Acts(t)
    PROVE  Shown'
<1>0. /\ Shown /\ TaskOk(t) /\ Fates /\ hydrated /\ hydrated' = hydrated /\ NoToken \notin Tokens
      /\ (crossed => crossed') /\ Types
      /\ (Made("signOut") => Made("signOut")') /\ (Made("updateUser") => Made("updateUser")')
  BY MadeStays, Apart DEF AInv, Frame, TasksOk
<1>1. \A tok : Used(tok) => Used(tok)'
  BY <1>0 DEF Fates, Used
<1>2. \A tok : Ended(tok) => Ended(tok)'
  BY <1>0 DEF Fates, Ended
\* a step that leaves session and cookie alone
<1>a. ASSUME snapshot'.session = snapshot.session, cookie' = cookie,
             snapshot'.status \in {snapshot.status, "loading", "error"}
      PROVE  Shown'
  <2>1. snapshot'.status = "authenticated" => snapshot'.session # NoSession
    BY <1>0, <1>a DEF Shown
  <2>2. Used(cookie)' /\ (snapshot'.session # NoSession => Used(snapshot.session.token)')
    BY <1>0, <1>1, <1>a DEF Shown, Used
  <2>3. ~Made("signOut")' /\ hydrated' =>
            /\ snapshot'.session # NoSession =>
                \/ snapshot'.session.token = cookie'
                \/ snapshot'.session.token = NoToken /\ Made("updateUser")'
            /\ Hydrated /\ snapshot'.session = NoSession => Ended(cookie)' \/ crossed'
    BY <1>0, <1>2, <1>a DEF Shown, Ended
  <2> QED
    BY <1>a, <2>1, <2>2, <2>3 DEF Shown, Used
\* a step that installs a session for the cookie
<1>b. ASSUME NEW s, Sets(s, "authenticated"), s # NoSession, Used(cookie)', Used(s.token)',
             s.token = cookie' \/ (s.token = NoToken /\ Made("updateUser")') \/ Made("signOut")'
      PROVE  Shown'
  BY <1>b DEF Sets, Shown, Used
\* a step that clears the session
<1>c. ASSUME NEW status, status # "authenticated", Sets(NoSession, status), Used(cookie)',
             Made("signOut")' \/ Ended(cookie)' \/ crossed'
      PROVE  Shown'
  BY <1>c DEF Sets, Shown
<1>3. CASE StartsRead(t) \/ SkipsRead(t) \/ CallsServer(t) \/ SignsIn(t) \/ Ends(t) \/ Switches(t)
           \/ Refuses(t) \/ Declines(t) \/ Tells(t) \/ Loses(t) \/ Drops(t)
  <2>1. snapshot'.session = snapshot.session /\ cookie' = cookie
    BY <1>3 DEF StartsRead, SkipsRead, CallsServer, SignsIn, Ends, Switches, Refuses, Declines, Tells, Loses, Drops,
                Served, Keeps, Begins, Same
  <2>2. snapshot'.status \in {snapshot.status, "loading", "error"}
    BY <1>3 DEF StartsRead, SkipsRead, CallsServer, SignsIn, Ends, Switches, Refuses, Declines, Tells, Loses, Drops,
                Served, Keeps, Begins, Same
  <2> QED
    BY <1>a, <2>1, <2>2
<1>6. CASE Leaves(t)
  <2>1. Made("signOut")' /\ cookie' = cookie
    BY <1>6 DEF Leaves, Moves, Made, Same
  <2>2. Used(cookie)'
    BY <1>0, <1>1, <2>1 DEF Shown, Used
  <2> QED
    BY <1>c, <1>6, <2>1, <2>2 DEF Leaves
<1>14. CASE Takes(t)
  <2> DEFINE r == task[t].answer
  <2>1. /\ r.ok => r.session # NoSession /\ r.session.token = task[t].token
        /\ r.clear => r.session = NoSession /\ Ended(task[t].token)
        /\ ~Made("signOut") => task[t].token = cookie
    BY <1>14, TakenAnswer
  <2> PICK tok : tok = task[t].token
    OBVIOUS
  <2>2. Used(tok)' /\ Used(cookie)' /\ cookie' = cookie
    BY <1>0, <1>1, <1>14 DEF TaskOk, Shown, Takes, Used
  <2>3. Sets(IF r.ok \/ r.clear THEN r.session ELSE snapshot.session,
             IF r.ok \/ r.clear THEN DerivedStatus(r.session) ELSE KeptStatus)
    BY <1>14 DEF Takes
  <2>4. CASE r.ok
    <3> PICK s : s = r.session
      OBVIOUS
    <3>1. Sets(s, "authenticated") /\ s # NoSession /\ s.token = tok
      BY <2>1, <2>3, <2>4 DEF DerivedStatus
    <3>2. Used(s.token)'
      BY <2>2, <3>1
    <3>3. s.token = cookie' \/ (s.token = NoToken /\ Made("updateUser")') \/ Made("signOut")'
      BY <1>0, <2>1, <2>2, <3>1
    <3> QED
      BY <1>b, <2>2, <3>1, <3>2, <3>3
  <2>5. CASE r.clear
    <3>1. Sets(NoSession, "unauthenticated")
      BY <2>1, <2>3, <2>5 DEF DerivedStatus
    <3>2. Made("signOut")' \/ Ended(cookie)'
      BY <1>0, <1>2, <2>1, <2>2, <2>5 DEF Ended
    <3> QED
      BY <1>c, <2>2, <3>1, <3>2
  <2>6. CASE ~r.ok /\ ~r.clear
    BY <1>a, <2>2, <2>3, <2>6 DEF Sets, KeptStatus
  <2> QED
    BY <2>4, <2>5, <2>6
<1>15. CASE SignedIn(t)
  <2>1. Fresh(t) /\ cookie' = task[t].answer.session.token /\ Sets(task[t].answer.session, "authenticated")
    BY <1>0, <1>15 DEF SignedIn, Handles, TaskOk, Signing
  <2> PICK tok \in Tokens : tok = task[t].answer.session.token
    BY <2>1 DEF Fresh
  <2>2. server[tok] # "unused" /\ task[t].answer.session = [token |-> tok, org |-> NoOrg]
    BY <2>1, Apart DEF Fresh, New
  <2>3. server' = server
    BY <1>15 DEF SignedIn, Handles
  <2>4. Used(cookie)' /\ server'[tok] # "unused"
    BY <2>1, <2>2, <2>3, Apart DEF Used
  <2> PICK s : s = [token |-> tok, org |-> NoOrg]
    OBVIOUS
  <2>5. s # NoSession /\ s.token = cookie' /\ Sets(s, "authenticated") /\ Used(s.token)'
    <3>1. s \in Sessions
      BY Apart DEF ClientSessions
    <3> QED
      BY <2>1, <2>2, <2>4, <3>1, Apart DEF Used
  <2> QED
    BY <1>b, <2>4, <2>5
<1>16. CASE Updated(t)
  <2> PICK s : s = [token |-> NoToken, org |-> NoOrg]
    OBVIOUS
  <2>1. s \in Sessions
    BY Apart DEF ClientSessions
  <2>2. s # NoSession /\ s.token = NoToken /\ Sets(s, "authenticated") /\ cookie' = cookie
    BY <1>16, <2>1, Apart DEF Updated
  <2>3. Made("updateUser")'
    BY <1>16 DEF Updated, Handles, Keeping, Moves, Made
  <2>4. Used(cookie)' /\ Used(s.token)'
    BY <1>0, <1>1, <2>2 DEF Shown, Used
  <2> QED
    BY <1>b, <2>2, <2>3, <2>4
<1>17. CASE SignedOut(t)
  <2>1. Made("signOut")' /\ cookie' = NoToken /\ snapshot' = snapshot
    BY <1>17 DEF SignedOut, Handles, Keeping, Moves, Made, Keeps
  <2> QED
    BY <1>0, <1>1, <2>1 DEF Shown, Used
<1>18. CASE Revoked(t)
  <2>1. /\ task[t].answer.ok /\ task[t].pc = "answered" /\ task[t].kind = "revoke" /\ cookie' = cookie
        /\ snapshot.session # NoSession /\ snapshot.session.token = task[t].arg
        /\ Sets(NoSession, "unauthenticated")
    BY <1>18 DEF Revoked, Handles, IsCurrent
  <2>2. Ended(task[t].arg) /\ task[t].arg # NoToken
    BY <1>0, <2>1 DEF TaskOk, AnswerOk
  <2>3. Used(cookie)' /\ (Made("signOut")' \/ Ended(cookie)')
    BY <1>0, <1>1, <1>2, <2>1, <2>2 DEF Shown, Used, Ended
  <2> QED
    BY <1>c, <2>1, <2>3
<1>19. CASE Patched(t)
  <2>1. CASE snapshot.session = NoSession
    BY <1>a, <1>19, <2>1 DEF Patched, Keeps
  <2>2. CASE snapshot.session # NoSession
    <3>1. snapshot.session \in Sessions /\ task[t].arg \in Orgs \cup {NoOrg}
      BY <1>0, <1>19, <2>2 DEF AInv, IInv, TypeOK, Snapshots, Patched, Handles, TaskOk
    <3> PICK s : s = [snapshot.session EXCEPT !.org = task[t].arg]
      OBVIOUS
    <3>2. s # NoSession /\ s.token = snapshot.session.token
      BY <3>1, PatchedSession
    <3>3. Sets(s, "authenticated") /\ cookie' = cookie
      BY <1>19, <2>2 DEF Patched
    <3>4. Used(cookie)' /\ Used(s.token)'
      BY <1>0, <1>1, <2>2, <3>2, <3>3 DEF Shown, Used
    <3>5. s.token = cookie' \/ (s.token = NoToken /\ Made("updateUser")') \/ Made("signOut")'
      BY <1>0, <2>2, <3>2, <3>3 DEF Shown
    <3> QED
      BY <1>b, <3>2, <3>3, <3>4, <3>5
  <2> QED
    BY <2>1, <2>2
<1>20. CASE RevokedAll(t)
  <2>1. /\ cookie' \in {cookie, NoToken} /\ server' = server /\ Sets(NoSession, "unauthenticated")
        /\ crossed' = (crossed \/ (Live(cookie') /\ cookie # task[t].token)) /\ Ended(task[t].token)
    BY <1>0, <1>20 DEF RevokedAll, TaskOk, AnswerOk
  <2> PICK tok \in {cookie, NoToken} : tok = cookie'
    BY <2>1
  <2>2. Used(tok)
    BY <1>0 DEF Shown, Used
  <2>3. Used(cookie)'
    BY <1>1, <2>1, <2>2 DEF Used
  <2>4. ~Live(tok) => Ended(tok)
    BY <1>0, <2>2 DEF Used, Ended, Live, Types
  <2>6. tok = NoToken \/ tok = cookie
    OBVIOUS
  <2>5. Ended(cookie)' \/ crossed'
    BY <1>0, <2>1, <2>4, <2>6 DEF Ended
  <2> QED
    BY <1>c, <2>1, <2>3, <2>5
<1> QED
  BY <1>3, <1>6, <1>14, <1>15, <1>16, <1>17, <1>18, <1>19, <1>20 DEF Acts

\* What the server holds for the cookie changes with the cookie or its row.
LEMMA ViewKept ==
    ASSUME cookie' = cookie, cookie \in Tokens => server'[cookie] = server[cookie]
    PROVE  ServerView' = ServerView
  BY DEF ServerView, Live

LEMMA EndedView ==
    ASSUME Ended(cookie)
    PROVE  ServerView = NoSession
  BY Apart DEF Ended, ServerView, Live

\* A client that shows no session is right, and so is the answer it waits for.
LEMMA NoneShown ==
    ASSUME AInv, Calm, snapshot.session = NoSession
    PROVE  ServerView = NoSession /\ Good
<1>1. ServerView = NoSession
  BY EndedView DEF AInv, Shown, Calm
<1>2. ASSUME NEW t \in Tasks, Reads(t), task[t].pc = "answered"
      PROVE  task[t].answer.session = NoSession
  <2>1. ~task[t].answer.ok /\ task[t].kind = "getSession" /\ AnswerOk(t) /\ task[t].answer \in Results
    BY <1>2, TaskFields DEF AInv, Current, Flights, TasksOk, TaskOk
  <2>2. task[t].answer.clear
    BY <2>1 DEF AnswerOk, Calm
  <2> QED
    BY <2>1, <2>2, ResultFields
<1> QED
  BY <1>1, <1>2 DEF Good

LEMMA CurrentNext ==
    ASSUME AInv, NEW t \in Tasks, Frame(t), Acts(t), Shown'
    PROVE  Current'
<1> SUFFICES ASSUME Calm' PROVE Current'
  BY DEF Current
<1> DEFINE C1 == snapshot.session = NoSession =>
                   \A u \in Tasks : Reads(u) /\ task[u].pc = "answered" => ~task[u].answer.ok
           C2 == \A u \in Tasks : task[u].pc = "reread" => snapshot.session = NoSession \/ inFlight = NoEpoch
           C3 == Coming \/ (Good /\ (inFlight # NoEpoch \/ snapshot.session = ServerView))
<1>0. /\ Calm /\ ~Made("signOut")' /\ ~Made("updateUser")' /\ failures = 0 /\ failures' = 0
      /\ Types /\ TaskOk(t) /\ Flights /\ \A u \in Tasks \ {t} : task'[u] = task[u]
  BY MadeStays DEF Calm, Frame, AInv, TasksOk
<1>1. C1 /\ C2 /\ C3
  BY <1>0 DEF AInv, Current
<1>c. Reads(t) => task[t].kind = "getSession" /\ task[t].pc \in {"sent", "answered"} /\ task[t].token = cookie
  BY <1>0 DEF Flights, Calm
<1>f. \A u \in Tasks : task[u].pc = "reread" => turn = u /\ u # NoTask
  BY Apart DEF AInv, TasksOk, TaskOk
<1> SUFFICES C1' /\ C2' /\ C3'
  BY DEF Current
<1>a. ASSUME Keeps, cookie' = cookie, ServerView' = ServerView, Brings(t) => Brings(t)',
             task'[t].pc # "reread",
             Reads(t) /\ task'[t].pc = "answered" =>
               /\ task'[t].answer.session = ServerView
               /\ snapshot.session = NoSession => ~task'[t].answer.ok
      PROVE  C1' /\ C2' /\ C3'
  <2>1. C1'
    BY <1>0, <1>1, <1>a DEF Keeps
  <2>2. C2'
    BY <1>0, <1>1, <1>a DEF Keeps
  <2>3. CASE Coming
    BY <1>0, <1>a, <2>1, <2>2, <2>3 DEF Coming, Brings
  <2>4. CASE ~Coming
    <3>1. Good'
      BY <1>0, <1>1, <1>a, <2>4 DEF Good, Keeps
    <3> QED
      BY <1>1, <1>a, <2>1, <2>2, <2>4, <3>1 DEF Keeps
  <2> QED
    BY <2>3, <2>4
<1>b. ASSUME NEW s, NEW status, Sets(s, status), s = ServerView'
      PROVE  C1' /\ C2' /\ C3'
  BY <1>b DEF Sets, Good
<1>d. ASSUME Keeps, Brings(t)', ~Reads(t), task'[t].pc = "reread" => snapshot.session = NoSession
      PROVE  C1' /\ C2' /\ C3'
  <2>1. C1' /\ C2'
    BY <1>0, <1>1, <1>d DEF Keeps
  <2> QED
    BY <1>d, <2>1 DEF Coming
<1>e. ASSUME Keeps, Keeping(t, "done"), UNCHANGED <<cookie, server>>, snapshot.session = NoSession
      PROVE  C1' /\ C2' /\ C3'
  <2>1. ServerView = NoSession /\ Good /\ ServerView' = ServerView
    BY <1>0, <1>e, NoneShown, ViewKept
  <2>2. task'[t].pc = "done"
    BY <1>e DEF Keeping, Moves
  <2>3. Good'
    BY <1>0, <1>e, <2>1, <2>2 DEF Good, Keeps
  <2>4. C1' /\ C2'
    BY <1>0, <1>1, <1>e, <2>2 DEF Keeps
  <2> QED
    BY <1>e, <2>1, <2>3, <2>4 DEF Keeps
<1>3. CASE StartsRead(t)
  <2>1. \A u \in Tasks : task'[u].pc # "reread"
    BY <1>0, <1>3, <1>f DEF StartsRead, MayRead, Moves
  <2> QED
    BY <1>3, <2>1 DEF StartsRead, Begins, Moves, Good
<1>4. CASE SkipsRead(t)
  <2>1. CASE task[t].pc = "idle" \/ (task[t].pc = "answered" /\ task[t].kind = "signIn")
    <3>1. ServerView' = ServerView
      BY <1>4, ViewKept DEF SkipsRead, Same
    <3> QED
      BY <1>a, <1>c, <1>4, <2>1, <3>1 DEF SkipsRead, Keeping, Moves, Same, Brings
  <2>2. CASE task[t].pc = "reread"
    BY <1>1, <1>e, <1>4, <2>2 DEF SkipsRead, Same
  <2> QED
    BY <1>4, <2>1, <2>2 DEF SkipsRead, MayRead
<1>5. CASE CallsServer(t)
  <2>1. ServerView' = ServerView
    BY <1>5, ViewKept DEF CallsServer, Same
  <2> QED
    BY <1>a, <1>c, <1>5, <2>1 DEF CallsServer, Moves, Same, Brings
<1>6. CASE Leaves(t)
  BY <1>0, <1>6 DEF Leaves, Moves, Made
<1>7. CASE SignsIn(t)
  <2>1. PICK tok \in Tokens : /\ server[tok] = "unused" /\ server' = [server EXCEPT ![tok] = NoOrg]
                              /\ Answers(t, Ok([token |-> tok, org |-> NoOrg]))
    BY <1>7 DEF SignsIn
  <2>2. cookie \in Tokens => server'[cookie] = server[cookie]
    BY <1>0, <2>1 DEF AInv, Shown, Used, Types
  <2>3. ServerView' = ServerView
    BY <1>7, <2>2, ViewKept DEF SignsIn, Served
  <2> QED
    BY <1>a, <1>c, <1>7, <2>1, <2>3 DEF SignsIn, Served, Answers, Moves, Brings
<1>8. CASE Ends(t)
  <2>0. /\ task[t].pc = "sent" /\ task[t].kind \in {"signOut", "revoke", "revokeAll"} /\ Keeps /\ cookie' = cookie
        /\ Answers(t, Ok(NoSession)) /\ Ok(NoSession).ok
    BY <1>8, ResultFields DEF Ends, Served
  <2>1. task[t].kind # "signOut"
    BY <1>0, <2>0 DEF Answers, Moves, Made
  <2>2. CASE task[t].kind = "revokeAll" \/ task[t].arg = cookie
    BY <1>c, <1>d, <2>0, <2>1, <2>2 DEF Answers, Moves, Brings
  <2>3. CASE task[t].kind = "revoke" /\ task[t].arg # cookie
    <3>0. PICK tokens : End(t, tokens) /\ tokens = {task[t].arg}
      BY <1>8, <2>3 DEF Ends
    <3>1. ServerView' = ServerView
      BY <2>0, <2>3, <3>0, ViewKept DEF End
    <3> QED
      BY <1>a, <1>c, <2>0, <2>3, <3>1 DEF Answers, Moves, Brings
  <2> QED
    BY <2>0, <2>1, <2>2, <2>3
<1>9. CASE Switches(t)
  <2>0. /\ task[t].pc = "sent" /\ task[t].kind = "setActive" /\ Keeps /\ cookie' = cookie
        /\ server' = [server EXCEPT ![task[t].token] = task[t].arg]
        /\ Answers(t, Ok(NoSession)) /\ Ok(NoSession).ok
    BY <1>9, ResultFields DEF Switches, Served
  <2>2. CASE task[t].token = cookie
    BY <1>c, <1>d, <2>0, <2>2 DEF Answers, Moves, Brings
  <2>3. CASE task[t].token # cookie
    <3>0. cookie \in Tokens => server'[cookie] = server[cookie]
      BY <1>0, <2>0, <2>3 DEF Types
    <3>1. ServerView' = ServerView
      BY <2>0, <3>0, ViewKept
    <3> QED
      BY <1>a, <1>c, <2>0, <3>1 DEF Answers, Moves, Brings
  <2> QED
    BY <2>2, <2>3
<1>10. CASE Refuses(t)
  <2>0. /\ task[t].pc = "sent" /\ Keeps /\ UNCHANGED <<cookie, server>> /\ ~Live(task[t].token)
        /\ Answers(t, Failed(TRUE)) /\ ~Failed(TRUE).ok /\ Failed(TRUE).session = NoSession
    BY <1>10, ResultFields DEF Refuses, Kept, Served
  <2>1. ServerView' = ServerView
    BY <2>0, ViewKept
  <2>2. Reads(t) => ServerView = NoSession
    BY <1>c, <2>0 DEF ServerView
  <2> QED
    BY <1>a, <2>0, <2>1, <2>2 DEF Answers, Moves, Brings
<1>20. CASE Declines(t)
  <2>0. /\ task[t].pc = "sent" /\ task[t].kind # "getSession" /\ Keeps /\ UNCHANGED <<cookie, server>>
        /\ task'[t].pc = "answered"
    BY <1>20 DEF Declines, Kept, Served, Answers, Moves
  <2>1. ServerView' = ServerView
    BY <2>0, ViewKept
  <2> QED
    BY <1>a, <1>c, <2>0, <2>1 DEF Brings
<1>11. CASE Tells(t)
  <2>0. /\ task[t].pc = "sent" /\ Keeps /\ UNCHANGED <<cookie, server>> /\ Live(task[t].token)
        /\ Answers(t, Ok([token |-> task[t].token, org |-> server[task[t].token]]))
        /\ task[t].kind \in {"getSession", "updateUser"}
    BY <1>11 DEF Tells, Kept, Served
  <2> PICK s : s = [token |-> task[t].token, org |-> server[task[t].token]]
    OBVIOUS
  <2>1. ServerView' = ServerView
    BY <2>0, ViewKept
  <2>2. task'[t].answer = Ok(s) /\ task'[t].answer.session = s /\ task'[t].pc = "answered"
        /\ task'[t].kind = task[t].kind
    BY <2>0 DEF Answers, Moves, Ok
  <2>3. Reads(t) => s = ServerView /\ snapshot.session # NoSession
    <3> SUFFICES ASSUME Reads(t) PROVE s = ServerView /\ snapshot.session # NoSession
      OBVIOUS
    <3>1. s = ServerView
      BY <1>c, <2>0 DEF ServerView
    <3>2. task[t].token \in Tokens \cup {NoToken}
      BY <1>0, TaskFields
    <3>3. s \in Sessions
      BY <1>0, <2>0, <3>2, LiveSession
    <3> QED
      BY <1>0, <3>1, <3>3, NoneShown, Apart
  <2> QED
    BY <1>a, <2>0, <2>1, <2>2, <2>3 DEF Brings
<1>12. CASE Loses(t)
  BY <1>0, <1>12 DEF Loses
<1>13. CASE Drops(t)
  <2>0. Keeps /\ Keeping(t, "done") /\ UNCHANGED <<cookie, server>> /\ task'[t].pc = "done" /\ task[t].pc = "answered"
    BY <1>13 DEF Drops, Handles, Keeping, Moves
  <2>1. ServerView' = ServerView
    BY <2>0, ViewKept
  <2>2. CASE ~Brings(t)
    BY <1>a, <2>0, <2>1, <2>2
  <2>3. CASE Brings(t)
    <3>1. task[t].kind = "revoke" /\ task[t].arg = cookie /\ ~IsCurrent(cookie)
      BY <1>13, <2>0, <2>3 DEF Brings, Drops, Handles
    <3>2. snapshot.session = NoSession
      BY <1>0, <3>1 DEF IsCurrent, AInv, Shown, Calm
    <3> QED
      BY <1>e, <2>0, <3>2
  <2> QED
    BY <2>2, <2>3
<1>14. CASE Takes(t)
  <2> DEFINE r == task[t].answer
  <2>0. /\ Reads(t) /\ task[t].kind = "getSession" /\ task[t].pc = "answered" /\ UNCHANGED <<cookie, server>>
        /\ Sets(IF r.ok \/ r.clear THEN r.session ELSE snapshot.session,
                IF r.ok \/ r.clear THEN DerivedStatus(r.session) ELSE KeptStatus)
        /\ task'[t].pc = "done"
    BY <1>14 DEF Takes, Handles, Keeping, Moves
  <2>1. r.ok \/ r.clear
    BY <1>0, <1>14, TakenAnswer
  <2>2. Sets(r.session, DerivedStatus(r.session)) /\ ServerView' = ServerView
    BY <2>0, <2>1, ViewKept
  <2>3. CASE Coming
    <3>1. Coming'
      BY <1>0, <2>0, <2>3 DEF Coming, Brings
    <3> QED
      BY <2>2, <3>1 DEF Sets
  <2>4. CASE ~Coming
    <3> PICK s : s = r.session
      OBVIOUS
    <3>1. s = ServerView
      BY <1>1, <2>0, <2>4 DEF Good
    <3> QED
      BY <1>b, <2>2, <3>1
  <2> QED
    BY <2>3, <2>4
<1>15. CASE SignedIn(t)
  <2>1. /\ Fresh(t) /\ cookie' = task[t].answer.session.token /\ server' = server
        /\ Sets(task[t].answer.session, "authenticated")
    BY <1>0, <1>15 DEF SignedIn, Handles, TaskOk, Signing
  <2> PICK s, tok : s = task[t].answer.session /\ tok = task[t].answer.session.token
    OBVIOUS
  <2>2. s = [token |-> tok, org |-> NoOrg] /\ tok \in Tokens /\ server[tok] = NoOrg
    BY <1>0, <2>1 DEF Fresh, New, Calm
  <2>3. s = ServerView'
    BY <2>1, <2>2 DEF ServerView, Live
  <2> QED
    BY <1>b, <2>1, <2>3
<1>16. CASE Updated(t)
  BY <1>0, <1>16 DEF Updated, Handles, Keeping, Moves, Made
<1>17. CASE SignedOut(t)
  BY <1>0, <1>17 DEF SignedOut, Handles, Keeping, Moves, Made
<1>18. CASE Revoked(t)
  <2>1. Sets(NoSession, "unauthenticated")
    BY <1>18 DEF Revoked
  <2>2. Ended(cookie)'
    BY <1>0, <2>1 DEF Shown, Sets, Calm
  <2>3. ServerView' = NoSession
    BY <2>2, Apart DEF Ended, ServerView, Live
  <2> QED
    BY <1>b, <2>1, <2>3
<1>19. CASE Patched(t)
  <2>0. task'[t].pc = "reread" /\ ~Reads(t) /\ \A u \in Tasks \ {t} : task'[u].pc # "reread"
    BY <1>0, <1>c, <1>f, <1>19 DEF Patched, Handles, Keeping, Moves
  <2>1. Brings(t)'
    BY <2>0 DEF Brings
  <2>2. CASE snapshot.session = NoSession
    BY <1>d, <1>19, <2>0, <2>1, <2>2 DEF Patched
  <2>3. CASE snapshot.session # NoSession
    BY <1>19, <2>1, <2>3 DEF Patched, Sets, Coming
  <2> QED
    BY <2>2, <2>3
<1>21. CASE RevokedAll(t)
  <2>0. Ended(task[t].token) /\ (Live(cookie') => cookie' = task[t].token)
    BY <1>0, <1>21, Apart DEF RevokedAll, Calm, TaskOk, AnswerOk, Live
  <2>1. Sets(NoSession, "unauthenticated") /\ ~Live(cookie')
    BY <1>21, <2>0, Apart DEF RevokedAll, Ended, Live
  <2>2. server' = server
    BY <1>21 DEF RevokedAll
  <2>3. ServerView' = NoSession
    BY <2>1, <2>2 DEF ServerView, Live
  <2> QED
    BY <1>b, <2>1, <2>3
<1> QED
  BY <1>3, <1>4, <1>5, <1>6, <1>7, <1>8, <1>9, <1>10, <1>11, <1>12, <1>13, <1>14, <1>15, <1>16, <1>17,
     <1>18, <1>19, <1>20, <1>21 DEF Acts

\* The loop of the store and the page's first call.
LEMMA RestsNext ==
    ASSUME AInv, Rests
    PROVE  Types' /\ TasksOk' /\ Flights' /\ Shown' /\ Current'
<1>0. /\ UNCHANGED <<task, turn, cookie, server, failures, hydrated, crossed>>
      /\ snapshot' = snapshot /\ inFlight' = inFlight /\ \A u \in Tasks : Reads(u)' <=> Reads(u)
  BY DEF Rests, clientVars, Keeps
<1>1. Types'
  BY <1>0 DEF AInv, Types
<1>2. ASSUME NEW u \in Tasks PROVE TaskOk(u)'
  <2>1. TaskOk(u)
    BY DEF AInv, TasksOk
  <2>2. Signing(u)' <=> Signing(u)
    BY <1>0 DEF Signing
  <2>3. Fresh(u) => Fresh(u)'
    BY <1>0 DEF Fresh, New, Signing
  <2>4. AnswerOk(u) => AnswerOk(u)'
    BY <1>0 DEF AnswerOk, Ended
  <2> QED
    BY <1>0, <2>1, <2>2, <2>3, <2>4 DEF TaskOk, Used
<1>3. Flights'
  BY <1>0 DEF AInv, Flights, Made
<1>4. Shown'
  BY <1>0 DEF AInv, Shown, Used, Ended, Made
<1>5. Current'
  <2> SUFFICES ASSUME Calm' PROVE Current'
    BY DEF Current
  <2>1. Calm /\ Current
    BY <1>0 DEF Calm, Made, AInv
  <2>2. ServerView' = ServerView
    BY <1>0, ViewKept
  <2>3. (Good => Good') /\ (Coming => Coming')
    BY <1>0, <2>2 DEF Good, Coming, Brings
  <2> QED
    BY <1>0, <2>1, <2>2, <2>3 DEF Current
<1> QED
  BY <1>1, <1>2, <1>3, <1>4, <1>5 DEF TasksOk

LEMMA HydratesNext ==
    ASSUME AInv, Hydrates
    PROVE  Types' /\ TasksOk' /\ Flights' /\ Shown' /\ Current'
<1> PICK s : s = [token |-> FirstToken, org |-> NoOrg]
  OBVIOUS
<1>0. /\ UNCHANGED <<task, turn, cookie, server, failures, crossed>> /\ hydrated' = TRUE /\ Sets(s, "authenticated")
      /\ Hydrated /\ cookie = FirstToken /\ server[FirstToken] = NoOrg /\ FirstToken \in Tokens
      /\ \A t \in Tasks : task[t].pc = "idle"
  BY Apart DEF Hydrates, AInv, Loop
<1>s. s \in Sessions /\ s # NoSession /\ s.token = FirstToken
  BY <1>0, Apart DEF ClientSessions
<1>1. Types'
  BY <1>0 DEF AInv, Types
<1>2. ASSUME NEW u \in Tasks PROVE TaskOk(u)'
  <2>1. TaskOk(u) /\ task[u].pc = "idle"
    BY <1>0 DEF AInv, TasksOk
  <2>2. ~Signing(u)'
    BY <1>0 DEF Signing
  <2> QED
    BY <1>0, <2>1, <2>2 DEF TaskOk, Used
<1>3. Flights'
  BY <1>0 DEF Sets, Flights
<1>4. Shown'
  <2>1. Used(cookie)' /\ Used(s.token)'
    BY <1>0, <1>s, Apart DEF Used
  <2> QED
    BY <1>0, <1>s, <2>1 DEF Sets, Shown
<1>5. Current'
  <2>1. s = ServerView'
    BY <1>0 DEF ServerView, Live
  <2> QED
    BY <1>0, <1>s, <2>1 DEF Current, Sets, Good
<1> QED
  BY <1>1, <1>2, <1>3, <1>4, <1>5 DEF TasksOk

\* Every step keeps the invariant.
LEMMA ClientNext == AInv /\ [AuthNext]_allVars => AInv'
<1> SUFFICES ASSUME AInv, [AuthNext]_allVars PROVE AInv'
  OBVIOUS
<1>1. IInv'
  BY StoreSteps, NextIInv DEF AInv
<1>2. CASE AuthNext
  <2>1. Engine' /\ hydrated' /\ (Hydrates \/ Rests \/ \E t \in Tasks : Acts(t))
    BY <1>2, Steps
  <2>2. Loop'
    BY <2>1 DEF Loop, Engine
  <2>3. CASE Hydrates
    BY <1>1, <2>2, <2>3, HydratesNext DEF AInv
  <2>4. CASE Rests
    BY <1>1, <2>2, <2>4, RestsNext DEF AInv
  <2>5. ASSUME NEW t \in Tasks, Acts(t)
        PROVE  AInv'
    <3>1. Frame(t)
      BY <2>1, <2>5, ActFrame
    <3>2. Types'
      BY <3>1 DEF Frame, Types, AInv
    <3>3. TasksOk'
      <4>1. ASSUME NEW u \in Tasks PROVE TaskOk(u)'
        BY <2>5, <3>1, OthersOk, MovedOk
      <4> QED
        BY <4>1 DEF TasksOk
    <3>4. Flights' /\ Shown'
      BY <2>5, <3>1, FlightsNext, ShownNext
    <3>5. Current'
      BY <2>5, <3>1, <3>4, CurrentNext
    <3> QED
      BY <1>1, <2>2, <3>2, <3>3, <3>4, <3>5 DEF AInv
  <2> QED
    BY <2>1, <2>3, <2>4, <2>5
<1>3. CASE UNCHANGED allVars
  <2>1. UNCHANGED vars /\ UNCHANGED clientVars
    BY <1>3 DEF allVars
  <2>2. Rests /\ UNCHANGED <<cookie, server, task, hydrated>>
    BY <2>1 DEF Rests, Keeps, Reads, Opening, vars, clientVars
  <2>3. Loop'
    BY <2>1, <2>2 DEF AInv, Loop, Opening, vars
  <2> QED
    BY <1>1, <2>2, <2>3, RestsNext DEF AInv
<1> QED
  BY <1>2, <1>3

\* The page starts in the invariant.
LEMMA ClientInit == AuthInit => AInv
<1> SUFFICES ASSUME AuthInit PROVE AInv
  OBVIOUS
<1>0. /\ Init /\ task = [t \in Tasks |-> Idle] /\ turn = NoTask /\ cookie = FirstToken
      /\ server = [tok \in Tokens |-> IF tok = FirstToken THEN NoOrg ELSE "unused"]
      /\ failures = 0 /\ hydrated = ~Hydrated /\ crossed = FALSE
  BY DEF AuthInit
<1>1. IInv
  BY <1>0, InitIInv
<1>2. /\ Idle \in TaskTypes /\ Idle.pc = "idle" /\ Idle.kind = "none" /\ Idle.token = NoToken
      /\ \A t \in Tasks : task[t] = Idle
  <2>1. Failed(FALSE) \in Results
    BY ResultFields
  <2> QED
    BY <1>0, <2>1 DEF Idle, TaskTypes
<1>3. /\ FirstToken \in Tokens /\ server[FirstToken] = NoOrg /\ NoToken \notin Tokens /\ NoOrg # "unused"
      /\ MaxFailures \in Nat /\ Hydrated \in BOOLEAN
  BY <1>0, Apart, AuthClientAssumption DEF AuthClientAssumption
<1>4. Types
  <2>1. crossed \in BOOLEAN /\ hydrated \in BOOLEAN
    BY <1>0, <1>3
  <2>2. task \in [Tasks -> TaskTypes]
    BY <1>0, <1>2
  <2>3. failures \in 0..MaxFailures
    BY <1>0, <1>3
  <2> QED
    BY <1>0, <1>3, <2>1, <2>2, <2>3 DEF Types
<1>5. /\ snapshot.session = NoSession /\ snapshot.status = "unknown" /\ inFlight = NoEpoch /\ listeners = <<>>
      /\ emits = <<>> /\ \A t \in Tasks : calls[t] = NoEpoch
  BY <1>0 DEF Init, Tasks
<1>6. Loop
  BY <1>0, <1>2, <1>3, <1>5 DEF Loop, Opening
<1>7. ASSUME NEW t \in Tasks PROVE TaskOk(t)
  BY <1>0, <1>2, <1>3, Apart DEF TaskOk, Signing, Used
<1>8. Flights
  BY <1>5 DEF Flights, Reads
<1>9. Shown
  BY <1>0, <1>3, <1>5 DEF Shown, Used
<1>10. Current
  BY <1>0, <1>3 DEF Current, Calm
<1> QED
  BY <1>1, <1>4, <1>6, <1>7, <1>8, <1>9, <1>10 DEF AInv, TasksOk

-----------------------------------------------------------------------------
(* Theorems                                                                 *)

\* createAuthModule and the session store, composed with the cookie and the
\* server (client.ts:1169-1343): the invariant holds throughout.
THEOREM ClientInvariance == AuthSpec => []AInv
<1> QED
  BY ClientInit, ClientNext, PTL DEF AuthSpec

\* Whatever mix of calls the client makes, what it does to its session store
\* (session-store.ts) is a behaviour of the store: each handler's calls are steps
\* the store's own specification allows.
THEOREM ClientUsesStore == AuthSpec => Spec
<1>1. AuthInit => Init
  BY DEF AuthInit
<1> QED
  BY <1>1, ClientInvariance, StoreSteps, PTL DEF AuthSpec, Spec

\* So what is proved of the store holds of the client's: no answer asked for
\* before the last sign-in, sign-out or revocation is shown (session-store.ts:124).
THEOREM ClientAuthoritativeWins == AuthSpec => []LastAuthoritativeWins
  BY ClientUsesStore, AuthoritativeWins, PTL

\* The tasks, the cookie and the server keep their types, and a client that says
\* "authenticated" has a session (applyAuthMutationToSessionStore, client.ts:1188).
THEOREM ClientTypeCorrect == AuthSpec => []AuthTypeOK
<1>1. AInv => AuthTypeOK
  BY DEF AInv, IInv, Types, TaskTypes, Shown, AuthTypeOK
<1> QED
  BY <1>1, ClientInvariance, PTL

\* A transport error never signs the user out (client.ts:1219-1232), however
\* many requests are lost and whatever they overlapped with, unless a revocation
\* of several tokens crossed a sign-in (client.ts:1771-1777).
THEOREM ErrorsKeepSession == AuthSpec => []ErrorsNeverSignOut
<1>1. AInv => ErrorsNeverSignOut
  BY Apart DEF AInv, Shown, ErrorsNeverSignOut, Settled, Free, Live, Ended
<1> QED
  BY <1>1, ClientInvariance, PTL

\* refreshSessionStore and getSession (client.ts:1204-1343) leave no "loading"
\* behind: the status is only set for a read whose answer is still to come.
THEOREM NoReadNoLoading == AuthSpec => []NotLeftLoading
<1>1. AInv => NotLeftLoading
  BY DEF AInv, Flights, NotLeftLoading, Settled
<1> QED
  BY <1>1, ClientInvariance, PTL

\* "keep SSOT store current" (client.ts:1237-1240): once the calls are over the
\* client shows the session the server holds for its cookie, unless a sign-in
\* and a revocation crossed: its session was revoked before its answer was
\* handled, or a revocation of several tokens forgot it (client.ts:1771-1777).
THEOREM StoreIsCurrent == AuthSpec => []StoreCurrent
<1>1. ASSUME AInv, Settled, Hydrated, failures = 0, ~crossed, ~Made("signOut"), ~Made("updateUser")
      PROVE  snapshot.session = ServerView
  <2>1. Calm /\ \A t \in Tasks : task[t].pc \in {"idle", "done"}
    BY <1>1 DEF Calm, Settled, Free
  <2>2. ~Coming /\ inFlight = NoEpoch
    BY <1>1, <2>1 DEF Coming, Brings, AInv, Flights
  <2> QED
    BY <1>1, <2>1, <2>2 DEF AInv, Current
<1>2. AInv => StoreCurrent
  BY <1>1 DEF StoreCurrent
<1> QED
  BY <1>2, ClientInvariance, PTL
=============================================================================
