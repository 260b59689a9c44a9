---------------------------- MODULE SessionStore ----------------------------
(***************************************************************************)
(* The framework-independent auth session store (src/auth/session-store.ts)*)
(* and the controller that owns it (src/auth/session-controller.ts).       *)
(*                                                                         *)
(* The store is synchronous JavaScript: an operation runs to completion,   *)
(* except that commit() calls the listeners one after the other and a      *)
(* listener may call the store again before it returns, or throw.  `emits` *)
(* is the stack of emit() loops under way, innermost first.  The callers of       *)
(* beginRefresh are asynchronous: each holds the epoch it was given until  *)
(* its transport answers.                                                  *)
(***************************************************************************)
EXTENDS Integers, Sequences, FiniteSets, SequencesExt

CONSTANTS
    Sessions,          \* the session payloads an operation may install
    Listeners,         \* the subscribers there may be
    Refreshers,        \* the asynchronous callers of beginRefresh
    ExplicitStatuses,  \* the statuses callers pass to setSession explicitly
    ReentrantOps,      \* what listeners do while being notified
    MaxEpoch,          \* bound: no caller-initiated operation at this epoch
    MaxDepth,          \* bound: emit() loops nested in one another
    NoSession, NoEpoch, NoCaller

Statuses == {"unknown", "loading", "authenticated", "unauthenticated", "error"}
Operations == {"invalidate", "setSession", "setError", "beginRefresh"}
Throwing == "throw"

ASSUME SessionStoreAssumption ==
    /\ NoSession \notin Sessions
    /\ NoCaller \notin Refreshers
    /\ NoEpoch \notin Int
    /\ ExplicitStatuses \subseteq Statuses \ {"loading", "unknown"}
    /\ ReentrantOps \subseteq Operations \cup {Throwing}
    /\ MaxEpoch \in Nat
    /\ MaxDepth \in Nat

VARIABLES
    epoch,      \* let epoch
    inFlight,   \* let inFlightEpoch
    snapshot,   \* let snapshot
    listeners,  \* the Set of listeners, in insertion order
    emits,      \* the emit() loops under way, innermost first
    calls,      \* per refresher: the epoch it holds while its transport runs
    seen,       \* history: the epoch of the snapshot each listener saw last
    authority,  \* history: epoch of the last authoritative mutation
    basis,      \* history: epoch at which the current session was asked for
    missed,     \* history: listeners cut off by one that threw, not notified since
    abandoned   \* history: epoch of a refresh of which its caller was not told

lapses == <<missed, abandoned>>
vars == <<epoch, inFlight, snapshot, listeners, emits, calls, seen, authority, basis, lapses>>

Snapshots == [epoch : Nat, error : BOOLEAN, session : Sessions \cup {NoSession},
              status : Statuses]

Frames == [rest : Seq(Listeners), epoch : Nat, started : BOOLEAN,
           caller : Refreshers \cup {NoCaller}]

(***************************************************************************)
(* Who may call the store now: any code between two turns of the event     *)
(* loop, or the listener that is being notified.                           *)
(***************************************************************************)
Running == emits # <<>> => Head(emits).started

CanCall(op) ==
    emits # <<>> => Head(emits).started /\ op \in ReentrantOps /\ Len(emits) < MaxDepth

\* mutant: "loading" is not announced
EmitUnlessLoading(caller) ==
    emits' = <<[rest |-> IF caller = NoCaller THEN listeners ELSE <<>>,
                epoch |-> epoch', started |-> FALSE, caller |-> caller]>> \o emits

\* emit() copies the listeners, then calls them in order.  `caller` is the
\* refresher to which beginRefresh returns when the loop is over.
Emit(caller) ==
    emits' = <<[rest |-> listeners, epoch |-> epoch', started |-> FALSE,
                caller |-> caller]>> \o emits

\* commit(next)
Commit(next, caller) ==
    /\ snapshot' = next
    /\ Emit(caller)

Init ==
    /\ epoch = 0
    /\ inFlight = NoEpoch
    /\ snapshot = [epoch |-> 0, error |-> FALSE, session |-> NoSession,
                   status |-> "unknown"]
    /\ listeners = <<>>
    /\ emits = <<>>
    /\ calls = [r \in Refreshers |-> NoEpoch]
    /\ seen = [l \in Listeners |-> 0]
    /\ authority = 0
    /\ basis = 0
    /\ missed = {}
    /\ abandoned = NoEpoch

\* invalidate(reason): every reason ends in the same snapshot
Invalidate ==
    /\ CanCall("invalidate") /\ epoch < MaxEpoch
    /\ epoch' = epoch + 1
    /\ inFlight' = NoEpoch
    /\ Commit([epoch |-> epoch', error |-> FALSE, session |-> NoSession,
               status |-> "unauthenticated"], NoCaller)
    /\ authority' = epoch' /\ basis' = epoch'
    /\ UNCHANGED <<listeners, calls, seen, lapses>>

\* mutant: a status outside AthenaAuthSessionStatus
DerivedStatusAnonymous(session) ==
    IF session = NoSession THEN "anonymous" ELSE "authenticated"

DerivedStatus(session) ==
    IF session = NoSession THEN "unauthenticated" ELSE "authenticated"

\* setSession(session, status), accept(session, status)
SetSession(session, status) ==
    /\ CanCall("setSession") /\ epoch < MaxEpoch
    /\ epoch' = epoch + 1
    /\ inFlight' = NoEpoch
    /\ Commit([epoch |-> epoch', error |-> FALSE, session |-> session,
               status |-> status], NoCaller)
    /\ authority' = epoch' /\ basis' = epoch'
    /\ UNCHANGED <<listeners, calls, seen, lapses>>

KeptStatus == IF snapshot.session = NoSession THEN "error" ELSE snapshot.status

\* mutant: the refresh in flight is stamped with the new epoch
SetErrorRestamps ==
    /\ CanCall("setError") /\ epoch < MaxEpoch
    /\ epoch' = epoch + 1
    /\ inFlight' = IF inFlight = NoEpoch THEN NoEpoch ELSE epoch'
    /\ Commit([epoch |-> epoch', error |-> TRUE, session |-> snapshot.session,
               status |-> KeptStatus], NoCaller)
    /\ UNCHANGED <<listeners, calls, seen, authority, basis, lapses>>

\* setError(error): keeps the session and the refresh in flight
SetError ==
    /\ CanCall("setError") /\ epoch < MaxEpoch
    /\ epoch' = epoch + 1
    /\ Commit([epoch |-> epoch', error |-> TRUE, session |-> snapshot.session,
               status |-> KeptStatus], NoCaller)
    /\ UNCHANGED <<inFlight, listeners, calls, seen, authority, basis, lapses>>

\* beginRefresh() with no refresh in flight; with one in flight it returns
\* skipped and the caller starts no transport, so nothing changes
BeginRefresh(r) ==
    /\ CanCall("beginRefresh") /\ epoch < MaxEpoch
    /\ calls[r] = NoEpoch /\ \A i \in DOMAIN emits : emits[i].caller # r
    /\ inFlight = NoEpoch
    /\ epoch' = epoch + 1
    /\ inFlight' = epoch'
    /\ Commit([epoch |-> epoch', error |-> FALSE, session |-> snapshot.session,
               status |-> "loading"], r)
    /\ UNCHANGED <<listeners, calls, seen, authority, basis, lapses>>

\* What a transport answers: a session or none, or a failure that is
\* definitive (401, clearSession) or not.
Ok(session) == [ok |-> TRUE, session |-> session, clear |-> FALSE]
Failed(clear) == [ok |-> FALSE, session |-> NoSession, clear |-> clear]
Results == {Ok(s) : s \in Sessions \cup {NoSession}} \cup {Failed(c) : c \in BOOLEAN}

\* mutant: completeRefresh forgets to compare epochs
StaleNever(requestEpoch) == FALSE

Stale(requestEpoch) == inFlight # requestEpoch

\* the snapshot completeRefresh commits for a result
Completed(result) ==
    [epoch   |-> epoch + 1,
     error   |-> ~result.ok,
     session |-> IF result.ok \/ result.clear THEN result.session ELSE snapshot.session,
     status  |-> IF result.ok \/ result.clear THEN DerivedStatus(result.session)
                                               ELSE KeptStatus]

\* completeRefresh(requestEpoch, result), ignored when it is stale
CompleteRefresh(r, result) ==
    /\ emits = <<>> /\ calls[r] # NoEpoch
    /\ calls' = [calls EXCEPT ![r] = NoEpoch]
    /\ IF Stale(calls[r])
       THEN UNCHANGED <<epoch, inFlight, snapshot, emits, basis>>
       ELSE /\ inFlight' = NoEpoch
            /\ epoch' = epoch + 1
            /\ Commit(Completed(result), NoCaller)
            /\ basis' = IF result.ok \/ result.clear THEN calls[r] ELSE basis
    /\ UNCHANGED <<listeners, seen, authority, lapses>>

\* subscribe(listener): a subscriber reads getSnapshot() as it subscribes
Subscribe(l) ==
    /\ Running /\ ~ \E i \in DOMAIN listeners : listeners[i] = l
    /\ listeners' = Append(listeners, l)
    /\ seen' = [seen EXCEPT ![l] = snapshot.epoch]
    /\ missed' = missed \ {l}
    /\ UNCHANGED <<epoch, inFlight, snapshot, emits, calls, authority, basis, abandoned>>

\* the function subscribe returned
Unsubscribe(l) ==
    /\ Running
    /\ \E i \in DOMAIN listeners :
         listeners[i] = l /\ listeners' = RemoveAt(listeners, i)
    /\ UNCHANGED <<epoch, inFlight, snapshot, emits, calls, seen, authority, basis, lapses>>

\* mutant: the loop passes the snapshot it was started for
DeliveredCommitted(frame) == frame.epoch

\* listener(snapshot) passes the variable, not the snapshot the loop is for
Delivered(frame) == snapshot.epoch

Deliver ==
    /\ emits # <<>> /\ Head(emits).rest # <<>>
    /\ seen' = [seen EXCEPT ![Head(Head(emits).rest)] = Delivered(Head(emits))]
    /\ emits' = <<[Head(emits) EXCEPT !.rest = Tail(@), !.started = TRUE]>> \o Tail(emits)
    /\ missed' = missed \ {Head(Head(emits).rest)}
    /\ UNCHANGED <<epoch, inFlight, snapshot, listeners, calls, authority, basis, abandoned>>

\* the loop is the one in which beginRefresh announces the refresh in flight
Announces(frame) == frame.caller # NoCaller /\ frame.epoch = inFlight

\* The loop is over; beginRefresh returns the variable `epoch`, which the
\* listeners it notified may have advanced.
Return ==
    /\ emits # <<>> /\ Head(emits).rest = <<>>
    /\ emits' = Tail(emits)
    /\ calls' = IF Head(emits).caller = NoCaller THEN calls
                ELSE [calls EXCEPT ![Head(emits).caller] = epoch]
    /\ abandoned' = IF Announces(Head(emits)) /\ inFlight # epoch THEN inFlight ELSE abandoned
    /\ UNCHANGED <<epoch, inFlight, snapshot, listeners, seen, authority, basis, missed>>

\* The listener being notified throws: the loop is over for those after it, and
\* so is the operation that notifies; beginRefresh returns nothing.  Around a
\* nested loop there is another listener, which catches or throws in its turn.
Throw ==
    /\ emits # <<>> /\ Head(emits).started /\ Throwing \in ReentrantOps
    /\ emits' = Tail(emits)
    /\ missed' = missed \cup {Head(emits).rest[i] : i \in DOMAIN Head(emits).rest}
    /\ abandoned' = IF Announces(Head(emits)) THEN inFlight ELSE abandoned
    /\ UNCHANGED <<epoch, inFlight, snapshot, listeners, calls, seen, authority, basis>>

Next ==
    \/ Invalidate
    \/ \E s \in Sessions \cup {NoSession} :
         \E status \in {DerivedStatus(s)} \cup ExplicitStatuses : SetSession(s, status)
    \/ SetError
    \/ \E r \in Refreshers : BeginRefresh(r)
    \/ \E r \in Refreshers, result \in Results : CompleteRefresh(r, result)
    \/ \E l \in Listeners : Subscribe(l) \/ Unsubscribe(l)
    \/ Deliver
    \/ Return
    \/ Throw

Spec == Init /\ [][Next]_vars

(***************************************************************************)
(* The loop over the listeners runs to its end and every transport ends    *)
(* (fetch settles, by an answer or an error).                              *)
(***************************************************************************)
FairSpec ==
    /\ Spec
    /\ WF_vars(Deliver) /\ WF_vars(Return)
    /\ \A r \in Refreshers : WF_vars(\E result \in Results : CompleteRefresh(r, result))
-----------------------------------------------------------------------------
(***************************************************************************)
(* Properties                                                              *)
(***************************************************************************)

\* Every variable keeps to the values the store can hold; the history
\* variables are epochs.
TypeOK ==
    /\ epoch \in Nat
    /\ inFlight \in Nat \cup {NoEpoch}
    /\ snapshot \in Snapshots
    /\ listeners \in Seq(Listeners)
    /\ emits \in Seq(Frames)
    /\ calls \in [Refreshers -> Nat \cup {NoEpoch}]
    /\ seen \in [Listeners -> Nat]
    /\ authority \in Nat
    /\ basis \in Nat
    /\ missed \subseteq Listeners
    /\ abandoned \in Nat \cup {NoEpoch}

\* SESSION-INV-02/03/04 (session-invariants.ts:9-14): what the snapshot says
\* was never asked for before the last sign-in, sign-out or revocation: a
\* refresh begun earlier does not overwrite it, whichever way the answers,
\* the mutations and the listeners' own calls interleave.
LastAuthoritativeWins == basis >= authority

\* SESSION-INV-07 (session-invariants.ts:20-21): no listener is ever shown an
\* older snapshot than one it has seen, nor, inside a nested notification, one
\* older than the commit it is being told of.
MonotonicNotifications ==
    [][\A l \in Listeners :
         /\ seen'[l] >= seen[l]
         /\ seen'[l] # seen[l] /\ emits # <<>> => seen'[l] >= Head(emits).epoch]_vars

\* emit() (session-store.ts:64-68): between two turns of the event loop every
\* subscriber has been shown the current snapshot, although listeners come,
\* go and call the store while they are being notified; except those that a
\* throwing listener has cut off and nothing has notified since.
AllNotified ==
    emits = <<>> => \A i \in DOMAIN listeners :
        listeners[i] \in missed \/ seen[listeners[i]] = snapshot.epoch

\* beginRefresh (session-store.ts:119-122) skips while a refresh is in flight,
\* so a flight that never lands would end refreshing for good: it lands,
\* provided beginRefresh returned its epoch, which it does not when a listener
\* threw (client.ts:1208 is outside the try) or advanced `epoch` by setError.
RefreshLands ==
    inFlight \notin {NoEpoch, abandoned} ~> inFlight \in {NoEpoch, abandoned}

=============================================================================
