------------------------ MODULE SessionStoreProofs ------------------------
(* Theorems about SessionStore, for every set of payloads, listeners and   *)
(* refreshers, every set of re-entrant operations and every bound.         *)
EXTENDS SessionStore, SequenceTheorems, TLAPS

(***************************************************************************)
(* Why a stale answer cannot be applied: the flight, when there is one,    *)
(* was begun after the last authoritative mutation, because each mutation  *)
(* ends the flight and takes a new epoch.                                  *)
(***************************************************************************)
FlightInv ==
    /\ snapshot.epoch = epoch
    /\ authority <= epoch
    /\ inFlight # NoEpoch => authority < inFlight /\ inFlight <= epoch
    /\ basis >= authority
    /\ \A l \in Listeners : seen[l] <= epoch
    /\ \A i \in DOMAIN emits : emits[i].epoch <= epoch

IInv == TypeOK /\ FlightInv

USE SessionStoreAssumption DEF SessionStoreAssumption

\* Type correctness of a commit: what it pushes on the stack is a frame.
LEMMA EmitType ==
    ASSUME TypeOK, epoch' \in Nat, NEW caller \in Refreshers \cup {NoCaller}, Emit(caller)
    PROVE  /\ emits' \in Seq(Frames)
           /\ \A i \in DOMAIN emits' :
                \/ emits'[i].epoch = epoch'
                \/ \E j \in DOMAIN emits : emits'[i] = emits[j]
<1> DEFINE f == [rest |-> listeners, epoch |-> epoch', started |-> FALSE, caller |-> caller]
<1>1. f \in Frames
  BY DEF TypeOK, Frames
<1>2. emits \in Seq(Frames) /\ emits' = <<f>> \o emits
  BY DEF Emit, TypeOK
<1>3. <<f>> \in Seq(Frames)
  BY <1>1
<1> HIDE DEF f
<1>4. emits' \in Seq(Frames)
  BY <1>2, <1>3
<1>5. ASSUME NEW i \in DOMAIN emits'
      PROVE  emits'[i] = f \/ \E j \in DOMAIN emits : emits'[i] = emits[j]
  BY <1>2, <1>3, <1>5
<1>6. f.epoch = epoch'
  BY DEF f
<1> QED
  BY <1>4, <1>5, <1>6

\* What an answer commits is a snapshot with the next epoch.
LEMMA CompletedType ==
    ASSUME TypeOK, NEW result \in Results
    PROVE  Completed(result) \in Snapshots /\ Completed(result).epoch = epoch + 1
<1>1. /\ result.ok \in BOOLEAN /\ result.clear \in BOOLEAN
      /\ result.session \in Sessions \cup {NoSession}
  <2>1. CASE \E s \in Sessions \cup {NoSession} : result = Ok(s)
    BY <2>1 DEF Ok
  <2>2. CASE \E c \in BOOLEAN : result = Failed(c)
    BY <2>2 DEF Failed
  <2> QED
    BY <2>1, <2>2 DEF Results
<1>2. KeptStatus \in Statuses /\ DerivedStatus(result.session) \in Statuses
  BY DEF TypeOK, Snapshots, Statuses, KeptStatus, DerivedStatus
<1> QED
  BY <1>1, <1>2 DEF TypeOK, Completed, Snapshots

\* The store starts in the invariant.
LEMMA InitIInv == Init => IInv
BY DEF Init, IInv, TypeOK, FlightInv, Snapshots, Statuses

\* A commit keeps the bounds on the frames' epochs.
LEMMA EmitBound ==
    ASSUME TypeOK, epoch' \in Nat, epoch' >= epoch,
           \A i \in DOMAIN emits : emits[i].epoch <= epoch,
           NEW caller \in Refreshers \cup {NoCaller}, Emit(caller)
    PROVE  emits' \in Seq(Frames) /\ \A i \in DOMAIN emits' : emits'[i].epoch <= epoch'
<1>1. ASSUME NEW j \in DOMAIN emits
      PROVE  emits[j].epoch \in Nat
  <2>1. emits[j] \in Frames
    BY <1>1 DEF TypeOK
  <2> QED
    BY <2>1 DEF Frames
<1>2. /\ emits' \in Seq(Frames)
      /\ \A i \in DOMAIN emits' :
           \/ emits'[i].epoch = epoch'
           \/ \E j \in DOMAIN emits : emits'[i] = emits[j]
  BY EmitType
<1>3. ASSUME NEW i \in DOMAIN emits'
      PROVE  emits'[i].epoch <= epoch'
  <2>1. CASE emits'[i].epoch = epoch'
    BY <2>1
  <2>2. CASE \E j \in DOMAIN emits : emits'[i] = emits[j]
    <3>1. PICK j \in DOMAIN emits : emits'[i] = emits[j]
      BY <2>2
    <3>2. emits[j].epoch \in Nat /\ emits[j].epoch <= epoch
      BY <1>1
    <3>3. epoch \in Nat
      BY DEF TypeOK
    <3> QED
      BY <3>1, <3>2, <3>3
  <2> QED
    BY <1>2, <1>3, <2>1, <2>2
<1> QED
  BY <1>2, <1>3

(***************************************************************************)
(* Consecution, one step per action.                                       *)
(***************************************************************************)
LEMMA NextIInv == IInv /\ [Next]_vars => IInv'
<1> SUFFICES ASSUME IInv, [Next]_vars PROVE IInv'
  OBVIOUS
<1> USE DEF IInv
<1>1. CASE Invalidate
  <2>1. epoch' = epoch + 1 /\ epoch' \in Nat /\ epoch' >= epoch
    BY <1>1 DEF Invalidate, TypeOK
  <2>2. emits' \in Seq(Frames) /\ \A i \in DOMAIN emits' : emits'[i].epoch <= epoch'
    BY <1>1, <2>1, EmitBound DEF Invalidate, Commit, FlightInv
  <2>3. snapshot' \in Snapshots /\ snapshot'.epoch = epoch'
    BY <1>1, <2>1 DEF Invalidate, Commit, Snapshots, Statuses
  <2> QED
    BY <1>1, <2>1, <2>2, <2>3 DEF Invalidate, lapses, TypeOK, FlightInv
<1>2. ASSUME NEW s \in Sessions \cup {NoSession},
             NEW status \in {DerivedStatus(s)} \cup ExplicitStatuses, SetSession(s, status)
      PROVE  IInv'
  <2>1. epoch' = epoch + 1 /\ epoch' \in Nat /\ epoch' >= epoch
    BY <1>2 DEF SetSession, TypeOK
  <2>2. emits' \in Seq(Frames) /\ \A i \in DOMAIN emits' : emits'[i].epoch <= epoch'
    BY <1>2, <2>1, EmitBound DEF SetSession, Commit, FlightInv
  <2>3. snapshot' \in Snapshots /\ snapshot'.epoch = epoch'
    BY <1>2, <2>1 DEF SetSession, Commit, Snapshots, Statuses, DerivedStatus
  <2> QED
    BY <1>2, <2>1, <2>2, <2>3 DEF SetSession, lapses, TypeOK, FlightInv
<1>3. CASE SetError
  <2>1. epoch' = epoch + 1 /\ epoch' \in Nat /\ epoch' >= epoch
    BY <1>3 DEF SetError, TypeOK
  <2>2. emits' \in Seq(Frames) /\ \A i \in DOMAIN emits' : emits'[i].epoch <= epoch'
    BY <1>3, <2>1, EmitBound DEF SetError, Commit, FlightInv
  <2>3. snapshot' \in Snapshots /\ snapshot'.epoch = epoch'
    BY <1>3, <2>1 DEF SetError, Commit, Snapshots, Statuses, KeptStatus, TypeOK
  <2> QED
    BY <1>3, <2>1, <2>2, <2>3 DEF SetError, lapses, TypeOK, FlightInv
<1>4. ASSUME NEW r \in Refreshers, BeginRefresh(r)
      PROVE  IInv'
  <2>1. epoch' = epoch + 1 /\ epoch' \in Nat /\ epoch' >= epoch
    BY <1>4 DEF BeginRefresh, TypeOK
  <2>2. emits' \in Seq(Frames) /\ \A i \in DOMAIN emits' : emits'[i].epoch <= epoch'
    BY <1>4, <2>1, EmitBound DEF BeginRefresh, Commit, FlightInv
  <2>3. snapshot' \in Snapshots /\ snapshot'.epoch = epoch'
    BY <1>4, <2>1 DEF BeginRefresh, Commit, Snapshots, Statuses, TypeOK
  <2> QED
    BY <1>4, <2>1, <2>2, <2>3 DEF BeginRefresh, lapses, TypeOK, FlightInv
<1>5. ASSUME NEW r \in Refreshers, NEW result \in Results, CompleteRefresh(r, result)
      PROVE  IInv'
  <2>1. CASE Stale(calls[r])
    BY <1>5, <2>1 DEF CompleteRefresh, lapses, TypeOK, FlightInv
  <2>2. CASE ~Stale(calls[r])
    <3>1. epoch' = epoch + 1 /\ epoch' \in Nat /\ epoch' >= epoch
      BY <1>5, <2>2 DEF CompleteRefresh, TypeOK
    <3>2. emits' \in Seq(Frames) /\ \A i \in DOMAIN emits' : emits'[i].epoch <= epoch'
      BY <1>5, <2>2, <3>1, EmitBound DEF CompleteRefresh, Commit, FlightInv
    <3>3. snapshot' \in Snapshots /\ snapshot'.epoch = epoch'
      BY <1>5, <2>2, <3>1, CompletedType DEF CompleteRefresh, Commit
    <3>4. calls[r] \in Nat /\ authority < calls[r]
      BY <1>5, <2>2 DEF CompleteRefresh, Stale, FlightInv, TypeOK
    <3> QED
      BY <1>5, <2>2, <3>1, <3>2, <3>3, <3>4 DEF CompleteRefresh, lapses, TypeOK, FlightInv
  <2> QED
    BY <2>1, <2>2
<1>6. ASSUME NEW l \in Listeners, Subscribe(l)
      PROVE  IInv'
  BY <1>6 DEF Subscribe, TypeOK, FlightInv, Snapshots
<1>7. ASSUME NEW l \in Listeners, Unsubscribe(l)
      PROVE  IInv'
  <2>1. PICK i \in DOMAIN listeners : listeners' = RemoveAt(listeners, i)
    BY <1>7 DEF Unsubscribe
  <2>2. listeners' \in Seq(Listeners)
    <3>1. listeners \in Seq(Listeners) /\ Len(listeners) \in Nat /\ i \in 1..Len(listeners)
      BY <2>1 DEF TypeOK
    <3>2. SubSeq(listeners, 1, i-1) \in Seq(Listeners)
      BY <3>1
    <3>3. SubSeq(listeners, i+1, Len(listeners)) \in Seq(Listeners)
      BY <3>1
    <3> QED
      BY <2>1, <3>2, <3>3 DEF RemoveAt
  <2> QED
    BY <1>7, <2>2 DEF Unsubscribe, lapses, TypeOK, FlightInv
<1>8. CASE Deliver
  <2> DEFINE top == Head(emits)
  <2>1. emits \in Seq(Frames) /\ emits # <<>> /\ top \in Frames /\ top = emits[1]
    BY <1>8 DEF Deliver, TypeOK
  <2>2. /\ Head(top.rest) \in Listeners
        /\ Tail(top.rest) \in Seq(Listeners)
    BY <1>8, <2>1 DEF Deliver, Frames
  <2>3. seen' \in [Listeners -> Nat] /\ \A l \in Listeners : seen'[l] <= epoch
    BY <1>8, <2>2 DEF Deliver, Delivered, TypeOK, FlightInv, Snapshots
  <2> DEFINE f == [top EXCEPT !.rest = Tail(@), !.started = TRUE]
  <2>4. f \in Frames /\ f.epoch = emits[1].epoch
    BY <2>1, <2>2 DEF Frames
  <2>5. emits' = <<f>> \o Tail(emits)
    BY <1>8 DEF Deliver
  <2> HIDE DEF f, top
  <2>6. emits' \in Seq(Frames)
    BY <2>1, <2>4, <2>5
  <2>7. ASSUME NEW i \in DOMAIN emits'
        PROVE  emits'[i].epoch <= epoch
    <3>1. i = 1 => emits'[i] = f
      BY <2>1, <2>4, <2>5, <2>7
    <3>2. i # 1 => i \in DOMAIN emits /\ emits'[i] = emits[i]
      BY <2>1, <2>4, <2>5, <2>7
    <3>3. 1 \in DOMAIN emits
      BY <2>1
    <3> QED
      BY <3>1, <3>2, <3>3, <2>4 DEF FlightInv
  <2> QED
    BY <1>8, <2>3, <2>6, <2>7 DEF Deliver, TypeOK, FlightInv
<1>9. CASE Return
  <2>1. emits \in Seq(Frames) /\ emits # <<>> /\ Head(emits) \in Frames
    BY <1>9 DEF Return, TypeOK
  <2>2. calls' \in [Refreshers -> Nat \cup {NoEpoch}]
    BY <1>9, <2>1 DEF Return, Frames, TypeOK
  <2>3. emits' \in Seq(Frames) /\ \A i \in DOMAIN emits' : emits'[i] = emits[i+1] /\ i+1 \in DOMAIN emits
    BY <1>9, <2>1 DEF Return
  <2> QED
    BY <1>9, <2>2, <2>3 DEF Return, TypeOK, FlightInv
<1>10. CASE UNCHANGED vars
  BY <1>10 DEF vars, lapses, TypeOK, FlightInv
<1>11. CASE Throw
  <2>1. emits \in Seq(Frames) /\ emits # <<>> /\ Head(emits) \in Frames
    BY <1>11 DEF Throw, TypeOK
  <2>2. missed' \subseteq Listeners /\ abandoned' \in Nat \cup {NoEpoch}
    BY <1>11, <2>1 DEF Throw, Frames, TypeOK
  <2>3. emits' \in Seq(Frames) /\ \A i \in DOMAIN emits' : emits'[i] = emits[i+1] /\ i+1 \in DOMAIN emits
    BY <1>11, <2>1 DEF Throw
  <2> QED
    BY <1>11, <2>2, <2>3 DEF Throw, TypeOK, FlightInv
<1> QED
  BY <1>1, <1>2, <1>3, <1>4, <1>5, <1>6, <1>7, <1>8, <1>9, <1>10, <1>11 DEF Next

\* The inductive invariant holds in every reachable state of the store.
THEOREM Invariance == Spec => []IInv
<1>1. Init => IInv
  BY InitIInv
<1>2. IInv /\ [Next]_vars => IInv'
  BY NextIInv
<1> QED
  BY <1>1, <1>2, PTL DEF Spec

\* Type correctness, for every instance of the store.
THEOREM TypeCorrect == Spec => []TypeOK
<1>1. IInv => TypeOK
  BY DEF IInv
<1> QED
  BY <1>1, Invariance, PTL

\* SESSION-INV-02/03/04 (completeRefresh, session-store.ts:134-138): no answer
\* to a refresh begun before the last authoritative mutation is ever what the
\* snapshot says, whatever the listeners call while they are notified.
THEOREM AuthoritativeWins == Spec => []LastAuthoritativeWins
<1>1. IInv => LastAuthoritativeWins
  BY DEF IInv, FlightInv, LastAuthoritativeWins
<1> QED
  BY <1>1, Invariance, PTL

\* SESSION-INV-07 (emit, session-store.ts:64-68): notification is monotonic for
\* every listener, nested loops included.
THEOREM Monotonic == Spec => MonotonicNotifications
<1> DEFINE Ordered(l) ==
      /\ seen'[l] >= seen[l]
      /\ seen'[l] # seen[l] /\ emits # <<>> => seen'[l] >= Head(emits).epoch
<1>1. IInv /\ [Next]_vars => [\A l \in Listeners : Ordered(l)]_vars
  <2> SUFFICES ASSUME IInv, Next, NEW l \in Listeners
               PROVE  Ordered(l)
    OBVIOUS
  <2>1. /\ epoch \in Nat /\ seen \in [Listeners -> Nat] /\ seen[l] <= epoch
        /\ snapshot.epoch = epoch
    BY DEF IInv, TypeOK, FlightInv
  <2>2. ASSUME emits # <<>>
        PROVE  Head(emits).epoch <= epoch
    <3>1. emits \in Seq(Frames)
      BY DEF IInv, TypeOK
    <3>2. Head(emits) = emits[1] /\ 1 \in DOMAIN emits
      BY <3>1, <2>2
    <3> QED
      BY <3>2 DEF IInv, FlightInv
  <2>3. ASSUME NEW s, NEW status, SetSession(s, status)
        PROVE  Ordered(l)
    BY <2>1, <2>3 DEF SetSession
  <2>4. ASSUME NEW r, BeginRefresh(r) PROVE Ordered(l)
    BY <2>1, <2>4 DEF BeginRefresh
  <2>5. ASSUME NEW r, NEW result, CompleteRefresh(r, result) PROVE Ordered(l)
    BY <2>1, <2>5 DEF CompleteRefresh
  <2>6. ASSUME NEW x, Subscribe(x) PROVE Ordered(l)
    BY <2>1, <2>2, <2>6 DEF Subscribe
  <2>7. ASSUME NEW x, Unsubscribe(x) PROVE Ordered(l)
    BY <2>1, <2>7 DEF Unsubscribe
  <2>8. CASE Deliver
    BY <2>1, <2>2, <2>8 DEF Deliver, Delivered
  <2>9. CASE Invalidate \/ SetError \/ Return \/ Throw
    BY <2>1, <2>9 DEF Invalidate, SetError, Return, Throw
  <2> QED
    BY <2>3, <2>4, <2>5, <2>6, <2>7, <2>8, <2>9 DEF Next
<1> QED
  BY <1>1, Invariance, PTL DEF Spec, MonotonicNotifications

(***************************************************************************)
(* Why every listener hears of the last commit: emit() copies all of them, *)
(* so one that has not seen the current snapshot is in a loop under way,   *)
(* and a listener leaves a loop only by being shown what is current, or by *)
(* being cut off when another throws.                                      *)
(***************************************************************************)
InLoop(l) == \E j \in DOMAIN emits : \E k \in DOMAIN emits[j].rest : emits[j].rest[k] = l

Told(l) == l \in missed \/ seen[l] = epoch \/ InLoop(l)
Covered == \A i \in DOMAIN listeners : Told(listeners[i])

LEMMA EmitCovers ==
    ASSUME TypeOK, NEW caller \in Refreshers \cup {NoCaller}, epoch' \in Nat, Emit(caller),
           UNCHANGED listeners
    PROVE  Covered'
<1> DEFINE f == [rest |-> listeners, epoch |-> epoch', started |-> FALSE, caller |-> caller]
<1>1. f \in Frames /\ f.rest = listeners
  BY DEF TypeOK, Frames
<1>2. emits \in Seq(Frames) /\ emits' = <<f>> \o emits
  BY DEF Emit, TypeOK
<1> HIDE DEF f
<1>3. 1 \in DOMAIN emits' /\ emits'[1] = f
  BY <1>1, <1>2
<1> QED
  BY <1>1, <1>3 DEF Covered, Told, InLoop

LEMMA DeliverCovers ==
    ASSUME IInv, Covered, Deliver
    PROVE  Covered'
<1> DEFINE top == emits[1]
           x == top.rest[1]
           f == [top EXCEPT !.rest = Tail(@), !.started = TRUE]
<1>1. /\ emits \in Seq(Frames) /\ Head(emits) = top /\ 1 \in DOMAIN emits /\ top \in Frames
      /\ Len(emits) \in Nat
  BY DEF Deliver, IInv, TypeOK
<1>2. /\ top.rest \in Seq(Listeners) /\ top.rest # <<>> /\ x \in Listeners /\ Head(top.rest) = x
      /\ Tail(top.rest) \in Seq(Listeners) /\ Len(Tail(top.rest)) = Len(top.rest) - 1
      /\ \A k \in DOMAIN Tail(top.rest) : Tail(top.rest)[k] = top.rest[k + 1]
  BY <1>1 DEF Deliver, Frames
<1>3. seen' = [seen EXCEPT ![x] = epoch] /\ missed' = missed \ {x} /\ UNCHANGED <<epoch, listeners>>
  BY <1>1, <1>2 DEF Deliver, Delivered, IInv, FlightInv
<1>4. f \in Frames /\ f.rest = Tail(top.rest)
  BY <1>1, <1>2 DEF Frames
<1>5. emits' = <<f>> \o Tail(emits)
  BY <1>1 DEF Deliver
<1> HIDE DEF f
<1>6. /\ emits'[1] = f /\ DOMAIN emits' = DOMAIN emits
      /\ \A j \in DOMAIN emits : j # 1 => emits'[j] = emits[j]
  BY <1>1, <1>4, <1>5
<1>7. ASSUME NEW i \in DOMAIN listeners
      PROVE  Told(listeners[i])'
  <2> DEFINE l == listeners[i]
  <2>1. l \in Listeners /\ seen \in [Listeners -> Nat]
    BY DEF IInv, TypeOK
  <2>2. CASE l = x \/ seen[l] = epoch \/ l \in missed
    BY <1>3, <2>1, <2>2 DEF Told
  <2>3. CASE l # x /\ InLoop(l)
    <3>1. PICK j \in DOMAIN emits : \E k \in DOMAIN emits[j].rest : emits[j].rest[k] = l
      BY <2>3 DEF InLoop
    <3>2. PICK k \in DOMAIN emits[j].rest : emits[j].rest[k] = l
      BY <3>1
    <3>3. CASE j = 1
      <4>1. k # 1 /\ k - 1 \in DOMAIN Tail(top.rest) /\ Tail(top.rest)[k - 1] = l
        BY <1>2, <2>3, <3>2, <3>3
      <4>2. 1 \in DOMAIN emits' /\ emits'[1].rest = Tail(top.rest)
        BY <1>1, <1>4, <1>6
      <4>3. \E m \in DOMAIN emits'[1].rest : emits'[1].rest[m] = l
        BY <4>1, <4>2
      <4>4. \E n \in DOMAIN emits' : \E m \in DOMAIN emits'[n].rest : emits'[n].rest[m] = l
        BY <4>2, <4>3
      <4> QED
        BY <1>3, <4>4 DEF InLoop, Told
    <3>4. CASE j # 1
      BY <1>3, <1>6, <3>2, <3>4 DEF InLoop, Told
    <3> QED
      BY <3>3, <3>4
  <2> QED
    BY <2>2, <2>3 DEF Covered, Told
<1> QED
  BY <1>3, <1>7 DEF Covered

\* What is where in two sequences put together.
LEMMA Joined ==
    ASSUME NEW S, NEW a \in Seq(S), NEW b \in Seq(S)
    PROVE  /\ Len(a \o b) = Len(a) + Len(b) /\ DOMAIN (a \o b) = 1 .. (Len(a) + Len(b))
           /\ \A k \in 1 .. (Len(a) + Len(b)) :
                (a \o b)[k] = IF k <= Len(a) THEN a[k] ELSE b[k - Len(a)]
  OBVIOUS

LEMMA UnsubscribeCovers ==
    ASSUME IInv, Covered, NEW l \in Listeners, Unsubscribe(l)
    PROVE  Covered'
<1>1. PICK n \in DOMAIN listeners : listeners' = RemoveAt(listeners, n)
  BY DEF Unsubscribe
<1>2. listeners \in Seq(Listeners) /\ n \in 1 .. Len(listeners) /\ Len(listeners) \in Nat
  BY <1>1 DEF IInv, TypeOK
<1>3. listeners' = SubSeq(listeners, 1, n - 1) \o SubSeq(listeners, n + 1, Len(listeners))
  BY <1>1 DEF RemoveAt
<1> DEFINE a == SubSeq(listeners, 1, n - 1)
           b == SubSeq(listeners, n + 1, Len(listeners))
<1>4. /\ a \in Seq(Listeners) /\ Len(a) = n - 1
      /\ \A k \in 1 .. (n - 1) : a[k] = listeners[k] /\ k \in DOMAIN listeners
  BY <1>2
<1>5. /\ b \in Seq(Listeners) /\ Len(b) = Len(listeners) - n
      /\ \A k \in 1 .. (Len(listeners) - n) : b[k] = listeners[n + k] /\ n + k \in DOMAIN listeners
  BY <1>2
<1> HIDE DEF a, b
<1>6. ASSUME NEW i \in DOMAIN listeners'
      PROVE  \E j \in DOMAIN listeners : listeners'[i] = listeners[j]
  <2>1. listeners' = a \o b
    BY <1>3 DEF a, b
  <2>2. /\ Len(a \o b) = Len(listeners) - 1 /\ DOMAIN (a \o b) = 1 .. (Len(listeners) - 1)
        /\ \A k \in 1 .. (Len(listeners) - 1) :
             (a \o b)[k] = IF k <= n - 1 THEN a[k] ELSE b[k - (n - 1)]
    <3>1. a \in Seq(Listeners) /\ b \in Seq(Listeners) /\ Len(a) = n - 1 /\ Len(b) = Len(listeners) - n
      BY <1>4, <1>5
    <3>2. Len(a) + Len(b) = Len(listeners) - 1
      BY <1>2, <3>1
    <3>3. /\ Len(a \o b) = Len(a) + Len(b) /\ DOMAIN (a \o b) = 1 .. (Len(a) + Len(b))
          /\ \A k \in 1 .. (Len(a) + Len(b)) :
               (a \o b)[k] = IF k <= Len(a) THEN a[k] ELSE b[k - Len(a)]
      BY <3>1, Joined
    <3> QED
      BY <3>1, <3>2, <3>3, Zenon
  <2>3. i \in 1 .. (Len(listeners) - 1)
    BY <2>1, <2>2
  <2>4. CASE i <= n - 1
    <3>1. i \in 1 .. (n - 1)
      BY <1>2, <2>3, <2>4
    <3> QED
      BY <1>4, <2>1, <2>2, <2>3, <2>4, <3>1
  <2>5. CASE i > n - 1
    <3>1. i - (n - 1) \in 1 .. (Len(listeners) - n) /\ ~(i <= n - 1)
      BY <1>2, <2>3, <2>5
    <3>2. listeners'[i] = b[i - (n - 1)]
      BY <2>1, <2>2, <2>3, <3>1
    <3> QED
      BY <1>5, <3>1, <3>2
  <2> QED
    BY <1>2, <2>3, <2>4, <2>5
<1>7. UNCHANGED <<seen, epoch, emits, missed>>
  BY DEF Unsubscribe, lapses
<1> QED
  BY <1>6, <1>7 DEF Covered, Told, InLoop

LEMMA NextCovered == IInv /\ Covered /\ [Next]_vars => Covered'
<1> SUFFICES ASSUME IInv, Covered, [Next]_vars
             PROVE  Covered'
  OBVIOUS
<1>0. TypeOK /\ IInv'
  BY NextIInv DEF IInv
<1>1. CASE Invalidate \/ SetError
  BY <1>0, <1>1, EmitCovers DEF Invalidate, SetError, Commit, IInv, TypeOK
<1>2. ASSUME NEW s, NEW status, SetSession(s, status) PROVE Covered'
  BY <1>0, <1>2, EmitCovers DEF SetSession, Commit, IInv, TypeOK
<1>3. ASSUME NEW r \in Refreshers, BeginRefresh(r) PROVE Covered'
  BY <1>0, <1>3, EmitCovers DEF BeginRefresh, Commit, IInv, TypeOK
<1>4. ASSUME NEW r, NEW result, CompleteRefresh(r, result) PROVE Covered'
  <2>1. CASE Stale(calls[r])
    BY <1>4, <2>1 DEF CompleteRefresh, lapses, Covered, Told, InLoop
  <2>2. CASE ~Stale(calls[r])
    BY <1>0, <1>4, <2>2, EmitCovers DEF CompleteRefresh, Commit, IInv, TypeOK
  <2> QED
    BY <2>1, <2>2
<1>5. ASSUME NEW l \in Listeners, Subscribe(l) PROVE Covered'
  <2>1. listeners \in Seq(Listeners) /\ seen \in [Listeners -> Nat] /\ snapshot.epoch = epoch
    BY DEF IInv, TypeOK, FlightInv
  <2>2. seen' = [seen EXCEPT ![l] = epoch] /\ missed' = missed \ {l} /\ UNCHANGED <<epoch, emits>>
    BY <1>5, <2>1 DEF Subscribe
  <2>3. ASSUME NEW i \in DOMAIN listeners'
        PROVE  listeners'[i] = l \/ (i \in DOMAIN listeners /\ listeners'[i] = listeners[i])
    BY <1>5, <2>1 DEF Subscribe
  <2>4. \A i \in DOMAIN listeners : listeners[i] \in Listeners
    BY <2>1
  <2> QED
    BY <2>1, <2>2, <2>3, <2>4 DEF Covered, Told, InLoop
<1>6. CASE Return
  <2>1. emits \in Seq(Frames) /\ emits # <<>> /\ Head(emits) = emits[1] /\ emits[1].rest = <<>>
    BY <1>6 DEF Return, IInv, TypeOK
  <2>2. /\ emits' = Tail(emits)
        /\ \A j \in DOMAIN emits : j # 1 => j - 1 \in DOMAIN emits' /\ emits'[j - 1] = emits[j]
    BY <1>6, <2>1 DEF Return
  <2>3. ASSUME NEW l, InLoop(l) PROVE InLoop(l)'
    <3>1. PICK j \in DOMAIN emits : \E k \in DOMAIN emits[j].rest : emits[j].rest[k] = l
      BY <2>3 DEF InLoop
    <3>2. j # 1
      BY <2>1, <3>1
    <3> QED
      BY <2>2, <3>1, <3>2 DEF InLoop
  <2> QED
    BY <1>6, <2>3 DEF Return, Covered, Told
<1>7. CASE UNCHANGED vars
  BY <1>7 DEF vars, lapses, Covered, Told, InLoop
<1>8. CASE Throw
  <2>1. emits \in Seq(Frames) /\ emits # <<>> /\ Head(emits) = emits[1] /\ emits' = Tail(emits)
    BY <1>8 DEF Throw, IInv, TypeOK
  <2>2. \A j \in DOMAIN emits : j # 1 => j - 1 \in DOMAIN emits' /\ emits'[j - 1] = emits[j]
    BY <2>1
  <2>3. missed' = missed \cup {emits[1].rest[i] : i \in DOMAIN emits[1].rest}
    BY <1>8, <2>1 DEF Throw
  <2>4. ASSUME NEW l, InLoop(l) PROVE InLoop(l)' \/ l \in missed'
    <3>1. PICK j \in DOMAIN emits : \E k \in DOMAIN emits[j].rest : emits[j].rest[k] = l
      BY <2>4 DEF InLoop
    <3>2. CASE j = 1
      BY <2>3, <3>1, <3>2
    <3>3. CASE j # 1
      BY <2>2, <3>1, <3>3 DEF InLoop
    <3> QED
      BY <3>2, <3>3
  <2> QED
    BY <1>8, <2>3, <2>4 DEF Throw, Covered, Told
<1> QED
  BY <1>1, <1>2, <1>3, <1>4, <1>5, <1>6, <1>7, <1>8, DeliverCovers, UnsubscribeCovers DEF Next

\* emit() (session-store.ts:64-68): when no loop is under way every subscriber
\* has been shown the current snapshot, whatever the listeners did meanwhile.
THEOREM Notified == Spec => []AllNotified
<1>1. Init => IInv /\ Covered
  <2>1. Init => Covered
    BY DEF Init, Covered
  <2> QED
    BY <2>1, InitIInv
<1>2. (IInv /\ Covered) /\ [Next]_vars => (IInv /\ Covered)'
  BY NextIInv, NextCovered
<1>3. IInv /\ Covered => AllNotified
  BY DEF IInv, FlightInv, Covered, Told, InLoop, AllNotified
<1> QED
  BY <1>1, <1>2, <1>3, PTL DEF Spec
=============================================================================
