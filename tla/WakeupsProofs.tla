---------------------------- MODULE WakeupsProofs ----------------------------
(***************************************************************************)
(* The safety properties of wakeups, for any tasks and turns.              *)
(***************************************************************************)
EXTENDS WakeupsProperties, FiniteSetTheorems, SequenceTheorems, TLAPS

(***************************************************************************)
(* Sequences and what is in them.                                          *)
(***************************************************************************)
LEMMA RangeOfAppend ==
    ASSUME NEW S, NEW q \in Seq(S), NEW x \in S
    PROVE  Append(q, x) \in Seq(S) /\ Range(Append(q, x)) = Range(q) \cup {x}
<1>1. Append(q, x) \in Seq(S) /\ Len(Append(q, x)) = Len(q) + 1
  OBVIOUS
<1>2. \A i \in 1..Len(q) + 1 : Append(q, x)[i] = IF i <= Len(q) THEN q[i] ELSE x
  OBVIOUS
<1>3. Range(Append(q, x)) \subseteq Range(q) \cup {x}
  BY <1>1, <1>2 DEF Range
<1>4. x \in Range(Append(q, x))
  <2>1. Len(q) + 1 \in 1..Len(q) + 1 /\ Append(q, x)[Len(q) + 1] = x
    BY <1>2
  <2> QED
    BY <1>1, <2>1 DEF Range
<1>5. Range(q) \subseteq Range(Append(q, x))
  BY <1>1, <1>2 DEF Range
<1> QED
  BY <1>1, <1>3, <1>4, <1>5

\* A sequence has its head and what its tail has.
LEMMA RangeOfTail ==
    ASSUME NEW S, NEW q \in Seq(S), q # <<>>
    PROVE  /\ Head(q) \in S /\ Tail(q) \in Seq(S)
           /\ Range(q) = {Head(q)} \cup Range(Tail(q))
<1>1. /\ Head(q) \in S /\ Tail(q) \in Seq(S) /\ Len(Tail(q)) = Len(q) - 1 /\ Len(q) \in Nat \ {0}
      /\ Head(q) = q[1] /\ \A i \in 1..Len(q) - 1 : Tail(q)[i] = q[i + 1]
  OBVIOUS
<1>2. Head(q) \in Range(q) /\ Range(Tail(q)) \subseteq Range(q)
  BY <1>1 DEF Range
<1>3. ASSUME NEW i \in 1..Len(q) PROVE q[i] \in {Head(q)} \cup Range(Tail(q))
  <2>1. CASE i = 1
    BY <1>1, <2>1
  <2>2. CASE i # 1
    <3>1. i - 1 \in 1..Len(q) - 1 /\ Tail(q)[i - 1] = q[i]
      BY <1>1, <2>2
    <3>2. i - 1 \in DOMAIN Tail(q)
      BY <1>1, <3>1
    <3>3. Tail(q)[i - 1] \in Range(Tail(q))
      BY <3>2 DEF Range
    <3> QED
      BY <3>1, <3>3
  <2> QED
    BY <2>1, <2>2
<1>4. Range(q) \subseteq {Head(q)} \cup Range(Tail(q))
  BY <1>3 DEF Range
<1> QED
  BY <1>1, <1>2, <1>4

\* A concatenation has what its two parts have.
LEMMA RangeOfConcat ==
    ASSUME NEW S, NEW q \in Seq(S), NEW s \in Seq(S)
    PROVE  q \o s \in Seq(S) /\ Range(q \o s) = Range(q) \cup Range(s)
<1>1. /\ q \o s \in Seq(S) /\ Len(q \o s) = Len(q) + Len(s) /\ Len(q) \in Nat /\ Len(s) \in Nat
      /\ \A i \in 1..Len(q) + Len(s) :
            (q \o s)[i] = IF i <= Len(q) THEN q[i] ELSE s[i - Len(q)]
  OBVIOUS
<1>2. Range(q \o s) \subseteq Range(q) \cup Range(s)
  <2> SUFFICES ASSUME NEW i \in 1..Len(q) + Len(s) PROVE (q \o s)[i] \in Range(q) \cup Range(s)
    BY <1>1 DEF Range
  <2>1. CASE i <= Len(q)
    BY <1>1, <2>1 DEF Range
  <2>2. CASE i > Len(q)
    <3>1. i - Len(q) \in 1..Len(s) /\ (q \o s)[i] = s[i - Len(q)]
      BY <1>1, <2>2
    <3> QED
      BY <3>1 DEF Range
  <2> QED
    BY <1>1, <2>1, <2>2
<1>3. Range(q) \subseteq Range(q \o s)
  BY <1>1 DEF Range
<1>4. Range(s) \subseteq Range(q \o s)
  <2> SUFFICES ASSUME NEW i \in 1..Len(s) PROVE s[i] \in Range(q \o s)
    BY <1>1 DEF Range
  <2>1. i + Len(q) \in 1..Len(q) + Len(s) /\ (q \o s)[i + Len(q)] = s[i]
    BY <1>1
  <2> QED
    BY <1>1, <2>1 DEF Range
<1> QED
  BY <1>1, <1>2, <1>3, <1>4

\* What is in a sequence over a set is in that set.
LEMMA RangeInSet ==
    ASSUME NEW S, NEW q \in Seq(S)
    PROVE  Range(q) \subseteq S
BY DEF Range

\* Nothing is in the empty sequence.
LEMMA EmptyRange == Range(<<>>) = {}
BY DEF Range

\* A sequence with an element put first.
LEMMA RangeOfCons ==
    ASSUME NEW S, NEW x \in S, NEW s \in Seq(S)
    PROVE  <<x>> \o s \in Seq(S) /\ <<x>> \o s # <<>> /\ Range(<<x>> \o s) = {x} \cup Range(s)
<1> DEFINE q == <<x>>
<1>1. q \in Seq(S) /\ Range(q) = {x}
  BY DEF Range
<1> HIDE DEF q
<1>2. q \o s \in Seq(S) /\ Range(q \o s) = {x} \cup Range(s)
  BY <1>1, RangeOfConcat
<1>3. q \o s # <<>>
  BY <1>2, EmptyRange
<1> QED
  BY <1>2, <1>3 DEF q

(***************************************************************************)
(* What the threads know.  A turn's notes, claims and leftovers belong to  *)
(* the phases in which it has them, the drain thread's task to its, and    *)
(* only a delegation's thread goes on after the turn has started.          *)
(***************************************************************************)
TurnKnows(r) ==
    /\ r.pc \notin {"draining", "calling", "accepted"} => r.notes = {} /\ r.claims = {}
    /\ r.pc = "accepted" => r.claims = {}
    /\ r.pc # "draining" => r.task = NoTask /\ r.skipped = <<>>
    /\ r.pc = "redefer" <=> r.hand # <<>>

TurnsKnow == \A t \in Turns : TurnKnows(turn[t])

DrainKnows ==
    /\ drain.pc = "idle" <=> drain.task = NoTask
    /\ drain.pc \in {"check", "mark", "record"} => drain.task \in Processes
    /\ drain.pc \in {"reserve", "claim"} => drain.task \in Delegations

RunnersKnow == \A x \in Processes : runner[x] \in {"none", "starting", "refused"}

ThreadsInv == ThreadsTypeOK /\ QueuesTypeOK /\ TurnsKnow /\ DrainKnows /\ RunnersKnow

(***************************************************************************)
(* Who has a claim: one thread, one turn, or nobody any more.  The attempts*)
(* of a row are those that were spent and the claim that is not settled.   *)
(***************************************************************************)
ClaimsAreHeld(d) ==
    /\ runner[d] # "none" => /\ row[d] = "claimed" /\ d \in local \ abandoned
                             /\ \A t \in Turns : d \notin turn[t].claims
    /\ \A t \in Turns : d \in turn[t].claims =>
          /\ row[d] = "claimed" /\ d \in local \ abandoned
          /\ \A u \in Turns \ {t} : d \notin turn[u].claims
    /\ d \in abandoned => d \in local /\ row[d] \in {"claimed", "pending", "dropped"}

Unsettled(d) ==
    IF row[d] = "delivered" \/ (row[d] = "claimed" /\ d \notin abandoned) THEN 1 ELSE 0

AttemptsAreCounted(d) ==
    /\ attempts[d] = spent[d] + Unsettled(d)
    /\ row[d] = "running" => attempts[d] = 0
    /\ row[d] = "pending" => attempts[d] < MaxDeliveries
    /\ row[d] = "dropped" => attempts[d] >= MaxDeliveries
    /\ d \in due.delegated => row[d] = "running"

StoreInv == StoreTypeOK /\ \A d \in Delegations : ClaimsAreHeld(d) /\ AttemptsAreCounted(d)

(***************************************************************************)
(* Where a completion is.                                                  *)
(***************************************************************************)
InHands(x) ==
    \/ drain.task = x /\ drain.pc # "check"
    \/ runner[x] # "none" \/ x \in Range(deferred)
    \/ \E t \in Turns : x \in Range(turn[t].hand) \cup turn[t].notes

ProcessIsKept(x) == x \in consumed => InHands(x) \/ delivered[x] > 0 \/ x \in lost

DelegationIsKept(d) ==
    /\ row[d] = "pending" =>
          \/ d \in Range(queue) \/ retry \/ drain.task = d \/ d \in abandoned
          \/ \E t \in Turns : d \in Range(turn[t].skipped)
    /\ row[d] = "claimed" =>
          \/ runner[d] # "none" \/ d \in abandoned
          \/ \E t \in Turns : d \in turn[t].claims
    /\ row[d] = "delivered" =>
          delivered[d] > 0 \/ d \in lost \/ \E t \in Turns : d \in turn[t].notes
    /\ runner[d] = "accepted" => delivered[d] > 0

KeptInv == (\A x \in Processes : ProcessIsKept(x)) /\ (\A d \in Delegations : DelegationIsKept(d))


(***************************************************************************)
(* The queues.                                                             *)
(***************************************************************************)
LEMMA Enqueued ==
    ASSUME queue \in Seq(Tasks), NEW d \in Tasks
    PROVE  Enqueue(d) \in Seq(Tasks) /\ Range(Enqueue(d)) = Range(queue) \cup {d}
BY RangeOfAppend DEF Enqueue

\* Record adds its process to the deferred ones, and nothing else.
LEMMA Recorded ==
    ASSUME deferred \in Seq(Processes), NEW x \in Processes
    PROVE  Record(x) \in Seq(Processes) /\ Range(Record(x)) = Range(deferred) \cup {x}
<1>1. CASE x \in Range(deferred)
  BY <1>1 DEF Record
<1>2. CASE x \notin Range(deferred)
  BY <1>2, RangeOfAppend DEF Record
<1> QED
  BY <1>1, <1>2

\* A set of delegations in some order.
LEMMA Ordered ==
    ASSUME NEW S, S \subseteq Delegations, NEW s \in [1..Cardinality(S) -> S]
    PROVE  s \in Seq(Tasks)
<1>1. IsFiniteSet(S)
  BY WakeupsAssumption, FS_Subset DEF Tasks
<1>2. Cardinality(S) \in Nat
  BY <1>1, FS_CardinalityType
<1>3. s \in Seq(S)
  BY <1>2
<1> QED
  BY <1>3 DEF Tasks

\* Every step keeps the type of the queue.
LEMMA QueueStep ==
    ASSUME ThreadsInv, [Next]_vars
    PROVE  queue' \in Seq(Tasks)
<1>0. /\ queue \in Seq(Tasks) /\ turn \in [Turns -> TurnType]
      /\ Processes \subseteq Tasks /\ Delegations \subseteq Tasks
  BY DEF ThreadsInv, QueuesTypeOK, ThreadsTypeOK, Tasks
<1>1. ASSUME NEW d \in Delegations, NEW state, RetryUnclaimed(d, state) PROVE queue' \in Seq(Tasks)
  BY <1>0, <1>1, Enqueued DEF RetryUnclaimed
<1>2. ASSUME NEW d \in Delegations, queue' = Enqueue(d) PROVE queue' \in Seq(Tasks)
  BY <1>0, <1>2, Enqueued
<1>3. ASSUME queue # <<>>, queue' = Tail(queue) PROVE queue' \in Seq(Tasks)
  BY <1>0, <1>3
<1>4. ASSUME UNCHANGED queue PROVE queue' \in Seq(Tasks)
  BY <1>0, <1>4
<1>5. ASSUME NEW x \in Processes, ProcessEnds(x) PROVE queue' \in Seq(Tasks)
  BY <1>0, <1>5 DEF ProcessEnds
<1>6. ASSUME NEW d \in Delegations, DelegationEnds(d) PROVE queue' \in Seq(Tasks)
  BY <1>2, <1>6 DEF DelegationEnds
<1>7. CASE DrainThread
  <2>1. CASE TakeEvent
    BY <1>3, <2>1 DEF TakeEvent
  <2>2. ASSUME NEW x \in Processes,
               CheckSeen(x) \/ MarkConsumed(x) \/ RouteProcess(x) \/ RecordDeferred(x)
        PROVE  queue' \in Seq(Tasks)
    BY <1>4, <2>2 DEF CheckSeen, MarkConsumed, RouteProcess, RecordDeferred
  <2>3. ASSUME NEW d \in Delegations, RouteDelegation(d) \/ Reserve(d) \/ ClaimInBackground(d)
        PROVE  queue' \in Seq(Tasks)
    <3>1. UNCHANGED queue \/ queue' = Enqueue(d) \/ RetryUnclaimed(d, row[d])
      BY <2>3 DEF RouteDelegation, Reserve, ClaimInBackground
    <3> QED
      BY <1>1, <1>2, <1>4, <3>1
  <2> QED
    BY <1>7, <2>1, <2>2, <2>3 DEF DrainThread
<1>8. ASSUME NEW x \in Tasks, Runner(x) PROVE queue' \in Seq(Tasks)
  <2>1. CASE Release(x)
    <3>1. \E state : RetryUnclaimed(x, state) /\ x \in Delegations
      BY <2>1 DEF Release
    <3> QED
      BY <1>1, <3>1
  <2>2. CASE ~Release(x)
    <3>1. UNCHANGED queue
      BY <1>8, <2>2 DEF Runner, StartTurn, RefusedForNow, RefusedWhilePaused, Failed, DeferAgain,
                        Acknowledge, AcknowledgeFails
    <3> QED
      BY <1>4, <3>1
  <2> QED
    BY <2>1, <2>2
<1>9. ASSUME NEW t \in Turns, Worker(t) \/ Hook(t) PROVE queue' \in Seq(Tasks)
  <2>1. CASE TakeAlong(t)
    BY <1>3, <2>1 DEF TakeAlong
  <2>2. CASE EndOfQueue(t)
    <3>1. turn[t].skipped \in Seq(Delegations)
      BY <1>0 DEF TurnType
    <3>2. queue' = turn[t].skipped
      BY <2>2 DEF EndOfQueue
    <3> QED
      BY <1>0, <3>1, <3>2
  <2>3. CASE Accept(t)
    <3>1. turn[t].claims \subseteq Delegations
      BY <1>0 DEF TurnType
    <3>2. UNCHANGED queue \/ \E d \in turn[t].claims : queue' = Enqueue(d)
      BY <2>3 DEF Accept
    <3> QED
      BY <1>2, <1>4, <3>1, <3>2
  <2>4. CASE UNCHANGED queue
    BY <1>4, <2>4
  <2> QED
    BY <1>9, <2>1, <2>2, <2>3, <2>4
    DEF Worker, Hook, OpenStream, Notify, CallAgent, Finish, StopEarly, Orphan, HookLooks,
        HookClaims, HookDefersAgain, HookStarts
<1>10. CASE Sweep
  <2>1. PendingRows \subseteq Delegations
    BY DEF PendingRows
  <2>2. PICK s \in [1..Cardinality(PendingRows) -> PendingRows] : queue' = queue \o s
    BY <1>10 DEF Sweep
  <2>3. s \in Seq(Tasks)
    BY <2>1, Ordered
  <2> QED
    BY <1>0, <2>2, <2>3
<1>11. CASE Crash
  <2>1. Undelivered \subseteq Delegations
    BY DEF Undelivered
  <2>2. PICK s \in [1..Cardinality(Undelivered) -> Undelivered] : queue' = s
    BY <1>11 DEF Crash
  <2> QED
    BY <2>1, <2>2, Ordered
<1>12. ASSUME NEW d \in Delegations, LeaseExpires(d) PROVE queue' \in Seq(Tasks)
  BY <1>4, <1>12 DEF LeaseExpires
<1>13. CASE UserStarts \/ ForgetSeen \/ UNCHANGED vars
  BY <1>4, <1>13 DEF UserStarts, ForgetSeen, vars
<1> QED
  BY <1>5, <1>6, <1>7, <1>8, <1>9, <1>10, <1>11, <1>12, <1>13 DEF Next


(***************************************************************************)
(* The turns.  First the records they are set to.                          *)
(***************************************************************************)
GoodTurns == {r \in TurnType : TurnKnows(r)}

\* A place that is free.
LEMMA NoTurnIsGood == NoTurn \in GoodTurns
<1>1. "free" \in TurnPCs
  BY DEF TurnPCs
<1>2. <<>> \in Seq(Processes)
  OBVIOUS
<1> QED
  BY <1>1, <1>2 DEF GoodTurns, TurnType, TurnKnows, NoTurn

\* A turn that is free but for its phase.
LEMMA BareTurn ==
    ASSUME NEW pc \in TurnPCs \ {"redefer"}
    PROVE  /\ [NoTurn EXCEPT !.pc = pc] \in GoodTurns
           /\ [NoTurn EXCEPT !.pc = pc].pc = pc
<1>1. NoTurn \in TurnType
  BY NoTurnIsGood DEF GoodTurns
<1> DEFINE r == [NoTurn EXCEPT !.pc = pc]
<1>2. r \in TurnType
  BY <1>1 DEF TurnType
<1>3. /\ r.pc = pc /\ r.notes = {} /\ r.claims = {} /\ r.task = NoTask /\ r.skipped = <<>>
      /\ r.hand = <<>>
  BY DEF NoTurn
<1> HIDE DEF r
<1>4. r \in GoodTurns
  BY <1>2, <1>3 DEF GoodTurns, TurnKnows
<1> QED
  BY <1>3, <1>4 DEF r

\* The record updates of the worker's and the hook's steps keep the type of a turn.
LEMMA TurnSetPc ==
    ASSUME NEW r \in TurnType, NEW pc \in TurnPCs
    PROVE  [r EXCEPT !.pc = pc] \in TurnType
BY DEF TurnType

\* ... when it takes a process from the queue,
LEMMA TurnSetTask ==
    ASSUME NEW r \in TurnType, NEW pc \in TurnPCs, NEW x \in Processes \cup {NoTask}
    PROVE  [r EXCEPT !.pc = pc, !.task = x] \in TurnType
BY DEF TurnType

\* ... when that process joins the message,
LEMMA TurnSetNotes ==
    ASSUME NEW r \in TurnType, NEW x \in Processes \cup {NoTask}, NEW notes \in SUBSET Tasks
    PROVE  [r EXCEPT !.task = x, !.notes = notes] \in TurnType
BY DEF TurnType

\* ... when it claims a delegation,
LEMMA TurnSetClaims ==
    ASSUME NEW r \in TurnType, NEW pc \in TurnPCs, NEW claims \in SUBSET Delegations
    PROVE  [r EXCEPT !.pc = pc, !.claims = claims] \in TurnType
BY DEF TurnType

\* ... when it skips one,
LEMMA TurnSetSkipped ==
    ASSUME NEW r \in TurnType, NEW pc \in TurnPCs, NEW skipped \in Seq(Delegations)
    PROVE  [r EXCEPT !.pc = pc, !.skipped = skipped] \in TurnType
BY DEF TurnType

\* ... when it accepts its claims,
LEMMA TurnSetAccepted ==
    ASSUME NEW r \in TurnType, NEW pc \in TurnPCs, NEW claims \in SUBSET Delegations,
           NEW notes \in SUBSET Tasks
    PROVE  [r EXCEPT !.pc = pc, !.claims = claims, !.notes = notes] \in TurnType
BY DEF TurnType

\* ... when it has called its agent,
LEMMA TurnSetCalled ==
    ASSUME NEW r \in TurnType, NEW pc \in TurnPCs, NEW notes \in SUBSET Tasks
    PROVE  [r EXCEPT !.pc = pc, !.notes = notes] \in TurnType
BY DEF TurnType

\* ... and when the hook has a hand.
LEMMA TurnSetHand ==
    ASSUME NEW r \in TurnType, NEW hand \in Seq(Processes)
    PROVE  [r EXCEPT !.hand = hand] \in TurnType
BY DEF TurnType


\* The turn that an admission creates.
LEMMA Admitted ==
    ASSUME ThreadsTypeOK, NEW w \in Tasks \cup {User}, Admit(w)
    PROVE  \E t \in Turns :
              /\ turn[t] = NoTurn
              /\ turn' = [turn EXCEPT ![t] = [NoTurn EXCEPT !.pc = "admitting", !.wakeup = w]]
              /\ turn'[t].pc = "admitting" /\ turn'[t].notes = {} /\ turn'[t].claims = {}
              /\ turn'[t].task = NoTask /\ turn'[t].skipped = <<>> /\ turn'[t].hand = <<>>
              /\ \A u \in Turns \ {t} : turn'[u] = turn[u]
              /\ turn' \in [Turns -> TurnType]
<1>0. turn \in [Turns -> TurnType]
  BY DEF ThreadsTypeOK
<1>1. PICK t \in FreeTurns :
         turn' = [turn EXCEPT ![t] = [NoTurn EXCEPT !.pc = "admitting", !.wakeup = w]]
  BY DEF Admit
<1> DEFINE r == [NoTurn EXCEPT !.pc = "admitting", !.wakeup = w]
<1>2. NoTurn \in TurnType
  BY NoTurnIsGood DEF GoodTurns
<1>3. "admitting" \in TurnPCs
  BY DEF TurnPCs
<1>4. r \in TurnType
  BY <1>2, <1>3 DEF TurnType
<1>5. /\ r.pc = "admitting" /\ r.notes = {} /\ r.claims = {} /\ r.task = NoTask /\ r.skipped = <<>>
      /\ r.hand = <<>>
  BY DEF NoTurn
<1>6. turn' = [turn EXCEPT ![t] = r] /\ t \in Turns /\ turn[t] = NoTurn
  BY <1>1 DEF FreeTurns
<1>7. /\ turn'[t] = r /\ \A u \in Turns \ {t} : turn'[u] = turn[u]
      /\ turn' \in [Turns -> TurnType]
  <2> HIDE DEF r
  <2> QED
    BY <1>0, <1>4, <1>6
<1> QED
  BY <1>5, <1>6, <1>7

\* What the hook does to its hand.
LEMMA HandStep ==
    ASSUME NEW t \in Turns, ThreadsTypeOK, TurnKnows(turn[t]), HookDefersAgain(t)
    PROVE  LET hand == <<Head(turn[t].hand)>> \o Tail(Leftover(t))
           IN  /\ hand \in Seq(Processes) /\ hand # <<>>
               /\ Head(Leftover(t)) \in Processes
               /\ Range(turn[t].hand) = Range(hand) \cup {Head(Leftover(t))}
<1> DEFINE h == turn[t].hand
<1>1. h \in Seq(Processes) /\ h # <<>> /\ Leftover(t) = Tail(h) /\ Tail(h) # <<>>
  BY DEF ThreadsTypeOK, TurnType, TurnKnows, HookDefersAgain, Leftover
<1>2. Head(h) \in Processes /\ Tail(h) \in Seq(Processes) /\ Range(h) = {Head(h)} \cup Range(Tail(h))
  BY <1>1, RangeOfTail
<1>3. /\ Head(Tail(h)) \in Processes /\ Tail(Tail(h)) \in Seq(Processes)
      /\ Range(Tail(h)) = {Head(Tail(h))} \cup Range(Tail(Tail(h)))
  BY <1>1, <1>2, RangeOfTail
<1> DEFINE x == Head(h)
           r == Tail(Tail(h))
<1>4. x \in Processes /\ r \in Seq(Processes)
  BY <1>2, <1>3
<1> HIDE DEF x, r
<1>5. <<x>> \o r \in Seq(Processes) /\ <<x>> \o r # <<>> /\ Range(<<x>> \o r) = {x} \cup Range(r)
  BY <1>4, RangeOfCons
<1> USE DEF x, r
<1> QED
  BY <1>1, <1>2, <1>3, <1>5

\* Every step keeps what the turns know.
LEMMA TurnsStep ==
    ASSUME ThreadsInv, [Next]_vars
    PROVE  turn' \in [Turns -> GoodTurns]
<1>0. /\ turn \in [Turns -> TurnType] /\ turn \in [Turns -> GoodTurns]
      /\ \A t \in Turns : turn[t] \in TurnType /\ TurnKnows(turn[t])
      /\ queue \in Seq(Tasks) /\ deferred \in Seq(Processes)
      /\ Tasks = Processes \cup Delegations
  BY DEF ThreadsInv, ThreadsTypeOK, QueuesTypeOK, TurnsKnow, GoodTurns, Tasks
<1>a. /\ "admitted" \in TurnPCs /\ "draining" \in TurnPCs /\ "calling" \in TurnPCs
      /\ "accepted" \in TurnPCs /\ "working" \in TurnPCs /\ "closed" \in TurnPCs
      /\ "hook" \in TurnPCs /\ "redefer" \in TurnPCs /\ "orphaned" \in TurnPCs
  BY DEF TurnPCs, Live
<1>b. ASSUME NEW t \in Turns, NEW r \in GoodTurns, turn' = [turn EXCEPT ![t] = r]
      PROVE  turn' \in [Turns -> GoodTurns]
  BY <1>0, <1>b
<1>c. ASSUME UNCHANGED turn PROVE turn' \in [Turns -> GoodTurns]
  BY <1>0, <1>c
<1>1. ASSUME NEW w \in Tasks \cup {User}, Admit(w) PROVE turn' \in [Turns -> GoodTurns]
  <2>1. PICK t \in Turns :
           /\ turn'[t].pc = "admitting" /\ turn'[t].notes = {} /\ turn'[t].claims = {}
           /\ turn'[t].task = NoTask /\ turn'[t].skipped = <<>> /\ turn'[t].hand = <<>>
           /\ \A u \in Turns \ {t} : turn'[u] = turn[u]
           /\ turn' \in [Turns -> TurnType]
    BY <1>1, Admitted DEF ThreadsInv
  <2> QED
    BY <1>0, <2>1 DEF GoodTurns, TurnKnows
<1>2. ASSUME NEW t \in Turns, OpenStream(t) PROVE turn' \in [Turns -> GoodTurns]
  <2> DEFINE r == [turn[t] EXCEPT !.pc = "admitted"]
  <2>1. turn' = [turn EXCEPT ![t] = r]
    BY <1>0, <1>2 DEF OpenStream
  <2>2. r \in TurnType
    BY <1>0, <1>a, TurnSetPc
  <2>3. TurnKnows(r)
    BY <1>0, <1>2 DEF OpenStream, TurnKnows, TurnType
  <2> QED
    BY <1>b, <2>1, <2>2, <2>3 DEF GoodTurns
<1>3. ASSUME NEW t \in Turns, Close(t) PROVE turn' \in [Turns -> GoodTurns]
  <2>1. [NoTurn EXCEPT !.pc = "closed"] \in GoodTurns
    BY <1>a, BareTurn
  <2> QED
    BY <1>b, <1>3, <2>1 DEF Close
<1>4. ASSUME NEW t \in Turns, Orphan(t) PROVE turn' \in [Turns -> GoodTurns]
  <2> DEFINE r == [turn[t] EXCEPT !.pc = "orphaned"]
  <2>1. turn' = [turn EXCEPT ![t] = r]
    BY <1>0, <1>4 DEF Orphan
  <2>2. r \in TurnType
    BY <1>0, <1>a, TurnSetPc
  <2>3. TurnKnows(r)
    BY <1>0, <1>4 DEF Orphan, TurnKnows, TurnType
  <2> QED
    BY <1>b, <2>1, <2>2, <2>3 DEF GoodTurns
<1>5. ASSUME NEW t \in Turns, Hook(t) PROVE turn' \in [Turns -> GoodTurns]
  <2>1. [NoTurn EXCEPT !.pc = "hook"] \in GoodTurns
    BY <1>a, BareTurn
  <2>2. CASE HookLooks(t)
    BY <1>b, <2>1, <2>2, NoTurnIsGood DEF HookLooks
  <2>3. CASE HookClaims(t)
    <3> DEFINE r == [NoTurn EXCEPT !.pc = "redefer", !.hand = deferred]
    <3>1. r \in TurnType
      BY <1>0, <1>a, NoTurnIsGood DEF GoodTurns, TurnType
    <3>2. /\ r.pc = "redefer" /\ r.notes = {} /\ r.claims = {} /\ r.task = NoTask
          /\ r.skipped = <<>> /\ r.hand = deferred
      BY DEF NoTurn
    <3>3. deferred # <<>> => r \in GoodTurns
      BY <3>1, <3>2 DEF GoodTurns, TurnKnows
    <3>4. turn' = [turn EXCEPT ![t] = NoTurn] \/ (deferred # <<>> /\ turn' = [turn EXCEPT ![t] = r])
      BY <2>3 DEF HookClaims
    <3> HIDE DEF r
    <3> QED
      BY <1>b, <3>3, <3>4, NoTurnIsGood
  <2>4. CASE HookDefersAgain(t)
    <3> DEFINE hand == <<Head(turn[t].hand)>> \o Tail(Leftover(t))
               r == [turn[t] EXCEPT !.hand = hand]
    <3>1. hand \in Seq(Processes) /\ hand # <<>>
      BY <1>0, <2>4, HandStep DEF ThreadsInv
    <3>2. turn' = [turn EXCEPT ![t] = r] /\ turn[t].pc = "redefer"
      BY <1>0, <2>4 DEF HookDefersAgain
    <3> HIDE DEF hand
    <3>3. r \in TurnType
      BY <1>0, <3>1, TurnSetHand
    <3>4. TurnKnows(r)
      BY <1>0, <3>1, <3>2 DEF TurnKnows, TurnType
    <3> QED
      BY <1>b, <3>2, <3>3, <3>4 DEF GoodTurns
  <2>5. CASE HookStarts(t)
    BY <1>b, <2>5, NoTurnIsGood DEF HookStarts
  <2> QED
    BY <1>5, <2>2, <2>3, <2>4, <2>5 DEF Hook
<1>6. ASSUME NEW t \in Turns, TakeAlong(t) PROVE turn' \in [Turns -> GoodTurns]
  <2>0. turn[t].pc \in {"admitted", "draining"} /\ turn[t].task = NoTask /\ Head(queue) \in Tasks
    BY <1>0, <1>6 DEF TakeAlong
  <2>1. CASE turn' = [turn EXCEPT ![t].pc = "draining"]
    <3> DEFINE r == [turn[t] EXCEPT !.pc = "draining"]
    <3>1. turn' = [turn EXCEPT ![t] = r]
      BY <2>1
    <3>2. r \in TurnType
      BY <1>0, <1>a, TurnSetPc
    <3>3. TurnKnows(r)
      BY <1>0, <2>0 DEF TurnKnows, TurnType
    <3> QED
      BY <1>b, <3>1, <3>2, <3>3 DEF GoodTurns
  <2>2. CASE /\ Head(queue) \in Processes
             /\ turn' = [turn EXCEPT ![t].pc = "draining", ![t].task = Head(queue)]
    <3> DEFINE x == Head(queue)
               r == [turn[t] EXCEPT !.pc = "draining", !.task = x]
    <3>1. turn' = [turn EXCEPT ![t] = r]
      BY <2>2
    <3> HIDE DEF x
    <3>2. r \in TurnType
      BY <1>0, <1>a, <2>2, TurnSetTask DEF x
    <3>3. TurnKnows(r)
      BY <1>0, <2>0 DEF TurnKnows, TurnType
    <3> QED
      BY <1>b, <3>1, <3>2, <3>3 DEF GoodTurns
  <2>3. CASE /\ Head(queue) \in Delegations
             /\ turn' = [turn EXCEPT ![t].pc = "draining", ![t].claims = @ \cup {Head(queue)}]
    <3> DEFINE cs == turn[t].claims \cup {Head(queue)}
               r == [turn[t] EXCEPT !.pc = "draining", !.claims = cs]
    <3>1. turn' = [turn EXCEPT ![t] = r]
      BY <2>3
    <3>2. cs \in SUBSET Delegations
      BY <1>0, <2>3 DEF TurnType
    <3> HIDE DEF cs
    <3>3. r \in TurnType
      BY <1>0, <1>a, <3>2, TurnSetClaims
    <3>4. TurnKnows(r)
      BY <1>0, <2>0 DEF TurnKnows, TurnType
    <3> QED
      BY <1>b, <3>1, <3>3, <3>4 DEF GoodTurns
  <2>4. CASE /\ Head(queue) \in Delegations
             /\ turn' = [turn EXCEPT ![t].pc = "draining", ![t].skipped = Append(@, Head(queue))]
    <3> DEFINE sk == Append(turn[t].skipped, Head(queue))
               r == [turn[t] EXCEPT !.pc = "draining", !.skipped = sk]
    <3>1. turn' = [turn EXCEPT ![t] = r]
      BY <2>4
    <3>2. sk \in Seq(Delegations)
      BY <1>0, <2>4 DEF TurnType
    <3> HIDE DEF sk
    <3>3. r \in TurnType
      BY <1>0, <1>a, <3>2, TurnSetSkipped
    <3>4. TurnKnows(r)
      BY <1>0, <2>0 DEF TurnKnows, TurnType
    <3> QED
      BY <1>b, <3>1, <3>3, <3>4 DEF GoodTurns
  <2> QED
    BY <1>6, <2>1, <2>2, <2>3, <2>4 DEF TakeAlong
<1>7. ASSUME NEW t \in Turns, Notify(t) PROVE turn' \in [Turns -> GoodTurns]
  <2> DEFINE ns == turn[t].notes \cup {turn[t].task}
             r == [turn[t] EXCEPT !.task = NoTask, !.notes = ns]
  <2>1. turn' = [turn EXCEPT ![t] = r] /\ turn[t].pc = "draining"
    BY <1>7 DEF Notify
  <2>2. ns \in SUBSET Tasks
    BY <1>0, <1>7 DEF TurnType, Notify
  <2> HIDE DEF ns
  <2>3. r \in TurnType
    BY <1>0, <2>2, TurnSetNotes
  <2>4. TurnKnows(r)
    BY <1>0, <2>1 DEF TurnKnows, TurnType
  <2> QED
    BY <1>b, <2>1, <2>3, <2>4 DEF GoodTurns
<1>8. ASSUME NEW t \in Turns, EndOfQueue(t) PROVE turn' \in [Turns -> GoodTurns]
  <2> DEFINE r == [turn[t] EXCEPT !.pc = "calling", !.skipped = <<>>]
  <2>1. turn' = [turn EXCEPT ![t] = r] /\ turn[t].task = NoTask
    BY <1>8 DEF EndOfQueue
  <2>2. r \in TurnType
    <3>1. <<>> \in Seq(Delegations)
      OBVIOUS
    <3> QED
      BY <1>0, <1>a, <3>1, TurnSetSkipped
  <2>3. TurnKnows(r)
    BY <1>0, <1>8, <2>1 DEF EndOfQueue, TurnKnows, TurnType
  <2> QED
    BY <1>b, <2>1, <2>2, <2>3 DEF GoodTurns
<1>9. ASSUME NEW t \in Turns, Accept(t) PROVE turn' \in [Turns -> GoodTurns]
  <2>1. PICK bad \in {{}} \cup {{d} : d \in turn[t].claims} :
           turn' = [turn EXCEPT ![t].pc = "accepted", ![t].claims = {},
                                ![t].notes = @ \cup (turn[t].claims \ bad)]
    BY <1>9 DEF Accept
  <2> DEFINE ns == turn[t].notes \cup (turn[t].claims \ bad)
             r == [turn[t] EXCEPT !.pc = "accepted", !.claims = {}, !.notes = ns]
  <2>2. turn' = [turn EXCEPT ![t] = r]
    BY <2>1
  <2>a. turn[t].pc = "calling"
    BY <1>9 DEF Accept
  <2>3. ns \in SUBSET Tasks
    BY <1>0 DEF TurnType
  <2> HIDE DEF ns
  <2>4. r \in TurnType
    BY <1>0, <1>a, <2>3, TurnSetAccepted
  <2>5. TurnKnows(r)
    BY <1>0, <2>a DEF TurnKnows, TurnType
  <2> QED
    BY <1>b, <2>2, <2>4, <2>5 DEF GoodTurns
<1>10. ASSUME NEW t \in Turns, CallAgent(t) PROVE turn' \in [Turns -> GoodTurns]
  <2> DEFINE r == [turn[t] EXCEPT !.pc = "working", !.notes = {}]
  <2>1. turn' = [turn EXCEPT ![t] = r] /\ turn[t].pc = "accepted"
    BY <1>10 DEF CallAgent
  <2>2. r \in TurnType
    BY <1>0, <1>a, TurnSetCalled
  <2>3. TurnKnows(r)
    BY <1>0, <2>1 DEF TurnKnows, TurnType
  <2> QED
    BY <1>b, <2>1, <2>2, <2>3 DEF GoodTurns
<1>11. CASE Crash
  BY <1>11, NoTurnIsGood DEF Crash
<1>12. ASSUME NEW t \in Turns, Worker(t) PROVE turn' \in [Turns -> GoodTurns]
  BY <1>2, <1>3, <1>4, <1>6, <1>7, <1>8, <1>9, <1>10, <1>12 DEF Worker, Finish, StopEarly
<1>13. ASSUME NEW x \in Tasks, Runner(x) PROVE turn' \in [Turns -> GoodTurns]
  BY <1>1, <1>c, <1>13 DEF Runner, StartTurn, RefusedForNow, RefusedWhilePaused, Failed, DeferAgain,
                          Acknowledge, AcknowledgeFails, Release
<1>14. CASE UserStarts
  BY <1>1, <1>14 DEF UserStarts
<1>15. CASE DrainThread
  BY <1>c, <1>15 DEF DrainThread, TakeEvent, CheckSeen, MarkConsumed, RouteProcess, RecordDeferred,
                    RouteDelegation, Reserve, ClaimInBackground
<1>16. CASE \/ \E x \in Processes : ProcessEnds(x)
            \/ \E d \in Delegations : DelegationEnds(d) \/ LeaseExpires(d)
            \/ Sweep \/ ForgetSeen \/ UNCHANGED vars
  BY <1>c, <1>16 DEF ProcessEnds, DelegationEnds, LeaseExpires, Sweep, ForgetSeen, vars, threads
<1> QED
  BY <1>5, <1>11, <1>12, <1>13, <1>14, <1>15, <1>16 DEF Next

(***************************************************************************)
(* The other threads, and what is deferred and marked.                     *)
(***************************************************************************)
\* Every step keeps what the drain thread knows.
LEMMA DrainStep ==
    ASSUME ThreadsInv, [Next]_vars
    PROVE  drain' \in [pc : DrainPCs, task : Tasks \cup {NoTask}] /\ DrainKnows'
<1>0. /\ drain \in [pc : DrainPCs, task : Tasks \cup {NoTask}] /\ DrainKnows
      /\ queue \in Seq(Tasks) /\ NoTask \notin Tasks /\ Tasks = Processes \cup Delegations
  BY NoTaskAssumption DEF ThreadsInv, ThreadsTypeOK, QueuesTypeOK, Tasks
<1> DEFINE Goal == drain' \in [pc : DrainPCs, task : Tasks \cup {NoTask}] /\ DrainKnows'
<1>a. ASSUME UNCHANGED drain PROVE Goal
  BY <1>0, <1>a DEF DrainKnows
<1>b. ASSUME drain' = Idle PROVE Goal
  BY <1>0, <1>b DEF DrainKnows, Idle, DrainPCs
<1>c. ASSUME NEW pc \in DrainPCs \ {"idle"}, drain' = [drain EXCEPT !.pc = pc],
             drain.task # NoTask,
             pc \in {"check", "mark", "record"} => drain.task \in Processes,
             pc \in {"reserve", "claim"} => drain.task \in Delegations
      PROVE  Goal
  BY <1>0, <1>c DEF DrainKnows
<1>d. /\ "mark" \in DrainPCs /\ "busy" \in DrainPCs /\ "record" \in DrainPCs
      /\ "reserve" \in DrainPCs /\ "claim" \in DrainPCs /\ "check" \in DrainPCs
  BY DEF DrainPCs
<1> HIDE DEF Goal
<1>1. ASSUME TakeEvent PROVE Goal
  <2> DEFINE x == Head(queue)
             pc == IF x \in Processes THEN "check" ELSE "busy"
  <2>1. drain' = [pc |-> pc, task |-> x]
    BY <1>1 DEF TakeEvent
  <2>2. x \in Tasks
    BY <1>0, <1>1 DEF TakeEvent
  <2>3. pc \in DrainPCs /\ pc \in {"check", "busy"} /\ (pc = "check" => x \in Processes)
    BY <1>d
  <2> HIDE DEF x, pc
  <2> QED
    BY <1>0, <2>1, <2>2, <2>3 DEF Goal, DrainKnows
<1>2. ASSUME NEW x \in Processes,
             CheckSeen(x) \/ MarkConsumed(x) \/ RouteProcess(x) \/ RecordDeferred(x)
      PROVE  Goal
  <2>0. x # NoTask
    BY <1>0
  <2>1. CASE CheckSeen(x)
    BY <1>b, <1>c, <1>d, <2>0, <2>1 DEF CheckSeen
  <2>2. CASE MarkConsumed(x)
    BY <1>c, <1>d, <2>0, <2>2 DEF MarkConsumed
  <2>3. CASE RouteProcess(x)
    BY <1>b, <1>c, <1>d, <2>0, <2>3 DEF RouteProcess
  <2>4. CASE RecordDeferred(x)
    BY <1>b, <2>4 DEF RecordDeferred
  <2> QED
    BY <1>2, <2>1, <2>2, <2>3, <2>4
<1>3. ASSUME NEW d \in Delegations, RouteDelegation(d) \/ Reserve(d) \/ ClaimInBackground(d)
      PROVE  Goal
  <2>0. d # NoTask
    BY <1>0
  <2>1. CASE RouteDelegation(d)
    BY <1>b, <1>c, <1>d, <2>0, <2>1 DEF RouteDelegation
  <2>2. CASE Reserve(d)
    BY <1>b, <1>c, <1>d, <2>0, <2>2 DEF Reserve
  <2>3. CASE ClaimInBackground(d)
    BY <1>b, <2>3 DEF ClaimInBackground
  <2> QED
    BY <1>3, <2>1, <2>2, <2>3
<1>4. ASSUME Crash PROVE Goal
  BY <1>b, <1>4 DEF Crash
<1>5. ASSUME NEW x \in Tasks, Runner(x) PROVE Goal
  BY <1>a, <1>5 DEF Runner, StartTurn, RefusedForNow, RefusedWhilePaused, Failed, DeferAgain,
                    Acknowledge, AcknowledgeFails, Release
<1>6. ASSUME NEW t \in Turns, Worker(t) \/ Hook(t) PROVE Goal
  BY <1>a, <1>6 DEF Worker, Hook, OpenStream, TakeAlong, Notify, EndOfQueue, Accept, CallAgent,
                    Finish, StopEarly, Orphan, HookLooks, HookClaims, HookDefersAgain, HookStarts
<1>7. ASSUME \/ \E x \in Processes : ProcessEnds(x)
             \/ \E d \in Delegations : DelegationEnds(d) \/ LeaseExpires(d)
             \/ UserStarts \/ Sweep \/ ForgetSeen \/ UNCHANGED vars
      PROVE  Goal
  BY <1>a, <1>7 DEF ProcessEnds, DelegationEnds, LeaseExpires, UserStarts, Sweep, ForgetSeen,
                    vars, threads
<1> QED
  BY <1>1, <1>2, <1>3, <1>4, <1>5, <1>6, <1>7 DEF Next, DrainThread, Goal

\* Every step keeps what the threads that start turns know.
LEMMA RunnersStep ==
    ASSUME ThreadsInv, [Next]_vars
    PROVE  runner' \in [Tasks -> RunnerPCs] /\ RunnersKnow'
<1>0. /\ runner \in [Tasks -> RunnerPCs] /\ RunnersKnow /\ Tasks = Processes \cup Delegations
      /\ Processes \cap Delegations = {}
      /\ \A t \in Turns : turn[t] \in TurnType /\ TurnKnows(turn[t])
  BY WakeupsAssumption DEF ThreadsInv, ThreadsTypeOK, TurnsKnow, Tasks
<1> DEFINE Goal == runner' \in [Tasks -> RunnerPCs] /\ RunnersKnow'
<1>a. ASSUME UNCHANGED runner PROVE Goal
  BY <1>0, <1>a DEF RunnersKnow
<1>b. ASSUME NEW x \in Tasks, NEW pc \in RunnerPCs, runner' = [runner EXCEPT ![x] = pc],
             x \in Processes => pc \in {"none", "starting", "refused"}
      PROVE  Goal
  BY <1>0, <1>b DEF RunnersKnow
<1>c. /\ "none" \in RunnerPCs /\ "starting" \in RunnerPCs /\ "refused" \in RunnerPCs
      /\ "accepted" \in RunnerPCs /\ "failed" \in RunnerPCs
  BY DEF RunnerPCs
<1>d. ASSUME runner' = [x \in Tasks |-> "none"] PROVE Goal
  BY <1>0, <1>c, <1>d DEF RunnersKnow
<1> HIDE DEF Goal
<1>1. ASSUME NEW x \in Tasks, Runner(x) PROVE Goal
  <2>1. CASE StartTurn(x)
    BY <1>b, <1>c, <2>1 DEF StartTurn
  <2>2. CASE RefusedForNow(x)
    BY <1>b, <1>c, <2>2 DEF RefusedForNow
  <2>3. CASE RefusedWhilePaused(x)
    BY <1>b, <1>c, <2>3 DEF RefusedWhilePaused
  <2>4. CASE Failed(x)
    BY <1>b, <1>c, <2>4 DEF Failed
  <2>5. CASE DeferAgain(x)
    BY <1>b, <1>c, <2>5 DEF DeferAgain
  <2>6. CASE Acknowledge(x)
    BY <1>b, <1>c, <2>6 DEF Acknowledge
  <2>7. CASE AcknowledgeFails(x)
    <3>1. x \notin Processes
      BY <1>0, <2>7 DEF AcknowledgeFails, RunnersKnow
    <3> QED
      BY <1>b, <1>c, <2>7, <3>1 DEF AcknowledgeFails
  <2>8. CASE Release(x)
    BY <1>b, <1>c, <2>8 DEF Release
  <2> QED
    BY <1>1, <2>1, <2>2, <2>3, <2>4, <2>5, <2>6, <2>7, <2>8 DEF Runner
<1>2. ASSUME NEW t \in Turns, HookStarts(t) PROVE Goal
  <2>1. turn[t].hand \in Seq(Processes) /\ turn[t].hand # <<>>
    BY <1>0, <1>2 DEF HookStarts, TurnType, TurnKnows
  <2>2. Head(turn[t].hand) \in Processes
    BY <2>1
  <2> QED
    BY <1>0, <1>2, <1>b, <1>c, <2>2 DEF HookStarts
<1>3. ASSUME NEW x \in Processes, RouteProcess(x) PROVE Goal
  BY <1>0, <1>3, <1>a, <1>b, <1>c DEF RouteProcess
<1>4. ASSUME NEW d \in Delegations, ClaimInBackground(d) PROVE Goal
  BY <1>0, <1>4, <1>a, <1>b, <1>c DEF ClaimInBackground
<1>5. ASSUME Crash PROVE Goal
  BY <1>5, <1>d DEF Crash
<1>6. ASSUME NEW t \in Turns, Worker(t) \/ HookLooks(t) \/ HookClaims(t) \/ HookDefersAgain(t)
      PROVE  Goal
  BY <1>a, <1>6 DEF Worker, OpenStream, TakeAlong, Notify, EndOfQueue, Accept, CallAgent,
                    Finish, StopEarly, Orphan, HookLooks, HookClaims, HookDefersAgain
<1>7. ASSUME \/ TakeEvent
             \/ \E x \in Processes : CheckSeen(x) \/ MarkConsumed(x) \/ RecordDeferred(x)
             \/ \E d \in Delegations : RouteDelegation(d) \/ Reserve(d)
      PROVE  Goal
  BY <1>a, <1>7 DEF TakeEvent, CheckSeen, MarkConsumed, RecordDeferred, RouteDelegation, Reserve
<1>8. ASSUME \/ \E x \in Processes : ProcessEnds(x)
             \/ \E d \in Delegations : DelegationEnds(d) \/ LeaseExpires(d)
             \/ UserStarts \/ Sweep \/ ForgetSeen \/ UNCHANGED vars
      PROVE  Goal
  BY <1>a, <1>8 DEF ProcessEnds, DelegationEnds, LeaseExpires, UserStarts, Sweep, ForgetSeen,
                    vars, threads
<1> QED
  BY <1>1, <1>2, <1>3, <1>4, <1>5, <1>6, <1>7, <1>8 DEF Next, DrainThread, Hook, Goal

\* Every step keeps the types of the bounds.
LEMMA BudgetStep ==
    ASSUME due \in Budget, [Next]_vars
    PROVE  due' \in Budget /\ due'.delegated \subseteq due.delegated
<1>0. /\ due \in Budget /\ due.ends \in [Processes -> 0..2] /\ due.delegated \subseteq Delegations
      /\ due.users \in Nat /\ due.troubles \in Nat /\ due.crashes \in Nat
  BY DEF Budget
<1> DEFINE Goal == due' \in Budget /\ due'.delegated \subseteq due.delegated
<1>a. ASSUME UNCHANGED due PROVE Goal
  BY <1>0, <1>a
<1>b. ASSUME Trouble PROVE Goal
  BY <1>0, <1>b DEF Trouble, Budget
<1>1. ASSUME UserStarts PROVE Goal
  BY <1>0, <1>1 DEF UserStarts, Budget
<1>2. ASSUME NEW x \in Processes, ProcessEnds(x) PROVE Goal
  <2> DEFINE ends == [due.ends EXCEPT ![x] = @ - 1]
  <2>1. ends \in [Processes -> 0..2]
    BY <1>0, <1>2 DEF ProcessEnds
  <2>2. due' = [due EXCEPT !.ends = ends]
    BY <1>2 DEF ProcessEnds
  <2> HIDE DEF ends
  <2> QED
    BY <1>0, <2>1, <2>2 DEF Budget
<1>3. ASSUME NEW d \in Delegations, DelegationEnds(d) PROVE Goal
  <2>1. due' = [due EXCEPT !.delegated = @ \ {d}]
    BY <1>3 DEF DelegationEnds
  <2> QED
    BY <1>0, <2>1 DEF Budget
<1>4. ASSUME Crash PROVE Goal
  <2> DEFINE ends == [x \in Processes |-> IF x \in Reported THEN 0 ELSE due.ends[x]]
  <2>1. ends \in [Processes -> 0..2]
    BY <1>0
  <2>2. due' = [due EXCEPT !.crashes = @ - 1, !.ends = ends] /\ due.crashes > 0
    BY <1>4 DEF Crash
  <2>3. due.crashes - 1 \in Nat
    BY <1>0, <2>2
  <2> DEFINE n == due.crashes - 1
  <2>4. due' = [due EXCEPT !.crashes = n, !.ends = ends]
    BY <2>2
  <2> HIDE DEF ends, n
  <2>5. n \in Nat
    BY <2>3 DEF n
  <2> QED
    BY <1>0, <2>1, <2>4, <2>5 DEF Budget
<1> HIDE DEF Goal
<1>5. ASSUME DrainThread PROVE Goal
  BY <1>5, <1>a, <1>b DEF DrainThread, TakeEvent, CheckSeen, MarkConsumed, RouteProcess,
        RecordDeferred, RouteDelegation, Reserve, ClaimInBackground
<1>6. ASSUME NEW x \in Tasks, Runner(x) PROVE Goal
  BY <1>6, <1>a, <1>b DEF Runner, StartTurn, RefusedForNow, RefusedWhilePaused, Failed,
        DeferAgain, Acknowledge, AcknowledgeFails, Release
<1>7. ASSUME NEW t \in Turns, Worker(t) \/ Hook(t) PROVE Goal
  <2>1. ASSUME Accept(t) PROVE Goal
    BY <2>1, <1>a, <1>b DEF Accept
  <2>2. ASSUME TakeAlong(t) PROVE Goal
    BY <2>2, <1>a, <1>b DEF TakeAlong
  <2> QED
    BY <1>7, <1>a, <1>b, <2>1, <2>2
    DEF Worker, Hook, OpenStream, Notify, EndOfQueue, CallAgent, Finish, StopEarly, Orphan,
        HookLooks, HookClaims, HookDefersAgain, HookStarts
<1>8. ASSUME \/ \E d \in Delegations : LeaseExpires(d)
             \/ Sweep \/ ForgetSeen \/ UNCHANGED vars
      PROVE  Goal
  BY <1>a, <1>8 DEF LeaseExpires, Sweep, ForgetSeen, vars
<1> QED
  BY <1>1, <1>2, <1>3, <1>4, <1>5, <1>6, <1>7, <1>8 DEF Next, Goal

\* Every step keeps the types of what is deferred, consumed, seen and pending.
LEMMA MarksStep ==
    ASSUME ThreadsInv, [Next]_vars
    PROVE  /\ deferred' \in Seq(Processes)
           /\ consumed' \subseteq Processes /\ seen' \subseteq Processes /\ pending' \in BOOLEAN
<1>0. /\ deferred \in Seq(Processes)
      /\ consumed \subseteq Processes /\ seen \subseteq Processes /\ pending \in BOOLEAN
      /\ \A t \in Turns : turn[t] \in TurnType /\ TurnKnows(turn[t])
      /\ ThreadsTypeOK
  BY DEF ThreadsInv, ThreadsTypeOK, QueuesTypeOK, TurnsKnow
<1> DEFINE Goal == /\ deferred' \in Seq(Processes)
                   /\ consumed' \subseteq Processes /\ seen' \subseteq Processes
                   /\ pending' \in BOOLEAN
<1>a. ASSUME UNCHANGED <<deferred, marks>> PROVE Goal
  BY <1>0, <1>a DEF marks
<1>b. ASSUME NEW x \in Processes, RecordLate(x), UNCHANGED marks PROVE Goal
  BY <1>0, <1>b, Recorded DEF RecordLate, marks
<1>e. <<>> \in Seq(Processes)
  OBVIOUS
<1>1. ASSUME NEW x \in Processes,
             CheckSeen(x) \/ MarkConsumed(x) \/ RouteProcess(x) \/ RecordDeferred(x)
      PROVE  Goal
  <2>1. CASE CheckSeen(x)
    BY <1>0, <2>1 DEF CheckSeen
  <2>2. CASE MarkConsumed(x)
    BY <1>0, <2>2 DEF MarkConsumed
  <2> HIDE DEF Goal
  <2>3. CASE RouteProcess(x)
    BY <1>a, <2>3 DEF RouteProcess
  <2>4. CASE RecordDeferred(x)
    BY <1>b, <2>4 DEF RecordDeferred
  <2> QED
    BY <1>1, <2>1, <2>2, <2>3, <2>4
<1>2. ASSUME NEW x \in Tasks, Runner(x) PROVE Goal
  <2>1. ASSUME \/ StartTurn(x) \/ RefusedForNow(x) \/ RefusedWhilePaused(x) \/ Failed(x)
               \/ Acknowledge(x) \/ AcknowledgeFails(x) \/ Release(x)
        PROVE  UNCHANGED <<deferred, consumed, seen>> /\ (UNCHANGED pending \/ pending' = FALSE)
    BY <2>1 DEF StartTurn, Admit, RefusedForNow, RefusedWhilePaused, Failed, Acknowledge,
                AcknowledgeFails, Release, marks
  <2>2. ASSUME DeferAgain(x) PROVE Goal
    BY <1>b, <2>2 DEF DeferAgain
  <2> QED
    BY <1>0, <1>2, <2>1, <2>2 DEF Runner
<1>3. ASSUME UserStarts PROVE Goal
  BY <1>0, <1>3 DEF UserStarts, Admit
<1>4. ASSUME NEW t \in Turns, HookClaims(t) PROVE Goal
  <2>1. UNCHANGED <<deferred, pending>> \/ (deferred' = <<>> /\ pending' = FALSE)
    BY <1>4 DEF HookClaims
  <2>2. UNCHANGED <<consumed, seen>>
    BY <1>4 DEF HookClaims
  <2> QED
    BY <1>0, <1>e, <2>1, <2>2
<1>5. ASSUME NEW t \in Turns, HookDefersAgain(t) PROVE Goal
  <2>1. Head(Leftover(t)) \in Processes
    BY <1>0, <1>5, HandStep
  <2>2. deferred' = Record(Head(Leftover(t))) /\ UNCHANGED marks
    BY <1>5 DEF HookDefersAgain
  <2> QED
    BY <1>0, <2>1, <2>2, Recorded DEF marks
<1>6. ASSUME NEW t \in Turns, Notify(t) PROVE Goal
  <2>1. turn[t].task \in Processes
    BY <1>0, <1>6 DEF Notify, TurnType
  <2> QED
    BY <1>0, <1>6, <2>1 DEF Notify
<1>7. ASSUME ForgetSeen PROVE Goal
  BY <1>0, <1>7 DEF ForgetSeen
<1>8. ASSUME Crash PROVE Goal
  BY <1>8, <1>e DEF Crash
<1> HIDE DEF Goal
<1>9. ASSUME NEW t \in Turns, Worker(t) \/ HookLooks(t) \/ HookStarts(t), ~Notify(t) PROVE Goal
  BY <1>a, <1>9 DEF Worker, OpenStream, TakeAlong, EndOfQueue, Accept, CallAgent, Finish,
                    StopEarly, Orphan, HookLooks, HookStarts, marks
<1>10. ASSUME \/ TakeEvent \/ Sweep \/ UNCHANGED vars
              \/ \E x \in Processes : ProcessEnds(x)
              \/ \E d \in Delegations : \/ DelegationEnds(d) \/ LeaseExpires(d)
                                        \/ RouteDelegation(d) \/ Reserve(d) \/ ClaimInBackground(d)
       PROVE  Goal
  BY <1>a, <1>10 DEF TakeEvent, Sweep, ProcessEnds, DelegationEnds, LeaseExpires, RouteDelegation,
                     Reserve, ClaimInBackground, vars, marks
<1> QED
  BY <1>1, <1>2, <1>3, <1>4, <1>5, <1>6, <1>7, <1>8, <1>9, <1>10 DEF Next, DrainThread, Hook, Goal

\* What the threads know is inductive.
LEMMA ThreadsInit ==
    Init => ThreadsInv
<1> SUFFICES ASSUME Init PROVE ThreadsInv
  OBVIOUS
<1>1. \A t \in Turns : turn[t] \in GoodTurns
  BY NoTurnIsGood DEF Init
<1>2. turn \in [Turns -> TurnType] /\ TurnsKnow
  BY <1>1 DEF Init, GoodTurns, TurnsKnow
<1>3. drain \in [pc : DrainPCs, task : Tasks \cup {NoTask}] /\ DrainKnows
  BY DEF Init, Idle, DrainPCs, DrainKnows
<1>4. runner \in [Tasks -> RunnerPCs] /\ RunnersKnow
  BY DEF Init, RunnerPCs, RunnersKnow, Tasks
<1>5. QueuesTypeOK
  <2>1. <<>> \in Seq(Tasks) /\ <<>> \in Seq(Processes)
    OBVIOUS
  <2> QED
    BY <2>1, BudgetsAssumption DEF Init, QueuesTypeOK
<1> QED
  BY <1>2, <1>3, <1>4, <1>5 DEF ThreadsInv, ThreadsTypeOK

\* Every step keeps what the threads know.
LEMMA ThreadsStep ==
    ASSUME ThreadsInv, [Next]_vars
    PROVE  ThreadsInv'
<1>1. turn' \in [Turns -> GoodTurns]
  BY TurnsStep
<1>2. turn' \in [Turns -> TurnType] /\ TurnsKnow'
  BY <1>1 DEF GoodTurns, TurnsKnow
<1>3. due' \in Budget
  BY BudgetStep DEF ThreadsInv, QueuesTypeOK
<1> QED
  BY <1>2, <1>3, DrainStep, RunnersStep, MarksStep, QueueStep
  DEF ThreadsInv, ThreadsTypeOK, QueuesTypeOK

(***************************************************************************)
(* A deferred wakeup waits for somebody.                                   *)
(***************************************************************************)
Looking == Live \cup {"admitting", "closed", "hook", "redefer"}

\* Every step leaves the deferred wakeups awaited or excused.
LEMMA AwaitedStep ==
    ASSUME ThreadsInv, WakeupsAreAwaited, [Next]_vars
    PROVE  WakeupsAreAwaited'
<1>0. /\ turn \in [Turns -> TurnType] /\ \A t \in Turns : TurnKnows(turn[t])
      /\ runner \in [Tasks -> RunnerPCs] /\ deferred \in Seq(Processes)
      /\ Processes \subseteq Tasks /\ Delegations \subseteq Tasks
  BY DEF ThreadsInv, ThreadsTypeOK, QueuesTypeOK, TurnsKnow, Tasks
<1>a. ASSUME NEW t \in Turns, turn'[t].pc \in Looking PROVE WakeupsAreAwaited'
  BY <1>a DEF WakeupsAreAwaited, Awaited, HookToCome, WillLook, Looking
<1>b. ASSUME NEW x \in Tasks, runner'[x] = "starting" PROVE WakeupsAreAwaited'
  BY <1>b DEF WakeupsAreAwaited, Awaited
<1>c. ASSUME deferred' = <<>> PROVE WakeupsAreAwaited'
  BY <1>c, EmptyRange DEF WakeupsAreAwaited
<1>d. ASSUME UNCHANGED <<turn, deferred, excused>>,
             \A x \in Tasks : runner[x] = "starting" => runner'[x] = "starting"
      PROVE  WakeupsAreAwaited'
  BY <1>d DEF WakeupsAreAwaited, Awaited, HookToCome, WillLook
<1>e. ASSUME UNCHANGED <<turn, deferred>>, Excuse PROVE WakeupsAreAwaited'
  BY <1>e DEF WakeupsAreAwaited, Excuse, Awaited, HookToCome, WillLook
<1>f. ASSUME NEW x \in Processes, RecordLate(x), UNCHANGED turn,
             \A y \in Tasks : runner[y] = "starting" => runner'[y] = "starting"
      PROVE  WakeupsAreAwaited'
  <2>1. CASE Awaited
    BY <1>f, <2>1 DEF WakeupsAreAwaited, Awaited, HookToCome, WillLook
  <2>2. CASE ~Awaited
    <3>1. Range(deferred) \subseteq excused
      BY <2>2 DEF WakeupsAreAwaited
    <3>2. deferred' = Record(x) /\ excused' = excused \cup {x}
      BY <1>f, <2>2 DEF RecordLate
    <3>3. Range(Record(x)) = Range(deferred) \cup {x}
      BY <1>0, Recorded
    <3> QED
      BY <3>1, <3>2, <3>3 DEF WakeupsAreAwaited
  <2> QED
    BY <2>1, <2>2
<1>g. /\ "admitted" \in Looking /\ "draining" \in Looking /\ "calling" \in Looking
      /\ "accepted" \in Looking /\ "working" \in Looking /\ "closed" \in Looking
      /\ "hook" \in Looking /\ "redefer" \in Looking /\ "admitting" \in Looking
  BY DEF Looking, Live
<1>1. ASSUME NEW w \in Tasks \cup {User}, Admit(w) PROVE WakeupsAreAwaited'
  <2>1. PICK t \in Turns : turn'[t].pc = "admitting"
    BY <1>1, Admitted DEF ThreadsInv
  <2> QED
    BY <1>a, <1>g, <2>1
<1>2. ASSUME NEW t \in Turns, OpenStream(t) \/ TakeAlong(t) \/ Notify(t) PROVE WakeupsAreAwaited'
  <2>1. CASE OpenStream(t)
    <3>1. turn'[t].pc = "admitted"
      BY <1>0, <2>1 DEF OpenStream, TurnType
    <3> QED
      BY <1>a, <1>g, <3>1
  <2>2. CASE TakeAlong(t)
    <3>1. turn'[t].pc = "draining"
      BY <1>0, <2>2 DEF TakeAlong, TurnType
    <3> QED
      BY <1>a, <1>g, <3>1
  <2>3. CASE Notify(t)
    <3>1. turn'[t].pc = "draining"
      BY <1>0, <2>3 DEF Notify, TurnType
    <3> QED
      BY <1>a, <1>g, <3>1
  <2> QED
    BY <1>2, <2>1, <2>2, <2>3
<1>3. ASSUME NEW t \in Turns, EndOfQueue(t) \/ Accept(t) \/ CallAgent(t) PROVE WakeupsAreAwaited'
  <2>1. turn'[t].pc \in {"calling", "accepted", "working"}
    BY <1>0, <1>3 DEF EndOfQueue, Accept, CallAgent, TurnType
  <2> QED
    BY <1>a, <1>g, <2>1
<1>4. ASSUME NEW t \in Turns, Close(t) PROVE WakeupsAreAwaited'
  <2>1. turn'[t].pc = "closed"
    BY <1>0, <1>4 DEF Close, NoTurn
  <2> QED
    BY <1>a, <1>g, <2>1
<1>5. ASSUME NEW t \in Turns, Orphan(t) PROVE WakeupsAreAwaited'
  <2>1. CASE \E u \in Turns \ {t} : WillLook(u)
    <3>1. PICK u \in Turns \ {t} : WillLook(u)
      BY <2>1
    <3>2. turn'[u] = turn[u]
      BY <1>0, <1>5, <3>1 DEF Orphan
    <3>3. turn'[u].pc \in Looking
      BY <3>1, <3>2 DEF WillLook, Looking
    <3> QED
      BY <1>a, <3>1, <3>3
  <2>2. CASE ~ \E u \in Turns \ {t} : WillLook(u)
    BY <1>5, <2>2 DEF Orphan, WakeupsAreAwaited
  <2> QED
    BY <2>1, <2>2
<1>6. ASSUME NEW t \in Turns, HookLooks(t) PROVE WakeupsAreAwaited'
  <2>1. CASE Busy
    <3>1. PICK u \in Turns : turn[u].pc \in Live
      BY <2>1 DEF Busy
    <3>2. u # t
      BY <1>6, <3>1 DEF HookLooks, Live
    <3>3. turn'[u] = turn[u]
      BY <1>0, <1>6, <3>2 DEF HookLooks
    <3> QED
      BY <1>a, <3>1, <3>3 DEF Looking
  <2>2. CASE ~Busy
    <3>1. turn'[t].pc = "hook"
      BY <1>0, <1>6, <2>2 DEF HookLooks, NoTurn
    <3> QED
      BY <1>a, <1>g, <3>1
  <2> QED
    BY <2>1, <2>2
<1>7. ASSUME NEW t \in Turns, HookClaims(t) PROVE WakeupsAreAwaited'
  <2>1. deferred' = <<>>
    BY <1>7 DEF HookClaims
  <2> QED
    BY <1>c, <2>1
<1>8. ASSUME NEW t \in Turns, HookDefersAgain(t) PROVE WakeupsAreAwaited'
  <2>1. turn'[t].pc = "redefer"
    BY <1>0, <1>8 DEF HookDefersAgain, TurnType
  <2> QED
    BY <1>a, <1>g, <2>1
<1>9. ASSUME NEW t \in Turns, HookStarts(t) PROVE WakeupsAreAwaited'
  <2>1. turn[t].hand \in Seq(Processes) /\ turn[t].hand # <<>>
    BY <1>0, <1>9 DEF HookStarts, TurnType, TurnKnows
  <2>2. Head(turn[t].hand) \in Tasks
    BY <1>0, <2>1
  <2>3. runner'[Head(turn[t].hand)] = "starting"
    BY <1>0, <1>9, <2>2 DEF HookStarts
  <2> QED
    BY <1>b, <2>2, <2>3
<1>10. ASSUME NEW x \in Tasks, Runner(x) PROVE WakeupsAreAwaited'
  <2>1. CASE StartTurn(x)
    BY <1>1, <2>1 DEF StartTurn
  <2>2. CASE RefusedForNow(x)
    <3>1. CASE Blocked
      <4>1. PICK u \in Turns : turn[u].pc \in Live \cup {"admitting"}
        BY <3>1 DEF Blocked
      <4>2. turn'[u].pc \in Looking
        BY <2>2, <4>1 DEF RefusedForNow, Looking
      <4> QED
        BY <1>a, <4>2
    <3>2. CASE Excuse
      BY <1>e, <2>2, <3>2 DEF RefusedForNow
    <3> QED
      BY <2>2, <3>1, <3>2 DEF RefusedForNow
  <2>3. CASE RefusedWhilePaused(x)
    BY <1>e, <2>3 DEF RefusedWhilePaused
  <2>4. CASE Failed(x)
    BY <1>e, <2>4 DEF Failed
  <2>5. CASE DeferAgain(x)
    <3>1. \A y \in Tasks : runner[y] = "starting" => runner'[y] = "starting"
      BY <1>0, <2>5 DEF DeferAgain
    <3>2. x \in Processes /\ RecordLate(x) /\ UNCHANGED turn
      BY <2>5 DEF DeferAgain
    <3> QED
      BY <1>f, <3>1, <3>2
  <2>6. CASE Acknowledge(x) \/ AcknowledgeFails(x) \/ Release(x)
    <3>1. \A y \in Tasks : runner[y] = "starting" => runner'[y] = "starting"
      BY <1>0, <2>6 DEF Acknowledge, AcknowledgeFails, Release
    <3>2. UNCHANGED <<turn, deferred, excused>>
      BY <2>6 DEF Acknowledge, AcknowledgeFails, Release, history
    <3> QED
      BY <1>d, <3>1, <3>2
  <2> QED
    BY <1>10, <2>1, <2>2, <2>3, <2>4, <2>5, <2>6 DEF Runner
<1>11. ASSUME DrainThread PROVE WakeupsAreAwaited'
  <2>1. ASSUME NEW x \in Processes, RouteProcess(x) PROVE WakeupsAreAwaited'
    <3>1. UNCHANGED <<turn, deferred, excused>>
      BY <2>1 DEF RouteProcess, history
    <3>2. \A y \in Tasks : runner[y] = "starting" => runner'[y] = "starting"
      BY <1>0, <2>1 DEF RouteProcess
    <3> QED
      BY <1>d, <3>1, <3>2
  <2>2. ASSUME NEW d \in Delegations, ClaimInBackground(d) PROVE WakeupsAreAwaited'
    <3>1. UNCHANGED <<turn, deferred, excused>>
      BY <2>2 DEF ClaimInBackground, history
    <3>2. \A y \in Tasks : runner[y] = "starting" => runner'[y] = "starting"
      BY <1>0, <2>2 DEF ClaimInBackground
    <3> QED
      BY <1>d, <3>1, <3>2
  <2>3. ASSUME NEW x \in Processes, RecordDeferred(x) PROVE WakeupsAreAwaited'
    BY <1>f, <2>3 DEF RecordDeferred
  <2>4. ASSUME \/ TakeEvent \/ \E x \in Processes : CheckSeen(x) \/ MarkConsumed(x)
               \/ \E d \in Delegations : RouteDelegation(d) \/ Reserve(d)
        PROVE  WakeupsAreAwaited'
    <3>1. UNCHANGED <<turn, deferred, excused, runner>>
      BY <2>4 DEF TakeEvent, CheckSeen, MarkConsumed, RouteDelegation, Reserve, history
    <3> QED
      BY <1>d, <3>1
  <2> QED
    BY <1>11, <2>1, <2>2, <2>3, <2>4 DEF DrainThread
<1>12. ASSUME Crash PROVE WakeupsAreAwaited'
  BY <1>c, <1>12 DEF Crash
<1>13. ASSUME \/ \E x \in Processes : ProcessEnds(x)
              \/ \E d \in Delegations : DelegationEnds(d) \/ LeaseExpires(d)
              \/ Sweep \/ ForgetSeen \/ UNCHANGED vars
       PROVE  WakeupsAreAwaited'
  <2>1. UNCHANGED <<turn, deferred, excused, runner>>
    BY <1>13 DEF ProcessEnds, DelegationEnds, LeaseExpires, Sweep, ForgetSeen, vars, threads, history
  <2> QED
    BY <1>d, <2>1
<1>14. ASSUME NEW t \in Turns, Worker(t) PROVE WakeupsAreAwaited'
  BY <1>2, <1>3, <1>4, <1>5, <1>14 DEF Worker, Finish, StopEarly
<1>15. ASSUME UserStarts PROVE WakeupsAreAwaited'
  BY <1>1, <1>15 DEF UserStarts
<1> QED
  BY <1>6, <1>7, <1>8, <1>9, <1>10, <1>11, <1>12, <1>13, <1>14, <1>15 DEF Next, Hook

(***************************************************************************)
(* A deferred wakeup is awaited by a turn whose hook is to come or by a    *)
(* thread that is about to start one, except as WakeupsAreAwaited says.    *)
(***************************************************************************)
THEOREM DeferredWakeupsAreAwaited == Spec => []WakeupsAreAwaited
<1> DEFINE Inv == ThreadsInv /\ WakeupsAreAwaited
<1>1. Init => Inv
  BY ThreadsInit, EmptyRange DEF Init, WakeupsAreAwaited
<1>2. Inv /\ [Next]_vars => Inv'
  BY ThreadsStep, AwaitedStep
<1> QED
  BY <1>1, <1>2, PTL DEF Spec

(***************************************************************************)
(* The store.                                                              *)
(***************************************************************************)
\* Every step keeps the types of the claims in this process.
LEMMA LaneStep ==
    ASSUME ThreadsInv, StoreTypeOK, [Next]_vars
    PROVE  /\ local' \subseteq Delegations /\ abandoned' \subseteq Delegations
           /\ reserved' \in Delegations \cup {NoTask} /\ retry' \in BOOLEAN
<1>0. /\ local \subseteq Delegations /\ abandoned \subseteq Delegations
      /\ reserved \in Delegations \cup {NoTask} /\ retry \in BOOLEAN
      /\ queue \in Seq(Tasks) /\ \A t \in Turns : turn[t] \in TurnType
  BY DEF StoreTypeOK, ThreadsInv, ThreadsTypeOK, QueuesTypeOK
<1> DEFINE Goal == /\ local' \subseteq Delegations /\ abandoned' \subseteq Delegations
                   /\ reserved' \in Delegations \cup {NoTask} /\ retry' \in BOOLEAN
<1>a. ASSUME UNCHANGED lane PROVE Goal
  BY <1>0, <1>a DEF lane
<1>b. ASSUME NEW d, NEW state, RetryUnclaimed(d, state) PROVE retry' \in BOOLEAN
  BY <1>0, <1>b DEF RetryUnclaimed
<1>1. ASSUME NEW t \in Turns, StopEarly(t) PROVE Goal
  <2>1. turn[t].claims \subseteq Delegations
    BY <1>0 DEF TurnType
  <2> QED
    BY <1>0, <1>1, <2>1 DEF StopEarly
<1>2. ASSUME Sweep PROVE Goal
  BY <1>0, <1>2 DEF Sweep
<1>3. ASSUME NEW d \in Delegations, RouteDelegation(d) PROVE Goal
  BY <1>0, <1>b, <1>3 DEF RouteDelegation
<1>4. ASSUME NEW d \in Delegations, Reserve(d) PROVE Goal
  BY <1>0, <1>b, <1>4 DEF Reserve
<1>5. ASSUME NEW d \in Delegations, ClaimInBackground(d) PROVE Goal
  BY <1>0, <1>5 DEF ClaimInBackground, Claim, ScheduleRetry
<1>6. ASSUME NEW x \in Tasks, Acknowledge(x) PROVE Goal
  BY <1>0, <1>6 DEF Acknowledge, ReleaseSlot
<1>7. ASSUME NEW x \in Tasks, Release(x) PROVE Goal
  <2>1. local' = local \ {x} /\ reserved' = NoTask /\ UNCHANGED abandoned
        /\ \E state : RetryUnclaimed(x, state)
    BY <1>7 DEF Release, ReleaseSlot
  <2> QED
    BY <1>0, <1>b, <2>1
<1>8. ASSUME NEW t \in Turns, TakeAlong(t) PROVE Goal
  <2>1. UNCHANGED <<reserved, abandoned>>
    BY <1>8 DEF TakeAlong
  <2>2. \/ UNCHANGED local
        \/ Head(queue) \in Delegations /\ local' = local \cup {Head(queue)}
    BY <1>8 DEF TakeAlong, Claim
  <2>3. UNCHANGED retry \/ retry' = (retry \/ row[Head(queue)] = "pending")
    BY <1>8 DEF TakeAlong, ScheduleRetry
  <2> QED
    BY <1>0, <2>1, <2>2, <2>3
<1>9. ASSUME NEW t \in Turns, Accept(t) PROVE Goal
  <2>1. UNCHANGED <<reserved, abandoned, retry>> /\ \E bad : local' = local \ bad
    BY <1>9 DEF Accept
  <2> QED
    BY <1>0, <2>1
<1>10. ASSUME Crash PROVE Goal
  BY <1>10 DEF Crash
<1> HIDE DEF Goal
<1>11. ASSUME NEW x \in Tasks, Runner(x) PROVE Goal
  BY <1>a, <1>6, <1>7, <1>11
  DEF Runner, StartTurn, RefusedForNow, RefusedWhilePaused, Failed, DeferAgain, AcknowledgeFails
<1>12. ASSUME NEW t \in Turns, Worker(t) \/ Hook(t) PROVE Goal
  BY <1>a, <1>1, <1>8, <1>9, <1>12
  DEF Worker, Hook, OpenStream, Notify, EndOfQueue, CallAgent, Finish, Orphan, HookLooks,
      HookClaims, HookDefersAgain, HookStarts
<1>13. ASSUME \/ TakeEvent \/ UserStarts \/ ForgetSeen \/ UNCHANGED vars
              \/ \E x \in Processes : \/ CheckSeen(x) \/ MarkConsumed(x) \/ RouteProcess(x)
                                      \/ RecordDeferred(x) \/ ProcessEnds(x)
              \/ \E d \in Delegations : DelegationEnds(d) \/ LeaseExpires(d)
       PROVE  Goal
  BY <1>a, <1>13 DEF TakeEvent, UserStarts, ForgetSeen, vars, CheckSeen, MarkConsumed,
                     RouteProcess, RecordDeferred, ProcessEnds, DelegationEnds, LeaseExpires
<1> QED
  BY <1>2, <1>3, <1>4, <1>5, <1>10, <1>11, <1>12, <1>13 DEF Next, DrainThread, Goal

\* The rows, and who has claimed them.
RowsTypeOK ==
    /\ row \in [Delegations -> RowStates]
    /\ attempts \in [Delegations -> 0..MaxDeliveries]
    /\ spent \in [Delegations -> 0..MaxDeliveries]

RowsInv == RowsTypeOK /\ \A d \in Delegations : ClaimsAreHeld(d) /\ AttemptsAreCounted(d)

\* Nothing happens to the row of d, and nobody claims it.
RowStays(d) ==
    /\ row'[d] = row[d] /\ attempts'[d] = attempts[d] /\ spent'[d] = spent[d]
    /\ (d \in local') = (d \in local) /\ (d \in abandoned') = (d \in abandoned)
    /\ runner'[d] # "none" => runner[d] # "none"
    /\ \A t \in Turns : d \in turn'[t].claims => d \in turn[t].claims
    /\ d \in due'.delegated => d \in due.delegated

\* A row that is left alone, and whose holders are, stays held.
LEMMA StaysHeld ==
    ASSUME NEW d \in Delegations, RowStays(d), ClaimsAreHeld(d), AttemptsAreCounted(d)
    PROVE  ClaimsAreHeld(d)' /\ AttemptsAreCounted(d)'
<1>1. ClaimsAreHeld(d)'
  BY DEF RowStays, ClaimsAreHeld
<1>2. AttemptsAreCounted(d)'
  BY DEF RowStays, AttemptsAreCounted, Unsettled
<1> QED
  BY <1>1, <1>2

\* One row is set.
LEMMA RowIsSet ==
    ASSUME RowsTypeOK, NEW d \in Delegations,
           NEW r \in RowStates, NEW a \in 0..MaxDeliveries, NEW s \in 0..MaxDeliveries,
           row' = [row EXCEPT ![d] = r], attempts' = [attempts EXCEPT ![d] = a],
           spent' = [spent EXCEPT ![d] = s]
    PROVE  /\ RowsTypeOK'
           /\ row'[d] = r /\ attempts'[d] = a /\ spent'[d] = s
           /\ \A e \in Delegations \ {d} :
                 row'[e] = row[e] /\ attempts'[e] = attempts[e] /\ spent'[e] = spent[e]
BY DEF RowsTypeOK

\* A row is claimed, in this process as well.
LEMMA ClaimStep ==
    ASSUME RowsInv, due \in Budget, NEW d \in Delegations, CanClaim(d), Claim(d), UNCHANGED spent
    PROVE  /\ RowsTypeOK'
           /\ row'[d] = "claimed" /\ attempts'[d] = attempts[d] + 1 /\ spent'[d] = spent[d]
           /\ d \in local' \ abandoned /\ runner[d] = "none"
           /\ AttemptsAreCounted(d) /\ row[d] = "pending"
           /\ \A t \in Turns : d \notin turn[t].claims
           /\ \A e \in Delegations \ {d} :
                 /\ row'[e] = row[e] /\ attempts'[e] = attempts[e] /\ spent'[e] = spent[e]
                 /\ (e \in local') = (e \in local)
<1>1. ClaimsAreHeld(d) /\ AttemptsAreCounted(d) /\ RowsTypeOK
  BY DEF RowsInv
<1>2. d \notin local /\ row[d] = "pending"
  BY DEF CanClaim
<1>3. runner[d] = "none" /\ d \notin abandoned /\ \A t \in Turns : d \notin turn[t].claims
  BY <1>1, <1>2 DEF ClaimsAreHeld
<1>4. attempts[d] + 1 \in 0..MaxDeliveries /\ spent[d] \in 0..MaxDeliveries
  BY <1>1, <1>2, WakeupsAssumption DEF AttemptsAreCounted, RowsTypeOK
<1>5. "claimed" \in RowStates
  BY DEF RowStates
<1>6. /\ row' = [row EXCEPT ![d] = "claimed"] /\ attempts' = [attempts EXCEPT ![d] = attempts[d] + 1]
      /\ spent' = [spent EXCEPT ![d] = spent[d]] /\ local' = local \cup {d}
  BY <1>1 DEF Claim, RowsTypeOK
<1> DEFINE a == attempts[d] + 1
           s == spent[d]
<1>7. /\ a \in 0..MaxDeliveries /\ s \in 0..MaxDeliveries
      /\ row' = [row EXCEPT ![d] = "claimed"] /\ attempts' = [attempts EXCEPT ![d] = a]
      /\ spent' = [spent EXCEPT ![d] = s]
  BY <1>4, <1>6
<1> HIDE DEF a, s
<1>8. /\ RowsTypeOK' /\ row'[d] = "claimed" /\ attempts'[d] = a /\ spent'[d] = s
      /\ \A e \in Delegations \ {d} :
            row'[e] = row[e] /\ attempts'[e] = attempts[e] /\ spent'[e] = spent[e]
  BY <1>1, <1>5, <1>7 DEF RowsTypeOK
<1> QED
  BY <1>1, <1>2, <1>3, <1>6, <1>8 DEF a, s

\* Every step keeps the claims held and the attempts counted.
LEMMA RowsStep ==
    ASSUME ThreadsInv, RowsInv, [Next]_vars
    PROVE  RowsInv'
<1>0. /\ RowsTypeOK /\ \A d \in Delegations : ClaimsAreHeld(d) /\ AttemptsAreCounted(d)
      /\ turn \in [Turns -> TurnType] /\ \A t \in Turns : turn[t] \in TurnType /\ TurnKnows(turn[t])
      /\ runner \in [Tasks -> RunnerPCs] /\ RunnersKnow /\ due \in Budget
      /\ Processes \cap Delegations = {} /\ Tasks = Processes \cup Delegations
      /\ MaxDeliveries \in Nat /\ queue \in Seq(Tasks)
  BY WakeupsAssumption DEF ThreadsInv, RowsInv, ThreadsTypeOK, QueuesTypeOK, TurnsKnow, Tasks
<1>y. due'.delegated \subseteq due.delegated
  BY <1>0, BudgetStep
<1>a. ASSUME RowsTypeOK',
             \A e \in Delegations : RowStays(e) \/ (ClaimsAreHeld(e)' /\ AttemptsAreCounted(e)')
      PROVE  RowsInv'
  <2>1. ASSUME NEW e \in Delegations PROVE ClaimsAreHeld(e)' /\ AttemptsAreCounted(e)'
    BY <1>0, <1>a, <2>1, StaysHeld
  <2> QED
    BY <1>a, <2>1 DEF RowsInv
\* Turns whose claims stay.
<1>b. ASSUME NEW t \in Turns, NEW r, turn' = [turn EXCEPT ![t] = r], r.claims \subseteq turn[t].claims
      PROVE  \A u \in Turns : turn'[u].claims \subseteq turn[u].claims
  BY <1>0, <1>b
<1>c. ASSUME UNCHANGED turn PROVE \A u \in Turns : turn'[u].claims \subseteq turn[u].claims
  BY <1>c
\* The rows stay, and threads only let go.
<1>d. ASSUME UNCHANGED <<store, local, abandoned>>,
             \A u \in Turns : turn'[u].claims \subseteq turn[u].claims,
             \A d \in Delegations : runner'[d] # "none" => runner[d] # "none"
      PROVE  RowsInv'
  <2>1. ASSUME NEW d \in Delegations PROVE RowStays(d)
    BY <1>d, <1>y DEF RowStays, store
  <2>2. RowsTypeOK'
    BY <1>0, <1>d DEF RowsTypeOK, store
  <2> QED
    BY <1>a, <2>1, <2>2
<1>1. ASSUME NEW d \in Delegations, DelegationEnds(d) PROVE RowsInv'
  <2>1. ClaimsAreHeld(d) /\ AttemptsAreCounted(d) /\ row[d] = "running" /\ attempts[d] = 0
    BY <1>0, <1>1 DEF DelegationEnds, AttemptsAreCounted
  <2>2. /\ row' = [row EXCEPT ![d] = "pending"] /\ UNCHANGED <<attempts, spent>>
        /\ "pending" \in RowStates
    BY <1>1 DEF DelegationEnds, RowStates
  <2>3. RowsTypeOK' /\ row'[d] = "pending" /\ \A e \in Delegations \ {d} : row'[e] = row[e]
    BY <1>0, <2>2 DEF RowsTypeOK
  <2>4. UNCHANGED <<local, abandoned, runner, turn>>
    BY <1>1 DEF DelegationEnds, lane, threads
  <2>5. due' = [due EXCEPT !.delegated = @ \ {d}]
    BY <1>1 DEF DelegationEnds
  <2>6. d \notin due'.delegated
    BY <1>0, <2>5 DEF Budget
  <2>7. ClaimsAreHeld(d)'
    BY <2>1, <2>3, <2>4 DEF ClaimsAreHeld
  <2>8. AttemptsAreCounted(d)'
    BY <1>0, <2>1, <2>2, <2>3, <2>4, <2>6, WakeupsAssumption
    DEF AttemptsAreCounted, Unsettled, RowsTypeOK
  <2>9. \A e \in Delegations \ {d} : RowStays(e)
    BY <1>y, <2>2, <2>3, <2>4 DEF RowStays
  <2> QED
    BY <1>a, <2>3, <2>7, <2>8, <2>9
<1>2. ASSUME NEW d \in Delegations, LeaseExpires(d) PROVE RowsInv'
  <2>1. /\ ClaimsAreHeld(d) /\ AttemptsAreCounted(d) /\ row[d] = "claimed" /\ d \in abandoned
        /\ UNCHANGED <<attempts, spent, local, abandoned, runner, turn>>
    BY <1>0, <1>2 DEF LeaseExpires, lane, threads
  <2>2. /\ row' = [row EXCEPT ![d] = Released(d)] /\ Released(d) \in RowStates
        /\ Released(d) = IF attempts[d] >= MaxDeliveries THEN "dropped" ELSE "pending"
    BY <1>2 DEF LeaseExpires, RowStates, Released
  <2>3. RowsTypeOK' /\ row'[d] = Released(d) /\ \A e \in Delegations \ {d} : row'[e] = row[e]
    BY <1>0, <2>1, <2>2 DEF RowsTypeOK
  <2>4. ClaimsAreHeld(d)'
    BY <2>1, <2>2, <2>3 DEF ClaimsAreHeld
  <2>5. AttemptsAreCounted(d)'
    BY <1>0, <1>y, <2>1, <2>2, <2>3 DEF AttemptsAreCounted, Unsettled, RowsTypeOK
  <2>6. \A e \in Delegations \ {d} : RowStays(e)
    BY <1>y, <2>1, <2>3 DEF RowStays
  <2> QED
    BY <1>a, <2>3, <2>4, <2>5, <2>6
<1>3. ASSUME NEW d \in Delegations, ClaimInBackground(d) PROVE RowsInv'
  <2>1. CASE CanClaim(d) /\ Claim(d) /\ runner' = [runner EXCEPT ![d] = "starting"]
    <3>1. UNCHANGED <<spent, abandoned, turn>>
      BY <1>3 DEF ClaimInBackground
    <3>2. /\ RowsTypeOK'
          /\ row'[d] = "claimed" /\ attempts'[d] = attempts[d] + 1 /\ spent'[d] = spent[d]
          /\ d \in local' \ abandoned /\ runner[d] = "none"
          /\ AttemptsAreCounted(d) /\ row[d] = "pending"
          /\ \A t \in Turns : d \notin turn[t].claims
          /\ \A e \in Delegations \ {d} :
                /\ row'[e] = row[e] /\ attempts'[e] = attempts[e] /\ spent'[e] = spent[e]
                /\ (e \in local') = (e \in local)
      BY <1>0, <2>1, <3>1, ClaimStep
    <3>3. ClaimsAreHeld(d)'
      BY <3>1, <3>2 DEF ClaimsAreHeld
    <3>4. AttemptsAreCounted(d)'
      BY <1>0, <1>y, <3>1, <3>2 DEF AttemptsAreCounted, Unsettled, RowsTypeOK
    <3>5. \A e \in Delegations \ {d} : RowStays(e)
      BY <1>0, <1>y, <2>1, <3>1, <3>2 DEF RowStays
    <3> QED
      BY <1>a, <3>2, <3>3, <3>4, <3>5
  <2>2. CASE UNCHANGED <<row, attempts, local, runner>>
    BY <1>c, <1>d, <1>3, <2>2 DEF ClaimInBackground, store
  <2> QED
    BY <1>3, <2>1, <2>2 DEF ClaimInBackground
<1>4. ASSUME NEW t \in Turns, TakeAlong(t) PROVE RowsInv'
  <2>0. UNCHANGED <<spent, abandoned, runner>>
    BY <1>4 DEF TakeAlong, store
  <2>1. ASSUME NEW d \in Delegations, CanClaim(d), Claim(d),
               turn' = [turn EXCEPT ![t].pc = "draining", ![t].claims = @ \cup {d}]
        PROVE  RowsInv'
    <3>1. /\ turn'[t].claims = turn[t].claims \cup {d}
          /\ \A u \in Turns \ {t} : turn'[u] = turn[u]
      BY <1>0, <2>1 DEF TurnType
    <3>2. /\ RowsTypeOK'
          /\ row'[d] = "claimed" /\ attempts'[d] = attempts[d] + 1 /\ spent'[d] = spent[d]
          /\ d \in local' \ abandoned /\ runner[d] = "none"
          /\ AttemptsAreCounted(d) /\ row[d] = "pending"
          /\ \A u \in Turns : d \notin turn[u].claims
          /\ \A e \in Delegations \ {d} :
                /\ row'[e] = row[e] /\ attempts'[e] = attempts[e] /\ spent'[e] = spent[e]
                /\ (e \in local') = (e \in local)
      BY <1>0, <2>0, <2>1, ClaimStep
    <3>3. ClaimsAreHeld(d)'
      BY <2>0, <3>1, <3>2 DEF ClaimsAreHeld
    <3>4. AttemptsAreCounted(d)'
      BY <1>0, <1>y, <2>0, <2>1, <3>2 DEF AttemptsAreCounted, Unsettled, RowsTypeOK
    <3>5. \A e \in Delegations \ {d} : RowStays(e)
      BY <1>0, <1>y, <2>0, <3>1, <3>2 DEF RowStays
    <3> QED
      BY <1>a, <3>2, <3>3, <3>4, <3>5
  <2>2. ASSUME UNCHANGED <<store, local>>, NEW r, turn' = [turn EXCEPT ![t] = r],
               r.claims = turn[t].claims
        PROVE  RowsInv'
    <3>1. \A u \in Turns : turn'[u].claims \subseteq turn[u].claims
      BY <1>b, <2>2
    <3> QED
      BY <1>d, <2>0, <2>2, <3>1
  <2>3. CASE UNCHANGED <<store, local>> /\ turn' = [turn EXCEPT ![t].pc = "draining"]
    <3> DEFINE r == [turn[t] EXCEPT !.pc = "draining"]
    <3>1. turn' = [turn EXCEPT ![t] = r]
      BY <2>3
    <3>2. r.claims = turn[t].claims
      BY <1>0 DEF TurnType
    <3> QED
      BY <2>2, <2>3, <3>1, <3>2
  <2>4. CASE /\ UNCHANGED <<store, local>>
             /\ turn' = [turn EXCEPT ![t].pc = "draining", ![t].task = Head(queue)]
    <3> DEFINE r == [turn[t] EXCEPT !.pc = "draining", !.task = Head(queue)]
    <3>1. turn' = [turn EXCEPT ![t] = r]
      BY <2>4
    <3>2. r.claims = turn[t].claims
      BY <1>0 DEF TurnType
    <3> QED
      BY <2>2, <2>4, <3>1, <3>2
  <2>5. CASE /\ UNCHANGED <<store, local>>
             /\ turn' = [turn EXCEPT ![t].pc = "draining", ![t].skipped = Append(@, Head(queue))]
    <3> DEFINE r == [turn[t] EXCEPT !.pc = "draining", !.skipped = Append(@, Head(queue))]
    <3>1. turn' = [turn EXCEPT ![t] = r]
      BY <2>5
    <3>2. r.claims = turn[t].claims
      BY <1>0 DEF TurnType
    <3> QED
      BY <2>2, <2>5, <3>1, <3>2
  <2> QED
    BY <1>4, <2>1, <2>3, <2>4, <2>5 DEF TakeAlong
<1>5. ASSUME NEW d \in Tasks, Acknowledge(d) PROVE RowsInv'
  <2>1. d \in Delegations /\ runner[d] = "accepted" /\ ClaimsAreHeld(d) /\ AttemptsAreCounted(d)
    BY <1>0, <1>5 DEF Acknowledge, RunnersKnow
  <2>2. /\ row' = [row EXCEPT ![d] = "delivered"] /\ runner' = [runner EXCEPT ![d] = "none"]
        /\ UNCHANGED <<attempts, spent, local, abandoned, turn>> /\ "delivered" \in RowStates
    BY <1>5 DEF Acknowledge, RowStates
  <2>3. /\ RowsTypeOK' /\ row'[d] = "delivered" /\ runner'[d] = "none"
        /\ \A e \in Delegations \ {d} : row'[e] = row[e] /\ runner'[e] = runner[e]
    BY <1>0, <2>1, <2>2 DEF RowsTypeOK
  <2>4. ClaimsAreHeld(d)'
    BY <2>1, <2>2, <2>3 DEF ClaimsAreHeld
  <2>5. AttemptsAreCounted(d)'
    BY <1>0, <1>y, <2>1, <2>2, <2>3 DEF AttemptsAreCounted, ClaimsAreHeld, Unsettled, RowsTypeOK
  <2>6. \A e \in Delegations \ {d} : RowStays(e)
    BY <1>y, <2>2, <2>3 DEF RowStays
  <2> QED
    BY <1>a, <2>3, <2>4, <2>5, <2>6
<1>6. ASSUME NEW d \in Tasks, Release(d) PROVE RowsInv'
  <2> DEFINE r == IF Refunded(d) THEN "pending" ELSE Released(d)
             a == IF Refunded(d) THEN attempts[d] - 1 ELSE attempts[d]
             s == IF runner[d] = "failed" THEN spent[d] + 1 ELSE spent[d]
  <2>1. /\ d \in Delegations /\ runner[d] \in {"refused", "failed"}
        /\ ClaimsAreHeld(d) /\ AttemptsAreCounted(d)
        /\ row[d] = "claimed" /\ d \in local \ abandoned /\ \A t \in Turns : d \notin turn[t].claims
    BY <1>0, <1>6 DEF Release, ClaimsAreHeld
  <2>2. attempts[d] = spent[d] + 1 /\ attempts[d] \in 0..MaxDeliveries /\ spent[d] \in 0..MaxDeliveries
    BY <1>0, <2>1 DEF AttemptsAreCounted, Unsettled, RowsTypeOK
  <2>3. /\ r \in RowStates /\ a \in 0..MaxDeliveries /\ s \in 0..MaxDeliveries /\ a = s
        /\ r = "pending" => a < MaxDeliveries
        /\ r = "dropped" => a >= MaxDeliveries
        /\ r \in {"pending", "dropped"}
    BY <1>0, <2>1, <2>2 DEF RowStates, Refunded, Released
  <2>4. /\ row' = [row EXCEPT ![d] = r] /\ attempts' = [attempts EXCEPT ![d] = a]
        /\ spent' = [spent EXCEPT ![d] = s]
    BY <1>0, <1>6, <2>1 DEF Release, RowsTypeOK
  <2>5. /\ runner' = [runner EXCEPT ![d] = "none"] /\ local' = local \ {d}
        /\ UNCHANGED <<abandoned, turn>>
    BY <1>6 DEF Release
  <2> HIDE DEF r, a, s
  <2>6. /\ RowsTypeOK' /\ row'[d] = r /\ attempts'[d] = a /\ spent'[d] = s
        /\ \A e \in Delegations \ {d} :
              row'[e] = row[e] /\ attempts'[e] = attempts[e] /\ spent'[e] = spent[e]
    BY <1>0, <2>1, <2>3, <2>4, RowIsSet
  <2>7. ClaimsAreHeld(d)'
    BY <1>0, <2>1, <2>5 DEF ClaimsAreHeld
  <2>8. AttemptsAreCounted(d)'
    BY <1>0, <1>y, <2>1, <2>3, <2>5, <2>6 DEF AttemptsAreCounted, Unsettled
  <2>9. \A e \in Delegations \ {d} : RowStays(e)
    BY <1>0, <1>y, <2>1, <2>5, <2>6 DEF RowStays
  <2> QED
    BY <1>a, <2>6, <2>7, <2>8, <2>9
<1>7. ASSUME NEW t \in Turns, StopEarly(t) PROVE RowsInv'
  <2>1. /\ UNCHANGED <<row, attempts, local, runner>>
        /\ abandoned' = abandoned \cup turn[t].claims
        /\ spent' = [d \in Delegations |-> IF d \in turn[t].claims THEN spent[d] + 1 ELSE spent[d]]
        /\ turn' = [turn EXCEPT ![t] = [NoTurn EXCEPT !.pc = "closed"]]
    BY <1>7 DEF StopEarly, Close
  <2>2. turn'[t].claims = {} /\ \A u \in Turns \ {t} : turn'[u] = turn[u]
    BY <1>0, <2>1 DEF NoTurn
  <2>3. ASSUME NEW d \in turn[t].claims
        PROVE  /\ ClaimsAreHeld(d)' /\ AttemptsAreCounted(d)' /\ spent'[d] \in 0..MaxDeliveries
    <3>1. /\ d \in Delegations /\ ClaimsAreHeld(d) /\ AttemptsAreCounted(d)
          /\ row[d] = "claimed" /\ d \in local \ abandoned /\ runner[d] = "none"
          /\ \A u \in Turns \ {t} : d \notin turn[u].claims
      BY <1>0, <2>3 DEF TurnType, ClaimsAreHeld
    <3>2. /\ attempts[d] = spent[d] + 1 /\ spent'[d] = spent[d] + 1
          /\ attempts[d] \in 0..MaxDeliveries /\ spent[d] \in 0..MaxDeliveries
      BY <1>0, <2>1, <2>3, <3>1 DEF AttemptsAreCounted, Unsettled, RowsTypeOK
    <3>3. d \in abandoned'
      BY <2>1, <2>3
    <3>4. ClaimsAreHeld(d)'
      BY <2>1, <2>2, <3>1, <3>3 DEF ClaimsAreHeld
    <3>5. AttemptsAreCounted(d)'
      BY <1>y, <2>1, <3>1, <3>2, <3>3 DEF AttemptsAreCounted, Unsettled
    <3> QED
      BY <3>2, <3>4, <3>5
  <2>4. ASSUME NEW d \in Delegations \ turn[t].claims PROVE RowStays(d)
    BY <1>y, <2>1, <2>2, <2>4 DEF RowStays
  <2>5. RowsTypeOK'
    BY <1>0, <2>1, <2>3 DEF RowsTypeOK
  <2> QED
    BY <1>a, <2>3, <2>4, <2>5
<1>8. ASSUME NEW t \in Turns, Accept(t) PROVE RowsInv'
  <2>1. PICK bad \in {{}} \cup {{d} : d \in turn[t].claims} :
           /\ row' = [d \in Delegations |-> IF d \in bad THEN Released(d)
                                            ELSE IF d \in turn[t].claims THEN "delivered"
                                            ELSE row[d]]
           /\ spent' = [d \in Delegations |-> IF d \in bad THEN spent[d] + 1 ELSE spent[d]]
           /\ local' = local \ bad
           /\ turn' = [turn EXCEPT ![t].pc = "accepted", ![t].claims = {},
                                   ![t].notes = @ \cup (turn[t].claims \ bad)]
    BY <1>8 DEF Accept
  <2>2. UNCHANGED <<attempts, abandoned, runner>> /\ bad \subseteq turn[t].claims
    BY <1>8 DEF Accept
  <2>3. turn'[t].claims = {} /\ \A u \in Turns \ {t} : turn'[u] = turn[u]
    BY <1>0, <2>1 DEF TurnType
  <2>4. ASSUME NEW d \in turn[t].claims
        PROVE  /\ ClaimsAreHeld(d)' /\ AttemptsAreCounted(d)' /\ spent'[d] \in 0..MaxDeliveries
               /\ row'[d] \in RowStates
    <3>1. /\ d \in Delegations /\ ClaimsAreHeld(d) /\ AttemptsAreCounted(d)
          /\ row[d] = "claimed" /\ d \in local \ abandoned /\ runner[d] = "none"
          /\ \A u \in Turns \ {t} : d \notin turn[u].claims
      BY <1>0, <2>4 DEF TurnType, ClaimsAreHeld
    <3>2. /\ attempts[d] = spent[d] + 1
          /\ attempts[d] \in 0..MaxDeliveries /\ spent[d] \in 0..MaxDeliveries
      BY <1>0, <3>1 DEF AttemptsAreCounted, Unsettled, RowsTypeOK
    <3>3. ClaimsAreHeld(d)'
      BY <2>2, <2>3, <3>1 DEF ClaimsAreHeld
    <3>4. CASE d \in bad
      <4>1. /\ spent'[d] = spent[d] + 1 /\ row'[d] = Released(d)
            /\ Released(d) = IF attempts[d] >= MaxDeliveries THEN "dropped" ELSE "pending"
        BY <2>1, <3>1, <3>4 DEF Released
      <4>2. AttemptsAreCounted(d)'
        BY <1>0, <1>y, <2>2, <3>1, <3>2, <4>1 DEF AttemptsAreCounted, Unsettled
      <4> QED
        BY <3>2, <3>3, <4>1, <4>2 DEF RowStates
    <3>5. CASE d \notin bad
      <4>1. spent'[d] = spent[d] /\ row'[d] = "delivered"
        BY <2>1, <3>1, <2>4, <3>5
      <4>2. AttemptsAreCounted(d)'
        BY <1>0, <1>y, <2>2, <3>1, <3>2, <4>1 DEF AttemptsAreCounted, Unsettled
      <4> QED
        BY <3>2, <3>3, <4>1, <4>2 DEF RowStates
    <3> QED
      BY <3>4, <3>5
  <2>5. ASSUME NEW d \in Delegations \ turn[t].claims PROVE RowStays(d)
    <3>1. row'[d] = row[d] /\ spent'[d] = spent[d] /\ (d \in local') = (d \in local)
      BY <2>1, <2>2
    <3> QED
      BY <1>y, <2>2, <2>3, <3>1 DEF RowStays
  <2>6. RowsTypeOK'
    <3>1. ASSUME NEW d \in Delegations
          PROVE  row'[d] \in RowStates /\ spent'[d] \in 0..MaxDeliveries
      BY <1>0, <2>4, <2>5 DEF RowStays, RowsTypeOK
    <3> QED
      BY <1>0, <2>1, <2>2, <3>1 DEF RowsTypeOK
  <2> QED
    BY <1>a, <2>4, <2>5, <2>6
<1>9. ASSUME Crash PROVE RowsInv'
  <2>1. /\ UNCHANGED attempts /\ runner' = [x \in Tasks |-> "none"] /\ turn' = [t \in Turns |-> NoTurn]
        /\ row' = [d \in Delegations |-> Unclaimed(d)]
        /\ spent' = [d \in Delegations |-> IF row[d] = "claimed" /\ d \notin abandoned
                                           THEN spent[d] + 1 ELSE spent[d]]
        /\ local' = {} /\ abandoned' = {}
    BY <1>9 DEF Crash
  <2>2. ASSUME NEW d \in Delegations
        PROVE  /\ ClaimsAreHeld(d)' /\ AttemptsAreCounted(d)' /\ spent'[d] \in 0..MaxDeliveries
               /\ row'[d] \in RowStates
    <3>1. /\ AttemptsAreCounted(d) /\ attempts[d] \in 0..MaxDeliveries
          /\ spent[d] \in 0..MaxDeliveries /\ row[d] \in RowStates
      BY <1>0 DEF RowsTypeOK
    <3>2. /\ row'[d] = IF row[d] = "claimed"
                       THEN IF attempts[d] >= MaxDeliveries THEN "dropped" ELSE "pending"
                       ELSE row[d]
          /\ spent'[d] = IF row[d] = "claimed" /\ d \notin abandoned THEN spent[d] + 1 ELSE spent[d]
      BY <2>1 DEF Unclaimed, Released
    <3>3. ClaimsAreHeld(d)'
      BY <1>0, <2>1 DEF ClaimsAreHeld, NoTurn
    <3>4. AttemptsAreCounted(d)' /\ spent'[d] \in 0..MaxDeliveries
      BY <1>0, <1>y, <2>1, <3>1, <3>2 DEF AttemptsAreCounted, Unsettled
    <3>5. row'[d] \in RowStates
      BY <3>1, <3>2 DEF RowStates
    <3> QED
      BY <3>3, <3>4, <3>5
  <2>3. RowsTypeOK'
    BY <1>0, <2>1, <2>2 DEF RowsTypeOK
  <2> QED
    BY <1>a, <2>2, <2>3
<1>10. ASSUME NEW w \in Tasks \cup {User}, Admit(w)
       PROVE  \A u \in Turns : turn'[u].claims \subseteq turn[u].claims
  <2>1. PICK t \in Turns : turn'[t].claims = {} /\ \A u \in Turns \ {t} : turn'[u] = turn[u]
    BY <1>10, Admitted DEF ThreadsInv
  <2> QED
    BY <2>1
<1>11. ASSUME NEW x \in Tasks, Runner(x) PROVE RowsInv'
  <2>1. CASE StartTurn(x)
    <3>1. \A d \in Delegations : runner'[d] # "none" => runner[d] # "none"
      BY <1>0, <2>1 DEF StartTurn
    <3>2. UNCHANGED <<store, local, abandoned>>
      BY <2>1 DEF StartTurn, lane
    <3>3. \A u \in Turns : turn'[u].claims \subseteq turn[u].claims
      BY <1>10, <2>1 DEF StartTurn
    <3> QED
      BY <1>d, <3>1, <3>2, <3>3
  <2>2. CASE \/ RefusedForNow(x) \/ RefusedWhilePaused(x) \/ Failed(x) \/ DeferAgain(x)
             \/ AcknowledgeFails(x)
    <3>1. /\ UNCHANGED <<store, local, abandoned, turn>> /\ runner[x] # "none"
          /\ \E pc : runner' = [runner EXCEPT ![x] = pc]
      BY <2>2 DEF RefusedForNow, RefusedWhilePaused, Failed, DeferAgain, AcknowledgeFails, lane
    <3>2. \A d \in Delegations : runner'[d] # "none" => runner[d] # "none"
      BY <1>0, <3>1
    <3> QED
      BY <1>c, <1>d, <3>1, <3>2
  <2> QED
    BY <1>5, <1>6, <1>11, <2>1, <2>2 DEF Runner
<1>12. ASSUME NEW t \in Turns, HookStarts(t) PROVE RowsInv'
  <2>1. turn[t].hand \in Seq(Processes) /\ turn[t].hand # <<>>
    BY <1>0, <1>12 DEF HookStarts, TurnType, TurnKnows
  <2>2. Head(turn[t].hand) \in Processes
    BY <2>1
  <2>3. \A d \in Delegations : runner'[d] # "none" => runner[d] # "none"
    BY <1>0, <1>12, <2>2 DEF HookStarts
  <2>4. UNCHANGED <<store, local, abandoned>> /\ turn' = [turn EXCEPT ![t] = NoTurn]
    BY <1>12 DEF HookStarts, lane
  <2>5. NoTurn.claims \subseteq turn[t].claims
    BY DEF NoTurn
  <2> QED
    BY <1>b, <1>d, <2>3, <2>4, <2>5
<1>13. ASSUME NEW x \in Processes, RouteProcess(x) PROVE RowsInv'
  <2>1. \A d \in Delegations : runner'[d] # "none" => runner[d] # "none"
    BY <1>0, <1>13 DEF RouteProcess
  <2>2. UNCHANGED <<store, local, abandoned, turn>>
    BY <1>13 DEF RouteProcess, lane
  <2> QED
    BY <1>c, <1>d, <2>1, <2>2
<1>15. ASSUME NEW t \in Turns, OpenStream(t) \/ Notify(t) \/ EndOfQueue(t) PROVE RowsInv'
  <2>1. UNCHANGED <<store, local, abandoned, runner>>
    BY <1>15 DEF OpenStream, Notify, EndOfQueue, lane
  <2>2. /\ turn'[t].claims = turn[t].claims
        /\ \A u \in Turns \ {t} : turn'[u] = turn[u]
    BY <1>0, <1>15 DEF OpenStream, Notify, EndOfQueue, TurnType
  <2> QED
    BY <1>d, <2>1, <2>2
<1>16. ASSUME NEW t \in Turns, CallAgent(t) \/ Finish(t) \/ Orphan(t) PROVE RowsInv'
  <2>1. UNCHANGED <<store, local, abandoned, runner>>
    BY <1>16 DEF CallAgent, Finish, Orphan, lane
  <2>2. /\ turn'[t].claims = turn[t].claims \/ turn'[t].claims = {}
        /\ \A u \in Turns \ {t} : turn'[u] = turn[u]
    BY <1>0, <1>16 DEF CallAgent, Finish, Orphan, Close, NoTurn, TurnType
  <2> QED
    BY <1>d, <2>1, <2>2
<1>17. ASSUME NEW t \in Turns, HookLooks(t) \/ HookClaims(t) \/ HookDefersAgain(t) PROVE RowsInv'
  <2>1. UNCHANGED <<store, local, abandoned, runner>>
    BY <1>17 DEF HookLooks, HookClaims, HookDefersAgain, lane
  <2>2. /\ turn'[t].claims = turn[t].claims \/ turn'[t].claims = {}
        /\ \A u \in Turns \ {t} : turn'[u] = turn[u]
    <3>1. CASE HookLooks(t)
      BY <1>0, <3>1 DEF HookLooks, NoTurn
    <3>2. CASE HookClaims(t)
      <4> DEFINE r == [NoTurn EXCEPT !.pc = "redefer", !.hand = deferred]
      <4>1. NoTurn.claims = {} /\ r.claims = {}
        BY DEF NoTurn
      <4>2. turn' = [turn EXCEPT ![t] = NoTurn] \/ turn' = [turn EXCEPT ![t] = r]
        BY <3>2 DEF HookClaims
      <4> HIDE DEF r
      <4> QED
        BY <1>0, <4>1, <4>2
    <3>3. CASE HookDefersAgain(t)
      BY <1>0, <3>3 DEF HookDefersAgain, TurnType
    <3> QED
      BY <1>17, <3>1, <3>2, <3>3
  <2> QED
    BY <1>d, <2>1, <2>2
<1>18. ASSUME \/ TakeEvent \/ \E x \in Processes : CheckSeen(x) \/ MarkConsumed(x) \/ RecordDeferred(x)
              \/ \E d \in Delegations : RouteDelegation(d) \/ Reserve(d)
              \/ \E x \in Processes : ProcessEnds(x)
              \/ Sweep \/ ForgetSeen \/ UNCHANGED vars
       PROVE  RowsInv'
  <2>1. UNCHANGED <<store, local, abandoned, runner, turn>>
    BY <1>18 DEF TakeEvent, CheckSeen, MarkConsumed, RecordDeferred, RouteDelegation, Reserve,
                 ProcessEnds, Sweep, ForgetSeen, vars, lane, threads
  <2> QED
    BY <1>c, <1>d, <2>1
<1>19. ASSUME UserStarts PROVE RowsInv'
  <2>1. UNCHANGED <<store, local, abandoned, runner>>
    BY <1>19 DEF UserStarts, lane
  <2> QED
    BY <1>10, <1>19, <1>d, <2>1 DEF UserStarts
<1>20. ASSUME NEW t \in Turns, Worker(t) \/ Hook(t) PROVE RowsInv'
  BY <1>4, <1>7, <1>8, <1>12, <1>15, <1>16, <1>17, <1>20 DEF Worker, Hook
<1> QED
  BY <1>1, <1>2, <1>3, <1>9, <1>11, <1>13, <1>18, <1>19, <1>20 DEF Next, DrainThread

\* Every step keeps the types of the history.
LEMMA HistoryStep ==
    ASSUME ThreadsInv, HistoryTypeOK, [Next]_vars
    PROVE  HistoryTypeOK'
<1>0. /\ delivered \in [Tasks -> Nat] /\ twice \subseteq Tasks /\ lost \subseteq Tasks
      /\ excused \subseteq Processes /\ deferred \in Seq(Processes)
      /\ Range(deferred) \subseteq Processes /\ Tasks = Processes \cup Delegations
      /\ consumed \subseteq Processes /\ turn \in [Turns -> TurnType]
      /\ \A t \in Turns : turn[t] \in TurnType /\ TurnKnows(turn[t])
  BY RangeInSet DEF ThreadsInv, ThreadsTypeOK, QueuesTypeOK, HistoryTypeOK, TurnsKnow, Tasks
<1>a. ASSUME UNCHANGED history PROVE HistoryTypeOK'
  BY <1>0, <1>a DEF history, HistoryTypeOK
<1>b. ASSUME Excuse PROVE excused' \subseteq Processes
  BY <1>0, <1>b DEF Excuse
<1>c. ASSUME NEW x \in Processes, RecordLate(x) PROVE excused' \subseteq Processes
  BY <1>0, <1>c DEF RecordLate
<1>1. ASSUME NEW x \in Processes, CheckSeen(x) PROVE HistoryTypeOK'
  BY <1>0, <1>1 DEF CheckSeen, HistoryTypeOK
<1>2. ASSUME NEW x \in Processes, RecordDeferred(x) PROVE HistoryTypeOK'
  BY <1>0, <1>2, <1>c DEF RecordDeferred, HistoryTypeOK
<1>3. ASSUME NEW x \in Tasks, Runner(x) PROVE HistoryTypeOK'
  <2>1. CASE StartTurn(x)
    BY <1>0, <2>1 DEF StartTurn, HistoryTypeOK
  <2>2. CASE RefusedForNow(x)
    BY <1>0, <1>b, <2>2 DEF RefusedForNow, HistoryTypeOK
  <2>3. CASE RefusedWhilePaused(x)
    BY <1>0, <1>b, <2>3 DEF RefusedWhilePaused, HistoryTypeOK
  <2>4. CASE Failed(x)
    BY <1>0, <1>b, <2>4 DEF Failed, HistoryTypeOK
  <2>5. CASE DeferAgain(x)
    BY <1>0, <1>c, <2>5 DEF DeferAgain, HistoryTypeOK
  <2>6. CASE AcknowledgeFails(x)
    BY <1>0, <2>6 DEF AcknowledgeFails, HistoryTypeOK
  <2>7. CASE Acknowledge(x) \/ Release(x)
    BY <1>a, <2>7 DEF Acknowledge, Release
  <2> QED
    BY <1>3, <2>1, <2>2, <2>3, <2>4, <2>5, <2>6, <2>7 DEF Runner
<1>4. ASSUME NEW t \in Turns, Worker(t) PROVE HistoryTypeOK'
  <2>1. CASE StopEarly(t)
    <3>1. turn[t].notes \subseteq Tasks
      BY <1>0 DEF TurnType
    <3> QED
      BY <1>0, <2>1, <3>1 DEF StopEarly, HistoryTypeOK
  <2>2. CASE Orphan(t)
    BY <1>0, <2>2 DEF Orphan, HistoryTypeOK
  <2>3. CASE TakeAlong(t)
    <3>1. UNCHANGED <<delivered, lost, excused>>
      BY <2>3 DEF TakeAlong
    <3>2. twice' \subseteq Tasks
      BY <1>0, <2>3 DEF TakeAlong
    <3> QED
      BY <1>0, <3>1, <3>2 DEF HistoryTypeOK
  <2>4. CASE CallAgent(t)
    BY <1>0, <2>4 DEF CallAgent, HistoryTypeOK
  <2> QED
    BY <1>4, <1>a, <2>1, <2>2, <2>3, <2>4 DEF Worker, OpenStream, Notify, EndOfQueue, Accept, Finish
<1>5. ASSUME NEW t \in Turns, Hook(t) PROVE HistoryTypeOK'
  <2>1. CASE HookClaims(t)
    BY <1>0, <2>1 DEF HookClaims, HistoryTypeOK
  <2> QED
    BY <1>5, <1>a, <2>1 DEF Hook, HookLooks, HookDefersAgain, HookStarts
<1>6. ASSUME Crash PROVE HistoryTypeOK'
  <2>1. Reported \subseteq Tasks
    BY <1>0 DEF Reported
  <2>2. UNION {turn[t].notes : t \in Turns} \subseteq Tasks
    BY <1>0 DEF TurnType
  <2> QED
    BY <1>0, <1>6, <2>1, <2>2 DEF Crash, HistoryTypeOK
<1>7. ASSUME \/ TakeEvent \/ UserStarts \/ Sweep \/ ForgetSeen \/ UNCHANGED vars
             \/ \E x \in Processes : MarkConsumed(x) \/ RouteProcess(x) \/ ProcessEnds(x)
             \/ \E d \in Delegations : \/ RouteDelegation(d) \/ Reserve(d) \/ ClaimInBackground(d)
                                       \/ DelegationEnds(d) \/ LeaseExpires(d)
      PROVE  HistoryTypeOK'
  BY <1>a, <1>7 DEF TakeEvent, UserStarts, Sweep, ForgetSeen, vars, MarkConsumed, RouteProcess,
                    ProcessEnds, RouteDelegation, Reserve, ClaimInBackground, DelegationEnds,
                    LeaseExpires
<1> QED
  BY <1>1, <1>2, <1>3, <1>4, <1>5, <1>6, <1>7 DEF Next, DrainThread

\* Everything that is typed, with what the threads know and who holds the claims.
StateInv == ThreadsInv /\ StoreInv /\ HistoryTypeOK

\* The initial states satisfy StateInv.
LEMMA StateInit ==
    Init => StateInv
<1> SUFFICES ASSUME Init PROVE StateInv
  OBVIOUS
<1>1. StoreTypeOK
  <2>1. "running" \in RowStates /\ 0 \in 0..MaxDeliveries
    BY WakeupsAssumption DEF RowStates
  <2>2. /\ row \in [Delegations -> RowStates] /\ attempts \in [Delegations -> 0..MaxDeliveries]
        /\ spent \in [Delegations -> 0..MaxDeliveries]
    BY <2>1 DEF Init
  <2>3. /\ local \subseteq Delegations /\ abandoned \subseteq Delegations
        /\ reserved \in Delegations \cup {NoTask} /\ retry \in BOOLEAN
    BY DEF Init
  <2> QED
    BY <2>2, <2>3 DEF StoreTypeOK
<1>2. ASSUME NEW d \in Delegations PROVE ClaimsAreHeld(d)
  BY <1>2 DEF Init, ClaimsAreHeld, NoTurn, Tasks
<1>3. ASSUME NEW d \in Delegations PROVE AttemptsAreCounted(d)
  BY <1>3, WakeupsAssumption DEF Init, AttemptsAreCounted, Unsettled
<1>4. HistoryTypeOK
  BY DEF Init, HistoryTypeOK
<1> QED
  BY <1>1, <1>2, <1>3, <1>4, ThreadsInit DEF StateInv, StoreInv

\* Every step keeps StateInv.
LEMMA StateStep ==
    ASSUME StateInv, [Next]_vars
    PROVE  StateInv'
<1>1. ThreadsInv' /\ HistoryTypeOK'
  BY ThreadsStep, HistoryStep DEF StateInv
<1>2. RowsInv
  BY DEF StateInv, StoreInv, StoreTypeOK, RowsInv, RowsTypeOK
<1>3. RowsInv'
  BY <1>2, RowsStep DEF StateInv
<1>4. StoreInv'
  BY <1>3, LaneStep DEF StateInv, StoreInv, StoreTypeOK, RowsInv, RowsTypeOK
<1> QED
  BY <1>1, <1>4 DEF StateInv

\* StateInv is an invariant.
LEMMA StateIsKept == Spec => []StateInv
BY StateInit, StateStep, PTL DEF Spec

(***************************************************************************)
(* The type invariant, for any tasks and turns: the attempts of a          *)
(* delegation never pass the limit of the durable store, by any race       *)
(* between claims, leases, releases and restarts.                          *)
(***************************************************************************)
THEOREM TypesAreKept == Spec => []TypeOK
<1>1. StateInv => TypeOK
  BY DEF StateInv, ThreadsInv, StoreInv, TypeOK
<1> QED
  BY <1>1, StateIsKept, PTL

(***************************************************************************)
(* Nothing is dropped.  First what a turn lets go of, and to whom.         *)
(***************************************************************************)
TurnGoesOn(t) ==
    /\ \A x \in turn[t].notes : x \in turn'[t].notes \/ delivered'[x] > 0 \/ x \in lost'
    /\ \A x \in Range(turn[t].hand) :
          x \in Range(turn'[t].hand) \/ x \in Range(deferred') \/ runner'[x] # "none"
    /\ \A d \in Range(turn[t].skipped) : d \in Range(turn'[t].skipped) \/ d \in Range(queue')
    /\ \A d \in turn[t].claims : d \in turn'[t].claims \/ d \in abandoned' \/ row'[d] # "claimed"

\* What was delivered or lost stays so.
LEMMA HistoryGrows ==
    ASSUME StateInv, [Next]_vars
    PROVE  lost \subseteq lost' /\ \A x \in Tasks : delivered'[x] >= delivered[x]
<1>0. delivered \in [Tasks -> Nat]
  BY DEF StateInv, HistoryTypeOK
<1> DEFINE Goal == lost \subseteq lost' /\ \A x \in Tasks : delivered'[x] >= delivered[x]
<1>a. ASSUME UNCHANGED delivered, lost \subseteq lost' PROVE Goal
  BY <1>0, <1>a
<1>1. ASSUME NEW x \in Tasks, StartTurn(x) PROVE Goal
  BY <1>0, <1>1 DEF StartTurn
<1>2. ASSUME NEW t \in Turns, CallAgent(t) PROVE Goal
  BY <1>0, <1>2 DEF CallAgent
<1> HIDE DEF Goal
<1>3. ASSUME NEW x \in Tasks, Runner(x) PROVE Goal
  BY <1>a, <1>1, <1>3
  DEF Runner, RefusedForNow, RefusedWhilePaused, Failed, DeferAgain, Acknowledge,
      AcknowledgeFails, Release, history
<1>4. ASSUME NEW t \in Turns, Worker(t) \/ Hook(t) PROVE Goal
  BY <1>a, <1>2, <1>4
  DEF Worker, Hook, OpenStream, TakeAlong, Notify, EndOfQueue, Accept, Finish, StopEarly, Orphan,
      HookLooks, HookClaims, HookDefersAgain, HookStarts, history
<1>5. ASSUME DrainThread PROVE Goal
  BY <1>a, <1>5
  DEF DrainThread, TakeEvent, CheckSeen, MarkConsumed, RouteProcess, RecordDeferred,
      RouteDelegation, Reserve, ClaimInBackground, history
<1>6. ASSUME \/ UserStarts \/ Sweep \/ ForgetSeen \/ Crash \/ UNCHANGED vars
             \/ \E x \in Processes : ProcessEnds(x)
             \/ \E d \in Delegations : DelegationEnds(d) \/ LeaseExpires(d)
      PROVE  Goal
  BY <1>a, <1>6
  DEF UserStarts, Sweep, ForgetSeen, Crash, vars, ProcessEnds, DelegationEnds, LeaseExpires, history
<1> QED
  BY <1>3, <1>4, <1>5, <1>6 DEF Next, Goal

\* Every step but a restart hands on what a turn has.
LEMMA TurnsGoOn ==
    ASSUME StateInv, [Next]_vars, ~Crash, NEW t \in Turns
    PROVE  TurnGoesOn(t)
<1>0. /\ turn \in [Turns -> TurnType] /\ \A u \in Turns : turn[u] \in TurnType /\ TurnKnows(turn[u])
      /\ ThreadsTypeOK /\ runner \in [Tasks -> RunnerPCs] /\ delivered \in [Tasks -> Nat]
      /\ row \in [Delegations -> RowStates]
      /\ deferred \in Seq(Processes) /\ Tasks = Processes \cup Delegations
  BY DEF StateInv, ThreadsInv, ThreadsTypeOK, QueuesTypeOK, HistoryTypeOK, StoreInv, StoreTypeOK,
         TurnsKnow, Tasks
<1>a. ASSUME turn'[t] = turn[t] PROVE TurnGoesOn(t)
  BY <1>a DEF TurnGoesOn
<1>b. ASSUME turn[t].notes = {}, turn[t].claims = {}, turn[t].skipped = <<>>, turn[t].hand = <<>>
      PROVE  TurnGoesOn(t)
  BY <1>b, EmptyRange DEF TurnGoesOn
<1>c. ASSUME turn[t].notes \subseteq turn'[t].notes, turn[t].claims \subseteq turn'[t].claims,
             Range(turn[t].skipped) \subseteq Range(turn'[t].skipped), turn'[t].hand = turn[t].hand
      PROVE  TurnGoesOn(t)
  BY <1>c DEF TurnGoesOn
<1>1. ASSUME NEW w \in Tasks \cup {User}, Admit(w) PROVE TurnGoesOn(t)
  <2>1. PICK u \in Turns : turn[u] = NoTurn /\ \A v \in Turns \ {u} : turn'[v] = turn[v]
    BY <1>0, <1>1, Admitted
  <2>2. CASE u = t
    BY <1>b, <2>1, <2>2 DEF NoTurn
  <2>3. CASE u # t
    BY <1>a, <2>1, <2>3
  <2> QED
    BY <2>2, <2>3
<1>2. ASSUME NEW u \in Turns, Worker(u) \/ Hook(u), u # t PROVE TurnGoesOn(t)
  <2>1. turn'[t] = turn[t]
    BY <1>0, <1>2
    DEF Worker, Hook, OpenStream, TakeAlong, Notify, EndOfQueue, Accept, CallAgent, Finish, Close,
        StopEarly, Orphan, HookLooks, HookClaims, HookDefersAgain, HookStarts
  <2> QED
    BY <1>a, <2>1
<1>3. ASSUME OpenStream(t) \/ Orphan(t) PROVE TurnGoesOn(t)
  <2>1. /\ turn'[t].notes = turn[t].notes /\ turn'[t].claims = turn[t].claims
        /\ turn'[t].skipped = turn[t].skipped /\ turn'[t].hand = turn[t].hand
    BY <1>0, <1>3 DEF OpenStream, Orphan, TurnType
  <2> QED
    BY <1>c, <2>1
<1>4. ASSUME TakeAlong(t) PROVE TurnGoesOn(t)
  <2>1. /\ turn[t].notes \subseteq turn'[t].notes /\ turn[t].claims \subseteq turn'[t].claims
        /\ Range(turn[t].skipped) \subseteq Range(turn'[t].skipped) /\ turn'[t].hand = turn[t].hand
    <3>1. CASE turn' = [turn EXCEPT ![t].pc = "draining"]
      BY <1>0, <3>1 DEF TurnType
    <3>2. CASE turn' = [turn EXCEPT ![t].pc = "draining", ![t].task = Head(queue)]
      BY <1>0, <3>2 DEF TurnType
    <3>3. CASE turn' = [turn EXCEPT ![t].pc = "draining", ![t].claims = @ \cup {Head(queue)}]
      BY <1>0, <3>3 DEF TurnType
    <3>4. CASE /\ Head(queue) \in Delegations
               /\ turn' = [turn EXCEPT ![t].pc = "draining", ![t].skipped = Append(@, Head(queue))]
      <4>1. /\ turn[t].skipped \in Seq(Delegations)
            /\ turn'[t].skipped = Append(turn[t].skipped, Head(queue))
            /\ turn'[t].notes = turn[t].notes /\ turn'[t].claims = turn[t].claims
            /\ turn'[t].hand = turn[t].hand
        BY <1>0, <3>4 DEF TurnType
      <4>2. Range(turn'[t].skipped) = Range(turn[t].skipped) \cup {Head(queue)}
        <5> DEFINE q == turn[t].skipped
                   x == Head(queue)
        <5>1. q \in Seq(Delegations) /\ x \in Delegations /\ turn'[t].skipped = Append(q, x)
          BY <3>4, <4>1
        <5> HIDE DEF q, x
        <5>2. Range(turn'[t].skipped) = Range(q) \cup {x}
          BY <5>1, RangeOfAppend
        <5> QED
          BY <5>2 DEF q, x
      <4> QED
        BY <4>1, <4>2
    <3> QED
      BY <1>4, <3>1, <3>2, <3>3, <3>4 DEF TakeAlong
  <2> QED
    BY <1>c, <2>1
<1>5. ASSUME Notify(t) PROVE TurnGoesOn(t)
  <2>1. /\ turn'[t].notes = turn[t].notes \cup {turn[t].task} /\ turn'[t].claims = turn[t].claims
        /\ turn'[t].skipped = turn[t].skipped /\ turn'[t].hand = turn[t].hand
    BY <1>0, <1>5 DEF Notify, TurnType
  <2> QED
    BY <1>c, <2>1
<1>6. ASSUME EndOfQueue(t) PROVE TurnGoesOn(t)
  <2>1. /\ turn'[t].notes = turn[t].notes /\ turn'[t].claims = turn[t].claims
        /\ turn'[t].hand = turn[t].hand
    BY <1>0, <1>6 DEF EndOfQueue, TurnType
  <2>2. queue' = turn[t].skipped
    BY <1>6 DEF EndOfQueue
  <2> QED
    BY <2>1, <2>2 DEF TurnGoesOn
<1>7. ASSUME Accept(t) PROVE TurnGoesOn(t)
  <2>1. PICK bad \in {{}} \cup {{d} : d \in turn[t].claims} :
           /\ row' = [d \in Delegations |-> IF d \in bad THEN Released(d)
                                            ELSE IF d \in turn[t].claims THEN "delivered"
                                            ELSE row[d]]
           /\ turn' = [turn EXCEPT ![t].pc = "accepted", ![t].claims = {},
                                   ![t].notes = @ \cup (turn[t].claims \ bad)]
    BY <1>7 DEF Accept
  <2>2. /\ turn[t].notes \subseteq turn'[t].notes
        /\ turn'[t].skipped = turn[t].skipped /\ turn'[t].hand = turn[t].hand
    BY <1>0, <2>1 DEF TurnType
  <2>3. \A d \in turn[t].claims : row'[d] # "claimed"
    BY <1>0, <2>1 DEF TurnType, Released
  <2> QED
    BY <2>2, <2>3 DEF TurnGoesOn
<1>8. ASSUME CallAgent(t) PROVE TurnGoesOn(t)
  <2>1. /\ turn'[t].claims = turn[t].claims
        /\ turn'[t].skipped = turn[t].skipped /\ turn'[t].hand = turn[t].hand
    BY <1>0, <1>8 DEF CallAgent, TurnType
  <2>2. \A x \in turn[t].notes : delivered'[x] > 0
    BY <1>0, <1>8 DEF CallAgent, TurnType
  <2> QED
    BY <2>1, <2>2 DEF TurnGoesOn
<1>9. ASSUME StopEarly(t) PROVE TurnGoesOn(t)
  <2>1. turn[t].skipped = <<>> /\ turn[t].hand = <<>>
    BY <1>0, <1>9 DEF StopEarly, TurnKnows
  <2>2. turn[t].notes \subseteq lost' /\ turn[t].claims \subseteq abandoned'
    BY <1>9 DEF StopEarly
  <2> QED
    BY <2>1, <2>2, EmptyRange DEF TurnGoesOn
<1>10. ASSUME Finish(t) \/ HookLooks(t) \/ HookClaims(t) PROVE TurnGoesOn(t)
  <2>1. turn[t].pc \in {"working", "orphaned", "closed", "hook"}
    BY <1>10 DEF Finish, HookLooks, HookClaims
  <2>2. turn[t].notes = {} /\ turn[t].claims = {} /\ turn[t].skipped = <<>> /\ turn[t].hand = <<>>
    BY <1>0, <2>1 DEF TurnKnows
  <2> QED
    BY <1>b, <2>2
<1>11. ASSUME HookDefersAgain(t) PROVE TurnGoesOn(t)
  <2> DEFINE hand == <<Head(turn[t].hand)>> \o Tail(Leftover(t))
             x == Head(Leftover(t))
  <2>1. x \in Processes /\ Range(turn[t].hand) = Range(hand) \cup {x}
    BY <1>0, <1>11, HandStep
  <2>2. turn' = [turn EXCEPT ![t].hand = hand] /\ deferred' = Record(x)
    BY <1>11 DEF HookDefersAgain
  <2> HIDE DEF hand, x
  <2>3. /\ turn'[t].notes = turn[t].notes /\ turn'[t].claims = turn[t].claims
        /\ turn'[t].skipped = turn[t].skipped /\ turn'[t].hand = hand
    BY <1>0, <2>2 DEF TurnType
  <2>4. x \in Range(deferred')
    BY <1>0, <2>1, <2>2, Recorded
  <2> QED
    BY <2>1, <2>3, <2>4, EmptyRange DEF TurnGoesOn
<1>12. ASSUME HookStarts(t) PROVE TurnGoesOn(t)
  <2>1. /\ turn[t].pc = "redefer" /\ turn[t].hand \in Seq(Processes) /\ turn[t].hand # <<>>
        /\ turn[t].notes = {} /\ turn[t].claims = {} /\ turn[t].skipped = <<>>
    BY <1>0, <1>12 DEF HookStarts, TurnType, TurnKnows
  <2>2. Tail(turn[t].hand) = <<>>
    BY <1>12 DEF HookStarts, Leftover
  <2>3. Head(turn[t].hand) \in Processes /\ Range(turn[t].hand) = {Head(turn[t].hand)}
    <3> DEFINE h == turn[t].hand
    <3>1. h \in Seq(Processes) /\ h # <<>> /\ Tail(h) = <<>>
      BY <2>1, <2>2
    <3> HIDE DEF h
    <3>2. Head(h) \in Processes /\ Range(h) = {Head(h)} \cup Range(Tail(h))
      BY <3>1, RangeOfTail
    <3>3. Range(h) = {Head(h)}
      BY <3>1, <3>2, EmptyRange
    <3> QED
      BY <3>2, <3>3 DEF h
  <2>4. runner'[Head(turn[t].hand)] = "starting"
    BY <1>0, <1>12, <2>3 DEF HookStarts
  <2> QED
    BY <2>1, <2>3, <2>4, EmptyRange DEF TurnGoesOn
<1>13. ASSUME NEW x \in Tasks, Runner(x) PROVE TurnGoesOn(t)
  <2>1. CASE StartTurn(x)
    BY <1>1, <2>1 DEF StartTurn
  <2>2. CASE ~StartTurn(x)
    <3>1. UNCHANGED turn
      BY <1>13, <2>2 DEF Runner, RefusedForNow, RefusedWhilePaused, Failed, DeferAgain, Acknowledge,
                         AcknowledgeFails, Release
    <3> QED
      BY <1>a, <3>1
  <2> QED
    BY <2>1, <2>2
<1>14. ASSUME UserStarts PROVE TurnGoesOn(t)
  BY <1>1, <1>14 DEF UserStarts
<1>15. ASSUME \/ DrainThread \/ Sweep \/ ForgetSeen \/ UNCHANGED vars
              \/ \E x \in Processes : ProcessEnds(x)
              \/ \E d \in Delegations : DelegationEnds(d) \/ LeaseExpires(d)
       PROVE  TurnGoesOn(t)
  <2>1. UNCHANGED turn
    BY <1>15
    DEF DrainThread, TakeEvent, CheckSeen, MarkConsumed, RouteProcess, RecordDeferred,
        RouteDelegation, Reserve, ClaimInBackground, Sweep, ForgetSeen, ProcessEnds, DelegationEnds,
        LeaseExpires, vars, threads
  <2> QED
    BY <1>a, <2>1
<1>16. ASSUME Worker(t) \/ Hook(t) PROVE TurnGoesOn(t)
  BY <1>3, <1>4, <1>5, <1>6, <1>7, <1>8, <1>9, <1>10, <1>11, <1>12, <1>16 DEF Worker, Hook
<1> QED
  BY <1>2, <1>13, <1>14, <1>15, <1>16 DEF Next

\* What the drain thread, the threads that start turns and the deferred wakeups let go of.
ProcessGoesOn(x) ==
    /\ drain.task = x /\ drain.pc # "check" =>
          (drain'.task = x /\ drain'.pc # "check") \/ runner'[x] # "none" \/ x \in Range(deferred')
    /\ runner[x] # "none" =>
          runner'[x] # "none" \/ x \in Range(deferred') \/ delivered'[x] > 0 \/ x \in lost'
    /\ x \in Range(deferred) =>
          x \in Range(deferred') \/ \E t \in Turns : x \in Range(turn'[t].hand)
    /\ x \in consumed' \ consumed =>
          (drain'.task = x /\ drain'.pc # "check") \/ \E t \in Turns : x \in turn'[t].notes

\* Every step but a restart hands on a process.
LEMMA ProcessesGoOn ==
    ASSUME StateInv, [Next]_vars, ~Crash, NEW x \in Processes
    PROVE  ProcessGoesOn(x)
<1>0. /\ turn \in [Turns -> TurnType] /\ \A u \in Turns : turn[u] \in TurnType
      /\ ThreadsTypeOK /\ runner \in [Tasks -> RunnerPCs] /\ delivered \in [Tasks -> Nat]
      /\ drain \in [pc : DrainPCs, task : Tasks \cup {NoTask}] /\ DrainKnows /\ RunnersKnow
      /\ deferred \in Seq(Processes) /\ Tasks = Processes \cup Delegations /\ TurnsKnow
      /\ Processes \cap Delegations = {} /\ NoTask \notin Tasks /\ x \in Tasks
  BY NoTaskAssumption, WakeupsAssumption
  DEF StateInv, ThreadsInv, ThreadsTypeOK, QueuesTypeOK, HistoryTypeOK, Tasks
<1> DEFINE Drained == drain.task = x /\ drain.pc # "check" =>
               (drain'.task = x /\ drain'.pc # "check") \/ runner'[x] # "none" \/ x \in Range(deferred')
           Run == runner[x] # "none" =>
               runner'[x] # "none" \/ x \in Range(deferred') \/ delivered'[x] > 0 \/ x \in lost'
           Deferred == x \in Range(deferred) =>
               x \in Range(deferred') \/ \E t \in Turns : x \in Range(turn'[t].hand)
           Consumed == x \in consumed' \ consumed =>
               (drain'.task = x /\ drain'.pc # "check") \/ \E t \in Turns : x \in turn'[t].notes
<1>1. Drained
  <2>1. CASE UNCHANGED drain
    BY <2>1
  <2>2. ASSUME NEW y \in Processes,
               CheckSeen(y) \/ MarkConsumed(y) \/ RouteProcess(y) \/ RecordDeferred(y)
        PROVE  Drained
    <3>1. CASE CheckSeen(y)
      BY <1>0, <3>1 DEF CheckSeen
    <3>2. CASE MarkConsumed(y)
      BY <1>0, <3>2 DEF MarkConsumed
    <3>3. CASE RouteProcess(y)
      BY <1>0, <3>3 DEF RouteProcess
    <3>4. CASE RecordDeferred(y)
      BY <1>0, <3>4, Recorded DEF RecordDeferred, RecordLate
    <3> QED
      BY <2>2, <3>1, <3>2, <3>3, <3>4
  <2>3. ASSUME NEW d \in Delegations, RouteDelegation(d) \/ Reserve(d) \/ ClaimInBackground(d)
        PROVE  Drained
    BY <1>0, <2>3 DEF RouteDelegation, Reserve, ClaimInBackground
  <2>4. CASE TakeEvent
    BY <1>0, <2>4 DEF TakeEvent, DrainKnows
  <2> HIDE DEF Drained
  <2>5. CASE \E y \in Tasks : Runner(y)
    BY <2>1, <2>5
    DEF Runner, StartTurn, RefusedForNow, RefusedWhilePaused, Failed, DeferAgain,
        Acknowledge, AcknowledgeFails, Release
  <2>6. CASE \E t \in Turns : Worker(t) \/ Hook(t)
    BY <2>1, <2>6
    DEF Worker, Hook, OpenStream, TakeAlong, Notify, EndOfQueue, Accept, CallAgent, Finish,
        StopEarly, Orphan, HookLooks, HookClaims, HookDefersAgain, HookStarts
  <2>7. CASE \/ UserStarts \/ Sweep \/ ForgetSeen \/ UNCHANGED vars
             \/ \E y \in Processes : ProcessEnds(y)
             \/ \E d \in Delegations : DelegationEnds(d) \/ LeaseExpires(d)
    BY <2>1, <2>7
    DEF UserStarts, Sweep, ForgetSeen, ProcessEnds, DelegationEnds, LeaseExpires, vars, threads
  <2> QED
    BY <2>2, <2>3, <2>4, <2>5, <2>6, <2>7 DEF Next, DrainThread
<1>2. Run
  <2>1. CASE runner'[x] = runner[x]
    BY <2>1
  <2>2. ASSUME NEW y \in Tasks, Runner(y) PROVE Run
    <3>1. CASE x # y
      <4>1. runner'[x] = runner[x]
        BY <1>0, <2>2, <3>1
        DEF Runner, StartTurn, RefusedForNow, RefusedWhilePaused, Failed, DeferAgain,
            Acknowledge, AcknowledgeFails, Release
      <4> QED
        BY <4>1
    <3>2. CASE x = y
      <4>1. CASE StartTurn(y)
        BY <1>0, <3>2, <4>1 DEF StartTurn
      <4>2. CASE RefusedForNow(y)
        BY <1>0, <3>2, <4>2 DEF RefusedForNow
      <4>3. CASE RefusedWhilePaused(y)
        BY <1>0, <3>2, <4>3 DEF RefusedWhilePaused
      <4>4. CASE Failed(y)
        BY <1>0, <3>2, <4>4 DEF Failed
      <4>5. CASE DeferAgain(y)
        BY <1>0, <3>2, <4>5, Recorded DEF DeferAgain, RecordLate
      <4>6. CASE Acknowledge(y) \/ AcknowledgeFails(y) \/ Release(y)
        BY <1>0, <3>2, <4>6 DEF Acknowledge, AcknowledgeFails, Release, RunnersKnow
      <4> QED
        BY <2>2, <4>1, <4>2, <4>3, <4>4, <4>5, <4>6 DEF Runner
    <3> QED
      BY <3>1, <3>2
  <2>3. ASSUME NEW y \in Tasks, runner' = [runner EXCEPT ![y] = "starting"] PROVE Run
    BY <1>0, <2>3
  <2>4. ASSUME NEW t \in Turns, HookStarts(t) PROVE Run
    <3>1. turn[t].hand \in Seq(Processes) /\ turn[t].hand # <<>>
      BY <1>0, <2>4 DEF HookStarts, TurnType, TurnsKnow, TurnKnows
    <3>2. Head(turn[t].hand) \in Tasks
      BY <1>0, <3>1
    <3> QED
      BY <2>3, <2>4, <3>2 DEF HookStarts
  <2> HIDE DEF Run
  <2>5. CASE DrainThread
    BY <1>0, <2>1, <2>3, <2>5
    DEF DrainThread, TakeEvent, CheckSeen, MarkConsumed, RouteProcess, RecordDeferred,
        RouteDelegation, Reserve, ClaimInBackground
  <2>6. CASE \E t \in Turns : Worker(t) \/ Hook(t)
    BY <2>1, <2>4, <2>6
    DEF Worker, Hook, OpenStream, TakeAlong, Notify, EndOfQueue, Accept, CallAgent, Finish,
        StopEarly, Orphan, HookLooks, HookClaims, HookDefersAgain
  <2>7. CASE \/ UserStarts \/ Sweep \/ ForgetSeen \/ UNCHANGED vars
             \/ \E y \in Processes : ProcessEnds(y)
             \/ \E d \in Delegations : DelegationEnds(d) \/ LeaseExpires(d)
    BY <2>1, <2>7
    DEF UserStarts, Sweep, ForgetSeen, ProcessEnds, DelegationEnds, LeaseExpires, vars, threads
  <2> QED
    BY <2>2, <2>5, <2>6, <2>7 DEF Next
<1>3. Deferred
  <2>1. CASE UNCHANGED deferred
    BY <2>1
  <2>2. ASSUME NEW y \in Processes, deferred' = Record(y) PROVE Deferred
    BY <1>0, <2>2, Recorded
  <2>3. ASSUME NEW t \in Turns, HookClaims(t) PROVE Deferred
    <3>1. CASE deferred = <<>>
      BY <3>1, EmptyRange
    <3>2. CASE deferred # <<>>
      <4> DEFINE r == [NoTurn EXCEPT !.pc = "redefer", !.hand = deferred]
      <4>1. turn' = [turn EXCEPT ![t] = r]
        BY <2>3, <3>2 DEF HookClaims
      <4>2. r.hand = deferred
        BY DEF NoTurn
      <4> HIDE DEF r
      <4>3. turn'[t].hand = deferred
        BY <1>0, <4>1, <4>2
      <4> QED
        BY <4>3
    <3> QED
      BY <3>1, <3>2
  <2>4. ASSUME NEW t \in Turns, HookDefersAgain(t) PROVE Deferred
    <3>1. Head(Leftover(t)) \in Processes
      BY <1>0, <2>4, HandStep DEF TurnsKnow
    <3> QED
      BY <2>2, <2>4, <3>1 DEF HookDefersAgain
  <2> HIDE DEF Deferred
  <2>5. CASE DrainThread
    BY <2>1, <2>2, <2>5
    DEF DrainThread, TakeEvent, CheckSeen, MarkConsumed, RouteProcess, RecordDeferred, RecordLate,
        RouteDelegation, Reserve, ClaimInBackground
  <2>6. CASE \E y \in Tasks : Runner(y)
    BY <2>1, <2>2, <2>6
    DEF Runner, StartTurn, RefusedForNow, RefusedWhilePaused, Failed, DeferAgain, RecordLate,
        Acknowledge, AcknowledgeFails, Release
  <2>7. CASE \E t \in Turns : Worker(t) \/ Hook(t)
    BY <2>1, <2>3, <2>4, <2>7
    DEF Worker, Hook, OpenStream, TakeAlong, Notify, EndOfQueue, Accept, CallAgent, Finish,
        StopEarly, Orphan, HookLooks, HookStarts
  <2>8. CASE \/ UserStarts \/ Sweep \/ ForgetSeen \/ UNCHANGED vars
             \/ \E y \in Processes : ProcessEnds(y)
             \/ \E d \in Delegations : DelegationEnds(d) \/ LeaseExpires(d)
    BY <2>1, <2>8
    DEF UserStarts, Sweep, ForgetSeen, ProcessEnds, DelegationEnds, LeaseExpires, vars
  <2> QED
    BY <2>5, <2>6, <2>7, <2>8 DEF Next
<1>4. Consumed
  <2>1. CASE UNCHANGED consumed
    BY <2>1
  <2>2. ASSUME NEW y \in Processes, MarkConsumed(y) PROVE Consumed
    BY <1>0, <2>2 DEF MarkConsumed
  <2>3. ASSUME NEW t \in Turns, Notify(t) PROVE Consumed
    <3>1. turn'[t].notes = turn[t].notes \cup {turn[t].task} /\ consumed' = consumed \cup {turn[t].task}
      BY <1>0, <2>3 DEF Notify, TurnType
    <3> QED
      BY <3>1
  <2> HIDE DEF Consumed
  <2>5. CASE DrainThread
    BY <2>1, <2>2, <2>5
    DEF DrainThread, TakeEvent, CheckSeen, RouteProcess, RecordDeferred,
        RouteDelegation, Reserve, ClaimInBackground, marks
  <2>6. CASE \E y \in Tasks : Runner(y)
    BY <2>1, <2>6
    DEF Runner, StartTurn, RefusedForNow, RefusedWhilePaused, Failed, DeferAgain,
        Acknowledge, AcknowledgeFails, Release, marks
  <2>7. CASE \E t \in Turns : Worker(t) \/ Hook(t)
    BY <2>1, <2>3, <2>7
    DEF Worker, Hook, OpenStream, TakeAlong, EndOfQueue, Accept, CallAgent, Finish,
        StopEarly, Orphan, HookLooks, HookClaims, HookDefersAgain, HookStarts, marks
  <2>8. CASE \/ UserStarts \/ Sweep \/ ForgetSeen \/ UNCHANGED vars
             \/ \E y \in Processes : ProcessEnds(y)
             \/ \E d \in Delegations : DelegationEnds(d) \/ LeaseExpires(d)
    BY <2>1, <2>8
    DEF UserStarts, Sweep, ForgetSeen, ProcessEnds, DelegationEnds, LeaseExpires, vars, marks
  <2> QED
    BY <2>5, <2>6, <2>7, <2>8 DEF Next
<1> QED
  BY <1>1, <1>2, <1>3, <1>4 DEF ProcessGoesOn

\* Every step keeps a consumed process in hand, delivered or lost.
LEMMA ProcessKeptStep ==
    ASSUME StateInv, KeptInv, [Next]_vars, NEW x \in Processes
    PROVE  ProcessIsKept(x)'
<1>0. ProcessIsKept(x) /\ delivered \in [Tasks -> Nat] /\ x \in Tasks
  BY DEF KeptInv, StateInv, HistoryTypeOK, Tasks
<1>1. CASE Crash
  BY <1>1 DEF Crash, ProcessIsKept
<1>2. CASE ~Crash
  <2>1. ProcessGoesOn(x) /\ (\A t \in Turns : TurnGoesOn(t))
    BY <1>2, ProcessesGoOn, TurnsGoOn
  <2>2. lost \subseteq lost' /\ (delivered[x] > 0 => delivered'[x] > 0)
    <3>1. delivered'[x] >= delivered[x] /\ lost \subseteq lost'
      BY <1>0, HistoryGrows
    <3>2. delivered' \in [Tasks -> Nat]
      BY StateStep DEF StateInv, HistoryTypeOK
    <3> QED
      BY <1>0, <3>1, <3>2
  <2> SUFFICES ASSUME x \in consumed'
               PROVE  InHands(x)' \/ delivered'[x] > 0 \/ x \in lost'
    BY DEF ProcessIsKept
  <2>3. CASE x \notin consumed
    BY <2>1, <2>3 DEF ProcessGoesOn, InHands
  <2>4. CASE InHands(x)
    <3>1. CASE drain.task = x /\ drain.pc # "check"
      BY <2>1, <3>1 DEF ProcessGoesOn, InHands
    <3>2. CASE runner[x] # "none"
      BY <2>1, <3>2 DEF ProcessGoesOn, InHands
    <3>3. CASE x \in Range(deferred)
      BY <2>1, <3>3 DEF ProcessGoesOn, InHands
    <3>4. CASE \E t \in Turns : x \in Range(turn[t].hand)
      BY <2>1, <3>4 DEF TurnGoesOn, InHands
    <3>5. CASE \E t \in Turns : x \in turn[t].notes
      BY <2>1, <3>5 DEF TurnGoesOn, InHands
    <3> QED
      BY <2>4, <3>1, <3>2, <3>3, <3>4, <3>5 DEF InHands
  <2> QED
    BY <1>0, <2>2, <2>3, <2>4 DEF ProcessIsKept
<1> QED
  BY <1>1, <1>2

\* How a row moves, and what follows its delegation.
RowMoves(d) ==
    \/ row'[d] = row[d]
    \/ row'[d] = "pending" /\ (d \in Range(queue') \/ retry' \/ d \in abandoned')
    \/ row'[d] = "claimed" /\ (runner'[d] # "none" \/ \E t \in Turns : d \in turn'[t].claims)
    \/ row'[d] = "delivered" /\ (runner[d] = "accepted" \/ \E t \in Turns : d \in turn'[t].notes)
    \/ row'[d] = "dropped"

\* Every step moves a row as RowMoves says.
LEMMA RowsMove ==
    ASSUME StateInv, [Next]_vars, ~Crash, NEW d \in Delegations
    PROVE  RowMoves(d)
<1>0. /\ turn \in [Turns -> TurnType] /\ \A u \in Turns : turn[u] \in TurnType
      /\ runner \in [Tasks -> RunnerPCs] /\ row \in [Delegations -> RowStates] /\ retry \in BOOLEAN
      /\ queue \in Seq(Tasks) /\ Delegations \subseteq Tasks /\ RunnersKnow
      /\ Processes \cap Delegations = {}
  BY WakeupsAssumption
  DEF StateInv, ThreadsInv, ThreadsTypeOK, QueuesTypeOK, StoreInv, StoreTypeOK, Tasks
<1>a. ASSUME row'[d] = row[d] PROVE RowMoves(d)
  BY <1>a DEF RowMoves
<1>b. ASSUME UNCHANGED row PROVE RowMoves(d)
  BY <1>b DEF RowMoves
<1>1. ASSUME NEW e \in Delegations, DelegationEnds(e) PROVE RowMoves(d)
  <2>1. e \in Range(queue')
    BY <1>0, <1>1, Enqueued DEF DelegationEnds
  <2> QED
    BY <1>0, <1>1, <2>1 DEF DelegationEnds, RowMoves
<1>2. ASSUME NEW e \in Delegations, LeaseExpires(e) PROVE RowMoves(d)
  BY <1>0, <1>2 DEF LeaseExpires, lane, Released, RowMoves
<1>3. ASSUME NEW e \in Delegations, ClaimInBackground(e) PROVE RowMoves(d)
  <2>1. \/ UNCHANGED row
        \/ /\ row' = [row EXCEPT ![e] = "claimed"] /\ runner' = [runner EXCEPT ![e] = "starting"]
    BY <1>3 DEF ClaimInBackground, Claim
  <2> QED
    BY <1>0, <2>1 DEF RowMoves
<1>4. ASSUME NEW x \in Tasks, Runner(x) PROVE RowMoves(d)
  <2>1. CASE Acknowledge(x)
    <3>1. row' = [row EXCEPT ![x] = "delivered"] /\ runner[x] = "accepted"
      BY <2>1 DEF Acknowledge
    <3> QED
      BY <1>0, <3>1 DEF RowMoves
  <2>2. CASE Release(x)
    <3> DEFINE r == IF Refunded(x) THEN "pending" ELSE Released(x)
    <3>1. row' = [row EXCEPT ![x] = r] /\ RetryUnclaimed(x, r) /\ r \in {"pending", "dropped"}
      BY <2>2 DEF Release, Released
    <3> HIDE DEF r
    <3>2. r = "pending" => retry'
      BY <3>1 DEF RetryUnclaimed
    <3> QED
      BY <1>0, <3>1, <3>2 DEF RowMoves
  <2>3. CASE ~Acknowledge(x) /\ ~Release(x)
    BY <1>4, <1>b, <2>3
    DEF Runner, StartTurn, RefusedForNow, RefusedWhilePaused, Failed, DeferAgain,
        AcknowledgeFails, store
  <2> QED
    BY <2>1, <2>2, <2>3
<1>5. ASSUME NEW t \in Turns, TakeAlong(t) PROVE RowMoves(d)
  <2>1. CASE UNCHANGED row
    BY <1>b, <2>1
  <2>2. ASSUME NEW e \in Delegations, row' = [row EXCEPT ![e] = "claimed"],
               turn' = [turn EXCEPT ![t].pc = "draining", ![t].claims = @ \cup {e}]
        PROVE  RowMoves(d)
    <3>1. turn'[t].claims = turn[t].claims \cup {e}
      BY <1>0, <2>2 DEF TurnType
    <3> QED
      BY <1>0, <2>2, <3>1 DEF RowMoves
  <2> QED
    BY <1>5, <2>1, <2>2 DEF TakeAlong, Claim, store
<1>6. ASSUME NEW t \in Turns, Accept(t) PROVE RowMoves(d)
  <2>1. PICK bad \in {{}} \cup {{e} : e \in turn[t].claims} :
           /\ row' = [e \in Delegations |-> IF e \in bad THEN Released(e)
                                            ELSE IF e \in turn[t].claims THEN "delivered"
                                            ELSE row[e]]
           /\ \/ bad = {} /\ UNCHANGED queue
              \/ \E e \in bad : queue' = Enqueue(e)
           /\ turn' = [turn EXCEPT ![t].pc = "accepted", ![t].claims = {},
                                   ![t].notes = @ \cup (turn[t].claims \ bad)]
    BY <1>6 DEF Accept
  <2>2. turn'[t].notes = turn[t].notes \cup (turn[t].claims \ bad)
    BY <1>0, <2>1 DEF TurnType
  <2>3. CASE d \in bad
    <3>1. bad = {d}
      BY <2>1, <2>3
    <3>2. queue' = Enqueue(d)
      BY <2>1, <3>1
    <3>3. d \in Range(queue')
      BY <1>0, <3>2, Enqueued
    <3> QED
      BY <2>1, <2>3, <3>3 DEF RowMoves, Released
  <2>4. CASE d \in turn[t].claims \ bad
    BY <2>1, <2>2, <2>4 DEF RowMoves
  <2>5. CASE d \notin turn[t].claims /\ d \notin bad
    BY <2>1, <2>5 DEF RowMoves
  <2> QED
    BY <2>3, <2>4, <2>5
<1>7. ASSUME NEW t \in Turns, Worker(t) \/ Hook(t) PROVE RowMoves(d)
  BY <1>5, <1>6, <1>7, <1>b
  DEF Worker, Hook, OpenStream, Notify, EndOfQueue, CallAgent, Finish, StopEarly, Orphan,
      HookLooks, HookClaims, HookDefersAgain, HookStarts, store
<1>8. ASSUME \/ TakeEvent \/ UserStarts \/ Sweep \/ ForgetSeen \/ UNCHANGED vars
             \/ \E x \in Processes : \/ CheckSeen(x) \/ MarkConsumed(x) \/ RouteProcess(x)
                                     \/ RecordDeferred(x) \/ ProcessEnds(x)
             \/ \E e \in Delegations : RouteDelegation(e) \/ Reserve(e)
      PROVE  RowMoves(d)
  BY <1>8, <1>b
  DEF TakeEvent, UserStarts, Sweep, ForgetSeen, vars, CheckSeen, MarkConsumed, RouteProcess,
      RecordDeferred, ProcessEnds, RouteDelegation, Reserve, store
<1> QED
  BY <1>1, <1>2, <1>3, <1>4, <1>7, <1>8 DEF Next, DrainThread

DelegationGoesOn(d) ==
    /\ row[d] = "pending" /\ row'[d] = "pending" =>
          /\ d \in Range(queue) => \/ d \in Range(queue') \/ retry' \/ drain'.task = d
                                   \/ \E t \in Turns : d \in Range(turn'[t].skipped)
          /\ retry => retry' \/ d \in Range(queue')
          /\ drain.task = d => drain'.task = d \/ retry' \/ d \in Range(queue')
    /\ runner[d] # "none" => runner'[d] # "none" \/ row'[d] # "claimed"
    /\ runner'[d] = "accepted" => runner[d] = "accepted" \/ delivered'[d] > 0
    /\ abandoned \subseteq abandoned'

\* The event of a delegation that is pending.
LEMMA EventsGoOn ==
    ASSUME StateInv, [Next]_vars, ~Crash, NEW d \in Delegations,
           row[d] = "pending", row'[d] = "pending", d \in Range(queue)
    PROVE  \/ d \in Range(queue') \/ retry' \/ drain'.task = d
           \/ \E t \in Turns : d \in Range(turn'[t].skipped)
<1>0. /\ turn \in [Turns -> TurnType] /\ \A u \in Turns : turn[u] \in TurnType
      /\ row \in [Delegations -> RowStates] /\ queue \in Seq(Tasks) /\ retry \in BOOLEAN
      /\ Delegations \subseteq Tasks /\ consumed \subseteq Processes
      /\ Processes \cap Delegations = {} /\ d \in Tasks
  BY WakeupsAssumption
  DEF StateInv, ThreadsInv, ThreadsTypeOK, QueuesTypeOK, StoreInv, StoreTypeOK, Tasks
<1> DEFINE Goal == \/ d \in Range(queue') \/ retry' \/ drain'.task = d
                   \/ \E t \in Turns : d \in Range(turn'[t].skipped)
<1>a. ASSUME UNCHANGED queue PROVE Goal
  BY <1>a
<1>b. ASSUME NEW e \in Tasks, queue' = Enqueue(e) PROVE Goal
  BY <1>0, <1>b, Enqueued
<1>c. ASSUME NEW e \in Tasks, NEW state, RetryUnclaimed(e, state) PROVE Goal
  BY <1>a, <1>b, <1>c DEF RetryUnclaimed
<1>d. queue # <<>> /\ Range(queue) = {Head(queue)} \cup Range(Tail(queue)) /\ Tail(queue) \in Seq(Tasks)
  <2>1. queue # <<>>
    BY EmptyRange
  <2> QED
    BY <1>0, <2>1, RangeOfTail
<1>1. ASSUME NEW x \in Processes, ProcessEnds(x) PROVE Goal
  <2>1. Range(queue') = Range(queue) \cup {x}
    BY <1>0, <1>1, RangeOfAppend DEF ProcessEnds, Tasks
  <2> QED
    BY <2>1
<1>2. ASSUME TakeEvent PROVE Goal
  <2>1. drain'.task = Head(queue) /\ queue' = Tail(queue)
    BY <1>2 DEF TakeEvent
  <2> QED
    BY <1>d, <2>1
<1>3. ASSUME Sweep PROVE Goal
  <2>1. PendingRows \subseteq Delegations
    BY DEF PendingRows
  <2>2. PICK s \in [1..Cardinality(PendingRows) -> PendingRows] : queue' = queue \o s
    BY <1>3 DEF Sweep
  <2>3. s \in Seq(Tasks)
    BY <2>1, Ordered
  <2> QED
    BY <1>0, <2>2, <2>3, RangeOfConcat
<1>4. ASSUME NEW t \in Turns, TakeAlong(t) PROVE Goal
  <2>1. queue' = Tail(queue)
    BY <1>4 DEF TakeAlong
  <2>2. CASE d \in Range(Tail(queue))
    BY <2>1, <2>2
  <2>3. CASE d = Head(queue)
    <3>1. d \notin consumed /\ d \notin Processes
      BY <1>0
    <3>2. CASE CanClaim(d) /\ Claim(d)
      BY <1>0, <3>2 DEF Claim
    <3>3. CASE ScheduleRetry(d)
      BY <3>3 DEF ScheduleRetry
    <3>4. CASE turn' = [turn EXCEPT ![t].pc = "draining", ![t].skipped = Append(@, d)]
      <4>1. /\ turn[t].skipped \in Seq(Delegations)
            /\ turn'[t].skipped = Append(turn[t].skipped, d)
        BY <1>0, <3>4 DEF TurnType
      <4>2. d \in Range(turn'[t].skipped)
        BY <4>1, RangeOfAppend
      <4> QED
        BY <4>2
    <3> HIDE DEF Goal
    <3> QED
      BY <1>4, <2>3, <3>1, <3>2, <3>3, <3>4 DEF TakeAlong
  <2> QED
    BY <1>d, <2>2, <2>3
<1>5. ASSUME NEW t \in Turns, EndOfQueue(t) PROVE Goal
  BY <1>5, <1>d DEF EndOfQueue
<1> HIDE DEF Goal
<1>6. ASSUME NEW t \in Turns, Accept(t) PROVE Goal
  <2>1. UNCHANGED queue \/ \E e \in turn[t].claims : queue' = Enqueue(e)
    BY <1>6 DEF Accept
  <2>2. turn[t].claims \subseteq Tasks
    BY <1>0 DEF TurnType
  <2> QED
    BY <1>a, <1>b, <2>1, <2>2
<1>7. ASSUME NEW t \in Turns, Worker(t) \/ Hook(t) PROVE Goal
  BY <1>4, <1>5, <1>6, <1>7, <1>a
  DEF Worker, Hook, OpenStream, Notify, CallAgent, Finish, StopEarly, Orphan,
      HookLooks, HookClaims, HookDefersAgain, HookStarts
<1>8. ASSUME NEW x \in Tasks, Runner(x) PROVE Goal
  <2>1. CASE Release(x)
    BY <1>c, <2>1 DEF Release
  <2> QED
    BY <1>8, <1>a, <2>1
    DEF Runner, StartTurn, RefusedForNow, RefusedWhilePaused, Failed, DeferAgain,
        Acknowledge, AcknowledgeFails
<1>9. ASSUME NEW e \in Delegations, \/ RouteDelegation(e) \/ Reserve(e) \/ ClaimInBackground(e)
                                    \/ DelegationEnds(e) \/ LeaseExpires(e)
      PROVE  Goal
  <2>1. e \in Tasks
    BY <1>0
  <2> QED
    BY <1>9, <1>a, <1>b, <1>c, <2>1
    DEF RouteDelegation, Reserve, ClaimInBackground, DelegationEnds, LeaseExpires
<1>10. ASSUME \/ UserStarts \/ ForgetSeen \/ UNCHANGED vars
              \/ \E x \in Processes : \/ CheckSeen(x) \/ MarkConsumed(x) \/ RouteProcess(x)
                                      \/ RecordDeferred(x)
       PROVE  Goal
  BY <1>10, <1>a DEF UserStarts, ForgetSeen, vars, CheckSeen, MarkConsumed, RouteProcess, RecordDeferred
<1> QED
  BY <1>1, <1>2, <1>3, <1>7, <1>8, <1>9, <1>10 DEF Next, DrainThread, Goal

\* The retry that will bring it back.
LEMMA RetryGoesOn ==
    ASSUME StateInv, [Next]_vars, ~Crash, NEW d \in Delegations, row[d] = "pending", retry
    PROVE  retry' \/ d \in Range(queue')
<1>0. retry \in BOOLEAN /\ queue \in Seq(Tasks)
  BY DEF StateInv, ThreadsInv, QueuesTypeOK, StoreInv, StoreTypeOK
<1> DEFINE Goal == retry' \/ d \in Range(queue')
<1>a. ASSUME UNCHANGED retry PROVE Goal
  BY <1>a
<1>b. ASSUME NEW e, NEW state, RetryUnclaimed(e, state) PROVE Goal
  BY <1>b DEF RetryUnclaimed
<1>c. ASSUME NEW e, ScheduleRetry(e) PROVE Goal
  BY <1>c DEF ScheduleRetry
<1>1. ASSUME Sweep PROVE Goal
  <2>1. PendingRows \subseteq Delegations
    BY DEF PendingRows
  <2>2. PICK s \in [1..Cardinality(PendingRows) -> PendingRows] :
           Range(s) = PendingRows /\ queue' = queue \o s
    BY <1>1 DEF Sweep
  <2>3. s \in Seq(Tasks)
    BY <2>1, Ordered
  <2>4. Range(queue') = Range(queue) \cup PendingRows
    BY <1>0, <2>2, <2>3, RangeOfConcat
  <2> QED
    BY <2>4 DEF PendingRows
<1> HIDE DEF Goal
<1>2. ASSUME NEW t \in Turns, Worker(t) \/ Hook(t) PROVE Goal
  BY <1>2, <1>a, <1>c
  DEF Worker, Hook, OpenStream, TakeAlong, Notify, EndOfQueue, Accept, CallAgent, Finish, StopEarly,
      Orphan, HookLooks, HookClaims, HookDefersAgain, HookStarts, lane
<1>3. ASSUME NEW x \in Tasks, Runner(x) PROVE Goal
  BY <1>3, <1>a, <1>b
  DEF Runner, StartTurn, RefusedForNow, RefusedWhilePaused, Failed, DeferAgain,
      Acknowledge, AcknowledgeFails, Release, lane
<1>4. ASSUME NEW e \in Delegations, \/ RouteDelegation(e) \/ Reserve(e) \/ ClaimInBackground(e)
                                    \/ DelegationEnds(e) \/ LeaseExpires(e)
      PROVE  Goal
  BY <1>4, <1>a, <1>b, <1>c
  DEF RouteDelegation, Reserve, ClaimInBackground, DelegationEnds, LeaseExpires, lane
<1>5. ASSUME \/ TakeEvent \/ UserStarts \/ ForgetSeen \/ UNCHANGED vars
             \/ \E x \in Processes : \/ CheckSeen(x) \/ MarkConsumed(x) \/ RouteProcess(x)
                                     \/ RecordDeferred(x) \/ ProcessEnds(x)
      PROVE  Goal
  BY <1>5, <1>a DEF TakeEvent, UserStarts, ForgetSeen, vars, CheckSeen, MarkConsumed, RouteProcess,
                    RecordDeferred, ProcessEnds, lane
<1> QED
  BY <1>1, <1>2, <1>3, <1>4, <1>5 DEF Next, DrainThread, Goal

\* Every step but a restart hands on a delegation.
LEMMA DelegationsGoOn ==
    ASSUME StateInv, [Next]_vars, ~Crash, NEW d \in Delegations
    PROVE  DelegationGoesOn(d)
<1>0. /\ runner \in [Tasks -> RunnerPCs] /\ delivered \in [Tasks -> Nat]
      /\ row \in [Delegations -> RowStates] /\ queue \in Seq(Tasks) /\ retry \in BOOLEAN
      /\ turn \in [Turns -> TurnType] /\ \A u \in Turns : turn[u] \in TurnType
      /\ Delegations \subseteq Tasks /\ Processes \cap Delegations = {} /\ d \in Tasks
      /\ DrainKnows /\ NoTask \notin Tasks /\ Tasks = Processes \cup Delegations /\ TurnsKnow
  BY NoTaskAssumption, WakeupsAssumption
  DEF StateInv, ThreadsInv, ThreadsTypeOK, QueuesTypeOK, StoreInv, StoreTypeOK, HistoryTypeOK, Tasks
<1> DEFINE Drained == row[d] = "pending" /\ row'[d] = "pending" /\ drain.task = d =>
                         drain'.task = d \/ retry' \/ d \in Range(queue')
           Run == runner[d] # "none" => runner'[d] # "none" \/ row'[d] # "claimed"
           Accepted == runner'[d] = "accepted" => runner[d] = "accepted" \/ delivered'[d] > 0
           Left == abandoned \subseteq abandoned'
<1>1. Drained
  <2>1. CASE UNCHANGED drain
    BY <2>1
  <2>2. ASSUME NEW y \in Processes,
               CheckSeen(y) \/ MarkConsumed(y) \/ RouteProcess(y) \/ RecordDeferred(y)
        PROVE  Drained
    <3>1. drain.task = y /\ y # d
      BY <1>0, <2>2 DEF CheckSeen, MarkConsumed, RouteProcess, RecordDeferred
    <3> QED
      BY <3>1
  <2>3. ASSUME NEW e \in Delegations, RouteDelegation(e) PROVE Drained
    <3>1. CASE e = d
      BY <2>3, <3>1 DEF RouteDelegation, RetryUnclaimed
    <3>2. CASE e # d
      BY <2>3, <3>2 DEF RouteDelegation
    <3> QED
      BY <3>1, <3>2
  <2>4. ASSUME NEW e \in Delegations, Reserve(e) PROVE Drained
    <3>1. CASE e = d
      BY <2>4, <3>1 DEF Reserve, RetryUnclaimed
    <3>2. CASE e # d
      BY <2>4, <3>2 DEF Reserve
    <3> QED
      BY <3>1, <3>2
  <2>5. ASSUME NEW e \in Delegations, ClaimInBackground(e) PROVE Drained
    <3>1. CASE e = d
      <4>1. CASE Claim(d)
        BY <1>0, <4>1 DEF Claim
      <4>2. CASE ScheduleRetry(d)
        BY <4>2 DEF ScheduleRetry
      <4>3. CASE queue' = Enqueue(d)
        BY <1>0, <4>3, Enqueued
      <4> HIDE DEF Drained
      <4> QED
        BY <2>5, <3>1, <4>1, <4>2, <4>3 DEF ClaimInBackground
    <3>2. CASE e # d
      BY <2>5, <3>2 DEF ClaimInBackground
    <3> QED
      BY <3>1, <3>2
  <2>6. CASE TakeEvent
    BY <1>0, <2>6 DEF TakeEvent, DrainKnows
  <2> HIDE DEF Drained
  <2>7. CASE \E y \in Tasks : Runner(y)
    BY <2>1, <2>7
    DEF Runner, StartTurn, RefusedForNow, RefusedWhilePaused, Failed, DeferAgain,
        Acknowledge, AcknowledgeFails, Release
  <2>8. CASE \E t \in Turns : Worker(t) \/ Hook(t)
    BY <2>1, <2>8
    DEF Worker, Hook, OpenStream, TakeAlong, Notify, EndOfQueue, Accept, CallAgent, Finish,
        StopEarly, Orphan, HookLooks, HookClaims, HookDefersAgain, HookStarts
  <2>9. CASE \/ UserStarts \/ Sweep \/ ForgetSeen \/ UNCHANGED vars
             \/ \E y \in Processes : ProcessEnds(y)
             \/ \E e \in Delegations : DelegationEnds(e) \/ LeaseExpires(e)
    BY <2>1, <2>9
    DEF UserStarts, Sweep, ForgetSeen, ProcessEnds, DelegationEnds, LeaseExpires, vars, threads
  <2> QED
    BY <2>2, <2>3, <2>4, <2>5, <2>6, <2>7, <2>8, <2>9 DEF Next, DrainThread
<1>2. Run /\ Accepted
  <2>1. CASE runner'[d] = runner[d]
    BY <2>1
  <2>2. ASSUME NEW y \in Tasks, Runner(y) PROVE Run /\ Accepted
    <3>1. CASE d # y
      <4>1. runner'[d] = runner[d]
        BY <1>0, <2>2, <3>1
        DEF Runner, StartTurn, RefusedForNow, RefusedWhilePaused, Failed, DeferAgain,
            Acknowledge, AcknowledgeFails, Release
      <4> QED
        BY <4>1
    <3>2. CASE d = y
      <4>0. d \notin Processes
        BY <1>0
      <4>1. CASE StartTurn(y)
        <5>1. runner'[d] = "accepted" /\ delivered'[d] = delivered[d] + 1
          BY <1>0, <3>2, <4>0, <4>1 DEF StartTurn
        <5> QED
          BY <1>0, <5>1
      <4>2. CASE RefusedForNow(y)
        BY <1>0, <3>2, <4>0, <4>2 DEF RefusedForNow
      <4>3. CASE RefusedWhilePaused(y)
        BY <1>0, <3>2, <4>0, <4>3 DEF RefusedWhilePaused
      <4>4. CASE Failed(y)
        BY <1>0, <3>2, <4>0, <4>4 DEF Failed
      <4>5. CASE DeferAgain(y)
        BY <3>2, <4>0, <4>5 DEF DeferAgain
      <4>6. CASE Acknowledge(y)
        BY <1>0, <3>2, <4>6 DEF Acknowledge
      <4>7. CASE AcknowledgeFails(y)
        BY <1>0, <3>2, <4>7 DEF AcknowledgeFails
      <4>8. CASE Release(y)
        <5> DEFINE r == IF Refunded(y) THEN "pending" ELSE Released(y)
        <5>1. row' = [row EXCEPT ![y] = r] /\ r # "claimed" /\ runner' = [runner EXCEPT ![y] = "none"]
          BY <4>8 DEF Release, Released
        <5> HIDE DEF r
        <5> QED
          BY <1>0, <3>2, <5>1
      <4> QED
        BY <2>2, <4>1, <4>2, <4>3, <4>4, <4>5, <4>6, <4>7, <4>8 DEF Runner
    <3> QED
      BY <3>1, <3>2
  <2>3. ASSUME NEW y \in Tasks, runner' = [runner EXCEPT ![y] = "starting"] PROVE Run /\ Accepted
    BY <1>0, <2>3
  <2>4. ASSUME NEW t \in Turns, HookStarts(t) PROVE Run /\ Accepted
    <3>1. turn[t].hand \in Seq(Processes) /\ turn[t].hand # <<>>
      BY <1>0, <2>4 DEF HookStarts, TurnType, TurnsKnow, TurnKnows
    <3>2. Head(turn[t].hand) \in Tasks
      BY <1>0, <3>1
    <3> QED
      BY <2>3, <2>4, <3>2 DEF HookStarts
  <2> HIDE DEF Run, Accepted
  <2>5. CASE DrainThread
    BY <1>0, <2>1, <2>3, <2>5
    DEF DrainThread, TakeEvent, CheckSeen, MarkConsumed, RouteProcess, RecordDeferred,
        RouteDelegation, Reserve, ClaimInBackground
  <2>6. CASE \E t \in Turns : Worker(t) \/ Hook(t)
    BY <2>1, <2>4, <2>6
    DEF Worker, Hook, OpenStream, TakeAlong, Notify, EndOfQueue, Accept, CallAgent, Finish,
        StopEarly, Orphan, HookLooks, HookClaims, HookDefersAgain
  <2>7. CASE \/ UserStarts \/ Sweep \/ ForgetSeen \/ UNCHANGED vars
             \/ \E y \in Processes : ProcessEnds(y)
             \/ \E e \in Delegations : DelegationEnds(e) \/ LeaseExpires(e)
    BY <2>1, <2>7
    DEF UserStarts, Sweep, ForgetSeen, ProcessEnds, DelegationEnds, LeaseExpires, vars, threads
  <2> QED
    BY <2>2, <2>5, <2>6, <2>7 DEF Next
<1>3. Left
  <2>1. CASE UNCHANGED abandoned
    BY <2>1
  <2>2. ASSUME NEW t \in Turns, StopEarly(t) PROVE Left
    BY <2>2 DEF StopEarly
  <2> HIDE DEF Left
  <2>3. CASE \E t \in Turns : Worker(t) \/ Hook(t)
    BY <2>1, <2>2, <2>3
    DEF Worker, Hook, OpenStream, TakeAlong, Notify, EndOfQueue, Accept, CallAgent, Finish,
        Orphan, HookLooks, HookClaims, HookDefersAgain, HookStarts, lane
  <2>4. CASE \E y \in Tasks : Runner(y)
    BY <2>1, <2>4
    DEF Runner, StartTurn, RefusedForNow, RefusedWhilePaused, Failed, DeferAgain,
        Acknowledge, AcknowledgeFails, Release, lane
  <2>5. CASE DrainThread
    BY <2>1, <2>5
    DEF DrainThread, TakeEvent, CheckSeen, MarkConsumed, RouteProcess, RecordDeferred,
        RouteDelegation, Reserve, ClaimInBackground, lane
  <2>6. CASE \/ UserStarts \/ Sweep \/ ForgetSeen \/ UNCHANGED vars
             \/ \E y \in Processes : ProcessEnds(y)
             \/ \E e \in Delegations : DelegationEnds(e) \/ LeaseExpires(e)
    BY <2>1, <2>6
    DEF UserStarts, Sweep, ForgetSeen, ProcessEnds, DelegationEnds, LeaseExpires, vars, lane
  <2> QED
    BY <2>3, <2>4, <2>5, <2>6 DEF Next
<1>4. row[d] = "pending" /\ row'[d] = "pending" =>
        /\ d \in Range(queue) => \/ d \in Range(queue') \/ retry' \/ drain'.task = d
                                 \/ \E t \in Turns : d \in Range(turn'[t].skipped)
        /\ retry => retry' \/ d \in Range(queue')
  BY EventsGoOn, RetryGoesOn
<1> QED
  BY <1>1, <1>2, <1>3, <1>4 DEF DelegationGoesOn

\* Every step keeps a delegation where DelegationIsKept says.
LEMMA DelegationKeptStep ==
    ASSUME StateInv, KeptInv, [Next]_vars, NEW d \in Delegations
    PROVE  DelegationIsKept(d)'
<1>0. DelegationIsKept(d) /\ delivered \in [Tasks -> Nat] /\ delivered' \in [Tasks -> Nat]
      /\ d \in Tasks /\ row \in [Delegations -> RowStates]
  BY StateStep DEF KeptInv, StateInv, HistoryTypeOK, StoreInv, StoreTypeOK, Tasks
<1>1. lost \subseteq lost' /\ (delivered[d] > 0 => delivered'[d] > 0)
  <2>1. delivered'[d] >= delivered[d] /\ lost \subseteq lost'
    BY <1>0, HistoryGrows
  <2> QED
    BY <1>0, <2>1
<1>2. CASE Crash
  <2>1. row'[d] = Unclaimed(d) /\ runner'[d] = "none"
    BY <1>0, <1>2 DEF Crash
  <2>2. row'[d] # "claimed" /\ (row'[d] = "delivered" => row[d] = "delivered")
    BY <2>1 DEF Unclaimed, Released
  <2>3. row'[d] = "pending" => d \in Range(queue')
    <3>1. Range(queue') = Undelivered
      BY <1>2 DEF Crash
    <3> QED
      BY <2>1, <3>1 DEF Undelivered
  <2>4. row'[d] = "delivered" => delivered'[d] > 0 \/ d \in lost'
    <3>1. \A t \in Turns : turn[t].notes \subseteq lost'
      BY <1>2 DEF Crash
    <3> QED
      BY <1>0, <1>1, <2>2, <3>1 DEF DelegationIsKept
  <2> QED
    BY <2>1, <2>2, <2>3, <2>4 DEF DelegationIsKept
<1>3. CASE ~Crash
  <2>1. RowMoves(d) /\ DelegationGoesOn(d) /\ (\A t \in Turns : TurnGoesOn(t))
    BY <1>3, RowsMove, DelegationsGoOn, TurnsGoOn
  <2>2. ASSUME row'[d] = "pending"
        PROVE  \/ d \in Range(queue') \/ retry' \/ drain'.task = d \/ d \in abandoned'
               \/ \E t \in Turns : d \in Range(turn'[t].skipped)
    <3>1. CASE row[d] # "pending"
      BY <2>1, <2>2, <3>1 DEF RowMoves
    <3>2. CASE row[d] = "pending"
      <4>1. CASE \E t \in Turns : d \in Range(turn[t].skipped)
        BY <2>1, <4>1 DEF TurnGoesOn
      <4>2. CASE ~ \E t \in Turns : d \in Range(turn[t].skipped)
        BY <1>0, <2>1, <2>2, <3>2, <4>2 DEF DelegationIsKept, DelegationGoesOn
      <4> QED
        BY <4>1, <4>2
    <3> QED
      BY <3>1, <3>2
  <2>3. ASSUME row'[d] = "claimed"
        PROVE  \/ runner'[d] # "none" \/ d \in abandoned'
               \/ \E t \in Turns : d \in turn'[t].claims
    <3>1. CASE row[d] # "claimed"
      BY <2>1, <2>3, <3>1 DEF RowMoves
    <3>2. CASE row[d] = "claimed"
      <4>1. CASE \E t \in Turns : d \in turn[t].claims
        BY <2>1, <2>3, <4>1 DEF TurnGoesOn
      <4>2. CASE ~ \E t \in Turns : d \in turn[t].claims
        BY <1>0, <2>1, <2>3, <3>2, <4>2 DEF DelegationIsKept, DelegationGoesOn
      <4> QED
        BY <4>1, <4>2
    <3> QED
      BY <3>1, <3>2
  <2>4. ASSUME row'[d] = "delivered"
        PROVE  delivered'[d] > 0 \/ d \in lost' \/ \E t \in Turns : d \in turn'[t].notes
    <3>1. CASE row[d] # "delivered"
      BY <1>0, <1>1, <2>1, <2>4, <3>1 DEF RowMoves, DelegationIsKept
    <3>2. CASE row[d] = "delivered"
      <4>1. CASE \E t \in Turns : d \in turn[t].notes
        BY <2>1, <4>1 DEF TurnGoesOn
      <4>2. CASE ~ \E t \in Turns : d \in turn[t].notes
        BY <1>0, <1>1, <3>2, <4>2 DEF DelegationIsKept
      <4> QED
        BY <4>1, <4>2
    <3> QED
      BY <3>1, <3>2
  <2>5. ASSUME runner'[d] = "accepted" PROVE delivered'[d] > 0
    BY <1>0, <1>1, <2>1, <2>5 DEF DelegationGoesOn, DelegationIsKept
  <2> QED
    BY <2>2, <2>3, <2>4, <2>5 DEF DelegationIsKept
<1> QED
  BY <1>2, <1>3

\* No completion that was consumed, and no row of a delegation, is ever dropped: NothingIsDropped,
\* for any tasks and turns, from who has it and how every step hands it on.
THEOREM NothingIsEverDropped == Spec => []NothingIsDropped
<1>1. Init => KeptInv
  BY DEF Init, KeptInv, ProcessIsKept, DelegationIsKept, Tasks
<1>2. StateInv /\ KeptInv /\ [Next]_vars => KeptInv'
  <2> SUFFICES ASSUME StateInv, KeptInv, [Next]_vars PROVE KeptInv'
    OBVIOUS
  <2> QED
    BY ProcessKeptStep, DelegationKeptStep DEF KeptInv
<1>3. StateInv /\ KeptInv => NothingIsDropped
  <2> SUFFICES ASSUME StateInv, KeptInv PROVE NothingIsDropped
    OBVIOUS
  <2>0. consumed \subseteq Processes
    BY DEF StateInv, ThreadsInv, QueuesTypeOK
  <2>1. ASSUME NEW x \in consumed PROVE Held(x) \/ delivered[x] > 0 \/ x \in lost
    BY <2>0, <2>1 DEF KeptInv, ProcessIsKept, InHands, Held
  <2>2. ASSUME NEW d \in Delegations PROVE DelegationHeld(d)
    <3>1. /\ DelegationIsKept(d) /\ AttemptsAreCounted(d)
          /\ attempts[d] \in 0..MaxDeliveries /\ spent[d] \in 0..MaxDeliveries
      BY DEF KeptInv, StateInv, StoreInv, StoreTypeOK
    <3>2. row[d] = "dropped" => spent[d] >= MaxDeliveries
      BY <3>1, WakeupsAssumption DEF AttemptsAreCounted, Unsettled
    <3> QED
      BY <3>1, <3>2 DEF DelegationHeld, DelegationIsKept, Held
  <2> QED
    BY <2>1, <2>2 DEF NothingIsDropped
<1> QED
  BY <1>1, <1>2, <1>3, StateIsKept, PTL DEF Spec

(***************************************************************************)
(* No completion is delivered twice.  A delegation has been delivered, or  *)
(* is in the message of a turn, only if its row says so, or its thread is  *)
(* about to.                                                               *)
(***************************************************************************)
DelegationOnce(d) ==
    /\ delivered[d] <= 1
    /\ delivered[d] = 1 => row[d] = "delivered" \/ runner[d] = "accepted"
    /\ \A t \in Turns : d \in turn[t].notes =>
          /\ row[d] = "delivered" /\ delivered[d] = 0
          /\ \A u \in Turns \ {t} : d \notin turn[u].notes

(***************************************************************************)
(* A process is in one place: with the drain thread, with the thread that  *)
(* starts a turn, deferred, or with one turn, and nowhere any more once it *)
(* is delivered.  It gets there when it is consumed, so that no second     *)
(* event of it is taken up; or the server has been restarted since, and    *)
(* there is no event left.  While it is checked and not yet consumed, the  *)
(* drain thread or one turn has it alone.                                  *)
(***************************************************************************)
Routed(x) == drain.task = x /\ drain.pc \in {"busy", "record"}

Carried(t, x) == x \in Range(turn[t].hand) \/ x \in turn[t].notes

Elsewhere(x) == \E t \in Turns : Carried(t, x)

InOnePlace(x) ==
    /\ delivered[x] <= 1
    /\ Routed(x) => ~(runner[x] # "none" \/ x \in Range(deferred) \/ Elsewhere(x) \/ delivered[x] > 0)
    /\ runner[x] # "none" => ~(x \in Range(deferred) \/ Elsewhere(x) \/ delivered[x] > 0)
    /\ x \in Range(deferred) => ~(Elsewhere(x) \/ delivered[x] > 0)
    /\ \A t \in Turns : Carried(t, x) =>
          delivered[x] = 0 /\ \A u \in Turns \ {t} : ~Carried(u, x)

NoEventLeft(x) ==
    /\ due.ends[x] = 0 /\ x \notin Range(queue) /\ drain.task # x
    /\ \A t \in Turns : turn[t].task # x

Taken(x) == \/ Routed(x) \/ runner[x] # "none" \/ x \in Range(deferred) \/ Elsewhere(x)
            \/ delivered[x] > 0

ConsumedWhenTaken(x) ==
    /\ Taken(x) => x \in consumed \/ NoEventLeft(x)
    /\ drain = [pc |-> "mark", task |-> x] => x \notin consumed /\ \A t \in Turns : turn[t].task # x
    /\ \A t \in Turns : turn[t].task = x => x \notin consumed

ProcessOnce(x) == InOnePlace(x) /\ ConsumedWhenTaken(x)

OneTurnIsLive ==
    \A t, u \in Turns :
        turn[t].pc \in Live \cup {"admitting"} /\ turn[u].pc \in Live \cup {"admitting"} => t = u

Distinct(s) == \A i, j \in DOMAIN s : s[i] = s[j] => i = j

DeferredOnce == Distinct(deferred) /\ \A t \in Turns : Distinct(turn[t].hand)

OnceInv ==
    /\ OneTurnIsLive /\ DeferredOnce
    /\ \A d \in Delegations \ twice : DelegationOnce(d)
    /\ \A x \in Processes \ twice : ProcessOnce(x)

\* Only an admission makes a turn live, and it finds none that is.
LEMMA LiveStep ==
    ASSUME StateInv, OneTurnIsLive, [Next]_vars
    PROVE  OneTurnIsLive'
<1>0. /\ turn \in [Turns -> TurnType] /\ ThreadsTypeOK
      /\ "admitting" \notin Live /\ "closed" \notin Live /\ "orphaned" \notin Live
      /\ "free" \notin Live /\ "hook" \notin Live /\ "redefer" \notin Live
  BY DEF StateInv, ThreadsInv, ThreadsTypeOK, Live
<1> DEFINE L == Live \cup {"admitting"}
<1>a. ASSUME \A t \in Turns : turn'[t].pc \in L => turn[t].pc \in L PROVE OneTurnIsLive'
  BY <1>a DEF OneTurnIsLive
<1>1. ASSUME NEW w \in Tasks \cup {User}, Admit(w) PROVE OneTurnIsLive'
  <2>1. PICK t \in Turns : \A u \in Turns \ {t} : turn'[u] = turn[u]
    BY <1>0, <1>1, Admitted
  <2>2. \A u \in Turns : turn[u].pc \notin L
    BY <1>1 DEF Admit, Blocked
  <2> QED
    BY <2>1, <2>2 DEF OneTurnIsLive
<1>2. ASSUME NEW t \in Turns, Worker(t) PROVE OneTurnIsLive'
  <2>1. \A u \in Turns \ {t} : turn'[u] = turn[u]
    BY <1>0, <1>2
    DEF Worker, OpenStream, TakeAlong, Notify, EndOfQueue, Accept, CallAgent, Finish, Close,
        StopEarly, Orphan
  <2>2. CASE Finish(t) \/ StopEarly(t)
    <3>1. turn'[t].pc = "closed"
      BY <1>0, <2>2 DEF Finish, StopEarly, Close, NoTurn
    <3> QED
      BY <1>0, <1>a, <2>1, <3>1
  <2>3. CASE Orphan(t)
    <3>1. turn'[t].pc = "orphaned"
      BY <1>0, <2>3 DEF Orphan, TurnType
    <3> QED
      BY <1>0, <1>a, <2>1, <3>1
  <2>4. CASE OpenStream(t) \/ TakeAlong(t) \/ Notify(t) \/ EndOfQueue(t) \/ Accept(t) \/ CallAgent(t)
    <3>1. turn[t].pc \in L
      BY <2>4 DEF OpenStream, TakeAlong, Notify, EndOfQueue, Accept, CallAgent, Live
    <3> QED
      BY <1>a, <2>1, <3>1
  <2> QED
    BY <1>2, <2>2, <2>3, <2>4 DEF Worker
<1>3. ASSUME NEW t \in Turns, Hook(t) PROVE OneTurnIsLive'
  <2>1. \A u \in Turns \ {t} : turn'[u] = turn[u]
    BY <1>0, <1>3 DEF Hook, HookLooks, HookClaims, HookDefersAgain, HookStarts
  <2>2. turn'[t].pc \in {"free", "hook", "redefer"}
    <3>1. CASE HookLooks(t)
      BY <1>0, <3>1 DEF HookLooks, NoTurn
    <3>2. CASE HookClaims(t)
      <4> DEFINE r == [NoTurn EXCEPT !.pc = "redefer", !.hand = deferred]
      <4>1. NoTurn.pc = "free" /\ r.pc = "redefer"
        BY DEF NoTurn
      <4>2. turn' = [turn EXCEPT ![t] = NoTurn] \/ turn' = [turn EXCEPT ![t] = r]
        BY <3>2 DEF HookClaims
      <4> HIDE DEF r
      <4> QED
        BY <1>0, <4>1, <4>2
    <3>3. CASE HookDefersAgain(t)
      BY <1>0, <3>3 DEF HookDefersAgain, TurnType
    <3>4. CASE HookStarts(t)
      BY <1>0, <3>4 DEF HookStarts, NoTurn
    <3> QED
      BY <1>3, <3>1, <3>2, <3>3, <3>4 DEF Hook
  <2> QED
    BY <1>0, <1>a, <2>1, <2>2
<1>4. ASSUME Crash PROVE OneTurnIsLive'
  BY <1>0, <1>4, <1>a DEF Crash, NoTurn
<1>5. ASSUME UserStarts PROVE OneTurnIsLive'
  BY <1>1, <1>5 DEF UserStarts
<1>6. ASSUME UNCHANGED turn PROVE OneTurnIsLive'
  BY <1>6 DEF OneTurnIsLive
<1>7. ASSUME NEW x \in Tasks, Runner(x) PROVE OneTurnIsLive'
  BY <1>1, <1>6, <1>7
  DEF Runner, StartTurn, RefusedForNow, RefusedWhilePaused, Failed, DeferAgain, Acknowledge,
      AcknowledgeFails, Release
<1>8. ASSUME \/ DrainThread \/ Sweep \/ ForgetSeen \/ UNCHANGED vars
             \/ \E x \in Processes : ProcessEnds(x)
             \/ \E d \in Delegations : DelegationEnds(d) \/ LeaseExpires(d)
      PROVE  OneTurnIsLive'
  BY <1>6, <1>8
  DEF DrainThread, TakeEvent, CheckSeen, MarkConsumed, RouteProcess, RecordDeferred,
      RouteDelegation, Reserve, ClaimInBackground, Sweep, ForgetSeen, ProcessEnds, DelegationEnds,
      LeaseExpires, vars, threads
<1> QED
  BY <1>2, <1>3, <1>4, <1>5, <1>7, <1>8 DEF Next

(***************************************************************************)
(* Sequences that have nothing twice.                                      *)
(***************************************************************************)
LEMMA DistinctEmpty == Distinct(<<>>)
BY DEF Distinct

\* Appending what is not there,
LEMMA DistinctAppend ==
    ASSUME NEW S, NEW q \in Seq(S), NEW x \in S, Distinct(q), x \notin Range(q)
    PROVE  Distinct(Append(q, x))
<1>1. /\ Len(q) \in Nat /\ DOMAIN Append(q, x) = 1..Len(q) + 1 /\ DOMAIN q = 1..Len(q)
      /\ \A i \in 1..Len(q) + 1 : Append(q, x)[i] = IF i <= Len(q) THEN q[i] ELSE x
  OBVIOUS
<1>2. \A i \in 1..Len(q) : q[i] # x
  BY <1>1 DEF Range
<1> SUFFICES ASSUME NEW i \in 1..Len(q) + 1, NEW j \in 1..Len(q) + 1,
                    Append(q, x)[i] = Append(q, x)[j]
             PROVE  i = j
  BY <1>1 DEF Distinct
<1>3. CASE i <= Len(q) /\ j <= Len(q)
  BY <1>1, <1>3 DEF Distinct
<1>4. CASE ~(i <= Len(q) /\ j <= Len(q))
  BY <1>1, <1>2, <1>4
<1> QED
  BY <1>3, <1>4

\* ... dropping the head,
LEMMA DistinctTail ==
    ASSUME NEW S, NEW q \in Seq(S), Distinct(q), q # <<>>
    PROVE  Distinct(Tail(q)) /\ Head(q) \notin Range(Tail(q))
<1>1. /\ Len(q) \in Nat \ {0} /\ DOMAIN Tail(q) = 1..Len(q) - 1 /\ DOMAIN q = 1..Len(q)
      /\ Head(q) = q[1] /\ \A i \in 1..Len(q) - 1 : Tail(q)[i] = q[i + 1]
  OBVIOUS
<1>2. \A i \in 1..Len(q) - 1 : i + 1 \in DOMAIN q /\ i + 1 # 1
  BY <1>1
<1>3. ASSUME NEW i \in 1..Len(q) - 1 PROVE Head(q) # Tail(q)[i]
  BY <1>1, <1>2, <1>3 DEF Distinct
<1>4. ASSUME NEW i \in 1..Len(q) - 1, NEW j \in 1..Len(q) - 1, Tail(q)[i] = Tail(q)[j]
      PROVE  i = j
  <2>1. i + 1 = j + 1
    BY <1>1, <1>2, <1>4 DEF Distinct
  <2> QED
    BY <2>1
<1>5. Distinct(Tail(q))
  BY <1>1, <1>4 DEF Distinct
<1> QED
  BY <1>1, <1>3, <1>5 DEF Range

\* ... putting first what is not there,
LEMMA DistinctCons ==
    ASSUME NEW S, NEW x \in S, NEW s \in Seq(S), Distinct(s), x \notin Range(s)
    PROVE  Distinct(<<x>> \o s)
<1> DEFINE q == <<x>> \o s
<1>1. /\ Len(s) \in Nat /\ DOMAIN q = 1..Len(s) + 1 /\ DOMAIN s = 1..Len(s) /\ q[1] = x
      /\ \A i \in 2..Len(s) + 1 : q[i] = s[i - 1]
  OBVIOUS
<1> HIDE DEF q
<1>2. \A i \in 2..Len(s) + 1 : i - 1 \in DOMAIN s /\ q[i] # x
  BY <1>1 DEF Range
<1>3. ASSUME NEW i \in DOMAIN q, NEW j \in DOMAIN q, q[i] = q[j] PROVE i = j
  <2>1. CASE i = 1 \/ j = 1
    BY <1>1, <1>2, <1>3, <2>1
  <2>2. CASE i # 1 /\ j # 1
    <3>1. i - 1 = j - 1
      BY <1>1, <1>2, <1>3, <2>2 DEF Distinct
    <3> QED
      BY <1>1, <3>1
  <2> QED
    BY <2>1, <2>2
<1> QED
  BY <1>3 DEF Distinct, q

\* ... and recording a wakeup keep a sequence distinct.
LEMMA DistinctRecord ==
    ASSUME deferred \in Seq(Processes), Distinct(deferred), NEW x \in Processes
    PROVE  Distinct(Record(x))
<1>1. CASE x \in Range(deferred)
  BY <1>1 DEF Record
<1>2. CASE x \notin Range(deferred)
  BY <1>2, DistinctAppend DEF Record
<1> QED
  BY <1>1, <1>2

\* What a turn gains, and from where.
TurnGains(t) ==
    /\ \A x \in turn'[t].notes \ turn[t].notes :
          \/ Notify(t) /\ x = turn[t].task
          \/ Accept(t) /\ x \in turn[t].claims /\ row'[x] = "delivered"
    /\ turn'[t].hand # turn[t].hand =>
          \/ turn'[t].hand = <<>>
          \/ HookClaims(t) /\ turn'[t].hand = deferred /\ turn[t].hand = <<>>
          \/ HookDefersAgain(t) /\ turn'[t].hand = <<Head(turn[t].hand)>> \o Tail(Leftover(t))
    /\ turn'[t].task # turn[t].task =>
          \/ turn'[t].task = NoTask
          \/ TakeAlong(t) /\ turn'[t].task = Head(queue) /\ Head(queue) \in Processes \ consumed
             /\ (drain = [pc |-> "mark", task |-> Head(queue)] => Head(queue) \in twice')

\* In every step, a turn gains only what TurnGains says.
LEMMA TurnsGain ==
    ASSUME StateInv, [Next]_vars, NEW t \in Turns
    PROVE  TurnGains(t)
<1>0. /\ turn \in [Turns -> TurnType] /\ \A u \in Turns : turn[u] \in TurnType /\ TurnKnows(turn[u])
      /\ ThreadsTypeOK
  BY DEF StateInv, ThreadsInv, ThreadsTypeOK, TurnsKnow
<1>a. ASSUME turn'[t].notes = turn[t].notes, turn'[t].task = turn[t].task, turn'[t].hand = turn[t].hand
      PROVE  TurnGains(t)
  BY <1>a DEF TurnGains
<1>b. ASSUME turn'[t] = turn[t] PROVE TurnGains(t)
  BY <1>b DEF TurnGains
<1>c. ASSUME turn'[t].notes = {}, turn'[t].task = NoTask, turn'[t].hand = <<>> PROVE TurnGains(t)
  BY <1>c DEF TurnGains
<1>1. ASSUME NEW w \in Tasks \cup {User}, Admit(w) PROVE TurnGains(t)
  <2>1. PICK u \in Turns : /\ turn'[u].notes = {} /\ turn'[u].task = NoTask /\ turn'[u].hand = <<>>
                           /\ \A v \in Turns \ {u} : turn'[v] = turn[v]
    BY <1>0, <1>1, Admitted
  <2> QED
    BY <1>b, <1>c, <2>1
<1>2. ASSUME NEW u \in Turns, Worker(u) \/ Hook(u), u # t PROVE TurnGains(t)
  <2>1. turn'[t] = turn[t]
    BY <1>0, <1>2
    DEF Worker, Hook, OpenStream, TakeAlong, Notify, EndOfQueue, Accept, CallAgent, Finish, Close,
        StopEarly, Orphan, HookLooks, HookClaims, HookDefersAgain, HookStarts
  <2> QED
    BY <1>b, <2>1
<1>3. ASSUME OpenStream(t) \/ Orphan(t) \/ EndOfQueue(t) PROVE TurnGains(t)
  <2>1. turn'[t].notes = turn[t].notes /\ turn'[t].task = turn[t].task /\ turn'[t].hand = turn[t].hand
    BY <1>0, <1>3 DEF OpenStream, Orphan, EndOfQueue, TurnType
  <2> QED
    BY <1>a, <2>1
<1>4. ASSUME TakeAlong(t) PROVE TurnGains(t)
  <2>1. CASE turn' = [turn EXCEPT ![t].pc = "draining"]
    BY <1>0, <1>a, <2>1 DEF TurnType
  <2>2. CASE /\ Head(queue) \in Processes \ consumed
             /\ turn' = [turn EXCEPT ![t].pc = "draining", ![t].task = Head(queue)]
             /\ twice' = IF drain = [pc |-> "mark", task |-> Head(queue)]
                         THEN twice \cup {Head(queue)} ELSE twice
    <3>1. /\ turn'[t].notes = turn[t].notes /\ turn'[t].task = Head(queue)
          /\ turn'[t].hand = turn[t].hand
      BY <1>0, <2>2 DEF TurnType
    <3> QED
      BY <1>4, <2>2, <3>1 DEF TurnGains
  <2>3. CASE turn' = [turn EXCEPT ![t].pc = "draining", ![t].claims = @ \cup {Head(queue)}]
    BY <1>0, <1>a, <2>3 DEF TurnType
  <2>4. CASE turn' = [turn EXCEPT ![t].pc = "draining", ![t].skipped = Append(@, Head(queue))]
    BY <1>0, <1>a, <2>4 DEF TurnType
  <2> QED
    BY <1>4, <2>1, <2>2, <2>3, <2>4 DEF TakeAlong
<1>5. ASSUME Notify(t) PROVE TurnGains(t)
  <2>1. /\ turn'[t].notes = turn[t].notes \cup {turn[t].task} /\ turn'[t].task = NoTask
        /\ turn'[t].hand = turn[t].hand
    BY <1>0, <1>5 DEF Notify, TurnType
  <2> QED
    BY <1>5, <2>1 DEF TurnGains
<1>6. ASSUME Accept(t) PROVE TurnGains(t)
  <2>1. PICK bad \in {{}} \cup {{e} : e \in turn[t].claims} :
           /\ row' = [e \in Delegations |-> IF e \in bad THEN Released(e)
                                            ELSE IF e \in turn[t].claims THEN "delivered"
                                            ELSE row[e]]
           /\ turn' = [turn EXCEPT ![t].pc = "accepted", ![t].claims = {},
                                   ![t].notes = @ \cup (turn[t].claims \ bad)]
    BY <1>6 DEF Accept
  <2>2. /\ turn'[t].notes = turn[t].notes \cup (turn[t].claims \ bad)
        /\ turn'[t].task = turn[t].task /\ turn'[t].hand = turn[t].hand
    BY <1>0, <2>1 DEF TurnType
  <2>3. \A x \in turn[t].claims \ bad : row'[x] = "delivered"
    BY <1>0, <2>1 DEF TurnType
  <2> QED
    BY <1>6, <2>2, <2>3 DEF TurnGains
<1>7. ASSUME CallAgent(t) PROVE TurnGains(t)
  <2>1. turn'[t].notes = {} /\ turn'[t].task = turn[t].task /\ turn'[t].hand = turn[t].hand
    BY <1>0, <1>7 DEF CallAgent, TurnType
  <2> QED
    BY <2>1 DEF TurnGains
<1>8. ASSUME Finish(t) \/ StopEarly(t) \/ HookLooks(t) \/ HookStarts(t) \/ Crash PROVE TurnGains(t)
  <2>1. turn'[t].notes = {} /\ turn'[t].task = NoTask /\ turn'[t].hand = <<>>
    <3>1. CASE Finish(t) \/ StopEarly(t)
      BY <1>0, <3>1 DEF Finish, StopEarly, Close, NoTurn
    <3>2. CASE HookLooks(t)
      BY <1>0, <3>2 DEF HookLooks, NoTurn
    <3>3. CASE HookStarts(t)
      BY <1>0, <3>3 DEF HookStarts, NoTurn
    <3>4. CASE Crash
      BY <3>4 DEF Crash, NoTurn
    <3> QED
      BY <1>8, <3>1, <3>2, <3>3, <3>4
  <2> QED
    BY <1>c, <2>1
<1>9. ASSUME HookClaims(t) PROVE TurnGains(t)
  <2> DEFINE r == [NoTurn EXCEPT !.pc = "redefer", !.hand = deferred]
  <2>1. /\ NoTurn.notes = {} /\ NoTurn.task = NoTask /\ NoTurn.hand = <<>>
        /\ r.notes = {} /\ r.task = NoTask /\ r.hand = deferred
    BY DEF NoTurn
  <2>2. turn' = [turn EXCEPT ![t] = NoTurn] \/ turn' = [turn EXCEPT ![t] = r]
    BY <1>9 DEF HookClaims
  <2> HIDE DEF r
  <2>3. turn[t].hand = <<>>
    BY <1>0, <1>9 DEF HookClaims, TurnKnows
  <2>4. CASE turn' = [turn EXCEPT ![t] = NoTurn]
    BY <1>0, <1>c, <2>1, <2>4
  <2>5. CASE turn' = [turn EXCEPT ![t] = r]
    <3>1. turn'[t] = r
      BY <1>0, <2>5
    <3> QED
      BY <1>9, <2>1, <2>3, <3>1 DEF TurnGains
  <2> QED
    BY <2>2, <2>4, <2>5
<1>10. ASSUME HookDefersAgain(t) PROVE TurnGains(t)
  <2> DEFINE hand == <<Head(turn[t].hand)>> \o Tail(Leftover(t))
  <2>1. turn' = [turn EXCEPT ![t].hand = hand]
    BY <1>10 DEF HookDefersAgain
  <2> HIDE DEF hand
  <2>2. turn'[t].notes = turn[t].notes /\ turn'[t].task = turn[t].task /\ turn'[t].hand = hand
    BY <1>0, <2>1 DEF TurnType
  <2> QED
    BY <1>10, <2>2 DEF TurnGains, hand
<1>11. ASSUME NEW x \in Tasks, Runner(x) PROVE TurnGains(t)
  <2>1. CASE StartTurn(x)
    BY <1>1, <2>1 DEF StartTurn
  <2>2. CASE ~StartTurn(x)
    <3>1. UNCHANGED turn
      BY <1>11, <2>2 DEF Runner, RefusedForNow, RefusedWhilePaused, Failed, DeferAgain, Acknowledge,
                         AcknowledgeFails, Release
    <3> QED
      BY <1>b, <3>1
  <2> QED
    BY <2>1, <2>2
<1>12. ASSUME UserStarts PROVE TurnGains(t)
  BY <1>1, <1>12 DEF UserStarts
<1>13. ASSUME \/ DrainThread \/ Sweep \/ ForgetSeen \/ UNCHANGED vars
              \/ \E x \in Processes : ProcessEnds(x)
              \/ \E d \in Delegations : DelegationEnds(d) \/ LeaseExpires(d)
       PROVE  TurnGains(t)
  <2>1. UNCHANGED turn
    BY <1>13
    DEF DrainThread, TakeEvent, CheckSeen, MarkConsumed, RouteProcess, RecordDeferred,
        RouteDelegation, Reserve, ClaimInBackground, Sweep, ForgetSeen, ProcessEnds, DelegationEnds,
        LeaseExpires, vars, threads
  <2> QED
    BY <1>b, <2>1
<1>14. ASSUME Worker(t) \/ Hook(t) PROVE TurnGains(t)
  BY <1>3, <1>4, <1>5, <1>6, <1>7, <1>8, <1>9, <1>10, <1>14 DEF Worker, Hook
<1> QED
  BY <1>2, <1>8, <1>11, <1>12, <1>13, <1>14 DEF Next

\* Deferred wakeups are distinct, and so are those in a hook's hand.
LEMMA DistinctStep ==
    ASSUME StateInv, DeferredOnce, [Next]_vars
    PROVE  DeferredOnce'
<1>0. /\ deferred \in Seq(Processes) /\ Distinct(deferred)
      /\ \A t \in Turns : turn[t] \in TurnType /\ TurnKnows(turn[t]) /\ Distinct(turn[t].hand)
      /\ ThreadsTypeOK
  BY DEF StateInv, ThreadsInv, ThreadsTypeOK, QueuesTypeOK, TurnsKnow, DeferredOnce
<1>a. ASSUME NEW t \in Turns, HookDefersAgain(t)
      PROVE  /\ Head(Leftover(t)) \in Processes
             /\ Distinct(<<Head(turn[t].hand)>> \o Tail(Leftover(t)))
             /\ Head(Leftover(t)) \notin Range(<<Head(turn[t].hand)>> \o Tail(Leftover(t)))
  <2> DEFINE h == turn[t].hand
  <2>1. h \in Seq(Processes) /\ h # <<>> /\ Leftover(t) = Tail(h) /\ Tail(h) # <<>> /\ Distinct(h)
    BY <1>0, <1>a DEF TurnType, TurnKnows, HookDefersAgain, Leftover
  <2> HIDE DEF h
  <2>2. /\ Head(h) \in Processes /\ Tail(h) \in Seq(Processes)
        /\ Distinct(Tail(h)) /\ Head(h) \notin Range(Tail(h))
    BY <2>1, RangeOfTail, DistinctTail
  <2> DEFINE q == Tail(h)
  <2>3. q \in Seq(Processes) /\ q # <<>> /\ Distinct(q)
    BY <2>1, <2>2
  <2>4. Head(h) \notin Range(q)
    BY <2>2
  <2> HIDE DEF q
  <2>5. /\ Head(q) \in Processes /\ Tail(q) \in Seq(Processes) /\ Distinct(Tail(q))
        /\ Head(q) \notin Range(Tail(q)) /\ Range(q) = {Head(q)} \cup Range(Tail(q))
    BY <2>3, RangeOfTail, DistinctTail
  <2> DEFINE x == Head(h)
             r == Tail(q)
  <2>6. x \in Processes /\ r \in Seq(Processes) /\ Distinct(r) /\ x \notin Range(r)
    BY <2>2, <2>4, <2>5
  <2> HIDE DEF x, r
  <2>7. Distinct(<<x>> \o r) /\ Range(<<x>> \o r) = {x} \cup Range(r)
    BY <2>6, DistinctCons, RangeOfCons
  <2>8. Head(q) # x
    BY <2>4, <2>5 DEF x
  <2> QED
    BY <2>1, <2>5, <2>7, <2>8 DEF h, q, x, r
<1>1. ASSUME NEW t \in Turns PROVE Distinct(turn'[t].hand)
  <2>1. TurnGains(t)
    BY TurnsGain
  <2>2. CASE turn'[t].hand = turn[t].hand
    BY <1>0, <2>2
  <2>3. CASE turn'[t].hand = <<>>
    BY <2>3, DistinctEmpty
  <2>4. CASE turn'[t].hand = deferred
    BY <1>0, <2>4
  <2>5. CASE HookDefersAgain(t) /\ turn'[t].hand = <<Head(turn[t].hand)>> \o Tail(Leftover(t))
    BY <1>a, <2>5
  <2> QED
    BY <2>1, <2>2, <2>3, <2>4, <2>5 DEF TurnGains
<1>b. ASSUME UNCHANGED deferred PROVE Distinct(deferred')
  BY <1>0, <1>b
<1>c. ASSUME NEW x \in Processes, deferred' = Record(x) PROVE Distinct(deferred')
  BY <1>0, <1>c, DistinctRecord
<1>d. ASSUME deferred' = <<>> PROVE Distinct(deferred')
  BY <1>d, DistinctEmpty
<1>2. ASSUME NEW x \in Tasks, Runner(x) PROVE Distinct(deferred')
  BY <1>2, <1>b, <1>c
  DEF Runner, StartTurn, RefusedForNow, RefusedWhilePaused, Failed, DeferAgain, RecordLate,
      Acknowledge, AcknowledgeFails, Release
<1>3. ASSUME NEW t \in Turns, Worker(t) \/ Hook(t) PROVE Distinct(deferred')
  <2>1. CASE HookDefersAgain(t)
    BY <1>a, <1>c, <2>1 DEF HookDefersAgain
  <2>2. CASE HookClaims(t)
    BY <1>d, <2>2 DEF HookClaims
  <2> QED
    BY <1>3, <1>b, <2>1, <2>2
    DEF Worker, Hook, OpenStream, TakeAlong, Notify, EndOfQueue, Accept, CallAgent, Finish,
        StopEarly, Orphan, HookLooks, HookStarts
<1>4. ASSUME DrainThread PROVE Distinct(deferred')
  BY <1>4, <1>b, <1>c
  DEF DrainThread, TakeEvent, CheckSeen, MarkConsumed, RouteProcess, RecordDeferred, RecordLate,
      RouteDelegation, Reserve, ClaimInBackground
<1>5. ASSUME \/ UserStarts \/ Sweep \/ ForgetSeen \/ Crash \/ UNCHANGED vars
             \/ \E x \in Processes : ProcessEnds(x)
             \/ \E d \in Delegations : DelegationEnds(d) \/ LeaseExpires(d)
      PROVE  Distinct(deferred')
  BY <1>5, <1>b, <1>d
  DEF UserStarts, Sweep, ForgetSeen, Crash, ProcessEnds, DelegationEnds, LeaseExpires, vars
<1> QED
  BY <1>1, <1>2, <1>3, <1>4, <1>5 DEF Next, DeferredOnce

\* Exceptions are never taken back.
LEMMA TwiceGrows ==
    ASSUME [Next]_vars
    PROVE  twice \subseteq twice'
<1>a. ASSUME UNCHANGED twice PROVE twice \subseteq twice'
  BY <1>a
<1>1. ASSUME NEW x \in Tasks, Runner(x) PROVE twice \subseteq twice'
  BY <1>1
  DEF Runner, StartTurn, RefusedForNow, RefusedWhilePaused, Failed, DeferAgain,
      Acknowledge, AcknowledgeFails, Release, history
<1>2. ASSUME NEW t \in Turns, TakeAlong(t) PROVE twice \subseteq twice'
  BY <1>2 DEF TakeAlong
<1>3. ASSUME NEW t \in Turns, Worker(t) \/ Hook(t), ~TakeAlong(t) PROVE twice \subseteq twice'
  BY <1>a, <1>3
  DEF Worker, Hook, OpenStream, Notify, EndOfQueue, Accept, CallAgent, Finish, StopEarly,
      Orphan, HookLooks, HookClaims, HookDefersAgain, HookStarts, history
<1>4. ASSUME NEW x \in Processes, CheckSeen(x) PROVE twice \subseteq twice'
  BY <1>4 DEF CheckSeen
<1>5. ASSUME Crash PROVE twice \subseteq twice'
  BY <1>5 DEF Crash
<1>6. ASSUME \/ TakeEvent \/ UserStarts \/ Sweep \/ ForgetSeen \/ UNCHANGED vars
             \/ \E x \in Processes : \/ MarkConsumed(x) \/ RouteProcess(x) \/ RecordDeferred(x)
                                     \/ ProcessEnds(x)
             \/ \E d \in Delegations : \/ RouteDelegation(d) \/ Reserve(d) \/ ClaimInBackground(d)
                                       \/ DelegationEnds(d) \/ LeaseExpires(d)
      PROVE  twice \subseteq twice'
  BY <1>a, <1>6
  DEF TakeEvent, UserStarts, Sweep, ForgetSeen, vars, MarkConsumed, RouteProcess, RecordDeferred,
      ProcessEnds, RouteDelegation, Reserve, ClaimInBackground, DelegationEnds, LeaseExpires, history
<1> QED
  BY <1>1, <1>2, <1>3, <1>4, <1>5, <1>6 DEF Next, DrainThread

\* A row that says delivered says so for good.
LEMMA DeliveredIsFinal ==
    ASSUME StateInv, [Next]_vars, NEW d \in Delegations, row[d] = "delivered"
    PROVE  row'[d] = "delivered"
<1>0. /\ row \in [Delegations -> RowStates] /\ ClaimsAreHeld(d) /\ AttemptsAreCounted(d)
      /\ due \in Budget /\ d \in Tasks
  BY DEF StateInv, StoreInv, StoreTypeOK, ThreadsInv, QueuesTypeOK, Tasks
<1>1. runner[d] = "none" /\ (\A t \in Turns : d \notin turn[t].claims) /\ d \notin due.delegated
  BY <1>0 DEF ClaimsAreHeld, AttemptsAreCounted
<1>a. ASSUME UNCHANGED row PROVE row'[d] = "delivered"
  BY <1>a
<1>b. ASSUME NEW e, NEW r, e # d, row' = [row EXCEPT ![e] = r] PROVE row'[d] = "delivered"
  BY <1>0, <1>b
<1>2. ASSUME NEW e \in Delegations, DelegationEnds(e) PROVE row'[d] = "delivered"
  BY <1>1, <1>2, <1>b DEF DelegationEnds
<1>3. ASSUME NEW e \in Delegations, LeaseExpires(e) PROVE row'[d] = "delivered"
  BY <1>3, <1>b DEF LeaseExpires
<1>4. ASSUME NEW e \in Delegations, ClaimInBackground(e) PROVE row'[d] = "delivered"
  <2>1. UNCHANGED row \/ (CanClaim(e) /\ row' = [row EXCEPT ![e] = "claimed"])
    BY <1>4 DEF ClaimInBackground, Claim
  <2> QED
    BY <1>a, <1>b, <2>1 DEF CanClaim
<1>5. ASSUME NEW t \in Turns, TakeAlong(t) PROVE row'[d] = "delivered"
  <2>1. UNCHANGED row \/ (CanClaim(Head(queue)) /\ row' = [row EXCEPT ![Head(queue)] = "claimed"])
    BY <1>5 DEF TakeAlong, Claim, store
  <2> QED
    BY <1>a, <1>b, <2>1 DEF CanClaim
<1>6. ASSUME NEW x \in Tasks, Runner(x) PROVE row'[d] = "delivered"
  <2>1. CASE Acknowledge(x) \/ Release(x)
    <3>1. x # d
      BY <1>1, <2>1 DEF Acknowledge, Release
    <3>2. \E r : row' = [row EXCEPT ![x] = r]
      BY <2>1 DEF Acknowledge, Release
    <3> QED
      BY <1>b, <3>1, <3>2
  <2>2. CASE ~(Acknowledge(x) \/ Release(x))
    BY <1>6, <1>a, <2>2
    DEF Runner, StartTurn, RefusedForNow, RefusedWhilePaused, Failed, DeferAgain,
        AcknowledgeFails, store
  <2> QED
    BY <2>1, <2>2
<1>7. ASSUME NEW t \in Turns, Accept(t) PROVE row'[d] = "delivered"
  <2>1. PICK bad \in {{}} \cup {{e} : e \in turn[t].claims} :
           row' = [e \in Delegations |-> IF e \in bad THEN Released(e)
                                         ELSE IF e \in turn[t].claims THEN "delivered"
                                         ELSE row[e]]
    BY <1>7 DEF Accept
  <2> QED
    BY <1>1, <2>1
<1>8. ASSUME Crash PROVE row'[d] = "delivered"
  BY <1>8 DEF Crash, Unclaimed
<1>9. ASSUME NEW t \in Turns, Worker(t) \/ Hook(t) PROVE row'[d] = "delivered"
  BY <1>5, <1>7, <1>9, <1>a
  DEF Worker, Hook, OpenStream, Notify, EndOfQueue, CallAgent, Finish, StopEarly, Orphan,
      HookLooks, HookClaims, HookDefersAgain, HookStarts, store
<1>10. ASSUME \/ TakeEvent \/ UserStarts \/ Sweep \/ ForgetSeen \/ UNCHANGED vars
              \/ \E x \in Processes : \/ CheckSeen(x) \/ MarkConsumed(x) \/ RouteProcess(x)
                                      \/ RecordDeferred(x) \/ ProcessEnds(x)
              \/ \E e \in Delegations : RouteDelegation(e) \/ Reserve(e)
       PROVE  row'[d] = "delivered"
  BY <1>10, <1>a
  DEF TakeEvent, UserStarts, Sweep, ForgetSeen, vars, CheckSeen, MarkConsumed, RouteProcess,
      RecordDeferred, ProcessEnds, RouteDelegation, Reserve, store
<1> QED
  BY <1>2, <1>3, <1>4, <1>6, <1>8, <1>9, <1>10 DEF Next, DrainThread

\* A turn that is accepted is acknowledged in the row, unless that fails or is cut off.
LEMMA AcceptedIsKept ==
    ASSUME StateInv, [Next]_vars, NEW d \in Delegations \ twice', runner[d] = "accepted"
    PROVE  runner'[d] = "accepted" \/ row'[d] = "delivered"
<1>0. /\ runner \in [Tasks -> RunnerPCs] /\ row \in [Delegations -> RowStates] /\ d \in Tasks
      /\ turn \in [Turns -> TurnType] /\ TurnsKnow /\ Processes \subseteq Tasks
      /\ Processes \cap Delegations = {} /\ Delegations \subseteq Tasks
      /\ ClaimsAreHeld(d)
  BY WakeupsAssumption
  DEF StateInv, ThreadsInv, ThreadsTypeOK, StoreInv, StoreTypeOK, Tasks
<1>1. d \in local
  BY <1>0 DEF ClaimsAreHeld
<1> DEFINE Goal == runner'[d] = "accepted" \/ row'[d] = "delivered"
<1>a. ASSUME UNCHANGED runner PROVE Goal
  BY <1>a
<1>b. ASSUME NEW x, NEW pc, x # d, runner' = [runner EXCEPT ![x] = pc] PROVE Goal
  BY <1>0, <1>b
<1>2. ASSUME NEW x \in Tasks, Runner(x) PROVE Goal
  <2>1. CASE x # d
    <3>1. \E pc : runner' = [runner EXCEPT ![x] = pc]
      BY <1>2 DEF Runner, StartTurn, RefusedForNow, RefusedWhilePaused, Failed, DeferAgain,
                  Acknowledge, AcknowledgeFails, Release
    <3> QED
      BY <1>b, <2>1, <3>1
  <2>2. CASE x = d
    <3>1. CASE Acknowledge(x)
      BY <1>0, <2>2, <3>1 DEF Acknowledge
    <3>2. CASE AcknowledgeFails(x)
      BY <2>2, <3>2 DEF AcknowledgeFails
    <3> QED
      BY <1>2, <2>2, <3>1, <3>2
      DEF Runner, StartTurn, RefusedForNow, RefusedWhilePaused, Failed, DeferAgain, Release
  <2> QED
    BY <2>1, <2>2
<1>3. ASSUME NEW t \in Turns, HookStarts(t) PROVE Goal
  <2>1. turn[t].hand \in Seq(Processes) /\ turn[t].hand # <<>>
    BY <1>0, <1>3 DEF HookStarts, TurnType, TurnsKnow, TurnKnows
  <2>2. Head(turn[t].hand) # d
    BY <1>0, <2>1
  <2> QED
    BY <1>b, <1>3, <2>2 DEF HookStarts
<1>4. ASSUME NEW x \in Processes, RouteProcess(x) PROVE Goal
  BY <1>0, <1>4, <1>a, <1>b DEF RouteProcess
<1>5. ASSUME NEW e \in Delegations, ClaimInBackground(e) PROVE Goal
  BY <1>1, <1>5, <1>a, <1>b DEF ClaimInBackground, CanClaim
<1>6. ASSUME Crash PROVE Goal
  BY <1>6 DEF Crash
<1> HIDE DEF Goal
<1>7. ASSUME NEW t \in Turns, Worker(t) \/ Hook(t) PROVE Goal
  BY <1>3, <1>7, <1>a
  DEF Worker, Hook, OpenStream, TakeAlong, Notify, EndOfQueue, Accept, CallAgent, Finish,
      StopEarly, Orphan, HookLooks, HookClaims, HookDefersAgain
<1>8. ASSUME \/ TakeEvent \/ UserStarts \/ Sweep \/ ForgetSeen \/ UNCHANGED vars
             \/ \E x \in Processes : \/ CheckSeen(x) \/ MarkConsumed(x)
                                     \/ RecordDeferred(x) \/ ProcessEnds(x)
             \/ \E e \in Delegations : \/ RouteDelegation(e) \/ Reserve(e)
                                       \/ DelegationEnds(e) \/ LeaseExpires(e)
      PROVE  Goal
  BY <1>8, <1>a
  DEF TakeEvent, UserStarts, Sweep, ForgetSeen, vars, threads, CheckSeen, MarkConsumed,
      RecordDeferred, ProcessEnds, RouteDelegation, Reserve, DelegationEnds, LeaseExpires
<1> QED
  BY <1>2, <1>4, <1>5, <1>6, <1>7, <1>8 DEF Next, DrainThread, Goal

\* What is delivered, and when.
LEMMA DeliveredGrows ==
    ASSUME StateInv, [Next]_vars, NEW x \in Tasks, delivered'[x] # delivered[x]
    PROVE  /\ delivered'[x] = delivered[x] + 1
           /\ StartTurn(x) \/ \E t \in Turns : CallAgent(t) /\ x \in turn[t].notes
<1>0. delivered \in [Tasks -> Nat]
  BY DEF StateInv, HistoryTypeOK
<1> DEFINE Goal == /\ delivered'[x] = delivered[x] + 1
                   /\ StartTurn(x) \/ \E t \in Turns : CallAgent(t) /\ x \in turn[t].notes
<1>a. ASSUME UNCHANGED delivered PROVE FALSE
  BY <1>a
<1>1. ASSUME NEW y \in Tasks, StartTurn(y) PROVE Goal
  <2>1. x = y
    BY <1>0, <1>1 DEF StartTurn
  <2> QED
    BY <1>0, <1>1, <2>1 DEF StartTurn
<1>2. ASSUME NEW t \in Turns, CallAgent(t) PROVE Goal
  <2>1. x \in turn[t].notes /\ delivered'[x] = delivered[x] + 1
    BY <1>0, <1>2 DEF CallAgent
  <2> QED
    BY <1>2, <2>1
<1> HIDE DEF Goal
<1>3. ASSUME NEW y \in Tasks, Runner(y) PROVE Goal
  BY <1>a, <1>1, <1>3
  DEF Runner, RefusedForNow, RefusedWhilePaused, Failed, DeferAgain, Acknowledge,
      AcknowledgeFails, Release, history
<1>4. ASSUME NEW t \in Turns, Worker(t) \/ Hook(t) PROVE Goal
  BY <1>a, <1>2, <1>4
  DEF Worker, Hook, OpenStream, TakeAlong, Notify, EndOfQueue, Accept, Finish, StopEarly, Orphan,
      HookLooks, HookClaims, HookDefersAgain, HookStarts, history
<1>5. ASSUME DrainThread PROVE Goal
  BY <1>a, <1>5
  DEF DrainThread, TakeEvent, CheckSeen, MarkConsumed, RouteProcess, RecordDeferred,
      RouteDelegation, Reserve, ClaimInBackground, history
<1>6. ASSUME \/ UserStarts \/ Sweep \/ ForgetSeen \/ Crash \/ UNCHANGED vars
             \/ \E y \in Processes : ProcessEnds(y)
             \/ \E d \in Delegations : DelegationEnds(d) \/ LeaseExpires(d)
      PROVE  Goal
  BY <1>a, <1>6
  DEF UserStarts, Sweep, ForgetSeen, Crash, vars, ProcessEnds, DelegationEnds, LeaseExpires, history
<1> QED
  BY <1>3, <1>4, <1>5, <1>6 DEF Next, Goal

\* Every step keeps a delegation delivered at most once.
LEMMA DelegationOnceStep ==
    ASSUME StateInv, [Next]_vars, NEW d \in Delegations \ twice', DelegationOnce(d)
    PROVE  DelegationOnce(d)'
<1>0. /\ delivered \in [Tasks -> Nat] /\ d \in Tasks /\ d \notin Processes /\ d # NoTask
      /\ \A t \in Turns : turn[t] \in TurnType
      /\ turn \in [Turns -> TurnType] /\ runner \in [Tasks -> RunnerPCs]
      /\ ClaimsAreHeld(d) /\ delivered[d] \in Nat
  BY NoTaskAssumption, WakeupsAssumption
  DEF StateInv, ThreadsInv, ThreadsTypeOK, HistoryTypeOK, StoreInv, Tasks
<1>1. ASSUME row[d] # "delivered", runner[d] # "accepted"
      PROVE  delivered[d] = 0 /\ \A t \in Turns : d \notin turn[t].notes
  BY <1>0, <1>1 DEF DelegationOnce
<1>2. ASSUME StartTurn(d)
      PROVE  delivered[d] = 0 /\ row[d] = "claimed" /\ runner'[d] = "accepted"
  <2>1. runner[d] = "starting" /\ runner' = [runner EXCEPT ![d] = "accepted"]
    BY <1>0, <1>2 DEF StartTurn
  <2>2. row[d] = "claimed"
    BY <1>0, <2>1 DEF ClaimsAreHeld
  <2> QED
    BY <1>0, <1>1, <2>1, <2>2
<1>3. ASSUME NEW t \in Turns, CallAgent(t), d \in turn[t].notes
      PROVE  delivered[d] = 0 /\ row[d] = "delivered"
  BY <1>3 DEF DelegationOnce
<1>4. delivered'[d] # delivered[d] =>
         /\ delivered[d] = 0 /\ delivered'[d] = 1
         /\ StartTurn(d) \/ \E t \in Turns : CallAgent(t) /\ d \in turn[t].notes
  BY <1>0, <1>2, <1>3, DeliveredGrows
<1>5. delivered'[d] <= 1
  BY <1>0, <1>4 DEF DelegationOnce
<1>6. delivered'[d] = 1 => row'[d] = "delivered" \/ runner'[d] = "accepted"
  <2>1. CASE delivered'[d] = delivered[d]
    BY <2>1, DeliveredIsFinal, AcceptedIsKept DEF DelegationOnce
  <2>2. CASE delivered'[d] # delivered[d]
    <3>1. CASE StartTurn(d)
      BY <1>2, <3>1
    <3>2. CASE \E t \in Turns : CallAgent(t) /\ d \in turn[t].notes
      BY <1>3, <3>2, DeliveredIsFinal
    <3> QED
      BY <1>4, <2>2, <3>1, <3>2
  <2> QED
    BY <2>1, <2>2
\* A note is an old one, or a claim that is acknowledged.
<1>7. ASSUME NEW t \in Turns, d \in turn'[t].notes
      PROVE  \/ d \in turn[t].notes
             \/ Accept(t) /\ d \in turn[t].claims /\ row'[d] = "delivered"
  <2>1. TurnGains(t) /\ turn[t].task \in Processes \cup {NoTask}
    BY <1>0, TurnsGain DEF TurnType
  <2> QED
    BY <1>0, <1>7, <2>1 DEF TurnGains
<1>8. ASSUME NEW t \in Turns, d \in turn[t].claims
      PROVE  row[d] = "claimed" /\ runner[d] = "none" /\ \A u \in Turns \ {t} : d \notin turn[u].claims
  BY <1>0, <1>8 DEF ClaimsAreHeld
<1>9. ASSUME NEW t \in Turns, d \in turn'[t].notes
      PROVE  /\ row'[d] = "delivered" /\ delivered'[d] = 0
             /\ \A u \in Turns \ {t} : d \notin turn'[u].notes
  <2>1. CASE d \in turn[t].notes
    <3>1. row[d] = "delivered" /\ delivered[d] = 0 /\ \A u \in Turns \ {t} : d \notin turn[u].notes
      BY <2>1 DEF DelegationOnce
    <3>2. row'[d] = "delivered"
      BY <3>1, DeliveredIsFinal
    <3>3. delivered'[d] = delivered[d]
      <4>1. ~StartTurn(d)
        BY <1>2, <3>1
      <4>2. ASSUME NEW u \in Turns, CallAgent(u), d \in turn[u].notes PROVE FALSE
        <5>1. u = t
          BY <3>1, <4>2
        <5>2. turn'[t].notes = {}
          BY <1>0, <4>2, <5>1 DEF CallAgent, TurnType
        <5> QED
          BY <1>9, <5>2
      <4> QED
        BY <1>4, <4>1, <4>2
    <3>4. ASSUME NEW u \in Turns \ {t}, d \in turn'[u].notes PROVE FALSE
      BY <1>7, <1>8, <3>1, <3>4
    <3> QED
      BY <3>1, <3>2, <3>3, <3>4
  <2>2. CASE d \notin turn[t].notes
    <3>1. Accept(t) /\ d \in turn[t].claims /\ row'[d] = "delivered"
      BY <1>7, <1>9, <2>2
    <3>2. row[d] = "claimed" /\ runner[d] = "none"
      BY <1>8, <3>1
    <3>3. delivered[d] = 0 /\ \A u \in Turns : d \notin turn[u].notes
      BY <1>1, <3>2
    <3>4. delivered'[d] = 0
      BY <3>1, <3>3 DEF Accept, history
    <3>5. ASSUME NEW u \in Turns \ {t}, d \in turn'[u].notes PROVE FALSE
      <4>1. d \in turn[u].claims
        BY <1>7, <3>3, <3>5
      <4> QED
        BY <1>8, <3>1, <4>1
    <3> QED
      BY <3>1, <3>4, <3>5
  <2> QED
    BY <2>1, <2>2
<1> QED
  BY <1>5, <1>6, <1>9 DEF DelegationOnce

\* A process that is not to end any more stays so.
LEMMA EndsFall ==
    ASSUME StateInv, [Next]_vars, NEW x \in Processes, due.ends[x] = 0
    PROVE  due'.ends[x] = 0
<1>0. /\ due \in Budget /\ due.ends \in [Processes -> 0..2]
      /\ due = [ends |-> due.ends, delegated |-> due.delegated, users |-> due.users,
                troubles |-> due.troubles, crashes |-> due.crashes]
  BY DEF StateInv, ThreadsInv, QueuesTypeOK, Budget
<1> DEFINE Goal == due'.ends[x] = 0
<1>a. ASSUME UNCHANGED due PROVE Goal
  BY <1>a
<1>b. ASSUME Trouble PROVE Goal
  BY <1>0, <1>b DEF Trouble, Budget
<1>1. ASSUME UserStarts PROVE Goal
  BY <1>0, <1>1 DEF UserStarts, Budget
<1>2. ASSUME NEW y \in Processes, ProcessEnds(y) PROVE Goal
  <2> DEFINE ends == [due.ends EXCEPT ![y] = @ - 1]
  <2>1. ends[x] = 0
    BY <1>0, <1>2 DEF ProcessEnds
  <2>2. due' = [due EXCEPT !.ends = ends]
    BY <1>2 DEF ProcessEnds
  <2> HIDE DEF ends
  <2>3. due'.ends = ends
    BY <1>0, <2>2 DEF Budget
  <2> QED
    BY <2>1, <2>3
<1>3. ASSUME NEW d \in Delegations, DelegationEnds(d) PROVE Goal
  <2>1. due' = [due EXCEPT !.delegated = @ \ {d}]
    BY <1>3 DEF DelegationEnds
  <2>2. due'.ends = due.ends
    BY <1>0, <2>1 DEF Budget
  <2> QED
    BY <2>2
<1>4. ASSUME Crash PROVE Goal
  <2> DEFINE ends == [y \in Processes |-> IF y \in Reported THEN 0 ELSE due.ends[y]]
             n == due.crashes - 1
  <2>1. ends[x] = 0
    OBVIOUS
  <2>2. due' = [due EXCEPT !.crashes = n, !.ends = ends]
    BY <1>4 DEF Crash
  <2> HIDE DEF ends, n
  <2>3. due'.ends = ends
    BY <1>0, <2>2 DEF Budget
  <2> QED
    BY <2>1, <2>3
<1> HIDE DEF Goal
<1>5. ASSUME DrainThread PROVE Goal
  BY <1>5, <1>a, <1>b DEF DrainThread, TakeEvent, CheckSeen, MarkConsumed, RouteProcess,
        RecordDeferred, RouteDelegation, Reserve, ClaimInBackground
<1>6. ASSUME NEW y \in Tasks, Runner(y) PROVE Goal
  BY <1>6, <1>a, <1>b DEF Runner, StartTurn, RefusedForNow, RefusedWhilePaused, Failed,
        DeferAgain, Acknowledge, AcknowledgeFails, Release
<1>7. ASSUME NEW t \in Turns, Worker(t) \/ Hook(t) PROVE Goal
  <2>1. ASSUME Accept(t) PROVE Goal
    BY <2>1, <1>a, <1>b DEF Accept
  <2>2. ASSUME TakeAlong(t) PROVE Goal
    BY <2>2, <1>a, <1>b DEF TakeAlong
  <2> QED
    BY <1>7, <1>a, <1>b, <2>1, <2>2
    DEF Worker, Hook, OpenStream, Notify, EndOfQueue, CallAgent, Finish, StopEarly, Orphan,
        HookLooks, HookClaims, HookDefersAgain, HookStarts
<1>8. ASSUME \/ \E d \in Delegations : LeaseExpires(d)
             \/ Sweep \/ ForgetSeen \/ UNCHANGED vars
      PROVE  Goal
  BY <1>a, <1>8 DEF LeaseExpires, Sweep, ForgetSeen, vars
<1> QED
  BY <1>1, <1>2, <1>3, <1>4, <1>5, <1>6, <1>7, <1>8 DEF Next, Goal

\* An event of a process enters the queue only when the process ends.
LEMMA EventsEnter ==
    ASSUME StateInv, [Next]_vars, NEW x \in Processes, x \in Range(queue')
    PROVE  x \in Range(queue) \/ due.ends[x] > 0
<1>0. /\ turn \in [Turns -> TurnType] /\ queue \in Seq(Tasks)
      /\ Delegations \subseteq Tasks /\ Processes \subseteq Tasks
      /\ x \notin Delegations
  BY WakeupsAssumption DEF StateInv, ThreadsInv, ThreadsTypeOK, QueuesTypeOK, Tasks
<1> DEFINE Goal == x \in Range(queue) \/ due.ends[x] > 0
<1>a. ASSUME UNCHANGED queue PROVE Goal
  BY <1>a
<1>b. ASSUME NEW d \in Delegations, queue' = Enqueue(d) PROVE Goal
  BY <1>0, <1>b, Enqueued
<1>c. ASSUME NEW d \in Delegations, NEW state, RetryUnclaimed(d, state) PROVE Goal
  BY <1>a, <1>b, <1>c DEF RetryUnclaimed
<1>d. ASSUME queue # <<>>, queue' = Tail(queue) PROVE Goal
  <2>1. Range(queue) = {Head(queue)} \cup Range(Tail(queue))
    BY <1>0, <1>d, RangeOfTail
  <2> QED
    BY <1>d, <2>1
<1>1. ASSUME NEW y \in Processes, ProcessEnds(y) PROVE Goal
  <2>1. Range(queue') = Range(queue) \cup {y}
    BY <1>0, <1>1, RangeOfAppend DEF ProcessEnds
  <2> QED
    BY <1>1, <2>1 DEF ProcessEnds
<1>2. ASSUME Sweep PROVE Goal
  <2>1. PendingRows \subseteq Delegations
    BY DEF PendingRows
  <2>2. PICK s \in [1..Cardinality(PendingRows) -> PendingRows] :
           Range(s) = PendingRows /\ queue' = queue \o s
    BY <1>2 DEF Sweep
  <2>3. s \in Seq(Tasks)
    BY <2>1, Ordered
  <2> QED
    BY <1>0, <2>1, <2>2, <2>3, RangeOfConcat
<1>3. ASSUME NEW t \in Turns, EndOfQueue(t) PROVE Goal
  <2>1. queue' = turn[t].skipped
    BY <1>3 DEF EndOfQueue
  <2>2. turn[t].skipped \in Seq(Delegations)
    BY <1>0 DEF TurnType
  <2>3. Range(queue') \subseteq Delegations
    BY <2>1, <2>2, RangeInSet
  <2> QED
    BY <1>0, <2>3
<1>4. ASSUME Crash PROVE Goal
  <2>1. Range(queue') = Undelivered
    BY <1>4 DEF Crash
  <2> QED
    BY <1>0, <2>1 DEF Undelivered
<1>5. ASSUME NEW t \in Turns, Accept(t) PROVE Goal
  <2>1. UNCHANGED queue \/ \E d \in turn[t].claims : queue' = Enqueue(d)
    BY <1>5 DEF Accept
  <2>2. turn[t].claims \subseteq Delegations
    BY <1>0 DEF TurnType
  <2> QED
    BY <1>a, <1>b, <2>1, <2>2
<1> HIDE DEF Goal
<1>6. ASSUME NEW t \in Turns, TakeAlong(t) PROVE Goal
  BY <1>6, <1>d DEF TakeAlong
<1>7. ASSUME NEW t \in Turns, Worker(t) \/ Hook(t) PROVE Goal
  BY <1>3, <1>5, <1>6, <1>7, <1>a
  DEF Worker, Hook, OpenStream, Notify, CallAgent, Finish, StopEarly, Orphan,
      HookLooks, HookClaims, HookDefersAgain, HookStarts
<1>8. ASSUME NEW y \in Tasks, Runner(y) PROVE Goal
  <2>1. CASE Release(y)
    BY <1>c, <2>1 DEF Release
  <2> QED
    BY <1>8, <1>a, <2>1
    DEF Runner, StartTurn, RefusedForNow, RefusedWhilePaused, Failed, DeferAgain,
        Acknowledge, AcknowledgeFails
<1>9. ASSUME NEW d \in Delegations, \/ RouteDelegation(d) \/ Reserve(d) \/ ClaimInBackground(d)
                                    \/ DelegationEnds(d) \/ LeaseExpires(d)
      PROVE  Goal
  BY <1>9, <1>a, <1>b, <1>c
  DEF RouteDelegation, Reserve, ClaimInBackground, DelegationEnds, LeaseExpires
<1>10. ASSUME \/ UserStarts \/ ForgetSeen \/ UNCHANGED vars
              \/ \E y \in Processes : \/ CheckSeen(y) \/ MarkConsumed(y) \/ RouteProcess(y)
                                      \/ RecordDeferred(y)
       PROVE  Goal
  BY <1>10, <1>a DEF UserStarts, ForgetSeen, vars, CheckSeen, MarkConsumed, RouteProcess, RecordDeferred
<1>11. ASSUME TakeEvent PROVE Goal
  BY <1>11, <1>d DEF TakeEvent
<1> QED
  BY <1>1, <1>2, <1>4, <1>7, <1>8, <1>9, <1>10, <1>11 DEF Next, DrainThread, Goal

\* The drain thread gets a process from the head of the queue.
LEMMA DrainGains ==
    ASSUME StateInv, [Next]_vars, NEW x \in Processes, drain'.task = x
    PROVE  drain.task = x \/ (TakeEvent /\ x = Head(queue))
<1>0. /\ drain \in [pc : DrainPCs, task : Tasks \cup {NoTask}] /\ x # NoTask
  BY NoTaskAssumption DEF StateInv, ThreadsInv, ThreadsTypeOK, Tasks
<1> DEFINE Goal == drain.task = x \/ (TakeEvent /\ x = Head(queue))
<1>a. ASSUME drain'.task = drain.task PROVE Goal
  BY <1>a
<1>b. ASSUME drain' = Idle PROVE Goal
  BY <1>0, <1>b DEF Idle
<1>1. ASSUME NEW pc, drain' = [drain EXCEPT !.pc = pc] PROVE Goal
  BY <1>0, <1>1
<1>2. ASSUME TakeEvent PROVE Goal
  BY <1>2 DEF TakeEvent
<1> HIDE DEF Goal
<1>3. ASSUME NEW y \in Processes, CheckSeen(y) \/ MarkConsumed(y) \/ RouteProcess(y) \/ RecordDeferred(y)
      PROVE  Goal
  BY <1>3, <1>b, <1>1 DEF CheckSeen, MarkConsumed, RouteProcess, RecordDeferred
<1>4. ASSUME NEW d \in Delegations, RouteDelegation(d) \/ Reserve(d) \/ ClaimInBackground(d)
      PROVE  Goal
  BY <1>4, <1>b, <1>1 DEF RouteDelegation, Reserve, ClaimInBackground
<1>5. ASSUME NEW y \in Tasks, Runner(y) PROVE Goal
  BY <1>5, <1>a
  DEF Runner, StartTurn, RefusedForNow, RefusedWhilePaused, Failed, DeferAgain,
      Acknowledge, AcknowledgeFails, Release
<1>6. ASSUME NEW t \in Turns, Worker(t) \/ Hook(t) PROVE Goal
  BY <1>6, <1>a
  DEF Worker, Hook, OpenStream, TakeAlong, Notify, EndOfQueue, Accept, CallAgent, Finish,
      StopEarly, Orphan, HookLooks, HookClaims, HookDefersAgain, HookStarts
<1>7. ASSUME \/ UserStarts \/ Sweep \/ ForgetSeen \/ UNCHANGED vars
             \/ \E y \in Processes : ProcessEnds(y)
             \/ \E d \in Delegations : DelegationEnds(d) \/ LeaseExpires(d)
      PROVE  Goal
  BY <1>7, <1>a
  DEF UserStarts, Sweep, ForgetSeen, ProcessEnds, DelegationEnds, LeaseExpires, vars, threads
<1>8. ASSUME Crash PROVE Goal
  BY <1>8, <1>b DEF Crash
<1> QED
  BY <1>2, <1>3, <1>4, <1>5, <1>6, <1>7, <1>8 DEF Next, DrainThread, Goal

\* Once no event of a process is left, there will be none.
LEMMA NoEventStays ==
    ASSUME StateInv, [Next]_vars, NEW x \in Processes, NoEventLeft(x)
    PROVE  NoEventLeft(x)'
<1>0. x # NoTask /\ queue \in Seq(Tasks)
  BY NoTaskAssumption DEF StateInv, ThreadsInv, QueuesTypeOK, Tasks
<1>1. due'.ends[x] = 0
  BY EndsFall DEF NoEventLeft
<1>2. x \notin Range(queue')
  BY EventsEnter DEF NoEventLeft
<1>3. queue # <<>> => Head(queue) # x
  BY <1>0, RangeOfTail DEF NoEventLeft
<1>4. drain'.task # x
  BY <1>3, DrainGains DEF NoEventLeft, TakeEvent
<1>5. \A t \in Turns : turn'[t].task # x
  BY <1>0, <1>3, TurnsGain DEF TurnGains, NoEventLeft, TakeAlong
<1> QED
  BY <1>1, <1>2, <1>4, <1>5 DEF NoEventLeft

\* What the places of a process do when it goes to none.
CarriedShrinks(t, x) == Carried(t, x)' => Carried(t, x)

TurnShrinks(t, x) == CarriedShrinks(t, x) /\ (turn'[t].task = x => turn[t].task = x)

OthersShrink(x) ==
    /\ delivered'[x] = delivered[x] /\ (x \in consumed' <=> x \in consumed)
    /\ Routed(x)' => Routed(x)
    /\ runner'[x] # "none" => runner[x] # "none"
    /\ x \in Range(deferred') => x \in Range(deferred)
    /\ drain' = [pc |-> "mark", task |-> x] => drain = [pc |-> "mark", task |-> x]

\* A step that takes a process nowhere keeps it in one place.
LEMMA ShrinkingKeepsOnce ==
    ASSUME StateInv, [Next]_vars, NEW x \in Processes, ProcessOnce(x), OthersShrink(x),
           \A t \in Turns : TurnShrinks(t, x)
    PROVE  ProcessOnce(x)'
<1>1. InOnePlace(x)'
  BY DEF ProcessOnce, InOnePlace, OthersShrink, TurnShrinks, CarriedShrinks, Elsewhere
<1>2. Taken(x)' => Taken(x)
  BY DEF Taken, OthersShrink, TurnShrinks, CarriedShrinks, Elsewhere
<1>3. ConsumedWhenTaken(x)'
  BY <1>2, NoEventStays DEF ProcessOnce, ConsumedWhenTaken, OthersShrink, TurnShrinks
<1> QED
  BY <1>1, <1>3 DEF ProcessOnce

\* Taken out of its hand, a deferred wakeup is not in it any more.
LEMMA HandIsLeft ==
    ASSUME StateInv, DeferredOnce, NEW t \in Turns, HookDefersAgain(t)
    PROVE  /\ Head(Leftover(t)) \in Range(turn[t].hand)
           /\ Head(Leftover(t)) \notin Range(<<Head(turn[t].hand)>> \o Tail(Leftover(t)))
           /\ Range(<<Head(turn[t].hand)>> \o Tail(Leftover(t))) \subseteq Range(turn[t].hand)
<1>0. /\ turn[t] \in TurnType /\ TurnKnows(turn[t]) /\ Distinct(turn[t].hand) /\ ThreadsTypeOK
  BY DEF StateInv, ThreadsInv, ThreadsTypeOK, TurnsKnow, DeferredOnce
<1> DEFINE h == turn[t].hand
<1>1. h \in Seq(Processes) /\ h # <<>> /\ Leftover(t) = Tail(h) /\ Tail(h) # <<>> /\ Distinct(h)
  BY <1>0 DEF TurnType, TurnKnows, HookDefersAgain, Leftover
<1> HIDE DEF h
<1>2. /\ Head(h) \in Processes /\ Tail(h) \in Seq(Processes)
      /\ Distinct(Tail(h)) /\ Head(h) \notin Range(Tail(h))
      /\ Range(h) = {Head(h)} \cup Range(Tail(h))
  BY <1>1, RangeOfTail, DistinctTail
<1> DEFINE q == Tail(h)
<1>3. q \in Seq(Processes) /\ q # <<>> /\ Distinct(q) /\ Head(h) \notin Range(q)
  BY <1>1, <1>2
<1> HIDE DEF q
<1>4. /\ Head(q) \in Processes /\ Tail(q) \in Seq(Processes)
      /\ Head(q) \notin Range(Tail(q)) /\ Range(q) = {Head(q)} \cup Range(Tail(q))
  BY <1>3, RangeOfTail, DistinctTail
<1> DEFINE x == Head(h)
           r == Tail(q)
<1>5. x \in Processes /\ r \in Seq(Processes)
  BY <1>2, <1>4
<1> HIDE DEF x, r
<1>6. Range(<<x>> \o r) = {x} \cup Range(r)
  BY <1>5, RangeOfCons
<1>7. Head(q) # x
  BY <1>3, <1>4 DEF x
<1>8. Range(h) = {x} \cup Range(q)
  BY <1>2 DEF x, q
<1>9. Range(q) = {Head(q)} \cup Range(r) /\ Head(q) \notin Range(r)
  BY <1>4 DEF r
<1>10. /\ Head(q) \in Range(h) /\ Head(q) \notin Range(<<x>> \o r)
       /\ Range(<<x>> \o r) \subseteq Range(h)
  BY <1>6, <1>7, <1>8, <1>9
<1> QED
  BY <1>1, <1>10 DEF h, q, x, r

\* How a process gets to a turn.
LEMMA TurnsShrink ==
    ASSUME StateInv, DeferredOnce, [Next]_vars, NEW t \in Turns, NEW x \in Processes
    PROVE  /\ \/ CarriedShrinks(t, x)
              \/ Notify(t) /\ x = turn[t].task
              \/ HookClaims(t) /\ x \in Range(deferred)
           /\ \/ turn'[t].task = x => turn[t].task = x
              \/ TakeAlong(t) /\ x = Head(queue)
<1>0. /\ TurnGains(t) /\ turn[t] \in TurnType /\ x \notin Delegations /\ x # NoTask
      /\ deferred \in Seq(Processes)
  BY TurnsGain, NoTaskAssumption, WakeupsAssumption
  DEF StateInv, ThreadsInv, ThreadsTypeOK, QueuesTypeOK, Tasks
<1>1. x \in turn'[t].notes => x \in turn[t].notes \/ (Notify(t) /\ x = turn[t].task)
  BY <1>0 DEF TurnGains, TurnType
<1>2. x \in Range(turn'[t].hand) => \/ x \in Range(turn[t].hand)
                                    \/ HookClaims(t) /\ x \in Range(deferred)
  <2>1. CASE turn'[t].hand = turn[t].hand
    BY <2>1
  <2>2. CASE turn'[t].hand = <<>>
    BY <2>2, EmptyRange
  <2>3. CASE HookClaims(t) /\ turn'[t].hand = deferred
    BY <2>3
  <2>4. CASE HookDefersAgain(t) /\ turn'[t].hand = <<Head(turn[t].hand)>> \o Tail(Leftover(t))
    BY <2>4, HandIsLeft
  <2> QED
    BY <1>0, <2>1, <2>2, <2>3, <2>4 DEF TurnGains
<1>3. turn'[t].task = x => turn[t].task = x \/ (TakeAlong(t) /\ x = Head(queue))
  BY <1>0 DEF TurnGains
<1> QED
  BY <1>1, <1>2, <1>3 DEF CarriedShrinks, Carried

\* A turn that starts has nothing yet.
LEMMA AdmissionShrinks ==
    ASSUME StateInv, NEW w \in Tasks \cup {User}, Admit(w), NEW t \in Turns, NEW x \in Processes
    PROVE  TurnShrinks(t, x)
<1>1. PICK u \in Turns : /\ turn'[u].notes = {} /\ turn'[u].task = NoTask /\ turn'[u].hand = <<>>
                         /\ \A v \in Turns \ {u} : turn'[v] = turn[v]
  BY Admitted DEF StateInv, ThreadsInv
<1>2. CASE t = u
  BY <1>1, <1>2, EmptyRange, NoTaskAssumption DEF TurnShrinks, CarriedShrinks, Carried, Tasks
<1>3. CASE t # u
  BY <1>1, <1>3 DEF TurnShrinks, CarriedShrinks, Carried
<1> QED
  BY <1>2, <1>3

\* The drain thread takes a process from its event to where it is handled next.
LEMMA DrainKeepsOnce ==
    ASSUME StateInv, DeferredOnce, [Next]_vars, DrainThread,
           NEW x \in Processes \ twice', ProcessOnce(x)
    PROVE  ProcessOnce(x)'
<1>0. /\ drain \in [pc : DrainPCs, task : Tasks \cup {NoTask}] /\ x # NoTask /\ x \in Tasks
      /\ runner \in [Tasks -> RunnerPCs] /\ deferred \in Seq(Processes)
      /\ delivered[x] \in Nat /\ Idle.task = NoTask /\ Idle.pc = "idle"
      /\ Processes \cap Delegations = {} /\ Tasks = Processes \cup Delegations
      /\ queue \in Seq(Tasks)
  BY NoTaskAssumption, WakeupsAssumption
  DEF StateInv, ThreadsInv, ThreadsTypeOK, QueuesTypeOK, HistoryTypeOK, Tasks, Idle
<1>1. /\ UNCHANGED turn /\ delivered' = delivered
  BY DEF DrainThread, TakeEvent, CheckSeen, MarkConsumed, RouteProcess, RecordDeferred,
         RouteDelegation, Reserve, ClaimInBackground, history
<1>2. /\ \A t \in Turns : TurnShrinks(t, x) /\ Carried(t, x)' = Carried(t, x)
      /\ Elsewhere(x)' = Elsewhere(x)
  BY <1>1 DEF TurnShrinks, CarriedShrinks, Carried, Elsewhere
<1>3. NoEventLeft(x) => NoEventLeft(x)'
  BY NoEventStays
<1> DEFINE Goal == ProcessOnce(x)'
<1>a. ASSUME OthersShrink(x) PROVE Goal
  BY <1>2, <1>a, ShrinkingKeepsOnce
<1>b. ASSUME drain.task # x, drain' = Idle \/ \E pc : drain' = [drain EXCEPT !.pc = pc]
      PROVE  ~Routed(x)' /\ drain' # [pc |-> "mark", task |-> x]
  BY <1>0, <1>b DEF Routed
<1>4. ASSUME CheckSeen(x) PROVE Goal
  <2>1. CASE drain' = Idle /\ UNCHANGED <<consumed, runner, deferred>>
    BY <1>0, <1>1, <1>a, <2>1 DEF OthersShrink, Routed
  <2>2. CASE /\ ~AlreadySeen(x) /\ drain' = [drain EXCEPT !.pc = "mark"]
             /\ twice' = IF \E t \in Turns : turn[t].task = x THEN twice \cup {x} ELSE twice
    <3>1. x \notin consumed /\ UNCHANGED <<consumed, runner, deferred>>
      BY <1>4, <2>2 DEF AlreadySeen, CheckSeen
    <3>2. ~Routed(x)'
      BY <1>0, <2>2 DEF Routed
    <3>3. \A t \in Turns : turn[t].task # x
      BY <2>2
    <3>4. InOnePlace(x)' /\ (Taken(x)' => Taken(x))
      BY <1>1, <1>2, <3>1, <3>2 DEF InOnePlace, Taken, ProcessOnce
    <3> QED
      BY <1>1, <1>3, <3>1, <3>3, <3>4 DEF ProcessOnce, ConsumedWhenTaken
  <2> QED
    BY <1>4, <2>1, <2>2 DEF CheckSeen
<1>5. ASSUME MarkConsumed(x) PROVE Goal
  <2>1. /\ drain = [pc |-> "mark", task |-> x] /\ drain' = [drain EXCEPT !.pc = "busy"]
        /\ x \in consumed' /\ UNCHANGED <<runner, deferred>>
    BY <1>5 DEF MarkConsumed
  <2>2. drain.task = x /\ drain'.pc = "busy"
    BY <1>0, <2>1
  <2>3. ~Taken(x) /\ \A t \in Turns : turn[t].task # x
    BY <2>1, <2>2 DEF ProcessOnce, ConsumedWhenTaken, NoEventLeft
  <2>4. InOnePlace(x)'
    BY <1>0, <1>1, <1>2, <2>1, <2>3 DEF InOnePlace, Taken, ProcessOnce, Elsewhere
  <2>5. ConsumedWhenTaken(x)'
    BY <1>1, <2>1, <2>2, <2>3 DEF ConsumedWhenTaken
  <2> QED
    BY <2>4, <2>5 DEF ProcessOnce
<1>6. ASSUME RouteProcess(x) PROVE Goal
  <2>1. /\ drain = [pc |-> "busy", task |-> x] /\ UNCHANGED <<consumed, deferred>>
        /\ Routed(x)
    BY <1>6 DEF RouteProcess, Routed, marks
  <2>2. /\ Taken(x) /\ runner[x] = "none" /\ x \notin Range(deferred) /\ ~Elsewhere(x)
        /\ ~(delivered[x] > 0)
    BY <2>1 DEF ProcessOnce, InOnePlace, Taken
  <2>3. CASE drain' = [drain EXCEPT !.pc = "record"] /\ UNCHANGED runner
    <3>1. OthersShrink(x)
      BY <1>0, <1>1, <2>1, <2>3 DEF OthersShrink
    <3> QED
      BY <1>a, <3>1
  <2>4. CASE drain' = Idle /\ runner' = [runner EXCEPT ![x] = "starting"]
    <3>1. ~Routed(x)' /\ drain' # [pc |-> "mark", task |-> x]
      BY <1>0, <2>4 DEF Routed
    <3>2. InOnePlace(x)'
      BY <1>1, <1>2, <2>1, <2>2, <3>1 DEF ProcessOnce, InOnePlace, Elsewhere
    <3>3. ConsumedWhenTaken(x)'
      BY <1>1, <1>3, <2>1, <2>2, <3>1 DEF ConsumedWhenTaken, ProcessOnce
    <3> QED
      BY <3>2, <3>3 DEF ProcessOnce
  <2> QED
    BY <1>6, <2>3, <2>4 DEF RouteProcess
<1>7. ASSUME RecordDeferred(x) PROVE Goal
  <2>1. /\ drain = [pc |-> "record", task |-> x] /\ UNCHANGED <<consumed, runner>>
        /\ Routed(x) /\ drain' = Idle /\ Range(deferred') = Range(deferred) \cup {x}
    BY <1>0, <1>7, Recorded DEF RecordDeferred, RecordLate, Routed, marks
  <2>2. /\ Taken(x) /\ runner[x] = "none" /\ ~Elsewhere(x) /\ ~(delivered[x] > 0)
    BY <2>1 DEF ProcessOnce, InOnePlace, Taken
  <2>3. ~Routed(x)' /\ drain' # [pc |-> "mark", task |-> x]
    BY <1>0, <2>1 DEF Routed
  <2>4. InOnePlace(x)'
    BY <1>1, <1>2, <2>1, <2>2, <2>3 DEF ProcessOnce, InOnePlace, Elsewhere
  <2>5. ConsumedWhenTaken(x)'
    BY <1>1, <1>3, <2>1, <2>2, <2>3 DEF ConsumedWhenTaken, ProcessOnce
  <2> QED
    BY <2>4, <2>5 DEF ProcessOnce
<1> HIDE DEF Goal
<1>8. ASSUME NEW y \in Processes, y # x,
             CheckSeen(y) \/ MarkConsumed(y) \/ RouteProcess(y) \/ RecordDeferred(y)
      PROVE  Goal
  <2>1. drain.task # x
    BY <1>0, <1>8 DEF CheckSeen, MarkConsumed, RouteProcess, RecordDeferred
  <2>2. drain' = Idle \/ \E pc : drain' = [drain EXCEPT !.pc = pc]
    BY <1>8 DEF CheckSeen, MarkConsumed, RouteProcess, RecordDeferred
  <2>3. (x \in consumed' <=> x \in consumed) /\ runner'[x] = runner[x]
    BY <1>0, <1>8 DEF CheckSeen, MarkConsumed, RouteProcess, RecordDeferred, marks
  <2>4. x \in Range(deferred') => x \in Range(deferred)
    <3>1. UNCHANGED deferred \/ deferred' = Record(y)
      BY <1>8 DEF CheckSeen, MarkConsumed, RouteProcess, RecordDeferred, RecordLate
    <3> QED
      BY <1>0, <1>8, <3>1, Recorded
  <2>5. OthersShrink(x)
    BY <1>1, <1>b, <2>1, <2>2, <2>3, <2>4 DEF OthersShrink
  <2> QED
    BY <1>a, <2>5
<1>9. ASSUME NEW d \in Delegations, RouteDelegation(d) \/ Reserve(d) \/ ClaimInBackground(d)
      PROVE  Goal
  <2>1. drain.task # x
    BY <1>0, <1>9 DEF RouteDelegation, Reserve, ClaimInBackground
  <2>2. drain' = Idle \/ \E pc : drain' = [drain EXCEPT !.pc = pc]
    BY <1>9 DEF RouteDelegation, Reserve, ClaimInBackground
  <2>3. runner'[x] = runner[x]
    BY <1>0, <1>9 DEF RouteDelegation, Reserve, ClaimInBackground
  <2>4. UNCHANGED <<consumed, deferred>>
    BY <1>9 DEF RouteDelegation, Reserve, ClaimInBackground, marks
  <2>5. OthersShrink(x)
    BY <1>1, <1>b, <2>1, <2>2, <2>3, <2>4 DEF OthersShrink
  <2> QED
    BY <1>a, <2>5
<1>10. ASSUME TakeEvent PROVE Goal
  <2>1. /\ drain' = [pc |-> IF Head(queue) \in Processes THEN "check" ELSE "busy",
                     task |-> Head(queue)]
        /\ UNCHANGED <<consumed, runner, deferred>>
    BY <1>10 DEF TakeEvent, marks
  <2>2. ~Routed(x)' /\ drain' # [pc |-> "mark", task |-> x]
    BY <2>1 DEF Routed
  <2>3. OthersShrink(x)
    BY <1>1, <2>1, <2>2 DEF OthersShrink
  <2> QED
    BY <1>a, <2>3
<1>11. ASSUME NEW y \in Processes,
              CheckSeen(y) \/ MarkConsumed(y) \/ RouteProcess(y) \/ RecordDeferred(y)
       PROVE  Goal
  <2>1. CASE y = x
    BY <1>4, <1>5, <1>6, <1>7, <1>11, <2>1
  <2> QED
    BY <1>8, <1>11, <2>1
<1> QED
  BY <1>9, <1>10, <1>11 DEF DrainThread, Goal

\* A thread that starts a turn delivers its process, or lets it be deferred.
LEMMA RunnersKeepOnce ==
    ASSUME StateInv, DeferredOnce, [Next]_vars, NEW y \in Tasks, Runner(y),
           NEW x \in Processes, ProcessOnce(x)
    PROVE  ProcessOnce(x)'
<1>0. /\ x \in Tasks /\ runner \in [Tasks -> RunnerPCs] /\ deferred \in Seq(Processes)
      /\ delivered \in [Tasks -> Nat] /\ RunnersKnow
  BY DEF StateInv, ThreadsInv, ThreadsTypeOK, QueuesTypeOK, HistoryTypeOK, Tasks
<1>1. UNCHANGED <<drain, consumed>>
  BY DEF Runner, StartTurn, RefusedForNow, RefusedWhilePaused, Failed, DeferAgain, Acknowledge,
         AcknowledgeFails, Release, marks
<1>2. \A t \in Turns : TurnShrinks(t, x)
  <2>1. CASE StartTurn(y)
    BY <2>1, AdmissionShrinks DEF StartTurn
  <2>2. CASE UNCHANGED turn
    BY <2>2 DEF TurnShrinks, CarriedShrinks, Carried
  <2> QED
    BY <2>1, <2>2
    DEF Runner, RefusedForNow, RefusedWhilePaused, Failed, DeferAgain, Acknowledge,
        AcknowledgeFails, Release
<1>3. (Elsewhere(x)' => Elsewhere(x)) /\ Routed(x)' = Routed(x) /\ (NoEventLeft(x) => NoEventLeft(x)')
  BY <1>1, <1>2, NoEventStays DEF TurnShrinks, CarriedShrinks, Elsewhere, Routed
<1> DEFINE Goal == ProcessOnce(x)'
<1>4. ASSUME StartTurn(x) PROVE Goal
  <2>1. /\ runner[x] # "none" /\ runner'[x] = "none" /\ delivered'[x] = delivered[x] + 1
        /\ UNCHANGED deferred
    BY <1>0, <1>4 DEF StartTurn
  <2>2. Taken(x) /\ delivered[x] = 0 /\ x \notin Range(deferred) /\ ~Elsewhere(x) /\ ~Routed(x)
    BY <1>0, <2>1 DEF ProcessOnce, InOnePlace, Taken
  <2>3. InOnePlace(x)'
    BY <1>3, <2>1, <2>2 DEF InOnePlace, Elsewhere
  <2>4. ConsumedWhenTaken(x)'
    BY <1>1, <1>2, <1>3, <2>2 DEF ConsumedWhenTaken, ProcessOnce, TurnShrinks
  <2> QED
    BY <2>3, <2>4 DEF ProcessOnce
<1>5. ASSUME DeferAgain(x) PROVE Goal
  <2>1. /\ runner[x] # "none" /\ runner'[x] = "none" /\ UNCHANGED delivered
        /\ Range(deferred') = Range(deferred) \cup {x}
    BY <1>0, <1>5, Recorded DEF DeferAgain, RecordLate
  <2>2. Taken(x) /\ ~(delivered[x] > 0) /\ ~Elsewhere(x) /\ ~Routed(x)
    BY <2>1 DEF ProcessOnce, InOnePlace, Taken
  <2>3. InOnePlace(x)'
    BY <1>3, <2>1, <2>2 DEF InOnePlace, ProcessOnce, Elsewhere
  <2>4. ConsumedWhenTaken(x)'
    BY <1>1, <1>2, <1>3, <2>2 DEF ConsumedWhenTaken, ProcessOnce, TurnShrinks
  <2> QED
    BY <2>3, <2>4 DEF ProcessOnce
<1>6. ASSUME ~(y = x /\ StartTurn(x)), ~(y = x /\ DeferAgain(x)) PROVE Goal
  <2>1. delivered'[x] = delivered[x]
    <3>1. CASE StartTurn(y)
      BY <1>0, <1>6, <3>1 DEF StartTurn
    <3>2. CASE ~StartTurn(y)
      BY <3>2 DEF Runner, RefusedForNow, RefusedWhilePaused, Failed, DeferAgain, Acknowledge,
                  AcknowledgeFails, Release, history
    <3> QED
      BY <3>1, <3>2
  <2>2. x \in Range(deferred') => x \in Range(deferred)
    <3>1. CASE UNCHANGED deferred
      BY <3>1
    <3>2. CASE DeferAgain(y)
      BY <1>0, <1>6, <3>2, Recorded DEF DeferAgain, RecordLate
    <3> QED
      BY <3>1, <3>2
      DEF Runner, StartTurn, RefusedForNow, RefusedWhilePaused, Failed, Acknowledge,
          AcknowledgeFails, Release
  <2>3. runner'[x] # "none" => runner[x] # "none"
    <3>1. CASE y = x
      <4>1. runner[y] # "none"
        BY DEF Runner, StartTurn, RefusedForNow, RefusedWhilePaused, Failed, DeferAgain,
               Acknowledge, AcknowledgeFails, Release
      <4> QED
        BY <3>1, <4>1
    <3>2. CASE y # x
      <4>1. \E pc : runner' = [runner EXCEPT ![y] = pc]
        BY DEF Runner, StartTurn, RefusedForNow, RefusedWhilePaused, Failed, DeferAgain,
               Acknowledge, AcknowledgeFails, Release
      <4> QED
        BY <1>0, <3>2, <4>1
    <3> QED
      BY <3>1, <3>2
  <2>4. OthersShrink(x)
    BY <1>1, <1>3, <2>1, <2>2, <2>3 DEF OthersShrink
  <2> QED
    BY <1>2, <2>4, ShrinkingKeepsOnce
<1> QED
  BY <1>4, <1>5, <1>6

\* A worker takes a process to its agent, and a hook hands it on.
LEMMA TurnsKeepOnce ==
    ASSUME StateInv, OneTurnIsLive, DeferredOnce, [Next]_vars, NEW t \in Turns, Worker(t) \/ Hook(t),
           NEW x \in Processes \ twice', ProcessOnce(x)
    PROVE  ProcessOnce(x)'
<1>0. /\ x \in Tasks /\ x # NoTask /\ runner \in [Tasks -> RunnerPCs] /\ deferred \in Seq(Processes)
      /\ delivered \in [Tasks -> Nat] /\ ThreadsTypeOK /\ Processes \subseteq Tasks
      /\ turn \in [Turns -> TurnType] /\ \A u \in Turns : turn[u] \in TurnType /\ TurnKnows(turn[u])
  BY NoTaskAssumption
  DEF StateInv, ThreadsInv, ThreadsTypeOK, QueuesTypeOK, HistoryTypeOK, TurnsKnow, Tasks
<1>1. UNCHANGED drain /\ \A u \in Turns \ {t} : turn'[u] = turn[u]
  BY <1>0
  DEF Worker, Hook, OpenStream, TakeAlong, Notify, EndOfQueue, Accept, CallAgent, Finish, Close,
      StopEarly, Orphan, HookLooks, HookClaims, HookDefersAgain, HookStarts
<1>2. /\ \A u \in Turns \ {t} : TurnShrinks(u, x) /\ Carried(u, x)' = Carried(u, x)
      /\ Routed(x)' = Routed(x)
      /\ NoEventLeft(x) => NoEventLeft(x)'
      /\ drain' = [pc |-> "mark", task |-> x] => drain = [pc |-> "mark", task |-> x]
  BY <1>1, NoEventStays DEF TurnShrinks, CarriedShrinks, Carried, Routed
<1> DEFINE Goal == ProcessOnce(x)'
<1>a. ASSUME TurnShrinks(t, x), OthersShrink(x) PROVE Goal
  BY <1>2, <1>a, ShrinkingKeepsOnce
<1>b. ASSUME turn[t].hand = <<>>, turn[t].notes = {} PROVE ~Carried(t, x)
  BY <1>b, EmptyRange DEF Carried
<1>3. ASSUME Notify(t), x = turn[t].task PROVE Goal
  <2>1. /\ turn[t].pc = "draining" /\ turn[t].hand = <<>>
        /\ turn' = [turn EXCEPT ![t].task = NoTask, ![t].notes = @ \cup {x}]
        /\ x \in consumed' /\ UNCHANGED <<runner, deferred, delivered>>
    BY <1>0, <1>3 DEF Notify, TurnKnows, history
  <2>2. turn'[t].task = NoTask /\ x \in turn'[t].notes
    BY <1>0, <2>1 DEF TurnType
  <2>3. ~Taken(x) /\ drain # [pc |-> "mark", task |-> x]
    BY <1>3 DEF ProcessOnce, ConsumedWhenTaken, NoEventLeft
  <2>4. \A u \in Turns \ {t} : ~Carried(u, x)'
    BY <1>2, <2>3 DEF Taken, Elsewhere
  <2>5. InOnePlace(x)'
    <3>1. delivered[x] = 0 /\ ~Routed(x)' /\ runner'[x] = "none" /\ x \notin Range(deferred')
      BY <1>0, <1>2, <2>1, <2>3 DEF Taken
    <3> QED
      BY <2>1, <2>4, <3>1 DEF InOnePlace
  <2>6. \A u \in Turns : turn'[u].task # x
    <3>1. ASSUME NEW u \in Turns \ {t}, turn[u].task = x PROVE FALSE
      <4>1. turn[u].pc = "draining"
        BY <1>0, <3>1 DEF TurnKnows
      <4> QED
        BY <2>1, <3>1, <4>1 DEF OneTurnIsLive, Live
    <3> QED
      BY <1>0, <1>1, <2>2, <3>1
  <2>7. ConsumedWhenTaken(x)'
    BY <1>2, <2>1, <2>3, <2>6 DEF ConsumedWhenTaken
  <2> QED
    BY <2>5, <2>7 DEF ProcessOnce
<1>4. ASSUME CallAgent(t), x \in turn[t].notes PROVE Goal
  <2>1. /\ turn[t].hand = <<>> /\ delivered'[x] = delivered[x] + 1
        /\ turn' = [turn EXCEPT ![t].pc = "working", ![t].notes = {}]
        /\ UNCHANGED <<runner, deferred, consumed>>
    BY <1>0, <1>4 DEF CallAgent, TurnKnows, marks
  <2>2. turn'[t].hand = <<>> /\ turn'[t].notes = {} /\ turn'[t].task = turn[t].task
    BY <1>0, <2>1 DEF TurnType
  <2>3. /\ Taken(x) /\ delivered[x] = 0 /\ runner[x] = "none" /\ x \notin Range(deferred)
        /\ ~Routed(x) /\ \A u \in Turns \ {t} : ~Carried(u, x)
    BY <1>0, <1>4 DEF ProcessOnce, InOnePlace, Taken, Elsewhere, Carried
  <2>4. ~Elsewhere(x)'
    BY <1>2, <2>2, <2>3, EmptyRange DEF Elsewhere, Carried
  <2>5. InOnePlace(x)'
    BY <1>2, <2>1, <2>3, <2>4 DEF InOnePlace, Elsewhere
  <2>6. \A u \in Turns : turn'[u].task = x => turn[u].task = x
    BY <1>1, <2>2
  <2>7. ConsumedWhenTaken(x)'
    BY <1>2, <2>1, <2>3, <2>6 DEF ConsumedWhenTaken, ProcessOnce
  <2> QED
    BY <2>5, <2>7 DEF ProcessOnce
<1>5. ASSUME HookClaims(t), x \in Range(deferred) PROVE Goal
  <2> DEFINE r == [NoTurn EXCEPT !.pc = "redefer", !.hand = deferred]
  <2>1. r.hand = deferred /\ r.notes = {} /\ r.task = NoTask
    BY DEF NoTurn
  <2>2. deferred # <<>>
    BY <1>5, EmptyRange
  <2>3. /\ turn' = [turn EXCEPT ![t] = r] /\ deferred' = <<>>
        /\ UNCHANGED <<runner, consumed, delivered>>
    BY <1>5, <2>2 DEF HookClaims
  <2> HIDE DEF r
  <2>4. turn'[t] = r
    BY <1>0, <2>3
  <2>5. /\ Taken(x) /\ delivered[x] = 0 /\ runner[x] = "none" /\ ~Routed(x) /\ ~Elsewhere(x)
    BY <1>0, <1>5 DEF ProcessOnce, InOnePlace, Taken
  <2>6. \A u \in Turns \ {t} : ~Carried(u, x)'
    BY <1>2, <2>5 DEF Elsewhere
  <2>7. InOnePlace(x)'
    BY <1>2, <2>3, <2>5, <2>6, EmptyRange DEF InOnePlace
  <2>8. \A u \in Turns : turn'[u].task = x => turn[u].task = x
    BY <1>0, <1>1, <2>1, <2>4
  <2>9. ConsumedWhenTaken(x)'
    BY <1>2, <2>3, <2>5, <2>8 DEF ConsumedWhenTaken, ProcessOnce
  <2> QED
    BY <2>7, <2>9 DEF ProcessOnce
<1>6. ASSUME HookDefersAgain(t), x = Head(Leftover(t)) PROVE Goal
  <2> DEFINE hand == <<Head(turn[t].hand)>> \o Tail(Leftover(t))
  <2>1. /\ turn' = [turn EXCEPT ![t].hand = hand] /\ deferred' = Record(x)
        /\ turn[t].notes = {} /\ UNCHANGED <<runner, consumed, delivered>>
    BY <1>0, <1>6 DEF HookDefersAgain, TurnKnows, marks, history
  <2>2. x \in Range(turn[t].hand) /\ x \notin Range(hand)
    BY <1>6, HandIsLeft
  <2> HIDE DEF hand
  <2>3. turn'[t].hand = hand /\ turn'[t].notes = {} /\ turn'[t].task = turn[t].task
    BY <1>0, <2>1 DEF TurnType
  <2>4. Range(deferred') = Range(deferred) \cup {x}
    BY <1>0, <2>1, Recorded
  <2>5. /\ Taken(x) /\ delivered[x] = 0 /\ runner[x] = "none" /\ ~Routed(x)
        /\ \A u \in Turns \ {t} : ~Carried(u, x)
    BY <1>0, <2>2 DEF ProcessOnce, InOnePlace, Taken, Elsewhere, Carried
  <2>6. ~Elsewhere(x)'
    BY <1>2, <2>2, <2>3, <2>5 DEF Elsewhere, Carried
  <2>7. InOnePlace(x)'
    BY <1>2, <2>1, <2>5, <2>6 DEF InOnePlace, Elsewhere
  <2>8. \A u \in Turns : turn'[u].task = x => turn[u].task = x
    BY <1>1, <2>3
  <2>9. ConsumedWhenTaken(x)'
    BY <1>2, <2>1, <2>5, <2>8 DEF ConsumedWhenTaken, ProcessOnce
  <2> QED
    BY <2>7, <2>9 DEF ProcessOnce
<1>7. ASSUME HookStarts(t), x = Head(turn[t].hand) PROVE Goal
  <2>1. /\ turn' = [turn EXCEPT ![t] = NoTurn] /\ runner' = [runner EXCEPT ![x] = "starting"]
        /\ UNCHANGED <<deferred, consumed, delivered>>
    BY <1>7 DEF HookStarts, marks, history
  <2>2. turn[t].hand \in Seq(Processes) /\ turn[t].hand # <<>>
    BY <1>0, <1>7 DEF HookStarts, TurnType, TurnKnows
  <2>3. x \in Range(turn[t].hand)
    BY <1>7, <2>2, RangeOfTail
  <2>4. turn'[t].hand = <<>> /\ turn'[t].notes = {} /\ turn'[t].task = NoTask
    BY <1>0, <2>1 DEF NoTurn
  <2>5. /\ Taken(x) /\ delivered[x] = 0 /\ ~Routed(x) /\ x \notin Range(deferred)
        /\ \A u \in Turns \ {t} : ~Carried(u, x)
    BY <1>0, <2>3 DEF ProcessOnce, InOnePlace, Taken, Elsewhere, Carried
  <2>6. ~Elsewhere(x)'
    BY <1>2, <2>4, <2>5, EmptyRange DEF Elsewhere, Carried
  <2>7. InOnePlace(x)'
    BY <1>2, <2>1, <2>5, <2>6 DEF InOnePlace, Elsewhere
  <2>8. \A u \in Turns : turn'[u].task = x => turn[u].task = x
    BY <1>0, <1>1, <2>4
  <2>9. ConsumedWhenTaken(x)'
    BY <1>2, <2>1, <2>5, <2>8 DEF ConsumedWhenTaken, ProcessOnce
  <2> QED
    BY <2>7, <2>9 DEF ProcessOnce
<1>8. ASSUME TakeAlong(t) PROVE Goal
  <2>1. OthersShrink(x)
    BY <1>2, <1>8 DEF TakeAlong, OthersShrink, marks
  <2>2. CarriedShrinks(t, x)
    <3>1. ~Notify(t) /\ ~HookClaims(t)
      BY <1>0, <1>8 DEF TakeAlong, Notify, HookClaims
    <3> QED
      BY <3>1, TurnsShrink
  <2>3. CASE turn'[t].task = x => turn[t].task = x
    BY <1>a, <2>1, <2>2, <2>3 DEF TurnShrinks
  <2>4. CASE turn'[t].task = x /\ turn[t].task # x
    <3>1. /\ x \notin consumed
          /\ drain = [pc |-> "mark", task |-> x] => x \in twice'
      BY <1>0, <2>4, TurnsGain DEF TurnGains
    <3>2. x \notin consumed' /\ drain # [pc |-> "mark", task |-> x]
      BY <1>8, <3>1 DEF TakeAlong, marks
    <3>3. InOnePlace(x)' /\ (Taken(x)' => Taken(x))
      <4>1. \A u \in Turns : CarriedShrinks(u, x)
        BY <1>2, <2>2 DEF TurnShrinks
      <4> QED
        BY <2>1, <4>1
        DEF ProcessOnce, InOnePlace, OthersShrink, CarriedShrinks, Elsewhere, Taken
    <3>4. ConsumedWhenTaken(x)'
      BY <1>2, <3>1, <3>2, <3>3 DEF ConsumedWhenTaken, ProcessOnce
    <3> QED
      BY <3>3, <3>4 DEF ProcessOnce
  <2> QED
    BY <2>3, <2>4
<1>9. ASSUME ~TakeAlong(t), ~(Notify(t) /\ x = turn[t].task), ~(CallAgent(t) /\ x \in turn[t].notes),
             ~(HookClaims(t) /\ x \in Range(deferred)),
             ~(HookDefersAgain(t) /\ x = Head(Leftover(t))),
             ~(HookStarts(t) /\ x = Head(turn[t].hand))
      PROVE  Goal
  <2>1. TurnShrinks(t, x)
    BY <1>9, TurnsShrink DEF TurnShrinks
  <2>2. delivered'[x] = delivered[x]
    <3>1. CASE CallAgent(t)
      BY <1>0, <1>9, <3>1 DEF CallAgent
    <3>2. CASE ~CallAgent(t)
      BY <1>9, <3>2
      DEF Worker, Hook, OpenStream, Notify, EndOfQueue, Accept, Finish, StopEarly, Orphan,
          HookLooks, HookClaims, HookDefersAgain, HookStarts, history
    <3> QED
      BY <3>1, <3>2
  <2>3. x \in consumed' <=> x \in consumed
    <3>1. CASE Notify(t)
      BY <1>9, <3>1 DEF Notify
    <3>2. CASE ~Notify(t)
      BY <1>9, <3>2
      DEF Worker, Hook, OpenStream, EndOfQueue, Accept, CallAgent, Finish, StopEarly, Orphan,
          HookLooks, HookClaims, HookDefersAgain, HookStarts, marks
    <3> QED
      BY <3>1, <3>2
  <2>4. x \in Range(deferred') => x \in Range(deferred)
    <3>1. CASE HookDefersAgain(t)
      <4>1. deferred' = Record(Head(Leftover(t))) /\ Head(Leftover(t)) \in Processes
        BY <1>0, <3>1, HandStep DEF HookDefersAgain
      <4> QED
        BY <1>0, <1>9, <3>1, <4>1, Recorded
    <3>2. CASE HookClaims(t)
      BY <3>2, EmptyRange DEF HookClaims
    <3>3. CASE ~HookDefersAgain(t) /\ ~HookClaims(t)
      BY <1>9, <3>3
      DEF Worker, Hook, OpenStream, Notify, EndOfQueue, Accept, CallAgent, Finish, StopEarly,
          Orphan, HookLooks, HookStarts
    <3> QED
      BY <3>1, <3>2, <3>3
  <2>5. runner'[x] # "none" => runner[x] # "none"
    <3>1. CASE HookStarts(t)
      BY <1>0, <1>9, <3>1 DEF HookStarts
    <3>2. CASE ~HookStarts(t)
      BY <1>9, <3>2
      DEF Worker, Hook, OpenStream, Notify, EndOfQueue, Accept, CallAgent, Finish, StopEarly,
          Orphan, HookLooks, HookClaims, HookDefersAgain
    <3> QED
      BY <3>1, <3>2
  <2>6. OthersShrink(x)
    BY <1>2, <2>2, <2>3, <2>4, <2>5 DEF OthersShrink
  <2> QED
    BY <1>a, <2>1, <2>6
<1> QED
  BY <1>3, <1>4, <1>5, <1>6, <1>7, <1>8, <1>9

\* What a restart leaves of a process: whether it was delivered.
LEMMA CrashKeepsOnce ==
    ASSUME StateInv, [Next]_vars, Crash, NEW x \in Processes, ProcessOnce(x)
    PROVE  ProcessOnce(x)'
<1>0. /\ due \in Budget /\ x # NoTask /\ x \notin Delegations
      /\ Idle.task = NoTask /\ Idle.pc = "idle"
      /\ NoTurn.hand = <<>> /\ NoTurn.notes = {} /\ NoTurn.task = NoTask
  BY NoTaskAssumption, WakeupsAssumption
  DEF StateInv, ThreadsInv, QueuesTypeOK, Tasks, Idle, NoTurn
<1>1. /\ drain' = Idle /\ runner' = [y \in Tasks |-> "none"] /\ turn' = [t \in Turns |-> NoTurn]
      /\ deferred' = <<>> /\ UNCHANGED delivered /\ Range(queue') = Undelivered
  BY DEF Crash
<1>2. /\ ~Routed(x)' /\ runner'[x] = "none" /\ x \notin Range(deferred') /\ ~Elsewhere(x)'
      /\ drain'.task # x /\ \A t \in Turns : turn'[t].task # x
      /\ x \notin Range(queue')
  BY <1>0, <1>1, EmptyRange DEF Routed, Elsewhere, Carried, Tasks, Undelivered
<1>3. InOnePlace(x)'
  BY <1>1, <1>2 DEF ProcessOnce, InOnePlace, Elsewhere
<1>4. ASSUME x \in consumed PROVE NoEventLeft(x)'
  <2> DEFINE ends == [y \in Processes |-> IF y \in Reported THEN 0 ELSE due.ends[y]]
             n == due.crashes - 1
  <2>1. ends[x] = 0
    BY <1>4 DEF Reported
  <2>2. due' = [due EXCEPT !.crashes = n, !.ends = ends]
    BY DEF Crash
  <2> HIDE DEF ends, n
  <2>3. due'.ends = ends
    BY <1>0, <2>2 DEF Budget
  <2> QED
    BY <1>2, <2>1, <2>3 DEF NoEventLeft
<1>5. Taken(x)' => NoEventLeft(x)'
  <2>1. Taken(x)' => Taken(x)
    BY <1>1, <1>2 DEF Taken
  <2> QED
    BY <1>4, <2>1, NoEventStays DEF ProcessOnce, ConsumedWhenTaken
<1>6. ConsumedWhenTaken(x)'
  BY <1>0, <1>1, <1>2, <1>5 DEF ConsumedWhenTaken
<1> QED
  BY <1>3, <1>6 DEF ProcessOnce

\* Every step keeps a process in one place.
LEMMA ProcessOnceStep ==
    ASSUME StateInv, OneTurnIsLive, DeferredOnce, [Next]_vars,
           NEW x \in Processes \ twice', ProcessOnce(x)
    PROVE  ProcessOnce(x)'
<1>1. ASSUME UserStarts PROVE ProcessOnce(x)'
  <2>1. OthersShrink(x)
    BY <1>1 DEF UserStarts, OthersShrink, Routed, history
  <2> QED
    BY <1>1, <2>1, AdmissionShrinks, ShrinkingKeepsOnce DEF UserStarts
<1>2. ASSUME \/ Sweep \/ ForgetSeen \/ UNCHANGED vars
             \/ \E y \in Processes : ProcessEnds(y)
             \/ \E d \in Delegations : DelegationEnds(d) \/ LeaseExpires(d)
      PROVE  ProcessOnce(x)'
  <2>1. UNCHANGED <<consumed, drain, runner, turn, deferred, delivered>>
    BY <1>2
    DEF Sweep, ForgetSeen, vars, ProcessEnds, DelegationEnds, LeaseExpires, marks, threads, history
  <2>2. OthersShrink(x) /\ \A t \in Turns : TurnShrinks(t, x)
    BY <2>1 DEF OthersShrink, TurnShrinks, CarriedShrinks, Carried, Routed
  <2> QED
    BY <2>2, ShrinkingKeepsOnce
<1> QED
  BY <1>1, <1>2, DrainKeepsOnce, RunnersKeepOnce, TurnsKeepOnce, CrashKeepsOnce DEF Next

(***************************************************************************)
(* No completion is brought to the agent twice, except as DeliveredOnce    *)
(* says, for any number of tasks and turns: the drain thread, the threads  *)
(* that start turns, the next-turn drains and the hooks.                   *)
(***************************************************************************)
THEOREM NothingIsDeliveredTwice == Spec => []DeliveredOnce
<1>1. Init => OnceInv
  <2> SUFFICES ASSUME Init PROVE OnceInv
    OBVIOUS
  <2>0. /\ NoTurn.pc = "free" /\ NoTurn.hand = <<>> /\ NoTurn.notes = {} /\ NoTurn.task = NoTask
        /\ Idle.task = NoTask /\ Idle.pc = "idle" /\ NoTask \notin Tasks
        /\ turn = [t \in Turns |-> NoTurn] /\ drain = Idle /\ deferred = <<>>
        /\ runner = [x \in Tasks |-> "none"] /\ delivered = [x \in Tasks |-> 0]
    BY NoTaskAssumption DEF Init, NoTurn, Idle
  <2>1. OneTurnIsLive /\ DeferredOnce
    BY <2>0, DistinctEmpty DEF OneTurnIsLive, DeferredOnce, Live
  <2>2. ASSUME NEW d \in Delegations PROVE DelegationOnce(d)
    BY <2>0 DEF DelegationOnce, Tasks
  <2>3. ASSUME NEW x \in Processes PROVE ProcessOnce(x)
    BY <2>0, EmptyRange
    DEF ProcessOnce, InOnePlace, ConsumedWhenTaken, Taken, Routed, Elsewhere, Carried, Tasks
  <2> QED
    BY <2>1, <2>2, <2>3 DEF OnceInv
<1>2. StateInv /\ OnceInv /\ [Next]_vars => OnceInv'
  <2> SUFFICES ASSUME StateInv, OnceInv, [Next]_vars PROVE OnceInv'
    OBVIOUS
  <2>1. OneTurnIsLive' /\ DeferredOnce'
    BY LiveStep, DistinctStep DEF OnceInv
  <2>2. ASSUME NEW d \in Delegations \ twice' PROVE DelegationOnce(d)'
    BY TwiceGrows, DelegationOnceStep DEF OnceInv
  <2>3. ASSUME NEW x \in Processes \ twice' PROVE ProcessOnce(x)'
    BY TwiceGrows, ProcessOnceStep DEF OnceInv
  <2> QED
    BY <2>1, <2>2, <2>3 DEF OnceInv
<1>3. OnceInv => DeliveredOnce
  BY DEF OnceInv, DelegationOnce, ProcessOnce, InOnePlace, DeliveredOnce, Tasks
<1> QED
  BY <1>1, <1>2, <1>3, StateIsKept, PTL DEF Spec
=============================================================================
