----------------------------- MODULE FeedProofs -----------------------------
(***************************************************************************)
(* The events of a flow, for queues of any length, any number of snapshots *)
(* and of lost connections: types, and that a slow subscriber never loses  *)
(* the newest snapshot.                                                    *)
(***************************************************************************)
EXTENDS FlowFeed, SequenceTheorems, TLAPS

USE FeedAssumption DEF Snapshot, None

\* A queue into which something has been put ends with it and is not too long.
LEMMA PutLast ==
    ASSUME queue \in Seq(Snapshot), Len(queue) <= Capacity, NEW n \in Snapshot
    PROVE  /\ Put(n) \in Seq(Snapshot) /\ Len(Put(n)) <= Capacity
           /\ Put(n) # <<>> /\ Put(n)[Len(Put(n))] = n
<1>1. CASE Len(queue) = Capacity
  <2>1. queue # <<>>
    BY <1>1
  <2>2. Tail(queue) \in Seq(Snapshot) /\ Len(Tail(queue)) = Len(queue) - 1
    BY <2>1
  <2>3. Put(n) = Append(Tail(queue), n)
    BY <1>1 DEF Put
  <2> QED
    BY <1>1, <2>2, <2>3
<1>2. CASE Len(queue) # Capacity
  <2>1. Put(n) = Append(queue, n)
    BY <1>2 DEF Put
  <2> QED
    BY <1>2, <2>1
<1> QED
  BY <1>1, <1>2

\* Publishing keeps a queue a queue, with the new snapshot last if anybody listens.
LEMMA Published ==
    ASSUME TypeOK, NEW n \in Snapshot, Publish(n)
    PROVE  /\ queue' \in Seq(Snapshot) /\ Len(queue') <= Capacity
           /\ Subscribed => queue' # <<>> /\ queue'[Len(queue')] = n
<1>1. CASE Subscribed
  BY <1>1, PutLast DEF Publish, TypeOK
<1>2. CASE ~Subscribed
  BY <1>2 DEF Publish, TypeOK
<1> QED
  BY <1>1, <1>2

\* Reading the queue hands out its end in the end.
LEMMA TakeKeepsLast ==
    ASSUME TypeOK, Take
    PROVE  /\ queue' \in Seq(Snapshot) /\ Len(queue') <= Capacity
           /\ popped' \in Snapshot /\ held' \in Snapshot
           /\ queue[Len(queue)] = IF queue' = <<>> THEN popped' ELSE queue'[Len(queue')]
<1>1. queue \in Seq(Snapshot) /\ queue # <<>> /\ queue' = Tail(queue)
      /\ popped' = Head(queue) /\ held' = Head(queue) /\ Len(queue) <= Capacity
  BY DEF Take, TypeOK
<1>2. Tail(queue) \in Seq(Snapshot) /\ Len(Tail(queue)) = Len(queue) - 1
      /\ Head(queue) = queue[1] /\ Head(queue) \in Snapshot /\ Len(queue) \in Nat \ {0}
  BY <1>1
<1>3. CASE Tail(queue) = <<>>
  <2>1. Len(queue) - 1 = 0 /\ Len(queue) \in Nat
    <3>1. Len(Tail(queue)) = 0
      BY <1>3, EmptySeq, Zenon
    <3>2. Len(Tail(queue)) = Len(queue) - 1 /\ Len(queue) \in Nat \ {0}
      BY <1>2, Zenon
    <3> QED
      BY <3>1, <3>2
  <2>2. Len(queue) = 1
    BY <2>1
  <2> QED
    BY <1>1, <1>2, <1>3, <2>2
<1>4. CASE Tail(queue) # <<>>
  <2>1. Len(queue) - 1 \in 1 .. Len(Tail(queue))
    BY <1>2, <1>4, EmptySeq
  <2>2. Tail(queue)[Len(queue) - 1] = queue[Len(queue)]
    BY <1>1, <1>2, <2>1
  <2> QED
    BY <1>1, <1>2, <1>4, <2>2
<1> QED
  BY <1>3, <1>4

\* What the page shows is a snapshot; it may end the subscription and the poll.
LEMMA Shown ==
    ASSUME TypeOK, NEW n \in Snapshot, Show(n)
    PROVE  /\ shown' \in Snapshot /\ poll' \in Request
           /\ stream' \in {"off", "sending", "waiting", "left"}
<1>1. NoRequest \in Request
  BY DEF NoRequest, Request
<1>2. CASE Active(n)
  BY <1>2 DEF Show, TypeOK
<1>3. CASE ~Active(n)
  BY <1>1, <1>3 DEF Show, TypeOK
<1> QED
  BY <1>2, <1>3

IInv == TypeOK /\ LastIsLatest

LEMMA TypeStep == ASSUME TypeOK, [Next]_vars PROVE TypeOK'
<1> USE DEF Request, NoRequest, Sent
<1>1. CASE Advance
  <2>1. now + 1 \in Snapshot
    BY <1>1 DEF Advance, TypeOK
  <2>2. queue' \in Seq(Snapshot) /\ Len(queue') <= Capacity
    BY <1>1, <2>1, Published DEF Advance
  <2> QED
    BY <1>1, <2>1, <2>2 DEF Advance, TypeOK
<1>2. CASE PublishAgain
  <2>1. queue' \in Seq(Snapshot) /\ Len(queue') <= Capacity
    BY <1>2, Published DEF PublishAgain, TypeOK
  <2> QED
    BY <1>2, <2>1 DEF PublishAgain, TypeOK, server
<1>3. CASE StartFlow
  <2>1. now \in Snapshot /\ Show(now)
    BY <1>3 DEF StartFlow, TypeOK
  <2> QED
    BY <1>3, <2>1, Shown DEF StartFlow, TypeOK, server
<1>4. CASE Connect
  BY <1>4 DEF Connect, TypeOK, server
<1>5. CASE Deliver
  BY <1>5 DEF Deliver, Active, TypeOK, server
<1>6. CASE Take
  BY <1>6, TakeKeepsLast DEF Take, TypeOK, server
<1>7. CASE NoticeLeft
  BY <1>7 DEF NoticeLeft, TypeOK, server
<1>8. CASE Drop
  BY <1>8 DEF Drop, TypeOK, server
<1>9. CASE Poll
  BY <1>9 DEF Poll, TypeOK, server, connection
<1>10. CASE ServePoll
  BY <1>10 DEF ServePoll, TypeOK, server, connection
<1>11. CASE PollAnswered
  BY <1>11 DEF PollAnswered, Active, TypeOK, server
<1>12. CASE Act
  BY <1>12 DEF Act, TypeOK, server, connection
<1>13. CASE ServeAction
  BY <1>13 DEF ServeAction, TypeOK, server, connection
<1>14. CASE ActionAnswered
  <2>1. action.reply \in Snapshot /\ Show(action.reply)
    BY <1>14 DEF ActionAnswered, TypeOK
  <2> QED
    BY <1>14, <2>1, Shown DEF ActionAnswered, TypeOK, server
<1>15. CASE UNCHANGED vars
  BY <1>15 DEF TypeOK, vars, server, connection
<1> QED
  BY <1>1, <1>2, <1>3, <1>4, <1>5, <1>6, <1>7, <1>8, <1>9, <1>10, <1>11, <1>12, <1>13,
     <1>14, <1>15 DEF Next, Delivery

LEMMA LatestStep == ASSUME TypeOK, LastIsLatest, [Next]_vars PROVE LastIsLatest'
<1>1. CASE Advance
  <2>1. now + 1 \in Snapshot
    BY <1>1 DEF Advance, TypeOK
  <2> QED
    BY <1>1, <2>1, Published DEF Advance, LastIsLatest, Subscribed
<1>2. CASE PublishAgain
  BY <1>2, Published DEF PublishAgain, LastIsLatest, Subscribed, TypeOK, server
<1>3. CASE Connect
  BY <1>3 DEF Connect, LastIsLatest, server
<1>4. CASE Take
  BY <1>4, TakeKeepsLast DEF Take, LastIsLatest, Subscribed, server
<1>5. CASE NoticeLeft
  BY <1>5 DEF NoticeLeft, LastIsLatest, Subscribed
<1>6. CASE StartFlow \/ Deliver \/ Drop \/ PollAnswered \/ ActionAnswered
  \* What the page shows, or the end of a connection, leaves the queue alone.
  <2>1. UNCHANGED <<now, queue, popped>>
    BY <1>6 DEF StartFlow, Deliver, Drop, PollAnswered, ActionAnswered, server
  <2>2. Subscribed' => Subscribed
    BY <1>6 DEF StartFlow, Deliver, Drop, PollAnswered, ActionAnswered, Show, Subscribed
  <2> QED
    BY <2>1, <2>2 DEF LastIsLatest
<1>7. CASE Poll \/ ServePoll \/ Act \/ ServeAction \/ UNCHANGED vars
  BY <1>7 DEF Poll, ServePoll, Act, ServeAction, vars, server, connection, LastIsLatest, Subscribed
<1> QED
  BY <1>1, <1>2, <1>3, <1>4, <1>5, <1>6, <1>7 DEF Next, Delivery

LEMMA InitInv == Init => IInv
  BY DEF Init, IInv, TypeOK, LastIsLatest, Subscribed, Request, NoRequest

\* The inductive invariant of the feed.
THEOREM Invariant == Spec => []IInv
<1>1. IInv /\ [Next]_vars => IInv'
  BY TypeStep, LatestStep DEF IInv
<1> QED
  BY InitInv, <1>1, PTL DEF Spec

\* Every variable keeps its type, queues stay within their bound.
THEOREM TypeCorrect == Spec => []TypeOK
  BY Invariant, PTL DEF IInv

\* _publish_snapshot never costs a subscriber the newest snapshot.
THEOREM Latest == Spec => []LastIsLatest
  BY Invariant, PTL DEF IInv
=============================================================================
