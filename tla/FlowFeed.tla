------------------------------ MODULE FlowFeed ------------------------------
(***************************************************************************)
(* How the page learns of its flow (src/pages/CreateFlow.tsx): by the      *)
(* events of a WebSocket, each subscriber with a bounded queue of its own  *)
(* (service.events, service._publish_snapshot, api/websocket.py), by a     *)
(* poll every three seconds and by the answers to what the user asks.      *)
(* These three overtake each other.  A snapshot is represented by its      *)
(* number.                                                                 *)
(***************************************************************************)
EXTENDS Naturals, Sequences

CONSTANTS
    Capacity,       \* of a subscriber's queue
    LastSnapshot,   \* bound on the snapshots of a flow
    MaxDrops        \* connections that are lost

ASSUME FeedAssumption ==
    /\ Capacity \in Nat \ {0} /\ LastSnapshot \in Nat \ {0} /\ MaxDrops \in Nat

VARIABLES
    now,      \* the flow's snapshot
    end,      \* the snapshot that is terminal; 0: none yet
    stream,   \* the page's connection: "off", "sending", "waiting", or "left": the
              \* page has closed it and the server has not noticed
    queue,    \* the subscriber's queue
    held,     \* the event that is being sent
    popped,   \* the last event taken from the queue, or the initial one
    shown,    \* the session of the page; 0: none
    poll,     \* a poll under way
    action,   \* a request of the user under way (isActionPendingRef)
    drops

server == <<now, end>>
connection == <<stream, queue, held, popped, drops>>
vars == <<server, connection, shown, poll, action>>

Snapshot == 1 .. LastSnapshot
None == 0

\* reply: None until it is served.  current: no action has begun since it was sent.
Request == [sent : BOOLEAN, reply : Snapshot \cup {None}, current : BOOLEAN]
NoRequest == [sent |-> FALSE, reply |-> None, current |-> FALSE]
Sent == [sent |-> TRUE, reply |-> None, current |-> TRUE]

TypeOK ==
    /\ now \in Snapshot /\ end \in {None, now}
    /\ stream \in {"off", "sending", "waiting", "left"}
    /\ queue \in Seq(Snapshot) /\ Len(queue) <= Capacity
    /\ held \in Snapshot \cup {None} /\ popped \in Snapshot \cup {None}
    /\ shown \in Snapshot \cup {None}
    /\ poll \in Request /\ action \in Request
    /\ drops \in 0 .. MaxDrops

Init ==
    /\ now = 1 /\ end = None
    /\ stream = "off" /\ queue = <<>> /\ held = None /\ popped = None
    /\ shown = None /\ poll = NoRequest /\ action = NoRequest
    /\ drops = 0

(***************************************************************************)
(* The service                                                             *)
(***************************************************************************)
Subscribed == stream # "off"

\* Mutants: a queue that grows; a full queue that refuses what is new.
PutAll(n) == Append(queue, n)
PutIfRoom(n) == IF Len(queue) = Capacity THEN queue ELSE Append(queue, n)

\* A slow subscriber loses the oldest event.
Put(n) == Append(IF Len(queue) = Capacity THEN Tail(queue) ELSE queue, n)

\* _publish_snapshot, from every transition and once more when an operation returns.
Publish(n) == queue' = IF Subscribed THEN Put(n) ELSE queue

\* A step of the flow; the terminal one is the last.
Advance ==
    /\ now < LastSnapshot /\ end = None
    /\ now' = now + 1 /\ end' \in {None, now + 1}
    /\ Publish(now + 1)
    /\ UNCHANGED <<stream, held, popped, drops, shown, poll, action>>

PublishAgain ==
    /\ Subscribed /\ Publish(now)
    /\ UNCHANGED <<server, stream, held, popped, drops, shown, poll, action>>

(***************************************************************************)
(* The page: setSession, and the effect that depends on activeFlowId       *)
(***************************************************************************)
Active(n) == n # None /\ n # end

\* A session that is over ends the subscription and aborts the poll; one that is not,
\* be it an old one, begins them again.
Show(n) ==
    /\ shown' = n
    /\ IF Active(n)
       THEN UNCHANGED poll
       ELSE poll' = NoRequest
    /\ stream' = IF Active(n) \/ stream = "off" THEN stream ELSE "left"

\* handleStart: POST /api/accounts answers with the snapshot of the new flow.
StartFlow ==
    /\ shown = None /\ Show(now)
    /\ UNCHANGED <<server, queue, held, popped, drops, action>>

\* Mutant: a connection that broke stays so.
ConnectOnce ==
    /\ Active(shown) /\ stream = "off"
    /\ stream' = "sending" /\ queue' = <<>> /\ popped' = now /\ held' = now
    /\ UNCHANGED <<server, drops, shown, poll, action>>

\* service.events registers the queue and takes the first snapshot in one go.  The page
\* has one socket at a time; the queue of one it has left dies with its next event.
Connect ==
    /\ Active(shown) /\ stream \in {"off", "left"}
    /\ stream' = "sending" /\ queue' = <<>> /\ popped' = now /\ held' = now
    /\ UNCHANGED <<server, drops, shown, poll, action>>

Deliver ==
    /\ stream = "sending"
    /\ shown' = held /\ held' = None
    /\ stream' = IF Active(held) THEN "waiting" ELSE "left"
    /\ poll' = IF Active(held) THEN poll ELSE NoRequest
    /\ UNCHANGED <<server, queue, popped, drops, action>>

Take ==
    /\ stream = "waiting" /\ queue # <<>>
    /\ stream' = "sending"
    /\ held' = Head(queue) /\ popped' = Head(queue) /\ queue' = Tail(queue)
    /\ UNCHANGED <<server, drops, shown, poll, action>>

\* The server notices with the event it tries to send.
NoticeLeft ==
    /\ stream = "left" /\ queue # <<>>
    /\ stream' = "off" /\ queue' = <<>> /\ held' = None /\ popped' = None
    /\ UNCHANGED <<server, drops, shown, poll, action>>

\* The connection breaks; the page connects again after a second.
Drop ==
    /\ stream \in {"sending", "waiting"} /\ drops < MaxDrops /\ drops' = drops + 1
    /\ stream' = "left" /\ held' = None
    /\ UNCHANGED <<server, queue, popped, shown, poll, action>>

(***************************************************************************)
(* Polls and actions                                                       *)
(***************************************************************************)
Poll ==
    /\ Active(shown) /\ ~poll.sent /\ ~action.sent
    /\ poll' = Sent
    /\ UNCHANGED <<server, connection, shown, action>>

ServePoll ==
    /\ poll.sent /\ poll.reply = None
    /\ poll' = [poll EXCEPT !.reply = now]
    /\ UNCHANGED <<server, connection, shown, action>>

\* An answer is worth nothing once an action has begun.
PollAnswered ==
    /\ poll.reply # None
    /\ IF poll.current
       THEN /\ shown' = poll.reply
            /\ stream' = IF Active(poll.reply) \/ stream = "off" THEN stream ELSE "left"
       ELSE UNCHANGED <<shown, stream>>
    /\ poll' = NoRequest
    /\ UNCHANGED <<server, queue, held, popped, drops, action>>

\* handleContinue, handlePause, handleCancel, handleRefresh
Act ==
    /\ Active(shown) /\ ~action.sent
    /\ action' = Sent /\ poll' = [poll EXCEPT !.current = FALSE]
    /\ UNCHANGED <<server, connection, shown>>

\* A flow that is over refuses: the page shows the error and keeps its session.
ServeAction ==
    /\ action.sent /\ action.reply = None
    /\ action' = IF end = None THEN [action EXCEPT !.reply = now] ELSE NoRequest
    /\ UNCHANGED <<server, connection, shown, poll>>

ActionAnswered ==
    /\ action.reply # None /\ Show(action.reply)
    /\ action' = NoRequest
    /\ UNCHANGED <<server, queue, held, popped, drops>>

Delivery == Connect \/ Deliver \/ Take \/ NoticeLeft

Next ==
    \/ Advance \/ PublishAgain \/ StartFlow \/ Delivery \/ Drop
    \/ Poll \/ ServePoll \/ PollAnswered \/ Act \/ ServeAction \/ ActionAnswered

Spec == Init /\ [][Next]_vars

\* Server, network and page do what they have begun; nobody has to act or to poll.
FairSpec ==
    /\ Spec
    /\ WF_vars(Connect) /\ WF_vars(Deliver) /\ WF_vars(Take) /\ WF_vars(StartFlow)
    /\ WF_vars(ServePoll) /\ WF_vars(PollAnswered)
    /\ WF_vars(ServeAction) /\ WF_vars(ActionAnswered)

(***************************************************************************)
(* Guarantees                                                              *)
(***************************************************************************)
\* However slow the subscriber, what it will read last is the flow's present snapshot:
\* the queue drops the oldest events, never the newest.
LastIsLatest ==
    Subscribed => now = IF queue = <<>> THEN popped ELSE queue[Len(queue)]

\* The page comes to show the end of the flow and stays with it, by its events alone,
\* whatever answers to polls and actions arrive late and put an older session back.
EndIsShown == (end # None) ~> [](shown = end)
=============================================================================
