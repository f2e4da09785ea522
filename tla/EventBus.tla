----------------------------- MODULE EventBus -----------------------------
(***************************************************************************)
(* The server's end of the event feed.  Worker threads publish events; each*)
(* WebSocket client has a bounded queue that only the event loop fills and *)
(* a handler on that loop that empties it.  Events are numbered by their   *)
(* publisher.                                                              *)
(***************************************************************************)
EXTENDS Naturals, Sequences

CONSTANTS
    Clients,        \* connections, each used once
    Publishers,     \* the storage worker and the health monitor
    QueueSize,      \* EventBus(queue_size)
    MaxEvents       \* events of each publisher (bound)

ASSUME BusAssumption == QueueSize \in Nat \ {0} /\ MaxEvents \in Nat

VARIABLES
    published,      \* events each publisher has published
    targets,        \* subscribers its last event is still to be posted to
    posted,         \* callbacks the loop has still to run: <<client, event>>
    subscribers,
    queue,          \* each client's asyncio.Queue
    handler,        \* where each client's handler is
    hand,           \* the event it is sending
    up,             \* clients at the other end of their connection
    last,           \* history: newest event sent, or missed before subscribing
    overrun         \* history: clients that found their queue full

busVars == <<published, targets, posted, subscribers, queue, handler, hand, up, last, overrun>>

Events == Publishers \X (1..MaxEvents)

BusTypeOK ==
    /\ published \in [Publishers -> 0..MaxEvents]
    /\ targets \in [Publishers -> SUBSET Clients]
    /\ posted \in Seq(Clients \X Events)
    /\ subscribers \subseteq Clients
    /\ queue \in [Clients -> Seq(Events)]
    /\ \A c \in Clients : Len(queue[c]) <= QueueSize
    /\ handler \in [Clients -> {"none", "stats", "status", "get", "send", "gone"}]
    /\ hand \in [Clients -> Seq(Events)]
    /\ up \subseteq Clients
    /\ last \in [Clients -> [Publishers -> 0..MaxEvents]]
    /\ overrun \subseteq Clients

BusInit ==
    /\ published = [p \in Publishers |-> 0]
    /\ targets = [p \in Publishers |-> {}]
    /\ posted = <<>>
    /\ subscribers = {}
    /\ queue = [c \in Clients |-> <<>>]
    /\ handler = [c \in Clients |-> "none"]
    /\ hand = [c \in Clients |-> <<>>]
    /\ up = {}
    /\ last = [c \in Clients |-> published]
    /\ overrun = {}

---------------------------------------------------------------------------
(* EventBus.publish, from the publisher's thread *)

PublishToReady(p) ==
    /\ targets[p] = {} /\ published[p] < MaxEvents
    /\ published' = [published EXCEPT ![p] = @ + 1]
    /\ targets' = [targets EXCEPT ![p] = {c \in subscribers : handler[c] \in {"get", "send"}}]
    /\ UNCHANGED <<posted, subscribers, queue, handler, hand, up, last, overrun>>

\* The subscribers are copied under the lock.
Publish(p) ==
    /\ targets[p] = {} /\ published[p] < MaxEvents
    /\ published' = [published EXCEPT ![p] = @ + 1]
    /\ targets' = [targets EXCEPT ![p] = subscribers]
    /\ UNCHANGED <<posted, subscribers, queue, handler, hand, up, last, overrun>>

PostFirst(p, c) ==
    /\ c \in targets[p]
    /\ targets' = [targets EXCEPT ![p] = @ \ {c}]
    /\ posted' = <<<<c, <<p, published[p]>>>>>> \o posted
    /\ UNCHANGED <<published, subscribers, queue, handler, hand, up, last, overrun>>

\* call_soon_threadsafe, outside the lock: the client may have left by now.
Post(p, c) ==
    /\ c \in targets[p]
    /\ targets' = [targets EXCEPT ![p] = @ \ {c}]
    /\ posted' = Append(posted, <<c, <<p, published[p]>>>>)
    /\ UNCHANGED <<published, subscribers, queue, handler, hand, up, last, overrun>>

---------------------------------------------------------------------------
(* The event loop *)

OfferUnbounded ==
    /\ posted # <<>>
    /\ posted' = Tail(posted)
    /\ queue' = [queue EXCEPT ![Head(posted)[1]] = Append(@, Head(posted)[2])]
    /\ UNCHANGED <<published, targets, subscribers, handler, hand, up, last, overrun>>

\* _offer: a full queue refuses the event.
Offer ==
    /\ posted # <<>>
    /\ posted' = Tail(posted)
    /\ LET c == Head(posted)[1]
       IN  IF Len(queue[c]) < QueueSize
             THEN queue' = [queue EXCEPT ![c] = Append(@, Head(posted)[2])] /\ UNCHANGED overrun
             ELSE overrun' = overrun \cup {c} /\ UNCHANGED queue
    /\ UNCHANGED <<published, targets, subscribers, handler, hand, up, last>>

\* The connection is accepted and subscribed before the snapshot is sent.
Accept(c) ==
    /\ handler[c] = "none"
    /\ handler' = [handler EXCEPT ![c] = "stats"]
    /\ subscribers' = subscribers \cup {c}
    /\ up' = up \cup {c}
    /\ last' = [last EXCEPT ![c] = published]
    /\ UNCHANGED <<published, targets, posted, queue, hand, overrun>>

\* Statistics, then the live status.  Computing or sending them may fail, and
\* no one catches it here: the client stays subscribed.
SendSnapshot(c) ==
    /\ handler[c] \in {"stats", "status"}
    /\ \/ handler' = [handler EXCEPT ![c] = IF @ = "stats" THEN "status" ELSE "get"]
       \/ handler' = [handler EXCEPT ![c] = "gone"]
    /\ UNCHANGED <<published, targets, posted, subscribers, queue, hand, up, last, overrun>>

Get(c) ==
    /\ handler[c] = "get" /\ queue[c] # <<>>
    /\ hand' = [hand EXCEPT ![c] = <<Head(queue[c])>>]
    /\ queue' = [queue EXCEPT ![c] = Tail(@)]
    /\ handler' = [handler EXCEPT ![c] = "send"]
    /\ UNCHANGED <<published, targets, posted, subscribers, up, last, overrun>>

\* The send returns, whether or not the client is still there to receive.
Send(c) ==
    /\ handler[c] = "send"
    /\ last' = [last EXCEPT ![c][hand[c][1][1]] = hand[c][1][2]]
    /\ hand' = [hand EXCEPT ![c] = <<>>]
    /\ handler' = [handler EXCEPT ![c] = "get"]
    /\ UNCHANGED <<published, targets, posted, subscribers, queue, up, overrun>>

SendFails(c) ==
    /\ handler[c] = "send" /\ c \notin up
    /\ subscribers' = subscribers \ {c}
    /\ hand' = [hand EXCEPT ![c] = <<>>]
    /\ handler' = [handler EXCEPT ![c] = "gone"]
    /\ UNCHANGED <<published, targets, posted, queue, up, last, overrun>>

\* The connection ends; the handler learns of it when it next sends.
Leave(c) ==
    /\ c \in up
    /\ up' = up \ {c}
    /\ UNCHANGED <<published, targets, posted, subscribers, queue, handler, hand, last, overrun>>

---------------------------------------------------------------------------
\* Steps the server takes by itself.
Serve ==
    \/ \E p \in Publishers, c \in Clients : Post(p, c)
    \/ Offer
    \/ \E c \in Clients : SendSnapshot(c) \/ Get(c) \/ SendFails(c)

---------------------------------------------------------------------------
(* Properties *)

\* What is on its way to a client, each event with its place in the line: the
\* handler has it, it is in the queue, or the loop has still to offer it.
OnItsWay(c) ==
    {<<0, hand[c][i]>> : i \in DOMAIN hand[c]}
      \cup {<<i, queue[c][i]>> : i \in DOMAIN queue[c]}
      \cup {<<QueueSize + i, posted[i][2]>> : i \in {j \in DOMAIN posted : posted[j][1] = c}}

Line(c, p) == {x \in OnItsWay(c) : x[2][1] = p}

\* A client is never sent an event twice or out of its publisher's order,
\* through copies of the subscriber set, posted callbacks and refusals
\* (events.py:42-57, ws.py:27-30).
InSequence ==
    \A c \in Clients, p \in Publishers :
        /\ \A x \in Line(c, p) : last[c][p] < x[2][2]
        /\ \A x, y \in Line(c, p) : x[1] < y[1] => x[2][2] < y[2][2]
        /\ c \in targets[p] => \A x \in Line(c, p) : x[2][2] < published[p]

\* A client whose queue was never full misses nothing that was published
\* after it subscribed (events.py:3-5, "slow clients drop events").
Complete ==
    \A c \in subscribers \ overrun, p \in Publishers :
        {x[2][2] : x \in Line(c, p)} \cup (IF c \in targets[p] THEN {published[p]} ELSE {})
            = last[c][p] + 1 .. published[p]
===========================================================================
