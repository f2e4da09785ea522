---------------------------- MODULE EventFeed ----------------------------
(***************************************************************************)
(* The event feed end to end: the bus and one page of the dashboard.  The  *)
(* page's sockets are the clients of the bus.                              *)
(***************************************************************************)
EXTENDS EventBus

CONSTANTS MaxSockets, Listeners

ASSUME FeedAssumption == Clients = 1..MaxSockets

VARIABLES
    socket, ready, listeners, timers,   \* the page
    handled,        \* history: events a listener has handled
    repeated,       \* history: some event was handled again
    orphaned        \* history: a closing socket dropped the reference to another

Page == INSTANCE EventSocket

pageVars == <<socket, ready, listeners, timers>>
pageHistory == <<handled, repeated, orphaned>>
vars == <<busVars, pageVars, pageHistory>>

Quiet == UNCHANGED pageHistory

Init ==
    /\ BusInit
    /\ Page!PageInit
    /\ handled = {} /\ repeated = FALSE /\ orphaned = FALSE

---------------------------------------------------------------------------
Connected(c) == Page!Opened(c) /\ Accept(c) /\ Quiet

\* Messages reach an open socket; every listener gets each of them.
Deliver(c) ==
    LET e == hand[c][1]
    IN  /\ Send(c)
        /\ IF ready[c] = "open" /\ listeners # {}
             THEN /\ handled' = handled \cup {e}
                  /\ repeated' = (repeated \/ e \in handled)
             ELSE UNCHANGED <<handled, repeated>>
        /\ UNCHANGED <<pageVars, orphaned>>

ServerCloses(c) == Page!Closing(c) /\ Leave(c) /\ Quiet

\* The connection was open, was closing, or never came up.
ConnectionEnds(c) ==
    /\ Page!Closed(c)
    /\ IF c \in up THEN Leave(c) ELSE UNCHANGED busVars
    /\ orphaned' = (orphaned \/ socket \ {c} # {})
    /\ UNCHANGED <<handled, repeated>>

PageAlone ==
    /\ \/ \E l \in Listeners : Page!Mount(l) \/ Page!Unmount(l)
       \/ Page!Reconnect
    /\ UNCHANGED busVars /\ Quiet

ServerAlone ==
    /\ Serve \/ \E p \in Publishers : Publish(p)
    /\ UNCHANGED pageVars /\ Quiet

Next ==
    \/ \E c \in Clients :
          Connected(c) \/ Deliver(c) \/ ServerCloses(c) \/ ConnectionEnds(c)
    \/ PageAlone
    \/ ServerAlone

Spec == Init /\ [][Next]_vars

---------------------------------------------------------------------------
(* Properties *)

TypeOK == BusTypeOK /\ Page!PageTypeOK

\* While the page listens it has a socket or is about to open one, in
\* whatever order sockets close, timers fire and components come and go
\* (useEvents.js:7-23, 34-41).
KeepsListening == listeners # {} => socket # {} \/ timers > 0

\* Unless a closing socket has dropped the reference to its successor, the
\* page has one socket and handles no event twice (useEvents.js:3, 11-14).
HandledOnce ==
    ~orphaned => /\ ~repeated
                 /\ \A c, d \in Clients : Page!Live(c) /\ Page!Live(d) => c = d

---------------------------------------------------------------------------
(* What the documents say and the code does not keep *)

\* useEvents.js:3: a single WebSocket is shared by all subscribers.
NeverTwice == ~repeated
==========================================================================
