---------------------------- MODULE EventSocket ----------------------------
(***************************************************************************)
(* The browser's end: useEvents.js keeps one WebSocket per page, shared by *)
(* the components that listen, and opens another when it closes.  The      *)
(* browser runs one callback at a time.                                    *)
(***************************************************************************)
EXTENDS Naturals

CONSTANTS
    MaxSockets,     \* WebSocket objects the page creates (bound)
    Listeners       \* components that may be mounted

Sockets == 1..MaxSockets

VARIABLES
    socket,         \* the module's reference, a set of at most one socket
    ready,          \* readyState of each socket
    listeners,
    timers          \* reconnects that are scheduled

pageVars == <<socket, ready, listeners, timers>>

PageTypeOK ==
    /\ socket \subseteq Sockets
    /\ ready \in [Sockets -> {"none", "connecting", "open", "closing", "closed"}]
    /\ listeners \subseteq Listeners
    /\ timers \in Nat

PageInit ==
    /\ socket = {}
    /\ ready = [s \in Sockets |-> "none"]
    /\ listeners = {}
    /\ timers = 0

Live(s) == ready[s] \in {"connecting", "open"}

Fresh(s) == ready[s] = "none" /\ \A r \in Sockets : r < s => ready[r] # "none"

NewSocket ==
    \E s \in Sockets :
        /\ Fresh(s)
        /\ socket' = {s}
        /\ ready' = [ready EXCEPT ![s] = "connecting"]

EnsureSocketAlways == NewSocket

EnsureSocket ==
    IF \E s \in socket : Live(s)
      THEN UNCHANGED <<socket, ready>>
      ELSE NewSocket

Mount(l) ==
    /\ l \notin listeners
    /\ listeners' = listeners \cup {l}
    /\ EnsureSocket
    /\ UNCHANGED timers

\* The socket stays open when the last listener goes.
Unmount(l) ==
    /\ l \in listeners
    /\ listeners' = listeners \ {l}
    /\ UNCHANGED <<socket, ready, timers>>

Opened(s) ==
    /\ ready[s] = "connecting"
    /\ ready' = [ready EXCEPT ![s] = "open"]
    /\ UNCHANGED <<socket, listeners, timers>>

\* The peer has started the closing handshake.
Closing(s) ==
    /\ ready[s] = "open"
    /\ ready' = [ready EXCEPT ![s] = "closing"]
    /\ UNCHANGED <<socket, listeners, timers>>

ClosedForGood(s) ==
    /\ Live(s) \/ ready[s] = "closing"
    /\ ready' = [ready EXCEPT ![s] = "closed"]
    /\ socket' = {}
    /\ UNCHANGED <<listeners, timers>>

\* onclose drops the reference, whichever socket it is to.
Closed(s) ==
    /\ Live(s) \/ ready[s] = "closing"
    /\ ready' = [ready EXCEPT ![s] = "closed"]
    /\ socket' = {}
    /\ timers' = timers + 1
    /\ UNCHANGED listeners

\* Two seconds later.
Reconnect ==
    /\ timers > 0
    /\ timers' = timers - 1
    /\ IF listeners # {} THEN EnsureSocket ELSE UNCHANGED <<socket, ready>>
    /\ UNCHANGED listeners
============================================================================
