--------------------------- MODULE EventFeedProofs ---------------------------
(* Theorems about EventFeed: the bus for any number of clients, publishers   *)
(* and events and any queue size, and the page for any number of listeners   *)
(* and sockets.                                                              *)
EXTENDS EventFeed, SequenceTheorems, TLAPS

---------------------------------------------------------------------------
(* The steps of the bus *)

BusNext ==
    \/ \E p \in Publishers : Publish(p) \/ \E c \in Clients : Post(p, c)
    \/ Offer
    \/ \E c \in Clients :
          Accept(c) \/ SendSnapshot(c) \/ Get(c) \/ Send(c) \/ SendFails(c) \/ Leave(c)

LEMMA BusSteps == [Next]_vars => [BusNext]_busVars
BY DEF Next, vars, BusNext, Connected, Deliver, ServerCloses, ConnectionEnds, PageAlone,
       ServerAlone, Serve

\* The handler has an event exactly while it sends it, and nothing is on its way
\* to a client that has not come.
Stages ==
    /\ BusTypeOK
    /\ \A c \in Clients : Len(hand[c]) = IF handler[c] = "send" THEN 1 ELSE 0
    /\ \A c \in Clients : handler[c] = "none" =>
          /\ queue[c] = <<>> /\ c \notin subscribers
          /\ \A p \in Publishers : c \notin targets[p]
          /\ \A k \in 1..Len(posted) : posted[k][1] # c
    /\ \A p \in Publishers : targets[p] # {} => published[p] # 0

LEMMA InitStages == Init => Stages
<1> SUFFICES ASSUME Init PROVE Stages
  OBVIOUS
<1>1. /\ published = [p \in Publishers |-> 0] /\ posted = <<>>
      /\ targets = [p \in Publishers |-> {}] /\ subscribers = {} /\ up = {} /\ overrun = {}
      /\ queue = [c \in Clients |-> <<>>] /\ hand = [c \in Clients |-> <<>>]
      /\ handler = [c \in Clients |-> "none"]
      /\ last = [c \in Clients |-> published]
  BY DEF Init, BusInit
<1>2. published \in [Publishers -> 0..MaxEvents]
  BY <1>1, BusAssumption
<1> QED BY <1>1, <1>2, BusAssumption DEF Stages, BusTypeOK

LEMMA StepStages == Stages /\ [BusNext]_busVars => Stages'
<1>a. SUFFICES ASSUME Stages, [BusNext]_busVars PROVE Stages'
  OBVIOUS
<1> USE DEF Stages, BusTypeOK
<1>b. QueueSize \in Nat /\ MaxEvents \in Nat
  BY BusAssumption
<1>1. ASSUME NEW p \in Publishers, Publish(p) PROVE Stages'
  BY <1>a, <1>b, <1>1 DEF Publish
<1>2. ASSUME NEW p \in Publishers, NEW c \in Clients, Post(p, c) PROVE Stages'
  <2>1. published[p] \in 1..MaxEvents
    BY <1>a, <1>b, <1>2 DEF Post
  <2>2. <<c, <<p, published[p]>>>> \in Clients \X Events
    BY <2>1 DEF Events
  <2>3. /\ posted' = Append(posted, <<c, <<p, published[p]>>>>)
        /\ targets' = [targets EXCEPT ![p] = @ \ {c}] /\ c \in targets[p]
        /\ UNCHANGED <<published, subscribers, queue, handler, hand, up, last, overrun>>
    BY <1>2 DEF Post
  <2>4. /\ posted' \in Seq(Clients \X Events) /\ Len(posted') = Len(posted) + 1
        /\ \A k \in 1..Len(posted') :
              posted'[k] = IF k <= Len(posted) THEN posted[k] ELSE <<c, <<p, published[p]>>>>
    BY <1>a, <2>2, <2>3
  <2>5. handler[c] # "none"
    BY <1>a, <2>3
  <2>6. \A d \in Clients : handler[d] = "none" =>
           \A k \in 1..Len(posted') : posted'[k][1] # d
    <3>1. Len(posted) \in Nat
      BY <1>a
    <3>2. \A d \in Clients : handler[d] = "none" => \A k \in 1..Len(posted) : posted[k][1] # d
      BY <1>a
    <3> QED BY <2>4, <2>5, <3>1, <3>2
  <2> QED BY <1>a, <2>3, <2>4, <2>6
<1>3. CASE Offer
  <2>1. /\ posted # <<>> /\ posted' = Tail(posted)
        /\ UNCHANGED <<published, targets, subscribers, handler, hand, up, last>>
    BY <1>3 DEF Offer
  <2>2. PICK c \in Clients, e \in Events : posted[1] = <<c, e>> /\ Head(posted) = <<c, e>>
    BY <1>a, <2>1
  <2>3. /\ posted' \in Seq(Clients \X Events) /\ Len(posted') = Len(posted) - 1
        /\ \A k \in 1..Len(posted') : posted'[k] = posted[k + 1]
    BY <1>a, <2>1, HeadTailProperties
  <2>4. \/ /\ Len(queue[c]) < QueueSize /\ overrun' = overrun
           /\ queue' = [queue EXCEPT ![c] = Append(queue[c], e)]
        \/ overrun' = overrun \cup {c} /\ queue' = queue
    BY <1>3, <2>2 DEF Offer
  <2>5. /\ queue' \in [Clients -> Seq(Events)] /\ overrun' \subseteq Clients
        /\ \A d \in Clients : d # c => queue'[d] = queue[d]
        /\ \A d \in Clients : Len(queue'[d]) <= QueueSize
    <3>1. CASE overrun' = overrun \cup {c} /\ queue' = queue
      BY <1>a, <3>1
    <3>2. CASE /\ Len(queue[c]) < QueueSize /\ overrun' = overrun
               /\ queue' = [queue EXCEPT ![c] = Append(queue[c], e)]
      <4>1. /\ Append(queue[c], e) \in Seq(Events)
            /\ Len(Append(queue[c], e)) <= QueueSize
        BY <1>a, <1>b, <3>2
      <4> HIDE DEF Stages
      <4>2. queue \in [Clients -> Seq(Events)] /\ overrun \subseteq Clients
            /\ \A d \in Clients : Len(queue[d]) <= QueueSize
        BY <1>a DEF Stages
      <4> QED BY <3>2, <4>1, <4>2
    <3> QED BY <2>4, <3>1, <3>2
  <2>6. handler[c] # "none"
    <3>1. 1 \in 1..Len(posted)
      BY <1>a, <2>1
    <3> QED BY <1>a, <2>2, <3>1
  <2>7. \A d \in Clients : handler[d] = "none" =>
           \A k \in 1..Len(posted') : posted'[k][1] # d
    BY <1>a, <2>1, <2>3
  <2> QED BY <1>a, <2>1, <2>3, <2>5, <2>6, <2>7
<1>4. ASSUME NEW c \in Clients, Accept(c) PROVE Stages'
  BY <1>a, <1>b, <1>4 DEF Accept
<1>5. ASSUME NEW c \in Clients, SendSnapshot(c) PROVE Stages'
  BY <1>a, <1>b, <1>5 DEF SendSnapshot
<1>6. ASSUME NEW c \in Clients, Get(c) PROVE Stages'
  <2>1. /\ handler[c] = "get" /\ queue[c] # <<>>
        /\ hand' = [hand EXCEPT ![c] = <<Head(queue[c])>>]
        /\ queue' = [queue EXCEPT ![c] = Tail(queue[c])]
        /\ handler' = [handler EXCEPT ![c] = "send"]
        /\ UNCHANGED <<published, targets, posted, subscribers, up, last, overrun>>
    BY <1>6 DEF Get
  <2>2. /\ Head(queue[c]) \in Events /\ Tail(queue[c]) \in Seq(Events)
        /\ Len(Tail(queue[c])) <= QueueSize
    BY <1>a, <1>b, <2>1, HeadTailProperties
  <2>3. /\ queue' \in [Clients -> Seq(Events)] /\ hand' \in [Clients -> Seq(Events)]
        /\ \A d \in Clients : Len(queue'[d]) <= QueueSize
    BY <1>a, <2>1, <2>2
  <2>4. \A d \in Clients : Len(hand'[d]) = IF handler'[d] = "send" THEN 1 ELSE 0
    BY <1>a, <2>1
  <2> QED BY <1>a, <2>1, <2>3, <2>4
<1>7. ASSUME NEW c \in Clients, Send(c) PROVE Stages'
  <2>1. /\ handler[c] = "send"
        /\ last' = [last EXCEPT ![c][hand[c][1][1]] = hand[c][1][2]]
        /\ hand' = [hand EXCEPT ![c] = <<>>]
        /\ handler' = [handler EXCEPT ![c] = "get"]
        /\ UNCHANGED <<published, targets, posted, subscribers, queue, up, overrun>>
    BY <1>7 DEF Send
  <2>2. hand[c][1] \in Events
    BY <1>a, <2>1
  <2>3. last' \in [Clients -> [Publishers -> 0..MaxEvents]]
    BY <1>a, <2>1, <2>2 DEF Events
  <2>4. /\ hand' \in [Clients -> Seq(Events)]
        /\ \A d \in Clients : Len(hand'[d]) = IF handler'[d] = "send" THEN 1 ELSE 0
    <3>1. handler'[c] # "send" /\ \A d \in Clients : d # c => handler'[d] = handler[d]
      BY <1>a, <2>1
    <3>2. /\ hand \in [Clients -> Seq(Events)]
          /\ \A d \in Clients : Len(hand[d]) = IF handler[d] = "send" THEN 1 ELSE 0
      BY <1>a
    <3> HIDE DEF Stages, BusTypeOK
    <3>3. hand' \in [Clients -> Seq(Events)]
      BY <2>1, <3>2
    <3>4. ASSUME NEW d \in Clients, d # c
          PROVE  Len(hand'[d]) = IF handler'[d] = "send" THEN 1 ELSE 0
      BY <2>1, <3>1, <3>2, <3>4
    <3>5. hand'[c] = <<>>
      BY <2>1, <3>2
    <3>6. Len(hand'[c]) = 0
      BY <3>5
    <3> QED BY <3>1, <3>3, <3>4, <3>6
  <2> QED BY <1>a, <2>1, <2>3, <2>4
<1>8. ASSUME NEW c \in Clients, SendFails(c) PROVE Stages'
  <2>1. /\ handler[c] = "send" /\ subscribers' = subscribers \ {c}
        /\ hand' = [hand EXCEPT ![c] = <<>>]
        /\ handler' = [handler EXCEPT ![c] = "gone"]
        /\ UNCHANGED <<published, targets, posted, queue, up, last, overrun>>
    BY <1>8 DEF SendFails
  <2>2. /\ hand' \in [Clients -> Seq(Events)]
        /\ \A d \in Clients : Len(hand'[d]) = IF handler'[d] = "send" THEN 1 ELSE 0
    <3>1. handler'[c] # "send" /\ \A d \in Clients : d # c => handler'[d] = handler[d]
      BY <1>a, <2>1
    <3>2. /\ hand \in [Clients -> Seq(Events)]
          /\ \A d \in Clients : Len(hand[d]) = IF handler[d] = "send" THEN 1 ELSE 0
      BY <1>a
    <3> HIDE DEF Stages, BusTypeOK
    <3>3. hand' \in [Clients -> Seq(Events)]
      BY <2>1, <3>2
    <3>4. ASSUME NEW d \in Clients, d # c
          PROVE  Len(hand'[d]) = IF handler'[d] = "send" THEN 1 ELSE 0
      BY <2>1, <3>1, <3>2, <3>4
    <3>5. hand'[c] = <<>>
      BY <2>1, <3>2
    <3>6. Len(hand'[c]) = 0
      BY <3>5
    <3> QED BY <3>1, <3>3, <3>4, <3>6
  <2> QED BY <1>a, <2>1, <2>2
<1>9. ASSUME NEW c \in Clients, Leave(c) PROVE Stages'
  BY <1>a, <1>b, <1>9 DEF Leave
<1>10. CASE UNCHANGED busVars
  BY <1>a, <1>10 DEF busVars
<1> QED
  BY <1>a, <1>1, <1>2, <1>3, <1>4, <1>5, <1>6, <1>7, <1>8, <1>9, <1>10 DEF BusNext

---------------------------------------------------------------------------
(* Order *)

\* Event e is still to be sent to c, and another may follow it.
Due(c, e) ==
    /\ last[c][e[1]] < e[2] /\ e[2] <= published[e[1]]
    /\ c \in targets[e[1]] => e[2] < published[e[1]]

Before(e, f) == e[1] = f[1] => e[2] < f[2]

InOrder ==
    /\ \A c \in Clients : \A i \in 1..Len(hand[c]) : Due(c, hand[c][i])
    /\ \A c \in Clients : \A i \in 1..Len(queue[c]) : Due(c, queue[c][i])
    /\ \A k \in 1..Len(posted) : Due(posted[k][1], posted[k][2])
    /\ \A c \in Clients : \A i \in 1..Len(hand[c]), j \in 1..Len(queue[c]) :
          Before(hand[c][i], queue[c][j])
    /\ \A c \in Clients : \A i, j \in 1..Len(queue[c]) :
          i < j => Before(queue[c][i], queue[c][j])
    /\ \A c \in Clients, k \in 1..Len(posted) :
          posted[k][1] = c =>
             /\ \A i \in 1..Len(hand[c]) : Before(hand[c][i], posted[k][2])
             /\ \A i \in 1..Len(queue[c]) : Before(queue[c][i], posted[k][2])
    /\ \A k, l \in 1..Len(posted) :
          k < l /\ posted[k][1] = posted[l][1] => Before(posted[k][2], posted[l][2])
    /\ \A c \in Clients, p \in Publishers :
          /\ last[c][p] <= published[p]
          /\ c \in targets[p] => last[c][p] < published[p]

LEMMA InitInOrder == Init => InOrder
<1> SUFFICES ASSUME Init PROVE InOrder
  OBVIOUS
<1>1. /\ published = [p \in Publishers |-> 0] /\ posted = <<>>
      /\ targets = [p \in Publishers |-> {}]
      /\ queue = [c \in Clients |-> <<>>] /\ hand = [c \in Clients |-> <<>>]
      /\ last = [c \in Clients |-> published]
  BY DEF Init, BusInit
<1> QED BY <1>1 DEF InOrder

\* While nothing new is on its way, only Due can change.
LEMMA SameLines ==
  ASSUME Stages, InOrder, UNCHANGED <<hand, queue, posted>>,
         \A c \in Clients, e \in Events : Due(c, e) => Due(c, e)',
         \A c \in Clients, p \in Publishers :
            /\ last'[c][p] <= published'[p]
            /\ c \in targets'[p] => last'[c][p] < published'[p]
  PROVE  InOrder'
<1>1. /\ \A c \in Clients : \A i \in 1..Len(hand[c]) : hand[c][i] \in Events
      /\ \A c \in Clients : \A i \in 1..Len(queue[c]) : queue[c][i] \in Events
      /\ \A k \in 1..Len(posted) : posted[k][1] \in Clients /\ posted[k][2] \in Events
  BY DEF Stages, BusTypeOK
<1>2. /\ \A c \in Clients : \A i \in 1..Len(hand[c]) : Due(c, hand[c][i])'
      /\ \A c \in Clients : \A i \in 1..Len(queue[c]) : Due(c, queue[c][i])'
      /\ \A k \in 1..Len(posted) : Due(posted[k][1], posted[k][2])'
  BY <1>1 DEF InOrder
<1> QED BY <1>2 DEF InOrder, Before

LEMMA StepInOrder == Stages /\ InOrder /\ [BusNext]_busVars => InOrder'
<1>a. SUFFICES ASSUME Stages, InOrder, [BusNext]_busVars PROVE InOrder'
  OBVIOUS
<1>b. /\ published \in [Publishers -> Nat]
      /\ targets \in [Publishers -> SUBSET Clients]
      /\ last \in [Clients -> [Publishers -> Nat]]
      /\ hand \in [Clients -> Seq(Events)] /\ queue \in [Clients -> Seq(Events)]
      /\ posted \in Seq(Clients \X Events)
  BY <1>a, BusAssumption DEF Stages, BusTypeOK
<1>c. \A e \in Events : e[1] \in Publishers /\ e[2] \in Nat
  BY BusAssumption DEF Events
<1>d. /\ \A c \in Clients : \A i \in 1..Len(hand[c]) : hand[c][i] \in Events
      /\ \A c \in Clients : \A i \in 1..Len(queue[c]) : queue[c][i] \in Events
      /\ \A k \in 1..Len(posted) : posted[k][1] \in Clients /\ posted[k][2] \in Events
  BY <1>b
<1>1. ASSUME NEW p \in Publishers, Publish(p) PROVE InOrder'
  <2>1. /\ published' = [published EXCEPT ![p] = @ + 1]
        /\ targets' = [targets EXCEPT ![p] = subscribers]
        /\ UNCHANGED <<hand, queue, posted, last>>
    BY <1>1 DEF Publish
  <2>2. ASSUME NEW c \in Clients, NEW e \in Events, Due(c, e) PROVE Due(c, e)'
    BY <1>b, <1>c, <2>1, <2>2 DEF Due
  <2>3. \A c \in Clients, q \in Publishers :
          /\ last'[c][q] <= published'[q]
          /\ c \in targets'[q] => last'[c][q] < published'[q]
    BY <1>a, <1>b, <2>1 DEF InOrder
  <2> QED BY <1>a, <2>1, <2>2, <2>3, SameLines
<1>2. ASSUME NEW p \in Publishers, NEW c \in Clients, Post(p, c) PROVE InOrder'
  <2>1. /\ c \in targets[p]
        /\ targets' = [targets EXCEPT ![p] = @ \ {c}]
        /\ posted' = Append(posted, <<c, <<p, published[p]>>>>)
        /\ UNCHANGED <<published, hand, queue, last>>
    BY <1>2 DEF Post
  <2>2. PICK e \in Events : e = <<p, published[p]>>
    BY <1>a, <2>1, BusAssumption DEF Stages, BusTypeOK, Events
  <2>3. /\ Len(posted) \in Nat /\ Len(posted') = Len(posted) + 1
        /\ \A k \in 1..Len(posted) : posted'[k] = posted[k]
        /\ posted'[Len(posted) + 1] = <<c, e>>
    BY <1>b, <2>1, <2>2
  <2>4. \A d \in Clients, f \in Events : Due(d, f) => Due(d, f)'
    BY <1>b, <1>c, <2>1 DEF Due
  <2>5. Due(c, e)'
    BY <1>a, <1>b, <2>1, <2>2 DEF Due, InOrder
  <2>6. \A f \in Events : Due(c, f) => Before(f, e)
    BY <1>b, <1>c, <2>1, <2>2 DEF Due, Before
  <2>7. /\ \A d \in Clients : \A i \in 1..Len(hand[d]) : Due(d, hand[d][i])'
        /\ \A d \in Clients : \A i \in 1..Len(queue[d]) : Due(d, queue[d][i])'
    BY <1>a, <1>d, <2>1, <2>4 DEF InOrder
  <2>8. ASSUME NEW k \in 1..Len(posted') PROVE Due(posted[k][1], posted[k][2])'
    <3>1. CASE k \in 1..Len(posted)
      BY <1>a, <1>d, <2>3, <2>4, <3>1 DEF InOrder
    <3>2. CASE k = Len(posted) + 1
      BY <2>3, <2>5, <3>2
    <3> QED BY <2>3, <3>1, <3>2
  <2>9. ASSUME NEW d \in Clients, NEW k \in 1..Len(posted'), posted'[k][1] = d
        PROVE  /\ \A i \in 1..Len(hand[d]) : Before(hand[d][i], posted'[k][2])
               /\ \A i \in 1..Len(queue[d]) : Before(queue[d][i], posted'[k][2])
    <3>1. CASE k \in 1..Len(posted)
      BY <1>a, <2>3, <2>9, <3>1 DEF InOrder
    <3>2. CASE k = Len(posted) + 1
      BY <1>a, <1>d, <2>3, <2>6, <2>9, <3>2 DEF InOrder
    <3> QED BY <2>3, <3>1, <3>2
  <2>10. ASSUME NEW k \in 1..Len(posted'), NEW l \in 1..Len(posted'),
                k < l, posted'[k][1] = posted'[l][1]
         PROVE  Before(posted'[k][2], posted'[l][2])
    <3>1. CASE l \in 1..Len(posted)
      BY <1>a, <2>3, <2>10, <3>1 DEF InOrder
    <3>2. CASE l = Len(posted) + 1
      BY <1>a, <1>d, <2>3, <2>6, <2>10, <3>2 DEF InOrder
    <3> QED BY <2>3, <3>1, <3>2
  <2>11. \A d \in Clients, q \in Publishers :
           /\ last'[d][q] <= published'[q]
           /\ d \in targets'[q] => last'[d][q] < published'[q]
    BY <1>a, <1>b, <2>1 DEF InOrder
  <2> QED BY <1>a, <2>1, <2>7, <2>8, <2>9, <2>10, <2>11 DEF InOrder
<1>3. CASE Offer
  <2>1. posted # <<>> /\ posted' = Tail(posted) /\ UNCHANGED <<published, targets, hand, last>>
    BY <1>3 DEF Offer
  <2>2. PICK c \in Clients, e \in Events : posted[1] = <<c, e>> /\ Head(posted) = <<c, e>>
    BY <1>b, <2>1
  <2>3. /\ Len(posted) \in Nat \ {0} /\ Len(posted') = Len(posted) - 1
        /\ \A k \in 1..Len(posted') : k + 1 \in 1..Len(posted) /\ posted'[k] = posted[k + 1]
    BY <1>b, <2>1, HeadTailProperties
  <2>4. \A d \in Clients, f \in Events : Due(d, f) => Due(d, f)'
    BY <2>1 DEF Due
  <2>5. ASSUME NEW k \in 1..Len(posted') PROVE Due(posted[k][1], posted[k][2])'
    BY <1>a, <1>d, <2>3, <2>4 DEF InOrder
  <2>6. ASSUME NEW d \in Clients, NEW i \in 1..Len(hand[d]) PROVE Due(d, hand[d][i])'
    BY <1>a, <1>d, <2>1, <2>4 DEF InOrder
  <2>7. ASSUME NEW d \in Clients, NEW k \in 1..Len(posted'), posted'[k][1] = d,
               NEW i \in 1..Len(hand[d])
        PROVE  Before(hand[d][i], posted'[k][2])
    BY <1>a, <2>3, <2>7 DEF InOrder
  <2>8. ASSUME NEW k \in 1..Len(posted'), NEW l \in 1..Len(posted'),
               k < l, posted'[k][1] = posted'[l][1]
        PROVE  Before(posted'[k][2], posted'[l][2])
    BY <1>a, <2>3, <2>8 DEF InOrder
  <2>9. ASSUME NEW d \in Clients, queue'[d] = queue[d]
        PROVE  /\ \A i \in 1..Len(queue[d]) : Due(d, queue[d][i])'
               /\ \A k \in 1..Len(posted') :
                     posted'[k][1] = d =>
                        \A i \in 1..Len(queue[d]) : Before(queue[d][i], posted'[k][2])
    BY <1>a, <1>d, <2>3, <2>4, <2>9, SMTT(30) DEF InOrder
  <2>10. CASE queue' = queue
    BY <1>a, <2>1, <2>5, <2>6, <2>7, <2>8, <2>9, <2>10 DEF InOrder
  <2>11. CASE queue' = [queue EXCEPT ![c] = Append(queue[c], e)]
    <3>1. /\ Len(queue[c]) \in Nat /\ Len(queue'[c]) = Len(queue[c]) + 1
          /\ \A i \in 1..Len(queue[c]) : queue'[c][i] = queue[c][i]
          /\ queue'[c][Len(queue[c]) + 1] = e
          /\ \A d \in Clients : d # c => queue'[d] = queue[d]
      BY <1>b, <2>11
    <3>2. Due(c, e)' /\ 1 \in 1..Len(posted)
      BY <1>a, <2>2, <2>3, <2>4 DEF InOrder
    <3>3. ASSUME NEW i \in 1..Len(queue'[c])
          PROVE  /\ Due(c, queue[c][i])'
                 /\ \A k \in 1..Len(posted') :
                       posted'[k][1] = c => Before(queue'[c][i], posted'[k][2])
                 /\ \A j \in 1..Len(hand[c]) : Before(hand[c][j], queue'[c][i])
                 /\ \A j \in 1..Len(queue'[c]) : j < i => Before(queue'[c][j], queue'[c][i])
      <4>1. CASE i \in 1..Len(queue[c])
        <5>1. queue'[c][i] = queue[c][i] /\ Due(c, queue[c][i]) /\ queue[c][i] \in Events
          BY <1>a, <1>d, <3>1, <4>1 DEF InOrder
        <5>2. Due(c, queue[c][i])'
          BY <2>4, <5>1
        <5>3. ASSUME NEW k \in 1..Len(posted'), posted'[k][1] = c
              PROVE  Before(queue'[c][i], posted'[k][2])
          BY <1>a, <2>3, <4>1, <5>1, <5>3 DEF InOrder
        <5>4. \A j \in 1..Len(hand[c]) : Before(hand[c][j], queue'[c][i])
          BY <1>a, <4>1, <5>1 DEF InOrder
        <5>5. ASSUME NEW j \in 1..Len(queue'[c]), j < i
              PROVE  Before(queue'[c][j], queue'[c][i])
          <6>1. j \in 1..Len(queue[c])
            BY <3>1, <4>1, <5>5
          <6> QED BY <1>a, <3>1, <4>1, <5>1, <5>5, <6>1 DEF InOrder
        <5> QED BY <5>2, <5>3, <5>4, <5>5
      <4>2. CASE i = Len(queue[c]) + 1
        <5>1. queue'[c][i] = e /\ posted[1][1] = c /\ posted[1][2] = e
          BY <2>2, <3>1, <4>2
        <5>2. Due(c, queue[c][i])'
          BY <3>2, <5>1
        <5>3. ASSUME NEW k \in 1..Len(posted'), posted'[k][1] = c
              PROVE  Before(queue'[c][i], posted'[k][2])
          <6>1. posted'[k] = posted[k + 1] /\ k + 1 \in 1..Len(posted) /\ 1 < k + 1
            BY <2>3
          <6> QED BY <1>a, <3>2, <5>1, <5>3, <6>1 DEF InOrder
        <5>4. \A j \in 1..Len(hand[c]) : Before(hand[c][j], queue'[c][i])
          BY <1>a, <3>2, <5>1 DEF InOrder
        <5>5. ASSUME NEW j \in 1..Len(queue'[c]), j < i
              PROVE  Before(queue'[c][j], queue'[c][i])
          <6>1. j \in 1..Len(queue[c]) /\ queue'[c][j] = queue[c][j]
            BY <3>1, <4>2, <5>5
          <6> QED BY <1>a, <3>2, <5>1, <6>1 DEF InOrder
        <5> QED BY <5>2, <5>3, <5>4, <5>5
      <4> QED BY <3>1, <4>1, <4>2
    <3>4. ASSUME NEW d \in Clients
          PROVE  /\ \A i \in 1..Len(queue'[d]) : Due(d, queue[d][i])'
                 /\ \A i \in 1..Len(queue'[d]), k \in 1..Len(posted') :
                       posted'[k][1] = d => Before(queue'[d][i], posted'[k][2])
                 /\ \A i \in 1..Len(queue'[d]), j \in 1..Len(hand[d]) :
                       Before(hand[d][j], queue'[d][i])
                 /\ \A i, j \in 1..Len(queue'[d]) : j < i => Before(queue'[d][j], queue'[d][i])
      <4>1. CASE d = c
        BY <3>3, <4>1
      <4>2. CASE d # c
        BY <1>a, <2>9, <3>1, <4>2 DEF InOrder
      <4> QED BY <4>1, <4>2
    <3> QED BY <1>a, <2>1, <2>5, <2>6, <2>7, <2>8, <3>4 DEF InOrder
  <2> QED BY <1>3, <2>2, <2>10, <2>11 DEF Offer
<1>4. ASSUME NEW c \in Clients, Accept(c) PROVE InOrder'
  <2>1. /\ handler[c] = "none" /\ last' = [last EXCEPT ![c] = published]
        /\ UNCHANGED <<published, targets, posted, queue, hand>>
    BY <1>4 DEF Accept
  <2>2. ASSUME NEW d \in Clients, d # c, NEW e \in Events, Due(d, e) PROVE Due(d, e)'
    BY <1>b, <2>1, <2>2 DEF Due
  <2>3. /\ Len(hand[c]) = 0 /\ Len(queue[c]) = 0
        /\ \A k \in 1..Len(posted) : posted[k][1] # c
        /\ \A p \in Publishers : c \notin targets[p]
    BY <1>a, <2>1 DEF Stages
  <2>4. \A d \in Clients, q \in Publishers :
           /\ last'[d][q] <= published'[q]
           /\ d \in targets'[q] => last'[d][q] < published'[q]
    BY <1>a, <1>b, <2>1, <2>3 DEF InOrder
  <2>5. /\ \A d \in Clients : \A i \in 1..Len(hand[d]) : Due(d, hand[d][i])'
        /\ \A d \in Clients : \A i \in 1..Len(queue[d]) : Due(d, queue[d][i])'
        /\ \A k \in 1..Len(posted) : Due(posted[k][1], posted[k][2])'
    BY <1>a, <1>d, <2>1, <2>2, <2>3 DEF InOrder
  <2> QED BY <1>a, <2>1, <2>4, <2>5 DEF InOrder
<1>5. ASSUME NEW c \in Clients, SendSnapshot(c) \/ Leave(c) PROVE InOrder'
  <2>1. UNCHANGED <<published, targets, posted, queue, hand, last>>
    BY <1>5 DEF SendSnapshot, Leave
  <2> QED BY <1>a, <2>1 DEF InOrder, Due
<1>6. ASSUME NEW c \in Clients, Get(c) PROVE InOrder'
  <2>1. /\ handler[c] = "get" /\ queue[c] # <<>>
        /\ hand' = [hand EXCEPT ![c] = <<Head(queue[c])>>]
        /\ queue' = [queue EXCEPT ![c] = Tail(queue[c])]
        /\ UNCHANGED <<published, targets, posted, last>>
    BY <1>6 DEF Get
  <2>2. /\ Len(queue[c]) \in Nat \ {0} /\ Len(queue'[c]) = Len(queue[c]) - 1
        /\ \A i \in 1..Len(queue'[c]) :
              i + 1 \in 1..Len(queue[c]) /\ queue'[c][i] = queue[c][i + 1]
        /\ \A d \in Clients : d # c => queue'[d] = queue[d]
    BY <1>b, <2>1, HeadTailProperties
  <2>3. /\ Len(hand'[c]) = 1 /\ hand'[c][1] = queue[c][1]
        /\ \A d \in Clients : d # c => hand'[d] = hand[d]
    BY <1>b, <2>1
  <2>4. \A d \in Clients, f \in Events : Due(d, f) => Due(d, f)'
    BY <2>1 DEF Due
  <2>5. ASSUME NEW k \in 1..Len(posted) PROVE Due(posted[k][1], posted[k][2])'
    BY <1>a, <1>d, <2>1, <2>4 DEF InOrder
  <2>6. ASSUME NEW i \in 1..Len(queue'[c])
        PROVE  /\ Due(c, queue[c][i])' /\ Before(hand'[c][1], queue'[c][i])
               /\ \A j \in 1..Len(queue'[c]) : i < j => Before(queue'[c][i], queue'[c][j])
               /\ \A k \in 1..Len(posted) :
                     posted[k][1] = c => Before(queue'[c][i], posted[k][2])
    <3>1. queue'[c][i] = queue[c][i + 1] /\ i + 1 \in 1..Len(queue[c])
      BY <2>2
    <3>2. Due(c, queue[c][i])'
      BY <1>a, <1>d, <2>4, <3>1 DEF InOrder
    <3>3. Before(hand'[c][1], queue'[c][i])
      BY <1>a, <2>2, <2>3, <3>1 DEF InOrder
    <3>4. ASSUME NEW j \in 1..Len(queue'[c]), i < j PROVE Before(queue'[c][i], queue'[c][j])
      <4>1. queue'[c][j] = queue[c][j + 1] /\ j + 1 \in 1..Len(queue[c])
        BY <2>2
      <4>2. i + 1 < j + 1
        BY <2>2, <3>4
      <4>3. Before(queue[c][i + 1], queue[c][j + 1])
        BY <1>a, <3>1, <4>1, <4>2 DEF InOrder
      <4> QED BY <3>1, <4>1, <4>3
    <3>5. \A k \in 1..Len(posted) :
             posted[k][1] = c => Before(queue'[c][i], posted[k][2])
      BY <1>a, <3>1 DEF InOrder
    <3> QED BY <3>2, <3>3, <3>4, <3>5
  <2>7. /\ Due(c, hand[c][1])'
        /\ \A k \in 1..Len(posted) : posted[k][1] = c => Before(hand'[c][1], posted[k][2])
    <3>1. 1 \in 1..Len(queue[c])
      BY <2>2
    <3> QED BY <1>a, <1>d, <2>3, <2>4, <3>1 DEF InOrder
  <2>8. ASSUME NEW d \in Clients
        PROVE  /\ \A i \in 1..Len(hand'[d]) : Due(d, hand[d][i])'
               /\ \A i \in 1..Len(queue'[d]) : Due(d, queue[d][i])'
               /\ \A i \in 1..Len(hand'[d]), j \in 1..Len(queue'[d]) :
                     Before(hand'[d][i], queue'[d][j])
               /\ \A i, j \in 1..Len(queue'[d]) : i < j => Before(queue'[d][i], queue'[d][j])
               /\ \A k \in 1..Len(posted) : posted[k][1] = d =>
                     /\ \A i \in 1..Len(hand'[d]) : Before(hand'[d][i], posted[k][2])
                     /\ \A i \in 1..Len(queue'[d]) : Before(queue'[d][i], posted[k][2])
    <3>1. CASE d = c
      BY <2>3, <2>6, <2>7, <3>1
    <3>2. CASE d # c
      BY <1>a, <1>d, <2>2, <2>3, <2>4, <3>2 DEF InOrder
    <3> QED BY <3>1, <3>2
  <2> QED BY <1>a, <2>1, <2>5, <2>8 DEF InOrder
<1>7. ASSUME NEW c \in Clients, Send(c) PROVE InOrder'
  <2>1. /\ handler[c] = "send"
        /\ last' = [last EXCEPT ![c][hand[c][1][1]] = hand[c][1][2]]
        /\ hand' = [hand EXCEPT ![c] = <<>>]
        /\ UNCHANGED <<published, targets, posted, queue>>
    BY <1>7 DEF Send
  <2>2. PICK p \in Publishers, n \in Nat :
          hand[c][1][1] = p /\ hand[c][1][2] = n /\ 1 \in 1..Len(hand[c])
    BY <1>a, <1>c, <1>d, <2>1 DEF Stages
  <2>3. /\ last'[c][p] = n
        /\ \A q \in Publishers : q # p => last'[c][q] = last[c][q]
        /\ \A d \in Clients : d # c => last'[d] = last[d]
    BY <1>b, <2>1, <2>2
  <2>4. last[c][p] < n /\ n <= published[p] /\ (c \in targets[p] => n < published[p])
    BY <1>a, <2>2 DEF InOrder, Due
  <2>5. /\ hand'[c] = <<>> /\ Len(hand'[c]) = 0
        /\ \A d \in Clients : d # c => hand'[d] = hand[d]
    BY <1>b, <2>1
  <2>6. ASSUME NEW e \in Events, Due(c, e), Before(hand[c][1], e) PROVE Due(c, e)'
    BY <1>b, <1>c, <2>1, <2>2, <2>3, <2>6 DEF Due, Before
  <2>7. ASSUME NEW d \in Clients, d # c, NEW e \in Events, Due(d, e) PROVE Due(d, e)'
    BY <2>1, <2>3, <2>7 DEF Due
  <2>8. /\ \A i \in 1..Len(queue[c]) : Due(c, queue[c][i])'
        /\ \A d \in Clients : d # c => \A i \in 1..Len(queue[d]) : Due(d, queue[d][i])'
    BY <1>a, <1>d, <2>1, <2>2, <2>6, <2>7 DEF InOrder
  <2>9. \A d \in Clients : \A i \in 1..Len(hand'[d]) : Due(d, hand[d][i])'
    BY <1>a, <1>d, <2>5, <2>7 DEF InOrder
  <2>10. ASSUME NEW k \in 1..Len(posted) PROVE Due(posted[k][1], posted[k][2])'
    BY <1>a, <1>d, <2>1, <2>2, <2>6, <2>7 DEF InOrder
  <2>11. \A d \in Clients, q \in Publishers :
           /\ last'[d][q] <= published'[q]
           /\ d \in targets'[q] => last'[d][q] < published'[q]
    BY <1>a, <1>b, <2>1, <2>3, <2>4 DEF InOrder
  <2>12. /\ \A d \in Clients : \A i \in 1..Len(hand'[d]), j \in 1..Len(queue[d]) :
               Before(hand'[d][i], queue[d][j])
         /\ \A d \in Clients, k \in 1..Len(posted) : posted[k][1] = d =>
               \A i \in 1..Len(hand'[d]) : Before(hand'[d][i], posted[k][2])
    <3>1. \A d \in Clients : \A i \in 1..Len(hand'[d]) : d # c /\ hand'[d] = hand[d]
      BY <2>5
    <3> QED BY <1>a, <3>1 DEF InOrder
  <2> QED BY <1>a, <2>1, <2>8, <2>9, <2>10, <2>11, <2>12 DEF InOrder
<1>8. ASSUME NEW c \in Clients, SendFails(c) PROVE InOrder'
  <2>1. /\ hand' = [hand EXCEPT ![c] = <<>>]
        /\ UNCHANGED <<published, targets, posted, queue, last>>
    BY <1>8 DEF SendFails
  <2>2. /\ hand'[c] = <<>> /\ Len(hand'[c]) = 0
        /\ \A d \in Clients : d # c => hand'[d] = hand[d]
    BY <1>b, <2>1
  <2>3. \A d \in Clients, f \in Events : Due(d, f) => Due(d, f)'
    BY <2>1 DEF Due
  <2>4. /\ \A d \in Clients : \A i \in 1..Len(hand'[d]) : Due(d, hand[d][i])'
        /\ \A d \in Clients : \A i \in 1..Len(queue[d]) : Due(d, queue[d][i])'
        /\ \A k \in 1..Len(posted) : Due(posted[k][1], posted[k][2])'
    BY <1>a, <1>d, <2>1, <2>2, <2>3 DEF InOrder
  <2>5. /\ \A d \in Clients : \A i \in 1..Len(hand'[d]), j \in 1..Len(queue[d]) :
               Before(hand'[d][i], queue[d][j])
        /\ \A d \in Clients, k \in 1..Len(posted) : posted[k][1] = d =>
               \A i \in 1..Len(hand'[d]) : Before(hand'[d][i], posted[k][2])
    BY <1>a, <2>2 DEF InOrder
  <2> QED BY <1>a, <2>1, <2>4, <2>5 DEF InOrder
<1>9. CASE UNCHANGED busVars
  BY <1>a, <1>9 DEF InOrder, Due, busVars
<1> QED
  BY <1>a, <1>1, <1>2, <1>3, <1>4, <1>5, <1>6, <1>7, <1>8, <1>9 DEF BusNext

---------------------------------------------------------------------------
(* Nothing is lost *)

Coming(c, e) ==
    \/ \E i \in 1..Len(hand[c]) : hand[c][i] = e
    \/ \E i \in 1..Len(queue[c]) : queue[c][i] = e
    \/ \E k \in 1..Len(posted) : posted[k] = <<c, e>>

\* What a subscriber has not been sent is coming, or is about to be posted.
Owed ==
    \A c \in subscribers \ overrun, p \in Publishers, n \in Nat :
        last[c][p] < n /\ n <= published[p]
          => Coming(c, <<p, n>>) \/ (c \in targets[p] /\ n = published[p])

LEMMA InitOwed == Init => Owed
BY DEF Init, BusInit, Owed

LEMMA StepOwed == Stages /\ InOrder /\ Owed /\ [BusNext]_busVars => Owed'
<1>a. SUFFICES ASSUME Stages, InOrder, Owed, [BusNext]_busVars PROVE Owed'
  OBVIOUS
<1>b. /\ published \in [Publishers -> Nat] /\ subscribers \subseteq Clients
      /\ targets \in [Publishers -> SUBSET Clients]
      /\ last \in [Clients -> [Publishers -> Nat]]
      /\ hand \in [Clients -> Seq(Events)] /\ queue \in [Clients -> Seq(Events)]
      /\ posted \in Seq(Clients \X Events)
  BY <1>a, BusAssumption DEF Stages, BusTypeOK
<1>c. \A e \in Events : e[1] \in Publishers /\ e[2] \in Nat
  BY BusAssumption DEF Events
<1>1. ASSUME NEW p \in Publishers, Publish(p) PROVE Owed'
  <2>1. /\ targets[p] = {}
        /\ published' = [published EXCEPT ![p] = @ + 1]
        /\ targets' = [targets EXCEPT ![p] = subscribers]
        /\ UNCHANGED <<subscribers, overrun, hand, queue, posted, last>>
    BY <1>1 DEF Publish
  <2>2. \A c, e : Coming(c, e) => Coming(c, e)'
    BY <2>1 DEF Coming
  <2>3. ASSUME NEW c \in subscribers \ overrun, NEW q \in Publishers, NEW n \in Nat,
               last[c][q] < n, n <= published'[q]
        PROVE  Coming(c, <<q, n>>)' \/ (c \in targets'[q] /\ n = published'[q])
    <3>1. CASE n <= published[q] /\ q = p
      BY <1>a, <2>1, <2>2, <2>3, <3>1 DEF Owed
    <3>2. CASE n <= published[q] /\ q # p
      BY <1>a, <1>b, <2>1, <2>2, <2>3, <3>2 DEF Owed
    <3>3. CASE ~(n <= published[q])
      BY <1>b, <2>1, <2>3, <3>3
    <3> QED BY <3>1, <3>2, <3>3
  <2> QED BY <2>1, <2>3 DEF Owed
<1>2. ASSUME NEW p \in Publishers, NEW c \in Clients, Post(p, c) PROVE Owed'
  <2>1. /\ c \in targets[p]
        /\ targets' = [targets EXCEPT ![p] = @ \ {c}]
        /\ posted' = Append(posted, <<c, <<p, published[p]>>>>)
        /\ UNCHANGED <<published, subscribers, overrun, hand, queue, last>>
    BY <1>2 DEF Post
  <2>2. /\ Len(posted) \in Nat /\ Len(posted') = Len(posted) + 1
        /\ \A k \in 1..Len(posted) : posted'[k] = posted[k]
        /\ posted'[Len(posted) + 1] = <<c, <<p, published[p]>>>>
    <3>1. <<c, <<p, published[p]>>>> \in Clients \X Events
      BY <1>a, <2>1, BusAssumption DEF Stages, BusTypeOK, Events
    <3> QED BY <1>b, <2>1, <3>1
  <2>3. \A d, e : Coming(d, e) => Coming(d, e)'
    BY <2>1, <2>2 DEF Coming
  <2>4. Coming(c, <<p, published[p]>>)'
    BY <2>1, <2>2 DEF Coming
  <2>5. ASSUME NEW d \in subscribers \ overrun, NEW q \in Publishers, NEW n \in Nat,
               last[d][q] < n, n <= published[q]
        PROVE  Coming(d, <<q, n>>)' \/ (d \in targets'[q] /\ n = published[q])
    <3>1. Coming(d, <<q, n>>) \/ (d \in targets[q] /\ n = published[q])
      BY <1>a, <2>5 DEF Owed
    <3>2. CASE Coming(d, <<q, n>>)
      BY <2>3, <3>2
    <3>3. CASE d \in targets[q] /\ n = published[q]
      BY <1>b, <2>1, <2>4, <3>3
    <3> QED BY <3>1, <3>2, <3>3
  <2> QED BY <2>1, <2>5 DEF Owed
<1>3. CASE Offer
  <2>1. /\ posted # <<>> /\ posted' = Tail(posted)
        /\ UNCHANGED <<published, targets, subscribers, hand, last>>
    BY <1>3 DEF Offer
  <2>2. PICK c \in Clients, e \in Events : posted[1] = <<c, e>> /\ Head(posted) = <<c, e>>
    BY <1>b, <2>1
  <2>3. /\ Len(posted) \in Nat \ {0} /\ Len(posted') = Len(posted) - 1
        /\ \A k \in 1..Len(posted') : posted'[k] = posted[k + 1]
    BY <1>b, <2>1, HeadTailProperties
  <2>4. ASSUME NEW d, NEW f, NEW k \in 1..Len(posted), posted[k] = <<d, f>>, k # 1
        PROVE  \E l \in 1..Len(posted') : posted'[l] = <<d, f>>
    <3>1. k - 1 \in 1..Len(posted') /\ (k - 1) + 1 = k
      BY <2>3, <2>4
    <3> QED BY <2>3, <2>4, <3>1
  <2>5. CASE overrun' = overrun \cup {c} /\ queue' = queue
    <3>1. ASSUME NEW d \in Clients, d # c, NEW f, Coming(d, f) PROVE Coming(d, f)'
      <4>1. CASE \E k \in 1..Len(posted) : posted[k] = <<d, f>>
        <5>1. PICK k \in 1..Len(posted) : posted[k] = <<d, f>>
          BY <4>1
        <5>2. k # 1
          BY <2>2, <3>1, <5>1
        <5> QED BY <2>4, <5>1, <5>2 DEF Coming
      <4> QED BY <2>1, <2>5, <3>1, <4>1 DEF Coming
    <3> QED BY <1>a, <1>b, <2>1, <2>5, <3>1 DEF Owed
  <2>6. CASE overrun' = overrun /\ queue' = [queue EXCEPT ![c] = Append(queue[c], e)]
    <3>1. /\ Len(queue[c]) \in Nat /\ Len(queue'[c]) = Len(queue[c]) + 1
          /\ \A i \in 1..Len(queue[c]) : queue'[c][i] = queue[c][i]
          /\ queue'[c][Len(queue[c]) + 1] = e
          /\ \A d \in Clients : d # c => queue'[d] = queue[d]
      BY <1>b, <2>6
    <3>2. ASSUME NEW d \in Clients, NEW f, Coming(d, f) PROVE Coming(d, f)'
      <4>1. CASE \E i \in 1..Len(hand[d]) : hand[d][i] = f
        BY <2>1, <4>1 DEF Coming
      <4>2. CASE \E i \in 1..Len(queue[d]) : queue[d][i] = f
        <5>1. PICK i \in 1..Len(queue[d]) : queue[d][i] = f
          BY <4>2
        <5>2. i \in 1..Len(queue'[d]) /\ queue'[d][i] = f
          <6>1. CASE d = c
            BY <3>1, <5>1, <6>1
          <6>2. CASE d # c
            BY <3>1, <5>1, <6>2
          <6> QED BY <6>1, <6>2
        <5> QED BY <5>2 DEF Coming
      <4>3. CASE \E k \in 1..Len(posted) : posted[k] = <<d, f>>
        <5>1. PICK k \in 1..Len(posted) : posted[k] = <<d, f>>
          BY <4>3
        <5>2. CASE k = 1
          <6>1. d = c /\ f = e
            BY <2>2, <5>1, <5>2
          <6>2. Len(queue[c]) + 1 \in 1..Len(queue'[c])
            BY <3>1
          <6> QED BY <3>1, <6>1, <6>2 DEF Coming
        <5>3. CASE k # 1
          BY <2>4, <5>1, <5>3 DEF Coming
        <5> QED BY <5>2, <5>3
      <4> QED BY <3>2, <4>1, <4>2, <4>3 DEF Coming
    <3> QED BY <1>a, <1>b, <2>1, <2>6, <3>2 DEF Owed
  <2> QED BY <1>3, <2>2, <2>5, <2>6 DEF Offer
<1>4. ASSUME NEW c \in Clients, Accept(c) PROVE Owed'
  <2>1. /\ last' = [last EXCEPT ![c] = published] /\ subscribers' = subscribers \cup {c}
        /\ UNCHANGED <<published, targets, posted, queue, hand, overrun>>
    BY <1>4 DEF Accept
  <2>2. \A d, e : Coming(d, e) => Coming(d, e)'
    BY <2>1 DEF Coming
  <2>3. ASSUME NEW d \in subscribers' \ overrun, NEW q \in Publishers, NEW n \in Nat,
               last'[d][q] < n, n <= published[q]
        PROVE  Coming(d, <<q, n>>)' \/ (d \in targets[q] /\ n = published[q])
    <3>1. CASE d = c
      BY <1>b, <2>1, <2>3, <3>1
    <3>2. CASE d # c
      BY <1>a, <1>b, <2>1, <2>2, <2>3, <3>2 DEF Owed
    <3> QED BY <3>1, <3>2
  <2> QED BY <2>1, <2>3 DEF Owed
<1>5. ASSUME NEW c \in Clients, SendSnapshot(c) \/ Leave(c) PROVE Owed'
  <2>1. UNCHANGED <<published, targets, posted, queue, hand, last, subscribers, overrun>>
    BY <1>5 DEF SendSnapshot, Leave
  <2>2. \A d, e : Coming(d, e) => Coming(d, e)'
    BY <2>1 DEF Coming
  <2> QED BY <1>a, <2>1, <2>2 DEF Owed
<1>6. ASSUME NEW c \in Clients, Get(c) PROVE Owed'
  <2>1. /\ handler[c] = "get" /\ queue[c] # <<>>
        /\ hand' = [hand EXCEPT ![c] = <<Head(queue[c])>>]
        /\ queue' = [queue EXCEPT ![c] = Tail(queue[c])]
        /\ UNCHANGED <<published, targets, posted, last, subscribers, overrun>>
    BY <1>6 DEF Get
  <2>2. /\ Len(queue[c]) \in Nat \ {0} /\ Len(queue'[c]) = Len(queue[c]) - 1
        /\ \A i \in 1..Len(queue'[c]) : queue'[c][i] = queue[c][i + 1]
        /\ \A d \in Clients : d # c => queue'[d] = queue[d]
    BY <1>b, <2>1, HeadTailProperties
  <2>3. /\ Len(hand[c]) = 0 /\ Len(hand'[c]) = 1 /\ hand'[c][1] = queue[c][1]
        /\ \A d \in Clients : d # c => hand'[d] = hand[d]
    BY <1>a, <1>b, <2>1 DEF Stages
  <2>4. ASSUME NEW d \in Clients, NEW f, Coming(d, f) PROVE Coming(d, f)'
    <3>1. CASE d # c
      BY <2>1, <2>2, <2>3, <2>4, <3>1 DEF Coming
    <3>2. CASE d = c /\ \E i \in 1..Len(queue[c]) : queue[c][i] = f
      <4>1. PICK i \in 1..Len(queue[c]) : queue[c][i] = f
        BY <3>2
      <4>2. CASE i = 1
        <5>1. 1 \in 1..Len(hand'[c]) /\ hand'[c][1] = f
          BY <2>3, <4>1, <4>2
        <5> QED BY <3>2, <5>1 DEF Coming
      <4>3. CASE i # 1
        <5>1. i - 1 \in 1..Len(queue'[c]) /\ (i - 1) + 1 = i
          BY <2>2, <4>1, <4>3
        <5>2. queue'[c][i - 1] = f
          BY <2>2, <4>1, <5>1
        <5> QED BY <3>2, <5>1, <5>2 DEF Coming
      <4> QED BY <4>2, <4>3
    <3>3. CASE d = c /\ \E k \in 1..Len(posted) : posted[k] = <<d, f>>
      BY <2>1, <3>3 DEF Coming
    <3>4. ~ \E i \in 1..Len(hand[c]) : hand[c][i] = f
      BY <2>3
    <3> QED BY <2>4, <3>1, <3>2, <3>3, <3>4 DEF Coming
  <2> QED BY <1>a, <1>b, <2>1, <2>4 DEF Owed
<1>7. ASSUME NEW c \in Clients, Send(c) PROVE Owed'
  <2>1. /\ handler[c] = "send"
        /\ last' = [last EXCEPT ![c][hand[c][1][1]] = hand[c][1][2]]
        /\ hand' = [hand EXCEPT ![c] = <<>>]
        /\ UNCHANGED <<published, targets, posted, queue, subscribers, overrun>>
    BY <1>7 DEF Send
  <2>2. Len(hand[c]) = 1 /\ hand[c][1] \in Events
    BY <1>a, <1>b, <2>1 DEF Stages
  <2>3. PICK p \in Publishers, m \in Nat : hand[c][1][1] = p /\ hand[c][1][2] = m
    BY <1>c, <2>2
  <2>4. /\ last'[c][p] = m /\ last[c][p] < m
        /\ \A q \in Publishers : q # p => last'[c][q] = last[c][q]
        /\ \A d \in Clients : d # c => last'[d] = last[d] /\ hand'[d] = hand[d]
    <3>1. 1 \in 1..Len(hand[c])
      BY <2>2
    <3> QED BY <1>a, <1>b, <2>1, <2>3, <3>1 DEF InOrder, Due
  <2>5. ASSUME NEW d \in subscribers \ overrun, NEW q \in Publishers, NEW n \in Nat,
               last'[d][q] < n, n <= published[q]
        PROVE  Coming(d, <<q, n>>)' \/ (d \in targets[q] /\ n = published[q])
    <3>1. last[d][q] < n
      <4>1. last[c][p] \in Nat /\ d \in Clients
        BY <1>b, <2>3
      <4>2. CASE d = c /\ q = p
        BY <2>4, <2>5, <4>1, <4>2
      <4>3. CASE ~(d = c /\ q = p)
        BY <2>4, <2>5, <4>1, <4>3
      <4> QED BY <4>2, <4>3
    <3>2. Coming(d, <<q, n>>) \/ (d \in targets[q] /\ n = published[q])
      BY <1>a, <2>5, <3>1 DEF Owed
    <3>3. CASE d # c
      BY <1>b, <2>1, <2>4, <3>2, <3>3 DEF Coming
    <3>4. CASE d = c
      <4>1. hand[c][1] # <<q, n>>
        BY <2>3, <2>4, <2>5, <3>4
      <4>2. ~ \E i \in 1..Len(hand[c]) : hand[c][i] = <<q, n>>
        BY <2>2, <4>1
      <4> QED BY <2>1, <3>2, <3>4, <4>2 DEF Coming
    <3> QED BY <3>3, <3>4
  <2> QED BY <2>1, <2>5 DEF Owed
<1>8. ASSUME NEW c \in Clients, SendFails(c) PROVE Owed'
  <2>1. /\ hand' = [hand EXCEPT ![c] = <<>>] /\ subscribers' = subscribers \ {c}
        /\ UNCHANGED <<published, targets, posted, queue, last, overrun>>
    BY <1>8 DEF SendFails
  <2>2. \A d \in Clients : d # c => hand'[d] = hand[d]
    BY <1>b, <2>1
  <2>3. \A d \in Clients : \A e : d # c /\ Coming(d, e) => Coming(d, e)'
    BY <2>1, <2>2 DEF Coming
  <2> QED BY <1>a, <1>b, <2>1, <2>3 DEF Owed
<1>9. CASE UNCHANGED busVars
  <2>1. UNCHANGED <<published, targets, posted, queue, hand, last, subscribers, overrun>>
    BY <1>9 DEF busVars
  <2>2. \A d, e : Coming(d, e) => Coming(d, e)'
    BY <2>1 DEF Coming
  <2> QED BY <1>a, <2>1, <2>2 DEF Owed
<1> QED
  BY <1>a, <1>1, <1>2, <1>3, <1>4, <1>5, <1>6, <1>7, <1>8, <1>9 DEF BusNext

---------------------------------------------------------------------------
(* What the bus promises *)

LEMMA OnItsWayMembers ==
  ASSUME Stages, NEW c \in Clients, NEW x \in OnItsWay(c)
  PROVE  \/ \E i \in 1..Len(hand[c]) : x = <<0, hand[c][i]>>
         \/ \E i \in 1..Len(queue[c]) : x = <<i, queue[c][i]>>
         \/ \E k \in 1..Len(posted) : posted[k][1] = c /\ x = <<QueueSize + k, posted[k][2]>>
<1>1. hand[c] \in Seq(Events) /\ queue[c] \in Seq(Events) /\ posted \in Seq(Clients \X Events)
  BY DEF Stages, BusTypeOK
<1>2. /\ DOMAIN hand[c] = 1..Len(hand[c]) /\ DOMAIN queue[c] = 1..Len(queue[c])
      /\ DOMAIN posted = 1..Len(posted)
  BY <1>1
<1> QED BY <1>2 DEF OnItsWay

LEMMA ComingIsOnItsWay ==
  ASSUME Stages, NEW c \in Clients, NEW e \in Events, Coming(c, e)
  PROVE  \E x \in OnItsWay(c) : x[2] = e
<1>1. hand[c] \in Seq(Events) /\ queue[c] \in Seq(Events) /\ posted \in Seq(Clients \X Events)
  BY DEF Stages, BusTypeOK
<1>2. /\ DOMAIN hand[c] = 1..Len(hand[c]) /\ DOMAIN queue[c] = 1..Len(queue[c])
      /\ DOMAIN posted = 1..Len(posted)
  BY <1>1
<1>3. CASE \E i \in 1..Len(hand[c]) : hand[c][i] = e
  <2>1. PICK i \in 1..Len(hand[c]) : hand[c][i] = e
    BY <1>3
  <2>2. <<0, hand[c][i]>> \in OnItsWay(c)
    BY <1>2 DEF OnItsWay
  <2> QED BY <2>1, <2>2
<1>4. CASE \E i \in 1..Len(queue[c]) : queue[c][i] = e
  <2>1. PICK i \in 1..Len(queue[c]) : queue[c][i] = e
    BY <1>4
  <2>2. <<i, queue[c][i]>> \in OnItsWay(c)
    BY <1>2 DEF OnItsWay
  <2> QED BY <2>1, <2>2
<1>5. CASE \E k \in 1..Len(posted) : posted[k] = <<c, e>>
  <2>1. PICK k \in 1..Len(posted) : posted[k] = <<c, e>>
    BY <1>5
  <2>2. <<QueueSize + k, posted[k][2]>> \in OnItsWay(c)
    BY <1>2, <2>1 DEF OnItsWay
  <2> QED BY <2>1, <2>2
<1> QED BY <1>3, <1>4, <1>5 DEF Coming

LEMMA OnItsWayDue ==
  ASSUME Stages, InOrder, NEW c \in Clients, NEW x \in OnItsWay(c)
  PROVE  Due(c, x[2]) /\ x[2] \in Events /\ x[2][1] \in Publishers /\ x[2][2] \in Nat
<1>1. /\ \A i \in 1..Len(hand[c]) : hand[c][i] \in Events
      /\ \A i \in 1..Len(queue[c]) : queue[c][i] \in Events
      /\ \A k \in 1..Len(posted) : posted[k][2] \in Events
  BY DEF Stages, BusTypeOK
<1>2. Due(c, x[2]) /\ x[2] \in Events
  BY <1>1, OnItsWayMembers DEF InOrder
<1> QED BY <1>2, BusAssumption DEF Events

LEMMA OrderGivesSequence == Stages /\ InOrder => InSequence
<1>a. SUFFICES ASSUME Stages, InOrder, NEW c \in Clients, NEW p \in Publishers
      PROVE  /\ \A x \in Line(c, p) : last[c][p] < x[2][2]
             /\ \A x, y \in Line(c, p) : x[1] < y[1] => x[2][2] < y[2][2]
             /\ c \in targets[p] => \A x \in Line(c, p) : x[2][2] < published[p]
  BY DEF InSequence
<1>1. \A x \in Line(c, p) : last[c][p] < x[2][2] /\ (c \in targets[p] => x[2][2] < published[p])
  BY <1>a, OnItsWayDue DEF Line, Due
<1>2. ASSUME NEW x \in Line(c, p), NEW y \in Line(c, p), x[1] < y[1] PROVE x[2][2] < y[2][2]
  <2>1. x \in OnItsWay(c) /\ y \in OnItsWay(c) /\ x[2][1] = y[2][1]
    BY DEF Line
  <2>2. /\ Len(hand[c]) \in {0, 1} /\ Len(queue[c]) \in Nat /\ Len(posted) \in Nat
        /\ Len(queue[c]) <= QueueSize /\ QueueSize \in Nat
    BY <1>a, BusAssumption DEF Stages, BusTypeOK
  <2>3. CASE \E i \in 1..Len(hand[c]) : x = <<0, hand[c][i]>>
    <3>1. ~ \E i \in 1..Len(hand[c]) : y = <<0, hand[c][i]>>
      BY <1>2, <2>3
    <3>2. PICK i \in 1..Len(hand[c]) : x = <<0, hand[c][i]>>
      BY <2>3
    <3>3. CASE \E j \in 1..Len(queue[c]) : y = <<j, queue[c][j]>>
      BY <1>a, <2>1, <3>2, <3>3 DEF InOrder, Before
    <3>4. CASE \E k \in 1..Len(posted) : posted[k][1] = c /\ y = <<QueueSize + k, posted[k][2]>>
      BY <1>a, <2>1, <3>2, <3>4 DEF InOrder, Before
    <3> QED BY <1>a, <2>1, <3>1, <3>3, <3>4, OnItsWayMembers
  <2>4. CASE \E i \in 1..Len(queue[c]) : x = <<i, queue[c][i]>>
    <3>1. PICK i \in 1..Len(queue[c]) : x = <<i, queue[c][i]>>
      BY <2>4
    <3>2. ~ \E j \in 1..Len(hand[c]) : y = <<0, hand[c][j]>>
      BY <1>2, <2>2, <3>1
    <3>3. CASE \E j \in 1..Len(queue[c]) : y = <<j, queue[c][j]>>
      BY <1>a, <1>2, <2>1, <3>1, <3>3 DEF InOrder, Before
    <3>4. CASE \E k \in 1..Len(posted) : posted[k][1] = c /\ y = <<QueueSize + k, posted[k][2]>>
      BY <1>a, <2>1, <3>1, <3>4 DEF InOrder, Before
    <3> QED BY <1>a, <2>1, <3>2, <3>3, <3>4, OnItsWayMembers
  <2>5. CASE \E k \in 1..Len(posted) : posted[k][1] = c /\ x = <<QueueSize + k, posted[k][2]>>
    <3>1. PICK k \in 1..Len(posted) : posted[k][1] = c /\ x = <<QueueSize + k, posted[k][2]>>
      BY <2>5
    <3>2. ~ \E j \in 1..Len(hand[c]) : y = <<0, hand[c][j]>>
      BY <1>2, <2>2, <3>1
    <3>3. ~ \E j \in 1..Len(queue[c]) : y = <<j, queue[c][j]>>
      BY <1>2, <2>2, <3>1
    <3>4. PICK l \in 1..Len(posted) : posted[l][1] = c /\ y = <<QueueSize + l, posted[l][2]>>
      BY <1>a, <2>1, <3>2, <3>3, OnItsWayMembers
    <3>5. k < l
      BY <1>2, <2>2, <3>1, <3>4
    <3> QED BY <1>a, <2>1, <3>1, <3>4, <3>5 DEF InOrder, Before
  <2> QED BY <1>a, <2>1, <2>3, <2>4, <2>5, OnItsWayMembers
<1> QED BY <1>1, <1>2

LEMMA OwedGivesComplete == Stages /\ InOrder /\ Owed => Complete
<1>a. SUFFICES ASSUME Stages, InOrder, Owed,
                      NEW c \in subscribers \ overrun, NEW p \in Publishers
      PROVE  {x[2][2] : x \in Line(c, p)}
               \cup (IF c \in targets[p] THEN {published[p]} ELSE {})
                 = last[c][p] + 1 .. published[p]
  BY DEF Complete
<1>b. /\ c \in Clients /\ last[c][p] \in Nat /\ published[p] \in 0..MaxEvents
      /\ MaxEvents \in Nat
  BY <1>a, BusAssumption DEF Stages, BusTypeOK
<1>1. ASSUME NEW x \in Line(c, p) PROVE x[2][2] \in last[c][p] + 1 .. published[p]
  <2>1. x \in OnItsWay(c) /\ x[2][1] = p
    BY DEF Line
  <2>2. last[c][p] < x[2][2] /\ x[2][2] <= published[p] /\ x[2][2] \in Nat
    BY <1>a, <1>b, <2>1, OnItsWayDue DEF Due
  <2> QED BY <1>b, <2>2
<1>2. c \in targets[p] => published[p] \in last[c][p] + 1 .. published[p]
  BY <1>a, <1>b DEF InOrder
<1>3. ASSUME NEW n \in last[c][p] + 1 .. published[p], ~(c \in targets[p] /\ n = published[p])
      PROVE  \E x \in Line(c, p) : x[2][2] = n
  <2>1. n \in Nat /\ last[c][p] < n /\ n <= published[p] /\ <<p, n>> \in Events
    BY <1>b DEF Events
  <2>2. Coming(c, <<p, n>>)
    BY <1>a, <1>3, <2>1 DEF Owed
  <2>3. PICK x \in OnItsWay(c) : x[2] = <<p, n>>
    BY <1>a, <1>b, <2>1, <2>2, ComingIsOnItsWay
  <2> QED BY <2>3 DEF Line
<1> DEFINE Coming2 == {x[2][2] : x \in Line(c, p)}
           Next2 == IF c \in targets[p] THEN {published[p]} ELSE {}
           Rest == last[c][p] + 1 .. published[p]
<1>4. ASSUME NEW n \in Coming2 \cup Next2 PROVE n \in Rest
  BY <1>1, <1>2
<1>5. ASSUME NEW n \in Rest PROVE n \in Coming2 \cup Next2
  BY <1>3
<1> QED BY <1>4, <1>5

\* The bus, in every state: its types and stages, the order of what is on its
\* way, and what is owed.
LEMMA BusInvariant == Spec => [](Stages /\ InOrder /\ Owed)
<1>1. Init => Stages /\ InOrder /\ Owed
  BY InitStages, InitInOrder, InitOwed
<1>2. (Stages /\ InOrder /\ Owed) /\ [Next]_vars => (Stages /\ InOrder /\ Owed)'
  BY BusSteps, StepStages, StepInOrder, StepOwed
<1> QED BY <1>1, <1>2, PTL DEF Spec

\* No client is sent an event twice or out of its publisher's order, for any
\* number of clients, publishers and events (events.py:42-57, ws.py:27-30).
THEOREM Sequence == Spec => []InSequence
BY BusInvariant, OrderGivesSequence, PTL

\* A client whose queue was never full misses nothing published after it
\* subscribed, for any queue size (events.py:3-5).
THEOREM NothingMissed == Spec => []Complete
BY BusInvariant, OwedGivesComplete, PTL

---------------------------------------------------------------------------
(* The page *)

PageNext ==
    \/ \E l \in Listeners : Page!Mount(l) \/ Page!Unmount(l)
    \/ \E c \in Clients : Page!Opened(c) \/ Page!Closing(c) \/ Page!Closed(c)
    \/ Page!Reconnect

LEMMA PageSteps == [Next]_vars => [PageNext]_pageVars
BY DEF Next, vars, pageVars, PageNext, Connected, Deliver, ServerCloses, ConnectionEnds,
       PageAlone, ServerAlone

Listening == Page!PageTypeOK /\ KeepsListening

LEMMA InitListening == Init => Listening
BY DEF Init, Listening, KeepsListening, Page!PageInit, Page!PageTypeOK

LEMMA EnsureSocketTypes ==
  ASSUME Page!PageTypeOK, Page!EnsureSocket
  PROVE  /\ socket' \subseteq Page!Sockets /\ socket' # {}
         /\ ready' \in [Page!Sockets -> {"none", "connecting", "open", "closing", "closed"}]
BY DEF Page!PageTypeOK, Page!EnsureSocket, Page!NewSocket

LEMMA StepListening == Listening /\ [PageNext]_pageVars => Listening'
<1>a. SUFFICES ASSUME Listening, [PageNext]_pageVars PROVE Listening'
  OBVIOUS
<1>b. Clients = Page!Sockets
  BY FeedAssumption DEF Page!Sockets
<1> USE DEF Listening, KeepsListening
<1>1. ASSUME NEW l \in Listeners, Page!Mount(l) PROVE Listening'
  BY <1>a, <1>1, EnsureSocketTypes DEF Page!Mount, Page!PageTypeOK
<1>2. ASSUME NEW l \in Listeners, Page!Unmount(l) PROVE Listening'
  BY <1>a, <1>2 DEF Page!Unmount, Page!PageTypeOK
<1>3. ASSUME NEW c \in Clients, Page!Opened(c) PROVE Listening'
  BY <1>a, <1>b, <1>3 DEF Page!Opened, Page!PageTypeOK
<1>4. ASSUME NEW c \in Clients, Page!Closing(c) PROVE Listening'
  BY <1>a, <1>b, <1>4 DEF Page!Closing, Page!PageTypeOK
<1>5. ASSUME NEW c \in Clients, Page!Closed(c) PROVE Listening'
  BY <1>a, <1>b, <1>5 DEF Page!Closed, Page!PageTypeOK
<1>6. CASE Page!Reconnect
  <2>1. /\ timers > 0 /\ timers' = timers - 1 /\ listeners' = listeners
        /\ IF listeners # {} THEN Page!EnsureSocket ELSE UNCHANGED <<socket, ready>>
    BY <1>6 DEF Page!Reconnect
  <2>2. timers' \in Nat
    BY <1>a, <2>1 DEF Page!PageTypeOK
  <2>3. CASE listeners # {}
    BY <1>a, <2>1, <2>2, <2>3, EnsureSocketTypes DEF Page!PageTypeOK
  <2>4. CASE listeners = {}
    BY <1>a, <2>1, <2>2, <2>4 DEF Page!PageTypeOK
  <2> QED BY <2>3, <2>4
<1>7. CASE UNCHANGED pageVars
  BY <1>a, <1>7 DEF pageVars, Page!PageTypeOK
<1> QED BY <1>a, <1>1, <1>2, <1>3, <1>4, <1>5, <1>6, <1>7 DEF PageNext

\* Every variable of the feed keeps its type, and no queue outgrows its bound.
THEOREM Typing == Spec => []TypeOK
<1>1. [Next]_vars /\ Listening => Listening'
  BY PageSteps, StepListening
<1>2. Spec => []Listening
  BY <1>1, InitListening, PTL DEF Spec
<1>3. Stages /\ Listening => TypeOK
  BY DEF TypeOK, Stages, Listening
<1> QED BY <1>2, <1>3, BusInvariant, PTL

\* A page with a listener never ends without a socket and without a scheduled
\* reconnect, for any number of listeners and sockets (useEvents.js:7-23, 34-41).
THEOREM AlwaysListens == Spec => []KeepsListening
<1>1. [Next]_vars /\ Listening => Listening'
  BY PageSteps, StepListening
<1>2. Listening => KeepsListening
  BY DEF Listening
<1> QED BY <1>1, <1>2, InitListening, PTL DEF Spec

---------------------------------------------------------------------------
(* One socket, and no event twice *)

OneSocket == \A c \in Clients : Page!Live(c) => socket = {c}

\* What a listener has handled is not ahead of what its connection was sent.
Behind == \A c \in Clients, e \in handled : ready[c] = "open" => e[2] <= last[c][e[1]]

Known == \A e \in handled : e \in Events /\ e[2] <= published[e[1]]

Once == Known /\ (~orphaned => OneSocket /\ Behind /\ ~repeated)

LEMMA InitOnce == Init => Once
<1> SUFFICES ASSUME Init PROVE Once
  OBVIOUS
<1>1. handled = {} /\ ready = [s \in Page!Sockets |-> "none"]
  BY DEF Init, Page!PageInit
<1>2. ~repeated
  BY ZenonT(30) DEF Init
<1>3. OneSocket
  BY <1>1, FeedAssumption DEF OneSocket, Page!Live, Page!Sockets
<1>4. Known /\ Behind
  BY <1>1 DEF Known, Behind
<1> QED BY <1>2, <1>3, <1>4 DEF Once

\* While the page opens or keeps its socket.
LEMMA EnsureSocketOnce ==
  ASSUME Page!PageTypeOK, Page!EnsureSocket, OneSocket
  PROVE  OneSocket' /\ \A c \in Clients : ready'[c] = "open" => ready[c] = "open"
<1>1. Clients = Page!Sockets
  BY FeedAssumption DEF Page!Sockets
<1>2. CASE \E s \in socket : Page!Live(s)
  BY <1>2 DEF Page!EnsureSocket, OneSocket, Page!Live
<1>3. CASE ~ \E s \in socket : Page!Live(s)
  <2>1. PICK s \in Page!Sockets :
          socket' = {s} /\ ready' = [ready EXCEPT ![s] = "connecting"]
    BY <1>3 DEF Page!EnsureSocket, Page!NewSocket
  <2>2. \A c \in Clients : ~Page!Live(c)
    BY <1>3 DEF OneSocket
  <2>3. \A c \in Clients : ready'[c] = IF c = s THEN "connecting" ELSE ready[c]
    BY <1>1, <2>1 DEF Page!PageTypeOK
  <2> QED BY <2>1, <2>2, <2>3 DEF OneSocket, Page!Live
<1> QED BY <1>2, <1>3

\* What the bus does by itself moves last and published only forward.
LEMMA BusForward ==
  ASSUME Stages, InOrder, [BusNext]_busVars
  PROVE  /\ \A p \in Publishers : published[p] <= published'[p]
         /\ \A c \in Clients, p \in Publishers : last[c][p] <= last'[c][p]
<1>b. /\ published \in [Publishers -> Nat] /\ last \in [Clients -> [Publishers -> Nat]]
      /\ hand \in [Clients -> Seq(Events)]
  BY BusAssumption DEF Stages, BusTypeOK
<1>c. \A e \in Events : e[1] \in Publishers /\ e[2] \in Nat
  BY BusAssumption DEF Events
<1>1. ASSUME NEW p \in Publishers, Publish(p)
      PROVE  published' = [published EXCEPT ![p] = @ + 1] /\ last' = last
  BY <1>1 DEF Publish
<1>2. ASSUME NEW c \in Clients, Accept(c)
      PROVE  published' = published /\ last' = [last EXCEPT ![c] = published]
  BY <1>2 DEF Accept
<1>3. ASSUME NEW c \in Clients, Send(c)
      PROVE  /\ published' = published
             /\ \A d \in Clients, p \in Publishers : last[d][p] <= last'[d][p]
  <2>1. /\ published' = published /\ handler[c] = "send"
        /\ last' = [last EXCEPT ![c][hand[c][1][1]] = hand[c][1][2]]
    BY <1>3 DEF Send
  <2>2. 1 \in 1..Len(hand[c]) /\ hand[c][1] \in Events
    BY <1>b, <2>1 DEF Stages
  <2>3. PICK q \in Publishers, n \in Nat :
          hand[c][1][1] = q /\ hand[c][1][2] = n /\ last[c][q] < n
    BY <1>c, <2>2 DEF InOrder, Due
  <2>4. \A d \in Clients, p \in Publishers :
           last'[d][p] = IF d = c /\ p = q THEN n ELSE last[d][p]
    BY <1>b, <2>1, <2>3
  <2> QED BY <1>b, <2>1, <2>3, <2>4
<1>4. CASE UNCHANGED <<published, last>>
  BY <1>b, <1>4
<1>5. ASSUME NEW p \in Publishers, Publish(p)
      PROVE  /\ \A q \in Publishers : published[q] <= published'[q]
             /\ \A c \in Clients, q \in Publishers : last[c][q] <= last'[c][q]
  <2>1. published' = [published EXCEPT ![p] = published[p] + 1] /\ last' = last
    BY <1>1, <1>5
  <2> QED BY <1>b, <2>1
<1>6. ASSUME NEW d \in Clients, Accept(d)
      PROVE  /\ \A q \in Publishers : published[q] <= published'[q]
             /\ \A c \in Clients, q \in Publishers : last[c][q] <= last'[c][q]
  <2>1. published' = published /\ last' = [last EXCEPT ![d] = published]
    BY <1>2, <1>6
  <2>2. \A c \in Clients, q \in Publishers : last[c][q] <= published[q]
    BY DEF InOrder
  <2> QED BY <1>b, <2>1, <2>2
<1>7. ASSUME NEW d \in Clients, Send(d)
      PROVE  \A q \in Publishers : published[q] <= published'[q]
  BY <1>b, <1>3, <1>7
<1>8. \/ UNCHANGED <<published, last>>
      \/ \E p \in Publishers : Publish(p)
      \/ \E c \in Clients : Accept(c) \/ Send(c)
  BY DEF BusNext, Post, Offer, SendSnapshot, Get, SendFails, Leave, busVars
<1> QED BY <1>3, <1>4, <1>5, <1>6, <1>7, <1>8

LEMMA StepOnce == Stages /\ InOrder /\ Page!PageTypeOK /\ Once /\ [Next]_vars => Once'
<1>a. SUFFICES ASSUME Stages, InOrder, Page!PageTypeOK, Once, [Next]_vars PROVE Once'
  OBVIOUS
<1>b. /\ published \in [Publishers -> Nat] /\ last \in [Clients -> [Publishers -> Nat]]
      /\ hand \in [Clients -> Seq(Events)]
      /\ Clients = Page!Sockets
      /\ ready \in [Clients -> {"none", "connecting", "open", "closing", "closed"}]
  BY <1>a, BusAssumption, FeedAssumption DEF Stages, BusTypeOK, Page!PageTypeOK, Page!Sockets
<1>c. \A e \in Events : e[1] \in Publishers /\ e[2] \in Nat
  BY BusAssumption DEF Events
<1>d. /\ \A p \in Publishers : published[p] <= published'[p]
      /\ \A c \in Clients, p \in Publishers : last[c][p] <= last'[c][p]
  BY <1>a, BusSteps, BusForward
<1>e. published' \in [Publishers -> Nat] /\ last' \in [Clients -> [Publishers -> Nat]]
  <2>1. Stages'
    BY <1>a, BusSteps, StepStages
  <2> QED BY <2>1, BusAssumption DEF Stages, BusTypeOK
<1>f. ASSUME handled' = handled PROVE Known'
  BY <1>a, <1>b, <1>c, <1>d, <1>e, <1>f DEF Once, Known
<1>g. ASSUME handled' = handled, \A c \in Clients : ready'[c] = "open" => ready[c] = "open",
             Known, Behind
      PROVE  Behind'
  BY <1>b, <1>c, <1>d, <1>e, <1>g DEF Known, Behind
<1>1. ASSUME NEW c \in Clients, Connected(c) PROVE Once'
  <2>1. /\ ready[c] = "connecting" /\ ready' = [ready EXCEPT ![c] = "open"]
        /\ socket' = socket /\ last' = [last EXCEPT ![c] = published]
        /\ UNCHANGED <<handled, repeated, orphaned, published>>
    BY <1>1 DEF Connected, Page!Opened, Accept, Quiet, pageHistory
  <2>2. Known'
    BY <1>f, <2>1
  <2>3. ASSUME OneSocket PROVE OneSocket'
    BY <1>b, <2>1, <2>3 DEF OneSocket, Page!Live
  <2>4. ASSUME Behind PROVE Behind'
    <3>1. ASSUME NEW d \in Clients, NEW e \in handled, ready'[d] = "open"
          PROVE  e[2] <= last'[d][e[1]]
      <4>1. e \in Events /\ e[2] <= published[e[1]]
        BY <1>a DEF Once, Known
      <4>2. CASE d = c
        BY <1>b, <2>1, <4>1, <4>2
      <4>3. CASE d # c
        BY <1>b, <2>1, <2>4, <3>1, <4>3 DEF Behind
      <4> QED BY <4>2, <4>3
    <3> QED BY <2>1, <3>1 DEF Behind
  <2>5. repeated' = repeated /\ orphaned' = orphaned
    BY <2>1
  <2> QED BY <1>a, <2>2, <2>3, <2>4, <2>5 DEF Once
<1>2. ASSUME NEW c \in Clients, Deliver(c) PROVE Once'
  <2>1. /\ handler[c] = "send" /\ published' = published
        /\ last' = [last EXCEPT ![c][hand[c][1][1]] = hand[c][1][2]]
        /\ socket' = socket /\ ready' = ready /\ orphaned' = orphaned
    BY <1>2 DEF Deliver, Send, pageVars
  <2>2. hand[c][1] \in Events /\ Due(c, hand[c][1])
    <3>1. 1 \in 1..Len(hand[c])
      BY <1>a, <1>b, <2>1 DEF Stages
    <3> QED BY <1>a, <1>b, <3>1 DEF InOrder
  <2>3. PICK p \in Publishers, n \in Nat :
          hand[c][1][1] = p /\ hand[c][1][2] = n /\ last[c][p] < n /\ n <= published[p]
    BY <1>c, <2>2 DEF Due
  <2>4. last'[c][p] = n
    BY <1>b, <2>1, <2>3
  <2>5. ASSUME OneSocket PROVE OneSocket'
    BY <2>1, <2>5 DEF OneSocket, Page!Live
  <2>6. CASE ready[c] = "open" /\ listeners # {}
    <3>1. handled' = handled \cup {hand[c][1]}
      BY <1>2, <2>6 DEF Deliver
    <3>2. Known'
      BY <1>a, <2>1, <2>2, <2>3, <3>1 DEF Once, Known
    <3>3. ASSUME OneSocket, Behind PROVE Behind'
      <4>1. ASSUME NEW d \in Clients, NEW e \in handled', ready[d] = "open"
            PROVE  e[2] <= last'[d][e[1]]
        <5>1. d = c
          BY <2>6, <3>3, <4>1 DEF OneSocket, Page!Live
        <5>2. CASE e \in handled
          <6>1. e[2] <= last[c][e[1]] /\ e[1] \in Publishers /\ e[2] \in Nat
            BY <1>a, <1>c, <3>3, <4>1, <5>1, <5>2 DEF Behind, Once, Known
          <6>2. last[c][e[1]] <= last'[c][e[1]]
            BY <1>d, <6>1
          <6> QED BY <1>b, <1>e, <5>1, <6>1, <6>2
        <5>3. CASE e = hand[c][1]
          BY <2>3, <2>4, <5>1, <5>3
        <5> QED BY <3>1, <5>2, <5>3
      <4> QED BY <2>1, <4>1 DEF Behind
    <3>4. ASSUME Behind PROVE hand[c][1] \notin handled
      <4>1. ~(n <= last[c][p])
        BY <1>b, <2>3
      <4> QED BY <2>3, <2>6, <3>4, <4>1 DEF Behind
    <3>5. ASSUME Behind, ~repeated PROVE ~repeated'
      <4>1. repeated' = (repeated \/ hand[c][1] \in handled)
        BY <1>2, <2>6 DEF Deliver
      <4> QED BY <3>4, <3>5, <4>1, Zenon
    <3> QED BY <1>a, <2>1, <2>5, <3>2, <3>3, <3>5 DEF Once
  <2>7. CASE ~(ready[c] = "open" /\ listeners # {})
    <3>1. handled' = handled /\ repeated' = repeated
      BY <1>2, <2>7 DEF Deliver
    <3>2. Known'
      BY <1>f, <3>1
    <3>3. ASSUME Behind PROVE Behind'
      BY <1>a, <1>g, <2>1, <3>1, <3>3 DEF Once
    <3> QED BY <1>a, <2>1, <2>5, <3>1, <3>2, <3>3 DEF Once
  <2> QED BY <2>6, <2>7
<1>3. ASSUME NEW c \in Clients, ServerCloses(c) PROVE Once'
  <2>1. /\ ready' = [ready EXCEPT ![c] = "closing"] /\ socket' = socket
        /\ UNCHANGED <<handled, repeated, orphaned>>
    BY <1>3 DEF ServerCloses, Page!Closing, Quiet, pageHistory
  <2>2. Known'
    BY <1>f, <2>1
  <2>3. ASSUME OneSocket PROVE OneSocket'
    BY <1>b, <2>1, <2>3 DEF OneSocket, Page!Live
  <2>4. ASSUME Behind PROVE Behind'
    <3>1. \A d \in Clients : ready'[d] = "open" => ready[d] = "open"
      BY <1>b, <2>1
    <3> QED BY <1>a, <1>g, <2>1, <2>4, <3>1 DEF Once
  <2> QED BY <1>a, <2>1, <2>2, <2>3, <2>4 DEF Once
<1>4. ASSUME NEW c \in Clients, ConnectionEnds(c) PROVE Once'
  <2>1. /\ Page!Live(c) \/ ready[c] = "closing"
        /\ ready' = [ready EXCEPT ![c] = "closed"] /\ socket' = {}
        /\ UNCHANGED <<handled, repeated>>
    BY <1>4 DEF ConnectionEnds, Page!Closed
  <2>2. orphaned' = (orphaned \/ socket \ {c} # {})
    BY <1>4 DEF ConnectionEnds
  <2>3. ASSUME ~orphaned' PROVE ~orphaned /\ socket \ {c} = {}
    BY <2>2, <2>3, Zenon
  <2>4. Known'
    BY <1>f, <2>1
  <2>5. ASSUME OneSocket, socket \ {c} = {} PROVE OneSocket'
    <3>1. \A d \in Clients : d # c => ~Page!Live(d)
      BY <2>5 DEF OneSocket
    <3>2. \A d \in Clients : ready'[d] = IF d = c THEN "closed" ELSE ready[d]
      BY <1>b, <2>1
    <3> QED BY <3>1, <3>2 DEF OneSocket, Page!Live
  <2>6. ASSUME Behind PROVE Behind'
    <3>1. \A d \in Clients : ready'[d] = "open" => ready[d] = "open"
      BY <1>b, <2>1
    <3> QED BY <1>a, <1>g, <2>1, <2>6, <3>1 DEF Once
  <2>7. repeated' = repeated
    BY <2>1
  <2> QED BY <1>a, <2>3, <2>4, <2>5, <2>6, <2>7 DEF Once
<1>5. CASE PageAlone
  <2>1. /\ UNCHANGED <<handled, repeated, orphaned>>
        /\ \/ Page!EnsureSocket
           \/ UNCHANGED <<socket, ready>>
    BY <1>5 DEF PageAlone, Page!Mount, Page!Unmount, Page!Reconnect, Quiet, pageHistory
  <2>2. Known'
    BY <1>f, <2>1
  <2>3. ASSUME OneSocket
        PROVE  OneSocket' /\ \A c \in Clients : ready'[c] = "open" => ready[c] = "open"
    <3>1. CASE Page!EnsureSocket
      BY <1>a, <2>3, <3>1, EnsureSocketOnce
    <3>2. CASE UNCHANGED <<socket, ready>>
      BY <2>3, <3>2 DEF OneSocket, Page!Live
    <3> QED BY <2>1, <3>1, <3>2
  <2>4. ASSUME OneSocket, Behind PROVE Behind'
    BY <1>a, <1>g, <2>1, <2>3, <2>4 DEF Once
  <2>5. repeated' = repeated /\ orphaned' = orphaned
    BY <2>1
  <2> QED BY <1>a, <2>2, <2>3, <2>4, <2>5 DEF Once
<1>6. CASE ServerAlone \/ UNCHANGED vars
  <2>1. UNCHANGED <<handled, repeated, orphaned, socket, ready>>
    BY <1>6 DEF ServerAlone, Quiet, pageHistory, pageVars, vars
  <2>2. Known'
    BY <1>f, <2>1
  <2>3. ASSUME OneSocket PROVE OneSocket'
    BY <2>1, <2>3 DEF OneSocket, Page!Live
  <2>4. ASSUME Behind PROVE Behind'
    BY <1>a, <1>g, <2>1, <2>4 DEF Once
  <2>5. repeated' = repeated /\ orphaned' = orphaned
    BY <2>1
  <2> QED BY <1>a, <2>2, <2>3, <2>4, <2>5 DEF Once
<1> QED BY <1>a, <1>1, <1>2, <1>3, <1>4, <1>5, <1>6 DEF Next

\* Unless a closing socket has dropped the reference to its successor, the page
\* has one live socket and handles no event twice, for any number of sockets,
\* clients and events (useEvents.js:3, 11-14).
THEOREM NeverHandledTwice == Spec => []HandledOnce
<1>1. Spec => []Page!PageTypeOK
  <2>1. [Next]_vars /\ Listening => Listening'
    BY PageSteps, StepListening
  <2>2. Listening => Page!PageTypeOK
    BY DEF Listening
  <2> QED BY <2>1, <2>2, InitListening, PTL DEF Spec
<1>2. Spec => []Once
  BY <1>1, BusInvariant, InitOnce, StepOnce, PTL DEF Spec
<1>3. Once => HandledOnce
  BY DEF Once, HandledOnce, OneSocket
<1> QED BY <1>2, <1>3, PTL
==============================================================================
