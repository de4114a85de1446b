-------------------------- MODULE EventDeliveryProofs --------------------------
(***************************************************************************)
(* Proofs about the way from the handler of a callback to the screen, for  *)
(* any number of callbacks, events, clients and connections.               *)
(*                                                                         *)
(* Every step of the composition is a step of CallbackStream, or none of   *)
(* its business, so what CallbackStreamProofs shows of the deferred        *)
(* streams holds here as well.  DInv adds the connections, and Placed and  *)
(* Ordered what has been written to them.                                  *)
(***************************************************************************)
EXTENDS EventDelivery, CallbackStreamProofs

StreamTypes ==
  /\ opened \in [Connection -> Client \cup Topic \cup {None}]
  /\ closed \subseteq Connection
  /\ clients \in [Client -> Connection \cup {None}]
  /\ bound \in [Transaction -> Client \cup {None}]
  /\ subscribers \in [Topic -> SUBSET Connection]
  /\ wire \in [Connection -> Seq(Event)]
  /\ missed \subseteq Event

\* Connections are opened one after the other.
InOrder ==
  \A n, m \in Connection : m < n /\ opened[n] # None => opened[m] # None

Unopened == \A n \in Connection : opened[n] = None => wire[n] = <<>> /\ n \notin closed

Connections(k) == {n \in Connection : opened[n] = k}
Newest(k) == {n \in Connections(k) : \A m \in Connections(k) : m <= n}

\* A client is served by its newest connection, unless it is closed.
Served(k) ==
  IF Newest(k) \subseteq closed THEN clients[k] = None ELSE clients[k] \in Newest(k)

\* s is the tail of t.
TailOf(s, t) ==
  Len(s) <= Len(t) /\ \A i \in 0..(Len(s) - 1) : s[Len(s) - i] = t[Len(t) - i]

Watched(p) ==
  /\ subscribers[p] = Live(p)
  /\ \A n, m \in Live(p) : n >= m => TailOf(wire[n], wire[m])

DInv ==
  /\ StreamTypes /\ InOrder /\ Unopened
  /\ \A k \in Client : Served(k)
  /\ \A p \in Topic : Watched(p)

------------------------------------------------------------------------------
(* Sequences and connections.                                              *)

LEMMA Places ==
  /\ \A a \in Nat : \A i \in 0..a : i = 0 \/ i > 0
  /\ \A a, b \in Nat : ~(a <= b) => 1..(b - a) = 1..0
  /\ \A a \in Nat : \A i \in 0..(a + 1 - 1) : i \in 0..a
  OBVIOUS

LEMMA Tails ==
  ASSUME NEW s \in Seq(Event), NEW t \in Seq(Event), NEW e \in Event, TailOf(s, t)
  PROVE  TailOf(s \o <<e>>, t \o <<e>>)
  <1>1. /\ Len(s \o <<e>>) = Len(s) + 1 /\ Len(t \o <<e>>) = Len(t) + 1
        /\ Len(s) \in Nat /\ Len(t) \in Nat
        /\ \A i \in 1..Len(s) : (s \o <<e>>)[i] = s[i]
        /\ \A i \in 1..Len(t) : (t \o <<e>>)[i] = t[i]
        /\ (s \o <<e>>)[Len(s) + 1] = e /\ (t \o <<e>>)[Len(t) + 1] = e
    OBVIOUS
  <1>2. PICK a, b : a = Len(s) /\ b = Len(t) /\ a \in Nat /\ b \in Nat
    BY <1>1
  <1>3. a <= b /\ \A i \in 0..(a - 1) : s[a - i] = t[b - i]
    BY <1>2 DEF TailOf
  <1>4. ASSUME NEW i, i \in 0..a
        PROVE  (s \o <<e>>)[a + 1 - i] = (t \o <<e>>)[b + 1 - i]
    <2>1. CASE i = 0
      BY <1>1, <1>2, <2>1
    <2>2. CASE i > 0
      <3>1. i - 1 \in 0..(a - 1) /\ a + 1 - i = a - (i - 1) /\ b + 1 - i = b - (i - 1)
        BY <1>2, <1>4, <2>2
      <3>2. a + 1 - i \in 1..a /\ b + 1 - i \in 1..b
        BY <1>2, <1>3, <1>4, <2>2
      <3> QED
        BY <1>1, <1>2, <1>3, <3>1, <3>2
    <2> QED
      BY <1>2, <1>4, <2>1, <2>2, Places
  <1> QED
    <2>1. \A i \in 0..(a + 1 - 1) : (s \o <<e>>)[a + 1 - i] = (t \o <<e>>)[b + 1 - i]
      BY <1>2, <1>4, Places
    <2>2. a + 1 <= b + 1
      BY <1>2, <1>3
    <2> QED
      BY <1>1, <1>2, <2>1, <2>2 DEF TailOf

LEMMA EmptyTail ==
  ASSUME NEW s \in Seq(Event)
  PROVE  TailOf(<<>>, s) /\ s \o <<>> = s /\ TailOf(s, s)
  <1>1. Len(s) \in Nat /\ s \o <<>> = s
    OBVIOUS
  <1>2. \A i \in 0..(0 - 1) : FALSE
    OBVIOUS
  <1> QED
    BY <1>1, <1>2 DEF TailOf

LEMMA Numbers ==
  /\ Connection \subseteq Nat
  /\ None \notin Connection /\ None \notin Client /\ None \notin Topic
  BY NaturalBound, NoneIsNothing DEF Connection

\* A client's connection is the client's.
LEMMA ClientsOwn ==
  ASSUME DInv, NEW k \in Client, clients[k] # None
  PROVE  clients[k] \in Connection /\ opened[clients[k]] = k
  BY DEF DInv, Served, Newest, Connections

------------------------------------------------------------------------------
(* Connections come and go.                                                *)

\* Those of p are left as they are.
LEMMA ServedKept ==
  ASSUME DInv, NEW k \in Client, clients'[k] = clients[k],
         \A n \in Connection : opened'[n] = k <=> opened[n] = k,
         \A n \in Connection : opened[n] = k => (n \in closed' <=> n \in closed)
  PROVE  Served(k)'
  <1>1. Newest(k)' = Newest(k) /\ Newest(k) \subseteq Connections(k)
    BY DEF Newest, Connections
  <1>2. \A n \in Newest(k) : n \in closed' <=> n \in closed
    BY <1>1 DEF Connections
  <1> QED
    BY <1>1, <1>2 DEF DInv, Served

LEMMA WatchedKept ==
  ASSUME DInv, NEW p \in Topic, subscribers'[p] = subscribers[p], wire' = wire,
         \A n \in Connection : opened'[n] = p <=> opened[n] = p,
         \A n \in Connection : opened[n] = p => (n \in closed' <=> n \in closed)
  PROVE  Watched(p)'
  <1>1. Live(p)' = Live(p)
    BY DEF Live
  <1> QED
    BY <1>1 DEF DInv, Watched, TailOf

\* A connection is opened: nothing has been written to it.
LEMMA OpeningFacts ==
  ASSUME DInv, NEW p \in Client \cup Topic, NEW n \in Connection, Opening(p, n),
         closed' = closed, wire' = wire
  PROVE  /\ opened' \in [Connection -> Client \cup Topic \cup {None}]
         /\ opened'[n] = p /\ opened[n] = None /\ n \notin closed /\ wire[n] = <<>>
         /\ \A m \in Connection : m # n => opened'[m] = opened[m]
         /\ \A m \in Connection : opened[m] # None => m < n
         /\ InOrder' /\ Unopened'
  <1>1. /\ opened' = [opened EXCEPT ![n] = p] /\ opened[n] = None
        /\ \A m \in 1..(n - 1) : opened[m] # None
        /\ opened \in [Connection -> Client \cup Topic \cup {None}]
    BY DEF Opening, DInv, StreamTypes
  <1>2. p # None
    BY Numbers
  <1>3. ASSUME NEW m \in Connection, opened[m] # None
        PROVE  m < n
    <2>1. m \in Nat /\ n \in Nat /\ m # n
      BY <1>1, <1>3, Numbers
    <2>2. ~(n < m)
      BY <1>1, <1>3 DEF DInv, InOrder
    <2> QED
      BY <2>1, <2>2
  <1>4. InOrder'
    <2>1. ASSUME NEW a \in Connection, NEW b \in Connection, b < a, opened'[a] # None
          PROVE  opened'[b] # None
      <3>1. CASE a = n
        <4>1. b \in 1..(n - 1)
          BY <2>1, <3>1, NaturalBound DEF Connection
        <4> QED
          BY <1>1, <1>2, <4>1
      <3>2. CASE a # n
        BY <1>1, <1>2, <2>1, <3>2 DEF DInv, InOrder
      <3> QED
        BY <3>1, <3>2
    <2> QED
      BY <2>1 DEF InOrder
  <1>5. Unopened'
    BY <1>1, <1>2 DEF DInv, Unopened
  <1> QED
    BY <1>1, <1>3, <1>4, <1>5 DEF DInv, Unopened

LEMMA SubscribeKeeps ==
  ASSUME DInv, NEW k \in Client, NEW n \in Connection, Subscribe(k, n)
  PROVE  DInv'
  <1>1. /\ Opening(k, n) /\ clients' = [clients EXCEPT ![k] = n]
        /\ UNCHANGED <<closed, bound, subscribers, wire, missed>>
    BY DEF Subscribe
  <1>2. /\ opened' \in [Connection -> Client \cup Topic \cup {None}]
        /\ opened'[n] = k /\ opened[n] = None /\ n \notin closed
        /\ \A m \in Connection : m # n => opened'[m] = opened[m]
        /\ \A m \in Connection : opened[m] # None => m < n
        /\ InOrder' /\ Unopened'
    BY <1>1, OpeningFacts
  <1>3. StreamTypes'
    BY <1>1, <1>2 DEF DInv, StreamTypes
  <1>4. Served(k)'
    <2>1. n \in Nat /\ k # None
      BY Numbers
    <2>2. Connections(k)' = Connections(k) \cup {n}
      BY <1>2 DEF Connections
    <2>3. \A m \in Connections(k) : m < n
      BY <1>2, <2>1 DEF Connections
    <2>4. \A m \in Connections(k)' : m <= n
      <3>1. Connections(k) \subseteq Nat
        BY Numbers DEF Connections
      <3> QED
        BY <2>1, <2>2, <2>3, <3>1
    <2>5. n \in Newest(k)'
      BY <2>2, <2>4 DEF Newest
    <2>6. clients'[k] = n /\ n \notin closed'
      BY <1>1, <1>2 DEF DInv, StreamTypes
    <2> QED
      BY <2>5, <2>6 DEF Served
  <1>5. ASSUME NEW j \in Client, j # k
        PROVE  Served(j)'
    <2>1. clients'[j] = clients[j] /\ closed' = closed
      BY <1>1, <1>5 DEF DInv, StreamTypes
    <2>2. \A m \in Connection : opened'[m] = j <=> opened[m] = j
      BY <1>2, <1>5, Numbers
    <2> QED
      BY <2>1, <2>2, ServedKept
  <1>6. ASSUME NEW p \in Topic
        PROVE  Watched(p)'
    <2>1. \A m \in Connection : opened'[m] = p <=> opened[m] = p
      BY <1>2, Numbers, ChannelsAreApart
    <2> QED
      BY <1>1, <2>1, WatchedKept
  <1> QED
    BY <1>2, <1>3, <1>4, <1>5, <1>6 DEF DInv

LEMMA WatchKeeps ==
  ASSUME DInv, NEW p \in Topic, NEW n \in Connection, Watch(p, n)
  PROVE  DInv'
  <1>1. /\ Opening(p, n) /\ subscribers' = [subscribers EXCEPT ![p] = subscribers[p] \cup {n}]
        /\ UNCHANGED <<closed, clients, bound, wire, missed>>
    BY DEF Watch
  <1>2. /\ opened' \in [Connection -> Client \cup Topic \cup {None}]
        /\ opened'[n] = p /\ opened[n] = None /\ n \notin closed /\ wire[n] = <<>>
        /\ \A m \in Connection : m # n => opened'[m] = opened[m]
        /\ \A m \in Connection : opened[m] # None => m < n
        /\ InOrder' /\ Unopened'
    BY <1>1, OpeningFacts
  <1>3. StreamTypes'
    BY <1>1, <1>2 DEF DInv, StreamTypes
  <1>4. ASSUME NEW k \in Client
        PROVE  Served(k)'
    <2>1. \A m \in Connection : opened'[m] = k <=> opened[m] = k
      BY <1>2, Numbers, ChannelsAreApart
    <2> QED
      BY <1>1, <2>1, ServedKept
  <1>5. Watched(p)'
    <2>1. Live(p)' = Live(p) \cup {n} /\ subscribers'[p] = subscribers[p] \cup {n}
      BY <1>1, <1>2 DEF Live, DInv, StreamTypes
    <2>2. subscribers[p] = Live(p) /\ \A a, b \in Live(p) : a >= b => TailOf(wire[a], wire[b])
      BY DEF DInv, Watched
    <2>3. \A m \in Connection : wire[m] \in Seq(Event)
      BY DEF DInv, StreamTypes
    <2>4. \A m \in Live(p) : m \in Connection /\ m < n /\ m \in Nat /\ n \in Nat
      BY <1>2, Numbers DEF Live
    <2>5. ASSUME NEW a \in Live(p)', NEW b \in Live(p)', a >= b
          PROVE  TailOf(wire[a], wire[b])
      <3>1. CASE a = n
        <4>1. b \in Connection
          BY <2>1, <2>4
        <4> QED
          BY <1>2, <2>3, <3>1, <4>1, EmptyTail
      <3>2. CASE a # n
        <4>1. a \in Live(p)
          BY <2>1, <3>2
        <4>2. b # n
          BY <2>4, <2>5, <4>1
        <4> QED
          BY <2>1, <2>2, <2>5, <4>1, <4>2
      <3> QED
        BY <3>1, <3>2
    <2> QED
      BY <1>1, <2>1, <2>2, <2>5 DEF Watched, TailOf
  <1>6. ASSUME NEW q \in Topic, q # p
        PROVE  Watched(q)'
    <2>1. \A m \in Connection : opened'[m] = q <=> opened[m] = q
      BY <1>2, <1>6, Numbers
    <2>2. subscribers'[q] = subscribers[q]
      BY <1>1, <1>6 DEF DInv, StreamTypes
    <2> QED
      BY <1>1, <2>1, <2>2, WatchedKept
  <1> QED
    BY <1>2, <1>3, <1>4, <1>5, <1>6 DEF DInv

LEMMA LeaveKeeps ==
  ASSUME DInv, NEW n \in Connection, Leave(n)
  PROVE  DInv'
  <1>1. PICK k : k = opened[n]
    OBVIOUS
  <1>2. /\ k \in Client /\ n \notin closed /\ closed' = closed \cup {n}
        /\ clients' = [clients EXCEPT ![k] = IF clients[k] = n THEN None ELSE clients[k]]
        /\ UNCHANGED <<opened, bound, subscribers, wire, missed>>
    BY <1>1 DEF Leave, Closing
  <1>3. StreamTypes' /\ InOrder' /\ Unopened'
    BY <1>1, <1>2, Numbers DEF DInv, StreamTypes, InOrder, Unopened
  <1>4. Served(k)'
    <2>1. Newest(k)' = Newest(k)
      BY <1>2 DEF Newest, Connections
    <2>2. clients'[k] = IF clients[k] = n THEN None ELSE clients[k]
      BY <1>2 DEF DInv, StreamTypes
    <2>3. \A a, b \in Newest(k) : a = b
      <3>1. \A a, b \in Newest(k) : a <= b /\ b <= a /\ a \in Nat /\ b \in Nat
        BY Numbers DEF Newest, Connections
      <3> QED
        BY <3>1
    <2>4. CASE Newest(k) \subseteq closed
      <3>1. clients[k] = None /\ n \in Nat
        BY <1>2, <2>4, Numbers DEF DInv, Served
      <3> QED
        BY <1>2, <2>1, <2>2, <2>4, <3>1 DEF Served
    <2>5. CASE ~(Newest(k) \subseteq closed)
      <3>1. clients[k] \in Newest(k)
        BY <1>2, <2>5 DEF DInv, Served
      <3>2. CASE clients[k] = n
        <4>1. Newest(k) \subseteq closed'
          BY <1>2, <2>3, <3>1, <3>2
        <4> QED
          BY <2>1, <2>2, <3>2, <4>1 DEF Served
      <3>3. CASE clients[k] # n
        <4>1. ~(Newest(k) \subseteq closed')
          BY <1>2, <2>3, <2>5, <3>1, <3>3
        <4> QED
          BY <2>1, <2>2, <3>1, <3>3, <4>1 DEF Served
      <3> QED
        BY <3>2, <3>3
    <2> QED
      BY <2>4, <2>5
  <1>5. ASSUME NEW j \in Client, j # k
        PROVE  Served(j)'
    <2>1. clients'[j] = clients[j]
      BY <1>2, <1>5 DEF DInv, StreamTypes
    <2>2. \A m \in Connection : opened[m] = j => (m \in closed' <=> m \in closed)
      BY <1>1, <1>2, <1>5
    <2> QED
      BY <1>2, <2>1, <2>2, ServedKept
  <1>6. ASSUME NEW p \in Topic
        PROVE  Watched(p)'
    <2>1. \A m \in Connection : opened[m] = p => (m \in closed' <=> m \in closed)
      BY <1>1, <1>2, ChannelsAreApart
    <2> QED
      BY <1>2, <2>1, WatchedKept
  <1> QED
    BY <1>3, <1>4, <1>5, <1>6 DEF DInv

LEMMA UnwatchKeeps ==
  ASSUME DInv, NEW n \in Connection, Unwatch(n)
  PROVE  DInv'
  <1>1. PICK p : p = opened[n]
    OBVIOUS
  <1>2. /\ p \in Topic /\ n \notin closed /\ closed' = closed \cup {n}
        /\ subscribers' = [subscribers EXCEPT ![p] = subscribers[p] \ {n}]
        /\ UNCHANGED <<opened, clients, bound, wire, missed>>
    BY <1>1 DEF Unwatch, Closing
  <1>3. StreamTypes' /\ InOrder' /\ Unopened'
    BY <1>1, <1>2, Numbers DEF DInv, StreamTypes, InOrder, Unopened
  <1>4. ASSUME NEW k \in Client
        PROVE  Served(k)'
    <2>1. \A m \in Connection : opened[m] = k => (m \in closed' <=> m \in closed)
      BY <1>1, <1>2, ChannelsAreApart
    <2> QED
      BY <1>2, <2>1, ServedKept
  <1>5. Watched(p)'
    <2>1. Live(p)' = Live(p) \ {n}
      BY <1>1, <1>2 DEF Live
    <2>2. subscribers'[p] = subscribers[p] \ {n}
      BY <1>2 DEF DInv, StreamTypes
    <2> QED
      BY <1>2, <2>1, <2>2 DEF DInv, Watched, TailOf
  <1>6. ASSUME NEW q \in Topic, q # p
        PROVE  Watched(q)'
    <2>1. subscribers'[q] = subscribers[q]
      BY <1>2, <1>6 DEF DInv, StreamTypes
    <2>2. \A m \in Connection : opened[m] = q => (m \in closed' <=> m \in closed)
      BY <1>1, <1>2, <1>6
    <2> QED
      BY <1>2, <2>1, <2>2, WatchedKept
  <1> QED
    BY <1>3, <1>4, <1>5, <1>6 DEF DInv

LEMMA StreamsStepKeeps ==
  ASSUME DInv, StreamsStep
  PROVE  DInv'
  <1>1. ASSUME NEW t \in Transaction, NEW k \in Client, Bind(t, k)
        PROVE  DInv'
    <2>1. /\ bound' = [bound EXCEPT ![t] = k]
          /\ UNCHANGED <<opened, closed, clients, subscribers, wire, missed>>
      BY <1>1 DEF Bind
    <2>2. StreamTypes' /\ InOrder' /\ Unopened'
      BY <2>1 DEF DInv, StreamTypes, InOrder, Unopened
    <2> QED
      BY <2>1, <2>2, ServedKept, WatchedKept DEF DInv
  <1> QED
    BY <1>1, SubscribeKeeps, WatchKeeps, LeaveKeeps, UnwatchKeeps DEF StreamsStep

------------------------------------------------------------------------------
(* Events are written.                                                     *)

LEMMA ThroughType ==
  ASSUME TypeOK, TypeOK', NEW c \in Callback
  PROVE  Through(c) \in Seq(Event) /\ <<c, emitted'[c]>> \in Event
  <1>1. sink[c] \in Seq(Nat) /\ sink'[c] \in Seq(Nat) /\ emitted'[c] \in Nat
    BY MaxPushAssumption DEF TypeOK
  <1>2. PICK a, b : a = Len(sink[c]) /\ b = Len(sink'[c]) /\ a \in Nat /\ b \in Nat
    <2>1. Len(sink[c]) \in Nat /\ Len(sink'[c]) \in Nat
      BY <1>1
    <2> QED
      BY <2>1
  <1>3. \A i \in 1..(b - a) : a + i \in 1..b
    BY <1>2
  <1>4. \A i \in 1..(b - a) : sink'[c][a + i] \in Nat
    BY <1>1, <1>2, <1>3
  <1>5. PICK n : n \in Nat /\ 1..(b - a) = 1..n
    <2>1. CASE a <= b
      <3>1. b - a \in Nat
        BY <1>2, <2>1
      <3> QED
        BY <3>1
    <2>2. CASE ~(a <= b)
      <3>1. 1..(b - a) = 1..0
        BY <1>2, <2>2, Places
      <3> QED
        BY <3>1
    <2> QED
      BY <2>1, <2>2
  <1>6. Through(c) = [i \in 1..n |-> <<c, sink'[c][a + i]>>]
    BY <1>2, <1>5 DEF Through
  <1>7. \A i \in 1..n : <<c, sink'[c][a + i]>> \in Event
    BY <1>4, <1>5 DEF Event
  <1> QED
    BY <1>1, <1>5, <1>6, <1>7 DEF Event

LEMMA WrittenKeeps ==
  ASSUME DInv, TypeOK, TypeOK', NEW c \in Callback, NEW p \in Topic \cup {None}, Written(c, p)
  PROVE  DInv'
  <1>1. PICK e, more : e = <<c, emitted'[c]>> /\ more = Through(c)
    OBVIOUS
  <1>2. e \in Event /\ more \in Seq(Event)
    BY <1>1, ThroughType
  <1>3. PICK t : t = TransactionOf[c] /\ t \in Transaction
    BY MapsAssumption
  <1>4. PICK published, pushed :
          /\ published = Published(p, e) /\ pushed = Pushed(t, more)
          /\ \A n \in Connection :
               /\ published[n] = IF p # None /\ n \in subscribers[p] THEN <<e>> ELSE <<>>
               /\ pushed[n] = IF n = Reaches(t) THEN more ELSE <<>>
    <2>1. \A n \in Connection :
            Published(p, e)[n] = IF p # None /\ n \in subscribers[p] THEN <<e>> ELSE <<>>
      BY DEF Published
    <2>2. \A n \in Connection :
            Pushed(t, more)[n] = IF n = Reaches(t) THEN more ELSE <<>>
      BY DEF Pushed
    <2> QED
      BY <2>1, <2>2
  <1>5. /\ wire' = [n \in Connection |-> wire[n] \o published[n] \o pushed[n]]
        /\ missed' = missed \cup Missed(t, more)
        /\ UNCHANGED <<opened, closed, clients, bound, subscribers>>
    BY <1>1, <1>3, <1>4 DEF Written
  <1>6. \A n \in Connection : wire[n] \in Seq(Event) /\ published[n] \in Seq(Event)
                              /\ pushed[n] \in Seq(Event)
    <2>1. <<e>> \in Seq(Event) /\ <<>> \in Seq(Event)
      BY <1>2
    <2> QED
      BY <1>2, <1>4, <2>1 DEF DInv, StreamTypes
  <1>7. Missed(t, more) \subseteq Event
    <2>1. \A i \in 1..Len(more) : more[i] \in Event
      BY <1>2
    <2> QED
      BY <2>1 DEF Missed
  <1>8. StreamTypes'
    <2>1. wire' \in [Connection -> Seq(Event)]
      BY <1>5, <1>6
    <2> QED
      BY <1>5, <1>7, <2>1 DEF DInv, StreamTypes
  <1>9. ASSUME NEW n \in Connection, opened[n] \notin Client
        PROVE  wire'[n] = IF p # None /\ n \in subscribers[p] THEN wire[n] \o <<e>> ELSE wire[n]
    <2>1. n # Reaches(t)
      <3>1. bound[t] \in Client \cup {None} /\ n # None
        BY <1>3, Numbers DEF DInv, StreamTypes
      <3> QED
        BY <1>9, <3>1, ClientsOwn DEF Reaches
    <2>2. wire'[n] = wire[n] \o published[n] /\ published[n] \in Seq(Event)
      <3>1. pushed[n] = <<>> /\ wire[n] \in Seq(Event) /\ published[n] \in Seq(Event)
        BY <1>4, <1>6, <2>1
      <3>2. wire[n] \o published[n] \in Seq(Event)
        BY <3>1
      <3>3. wire'[n] = (wire[n] \o published[n]) \o <<>>
        BY <1>5, <3>1
      <3> QED
        BY <3>1, <3>2, <3>3, EmptyTail
    <2> QED
      BY <1>4, <1>6, <2>2, EmptyTail
  <1>10. ASSUME NEW q \in Topic
         PROVE  Watched(q)'
    <2>1. /\ Live(q)' = Live(q) /\ subscribers'[q] = Live(q)
          /\ \A a, b \in Live(q) : a >= b => TailOf(wire[a], wire[b])
      BY <1>5 DEF Live, DInv, Watched
    <2>2. \A a \in Live(q) : a \in Connection /\ opened[a] = q /\ opened[a] \notin Client
      BY ChannelsAreApart DEF Live
    <2>3. CASE p = q
      <3>1. p # None /\ subscribers[p] = Live(q)
        BY <2>3, Numbers DEF DInv, Watched
      <3>2. \A a \in Live(q) : wire'[a] = wire[a] \o <<e>>
        BY <1>9, <2>2, <3>1
      <3>3. ASSUME NEW a \in Live(q), NEW b \in Live(q), a >= b
            PROVE  TailOf(wire'[a], wire'[b])
        <4>1. /\ wire[a] \in Seq(Event) /\ wire[b] \in Seq(Event)
              /\ TailOf(wire[a], wire[b])
          BY <1>6, <2>1, <2>2, <3>3
        <4>2. TailOf(wire[a] \o <<e>>, wire[b] \o <<e>>)
          BY <1>2, <4>1, Tails
        <4> QED
          BY <3>2, <4>2
      <3> QED
        BY <2>1, <3>3 DEF Watched, TailOf
    <2>4. CASE p # q
      <3>1. \A a \in Live(q) : ~(p # None /\ a \in subscribers[p])
        BY <2>2, <2>4 DEF DInv, Watched, Live
      <3>2. \A a \in Live(q) : wire'[a] = wire[a]
        BY <1>9, <2>2, <3>1
      <3> QED
        BY <2>1, <3>2 DEF Watched, TailOf
    <2> QED
      BY <2>3, <2>4
  <1>11. Unopened'
    <2>1. ASSUME NEW n \in Connection, opened[n] = None
          PROVE  wire'[n] = <<>> /\ n \notin closed
      <3>1. opened[n] \notin Client /\ ~(p # None /\ n \in subscribers[p])
        BY <2>1, Numbers DEF DInv, Watched, Live
      <3> QED
        BY <1>9, <2>1, <3>1 DEF DInv, Unopened
    <2> QED
      BY <1>5, <2>1 DEF Unopened
  <1>12. InOrder'
    BY <1>5 DEF DInv, InOrder
  <1>13. \A k \in Client : Served(k)'
    BY <1>5, ServedKept
  <1> QED
    BY <1>8, <1>10, <1>11, <1>12, <1>13 DEF DInv

------------------------------------------------------------------------------
(* The theorems.                                                           *)

LEMMA TellSteps ==
  DeliveryNext => (Next \/ UNCHANGED vars)
  BY DEF DeliveryNext, Tell, Answer, Settle, Next

\* The deferred streams do here what they do alone.
THEOREM StreamsInside == DeliverySpec => Spec
  <1>1. DeliveryInit => Init
    BY DEF DeliveryInit
  <1>2. [DeliveryNext]_allVars => [Next]_vars
    BY TellSteps DEF allVars
  <1> QED
    BY <1>1, <1>2, PTL DEF DeliverySpec, Spec

LEMMA DeliveryStep ==
  ASSUME DInv, TypeOK, TypeOK', [DeliveryNext]_allVars
  PROVE  DInv'
  <1>1. ASSUME NEW c \in Callback, Tell(c) \/ Answer(c) \/ Settle(c)
        PROVE  DInv'
    <2>1. TopicOf[c] \in Topic \cup {None}
      BY MapsAssumption
    <2>2. PICK p \in Topic \cup {None} : Written(c, p)
      BY <1>1, <2>1 DEF Tell, Answer, Settle
    <2> QED
      BY <2>2, WrittenKeeps
  <1>2. CASE UNCHANGED allVars
    <2>1. UNCHANGED <<opened, closed, clients, bound, subscribers, wire, missed>>
      BY <1>2 DEF allVars, streamVars
    <2>2. StreamTypes' /\ InOrder' /\ Unopened'
      BY <2>1 DEF DInv, StreamTypes, InOrder, Unopened
    <2> QED
      BY <2>1, <2>2, ServedKept, WatchedKept DEF DInv
  <1> QED
    BY <1>1, <1>2, StreamsStepKeeps DEF DeliveryNext

THEOREM DeliveryInductive == DeliverySpec => []DInv
  <1>1. DeliveryInit => DInv
    <2> SUFFICES ASSUME DeliveryInit PROVE DInv
      OBVIOUS
    <2>1. StreamTypes /\ InOrder /\ Unopened
      BY DEF DeliveryInit, StreamsInit, StreamTypes, InOrder, Unopened
    <2>2. ASSUME NEW k \in Client
          PROVE  Served(k)
      BY Numbers DEF DeliveryInit, StreamsInit, Served, Newest, Connections
    <2>3. ASSUME NEW p \in Topic
          PROVE  Watched(p)
      BY Numbers DEF DeliveryInit, StreamsInit, Watched, Live
    <2> QED
      BY <2>1, <2>2, <2>3 DEF DInv
  <1>2. DeliverySpec => []TypeOK
    BY StreamsInside, TypeCorrect, PTL
  <1>3. DInv /\ TypeOK /\ TypeOK' /\ [DeliveryNext]_allVars => DInv'
    BY DeliveryStep
  <1> QED
    BY <1>1, <1>2, <1>3, PTL DEF DeliverySpec

\* What is written and who is registered keeps its type.
THEOREM DeliveryTypes == DeliverySpec => []DeliveryTypeOK
  <1>1. DInv /\ TypeOK => DeliveryTypeOK
    BY DEF DInv, StreamTypes, DeliveryTypeOK
  <1> QED
    BY <1>1, DeliveryInductive, StreamsInside, TypeCorrect, PTL

\* No event reaches the client before the ACK of its callback is out.
THEOREM DeliveryAckOrder == DeliverySpec => []NoEventBeforeAck
  BY StreamsInside, AckOrder, PTL

\* In front of the connections, too, the deferred streams implement
\* AckedDelivery.
THEOREM DeliveryRefines == DeliverySpec => ImplementsAckedDelivery
  BY StreamsInside, Refinement, PTL

\* However connections come and go, whoever should be registered is, and who
\* watches the same search or order sees the same from the moment on they came.
THEOREM Registered == DeliverySpec => []OpenIsRegistered
  <1>1. DInv => OpenIsRegistered
    <2> SUFFICES ASSUME DInv PROVE OpenIsRegistered
      OBVIOUS
    <2>1. ASSUME NEW k \in Client
          PROVE  LET all == {n \in Connection : opened[n] = k}
                     newest == {n \in all : \A m \in all : m <= n}
                 IN IF newest \subseteq closed THEN clients[k] = None ELSE clients[k] \in newest
      BY DEF DInv, Served, Newest, Connections
    <2>2. ASSUME NEW p \in Topic
          PROVE  /\ subscribers[p] = Live(p)
                 /\ \A n, m \in Live(p) : n >= m => TailOf(wire[n], wire[m])
      BY DEF DInv, Watched
    <2> QED
      BY <2>1, <2>2 DEF OpenIsRegistered, TailOf
  <1> QED
    BY <1>1, DeliveryInductive, PTL

------------------------------------------------------------------------------
(* Written once, in order.                                                 *)

\* An event has been written to a connection.
Carries(n, e) == \E i \in 1..Len(wire[n]) : wire[n][i] = e

\* What was let through is on one connection of the unified stream, or was
\* missed, and nothing else is.
Placed(c) ==
  \A j \in Nat :
    /\ \A n \in Unified : Carries(n, <<c, j>>) =>
         /\ j \in 1..Len(sink[c])
         /\ <<c, j>> \notin missed
         /\ \A m \in Unified : Carries(m, <<c, j>>) => m = n
    /\ <<c, j>> \in missed => j \in 1..Len(sink[c])
    /\ j \in 1..Len(sink[c]) =>
         <<c, j>> \in missed \/ \E n \in Unified : Carries(n, <<c, j>>)

\* The events of c on a connection are in the order of their numbers.
Ordered(c) ==
  \A n \in Unified : \A i, k \in 1..Len(wire[n]) :
    i < k /\ wire[n][i][1] = c /\ wire[n][k][1] = c => wire[n][i][2] < wire[n][k][2]

LEMMA Joining ==
  ASSUME NEW s \in Seq(Event), NEW t \in Seq(Event)
  PROVE  /\ s \o t \in Seq(Event)
         /\ Len(s) \in Nat /\ Len(t) \in Nat
         /\ Len(s \o t) = Len(s) + Len(t)
         /\ \A i \in 1..Len(s) : (s \o t)[i] = s[i]
         /\ \A i \in 1..Len(t) : (s \o t)[Len(s) + i] = t[i]
  OBVIOUS

\* Where a place of the longer sequence comes from.
LEMMA OldOrNew ==
  ASSUME NEW a \in Nat, NEW b \in Nat, NEW i \in 1..(a + b)
  PROVE  i \in 1..a \/ (i - a \in 1..b /\ i = a + (i - a))
  OBVIOUS

\* What the client was given of a callback is its first events.
LEMMA SinkCounts ==
  ASSUME IInv, NEW c \in Callback
  PROVE  /\ sink[c] \in Seq(Nat) /\ Len(sink[c]) \in Nat
         /\ \A i \in 1..Len(sink[c]) : sink[c][i] = i
  <1>1. emitted[c] \in Nat /\ sink[c] \in Seq(Nat)
    BY MaxPushAssumption DEF IInv, TypeOK
  <1>2. sink[c] = <<>> \/ sink[c] = AD!Upto(emitted[c])
    BY DEF IInv, TypeOK, EventsWhere
  <1>3. Len(<<>>) = 0
    OBVIOUS
  <1>4. /\ Len(AD!Upto(emitted[c])) = emitted[c]
        /\ \A i \in 1..emitted[c] : AD!Upto(emitted[c])[i] = i
    BY <1>1 DEF AD!Upto
  <1>5. CASE sink[c] = <<>>
    BY <1>1, <1>3, <1>5
  <1>6. CASE sink[c] = AD!Upto(emitted[c])
    <2>1. Len(sink[c]) = emitted[c]
      BY <1>4, <1>6
    <2> QED
      BY <1>1, <1>4, <1>6, <2>1
  <1> QED
    BY <1>2, <1>5, <1>6

\* The same in the next state.
LEMMA SinkCountsNext ==
  ASSUME IInv', NEW c \in Callback
  PROVE  /\ sink'[c] \in Seq(Nat) /\ Len(sink'[c]) \in Nat
         /\ \A i \in 1..Len(sink'[c]) : sink'[c][i] = i
  <1>1. emitted'[c] \in Nat /\ sink'[c] \in Seq(Nat)
    BY MaxPushAssumption DEF IInv, TypeOK
  <1>2. sink'[c] = <<>> \/ sink'[c] = AD!Upto(emitted'[c])
    BY DEF IInv, TypeOK, EventsWhere
  <1>3. Len(<<>>) = 0
    OBVIOUS
  <1>4. /\ Len(AD!Upto(emitted'[c])) = emitted'[c]
        /\ \A i \in 1..emitted'[c] : AD!Upto(emitted'[c])[i] = i
    BY <1>1 DEF AD!Upto
  <1>5. CASE sink'[c] = <<>>
    BY <1>1, <1>3, <1>5
  <1>6. CASE sink'[c] = AD!Upto(emitted'[c])
    <2>1. Len(sink'[c]) = emitted'[c]
      BY <1>4, <1>6
    <2> QED
      BY <1>1, <1>4, <1>6, <2>1
  <1> QED
    BY <1>2, <1>5, <1>6

LEMMA Longer ==
  ASSUME NEW s \in Seq(Nat), NEW t \in Seq(Nat), NEW x \in Nat
  PROVE  Len(s) <= Len(Append(s, x)) /\ Len(s) <= Len(s \o t)
  OBVIOUS

\* A step of a callback takes nothing back, and is none of the others'.
LEMMA SinkGrows ==
  ASSUME IInv, IInv', NEW c \in Callback, Tell(c) \/ Answer(c) \/ Settle(c)
  PROVE  /\ Len(sink[c]) <= Len(sink'[c])
         /\ \A d \in Callback : d # c => sink'[d] = sink[d]
  <1>t. /\ sink \in [Callback -> Seq(Nat)] /\ sink[c] \in Seq(Nat) /\ queue[c] \in Seq(Nat)
        /\ emitted'[c] \in Nat
    BY MaxPushAssumption DEF IInv, TypeOK
  <1>1. \/ sink' = sink
        \/ sink' = [sink EXCEPT ![c] = Append(sink[c], emitted'[c])]
        \/ sink' = [sink EXCEPT ![c] = sink[c] \o queue[c]]
    BY DEF Tell, Answer, Settle, Push, WriteAck, WriteNack, Finish, Drop, Release, Discard
  <1>2. \A d \in Callback : d # c => sink'[d] = sink[d]
    BY <1>t, <1>1
  <1>3. \/ sink'[c] = sink[c]
        \/ sink'[c] = Append(sink[c], emitted'[c])
        \/ sink'[c] = sink[c] \o queue[c]
    BY <1>t, <1>1
  <1>4. Len(sink[c]) <= Len(sink[c])
    BY SinkCounts
  <1> QED
    BY <1>t, <1>2, <1>3, <1>4, Longer

LEMMA LengthIs ==
  ASSUME NEW s \in Seq(Event), NEW n \in Nat, DOMAIN s = 1..n
  PROVE  Len(s) = n
  <1>1. PICK l : l = Len(s) /\ l \in Nat /\ 1..l = 1..n
    OBVIOUS
  <1>2. l \in 1..l \/ l = 0
    BY <1>1
  <1>3. n \in 1..n \/ n = 0
    OBVIOUS
  <1>4. l <= n /\ n <= l
    BY <1>1, <1>2, <1>3
  <1> QED
    BY <1>1, <1>4

\* What goes through in a step: the next events of the callback.
LEMMA ThroughIs ==
  ASSUME IInv, IInv', NEW c \in Callback, Tell(c) \/ Answer(c) \/ Settle(c),
         NEW a, NEW b, a = Len(sink[c]), b = Len(sink'[c])
  PROVE  /\ a \in Nat /\ b \in Nat /\ b - a \in Nat
         /\ Through(c) \in Seq(Event) /\ Len(Through(c)) = b - a
         /\ \A i \in 1..(b - a) : Through(c)[i] = <<c, a + i>>
  <1>1. a \in Nat /\ b \in Nat /\ a <= b
    BY SinkCounts, SinkCountsNext, SinkGrows
  <1>2. b - a \in Nat /\ \A i \in 1..(b - a) : a + i \in 1..b
    BY <1>1
  <1>3. \A i \in 1..(b - a) : sink'[c][a + i] = a + i
    BY <1>2, SinkCountsNext
  <1>4. Through(c) = [i \in 1..(b - a) |-> <<c, sink'[c][a + i]>>]
    BY DEF Through
  <1>5. Through(c) \in Seq(Event)
    BY ThroughType DEF IInv
  <1>6. PICK n : n = b - a /\ n \in Nat
    BY <1>2
  <1>7. \A i \in 1..n : Through(c)[i] = <<c, a + i>>
    <2>1. \A i \in 1..n : Through(c)[i] = <<c, sink'[c][a + i]>>
      BY <1>4, <1>6
    <2> QED
      BY <1>3, <1>6, <2>1
  <1>8. Len(Through(c)) = n
    <2>1. DOMAIN Through(c) = 1..n
      BY <1>4, <1>6
    <2> QED
      BY <1>5, <1>6, <2>1, LengthIs
  <1> QED
    BY <1>1, <1>2, <1>5, <1>6, <1>7, <1>8

\* push() finds a connection of the unified stream, or none.
LEMMA ReachesUnified ==
  ASSUME DInv, NEW t \in Transaction
  PROVE  Reaches(t) = None \/ Reaches(t) \in Unified
  <1>1. bound[t] \in Client \cup {None}
    BY DEF DInv, StreamTypes
  <1> QED
    BY <1>1, ClientsOwn DEF Reaches, Unified

\* The connection push() finds for c, or None.
Finds(c) == Reaches(TransactionOf[c])

\* What a step of c writes to the unified stream: what goes through, at the
\* end of the connection push() finds.
LEMMA UnifiedWire ==
  ASSUME DInv, TypeOK, TypeOK', NEW c \in Callback, NEW p \in Topic \cup {None},
         Written(c, p), NEW n \in Unified
  PROVE  wire'[n] = IF n = Finds(c) THEN wire[n] \o Through(c) ELSE wire[n]
  <1>1. PICK e, more : e = <<c, emitted'[c]>> /\ more = Through(c)
    OBVIOUS
  <1>2. n \in Connection /\ wire[n] \in Seq(Event) /\ more \in Seq(Event)
    BY <1>1, ThroughType DEF Unified, DInv, StreamTypes
  <1>3. PICK published, pushed :
          /\ published = Published(p, e) /\ pushed = Pushed(TransactionOf[c], more)
    OBVIOUS
  <1>4. published[n] = <<>>
    <2>1. ~(p # None /\ n \in subscribers[p])
      BY ChannelsAreApart DEF DInv, Watched, Live, Unified
    <2> QED
      BY <1>2, <1>3, <2>1 DEF Published
  <1>5. pushed[n] = IF n = Finds(c) THEN more ELSE <<>>
    BY <1>2, <1>3 DEF Pushed, Finds
  <1>6. wire'[n] = (wire[n] \o published[n]) \o pushed[n]
    BY <1>1, <1>2, <1>3 DEF Written
  <1>7. wire'[n] = wire[n] \o pushed[n]
    BY <1>2, <1>4, <1>6, EmptyTail
  <1> QED
    BY <1>1, <1>2, <1>5, <1>7, EmptyTail

\* The events of c a step lets through.
GoesThrough(c, e) == \E i \in 1..Len(Through(c)) : e = Through(c)[i]

\* What a step of c adds is on the connection it finds, or missed.
LEMMA Additions ==
  ASSUME DInv, TypeOK, TypeOK', NEW c \in Callback, NEW p \in Topic \cup {None},
         Written(c, p), NEW e
  PROVE  /\ \A n \in Unified :
              Carries(n, e)' <=> Carries(n, e) \/ (n = Finds(c) /\ GoesThrough(c, e))
         /\ e \in missed' <=> e \in missed \/ (Finds(c) = None /\ GoesThrough(c, e))
  <1>1. PICK more : more = Through(c)
    OBVIOUS
  <1>2. more \in Seq(Event)
    BY <1>1, ThroughType
  <1>3. PICK l : l = Len(more) /\ l \in Nat
    BY <1>2
  <1>g. GoesThrough(c, e) <=> \E i \in 1..l : e = more[i]
    BY <1>1, <1>3 DEF GoesThrough
  <1>4. ASSUME NEW n \in Unified
        PROVE  Carries(n, e)' <=> Carries(n, e) \/ (n = Finds(c) /\ GoesThrough(c, e))
    <2>1. wire'[n] = IF n = Finds(c) THEN wire[n] \o more ELSE wire[n]
      BY <1>1, UnifiedWire
    <2>2. CASE n # Finds(c)
      BY <2>1, <2>2 DEF Carries
    <2>3. CASE n = Finds(c)
      <3>1. PICK s, t : s = wire[n] /\ t = wire'[n]
        OBVIOUS
      <3>2. s \in Seq(Event)
        BY <3>1 DEF DInv, StreamTypes, Unified
      <3>3. PICK k : k = Len(s) /\ k \in Nat
        BY <3>2
      <3>4. t = s \o more
        BY <2>1, <2>3, <3>1
      <3>5. /\ Len(t) = k + l
            /\ \A i \in 1..k : t[i] = s[i]
            /\ \A i \in 1..l : t[k + i] = more[i]
        BY <1>2, <1>3, <3>2, <3>3, <3>4, Joining
      <3>6. ASSUME NEW i, i \in 1..(k + l), t[i] = e
            PROVE  (\E j \in 1..k : s[j] = e) \/ \E j \in 1..l : e = more[j]
        <4>1. i \in 1..k \/ (i - k \in 1..l /\ i = k + (i - k))
          BY <1>3, <3>3, <3>6, OldOrNew
        <4>2. CASE i \in 1..k
          BY <3>5, <3>6, <4>2
        <4>3. CASE i - k \in 1..l /\ i = k + (i - k)
          <5>1. PICK j : j = i - k
            OBVIOUS
          <5>2. j \in 1..l /\ t[k + j] = e
            BY <3>6, <4>3, <5>1
          <5> QED
            BY <3>5, <5>2
        <4> QED
          BY <4>1, <4>2, <4>3
      <3>7. /\ \A i \in 1..k : i \in 1..(k + l)
            /\ \A i \in 1..l : k + i \in 1..(k + l)
        BY <1>3, <3>3
      <3>8. (\E i \in 1..(k + l) : t[i] = e) <=>
              (\E j \in 1..k : s[j] = e) \/ \E j \in 1..l : e = more[j]
        BY <3>5, <3>6, <3>7
      <3>9. /\ Carries(n, e) <=> \E j \in 1..k : s[j] = e
            /\ Carries(n, e)' <=> \E i \in 1..(k + l) : t[i] = e
        BY <3>1, <3>3, <3>5 DEF Carries
      <3> QED
        BY <1>g, <2>3, <3>8, <3>9
    <2> QED
      BY <2>2, <2>3
  <1>5. e \in missed' <=> e \in missed \/ (Finds(c) = None /\ GoesThrough(c, e))
    <2>1. missed' = missed \cup Missed(TransactionOf[c], more)
      BY <1>1 DEF Written
    <2>2. Missed(TransactionOf[c], more) =
            IF Finds(c) = None THEN {more[i] : i \in 1..l} ELSE {}
      BY <1>3 DEF Missed, Finds
    <2>3. e \in {more[i] : i \in 1..l} <=> \E i \in 1..l : e = more[i]
      OBVIOUS
    <2>4. CASE Finds(c) = None
      BY <1>g, <2>1, <2>2, <2>3, <2>4
    <2>5. CASE Finds(c) # None
      BY <2>1, <2>2, <2>5
    <2> QED
      BY <2>4, <2>5
  <1> QED
    BY <1>4, <1>5

LEMMA Numbering ==
  ASSUME NEW a \in Nat, NEW b \in Nat, b - a \in Nat, NEW j \in Nat
  PROVE  /\ (\E i \in 1..(b - a) : j = a + i) <=> j \in 1..b /\ j \notin 1..a
         /\ j \in 1..a => j \in 1..b
  <1>1. ASSUME j \in 1..b, j \notin 1..a
        PROVE  j - a \in 1..(b - a) /\ j = a + (j - a)
    BY <1>1
  <1> QED
    BY <1>1

LEMMA PlacedKept ==
  ASSUME DInv, IInv, IInv', NEW c \in Callback, Tell(c) \/ Answer(c) \/ Settle(c),
         NEW p \in Topic \cup {None}, Written(c, p), NEW d \in Callback, Placed(d)
  PROVE  Placed(d)'
  <1>1. PICK a, b : a = Len(sink[c]) /\ b = Len(sink'[c])
    OBVIOUS
  <1>2. a \in Nat /\ b \in Nat /\ b - a \in Nat
    BY <1>1, ThroughIs
  <1>3. Finds(c) = None \/ Finds(c) \in Unified
    BY ReachesUnified, MapsAssumption DEF Finds
  <1>4. Unified' = Unified /\ None \notin Unified
    BY Numbers DEF Written, Unified
  <1>5. SUFFICES ASSUME NEW j \in Nat
        PROVE  /\ \A n \in Unified : Carries(n, <<d, j>>)' =>
                    /\ j \in 1..Len(sink'[d])
                    /\ <<d, j>> \notin missed'
                    /\ \A m \in Unified : Carries(m, <<d, j>>)' => m = n
               /\ <<d, j>> \in missed' => j \in 1..Len(sink'[d])
               /\ j \in 1..Len(sink'[d]) =>
                    <<d, j>> \in missed' \/ \E n \in Unified : Carries(n, <<d, j>>)'
    <2>1. \A j \in Nat :
            /\ \A n \in Unified' : Carries(n, <<d, j>>)' =>
                 /\ j \in 1..Len(sink'[d])
                 /\ <<d, j>> \notin missed'
                 /\ \A m \in Unified' : Carries(m, <<d, j>>)' => m = n
            /\ <<d, j>> \in missed' => j \in 1..Len(sink'[d])
            /\ j \in 1..Len(sink'[d]) =>
                 <<d, j>> \in missed' \/ \E n \in Unified' : Carries(n, <<d, j>>)'
      BY <1>4, <1>5
    <2> QED
      BY <2>1 DEF Placed
  <1>6. PICK e : e = <<d, j>>
    OBVIOUS
  <1>7. /\ \A n \in Unified :
             Carries(n, e)' <=> Carries(n, e) \/ (n = Finds(c) /\ GoesThrough(c, e))
        /\ e \in missed' <=> e \in missed \/ (Finds(c) = None /\ GoesThrough(c, e))
    BY Additions DEF IInv
  <1>g. GoesThrough(c, e) <=> \E i \in 1..(b - a) : e = <<c, a + i>>
    <2>1. /\ Len(Through(c)) = b - a
          /\ \A i \in 1..(b - a) : Through(c)[i] = <<c, a + i>>
      BY <1>1, ThroughIs
    <2> QED
      BY <2>1 DEF GoesThrough
  <1>8. /\ \A n \in Unified : Carries(n, e) =>
             /\ j \in 1..Len(sink[d])
             /\ e \notin missed
             /\ \A m \in Unified : Carries(m, e) => m = n
        /\ e \in missed => j \in 1..Len(sink[d])
        /\ j \in 1..Len(sink[d]) => e \in missed \/ \E n \in Unified : Carries(n, e)
    BY <1>6 DEF Placed
  <1>9. CASE d # c
    <2>1. sink'[d] = sink[d]
      BY <1>9, SinkGrows
    <2>2. ~GoesThrough(c, e)
      BY <1>6, <1>9, <1>g
    <2>3. /\ \A n \in Unified : Carries(n, e)' <=> Carries(n, e)
          /\ e \in missed' <=> e \in missed
      BY <1>7, <2>2
    <2> QED
      BY <1>6, <1>8, <2>1, <2>3
  <1>10. CASE d = c
    <2>1. GoesThrough(c, e) <=> j \in 1..b /\ j \notin 1..a
      <3>1. \A i \in 1..(b - a) : e = <<c, a + i>> <=> j = a + i
        BY <1>6, <1>10
      <3> QED
        <4>1. (\E i \in 1..(b - a) : j = a + i) <=> j \in 1..b /\ j \notin 1..a
          BY <1>2, Numbering
        <4> QED
          BY <1>g, <3>1, <4>1
    <2>2. j \in 1..a => j \in 1..b
      BY <1>2, Numbering
    <2>3. PICK old, new : old = (j \in 1..a) /\ new = (j \in 1..b)
      OBVIOUS
    <2>4. /\ \A n \in Unified : Carries(n, e)' <=> Carries(n, e) \/ (n = Finds(c) /\ new /\ ~old)
          /\ e \in missed' <=> e \in missed \/ (Finds(c) = None /\ new /\ ~old)
          /\ old => new
      BY <1>7, <2>1, <2>2, <2>3
    <2>5. /\ \A n \in Unified : Carries(n, e) =>
               old /\ e \notin missed /\ \A m \in Unified : Carries(m, e) => m = n
          /\ e \in missed => old
          /\ old => e \in missed \/ \E n \in Unified : Carries(n, e)
      BY <1>1, <1>8, <1>10, <2>3
    <2>6. /\ \A n \in Unified : Carries(n, e)' =>
               /\ new
               /\ e \notin missed'
               /\ \A m \in Unified : Carries(m, e)' => m = n
          /\ e \in missed' => new
      BY <1>3, <1>4, <2>4, <2>5
    <2>7. new => e \in missed' \/ \E n \in Unified : Carries(n, e)'
      BY <1>3, <1>4, <2>4, <2>5
    <2> QED
      BY <1>1, <1>6, <1>10, <2>3, <2>6, <2>7
  <1> QED
    BY <1>9, <1>10

LEMMA OrderedKept ==
  ASSUME DInv, IInv, IInv', NEW c \in Callback, Tell(c) \/ Answer(c) \/ Settle(c),
         NEW p \in Topic \cup {None}, Written(c, p), NEW d \in Callback,
         Placed(d), Ordered(d)
  PROVE  Ordered(d)'
  <1>1. PICK a, l : a = Len(sink[c]) /\ l = Len(sink'[c]) - a
    OBVIOUS
  <1>2. PICK more : more = Through(c)
    OBVIOUS
  <1>3. /\ a \in Nat /\ l \in Nat /\ more \in Seq(Event) /\ Len(more) = l
        /\ \A i \in 1..l : more[i] = <<c, a + i>>
    BY <1>1, <1>2, ThroughIs
  <1>4. Unified' = Unified
    BY DEF Written, Unified
  <1>5. SUFFICES ASSUME NEW n \in Unified
        PROVE  \A i, k \in 1..Len(wire'[n]) :
                 i < k /\ wire'[n][i][1] = d /\ wire'[n][k][1] = d
                   => wire'[n][i][2] < wire'[n][k][2]
    BY <1>4, <1>5 DEF Ordered
  <1>6. PICK s, t : s = wire[n] /\ t = wire'[n]
    OBVIOUS
  <1>7. /\ s \in Seq(Event)
        /\ \A i, k \in 1..Len(s) : i < k /\ s[i][1] = d /\ s[k][1] = d => s[i][2] < s[k][2]
    BY <1>6 DEF Ordered, DInv, StreamTypes, Unified
  <1>8. t = IF n = Finds(c) THEN s \o more ELSE s
    BY <1>2, <1>6, UnifiedWire DEF IInv
  <1>9. CASE t = s
    BY <1>6, <1>7, <1>9
  <1>10. CASE t = s \o more
    <2>1. PICK w : w = Len(s) /\ w \in Nat
      BY <1>7
    <2>2. /\ Len(t) = w + l
          /\ \A i \in 1..w : t[i] = s[i]
          /\ \A i \in 1..l : t[w + i] = <<c, a + i>>
      BY <1>3, <1>7, <1>10, <2>1, Joining
    <2>3. SUFFICES ASSUME NEW i, NEW k, i \in 1..(w + l), k \in 1..(w + l), i < k,
                          t[i][1] = d, t[k][1] = d
                   PROVE  t[i][2] < t[k][2]
      BY <1>6, <2>2, <2>3
    <2>4. /\ i \in 1..w \/ (i - w \in 1..l /\ i = w + (i - w))
          /\ k \in 1..w \/ (k - w \in 1..l /\ k = w + (k - w))
      BY <1>3, <2>1, <2>3, OldOrNew
    <2>5. CASE k \in 1..w
      <3>1. i \in 1..w
        BY <2>1, <2>3, <2>5
      <3> QED
        BY <1>7, <2>1, <2>2, <2>3, <2>5, <3>1
    <2>6. CASE k - w \in 1..l /\ k = w + (k - w)
      <3>1. PICK y : y = k - w /\ y \in 1..l /\ t[k] = <<c, a + y>> /\ d = c
        BY <2>2, <2>3, <2>6
      <3>2. CASE i \in 1..w
        <4>1. s[i] \in Event /\ t[i] = s[i]
          BY <1>7, <2>1, <2>2, <3>2
        <4>2. PICK x : x \in Nat /\ s[i] = <<c, x>>
          BY <2>3, <3>1, <4>1 DEF Event
        <4>3. Carries(n, <<c, x>>)
          BY <1>6, <2>1, <3>2, <4>2 DEF Carries
        <4>4. x \in 1..a
          BY <1>1, <3>1, <4>2, <4>3 DEF Placed
        <4>5. x < a + y
          BY <1>3, <3>1, <4>4
        <4> QED
          BY <3>1, <4>1, <4>2, <4>5
      <3>3. CASE i - w \in 1..l /\ i = w + (i - w)
        <4>1. PICK x : x = i - w /\ x \in 1..l /\ t[i] = <<c, a + x>>
          BY <2>2, <3>3
        <4>2. a + x < a + y
          BY <1>3, <2>1, <2>3, <3>1, <3>3, <4>1
        <4> QED
          BY <3>1, <4>1, <4>2
      <3> QED
        BY <2>4, <3>2, <3>3
    <2> QED
      BY <2>4, <2>5, <2>6
  <1> QED
    BY <1>8, <1>9, <1>10

\* Connections that come and go take nothing along: a new one has nothing.
LEMMA StreamsStepPlaces ==
  ASSUME DInv, StreamsStep, UNCHANGED vars, NEW d \in Callback, Placed(d), Ordered(d)
  PROVE  Placed(d)' /\ Ordered(d)'
  <1>1. UNCHANGED <<sink, wire, missed>>
    BY DEF StreamsStep, Subscribe, Watch, Leave, Unwatch, Bind, vars
  <1>2. \A n, e : Carries(n, e)' <=> Carries(n, e)
    BY <1>1 DEF Carries
  <1>3. Unified \subseteq Unified' /\ \A n \in Unified' \ Unified : wire[n] = <<>>
    <2>1. ASSUME NEW p \in Client \cup Topic, NEW n \in Connection, Opening(p, n)
          PROVE  Unified \subseteq Unified' /\ \A m \in Unified' \ Unified : wire[m] = <<>>
      <3>1. /\ opened' = [opened EXCEPT ![n] = p] /\ opened[n] = None
            /\ opened \in [Connection -> Client \cup Topic \cup {None}]
        BY <2>1 DEF Opening, DInv, StreamTypes
      <3>2. \A m \in Unified' \ Unified : opened[m] = None /\ m \in Connection
        BY <3>1 DEF Unified
      <3>3. Unified \subseteq Unified'
        BY <3>1, Numbers DEF Unified
      <3> QED
        BY <3>2, <3>3 DEF DInv, Unopened
    <2>2. CASE UNCHANGED opened
      BY <2>2 DEF Unified
    <2> QED
      BY <2>1, <2>2 DEF StreamsStep, Subscribe, Watch, Leave, Unwatch, Bind
  <1>4. \A n \in Unified' \ Unified : \A i \in 1..Len(wire[n]) : FALSE
    <2>1. Len(<<>>) = 0 /\ \A i \in 1..0 : FALSE
      OBVIOUS
    <2> QED
      BY <1>3, <2>1
  <1>5. \A n \in Unified' \ Unified : \A e : ~Carries(n, e)
    BY <1>4 DEF Carries
  <1>6. Placed(d)'
    <2>1. \A j \in Nat :
            /\ \A n \in Unified' : Carries(n, <<d, j>>) =>
                 /\ j \in 1..Len(sink[d])
                 /\ <<d, j>> \notin missed
                 /\ \A m \in Unified' : Carries(m, <<d, j>>) => m = n
            /\ <<d, j>> \in missed => j \in 1..Len(sink[d])
            /\ j \in 1..Len(sink[d]) =>
                 <<d, j>> \in missed \/ \E n \in Unified' : Carries(n, <<d, j>>)
      BY <1>3, <1>5 DEF Placed
    <2> QED
      BY <1>1, <1>2, <2>1 DEF Placed
  <1>7. Ordered(d)'
    <2>1. \A n \in Unified' : \A i, k \in 1..Len(wire[n]) :
            i < k /\ wire[n][i][1] = d /\ wire[n][k][1] = d => wire[n][i][2] < wire[n][k][2]
      BY <1>3, <1>4 DEF Ordered
    <2> QED
      BY <1>1, <2>1 DEF Ordered
  <1> QED
    BY <1>6, <1>7

LEMMA PlacesStep ==
  ASSUME DInv, IInv, IInv', [DeliveryNext]_allVars, NEW d \in Callback,
         Placed(d), Ordered(d)
  PROVE  Placed(d)' /\ Ordered(d)'
  <1>1. ASSUME NEW c \in Callback, Tell(c) \/ Answer(c) \/ Settle(c)
        PROVE  Placed(d)' /\ Ordered(d)'
    <2>1. TopicOf[c] \in Topic \cup {None}
      BY MapsAssumption
    <2>2. PICK p \in Topic \cup {None} : Written(c, p)
      BY <1>1, <2>1 DEF Tell, Answer, Settle
    <2> QED
      BY <1>1, <2>2, PlacedKept, OrderedKept
  <1>2. CASE UNCHANGED allVars
    <2>1. UNCHANGED <<opened, sink, wire, missed>>
      BY <1>2 DEF allVars, vars, streamVars
    <2> QED
      BY <2>1 DEF Placed, Ordered, Carries, Unified
  <1> QED
    BY <1>1, <1>2, StreamsStepPlaces DEF DeliveryNext

LEMMA PlacesInductive == DeliverySpec => [](\A c \in Callback : Placed(c) /\ Ordered(c))
  <1>1. DeliveryInit => \A c \in Callback : Placed(c) /\ Ordered(c)
    <2> SUFFICES ASSUME DeliveryInit, NEW c \in Callback PROVE Placed(c) /\ Ordered(c)
      OBVIOUS
    <2>1. sink[c] = <<>> /\ missed = {} /\ \A n \in Unified : wire[n] = <<>>
      BY DEF DeliveryInit, Init, StreamsInit, Unified
    <2>2. Len(<<>>) = 0 /\ \A i \in 1..0 : FALSE
      OBVIOUS
    <2>3. /\ \A i \in 1..Len(sink[c]) : FALSE
          /\ \A n \in Unified : \A i \in 1..Len(wire[n]) : FALSE
      BY <2>1, <2>2
    <2> QED
      BY <2>1, <2>3 DEF Placed, Ordered, Carries
  <1>2. ASSUME DInv, IInv, IInv', [DeliveryNext]_allVars,
               \A c \in Callback : Placed(c) /\ Ordered(c)
        PROVE  (\A c \in Callback : Placed(c) /\ Ordered(c))'
    BY <1>2, PlacesStep
  <1>3. DeliverySpec => []IInv
    BY StreamsInside, Inductive, PTL
  <1> QED
    BY <1>1, <1>2, <1>3, DeliveryInductive, PTL DEF DeliverySpec

\* Clients that reconnect, take over and leave in any order neither lose nor
\* repeat an event of the unified stream: each event let through is on one
\* connection, in the order of the pushes, or push() found no client for it.
THEOREM EventsWrittenOnce == DeliverySpec => []WrittenOnce
  <1>1. (\A c \in Callback : Placed(c) /\ Ordered(c)) /\ IInv => WrittenOnce
    <2> SUFFICES ASSUME \A c \in Callback : Placed(c) /\ Ordered(c), IInv,
                        NEW c \in Callback, NEW j \in 1..MaxPush
        PROVE  LET on == {n \in Unified : \E i \in 1..Len(wire[n]) : wire[n][i] = <<c, j>>}
               IN  /\ \A n, m \in on : n = m
                   /\ (on # {} \/ <<c, j>> \in missed) <=> j <= Len(sink[c])
                   /\ ~(on # {} /\ <<c, j>> \in missed)
      BY DEF WrittenOnce, Ordered
    <2>1. PICK on : on = {n \in Unified : Carries(n, <<c, j>>)}
      OBVIOUS
    <2>2. j \in Nat /\ Len(sink[c]) \in Nat /\ (j \in 1..Len(sink[c]) <=> j <= Len(sink[c]))
      BY SinkCounts, MaxPushAssumption
    <2>3. /\ \A n, m \in on : n = m
          /\ (on # {} \/ <<c, j>> \in missed) <=> j \in 1..Len(sink[c])
          /\ ~(on # {} /\ <<c, j>> \in missed)
      BY <2>1, <2>2 DEF Placed
    <2> QED
      BY <2>1, <2>2, <2>3 DEF Carries
  <1>2. DeliverySpec => []IInv
    BY StreamsInside, Inductive, PTL
  <1> QED
    BY <1>1, <1>2, PlacesInductive, PTL
===============================================================================
