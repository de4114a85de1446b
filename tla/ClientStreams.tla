----------------------------- MODULE ClientStreams -----------------------------
(***************************************************************************)
(* utils/streams/client-stream.ts, order-sse.ts and search-sse.ts with     *)
(* their routes and the bind() of /search: the connections clients open,   *)
(* who is registered for what, and what is written to whom.                *)
(*                                                                         *)
(* Two kinds of channel.  The unified stream has one subscriber per client *)
(* id, the last one to subscribe, and one client per transaction, the last *)
(* one bound.  The legacy streams (the two classes are the same but for    *)
(* the key) have a set of subscribers per search or order.                 *)
(***************************************************************************)
EXTENDS Naturals, Sequences

CONSTANTS Client,      \* client ids
          Topic,       \* search and order ids
          Transaction,
          MaxOpened,   \* bound: event-stream requests
          None

ASSUME NaturalBound == MaxOpened \in Nat
ASSUME NoneIsNothing == None \notin Client \cup Topic \cup Nat
ASSUME ChannelsAreApart == Client \cap Topic = {}

\* The event-stream requests, in the order in which they come.
Connection == 1..MaxOpened

VARIABLES
  opened,       \* what a connection was opened for, or None: it is not yet
  closed,       \* the connections whose "close" has been handled
  clients,      \* ClientStreamManager.clients: the subscriber of a client
  bound,        \* transactionToClient
  subscribers,  \* of a topic
  wire,         \* the events written to a connection
  missed        \* the events push() found no client for

streamVars == <<opened, closed, clients, bound, subscribers, wire, missed>>

StreamsInit ==
  /\ opened = [n \in Connection |-> None]
  /\ closed = {}
  /\ clients = [k \in Client |-> None]
  /\ bound = [t \in Transaction |-> None]
  /\ subscribers = [p \in Topic |-> {}]
  /\ wire = [n \in Connection |-> <<>>]
  /\ missed = {}

\* The next request is for channel p.
Opening(p, n) ==
  /\ opened[n] = None
  /\ \A m \in 1..(n - 1) : opened[m] # None
  /\ opened' = [opened EXCEPT ![n] = p]

\* ClientStreamManager.subscribe: in the place of whoever was there.
Subscribe(k, n) ==
  /\ Opening(k, n)
  /\ clients' = [clients EXCEPT ![k] = n]
  /\ UNCHANGED <<closed, bound, subscribers, wire, missed>>

\* OrderSseManager.subscribe and SearchSseManager.subscribe.
Watch(p, n) ==
  /\ Opening(p, n)
  /\ subscribers' = [subscribers EXCEPT ![p] = @ \cup {n}]
  /\ UNCHANGED <<closed, clients, bound, wire, missed>>

Closing(n) ==
  /\ opened[n] # None
  /\ n \notin closed
  /\ closed' = closed \cup {n}

\* Faulty: the client is forgotten with any of its connections.
LeaveAnyhow(n) ==
  /\ Closing(n)
  /\ opened[n] \in Client
  /\ clients' = [clients EXCEPT ![opened[n]] = None]
  /\ UNCHANGED <<opened, bound, subscribers, wire, missed>>

\* close() of the unified stream: a connection that has been replaced goes
\* without taking its successor along.
Leave(n) ==
  /\ Closing(n)
  /\ opened[n] \in Client
  /\ clients' = [clients EXCEPT ![opened[n]] = IF @ = n THEN None ELSE @]
  /\ UNCHANGED <<opened, bound, subscribers, wire, missed>>

\* close() of a legacy stream; the set goes with its last member.
Unwatch(n) ==
  /\ Closing(n)
  /\ opened[n] \in Topic
  /\ subscribers' = [subscribers EXCEPT ![opened[n]] = @ \ {n}]
  /\ UNCHANGED <<opened, clients, bound, wire, missed>>

\* createSearch, which mints the transaction and may be given its id.
Bind(t, k) ==
  /\ bound' = [bound EXCEPT ![t] = k]
  /\ UNCHANGED <<opened, closed, clients, subscribers, wire, missed>>

\* The connection push() finds for a transaction, or None.
Reaches(t) == IF bound[t] = None THEN None ELSE clients[bound[t]]

\* Faulty: push() to every connection of the client.
ToAll(t, events) ==
  [n \in Connection |-> IF bound[t] # None /\ opened[n] = bound[t] THEN events ELSE <<>>]

\* What push() adds to each connection for a list of events.
Pushed(t, events) == [n \in Connection |-> IF n = Reaches(t) THEN events ELSE <<>>]

\* "no_client_found"
Missed(t, events) == IF Reaches(t) = None THEN {events[i] : i \in 1..Len(events)} ELSE {}

\* What publish() adds.
Published(p, event) ==
  [n \in Connection |-> IF p # None /\ n \in subscribers[p] THEN <<event>> ELSE <<>>]

StreamsStep ==
  \/ \E k \in Client, n \in Connection : Subscribe(k, n)
  \/ \E p \in Topic, n \in Connection : Watch(p, n)
  \/ \E n \in Connection : Leave(n)
  \/ \E n \in Connection : Unwatch(n)
  \/ \E t \in Transaction, k \in Client : Bind(t, k)
==============================================================================
