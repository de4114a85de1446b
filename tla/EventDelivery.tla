----------------------------- MODULE EventDelivery -----------------------------
(***************************************************************************)
(* From the handler of a callback to the screen: the deferred stream of    *)
(* each callback (CallbackStream) in front of the event streams            *)
(* (ClientStreams).                                                        *)
(*                                                                         *)
(* What a deferred stream lets through in a step, it passes to the client  *)
(* stream in the same turn of the event loop, so the two are composed step *)
(* by step: every step of CallbackStream is a step here that also writes   *)
(* to the connections.  The legacy streams are published to by the         *)
(* handlers themselves, right before they push, and never wait.            *)
(***************************************************************************)
EXTENDS CallbackStream, ClientStreams

CONSTANTS TransactionOf,  \* of a callback
          TopicOf         \* the search or order a callback's events are also
                          \* published for, or None: /on_init, /on_confirm,
                          \* /on_update and the issue callbacks

ASSUME MapsAssumption ==
  /\ TransactionOf \in [Callback -> Transaction]
  /\ TopicOf \in [Callback -> Topic \cup {None}]

allVars == <<vars, streamVars>>

DeliveryInit == Init /\ StreamsInit

\* The events of c the deferred stream lets through in this step.
Through(c) == [i \in 1..(Len(sink'[c]) - Len(sink[c])) |-> <<c, sink'[c][Len(sink[c]) + i]>>]

\* They, and what is published on topic p, are written.
Written(c, p) ==
  LET pushed == Pushed(TransactionOf[c], Through(c))
      published == Published(p, <<c, emitted'[c]>>)
  IN
  /\ wire' = [n \in Connection |-> wire[n] \o published[n] \o pushed[n]]
  /\ missed' = missed \cup Missed(TransactionOf[c], Through(c))
  /\ UNCHANGED <<opened, closed, clients, bound, subscribers>>

\* The handler has something to tell; an error is not published.
Tell(c) == Push(c) /\ (Written(c, TopicOf[c]) \/ Written(c, None))

Answer(c) == (WriteAck(c) \/ WriteNack(c)) /\ Written(c, None)
Settle(c) == (Finish(c) \/ Drop(c)) /\ Written(c, None)

DeliveryNext ==
  \/ \E c \in Callback : Tell(c) \/ Answer(c) \/ Settle(c)
  \/ StreamsStep /\ UNCHANGED vars

\* As in CallbackStream; clients come and go as they like.
DeliveryFairness ==
  \A c \in Callback : WF_allVars(Answer(c)) /\ WF_allVars(Settle(c))

DeliverySpec == DeliveryInit /\ [][DeliveryNext]_allVars /\ DeliveryFairness

------------------------------------------------------------------------------
Event == Callback \X Nat

DeliveryTypeOK ==
  /\ TypeOK
  /\ opened \in [Connection -> Client \cup Topic \cup {None}]
  /\ closed \subseteq Connection
  /\ clients \in [Client -> Connection \cup {None}]
  /\ bound \in [Transaction -> Client \cup {None}]
  /\ subscribers \in [Topic -> SUBSET Connection]
  /\ wire \in [Connection -> Seq(Event)]
  /\ missed \subseteq Event

Unified == {n \in Connection : opened[n] \in Client}
Live(p) == {n \in Connection \ closed : opened[n] = p}

\* client-stream.ts:9, "last-write-wins": clients that reconnect, take over
\* and leave in any order neither lose nor repeat an event of the unified
\* stream.  Each event let through is on one connection, or push() found no
\* client; a connection has the events of a callback in the order in which
\* they were pushed, and after its ACK.
WrittenOnce ==
  \A c \in Callback :
    /\ \A n \in Unified : \A i, k \in 1..Len(wire[n]) :
         i < k /\ wire[n][i][1] = c /\ wire[n][k][1] = c => wire[n][i][2] < wire[n][k][2]
    /\ \A j \in 1..MaxPush :
         LET on == {n \in Unified : \E i \in 1..Len(wire[n]) : wire[n][i] = <<c, j>>} IN
         /\ \A n, m \in on : n = m
         /\ (on # {} \/ <<c, j>> \in missed) <=> j <= Len(sink[c])
         /\ ~(on # {} /\ <<c, j>> \in missed)

\* Connections come and go in any order, and each "close" takes away only what
\* is its own.  A client is served by its newest connection, unless that is
\* closed, even if an older one still is open (client-stream.ts:39); those who
\* watch a search or an order are all registered until they leave
\* (order-sse.ts:61), and whoever came later has the tail of what the others
\* have.
OpenIsRegistered ==
  /\ \A k \in Client :
       LET all == {n \in Connection : opened[n] = k}
           newest == {n \in all : \A m \in all : m <= n}
       IN
       IF newest \subseteq closed THEN clients[k] = None ELSE clients[k] \in newest
  /\ \A p \in Topic :
       /\ subscribers[p] = Live(p)
       /\ \A n, m \in Live(p) :
            n >= m => /\ Len(wire[n]) <= Len(wire[m])
                      /\ \A i \in 0..(Len(wire[n]) - 1) :
                           wire[n][Len(wire[n]) - i] = wire[m][Len(wire[m]) - i]
==============================================================================
