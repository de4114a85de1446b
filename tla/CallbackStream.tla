---------------------------- MODULE CallbackStream ----------------------------
(***************************************************************************)
(* utils/streams/callback-stream.ts: the DeferredCallbackStream each       *)
(* callback request gets, with the controller that answers the request,    *)
(* the repository that pushes the events and the HTTP response whose       *)
(* "finish" and "close" events drive the stream.                           *)
(*                                                                         *)
(* A controller that processes first (on_search's staging, on_init,        *)
(* on_confirm) answers once handleCallback has settled; the others answer  *)
(* first and process in the background.  /on_search pushes from its        *)
(* setImmediate queue, which runs after the turn that wrote the ACK, so    *)
(* with respect to pushes it is of the second kind.                        *)
(***************************************************************************)
EXTENDS Naturals, Sequences

CONSTANTS Callback,      \* the callback requests
          ProcessFirst,  \* those whose controller processes, then answers
          MaxPush        \* bound: events pushed for one callback

ASSUME ProcessFirstAssumption == ProcessFirst \subseteq Callback
ASSUME MaxPushAssumption == MaxPush \in Nat

VARIABLES
  state,    \* the stream's state: "pending", "released" or "discarded"
  queue,    \* the events it holds back
  hooked,   \* the callbacks with "finish" and "close" listeners installed
  answer,   \* what the controller wrote: "none", "ACK" or "NACK"
  resp,     \* the response: "open", "written", "finished", or "dropped"
            \* when the connection closed before it was finished
  emitted,  \* how many events handleCallback has pushed
  sink      \* the events the client stream was given, per callback

vars == <<state, queue, hooked, answer, resp, emitted, sink>>

Init ==
  /\ state = [c \in Callback |-> "pending"]
  /\ queue = [c \in Callback |-> <<>>]
  /\ hooked = {}
  /\ answer = [c \in Callback |-> "none"]
  /\ resp = [c \in Callback |-> "open"]
  /\ emitted = [c \in Callback |-> 0]
  /\ sink = [c \in Callback |-> <<>>]

\* When handleCallback may push: before the answer if the controller waits
\* for it, after the ACK if it runs in the background.
MayPush(c) ==
  /\ emitted[c] < MaxPush
  /\ answer[c] = IF c \in ProcessFirst THEN "none" ELSE "ACK"

\* Faulty: push() that holds nothing back.
PushAtOnce(c) ==
  /\ MayPush(c)
  /\ emitted' = [emitted EXCEPT ![c] = @ + 1]
  /\ sink' = [sink EXCEPT ![c] = Append(@, emitted'[c])]
  /\ UNCHANGED <<state, queue, hooked, answer, resp>>

\* push(): straight to the client once released, dropped once discarded,
\* held back until then.
Push(c) ==
  /\ MayPush(c)
  /\ emitted' = [emitted EXCEPT ![c] = @ + 1]
  /\ \/ /\ state[c] = "released"
        /\ sink' = [sink EXCEPT ![c] = Append(@, emitted'[c])]
        /\ UNCHANGED queue
     \/ /\ state[c] = "discarded"
        /\ UNCHANGED <<queue, sink>>
     \/ /\ state[c] = "pending"
        /\ queue' = [queue EXCEPT ![c] = Append(@, emitted'[c])]
        /\ UNCHANGED sink
  /\ UNCHANGED <<state, hooked, answer, resp>>

\* discard() and release(), both void unless the stream is still pending.
Discard(c) ==
  IF state[c] = "pending"
  THEN /\ state' = [state EXCEPT ![c] = "discarded"]
       /\ queue' = [queue EXCEPT ![c] = <<>>]
       /\ UNCHANGED sink
  ELSE UNCHANGED <<state, queue, sink>>

Release(c) ==
  IF state[c] = "pending"
  THEN /\ state' = [state EXCEPT ![c] = "released"]
       /\ queue' = [queue EXCEPT ![c] = <<>>]
       /\ sink' = [sink EXCEPT ![c] = @ \o queue[c]]
  ELSE UNCHANGED <<state, queue, sink>>

\* response.json(): the answer is handed to a connection that may be gone.
Write(c, verdict) ==
  /\ answer' = [answer EXCEPT ![c] = verdict]
  /\ resp' = [resp EXCEPT ![c] = IF @ = "open" THEN "written" ELSE @]

\* Faulty: the ACK is written without releaseAfterAck().
WriteAckUnhooked(c) ==
  /\ answer[c] = "none"
  /\ Write(c, "ACK")
  /\ UNCHANGED <<state, queue, hooked, emitted, sink>>

\* releaseAfterAck() installs the listeners, then the ACK is written in the
\* same turn.
WriteAck(c) ==
  /\ answer[c] = "none"
  /\ hooked' = IF state[c] = "pending" THEN hooked \cup {c} ELSE hooked
  /\ Write(c, "ACK")
  /\ UNCHANGED <<state, queue, emitted, sink>>

\* A NACK or the 503: the stream is discarded first.  handleCallback pushes
\* only when it is about to return "processed", so there is no event yet.
WriteNack(c) ==
  /\ answer[c] = "none"
  /\ emitted[c] = 0
  /\ Discard(c)
  /\ Write(c, "NACK")
  /\ UNCHANGED <<hooked, emitted>>

\* The runtime has handed the response to the socket: "finish".
Finish(c) ==
  /\ resp[c] = "written"
  /\ resp' = [resp EXCEPT ![c] = "finished"]
  /\ IF c \in hooked THEN Release(c) ELSE UNCHANGED <<state, queue, sink>>
  /\ UNCHANGED <<hooked, answer, emitted>>

\* Faulty: "close" releases as "finish" does.
DropReleases(c) ==
  /\ resp[c] \in {"open", "written"}
  /\ resp' = [resp EXCEPT ![c] = "dropped"]
  /\ IF c \in hooked THEN Release(c) ELSE UNCHANGED <<state, queue, sink>>
  /\ UNCHANGED <<hooked, answer, emitted>>

\* The connection closes first: "close" with writableFinished false.  Before
\* releaseAfterAck() nobody listens, and the event is not repeated.
Drop(c) ==
  /\ resp[c] \in {"open", "written"}
  /\ resp' = [resp EXCEPT ![c] = "dropped"]
  /\ IF c \in hooked THEN Discard(c) ELSE UNCHANGED <<state, queue, sink>>
  /\ UNCHANGED <<hooked, answer, emitted>>

Next ==
  \E c \in Callback :
     \/ Push(c)
     \/ WriteAck(c)
     \/ WriteNack(c)
     \/ Finish(c)
     \/ Drop(c)

\* A controller answers every request it accepts (each path of its promise
\* chain ends in response.json), and the runtime reports what became of a
\* written response.  The LSP may close the connection, or never.
Fairness ==
  \A c \in Callback :
     /\ WF_vars(WriteAck(c) \/ WriteNack(c))
     /\ WF_vars(Finish(c) \/ Drop(c))

Spec == Init /\ [][Next]_vars
FairSpec == Spec /\ Fairness

------------------------------------------------------------------------------
Acked == {c \in Callback : answer[c] = "ACK" /\ resp[c] = "finished"}

AD == INSTANCE AckedDelivery WITH acked <- Acked, out <- sink

TypeOK ==
  /\ state \in [Callback -> {"pending", "released", "discarded"}]
  /\ queue \in [Callback -> Seq(Nat)]
  /\ hooked \subseteq Callback
  /\ answer \in [Callback -> {"none", "ACK", "NACK"}]
  /\ resp \in [Callback -> {"open", "written", "finished", "dropped"}]
  /\ emitted \in [Callback -> 0..MaxPush]
  /\ sink \in [Callback -> Seq(Nat)]

\* Docs, stream-workflow.md section 4: an event for a callback is released
\* only after that callback's ACK has been written.  Neither a NACK nor a
\* connection lost half way ever lets an event through.
NoEventBeforeAck ==
  \A c \in Callback : sink[c] # <<>> => c \in Acked

\* Held events are flushed in push order, ahead of those pushed later, and a
\* stream that was not discarded has lost none: what the client was sent and
\* what is still held back, end to end, is what was pushed.
InPushOrder ==
  \A c \in Callback :
     state[c] # "discarded" => sink[c] \o queue[c] = AD!Upto(emitted[c])

\* All or nothing: once the ACK is out the client has everything pushed so
\* far, and a discarded callback has shown the client nothing.
AllOrNothing ==
  \A c \in Callback :
     /\ c \in Acked => sink[c] = AD!Upto(emitted[c])
     /\ state[c] = "discarded" => sink[c] = <<>>

\* The events of a callback reach the client unless the connection was lost
\* before the ACK was finished, wherever the pushes fall with respect to the
\* answer.
PushedReachesClient ==
  \A c \in Callback :
     emitted[c] > 0 ~> (resp[c] = "dropped" \/ sink[c] = AD!Upto(emitted[c]))

\* The class implements the promise of AckedDelivery.
ImplementsAckedDelivery == AD!AdSpec
==============================================================================
