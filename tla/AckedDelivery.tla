---------------------------- MODULE AckedDelivery ----------------------------
(***************************************************************************)
(* What the event stream promises for one client and a set of callbacks:   *)
(* the events a callback's handler emits reach the client only after that  *)
(* callback has been acknowledged, in the order they were emitted, each    *)
(* once, and never one without those emitted before it.                    *)
(*                                                                         *)
(* The events of a callback are numbered in the order they are emitted,    *)
(* so emitted[c] is also the set of events there are.                      *)
(***************************************************************************)
EXTENDS Naturals, Sequences

CONSTANT Callback   \* the callback requests the process receives

VARIABLES emitted,  \* how many events the handler of c has emitted
          acked,    \* the callbacks whose ACK has been handed to the socket
          out       \* the events of c the client has been sent

adVars == <<emitted, acked, out>>

Upto(n) == [k \in 1..n |-> k]

AdInit ==
  /\ emitted = [c \in Callback |-> 0]
  /\ acked = {}
  /\ out = [c \in Callback |-> <<>>]

\* The handler of c emits its next event; the client may be sent everything
\* there is, the new event included, but only if c has been acknowledged.
Emit(c) ==
  /\ emitted' = [emitted EXCEPT ![c] = @ + 1]
  /\ \/ out' = out
     \/ c \in acked /\ out' = [out EXCEPT ![c] = Upto(emitted[c] + 1)]
  /\ UNCHANGED acked

\* The ACK of c is out, and with it the events emitted so far.
Acknowledge(c) ==
  /\ c \notin acked
  /\ acked' = acked \cup {c}
  /\ out' = [out EXCEPT ![c] = Upto(emitted[c])]
  /\ UNCHANGED emitted

AdNext == \E c \in Callback : Emit(c) \/ Acknowledge(c)

AdSpec == AdInit /\ [][AdNext]_adVars
==============================================================================
