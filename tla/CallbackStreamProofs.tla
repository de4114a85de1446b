-------------------------- MODULE CallbackStreamProofs --------------------------
(***************************************************************************)
(* For every set of callbacks and every number of events: no event before  *)
(* its ACK, nothing lost or reordered, all or nothing, and the refinement  *)
(* of AckedDelivery.                                                       *)
(***************************************************************************)
EXTENDS CallbackStream, TLAPS

\* The state of a stream says what has become of the events: all held back,
\* all with the client, or none anywhere.
EventsWhere(c) ==
  /\ state[c] = "pending" => queue[c] = AD!Upto(emitted[c]) /\ sink[c] = <<>>
  /\ state[c] = "released" => queue[c] = <<>> /\ sink[c] = AD!Upto(emitted[c])
  /\ state[c] = "discarded" => queue[c] = <<>> /\ sink[c] = <<>>

\* The state of a stream follows the answer and the connection.
StateWhy(c) ==
  /\ answer[c] = "none" =>
       state[c] = "pending" /\ c \notin hooked /\ resp[c] \in {"open", "dropped"}
  /\ answer[c] = "NACK" => state[c] = "discarded" /\ c \notin hooked
  /\ answer[c] = "ACK" => c \in hooked /\ resp[c] # "open"
  /\ state[c] = "released" <=> c \in Acked
  /\ state[c] = "discarded" => answer[c] = "NACK" \/ resp[c] = "dropped"

IInv == TypeOK /\ \A c \in Callback : EventsWhere(c) /\ StateWhy(c)

LEMMA UptoType == ASSUME NEW n \in Nat PROVE AD!Upto(n) \in Seq(Nat)
BY DEF AD!Upto

LEMMA UptoZero == AD!Upto(0) = <<>>
BY DEF AD!Upto

LEMMA UptoNext == ASSUME NEW n \in Nat
                  PROVE  Append(AD!Upto(n), n + 1) = AD!Upto(n + 1)
<1>1. AD!Upto(n) \in Seq(Nat) /\ Len(AD!Upto(n)) = n
  BY DEF AD!Upto
<1>2. Append(AD!Upto(n), n + 1) \in Seq(Nat) /\ AD!Upto(n + 1) \in Seq(Nat)
  BY <1>1, UptoType
<1>3. Len(Append(AD!Upto(n), n + 1)) = n + 1 /\ Len(AD!Upto(n + 1)) = n + 1
  BY <1>1 DEF AD!Upto
<1>4. \A k \in 1..(n + 1) : Append(AD!Upto(n), n + 1)[k] = AD!Upto(n + 1)[k]
  BY <1>1 DEF AD!Upto
<1>. QED
  BY <1>2, <1>3, <1>4

LEMMA SeqTypes == /\ <<>> \in Seq(Nat)
                  /\ \A s \in Seq(Nat), n \in Nat : Append(s, n) \in Seq(Nat)
                  /\ \A s, t \in Seq(Nat) : s \o t \in Seq(Nat)
OBVIOUS

LEMMA EmptyConcat == ASSUME NEW s \in Seq(Nat)
                     PROVE  <<>> \o s = s /\ s \o <<>> = s
OBVIOUS

LEMMA TypeCorrect == Spec => []TypeOK
<1>. USE MaxPushAssumption
<1>1. Init => TypeOK
  BY DEF Init, TypeOK
<1>2. TypeOK /\ [Next]_vars => TypeOK'
  <2>. SUFFICES ASSUME TypeOK, [Next]_vars PROVE TypeOK'
    OBVIOUS
  <2>1. ASSUME NEW c \in Callback, Push(c) PROVE TypeOK'
    <3>1. emitted'[c] \in Nat /\ emitted' \in [Callback -> 0..MaxPush]
      BY <2>1 DEF Push, MayPush, TypeOK
    <3>2. Append(queue[c], emitted'[c]) \in Seq(Nat)
      BY <3>1, SeqTypes DEF TypeOK
    <3>3. Append(sink[c], emitted'[c]) \in Seq(Nat)
      BY <3>1, SeqTypes DEF TypeOK
    <3>4. queue' \in [Callback -> Seq(Nat)]
      BY <2>1, <3>2 DEF Push, TypeOK
    <3>5. sink' \in [Callback -> Seq(Nat)]
      BY <2>1, <3>3 DEF Push, TypeOK
    <3>. QED
      BY <2>1, <3>1, <3>4, <3>5 DEF Push, TypeOK
  <2>2. ASSUME NEW c \in Callback, WriteAck(c) PROVE TypeOK'
    BY <2>2 DEF WriteAck, Write, TypeOK
  <2>3. ASSUME NEW c \in Callback, WriteNack(c) PROVE TypeOK'
    <3>1. queue' \in [Callback -> Seq(Nat)]
      BY <2>3, SeqTypes DEF WriteNack, Discard, TypeOK
    <3>. QED
      BY <2>3, <3>1 DEF WriteNack, Write, Discard, TypeOK
  <2>4. ASSUME NEW c \in Callback, Finish(c) PROVE TypeOK'
    <3>1. queue' \in [Callback -> Seq(Nat)]
      BY <2>4, SeqTypes DEF Finish, Release, TypeOK
    <3>2. sink[c] \o queue[c] \in Seq(Nat)
      BY SeqTypes DEF TypeOK
    <3>3. sink' \in [Callback -> Seq(Nat)]
      BY <2>4, <3>2 DEF Finish, Release, TypeOK
    <3>. QED
      BY <2>4, <3>1, <3>3 DEF Finish, Release, TypeOK
  <2>5. ASSUME NEW c \in Callback, Drop(c) PROVE TypeOK'
    <3>1. queue' \in [Callback -> Seq(Nat)]
      BY <2>5, SeqTypes DEF Drop, Discard, TypeOK
    <3>. QED
      BY <2>5, <3>1 DEF Drop, Discard, TypeOK
  <2>6. CASE UNCHANGED vars
    BY <2>6 DEF vars, TypeOK
  <2>. QED
    BY <2>1, <2>2, <2>3, <2>4, <2>5, <2>6 DEF Next
<1>. QED
  BY <1>1, <1>2, PTL DEF Spec

\* The invariant that carries the safety theorems and the refinement.
LEMMA Inductive == Spec => []IInv
<1>. USE MaxPushAssumption
<1>1. Init => IInv
  BY UptoZero DEF Init, IInv, TypeOK, EventsWhere, StateWhy, Acked
<1>2. TypeOK' /\ IInv /\ [Next]_vars => IInv'
  <2>. SUFFICES ASSUME TypeOK, [Next]_vars,
                       NEW d \in Callback, EventsWhere(d), StateWhy(d)
                PROVE  EventsWhere(d)' /\ StateWhy(d)'
    BY DEF IInv
  <2>0. /\ emitted[d] \in Nat
        /\ AD!Upto(emitted[d]) \in Seq(Nat)
        /\ queue[d] \in Seq(Nat) /\ sink[d] \in Seq(Nat)
    BY UptoType DEF TypeOK
  <2>1. ASSUME NEW c \in Callback, Push(c)
        PROVE  EventsWhere(d)' /\ StateWhy(d)'
    <3>1. CASE c # d
      BY <2>1, <3>1 DEF Push, EventsWhere, StateWhy, Acked, TypeOK
    <3>2. CASE c = d
      <4>1. emitted'[d] = emitted[d] + 1 /\ state'[d] = state[d]
        BY <2>1, <3>2 DEF Push, TypeOK
      <4>2. Append(AD!Upto(emitted[d]), emitted'[d]) = AD!Upto(emitted'[d])
        BY <2>0, <4>1, UptoNext
      <4>3. EventsWhere(d)'
        <5>1. CASE state[d] = "released"
          <6>1. queue'[d] = queue[d] /\ sink'[d] = Append(sink[d], emitted'[d])
            BY <2>1, <3>2, <5>1 DEF Push, TypeOK
          <6>. QED
            BY <4>1, <4>2, <5>1, <6>1 DEF EventsWhere
        <5>2. CASE state[d] = "discarded"
          <6>1. queue'[d] = queue[d] /\ sink'[d] = sink[d]
            BY <2>1, <3>2, <5>2 DEF Push, TypeOK
          <6>. QED
            BY <4>1, <5>2, <6>1 DEF EventsWhere
        <5>3. CASE state[d] = "pending"
          <6>1. queue'[d] = Append(queue[d], emitted'[d]) /\ sink'[d] = sink[d]
            BY <2>1, <3>2, <5>3 DEF Push, TypeOK
          <6>. QED
            BY <4>1, <4>2, <5>3, <6>1 DEF EventsWhere
        <5>. QED
          BY <5>1, <5>2, <5>3 DEF TypeOK
      <4>4. StateWhy(d)'
        BY <2>1 DEF Push, StateWhy, Acked
      <4>. QED
        BY <4>3, <4>4
    <3>. QED
      BY <3>1, <3>2
  <2>2. ASSUME NEW c \in Callback, WriteAck(c)
        PROVE  EventsWhere(d)' /\ StateWhy(d)'
    BY <2>2 DEF WriteAck, Write, EventsWhere, StateWhy, Acked, TypeOK
  <2>3. ASSUME NEW c \in Callback, WriteNack(c)
        PROVE  EventsWhere(d)' /\ StateWhy(d)'
    BY <2>3 DEF WriteNack, Write, Discard, EventsWhere, StateWhy, Acked, TypeOK
  <2>4. ASSUME NEW c \in Callback, Finish(c)
        PROVE  EventsWhere(d)' /\ StateWhy(d)'
    <3>1. EventsWhere(d)'
      <4>1. CASE c = d /\ c \in hooked /\ state[c] = "pending"
        <5>1. /\ state'[d] = "released" /\ queue'[d] = <<>>
              /\ sink'[d] = sink[d] \o queue[d] /\ emitted'[d] = emitted[d]
          BY <2>4, <4>1 DEF Finish, Release, TypeOK
        <5>2. sink[d] \o queue[d] = AD!Upto(emitted[d])
          BY <2>0, <4>1, EmptyConcat DEF EventsWhere
        <5>. QED
          BY <5>1, <5>2 DEF EventsWhere
      <4>2. CASE ~(c = d /\ c \in hooked /\ state[c] = "pending")
        <5>1. /\ state'[d] = state[d] /\ queue'[d] = queue[d]
              /\ sink'[d] = sink[d] /\ emitted'[d] = emitted[d]
          BY <2>4, <4>2 DEF Finish, Release, TypeOK
        <5>. QED
          BY <5>1 DEF EventsWhere
      <4>. QED
        BY <4>1, <4>2
    <3>2. StateWhy(d)'
      BY <2>4 DEF Finish, Release, StateWhy, Acked, TypeOK
    <3>. QED
      BY <3>1, <3>2
  <2>5. ASSUME NEW c \in Callback, Drop(c)
        PROVE  EventsWhere(d)' /\ StateWhy(d)'
    <3>1. EventsWhere(d)'
      <4>1. CASE c = d /\ c \in hooked /\ state[c] = "pending"
        <5>1. /\ state'[d] = "discarded" /\ queue'[d] = <<>>
              /\ sink'[d] = sink[d]
          BY <2>5, <4>1 DEF Drop, Discard, TypeOK
        <5>. QED
          BY <4>1, <5>1 DEF EventsWhere
      <4>2. CASE ~(c = d /\ c \in hooked /\ state[c] = "pending")
        <5>1. /\ state'[d] = state[d] /\ queue'[d] = queue[d]
              /\ sink'[d] = sink[d] /\ emitted'[d] = emitted[d]
          BY <2>5, <4>2 DEF Drop, Discard, TypeOK
        <5>. QED
          BY <5>1 DEF EventsWhere
      <4>. QED
        BY <4>1, <4>2
    <3>2. StateWhy(d)'
      BY <2>5 DEF Drop, Discard, StateWhy, Acked, TypeOK
    <3>. QED
      BY <3>1, <3>2
  <2>6. CASE UNCHANGED vars
    BY <2>6 DEF vars, EventsWhere, StateWhy, Acked
  <2>. QED
    BY <2>1, <2>2, <2>3, <2>4, <2>5, <2>6 DEF Next
<1>. QED
  BY <1>1, <1>2, TypeCorrect, PTL DEF Spec

\* No event is released before its callback's ACK has been written, whatever
\* the interleaving of pushes, answers and lost connections.
THEOREM AckOrder == Spec => []NoEventBeforeAck
<1>1. IInv => NoEventBeforeAck
  BY DEF IInv, TypeOK, EventsWhere, StateWhy, NoEventBeforeAck
<1>. QED
  BY <1>1, Inductive, PTL

\* What the client was sent followed by what is held back is what was pushed.
THEOREM PushOrder == Spec => []InPushOrder
<1>1. IInv => InPushOrder
  <2>. SUFFICES ASSUME IInv, NEW c \in Callback, state[c] # "discarded"
                PROVE  sink[c] \o queue[c] = AD!Upto(emitted[c])
    BY DEF InPushOrder
  <2>1. emitted[c] \in Nat
    BY MaxPushAssumption DEF IInv, TypeOK
  <2>2. AD!Upto(emitted[c]) \in Seq(Nat)
    BY <2>1, UptoType
  <2>3. \/ sink[c] = <<>> /\ queue[c] = AD!Upto(emitted[c])
        \/ queue[c] = <<>> /\ sink[c] = AD!Upto(emitted[c])
    BY DEF IInv, TypeOK, EventsWhere
  <2>. QED
    BY <2>2, <2>3, EmptyConcat
<1>. QED
  BY <1>1, Inductive, PTL

\* An acknowledged callback has shown the client all its events, a discarded
\* one none.
THEOREM AllOrNone == Spec => []AllOrNothing
<1>1. IInv => AllOrNothing
  BY DEF IInv, TypeOK, EventsWhere, StateWhy, AllOrNothing
<1>. QED
  BY <1>1, Inductive, PTL

\* Every step of the class is a step of the promise, or none of its business.
THEOREM Refinement == Spec => ImplementsAckedDelivery
<1>1. Init => AD!AdInit
  BY DEF Init, AD!AdInit, Acked
<1>2. IInv /\ [Next]_vars => [AD!AdNext]_(AD!adVars)
  <2>. SUFFICES ASSUME IInv, [Next]_vars PROVE [AD!AdNext]_(AD!adVars)
    OBVIOUS
  <2>. USE DEF IInv, TypeOK
  <2>1. ASSUME NEW c \in Callback, Push(c) PROVE AD!AdNext
    <3>1. Acked' = Acked
      BY <2>1 DEF Push, Acked
    <3>2. emitted' = [emitted EXCEPT ![c] = @ + 1] /\ emitted[c] \in Nat
      BY <2>1, MaxPushAssumption DEF Push
    <3>3. CASE state[c] = "released"
      <4>1. c \in Acked /\ sink[c] = AD!Upto(emitted[c])
        BY <3>3 DEF EventsWhere, StateWhy
      <4>2. sink' = [sink EXCEPT ![c] = AD!Upto(emitted[c] + 1)]
        BY <2>1, <3>2, <3>3, <4>1, UptoNext DEF Push
      <4>. QED
        BY <3>1, <3>2, <4>1, <4>2 DEF AD!AdNext, AD!Emit
    <3>4. CASE state[c] # "released"
      BY <2>1, <3>1, <3>2, <3>4 DEF Push, AD!AdNext, AD!Emit
    <3>. QED
      BY <3>3, <3>4
  <2>2. ASSUME NEW c \in Callback, WriteAck(c) PROVE UNCHANGED AD!adVars
    BY <2>2 DEF WriteAck, Write, StateWhy, Acked, AD!adVars
  <2>3. ASSUME NEW c \in Callback, WriteNack(c) PROVE UNCHANGED AD!adVars
    BY <2>3 DEF WriteNack, Write, Discard, StateWhy, Acked, AD!adVars
  <2>4. ASSUME NEW c \in Callback, Finish(c) PROVE [AD!AdNext]_(AD!adVars)
    <3>0. emitted' = emitted
      BY <2>4 DEF Finish
    <3>1. CASE c \in hooked
      <4>1. answer[c] = "ACK" /\ state[c] = "pending" /\ c \notin Acked
        BY <2>4, <3>1 DEF Finish, StateWhy, Acked
      <4>2. Acked' = Acked \cup {c}
        BY <2>4, <4>1 DEF Finish, Acked
      <4>3. emitted[c] \in Nat /\ sink[c] = <<>> /\ queue[c] = AD!Upto(emitted[c])
        BY <4>1, MaxPushAssumption DEF EventsWhere
      <4>4. <<>> \o AD!Upto(emitted[c]) = AD!Upto(emitted[c])
        BY <4>3, UptoType, EmptyConcat
      <4>5. sink' = [sink EXCEPT ![c] = AD!Upto(emitted[c])]
        BY <2>4, <3>1, <4>1, <4>3, <4>4 DEF Finish, Release
      <4>. QED
        BY <3>0, <4>1, <4>2, <4>5 DEF AD!AdNext, AD!Acknowledge
    <3>2. CASE c \notin hooked
      <4>1. answer[c] # "ACK"
        BY <3>2 DEF StateWhy
      <4>2. Acked' = Acked
        BY <2>4, <4>1 DEF Finish, Acked
      <4>. QED
        BY <2>4, <3>0, <3>2, <4>2 DEF Finish, AD!adVars
    <3>. QED
      BY <3>1, <3>2
  <2>5. ASSUME NEW c \in Callback, Drop(c) PROVE UNCHANGED AD!adVars
    BY <2>5 DEF Drop, Discard, Acked, AD!adVars
  <2>6. CASE UNCHANGED vars
    BY <2>6 DEF vars, Acked, AD!adVars
  <2>. QED
    BY <2>1, <2>2, <2>3, <2>4, <2>5, <2>6 DEF Next
<1>. QED
  BY <1>1, <1>2, Inductive, PTL DEF Spec, ImplementsAckedDelivery, AD!AdSpec
==============================================================================
