----------------------------- MODULE ExchangeProofs -----------------------------
(***************************************************************************)
(* Proofs about requests, callbacks and the cache of keys, for any number  *)
(* of requests, attempts, keys and callbacks and for all durations.        *)
(*                                                                         *)
(* No property is inductive by itself.  How long a request takes follows   *)
(* from when its attempt can have begun at the latest; how long a key that *)
(* is gone lives from what is known of an answer of the registry while it  *)
(* is on its way, and of an entry as long as it is cached.                 *)
(***************************************************************************)
EXTENDS Exchange, TLAPS

\* One attempt and the pause after it.
Round == AckTimeout + Backoff

\* When the n-th attempt begins at the latest.
Latest(n) == (n - 1) * Round

\* What is known of a request.
SendFacts(r) ==
  /\ since[r] <= clock
  /\ stage[r] # "ended" =>
       /\ attempt[r] \in 1..Attempts
       /\ copies[<<r, attempt[r]>>] \in Nat
       /\ copies[<<r, attempt[r]>>] <= since[r]
  /\ stage[r] = "waiting" =>
       clock <= since[r] + AckTimeout /\ since[r] <= Latest(attempt[r])
  /\ stage[r] = "pausing" =>
       /\ attempt[r] < Attempts
       /\ clock <= since[r] + Backoff
       /\ since[r] <= Latest(attempt[r]) + AckTimeout

SendInv == SendTypeOK /\ \A r \in Request : SendFacts(r)

\* What the registry remembers of a key: values follow each other.
KeyFacts(k) ==
  /\ \A v \in Value : v <= latest[k] => from[<<k, v>>] \in Nat /\ from[<<k, v>>] <= clock
  /\ \A v \in Value : until[<<k, v>>] # None => v <= latest[k] /\ until[<<k, v>>] <= clock
  /\ \A v \in Value : v < latest[k] => until[<<k, v>>] # None
  /\ \A v, w \in Value : v < w /\ until[<<k, w>>] # None => until[<<k, v>>] <= until[<<k, w>>]

\* An entry does not outlive its value by more than Lag.
EntryFacts(k) ==
  keyCache[k] # None =>
    LET v == keyCache[k].value IN
    /\ v <= latest[k]
    /\ keyCache[k].expiresAt <= clock + Ttl
    /\ until[<<k, v>>] = None \/ keyCache[k].expiresAt <= until[<<k, v>>] + Lag

\* What a lookup finds was so at some moment since it began: a value was good,
\* and one that it does not know was not there yet, or gone.
CheckFacts(c) ==
  /\ check[c] # Free =>
       /\ check[c].at <= clock /\ clock <= check[c].at + LookupTimeout
       /\ check[c].signed <= latest[check[c].key]
  /\ check[c].stage = "answered" =>
       LET k == check[c].key
           v == check[c].found
       IN
       /\ v <= latest[k]
       /\ v > 0 => until[<<k, v>>] = None \/ check[c].at <= until[<<k, v>>]
       /\ \A n \in Value : v < n /\ n <= latest[k] =>
            until[<<k, n>>] # None \/ check[c].at <= from[<<k, n>>]

\* What a verdict may rest on.
VerdictFacts(c) ==
  verdict[c] # None =>
    LET k == verdict[c].key
        n == verdict[c].signed
    IN
    /\ verdict[c].at <= clock /\ n <= latest[k]
    /\ verdict[c].is = "next" => until[<<k, n>>] = None \/ verdict[c].at <= until[<<k, n>>] + Lag
    /\ verdict[c].is = "401" =>
         \/ until[<<k, n>>] # None
         \/ verdict[c].at <= from[<<k, n>>] + LookupTimeout
         \/ n > 1 /\ verdict[c].at <= until[<<k, n - 1>>] + Lag

KeyInv ==
  /\ KeyTypeOK
  /\ \A k \in KeyId : KeyFacts(k) /\ EntryFacts(k)
  /\ \A c \in Callback : CheckFacts(c) /\ VerdictFacts(c)

------------------------------------------------------------------------------
(* The durations.                                                          *)

LEMMA Multiples ==
  ASSUME NEW a \in Nat, NEW b \in Nat, NEW p \in Nat, a <= b
  PROVE  a * p <= b * p
  <1>1. PICK d \in Nat : b = a + d
    <2>1. b - a \in Nat /\ b = a + (b - a)
      OBVIOUS
    <2> QED
      BY <2>1
  <1>2. b * p = a * p + d * p /\ d * p \in Nat /\ a * p \in Nat
    BY <1>1
  <1> QED
    BY <1>2

LEMMA Durations ==
  /\ AckTimeout \in Nat /\ AckTimeout > 0 /\ Backoff \in Nat /\ Backoff > 0
  /\ Attempts \in Nat /\ Attempts >= 1 /\ Round \in Nat
  BY DurationsAssumption DEF Attempts, Round

LEMMA LatestAttempts ==
  ASSUME NEW n \in 1..Attempts
  PROVE  /\ Latest(n) \in Nat
         /\ Latest(n) + AckTimeout <= LongestSend
         /\ n < Attempts => /\ n + 1 \in 1..Attempts
                            /\ Latest(n + 1) = Latest(n) + Round
                            /\ Latest(n) + Round + AckTimeout <= LongestSend
  <1>1. LongestSend = Retries * Round + AckTimeout
    BY DurationsAssumption DEF LongestSend, Attempts, Round
  <1>2. Retries \in Nat /\ Attempts = Retries + 1
    BY DurationsAssumption DEF Attempts
  <1>3. ASSUME NEW m \in 1..Attempts
        PROVE  Latest(m) \in Nat /\ Latest(m) + AckTimeout <= LongestSend
    <2>1. m - 1 \in Nat /\ m - 1 <= Retries
      BY <1>2
    <2>2. (m - 1) * Round <= Retries * Round
      BY <1>2, <2>1, Durations, Multiples
    <2>3. (m - 1) * Round \in Nat /\ Retries * Round \in Nat
      BY <1>2, <2>1, Durations
    <2> QED
      BY <1>1, <2>2, <2>3, Durations DEF Latest
  <1>4. ASSUME n < Attempts
        PROVE  n + 1 \in 1..Attempts /\ Latest(n + 1) = Latest(n) + Round
    <2>1. n + 1 \in 1..Attempts
      BY <1>2, <1>4
    <2>2. n * Round = (n - 1) * Round + Round
      BY Durations
    <2> QED
      BY <2>1, <2>2 DEF Latest
  <1> QED
    BY <1>3, <1>4, Durations

------------------------------------------------------------------------------
(* Requests.                                                               *)

LEMMA CopyOf ==
  ASSUME NEW r \in Request, NEW n \in 1..Attempts
  PROVE  <<r, n>> \in Copy
  BY DEF Copy

LEMMA SendKept ==
  ASSUME SendInv, NEW r \in Request, clock' = clock,
         stage'[r] = stage[r], attempt'[r] = attempt[r], since'[r] = since[r],
         \A n \in 1..Attempts : copies'[<<r, n>>] = copies[<<r, n>>]
  PROVE  SendFacts(r)'
  BY DEF SendInv, SendFacts

\* A call that ends, or pauses while another attempt is allowed, sends nothing.
LEMMA EndKeeps ==
  ASSUME SendInv, NEW r \in Request, NEW how \in {"acked", "nacked", "gave up", "failed"},
         End(r, how), clock' = clock
  PROVE  SendInv'
  <1>1. SendTypeOK'
    BY DEF End, SendInv, SendTypeOK
  <1>2. ASSUME NEW q \in Request, q # r
        PROVE  SendFacts(q)'
    BY <1>2, SendKept DEF End, SendInv, SendTypeOK
  <1>3. SendFacts(r)'
    BY DEF End, SendInv, SendTypeOK, SendFacts
  <1> QED
    BY <1>1, <1>2, <1>3 DEF SendInv

LEMMA PauseKeeps ==
  ASSUME SendInv, NEW r \in Request, stage[r] = "waiting", Again(r),
         Pause(r), clock' = clock, clock \in Nat
  PROVE  SendInv'
  <1>1. SendTypeOK'
    BY DEF Pause, SendInv, SendTypeOK
  <1>2. ASSUME NEW q \in Request, q # r
        PROVE  SendFacts(q)'
    BY <1>2, SendKept DEF Pause, SendInv, SendTypeOK
  <1>3. SendFacts(r)'
    <2>1. /\ stage'[r] = "pausing" /\ since'[r] = clock /\ attempt' = attempt /\ copies' = copies
          /\ attempt[r] \in 1..Attempts /\ attempt[r] < Attempts /\ since[r] \in Nat
          /\ copies[<<r, attempt[r]>>] \in Nat /\ copies[<<r, attempt[r]>>] <= since[r]
          /\ since[r] <= clock
      BY DEF Pause, SendInv, SendTypeOK, SendFacts, Again
    <2>2. clock <= Latest(attempt[r]) + AckTimeout
      <3>1. Latest(attempt[r]) \in Nat
        BY <2>1, LatestAttempts
      <3>2. clock <= since[r] + AckTimeout /\ since[r] <= Latest(attempt[r])
        BY DEF SendInv, SendFacts
      <3> QED
        BY <2>1, <3>1, <3>2, Durations
    <2>3. copies[<<r, attempt[r]>>] <= clock
      BY <2>1
    <2> QED
      BY <2>1, <2>2, <2>3, Durations DEF SendInv, SendFacts
  <1> QED
    BY <1>1, <1>2, <1>3 DEF SendInv

\* Another attempt is stamped with the time it is made.
LEMMA PostKeeps ==
  ASSUME SendInv, NEW r \in Request, clock \in Nat, clock' = clock,
         stage[r] # "ended", attempt[r] < Attempts, clock <= Latest(attempt[r]) + Round,
         Post(r, attempt[r] + 1)
  PROVE  SendInv'
  <1>1. PICK k \in 1..Attempts : k = attempt[r]
    BY DEF SendInv, SendFacts
  <1>2. k + 1 \in 1..Attempts /\ Latest(k + 1) = Latest(k) + Round /\ Latest(k + 1) \in Nat
    BY <1>1, LatestAttempts
  <1>3. <<r, k>> \in Copy /\ <<r, k + 1>> \in Copy
    BY <1>2, CopyOf
  <1>4. /\ stage' = [stage EXCEPT ![r] = "waiting"]
        /\ attempt' = [attempt EXCEPT ![r] = k + 1]
        /\ since' = [since EXCEPT ![r] = clock]
        /\ copies' = [copies EXCEPT ![<<r, k + 1>>] = clock]
        /\ reply' = reply /\ outcome' = outcome
    BY <1>1 DEF Post, Stamp
  <1>5. SendTypeOK'
    <2>1. stage' \in [Request -> {"waiting", "pausing", "ended"}]
      BY <1>4 DEF SendInv, SendTypeOK
    <2>2. attempt' \in [Request -> 0..Attempts]
      <3>1. k + 1 \in 0..Attempts
        BY <1>2, Durations
      <3> QED
        BY <1>4, <3>1 DEF SendInv, SendTypeOK
    <2>3. since' \in [Request -> Nat]
      BY <1>4 DEF SendInv, SendTypeOK
    <2>4. copies' \in [Copy -> Nat \cup {None}]
      BY <1>3, <1>4 DEF SendInv, SendTypeOK
    <2> QED
      BY <1>4, <2>1, <2>2, <2>3, <2>4 DEF SendInv, SendTypeOK
  <1>6. ASSUME NEW q \in Request, q # r
        PROVE  SendFacts(q)'
    <2>1. \A n \in 1..Attempts : copies'[<<q, n>>] = copies[<<q, n>>]
      BY <1>4, <1>6, CopyOf DEF SendInv, SendTypeOK
    <2> QED
      BY <1>4, <1>6, <2>1, SendKept DEF SendInv, SendTypeOK
  <1>7. SendFacts(r)'
    <2>1. /\ stage'[r] = "waiting" /\ attempt'[r] = k + 1 /\ since'[r] = clock
          /\ copies'[<<r, k + 1>>] = clock
      BY <1>3, <1>4, CopyOf DEF SendInv, SendTypeOK
    <2> QED
      BY <1>1, <1>2, <2>1, Durations DEF SendFacts
  <1> QED
    BY <1>5, <1>6, <1>7 DEF SendInv

LEMMA AttemptKeeps ==
  ASSUME SendInv, NEW r \in Request, clock \in Nat, clock' = clock,
         stage[r] # "ended", attempt[r] < Attempts, clock <= Latest(attempt[r]) + Round,
         Attempt(r)
  PROVE  SendInv'
  BY PostKeeps, EndKeeps DEF Attempt

LEMMA SendStepKeeps ==
  ASSUME SendInv, clock \in Nat, clock' = clock, SendStep
  PROVE  SendInv'
  <1> PICK r \in Request :
        \/ \E n \in 1..Attempts, says \in Answer : Receive(r, n, says)
        \/ GetAck(r) \/ GetNack(r) \/ GetNothing(r) \/ GetOther(r)
        \/ TimeOut(r) \/ Resend(r)
    BY Zenon DEF SendStep
  <1>1. CASE \E n \in 1..Attempts, says \in Answer : Receive(r, n, says)
    <2>1. SendTypeOK'
      BY <1>1, CopyOf DEF Receive, SendInv, SendTypeOK
    <2>2. \A q \in Request : SendFacts(q)'
      BY <1>1, SendKept DEF Receive
    <2> QED
      BY <2>1, <2>2 DEF SendInv
  <1>2. CASE GetAck(r) \/ GetOther(r)
    BY <1>2, EndKeeps DEF GetAck, GetOther
  <1>3. CASE GetNack(r)
    BY <1>3, EndKeeps, PauseKeeps DEF GetNack
  <1>4. CASE GetNothing(r)
    BY <1>4, EndKeeps, PauseKeeps DEF GetNothing
  <1>5. CASE TimeOut(r)
    <2>1. /\ since[r] \in Nat /\ since[r] <= Latest(attempt[r]) /\ stage[r] # "ended"
          /\ clock <= since[r] + AckTimeout /\ attempt[r] \in 1..Attempts
      BY <1>5 DEF TimeOut, SendInv, SendTypeOK, SendFacts
    <2>2. clock <= Latest(attempt[r]) + Round
      BY <2>1, LatestAttempts, Durations DEF Round
    <2> QED
      BY <1>5, <2>1, <2>2, EndKeeps, AttemptKeeps DEF TimeOut, Again
  <1>6. CASE Resend(r)
    <2>1. /\ since[r] \in Nat /\ since[r] <= Latest(attempt[r]) + AckTimeout
          /\ clock = since[r] + Backoff /\ attempt[r] \in 1..Attempts
          /\ attempt[r] < Attempts /\ stage[r] # "ended"
      BY <1>6 DEF Resend, SendInv, SendTypeOK, SendFacts
    <2>2. clock <= Latest(attempt[r]) + Round
      BY <2>1, LatestAttempts, Durations DEF Round
    <2> QED
      BY <1>6, <2>1, <2>2, AttemptKeeps DEF Resend
  <1> QED
    BY <1>1, <1>2, <1>3, <1>4, <1>5, <1>6

\* Time that passes while no timer is due changes nothing of this.
LEMMA TimeKeepsSending ==
  ASSUME SendInv, clock \in Nat, Tick, ~SendDue, UNCHANGED sendVars
  PROVE  SendInv'
  <1>1. SendTypeOK'
    BY DEF sendVars, SendInv, SendTypeOK
  <1>2. ASSUME NEW r \in Request
        PROVE  SendFacts(r)'
    <2>1. /\ stage' = stage /\ attempt' = attempt /\ since' = since /\ copies' = copies
          /\ clock' = clock + 1 /\ since[r] \in Nat
      BY DEF sendVars, Tick, SendInv, SendTypeOK
    <2>2. /\ stage[r] = "waiting" => clock # since[r] + AckTimeout
          /\ stage[r] = "pausing" => clock # since[r] + Backoff
      BY DEF SendDue
    <2> QED
      BY <2>1, <2>2, Durations DEF SendInv, SendFacts
  <1> QED
    BY <1>1, <1>2 DEF SendInv

LEMMA SendInitially ==
  ASSUME SendInit, clock = 0
  PROVE  SendInv
  <1>1. PICK signed \in SUBSET Request :
          /\ stage = [r \in Request |-> IF r \in signed THEN "waiting" ELSE "ended"]
          /\ attempt = [r \in Request |-> IF r \in signed THEN 1 ELSE 0]
          /\ since = [r \in Request |-> 0]
          /\ copies = [k \in Copy |-> IF k[1] \in signed /\ k[2] = 1 THEN 0 ELSE None]
          /\ reply = [k \in Copy |-> "none"]
          /\ outcome = [r \in Request |-> IF r \in signed THEN "none" ELSE "failed"]
    BY DEF SendInit
  <1>2. SendTypeOK
    BY <1>1, Durations DEF SendTypeOK
  <1>3. ASSUME NEW r \in Request
        PROVE  SendFacts(r)
    <2>1. 1 \in 1..Attempts
      BY Durations
    <2>2. <<r, 1>> \in Copy
      BY <2>1, CopyOf
    <2> QED
      BY <1>1, <2>1, <2>2, LatestAttempts, Durations DEF SendFacts
  <1> QED
    BY <1>2, <1>3 DEF SendInv

------------------------------------------------------------------------------
(* Keys.                                                                   *)

\* How the registry moves on: values are added and come to an end, now.
MovesOn(k) ==
  /\ latest[k] <= latest'[k]
  /\ \A v \in Value :
       /\ v <= latest[k] => from'[<<k, v>>] = from[<<k, v>>]
       /\ latest[k] < v /\ v <= latest'[k] => from'[<<k, v>>] = clock
       /\ \/ until'[<<k, v>>] = until[<<k, v>>]
          \/ until[<<k, v>>] = None /\ until'[<<k, v>>] = clock

LEMMA Lags ==
  /\ Ttl \in Nat /\ LookupTimeout \in Nat /\ Lag \in Nat
  /\ Lag = Ttl + LookupTimeout
  BY LifetimesAssumption DEF Lag

LEMMA Later ==
  \A a, b, c, d \in Nat : a <= b /\ c <= a + d => c <= b + d
  OBVIOUS

LEMMA Pairs ==
  ASSUME NEW k \in KeyId, NEW v \in Value
  PROVE  /\ <<k, v>> \in KeyId \X Value
         /\ v \in Nat /\ v >= 1
  BY ValuesBound DEF Value

LEMMA Times ==
  ASSUME KeyTypeOK, NEW k \in KeyId
  PROVE  /\ latest[k] \in 0..MaxValue /\ latest[k] \in Nat
         /\ \A v \in Value : from[<<k, v>>] \in Nat \cup {None}
         /\ \A v \in Value : until[<<k, v>>] \in Nat \cup {None}
         /\ keyCache[k] # None =>
              keyCache[k].value \in Value /\ keyCache[k].expiresAt \in Nat
  BY Pairs, ValuesBound DEF KeyTypeOK

LEMMA NumbersNext ==
  ASSUME KeyTypeOK', NEW k \in KeyId
  PROVE  latest'[k] \in 0..MaxValue /\ latest'[k] \in Nat
  BY ValuesBound DEF KeyTypeOK

LEMMA Checks ==
  ASSUME KeyTypeOK, NEW c \in Callback
  PROVE  /\ check[c] # Free =>
              /\ check[c].key \in KeyId /\ check[c].signed \in Value /\ check[c].at \in Nat
              /\ check[c].stage \in {"asking", "answered"}
         /\ check[c].stage = "answered" => check[c] # Free /\ check[c].found \in 0..MaxValue
         /\ check[c].stage = "asking" => check[c] # Free
         /\ verdict[c] # None =>
              /\ verdict[c].key \in KeyId /\ verdict[c].signed \in Value
              /\ verdict[c].at \in Nat
  <1>1. check[c] \in CheckType
    BY DEF KeyTypeOK
  <1>2. check[c] = Free => check[c].stage = "free"
    BY DEF Free
  <1>3. verdict[c] # None => verdict[c] \in
          [is : {"next", "401", "503"}, at : Nat, key : KeyId, signed : Value]
    BY DEF KeyTypeOK
  <1> QED
    BY <1>1, <1>2, <1>3 DEF CheckType

\* What is known of an entry that stays.
LEMMA EntryKept ==
  ASSUME KeyInv, KeyTypeOK', clock \in Nat, clock' \in Nat, clock <= clock',
         NEW k \in KeyId, MovesOn(k), keyCache'[k] = keyCache[k]
  PROVE  EntryFacts(k)'
  <1> SUFFICES ASSUME keyCache[k] # None
               PROVE  EntryFacts(k)'
    BY DEF EntryFacts
  <1>1. PICK v, t : /\ v = keyCache[k].value /\ t = keyCache[k].expiresAt
                    /\ v \in Value /\ t \in Nat
    BY Times DEF KeyInv
  <1>2. /\ v <= latest[k] /\ t <= clock + Ttl
        /\ until[<<k, v>>] = None \/ t <= until[<<k, v>>] + Lag
    BY <1>1 DEF KeyInv, EntryFacts
  <1>3. latest[k] \in Nat /\ latest'[k] \in Nat /\ v \in Nat /\ t \in Nat
    BY <1>1, Times, NumbersNext, Pairs DEF KeyInv
  <1>4. until'[<<k, v>>] = None \/ t <= until'[<<k, v>>] + Lag
    BY <1>1, <1>2, <1>3, Lags DEF MovesOn
  <1>5. v <= latest'[k] /\ t <= clock' + Ttl
    <2>1. latest[k] <= latest'[k]
      BY DEF MovesOn
    <2> QED
      <3>1. v <= latest'[k]
        BY <1>2, <1>3, <2>1
      <3>2. t <= clock' + Ttl
        <4>1. t <= clock + Ttl
          BY <1>2
        <4>2. Ttl \in Nat /\ t \in Nat
          BY <1>3, Lags
        <4> QED
          BY <4>1, <4>2, Later
      <3> QED
        BY <3>1, <3>2
  <1> QED
    BY <1>1, <1>4, <1>5 DEF EntryFacts

\* Of a lookup that is still under way.
LEMMA CheckKept ==
  ASSUME KeyInv, KeyTypeOK', clock \in Nat, clock' \in Nat, clock <= clock',
         \A k \in KeyId : MovesOn(k),
         NEW c \in Callback, check'[c] = check[c],
         check[c] # Free => clock' <= check[c].at + LookupTimeout
  PROVE  CheckFacts(c)'
  <1>1. CASE check[c] = Free
    BY <1>1 DEF CheckFacts, Free
  <1>2. CASE check[c] # Free
    <2>1. PICK k \in KeyId, n \in Value, t \in Nat :
            k = check[c].key /\ n = check[c].signed /\ t = check[c].at
      BY <1>2, Checks DEF KeyInv
    <2>2. /\ t <= clock /\ n <= latest[k] /\ n \in Nat
          /\ latest[k] \in Nat /\ latest'[k] \in Nat /\ latest[k] <= latest'[k]
      <3>1. latest[k] \in Nat /\ latest'[k] \in Nat /\ n \in Nat
        BY Times, NumbersNext, Pairs DEF KeyInv
      <3>2. t <= clock /\ n <= latest[k]
        BY <1>2, <2>1 DEF KeyInv, CheckFacts
      <3> QED
        BY <3>1, <3>2 DEF MovesOn
    <2>3. CASE check[c].stage # "answered"
      BY <1>2, <2>1, <2>2, <2>3 DEF CheckFacts
    <2>4. CASE check[c].stage = "answered"
      <3>1. PICK v \in 0..MaxValue : v = check[c].found
        BY <2>4, Checks DEF KeyInv
      <3>2. /\ v <= latest[k] /\ v \in Nat
            /\ v > 0 => until[<<k, v>>] = None \/ t <= until[<<k, v>>]
            /\ \A m \in Value : v < m /\ m <= latest[k] =>
                 until[<<k, m>>] # None \/ t <= from[<<k, m>>]
        BY <2>1, <2>4, <3>1, ValuesBound DEF KeyInv, CheckFacts
      <3>3. v > 0 => until'[<<k, v>>] = None \/ t <= until'[<<k, v>>]
        <4>1. v > 0 => v \in Value
          BY <3>1, ValuesBound DEF Value
        <4> QED
          BY <2>2, <3>2, <4>1 DEF MovesOn
      <3>4. ASSUME NEW m \in Value, v < m, m <= latest'[k]
            PROVE  until'[<<k, m>>] # None \/ t <= from'[<<k, m>>]
        <4>1. CASE m <= latest[k]
          BY <3>2, <3>4, <4>1, NoneIsNoTime DEF MovesOn
        <4>2. CASE latest[k] < m
          BY <2>2, <3>4, <4>2 DEF MovesOn
        <4> QED
          <5>1. m \in Nat
            BY Pairs
          <5> QED
            BY <2>2, <4>1, <4>2, <5>1
      <3> QED
        BY <1>2, <2>1, <2>2, <2>4, <3>1, <3>2, <3>3, <3>4 DEF CheckFacts
    <2> QED
      BY <2>3, <2>4
  <1> QED
    BY <1>1, <1>2

\* Of a verdict.
LEMMA VerdictKept ==
  ASSUME KeyInv, KeyTypeOK', clock \in Nat, clock' \in Nat, clock <= clock',
         \A k \in KeyId : MovesOn(k),
         NEW c \in Callback, verdict'[c] = verdict[c]
  PROVE  VerdictFacts(c)'
  <1> SUFFICES ASSUME verdict[c] # None
               PROVE  VerdictFacts(c)'
    BY DEF VerdictFacts
  <1>1. PICK k \in KeyId, n \in Value, t \in Nat :
          k = verdict[c].key /\ n = verdict[c].signed /\ t = verdict[c].at
    BY Checks DEF KeyInv
  <1>2. /\ t <= clock /\ n <= latest[k]
        /\ verdict[c].is = "next" => until[<<k, n>>] = None \/ t <= until[<<k, n>>] + Lag
        /\ verdict[c].is = "401" =>
             \/ until[<<k, n>>] # None
             \/ t <= from[<<k, n>>] + LookupTimeout
             \/ n > 1 /\ t <= until[<<k, n - 1>>] + Lag
    BY <1>1 DEF KeyInv, VerdictFacts
  <1>3. latest[k] \in Nat /\ latest'[k] \in Nat /\ n \in Nat /\ t <= clock' /\ n <= latest'[k]
    <2>1. latest[k] \in Nat /\ latest'[k] \in Nat /\ n \in Nat
      BY Times, NumbersNext, Pairs DEF KeyInv
    <2>2. latest[k] <= latest'[k]
      BY DEF MovesOn
    <2> QED
      BY <1>2, <2>1, <2>2
  <1>4. verdict[c].is = "next" => until'[<<k, n>>] = None \/ t <= until'[<<k, n>>] + Lag
    BY <1>2, Lags DEF MovesOn
  <1>5. verdict[c].is = "401" =>
          \/ until'[<<k, n>>] # None
          \/ t <= from'[<<k, n>>] + LookupTimeout
          \/ n > 1 /\ t <= until'[<<k, n - 1>>] + Lag
    <2>1. until[<<k, n>>] # None => until'[<<k, n>>] # None
      BY NoneIsNoTime DEF MovesOn
    <2>2. from'[<<k, n>>] = from[<<k, n>>]
      BY <1>2 DEF MovesOn
    <2>3. n > 1 => until'[<<k, n - 1>>] = until[<<k, n - 1>>]
      <3>1. n > 1 => n - 1 \in Value /\ n - 1 < latest[k]
        BY <1>2, <1>3, ValuesBound DEF Value
      <3> QED
        BY <3>1 DEF KeyInv, KeyFacts, MovesOn
    <2> QED
      BY <1>2, <2>1, <2>2, <2>3
  <1> QED
    BY <1>1, <1>3, <1>4, <1>5 DEF VerdictFacts
\* The registry goes on by itself.
LEMMA RegistryKeeps ==
  ASSUME KeyInv, KeyTypeOK', clock \in Nat, clock' = clock,
         \A k \in KeyId : MovesOn(k) /\ KeyFacts(k)',
         UNCHANGED <<keyCache, check, verdict>>
  PROVE  KeyInv'
  <1>1. \A c \in Callback : check[c] # Free => clock' <= check[c].at + LookupTimeout
    BY DEF KeyInv, CheckFacts
  <1>2. clock' \in Nat /\ clock <= clock'
    OBVIOUS
  <1>3. \A k \in KeyId : EntryFacts(k)'
    BY <1>2, EntryKept
  <1>4. \A c \in Callback : CheckFacts(c)'
    BY <1>1, <1>2, CheckKept
  <1>5. \A c \in Callback : VerdictFacts(c)'
    BY <1>2, VerdictKept
  <1> QED
    BY <1>3, <1>4, <1>5 DEF KeyInv

\* A key ends now, and none that follows it has.
LEMMA RegisterKeeps ==
  ASSUME KeyInv, clock \in Nat, clock' = clock, NEW k \in KeyId, Register(k)
  PROVE  KeyInv'
  <1>1. PICK m \in Nat : m = latest[k]
    BY Times DEF KeyInv
  <1>2. m + 1 \in Value /\ (m > 0 => m \in Value) /\ m + 1 \in 0..MaxValue
    BY <1>1, ValuesBound DEF Register, Value
  <1>3. /\ latest' = [latest EXCEPT ![k] = m + 1]
        /\ from' = [from EXCEPT ![<<k, m + 1>>] = clock]
        /\ until' = IF Usable(k) THEN [until EXCEPT ![<<k, m>>] = clock] ELSE until
        /\ UNCHANGED <<keyCache, check, verdict>>
    BY <1>1 DEF Register
  <1>4. Usable(k) <=> m > 0 /\ until[<<k, m>>] = None
    BY <1>1 DEF Usable
  <1>5. KeyTypeOK'
    <2>1. latest' \in [KeyId -> 0..MaxValue]
      BY <1>2, <1>3 DEF KeyInv, KeyTypeOK
    <2>2. from' \in [KeyId \X Value -> Nat \cup {None}]
      BY <1>2, <1>3 DEF KeyInv, KeyTypeOK
    <2>3. until' \in [KeyId \X Value -> Nat \cup {None}]
      BY <1>2, <1>3, <1>4 DEF KeyInv, KeyTypeOK
    <2> QED
      BY <1>3, <2>1, <2>2, <2>3 DEF KeyInv, KeyTypeOK
  <1>6. /\ latest'[k] = m + 1
        /\ \A v \in Value :
             /\ from'[<<k, v>>] = IF v = m + 1 THEN clock ELSE from[<<k, v>>]
             /\ until'[<<k, v>>] =
                  IF v = m /\ until[<<k, m>>] = None THEN clock ELSE until[<<k, v>>]
    <2>1. \A v \in Value : <<k, v>> \in KeyId \X Value
      BY Pairs
    <2>2. \A v \in Value : v > 0
      BY ValuesBound DEF Value
    <2> QED
      BY <1>2, <1>3, <1>4, <2>1, <2>2 DEF KeyInv, KeyTypeOK
  <1>7. \A q \in KeyId, v \in Value :
          q # k => /\ latest'[q] = latest[q]
                   /\ from'[<<q, v>>] = from[<<q, v>>] /\ until'[<<q, v>>] = until[<<q, v>>]
    BY <1>3, Pairs DEF KeyInv, KeyTypeOK
  <1>8. ASSUME NEW q \in KeyId, q # k
        PROVE  MovesOn(q) /\ KeyFacts(q)'
    <2>1. latest'[q] = latest[q] /\ latest[q] \in Nat
      BY <1>3, <1>8, Times DEF KeyInv, KeyTypeOK
    <2>2. \A v \in Value : v \in Nat
      BY <1>8, Pairs
    <2>3. MovesOn(q)
      <3>1. latest[q] <= latest'[q]
        BY <2>1
      <3>2. ASSUME NEW v \in Value
            PROVE  /\ from'[<<q, v>>] = from[<<q, v>>] /\ until'[<<q, v>>] = until[<<q, v>>]
                   /\ ~(latest[q] < v /\ v <= latest'[q])
        BY <1>7, <1>8, <2>1, <2>2
      <3> QED
        BY <3>1, <3>2, Zenon DEF MovesOn
    <2>4. KeyFacts(q)
      BY DEF KeyInv
    <2> QED
      BY <1>7, <1>8, <2>1, <2>3, <2>4 DEF KeyFacts
  <1>9. \A v \in Value : v \in Nat /\ v >= 1
    BY Pairs
  <1>10. MovesOn(k)
    <2>1. latest[k] <= latest'[k]
      BY <1>1, <1>6
    <2>2. ASSUME NEW v \in Value
          PROVE  /\ v <= latest[k] => from'[<<k, v>>] = from[<<k, v>>]
                 /\ latest[k] < v /\ v <= latest'[k] => from'[<<k, v>>] = clock
      <3>1. v \in Nat /\ from'[<<k, v>>] = IF v = m + 1 THEN clock ELSE from[<<k, v>>]
        BY <1>6, <1>9
      <3> QED
        BY <1>1, <1>6, <3>1
    <2>3. ASSUME NEW v \in Value
          PROVE  \/ until'[<<k, v>>] = until[<<k, v>>]
                 \/ until[<<k, v>>] = None /\ until'[<<k, v>>] = clock
      BY <1>6
    <2> QED
      BY <2>1, <2>2, <2>3, Zenon DEF MovesOn
  <1>11. /\ \A v \in Value : v <= m => from[<<k, v>>] \in Nat /\ from[<<k, v>>] <= clock
         /\ \A v \in Value : until[<<k, v>>] # None => v <= m /\ until[<<k, v>>] <= clock
         /\ \A v \in Value : v < m => until[<<k, v>>] # None
         /\ \A v, w \in Value :
              v < w /\ until[<<k, w>>] # None => until[<<k, v>>] <= until[<<k, w>>]
    BY <1>1 DEF KeyInv, KeyFacts
  <1>12. KeyFacts(k)'
    <2>1. ASSUME NEW v \in Value
          PROVE  /\ v <= m + 1 => from'[<<k, v>>] \in Nat /\ from'[<<k, v>>] <= clock
                 /\ until'[<<k, v>>] # None => v <= m + 1 /\ until'[<<k, v>>] <= clock
                 /\ v < m + 1 => until'[<<k, v>>] # None
      BY <1>6, <1>9, <1>11, NoneIsNoTime
    <2>2. ASSUME NEW v \in Value, NEW w \in Value, v < w, until'[<<k, w>>] # None
          PROVE  until'[<<k, v>>] <= until'[<<k, w>>]
      <3>1. w <= m
        BY <1>6, <1>9, <1>11, <2>2
      <3>2. v < m /\ v # m
        BY <1>9, <2>2, <3>1
      <3>3. until'[<<k, v>>] = until[<<k, v>>] /\ until[<<k, v>>] <= clock
        BY <1>6, <1>11, <3>2
      <3> QED
        BY <1>6, <1>11, <2>2, <3>3
    <2> QED
      BY <1>6, <2>1, <2>2 DEF KeyFacts
  <1> QED
    BY <1>3, <1>5, <1>8, <1>10, <1>12, RegistryKeeps

LEMMA WithdrawKeeps ==
  ASSUME KeyInv, clock \in Nat, clock' = clock, NEW k \in KeyId, Withdraw(k)
  PROVE  KeyInv'
  <1>1. PICK m \in Nat : m = latest[k]
    BY Times DEF KeyInv
  <1>2. m \in Value /\ until[<<k, m>>] = None
    BY <1>1, Times, ValuesBound DEF Withdraw, Usable, Value, KeyInv
  <1>3. /\ until' = [until EXCEPT ![<<k, m>>] = clock]
        /\ UNCHANGED <<latest, from, keyCache, check, verdict>>
    BY <1>1 DEF Withdraw
  <1>4. KeyTypeOK'
    <2>1. until' \in [KeyId \X Value -> Nat \cup {None}]
      BY <1>2, <1>3 DEF KeyInv, KeyTypeOK
    <2> QED
      BY <1>3, <2>1 DEF KeyInv, KeyTypeOK
  <1>5. \A q \in KeyId, v \in Value :
          until'[<<q, v>>] = IF q = k /\ v = m THEN clock ELSE until[<<q, v>>]
    BY <1>2, <1>3, Pairs DEF KeyInv, KeyTypeOK
  <1>6. \A v \in Value : v \in Nat /\ v >= 1
    BY Pairs
  <1>7. ASSUME NEW q \in KeyId
        PROVE  MovesOn(q) /\ KeyFacts(q)'
    <2>1. latest'[q] = latest[q] /\ latest[q] \in Nat
      BY <1>3, Times DEF KeyInv
    <2>2. MovesOn(q)
      <3>1. latest[q] <= latest'[q]
        BY <2>1
      <3>2. ASSUME NEW v \in Value
            PROVE  /\ from'[<<q, v>>] = from[<<q, v>>]
                   /\ ~(latest[q] < v /\ v <= latest'[q])
                   /\ \/ until'[<<q, v>>] = until[<<q, v>>]
                      \/ until[<<q, v>>] = None /\ until'[<<q, v>>] = clock
        BY <1>2, <1>3, <1>5, <1>6, <2>1
      <3> QED
        BY <3>1, <3>2, Zenon DEF MovesOn
    <2>3. KeyFacts(q)
      BY DEF KeyInv
    <2>4. q = k => latest[q] = m
      BY <1>1
    <2>5. ASSUME NEW v \in Value
          PROVE  /\ v <= latest[q] => from[<<q, v>>] \in Nat /\ from[<<q, v>>] <= clock
                 /\ until'[<<q, v>>] # None => v <= latest[q] /\ until'[<<q, v>>] <= clock
                 /\ v < latest[q] => until'[<<q, v>>] # None
      BY <1>5, <1>6, <2>3, <2>4, NoneIsNoTime DEF KeyFacts
    <2>6. ASSUME NEW v \in Value, NEW w \in Value, v < w, until'[<<q, w>>] # None
          PROVE  until'[<<q, v>>] <= until'[<<q, w>>]
      <3>1. w <= latest[q]
        BY <1>5, <2>3, <2>4, <2>6, <1>6, <2>1 DEF KeyFacts
      <3>2. v < latest[q]
        BY <1>6, <2>1, <2>6, <3>1
      <3>3. until'[<<q, v>>] = until[<<q, v>>] /\ until[<<q, v>>] <= clock
        BY <1>5, <1>6, <2>3, <2>4, <3>2, <2>1 DEF KeyFacts
      <3> QED
        BY <1>5, <2>3, <2>6, <3>3 DEF KeyFacts
    <2> QED
      BY <1>3, <2>1, <2>2, <2>5, <2>6 DEF KeyFacts
  <1> QED
    BY <1>3, <1>4, <1>7, RegistryKeeps
\* The registry as it is.
LEMMA Unmoved ==
  ASSUME KeyInv, clock \in Nat, clock' \in Nat, clock <= clock', UNCHANGED <<latest, from, until>>,
         NEW k \in KeyId
  PROVE  MovesOn(k) /\ KeyFacts(k)'
  <1>1. latest' = latest /\ from' = from /\ until' = until
    OBVIOUS
  <1>2. latest[k] \in Nat /\ \A v \in Value : v \in Nat
    BY Times, Pairs DEF KeyInv
  <1>3. MovesOn(k)
    <2>1. latest[k] <= latest'[k]
      BY <1>1, <1>2
    <2>2. ASSUME NEW v \in Value
          PROVE  ~(latest[k] < v /\ v <= latest'[k])
      BY <1>1, <1>2
    <2> QED
      BY <1>1, <2>1, <2>2, Zenon DEF MovesOn
  <1>4. KeyFacts(k)'
    <2>1. KeyFacts(k)
      BY DEF KeyInv
    <2>2. ASSUME NEW v \in Value, v <= latest[k]
          PROVE  from[<<k, v>>] \in Nat /\ from[<<k, v>>] <= clock'
      BY <2>1, <2>2 DEF KeyFacts
    <2>3. ASSUME NEW v \in Value, until[<<k, v>>] # None
          PROVE  v <= latest[k] /\ until[<<k, v>>] <= clock'
      <3>1. until[<<k, v>>] \in Nat
        BY <2>3, Times DEF KeyInv
      <3> QED
        BY <2>1, <2>3, <3>1 DEF KeyFacts
    <2> QED
      BY <1>1, <2>1, <2>2, <2>3 DEF KeyFacts
  <1> QED
    BY <1>3, <1>4

\* A verdict that is well founded.
LEMMA DecideKeeps ==
  ASSUME KeyInv, KeyTypeOK', clock \in Nat, clock' = clock, UNCHANGED <<latest, from, until>>,
         NEW c \in Callback, NEW k \in KeyId, NEW n \in Value, NEW is, n <= latest[k],
         Decide(c, k, n, is),
         is = "next" => until[<<k, n>>] = None \/ clock <= until[<<k, n>>] + Lag,
         is = "401" =>
           \/ until[<<k, n>>] # None
           \/ clock <= from[<<k, n>>] + LookupTimeout
           \/ n > 1 /\ clock <= until[<<k, n - 1>>] + Lag,
         NEW b \in Callback
  PROVE  VerdictFacts(b)'
  <1>1. latest' = latest /\ from' = from /\ until' = until
    OBVIOUS
  <1>2. CASE b = c
    <2>1. verdict'[c] = [is |-> is, at |-> clock, key |-> k, signed |-> n]
      BY DEF Decide, KeyInv, KeyTypeOK
    <2> QED
      BY <1>1, <1>2, <2>1 DEF VerdictFacts
  <1>3. CASE b # c
    <2>1. verdict'[b] = verdict[b]
      BY <1>3 DEF Decide, KeyInv, KeyTypeOK
    <2>2. clock' \in Nat /\ clock <= clock'
      OBVIOUS
    <2> QED
      BY <2>1, <2>2, Unmoved, VerdictKept
  <1> QED
    BY <1>2, <1>3

\* What an entry of the cache is good for.
LEMMA CachedVerdict ==
  ASSUME KeyInv, clock \in Nat, NEW k \in KeyId, NEW n \in Value, n <= latest[k], Cached(k)
  PROVE  IF n = keyCache[k].value
         THEN until[<<k, n>>] = None \/ clock <= until[<<k, n>>] + Lag
         ELSE until[<<k, n>>] # None \/ (n > 1 /\ clock <= until[<<k, n - 1>>] + Lag)
  <1>1. PICK v, t : v = keyCache[k].value /\ t = keyCache[k].expiresAt
    OBVIOUS
  <1>2. /\ v \in Value /\ t \in Nat /\ v \in Nat /\ v >= 1 /\ n \in Nat /\ latest[k] \in Nat
        /\ clock < t /\ v <= latest[k]
        /\ until[<<k, v>>] = None \/ t <= until[<<k, v>>] + Lag
    <2>1. keyCache[k] # None /\ t > clock
      BY <1>1 DEF Cached
    <2>2. v \in Value /\ t \in Nat /\ latest[k] \in Nat
      BY <1>1, <2>1, Times DEF KeyInv
    <2>3. v \in Nat /\ v >= 1 /\ n \in Nat
      BY <2>2, Pairs
    <2>4. v <= latest[k] /\ (until[<<k, v>>] = None \/ t <= until[<<k, v>>] + Lag)
      BY <1>1, <2>1 DEF KeyInv, EntryFacts
    <2> QED
      BY <2>1, <2>2, <2>3, <2>4
  <1>3. CASE n = v
    <2>1. until[<<k, n>>] \in Nat \cup {None}
      BY Times DEF KeyInv
    <2> QED
      BY <1>1, <1>2, <1>3, <2>1, Lags
  <1>4. CASE n < v
    BY <1>1, <1>2, <1>4 DEF KeyInv, KeyFacts
  <1>5. CASE v < n
    <2>1. n - 1 \in Value /\ n > 1 /\ v <= n - 1 /\ n - 1 < latest[k] /\ n # v
      BY <1>2, <1>5, ValuesBound DEF Value
    <2>2. PICK u, w : u = until[<<k, v>>] /\ w = until[<<k, n - 1>>]
      OBVIOUS
    <2>3. u # None /\ w # None
      BY <1>2, <2>1, <2>2 DEF KeyInv, KeyFacts
    <2>4. u \in Nat /\ w \in Nat
      BY <1>2, <2>1, <2>2, <2>3, Times DEF KeyInv
    <2>5. u <= w
      <3>1. CASE v = n - 1
        BY <2>2, <2>4, <3>1
      <3>2. CASE v < n - 1
        BY <1>2, <2>1, <2>2, <2>3, <3>2 DEF KeyInv, KeyFacts
      <3> QED
        BY <1>2, <2>1, <3>1, <3>2
    <2>6. clock <= w + Lag
      BY <1>2, <2>2, <2>3, <2>4, <2>5, Lags
    <2> QED
      BY <1>1, <2>1, <2>2, <2>6
  <1> QED
    BY <1>2, <1>3, <1>4, <1>5

\* What an answer of the registry is good for.
LEMMA AnsweredVerdict ==
  ASSUME KeyInv, clock \in Nat, NEW c \in Callback, check[c].stage = "answered",
         NEW k, NEW n, NEW v,
         k = check[c].key, n = check[c].signed, v = check[c].found
  PROVE  /\ k \in KeyId /\ n \in Value /\ n <= latest[k] /\ v \in 0..MaxValue /\ v <= latest[k]
         /\ v > 0 => until[<<k, v>>] = None \/ clock <= until[<<k, v>>] + LookupTimeout
         /\ n = v => until[<<k, n>>] = None \/ clock <= until[<<k, n>>] + Lag
         /\ n # v => until[<<k, n>>] # None \/ clock <= from[<<k, n>>] + LookupTimeout
  <1>1. PICK t : t = check[c].at
    OBVIOUS
  <1>2. /\ k \in KeyId /\ n \in Value /\ t \in Nat /\ v \in 0..MaxValue
        /\ n \in Nat /\ n >= 1 /\ v \in Nat /\ check[c] # Free
    <2>1. k \in KeyId /\ n \in Value /\ t \in Nat /\ v \in 0..MaxValue /\ check[c] # Free
      BY <1>1, Checks DEF KeyInv
    <2> QED
      <3>1. v \in Nat
        BY <2>1, ValuesBound
      <3>2. n \in Nat /\ n >= 1
        BY <2>1, Pairs
      <3> QED
        BY <2>1, <3>1, <3>2
  <1>3. /\ t <= clock /\ clock <= t + LookupTimeout /\ n <= latest[k] /\ v <= latest[k]
        /\ v > 0 => until[<<k, v>>] = None \/ t <= until[<<k, v>>]
        /\ \A m \in Value : v < m /\ m <= latest[k] =>
             until[<<k, m>>] # None \/ t <= from[<<k, m>>]
    BY <1>1, <1>2 DEF KeyInv, CheckFacts
  <1>4. ASSUME v > 0
        PROVE  until[<<k, v>>] = None \/ clock <= until[<<k, v>>] + LookupTimeout
    <2>1. v \in Value
      BY <1>2, <1>4, ValuesBound DEF Value
    <2>2. PICK u : u = until[<<k, v>>]
      OBVIOUS
    <2>3. u \in Nat \cup {None}
      BY <1>2, <2>1, <2>2, Times DEF KeyInv
    <2> QED
      BY <1>2, <1>3, <1>4, <2>2, <2>3, Lags
  <1>5. ASSUME n = v
        PROVE  until[<<k, n>>] = None \/ clock <= until[<<k, n>>] + Lag
    <2>1. PICK u : u = until[<<k, n>>]
      OBVIOUS
    <2>2. u \in Nat \cup {None}
      BY <1>2, <2>1, Times DEF KeyInv
    <2>3. u = None \/ clock <= u + LookupTimeout
      BY <1>2, <1>4, <1>5, <2>1
    <2> QED
      BY <2>1, <2>2, <2>3, Lags
  <1>6. ASSUME n # v
        PROVE  until[<<k, n>>] # None \/ clock <= from[<<k, n>>] + LookupTimeout
    <2>1. CASE n < v
      <3>1. latest[k] \in Nat
        BY <1>2, Times DEF KeyInv
      <3> QED
        BY <1>2, <1>3, <2>1, <3>1 DEF KeyInv, KeyFacts
    <2>2. CASE v < n
      <3>1. PICK s : s = from[<<k, n>>]
        OBVIOUS
      <3>2. s \in Nat
        BY <1>2, <1>3, <3>1 DEF KeyInv, KeyFacts
      <3> QED
        BY <1>2, <1>3, <2>2, <3>1, <3>2, Lags
    <2> QED
      BY <1>2, <1>6, <2>1, <2>2
  <1> QED
    BY <1>2, <1>3, <1>4, <1>5, <1>6
\* A callback comes in: it is decided with what is cached, or the registry is
\* asked.
LEMMA ArriveKeeps ==
  ASSUME KeyInv, clock \in Nat, clock' = clock,
         NEW c \in Callback, NEW k \in KeyId, NEW n \in Value, Arrive(c, k, n)
  PROVE  KeyInv'
  <1>1. /\ n <= latest[k] /\ UNCHANGED <<latest, from, until, keyCache>>
        /\ check[c] = Free
    <2>1. latest[k] \in Nat /\ n \in 1..latest[k]
      BY Times DEF Arrive, KeyInv
    <2> QED
      BY <2>1 DEF Arrive
  <1>2. clock' \in Nat /\ clock <= clock'
    OBVIOUS
  <1>3. \A q \in KeyId : MovesOn(q) /\ KeyFacts(q)'
    BY <1>1, <1>2, Unmoved
  <1>4. ASSUME KeyTypeOK', \A b \in Callback : CheckFacts(b)' /\ VerdictFacts(b)'
        PROVE  KeyInv'
    BY <1>1, <1>2, <1>3, <1>4, EntryKept DEF KeyInv
  <1>5. \A b \in Callback : check[b] # Free => clock' <= check[b].at + LookupTimeout
    BY DEF KeyInv, CheckFacts
  <1>6. CASE Cached(k)
    <2>1. Decide(c, k, n, Verified(n, keyCache[k].value)) /\ check' = check
      BY <1>6 DEF Arrive
    <2>2. KeyTypeOK'
      BY <1>1, <2>1 DEF Decide, Verified, KeyInv, KeyTypeOK
    <2>3. \A b \in Callback : CheckFacts(b)'
      BY <1>2, <1>3, <1>5, <2>1, <2>2, CheckKept
    <2>4. \A b \in Callback : VerdictFacts(b)'
      BY <1>1, <1>6, <2>1, <2>2, CachedVerdict, DecideKeeps DEF Verified
    <2> QED
      BY <1>4, <2>2, <2>3, <2>4
  <1>7. CASE ~Cached(k)
    <2>1. /\ check' = [check EXCEPT ![c] =
               [stage |-> "asking", key |-> k, signed |-> n, at |-> clock]]
          /\ verdict' = verdict
      BY <1>7 DEF Arrive
    <2>2. KeyTypeOK'
      <3>1. [stage |-> "asking", key |-> k, signed |-> n, at |-> clock] \in CheckType
        BY DEF CheckType
      <3> QED
        BY <1>1, <2>1, <3>1 DEF KeyInv, KeyTypeOK
    <2>3. CheckFacts(c)'
      <3>1. check'[c] = [stage |-> "asking", key |-> k, signed |-> n, at |-> clock]
        BY <2>1 DEF KeyInv, KeyTypeOK
      <3> QED
        BY <1>1, <3>1, Lags DEF CheckFacts
    <2>4. ASSUME NEW b \in Callback, b # c
          PROVE  CheckFacts(b)'
      <3>1. check'[b] = check[b]
        BY <2>1, <2>4 DEF KeyInv, KeyTypeOK
      <3> QED
        BY <1>2, <1>3, <1>5, <2>2, <3>1, CheckKept
    <2>5. \A b \in Callback : VerdictFacts(b)'
      BY <1>2, <1>3, <2>1, <2>2, VerdictKept
    <2> QED
      BY <1>4, <2>2, <2>3, <2>4, <2>5
  <1> QED
    BY <1>6, <1>7

\* The registry answers with what is so at that moment.
LEMMA ConsultKeeps ==
  ASSUME KeyInv, clock \in Nat, clock' = clock, NEW c \in Callback, Consult(c)
  PROVE  KeyInv'
  <1>1. PICK k, n, t, v :
          /\ k = check[c].key /\ n = check[c].signed /\ t = check[c].at
          /\ v = IF Usable(k) THEN latest[k] ELSE 0
    OBVIOUS
  <1>2. /\ k \in KeyId /\ n \in Value /\ t \in Nat /\ check[c] # Free
        /\ t <= clock /\ clock <= t + LookupTimeout /\ n <= latest[k]
    BY <1>1, Checks DEF Consult, KeyInv, CheckFacts
  <1>3. latest[k] \in 0..MaxValue /\ latest[k] \in Nat
    BY <1>2, Times DEF KeyInv
  <1>4. /\ check' = [check EXCEPT ![c] =
             [stage |-> "answered", key |-> k, signed |-> n, at |-> t, found |-> v]]
        /\ UNCHANGED <<latest, from, until, keyCache, verdict>>
    BY <1>1 DEF Consult
  <1>5. /\ v \in 0..MaxValue /\ v <= latest[k]
        /\ v > 0 => until[<<k, v>>] = None
        /\ \A m \in Value : v < m /\ m <= latest[k] => until[<<k, m>>] # None
    <2>1. CASE Usable(k)
      <3>1. v = latest[k] /\ until[<<k, v>>] = None
        BY <1>1, <2>1 DEF Usable
      <3>2. \A m \in Value : m \in Nat
        BY <1>2, Pairs
      <3> QED
        BY <1>3, <3>1, <3>2
    <2>2. CASE ~Usable(k)
      <3>1. v = 0 /\ (latest[k] > 0 => until[<<k, latest[k]>>] # None)
        BY <1>1, <1>3, <2>2 DEF Usable
      <3>2. ASSUME NEW m \in Value, m <= latest[k]
            PROVE  until[<<k, m>>] # None
        <4>1. m \in Nat /\ m >= 1
          BY Pairs, <1>2
        <4>2. m < latest[k] => until[<<k, m>>] # None
          BY <1>2 DEF KeyInv, KeyFacts
        <4> QED
          BY <1>3, <3>1, <3>2, <4>1, <4>2
      <3> QED
        BY <1>3, <3>1, <3>2, ValuesBound
    <2> QED
      BY <2>1, <2>2
  <1>6. clock' \in Nat /\ clock <= clock'
    OBVIOUS
  <1>7. KeyTypeOK'
    <2>1. [stage |-> "answered", key |-> k, signed |-> n, at |-> t, found |-> v] \in CheckType
      BY <1>2, <1>5 DEF CheckType
    <2> QED
      BY <1>4, <2>1 DEF KeyInv, KeyTypeOK
  <1>8. \A q \in KeyId : MovesOn(q) /\ KeyFacts(q)' /\ EntryFacts(q)'
    BY <1>4, <1>6, <1>7, Unmoved, EntryKept
  <1>9. CheckFacts(c)'
    <2>1. check'[c] = [stage |-> "answered", key |-> k, signed |-> n, at |-> t, found |-> v]
      BY <1>4 DEF KeyInv, KeyTypeOK
    <2> QED
      BY <1>2, <1>4, <1>5, <2>1 DEF CheckFacts
  <1>10. ASSUME NEW b \in Callback, b # c
         PROVE  CheckFacts(b)'
    <2>1. check'[b] = check[b]
      BY <1>4, <1>10 DEF KeyInv, KeyTypeOK
    <2>2. check[b] # Free => clock' <= check[b].at + LookupTimeout
      BY DEF KeyInv, CheckFacts
    <2> QED
      BY <1>6, <1>7, <1>8, <2>1, <2>2, CheckKept
  <1>11. \A b \in Callback : VerdictFacts(b)'
    BY <1>4, <1>6, <1>7, <1>8, VerdictKept
  <1> QED
    BY <1>7, <1>8, <1>9, <1>10, <1>11 DEF KeyInv

\* A lookup is over, however: nothing is known of it any more.
LEMMA OverKeeps ==
  ASSUME KeyInv, KeyTypeOK', clock \in Nat, clock' = clock, UNCHANGED <<latest, from, until>>,
         NEW c \in Callback, check' = [check EXCEPT ![c] = Free],
         NEW b \in Callback
  PROVE  CheckFacts(b)'
  <1>1. CASE b = c
    <2>1. check'[c] = Free
      BY DEF KeyInv, KeyTypeOK
    <2> QED
      BY <1>1, <2>1 DEF CheckFacts, Free
  <1>2. CASE b # c
    <2>1. check'[b] = check[b]
      BY <1>2 DEF KeyInv, KeyTypeOK
    <2>2. check[b] # Free => clock' <= check[b].at + LookupTimeout
      BY DEF KeyInv, CheckFacts
    <2>3. clock' \in Nat /\ clock <= clock'
      OBVIOUS
    <2> QED
      BY <2>1, <2>2, <2>3, Unmoved, CheckKept
  <1> QED
    BY <1>1, <1>2

LEMMA ReturnKeeps ==
  ASSUME KeyInv, clock \in Nat, clock' = clock, NEW c \in Callback, Return(c)
  PROVE  KeyInv'
  <1>1. PICK k, n, v : k = check[c].key /\ n = check[c].signed /\ v = check[c].found
    OBVIOUS
  <1>2. /\ k \in KeyId /\ n \in Value /\ n <= latest[k] /\ v \in 0..MaxValue /\ v <= latest[k]
        /\ v > 0 => until[<<k, v>>] = None \/ clock <= until[<<k, v>>] + LookupTimeout
        /\ n = v => until[<<k, n>>] = None \/ clock <= until[<<k, n>>] + Lag
        /\ n # v => until[<<k, n>>] # None \/ clock <= from[<<k, n>>] + LookupTimeout
    BY <1>1, AnsweredVerdict DEF Return
  <1>3. /\ Remember(k, v) /\ Decide(c, k, n, Verified(n, v))
        /\ check' = [check EXCEPT ![c] = Free]
        /\ latest' = latest /\ from' = from /\ until' = until
    BY <1>1 DEF Return
  <1>4. clock' \in Nat /\ clock <= clock'
    OBVIOUS
  <1>5. v # 0 => v \in Value /\ v > 0
    BY <1>2, ValuesBound DEF Value
  <1>6. KeyTypeOK'
    <2>1. keyCache' \in [KeyId -> [value : Value, expiresAt : Nat] \cup {None}]
      <3>1. v # 0 => [value |-> v, expiresAt |-> clock + Ttl] \in [value : Value, expiresAt : Nat]
        BY <1>5, Lags
      <3> QED
        BY <1>3, <3>1 DEF Remember, KeyInv, KeyTypeOK
    <2>2. verdict' \in [Callback ->
            [is : {"next", "401", "503"}, at : Nat, key : KeyId, signed : Value] \cup {None}]
      BY <1>2, <1>3 DEF Decide, Verified, KeyInv, KeyTypeOK
    <2>3. check' \in [Callback -> CheckType]
      BY <1>3 DEF CheckType, KeyInv, KeyTypeOK
    <2> QED
      BY <1>3, <2>1, <2>2, <2>3 DEF KeyInv, KeyTypeOK
  <1>7. \A q \in KeyId : MovesOn(q) /\ KeyFacts(q)'
    BY <1>3, <1>4, Unmoved
  <1>8. ASSUME NEW q \in KeyId
        PROVE  EntryFacts(q)'
    <2>1. CASE keyCache'[q] = keyCache[q]
      BY <1>4, <1>6, <1>7, <2>1, EntryKept
    <2>2. CASE keyCache'[q] # keyCache[q]
      <3>1. q = k /\ v # 0 /\ keyCache'[q] = [value |-> v, expiresAt |-> clock + Ttl]
        BY <1>3, <2>2 DEF Remember, KeyInv, KeyTypeOK
      <3>2. PICK u : u = until[<<k, v>>]
        OBVIOUS
      <3>3. u = None \/ clock + Ttl <= u + Lag
        <4>1. u \in Nat \cup {None}
          BY <1>2, <1>5, <3>1, <3>2, Times DEF KeyInv
        <4> QED
          BY <1>2, <1>5, <3>1, <3>2, <4>1, Lags
      <3>4. clock + Ttl <= clock' + Ttl
        BY Lags
      <3> QED
        BY <1>2, <1>3, <3>1, <3>2, <3>3, <3>4 DEF EntryFacts
    <2> QED
      BY <2>1, <2>2
  <1>9. \A b \in Callback : CheckFacts(b)'
    BY <1>3, <1>6, OverKeeps
  <1>10. \A b \in Callback : VerdictFacts(b)'
    <2>1. UNCHANGED <<latest, from, until>>
      BY <1>3
    <2>2. CASE n = v
      BY <1>2, <1>3, <1>6, <2>1, <2>2, DecideKeeps DEF Verified
    <2>3. CASE n # v
      BY <1>2, <1>3, <1>6, <2>1, <2>3, DecideKeeps DEF Verified
    <2> QED
      BY <2>2, <2>3
  <1> QED
    BY <1>6, <1>7, <1>8, <1>9, <1>10 DEF KeyInv

LEMMA UnavailableKeeps ==
  ASSUME KeyInv, clock \in Nat, clock' = clock, NEW c \in Callback, Unavailable(c)
  PROVE  KeyInv'
  <1>1. PICK k, n : k = check[c].key /\ n = check[c].signed
    OBVIOUS
  <1>2. k \in KeyId /\ n \in Value /\ n <= latest[k]
    BY <1>1, Checks DEF Unavailable, KeyInv, CheckFacts
  <1>3. /\ Decide(c, k, n, "503") /\ check' = [check EXCEPT ![c] = Free]
        /\ keyCache' = keyCache /\ UNCHANGED <<latest, from, until>>
    BY <1>1 DEF Unavailable
  <1>4. clock' \in Nat /\ clock <= clock'
    OBVIOUS
  <1>5. KeyTypeOK'
    <2>1. verdict' \in [Callback ->
            [is : {"next", "401", "503"}, at : Nat, key : KeyId, signed : Value] \cup {None}]
      BY <1>2, <1>3 DEF Decide, KeyInv, KeyTypeOK
    <2>2. check' \in [Callback -> CheckType]
      BY <1>3 DEF CheckType, KeyInv, KeyTypeOK
    <2> QED
      BY <1>3, <2>1, <2>2 DEF KeyInv, KeyTypeOK
  <1>6. \A q \in KeyId : KeyFacts(q)' /\ EntryFacts(q)'
    BY <1>3, <1>4, <1>5, Unmoved, EntryKept
  <1>7. \A b \in Callback : CheckFacts(b)' /\ VerdictFacts(b)'
    BY <1>2, <1>3, <1>5, OverKeeps, DecideKeeps
  <1> QED
    BY <1>5, <1>6, <1>7 DEF KeyInv

LEMMA TimeKeepsKeys ==
  ASSUME KeyInv, clock \in Nat, Tick, ~LookupDue, UNCHANGED keyVars
  PROVE  KeyInv'
  <1>1. /\ clock' \in Nat /\ clock <= clock' /\ clock' = clock + 1
        /\ UNCHANGED <<latest, from, until>>
        /\ keyCache' = keyCache /\ check' = check /\ verdict' = verdict
    BY DEF Tick, keyVars
  <1>2. KeyTypeOK'
    BY <1>1 DEF KeyInv, KeyTypeOK
  <1>3. \A k \in KeyId : MovesOn(k) /\ KeyFacts(k)'
    BY <1>1, Unmoved
  <1>4. ASSUME NEW c \in Callback, check[c] # Free
        PROVE  clock' <= check[c].at + LookupTimeout
    <2>1. PICK t : t = check[c].at
      OBVIOUS
    <2>2. t \in Nat /\ clock <= t + LookupTimeout
      BY <1>4, <2>1, Checks DEF KeyInv, CheckFacts
    <2>3. clock # t + LookupTimeout
      BY <1>4, <2>1 DEF LookupDue
    <2> QED
      <3>1. clock + 1 <= t + LookupTimeout
        BY <2>2, <2>3, Lags
      <3> QED
        BY <1>1, <2>1, <3>1
  <1> QED
    BY <1>1, <1>2, <1>3, <1>4, EntryKept, CheckKept, VerdictKept DEF KeyInv

LEMMA KeyInitially ==
  ASSUME KeyInit, clock = 0
  PROVE  KeyInv
  <1>1. KeyTypeOK
    BY ValuesBound DEF KeyInit, KeyTypeOK, CheckType
  <1>2. ASSUME NEW k \in KeyId
        PROVE  KeyFacts(k) /\ EntryFacts(k)
    <2>1. /\ latest[k] = 0 /\ keyCache[k] = None
          /\ \A v \in Value : until[<<k, v>>] = None /\ v \in Nat /\ v >= 1
      BY Pairs DEF KeyInit
    <2> QED
      BY <2>1 DEF KeyFacts, EntryFacts
  <1>3. ASSUME NEW c \in Callback
        PROVE  CheckFacts(c) /\ VerdictFacts(c)
    BY DEF KeyInit, CheckFacts, VerdictFacts, Free
  <1> QED
    BY <1>1, <1>2, <1>3 DEF KeyInv
------------------------------------------------------------------------------
(* The theorems.                                                           *)

EInv == clock \in 0..MaxClock /\ SendInv /\ KeyInv

LEMMA ExchangeStep == EInv /\ [ExchangeNext]_allVars => EInv'
  <1> SUFFICES ASSUME EInv, [ExchangeNext]_allVars PROVE EInv'
    OBVIOUS
  <1>1. clock \in Nat /\ clock \in 0..MaxClock /\ SendInv /\ KeyInv
    BY ClockBound DEF EInv
  <1>2. ASSUME clock' = clock, UNCHANGED sendVars
        PROVE  SendInv'
    <2>1. SendTypeOK'
      BY <1>1, <1>2 DEF sendVars, SendInv, SendTypeOK
    <2>2. \A r \in Request : SendFacts(r)'
      BY <1>1, <1>2, SendKept DEF sendVars
    <2> QED
      BY <2>1, <2>2 DEF SendInv
  <1>3. ASSUME clock' = clock, UNCHANGED keyVars
        PROVE  KeyInv'
    BY <1>1, <1>3 DEF keyVars, KeyInv, KeyTypeOK, KeyFacts, EntryFacts, CheckFacts, VerdictFacts
  <1>4. CASE SendStep /\ UNCHANGED <<clock, keyVars>>
    BY <1>1, <1>3, <1>4, SendStepKeeps DEF EInv
  <1>5. CASE KeyStep /\ UNCHANGED <<clock, sendVars>>
    <2>1. KeyInv'
      BY <1>1, <1>5, RegisterKeeps, WithdrawKeeps, ConsultKeeps, ReturnKeeps, UnavailableKeeps
         DEF KeyStep
    <2> QED
      BY <1>1, <1>2, <1>5, <2>1 DEF EInv
  <1>6. CASE \E c \in Callback : Call(c) /\ UNCHANGED <<clock, sendVars>>
    <2>1. KeyInv'
      BY <1>1, <1>6, ArriveKeeps DEF Call
    <2> QED
      BY <1>1, <1>2, <1>6, <2>1 DEF EInv
  <1>7. CASE Pass /\ UNCHANGED <<sendVars, keyVars>>
    <2>1. clock' \in 0..MaxClock
      BY <1>1, <1>7, ClockBound DEF Pass, Tick
    <2> QED
      BY <1>1, <1>7, <2>1, TimeKeepsSending, TimeKeepsKeys DEF Pass, EInv
  <1>8. CASE UNCHANGED allVars
    BY <1>1, <1>2, <1>3, <1>8 DEF allVars, EInv
  <1> QED
    BY <1>4, <1>5, <1>6, <1>7, <1>8 DEF ExchangeNext

THEOREM Inductive == ExchangeSpec => []EInv
  <1>1. ExchangeInit => EInv
    BY SendInitially, KeyInitially, ClockBound DEF ExchangeInit, EInv
  <1> QED
    BY <1>1, ExchangeStep, PTL DEF ExchangeSpec

THEOREM TypeCorrect == ExchangeSpec => []ExchangeTypeOK
  <1>1. EInv => ExchangeTypeOK
    BY DEF EInv, SendInv, KeyInv, ExchangeTypeOK
  <1> QED
    BY <1>1, Inductive, PTL

\* Whatever the counterparty answers and when, every attempt is stamped later
\* than the one before it, by as long as that was waited for or paused after.
THEOREM StampsAlwaysGrow == ExchangeSpec => StampsGrow
  <1>1. ASSUME EInv, [ExchangeNext]_allVars, NEW r \in Request, attempt'[r] # attempt[r]
        PROVE  copies'[<<r, attempt'[r]>>] >=
                 copies[<<r, attempt[r]>>]
                 + (IF stage[r] = "pausing" THEN Backoff ELSE clock - since[r])
    <2>1. SendFacts(r) /\ SendTypeOK /\ clock \in Nat
      BY <1>1, ClockBound DEF EInv, SendInv
    <2>2. SendStep
      BY <1>1 DEF ExchangeNext, allVars, sendVars
    <2>3. /\ stage[r] \in {"waiting", "pausing"} /\ Again(r)
          /\ stage[r] = "pausing" => clock = since[r] + Backoff
          /\ Post(r, attempt[r] + 1)
      <3> PICK q \in Request :
            \/ \E n \in 1..Attempts, says \in Answer : Receive(q, n, says)
            \/ GetAck(q) \/ GetNack(q) \/ GetNothing(q) \/ GetOther(q)
            \/ TimeOut(q) \/ Resend(q)
        BY <2>2, Zenon DEF SendStep
      <3>1. TimeOut(q) \/ Resend(q)
        BY <1>1 DEF Receive, GetAck, GetNack, GetNothing, GetOther, End, Pause
      <3>2. Post(q, attempt[q] + 1)
        BY <1>1, <3>1 DEF TimeOut, Resend, Attempt, End
      <3>3. q = r
        BY <1>1, <2>1, <3>2 DEF Post, SendTypeOK
      <3>4. Again(r)
        <4>1. CASE TimeOut(q)
          BY <1>1, <3>3, <4>1 DEF TimeOut, End
        <4>2. CASE Resend(q)
          BY <2>1, <3>3, <4>2 DEF Resend, Again, SendFacts
        <4> QED
          BY <3>1, <4>1, <4>2
      <3> QED
        BY <3>1, <3>2, <3>3, <3>4 DEF TimeOut, Resend
    <2>4. /\ attempt[r] \in 1..Attempts /\ attempt[r] + 1 \in 1..Attempts
          /\ copies[<<r, attempt[r]>>] \in Nat
          /\ copies[<<r, attempt[r]>>] <= since[r] /\ since[r] \in Nat
      <3>1. /\ attempt[r] \in 1..Attempts /\ attempt[r] < Attempts
            /\ copies[<<r, attempt[r]>>] \in Nat
            /\ copies[<<r, attempt[r]>>] <= since[r]
        BY <2>1, <2>3 DEF SendFacts, Again
      <3>2. since[r] \in Nat
        BY <2>1 DEF SendTypeOK
      <3> QED
        BY <3>1, <3>2, Durations
    <2>5. <<r, attempt[r] + 1>> \in Copy
      BY <2>4, CopyOf
    <2>6. copies'[<<r, attempt'[r]>>] = clock
      BY <2>1, <2>3, <2>4, <2>5 DEF Post, Stamp, SendTypeOK
    <2>7. PICK c, s : c = copies[<<r, attempt[r]>>] /\ s = since[r]
      OBVIOUS
    <2> QED
      BY <2>1, <2>3, <2>4, <2>6, <2>7, Durations
  <1>2. EInv /\ [ExchangeNext]_allVars =>
          [\A r \in Request : attempt'[r] # attempt[r] =>
             copies'[<<r, attempt'[r]>>] >=
               copies[<<r, attempt[r]>>]
               + (IF stage[r] = "pausing" THEN Backoff ELSE clock - since[r])]_<<clock, sendVars>>
    BY <1>1
  <1> QED
    BY <1>2, Inductive, PTL DEF ExchangeSpec, StampsGrow

\* However long the time-outs and the pauses are, the caller has an answer when
\* all of them could have passed.
THEOREM SendEnds == ExchangeSpec => []SendIsBounded
  <1>1. EInv => SendIsBounded
    <2> SUFFICES ASSUME EInv, NEW r \in Request, stage[r] \in {"waiting", "pausing"}
                 PROVE  clock <= LongestSend
      BY DEF SendIsBounded
    <2>1. SendFacts(r) /\ SendTypeOK /\ clock \in Nat
      BY ClockBound DEF EInv, SendInv
    <2>2. PICK k, s : k = attempt[r] /\ s = since[r]
      OBVIOUS
    <2>3. k \in 1..Attempts /\ s \in Nat
      BY <2>1, <2>2 DEF SendFacts, SendTypeOK
    <2>4. /\ Latest(k) \in Nat /\ Latest(k) + AckTimeout <= LongestSend
          /\ k < Attempts => Latest(k) + Round + AckTimeout <= LongestSend
      BY <2>3, LatestAttempts
    <2>5. \/ clock <= s + AckTimeout /\ s <= Latest(k)
          \/ k < Attempts /\ clock <= s + Backoff /\ s <= Latest(k) + AckTimeout
      BY <2>1, <2>2 DEF SendFacts
    <2>6. LongestSend \in Nat
      BY DurationsAssumption DEF LongestSend, Attempts
    <2> QED
      BY <2>1, <2>3, <2>4, <2>5, <2>6, Durations DEF Round
  <1> QED
    BY <1>1, Inductive, PTL

\* A key that has been replaced or withdrawn is good for no longer than the time
\* to live of an entry and the time-out of a lookup.
THEOREM GoneKeysDie == ExchangeSpec => []WithdrawnKeyDies
  <1>1. EInv => WithdrawnKeyDies
    BY DEF EInv, KeyInv, VerdictFacts, WithdrawnKeyDies
  <1> QED
    BY <1>1, Inductive, PTL

\* The key of the day is turned away only by a look-up that was under way when it
\* was registered, or while the key it replaced may be cached.
THEOREM NewKeysWork == ExchangeSpec => []NewKeyIsHonoured
  <1>1. EInv => NewKeyIsHonoured
    BY DEF EInv, KeyInv, VerdictFacts, NewKeyIsHonoured
  <1> QED
    BY <1>1, Inductive, PTL
===============================================================================
