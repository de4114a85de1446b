------------------------------- MODULE KeyCache -------------------------------
(***************************************************************************)
(* services/registry.service.ts and middlewares/ondc-signature.middleware: *)
(* the signing keys of one subscriber, as the registry has them and as we  *)
(* have them cached, and the callbacks verified with them.                 *)
(*                                                                         *)
(* A key id (ukId) stands for one key after another: the value of a key is *)
(* a number, and the registry has the last one or, once it is withdrawn,   *)
(* none.  A callback is signed with a value the sender has had; a          *)
(* signature is valid if the value it is verified with is that one.        *)
(***************************************************************************)
EXTENDS Timers

CONSTANTS
  KeyId,
  Callback,       \* deliveries of callbacks
  Ttl,            \* KEY_CACHE_TTL_MS
  LookupTimeout,  \* LOOKUP_TIMEOUT_MS
  MaxValue        \* bound: values of a key

ASSUME LifetimesAssumption == Ttl \in Nat \ {0} /\ LookupTimeout \in Nat \ {0}
ASSUME ValuesBound == MaxValue \in Nat

VARIABLES
  latest,    \* the latest value of a key: 0, none has been registered
  from,      \* when a value was registered, or None
  until,     \* when it was replaced or withdrawn, or None
  keyCache,  \* our entry for a key: its value and when it expires, or None
  check,     \* the verification of a callback
  verdict    \* on a callback and the value it is signed with, or None yet

keyVars == <<latest, from, until, keyCache, check, verdict>>

Value == 1..MaxValue
Usable(k) == latest[k] > 0 /\ until[<<k, latest[k]>>] = None
Free == [stage |-> "free"]

KeyInit ==
  /\ latest = [k \in KeyId |-> 0]
  /\ from = [kv \in KeyId \X Value |-> None]
  /\ until = [kv \in KeyId \X Value |-> None]
  /\ keyCache = [k \in KeyId |-> None]
  /\ check = [c \in Callback |-> Free]
  /\ verdict = [c \in Callback |-> None]

\* The subscriber registers a key, or replaces it.
Register(k) ==
  /\ latest[k] < MaxValue
  /\ latest' = [latest EXCEPT ![k] = @ + 1]
  /\ from' = [from EXCEPT ![<<k, latest[k] + 1>>] = clock]
  /\ until' = IF Usable(k) THEN [until EXCEPT ![<<k, latest[k]>>] = clock] ELSE until
  /\ UNCHANGED <<keyCache, check, verdict>>

\* It is withdrawn, suspended or runs out.
Withdraw(k) ==
  /\ Usable(k)
  /\ until' = [until EXCEPT ![<<k, latest[k]>>] = clock]
  /\ UNCHANGED <<latest, from, keyCache, check, verdict>>

\* The verdict: on to the controller, 401 or 503.
Decide(c, k, signed, is) ==
  verdict' = [verdict EXCEPT ![c] = [is |-> is, at |-> clock, key |-> k, signed |-> signed]]

\* verifyAuthorizationHeader, once a key is found.
Verified(signed, value) == IF signed = value THEN "next" ELSE "401"

\* Faulty: an entry that has expired is used.
AnyEntry(k) == keyCache[k] # None

\* The entry for k may be used.
Cached(k) == keyCache[k] # None /\ keyCache[k].expiresAt > clock

\* A callback signed with a value the sender has registered by now.
Arrive(c, k, value) ==
  /\ check[c] = Free /\ verdict[c] = None
  /\ value \in 1..latest[k]
  /\ IF Cached(k)
     THEN Decide(c, k, value, Verified(value, keyCache[k].value)) /\ UNCHANGED check
     ELSE /\ check' = [check EXCEPT ![c] =
                [stage |-> "asking", key |-> k, signed |-> value, at |-> clock]]
          /\ UNCHANGED verdict
  /\ UNCHANGED <<latest, from, until, keyCache>>

\* The registry answers with the record it has: its value, or 0.
Consult(c) ==
  /\ check[c].stage = "asking"
  /\ \E k \in KeyId :
       /\ k = check[c].key
       /\ check' = [check EXCEPT ![c] =
            [stage |-> "answered", key |-> k, signed |-> check[c].signed, at |-> check[c].at,
             found |-> IF Usable(k) THEN latest[k] ELSE 0]]
  /\ UNCHANGED <<latest, from, until, keyCache, verdict>>

\* Faulty: that there is no record is remembered too.
RememberAll(k, value) ==
  keyCache' = [keyCache EXCEPT ![k] = [value |-> value, expiresAt |-> clock + Ttl]]

\* A record is cached, that there is none is not.
Remember(k, value) ==
  keyCache' = IF value = 0 THEN keyCache
              ELSE [keyCache EXCEPT ![k] = [value |-> value, expiresAt |-> clock + Ttl]]

\* The answer is here.
Return(c) ==
  /\ check[c].stage = "answered"
  /\ Remember(check[c].key, check[c].found)
  /\ Decide(c, check[c].key, check[c].signed, Verified(check[c].signed, check[c].found))
  /\ check' = [check EXCEPT ![c] = Free]
  /\ UNCHANGED <<latest, from, until>>

\* RegistryUnavailableError: it cannot be reached, or not in time.
Unavailable(c) ==
  /\ check[c] # Free
  /\ Decide(c, check[c].key, check[c].signed, "503")
  /\ check' = [check EXCEPT ![c] = Free]
  /\ UNCHANGED <<latest, from, until, keyCache>>

\* The time-out of a lookup is due.
LookupDue == \E c \in Callback : check[c] # Free /\ clock = check[c].at + LookupTimeout

KeyStep ==
  \/ \E k \in KeyId : Register(k) \/ Withdraw(k)
  \/ \E c \in Callback : Consult(c) \/ Return(c) \/ Unavailable(c)

------------------------------------------------------------------------------
CheckType ==
  {Free}
  \cup [stage : {"asking"}, key : KeyId, signed : Value, at : Nat]
  \cup [stage : {"answered"}, key : KeyId, signed : Value, at : Nat, found : 0..MaxValue]

KeyTypeOK ==
  /\ latest \in [KeyId -> 0..MaxValue]
  /\ from \in [KeyId \X Value -> Nat \cup {None}]
  /\ until \in [KeyId \X Value -> Nat \cup {None}]
  /\ keyCache \in [KeyId -> [value : Value, expiresAt : Nat] \cup {None}]
  /\ check \in [Callback -> CheckType]
  /\ verdict \in [Callback ->
       [is : {"next", "401", "503"}, at : Nat, key : KeyId, signed : Value] \cup {None}]

\* How long our view of a key may be behind the registry: an entry lives Ttl
\* from the answer it comes from, which may itself have been LookupTimeout on
\* its way.
Lag == Ttl + LookupTimeout

\* registry.service.ts:9, "The contract allows caching": a signature made with
\* a key that has been replaced or withdrawn is accepted no longer than that,
\* however lookups that take their time overtake each other.
WithdrawnKeyDies ==
  \A c \in Callback : verdict[c] # None =>
    LET end == until[<<verdict[c].key, verdict[c].signed>>] IN
    verdict[c].is = "next" => end = None \/ verdict[c].at <= end + Lag

\* registry.service.ts:50, "Misses are not cached, so a newly registered key is
\* picked up immediately": the sender's key of the day is turned away only by a
\* lookup that was under way when it was registered, or for as long as the one
\* before it may be cached.
NewKeyIsHonoured ==
  \A c \in Callback : verdict[c] # None /\ verdict[c].is = "401" =>
    LET k == verdict[c].key
        n == verdict[c].signed
    IN
    \/ until[<<k, n>>] # None
    \/ verdict[c].at <= from[<<k, n>>] + LookupTimeout
    \/ n > 1 /\ verdict[c].at <= until[<<k, n - 1>>] + Lag
==============================================================================
