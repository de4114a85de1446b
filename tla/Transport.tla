------------------------------- MODULE Transport -------------------------------
(***************************************************************************)
(* utils/ondc-requests.ts: sendOndcRequest, its attempts, their time-outs  *)
(* and the pauses between them, against a counterparty that may get an     *)
(* attempt late or never, and answer as it likes.  Requests have nothing   *)
(* to do with each other; the clock runs from the moment they are sent.    *)
(*                                                                         *)
(* A copy is what an attempt puts on the network: the request and its      *)
(* context.timestamp.  (AckTimeout is not zero, which axios takes for      *)
(* none.)                                                                  *)
(***************************************************************************)
EXTENDS Timers

CONSTANTS
  Request,
  Confirm,     \* the requests for which NACK 66001 is retriable: /confirm
  Retries,     \* ONDC_ACK_RETRIES
  AckTimeout,  \* ONDC_ACK_TIMEOUT_MS
  Backoff      \* RETRY_BACKOFF_MS

ASSUME ConfirmAssumption == Confirm \subseteq Request
ASSUME DurationsAssumption ==
  Retries \in Nat /\ AckTimeout \in Nat \ {0} /\ Backoff \in Nat \ {0}

VARIABLES
  stage,     \* of the call of sendOndcRequest for a request
  attempt,   \* the number of the attempt made last
  since,     \* when it, or the pause after it, began
  copies,    \* the attempts on the network, by request and number: the timestamp
  reply,     \* what the counterparty said to a copy, or "none"
  outcome    \* how the call ended

sendVars == <<stage, attempt, since, copies, reply, outcome>>

Attempts == 1 + Retries
Copy == Request \X (1..Attempts)
Answer == {"ACK", "NACK", "66001", "other"}

\* The first attempt is on its way, with the timestamp of the payload, unless
\* signing it has thrown.
SendInit ==
  \E signed \in SUBSET Request :
    /\ stage = [r \in Request |-> IF r \in signed THEN "waiting" ELSE "ended"]
    /\ attempt = [r \in Request |-> IF r \in signed THEN 1 ELSE 0]
    /\ since = [r \in Request |-> 0]
    /\ copies = [k \in Copy |-> IF k[1] \in signed /\ k[2] = 1 THEN 0 ELSE None]
    /\ reply = [k \in Copy |-> "none"]
    /\ outcome = [r \in Request |-> IF r \in signed THEN "none" ELSE "failed"]

\* Faulty: every attempt has the timestamp of the first.
SameStamp(r) == copies[<<r, 1>>]

\* withFreshTimestamp.
Stamp(r) == clock

\* attemptOnce: another copy is on its way.
Post(r, n) ==
  /\ stage' = [stage EXCEPT ![r] = "waiting"]
  /\ attempt' = [attempt EXCEPT ![r] = n]
  /\ since' = [since EXCEPT ![r] = clock]
  /\ copies' = [copies EXCEPT ![<<r, n>>] = Stamp(r)]
  /\ UNCHANGED <<reply, outcome>>

\* The counterparty gets a copy, in time or not, and answers.
Receive(r, n, says) ==
  /\ copies[<<r, n>>] # None
  /\ reply[<<r, n>>] = "none"
  /\ reply' = [reply EXCEPT ![<<r, n>>] = says]
  /\ UNCHANGED <<stage, attempt, since, copies, outcome>>

End(r, how) ==
  /\ stage' = [stage EXCEPT ![r] = "ended"]
  /\ outcome' = [outcome EXCEPT ![r] = how]
  /\ UNCHANGED <<attempt, since, copies, reply>>

\* The next attempt, which ends the call if signing it throws.
Attempt(r) == Post(r, attempt[r] + 1) \/ End(r, "failed")

Pause(r) ==
  /\ stage' = [stage EXCEPT ![r] = "pausing"]
  /\ since' = [since EXCEPT ![r] = clock]
  /\ UNCHANGED <<attempt, copies, reply, outcome>>

\* Another attempt is allowed.
Again(r) == attempt[r] < Attempts

Retriable(r, says) == says = "66001" /\ r \in Confirm

\* The answer to the attempt that is waited for; those before it were aborted.
Heard(r, says) == reply[<<r, attempt[r]>>] = says

GetAck(r) ==
  /\ stage[r] = "waiting"
  /\ Heard(r, "ACK")
  /\ End(r, "acked")

\* nackOutcome.
GetNack(r) ==
  /\ stage[r] = "waiting"
  /\ \E says \in {"NACK", "66001"} :
       /\ Heard(r, says)
       /\ IF Retriable(r, says) /\ Again(r) THEN Pause(r) ELSE End(r, "nacked")

\* 503, 504 or no response: a connection that is refused or breaks, also after
\* the counterparty has said something.
GetNothing(r) ==
  /\ stage[r] = "waiting"
  /\ IF Again(r) THEN Pause(r) ELSE End(r, "gave up")

\* Any other answer is thrown as it is.
GetOther(r) ==
  /\ stage[r] = "waiting"
  /\ Heard(r, "other")
  /\ End(r, "failed")

\* No answer within AckTimeout, or the connection itself times out before that:
\* the next attempt follows at once.
TimeOut(r) ==
  /\ stage[r] = "waiting"
  /\ IF Again(r) THEN Attempt(r) ELSE End(r, "gave up")

\* Faulty: an attempt after a pause is not counted.
ResendUncounted(r) ==
  /\ stage[r] = "pausing"
  /\ clock = since[r] + Backoff
  /\ Post(r, attempt[r])

\* The pause is over.
Resend(r) ==
  /\ stage[r] = "pausing"
  /\ clock = since[r] + Backoff
  /\ Attempt(r)

\* A timer of the call is due.
SendDue ==
  \E r \in Request :
    \/ stage[r] = "waiting" /\ clock = since[r] + AckTimeout
    \/ stage[r] = "pausing" /\ clock = since[r] + Backoff

SendStep ==
  \E r \in Request :
    \/ \E n \in 1..Attempts, says \in Answer : Receive(r, n, says)
    \/ GetAck(r)
    \/ GetNack(r)
    \/ GetNothing(r)
    \/ GetOther(r)
    \/ TimeOut(r)
    \/ Resend(r)

------------------------------------------------------------------------------
SendTypeOK ==
  /\ stage \in [Request -> {"waiting", "pausing", "ended"}]
  /\ attempt \in [Request -> 0..Attempts]
  /\ since \in [Request -> Nat]
  /\ copies \in [Copy -> Nat \cup {None}]
  /\ reply \in [Copy -> Answer \cup {"none"}]
  /\ outcome \in [Request -> {"none", "acked", "nacked", "gave up", "failed"}]

\* ondc-requests.ts:66, "with a fresh context.timestamp", 186, "so the retry
\* is not treated as stale": an attempt is stamped later than the one before,
\* by the whole pause if that one was answered or its connection broke, and by
\* as long as it was waited for if it timed out.
StampsGrow ==
  [][\A r \in Request : attempt'[r] # attempt[r] =>
       copies'[<<r, attempt'[r]>>] >=
         copies[<<r, attempt[r]>>]
         + (IF stage[r] = "pausing" THEN Backoff ELSE clock - since[r])]_<<clock, sendVars>>

\* How long a client waits at most: all attempts and the pauses between them.
LongestSend == Attempts * AckTimeout + Retries * Backoff

SendIsBounded ==
  \A r \in Request :
    stage[r] \in {"waiting", "pausing"} => clock <= LongestSend
==============================================================================
