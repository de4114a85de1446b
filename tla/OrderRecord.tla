------------------------------ MODULE OrderRecord ------------------------------
(***************************************************************************)
(* One order after /confirm: services/{update,status,track,cancel}.        *)
(* service.ts, their repositories and controllers, and the outcome of      *)
(* utils/ondc-requests.ts.                                                 *)
(*                                                                         *)
(* The four calls have one shape and so share their actions; where they    *)
(* differ, the kind of the call decides.  A request is known by its kind   *)
(* and its message_id, which the client may choose, so that two calls can  *)
(* be the same request.  The callbacks are acknowledged before they are    *)
(* processed: one that fails is lost, and nothing of its ACK is seen here. *)
(* The LSP reports whatever state it was in when it wrote the callback;    *)
(* callbacks arrive in any order and any number of times.  Those the code  *)
(* refuses or takes for duplicates change nothing and are no steps.        *)
(***************************************************************************)
EXTENDS Naturals

CONSTANTS
  Call,         \* the client's calls
  Message,      \* the message_ids of these calls
  Push,         \* message_ids of /on_cancel callbacks nobody asked for
  Handler,      \* callback requests processed at the same time
  SerialClient, \* TRUE: no two calls that are one request in flight at once
  DbMayFail,    \* TRUE: a write may fail
  MaxCrashes,   \* bound: restarts of the process
  None

Kind == {"update", "status", "track", "cancel"}
State == {"Accepted", "Cancelled"}

\* What a callback says: the order's state (an /on_track: where the order is),
\* an error, or neither.
Content == State \cup {"error", "silent"}

ASSUME BooleanSwitches == SerialClient \in BOOLEAN /\ DbMayFail \in BOOLEAN
ASSUME NaturalCrashBound == MaxCrashes \in Nat
ASSUME CallsAreNoPushes == Call \cap Push = {}
ASSUME NoneIsNothing ==
  None \notin Call \cup Push \cup (Kind \X Message)
              \cup [kind : Kind, of : Call \cup Push \cup {None}, says : Content,
                    stage : {"matched", "committed"}]

VARIABLES
  ask,      \* the kind and the message_id of a call that has begun
  phase,    \* how far a call has come
  status,   \* of the row a call has written to ondc_transactions
  answer,   \* what the callback recorded on that row says
  audit,    \* the rows written for /on_cancel callbacks nobody asked for
  order,    \* the columns of logistics_order that are told apart
  received, \* the calls that have reached the LSP
  job,      \* the callbacks being processed
  told,     \* what the client has been told of the order
  broken,   \* the calls a status write failed for
  crashes

vars == <<ask, phase, status, answer, audit, order, received, job, told, broken,
          crashes>>

rowVars == <<status, answer, audit>>
callVars == <<ask, phase, broken>>

Init ==
  /\ ask = [c \in Call |-> None]
  /\ phase = [c \in Call |-> "idle"]
  /\ status = [c \in Call |-> "none"]
  /\ answer = [c \in Call |-> "none"]
  /\ audit = {}
  /\ order = [state |-> "Accepted", cancellation |-> "null", details |-> {},
              tracked |-> FALSE]
  /\ received = {}
  /\ job = [h \in Handler |-> None]
  /\ told = {}
  /\ broken = {}
  /\ crashes = 0

Rows == {c \in Call : status[c] # "none"}
RowsOf(k) == {c \in Rows : ask[c] = k}
KindOf(c) == ask[c][1]
Move(c, p) == phase' = [phase EXCEPT ![c] = p]
InFlight(c) == phase[c] \notin {"idle", "done"}

------------------------------------------------------------------------------
(* The four calls                                                          *)

\* Only /cancel looks at the state of the order.
AlreadyCancelled(k) == k[1] = "cancel" /\ order.state = "Cancelled"

\* create*: the order is loaded.
Load(c, k) ==
  /\ phase[c] = "idle"
  /\ SerialClient => \A d \in Call : InFlight(d) => ask[d] # k
  /\ ask' = [ask EXCEPT ![c] = k]
  /\ Move(c, IF AlreadyCancelled(k) THEN "done" ELSE "loaded")
  /\ UNCHANGED <<rowVars, order, received, job, told, broken, crashes>>

\* Faulty: no look for an earlier row.
AlwaysNew(c) ==
  /\ phase[c] = "loaded"
  /\ Move(c, "free")
  /\ UNCHANGED <<ask, rowVars, order, received, job, told, broken, crashes>>

\* create(), the look for a row of the same request: one that is there makes
\* the call a retry, answered without sending.
Find(c) ==
  /\ phase[c] = "loaded"
  /\ Move(c, IF RowsOf(ask[c]) = {} THEN "free" ELSE "done")
  /\ UNCHANGED <<ask, rowVars, order, received, job, told, broken, crashes>>

\* Of the instructions, the authorizations, the linked order and the
\* ready_to_ship tag only the calls they were written by are told apart; a
\* write of some of them replaces what some of these calls have left.
Overwritten(o) == {[o EXCEPT !.details = kept] : kept \in SUBSET o.details}

\* applyUpdate: what is about to be sent is written to the order.
Applied(c) ==
  IF KindOf(c) = "update"
  THEN {[o EXCEPT !.details = @ \cup {c}] : o \in Overwritten(order)}
  ELSE {order}

\* Faulty: the effect of an /update without its row.
InsertEffectOnly(c) ==
  /\ phase[c] = "free"
  /\ order' \in Applied(c)
  /\ Move(c, "sending")
  /\ UNCHANGED <<ask, rowVars, received, job, told, broken, crashes>>

\* create(), the insert; for /update in one transaction with applyUpdate.
Insert(c) ==
  /\ phase[c] = "free"
  /\ status' = [status EXCEPT ![c] = "pending"]
  /\ order' \in Applied(c)
  /\ Move(c, "sending")
  /\ UNCHANGED <<ask, answer, audit, received, job, told, broken, crashes>>

InsertFails(c) ==
  /\ DbMayFail
  /\ phase[c] = "free"
  /\ Move(c, "done")
  /\ UNCHANGED <<ask, rowVars, order, received, job, told, broken, crashes>>

------------------------------------------------------------------------------
(* The transport                                                           *)

\* One of the attempts reaches the LSP, perhaps after we gave up on it.
Reach(c) ==
  /\ c \in Rows \ received
  /\ received' = received \cup {c}
  /\ UNCHANGED <<callVars, rowVars, order, job, told, crashes>>

\* sendOndcRequest returns, or throws: a NACK, or no answer in time.
SendOk(c) ==
  /\ phase[c] = "sending"
  /\ c \in received
  /\ Move(c, "acked")
  /\ UNCHANGED <<ask, rowVars, order, received, job, told, broken, crashes>>

SendFails(c) ==
  /\ phase[c] = "sending"
  /\ Move(c, "refused")
  /\ UNCHANGED <<ask, rowVars, order, received, job, told, broken, crashes>>

\* updateStatus: every row of the request, whatever it says by now; for
\* /cancel in one transaction with the cancellation_status of the order.
UpdateStatus(c, s) ==
  /\ status' = [d \in Call |-> IF d \in RowsOf(ask[c]) THEN s ELSE status[d]]
  /\ order' = IF KindOf(c) = "cancel"
              THEN [order EXCEPT !.cancellation = IF s = "sent" THEN "pending" ELSE "failed"]
              ELSE order

MarkSent(c) ==
  /\ phase[c] = "acked"
  /\ UpdateStatus(c, "sent")
  /\ Move(c, "done")
  /\ UNCHANGED <<ask, answer, audit, received, job, told, broken, crashes>>

\* The write of "sent" is inside the try block.
MarkSentFails(c) ==
  /\ DbMayFail
  /\ phase[c] = "acked"
  /\ Move(c, "refused")
  /\ UNCHANGED <<ask, rowVars, order, received, job, told, broken, crashes>>

\* Faulty: the error is rethrown without being recorded.
MarkFailedUnrecorded(c) ==
  /\ phase[c] = "refused"
  /\ Move(c, "done")
  /\ UNCHANGED <<ask, rowVars, order, received, job, told, broken, crashes>>

MarkFailed(c) ==
  /\ phase[c] = "refused"
  /\ UpdateStatus(c, "failed")
  /\ Move(c, "done")
  /\ UNCHANGED <<ask, answer, audit, received, job, told, broken, crashes>>

MarkFailedFails(c) ==
  /\ DbMayFail
  /\ phase[c] = "refused"
  /\ broken' = broken \cup {c}
  /\ Move(c, "done")
  /\ UNCHANGED <<ask, rowVars, order, received, job, told, crashes>>

------------------------------------------------------------------------------
(* The callbacks                                                           *)

Start(h, j) ==
  /\ job[h] = None
  /\ job' = [job EXCEPT ![h] = j]
  /\ UNCHANGED <<callVars, rowVars, order, received, told, crashes>>

Job(kind, of, says) ==
  [kind |-> kind, of |-> of, says |-> says, stage |-> "matched"]

\* /on_update, /on_track and the solicited /on_cancel echo the message_id of
\* the call c: one of its rows, any of them, not answered yet.
OnAnswer(h, c, says) ==
  /\ c \in received
  /\ KindOf(c) # "status"
  /\ \E d \in RowsOf(ask[c]) :
       /\ answer[d] = "none"
       /\ Start(h, Job(KindOf(c), d, says))

\* /on_status is looked up by the order and taken whenever it comes.
OnStatus(h, says) == Start(h, Job("status", None, says))

\* An /on_cancel of the LSP's own: known only by the row an earlier delivery
\* has written.
OnCancelPush(h, p, says) ==
  /\ \A r \in audit : r[1] # p
  /\ Start(h, Job("cancel", p, says))

\* Faulty: the row takes over the state of the order.
OutcomeAsState(says) == IF says = "error" THEN "failed" ELSE says

Outcome(says) == IF says = "error" THEN "failed" ELSE "completed"

\* What order_state and the error columns of a row keep of it, as far as it
\* is told apart.
Noted(says) == IF says \in {"Cancelled", "error"} THEN says ELSE "other"
Matched(h, kind) == job[h] # None /\ job[h].kind = kind /\ job[h].stage = "matched"
Committed(h) == job' = [job EXCEPT ![h].stage = "committed"]
Reported(says) == IF says \in State THEN [order EXCEPT !.state = says] ELSE order

\* /on_update: the state, if it says one, and the row by its id.
CommitOnUpdate(h) ==
  /\ Matched(h, "update")
  /\ order' = Reported(job[h].says)
  /\ status' = [status EXCEPT ![job[h].of] = Outcome(job[h].says)]
  /\ answer' = [answer EXCEPT ![job[h].of] = Noted(job[h].says)]
  /\ Committed(h)
  /\ UNCHANGED <<callVars, audit, received, told, crashes>>

\* Faulty: a column the callback does not carry is cleared.
CommitOnStatusClears(h) ==
  /\ Matched(h, "status")
  /\ order' = [Reported(job[h].says) EXCEPT !.cancellation = "null", !.details = {}]
  /\ Committed(h)
  /\ UNCHANGED <<callVars, rowVars, received, told, crashes>>

\* /on_status: the columns it carries and all tags, and with them what an
\* /update has left there; then every row of a /status that says "sent".
CommitOnStatus(h) ==
  /\ Matched(h, "status")
  /\ order' \in IF job[h].says = "error" THEN {order} ELSE Overwritten(Reported(job[h].says))
  /\ LET open == {c \in Rows : KindOf(c) = "status" /\ status[c] = "sent"}
     IN /\ status' = [c \in Call |-> IF c \in open THEN Outcome(job[h].says) ELSE status[c]]
        /\ answer' = [c \in Call |-> IF c \in open THEN Noted(job[h].says) ELSE answer[c]]
  /\ Committed(h)
  /\ UNCHANGED <<callVars, audit, received, told, crashes>>

\* /on_track: the tracking columns, if it has any, and the row by its id.
CommitOnTrack(h) ==
  /\ Matched(h, "track")
  /\ order' = IF job[h].says \in State THEN [order EXCEPT !.tracked = TRUE] ELSE order
  /\ status' = [status EXCEPT ![job[h].of] = Outcome(job[h].says)]
  /\ answer' = [answer EXCEPT ![job[h].of] = Noted(job[h].says)]
  /\ Committed(h)
  /\ UNCHANGED <<callVars, audit, received, told, crashes>>

\* What an /on_cancel does to the order: only the state Cancelled confirms,
\* and brings columns and tags with it.
CancelOrder(says) ==
  CASE says = "error"     -> {[order EXCEPT !.cancellation = "failed"]}
    [] says = "Cancelled" -> Overwritten([order EXCEPT !.state = says,
                                                       !.cancellation = "succeeded"])
    [] OTHER              -> {order}

\* /on_cancel: the rows of the request, or a row of its own, and the order.
CommitOnCancel(h) ==
  /\ Matched(h, "cancel")
  /\ order' \in CancelOrder(job[h].says)
  /\ IF job[h].of \in Push
     THEN /\ audit' = audit \cup {<<job[h].of, Noted(job[h].says)>>}
          /\ UNCHANGED <<status, answer>>
     ELSE LET rows == RowsOf(ask[job[h].of])
          IN /\ status' = [c \in Call |-> IF c \in rows THEN Outcome(job[h].says) ELSE status[c]]
             /\ answer' = [c \in Call |-> IF c \in rows THEN Noted(job[h].says) ELSE answer[c]]
             /\ UNCHANGED audit
  /\ Committed(h)
  /\ UNCHANGED <<callVars, received, told, crashes>>

\* The transaction fails: it leaves nothing behind, and the callback, whose
\* ACK is out, is lost.
CommitFails(h) ==
  /\ DbMayFail
  /\ job[h] # None
  /\ job[h].stage = "matched"
  /\ job' = [job EXCEPT ![h] = None]
  /\ UNCHANGED <<callVars, rowVars, order, received, told, crashes>>

\* The events told apart: that of a confirmed cancellation and that of a
\* position.
News(j) ==
  CASE j.kind = "cancel" /\ j.says = "Cancelled" -> {"order_cancelled"}
    [] j.kind = "track" /\ j.says \in State     -> {"order_tracking"}
    [] OTHER                                     -> {}

\* Faulty: the client is told while the transaction is still open.
PublishEarly(h) ==
  /\ job[h] # None
  /\ told' = told \cup News(job[h])
  /\ job' = [job EXCEPT ![h] = None]
  /\ UNCHANGED <<callVars, rowVars, order, received, crashes>>

\* The commit has returned: the client is told.
Publish(h) ==
  /\ job[h] # None
  /\ job[h].stage = "committed"
  /\ told' = told \cup News(job[h])
  /\ job' = [job EXCEPT ![h] = None]
  /\ UNCHANGED <<callVars, rowVars, order, received, crashes>>

------------------------------------------------------------------------------
\* The process restarts: calls and callbacks in progress are gone.
Crash ==
  /\ crashes < MaxCrashes
  /\ crashes' = crashes + 1
  /\ phase' = [c \in Call |-> IF phase[c] = "idle" THEN "idle" ELSE "done"]
  /\ job' = [h \in Handler |-> None]
  /\ UNCHANGED <<ask, rowVars, order, received, told, broken>>

CallStep(c) ==
  \/ \E k \in Kind \X Message : Load(c, k)
  \/ Find(c)
  \/ Insert(c)
  \/ InsertFails(c)
  \/ Reach(c)
  \/ SendOk(c)
  \/ SendFails(c)
  \/ MarkSent(c)
  \/ MarkSentFails(c)
  \/ MarkFailed(c)
  \/ MarkFailedFails(c)

CallbackStep(h) ==
  \/ \E c \in Call, says \in Content : OnAnswer(h, c, says)
  \/ \E says \in Content : OnStatus(h, says)
  \/ \E p \in Push, says \in Content : OnCancelPush(h, p, says)
  \/ CommitOnUpdate(h)
  \/ CommitOnStatus(h)
  \/ CommitOnTrack(h)
  \/ CommitOnCancel(h)
  \/ CommitFails(h)
  \/ Publish(h)

Next ==
  \/ \E c \in Call : CallStep(c)
  \/ \E h \in Handler : CallbackStep(h)
  \/ Crash

\* A call under way goes on: the runtime runs every continuation, and a send
\* ends by answer or by time-out.
Fairness ==
  \A c \in Call :
    WF_vars(SendOk(c) \/ SendFails(c) \/ MarkSent(c) \/ MarkFailed(c) \/ MarkFailedFails(c))

Spec == Init /\ [][Next]_vars
FairSpec == Spec /\ Fairness

------------------------------------------------------------------------------
JobType == [kind : Kind, of : Call \cup Push \cup {None}, says : Content,
            stage : {"matched", "committed"}]

Note == {"Cancelled", "error", "other"}

TypeOK ==
  /\ ask \in [Call -> (Kind \X Message) \cup {None}]
  /\ phase \in [Call -> {"idle", "loaded", "free", "sending", "acked", "refused", "done"}]
  /\ status \in [Call -> {"none", "pending", "sent", "completed", "failed"}]
  /\ answer \in [Call -> Note \cup {"none"}]
  /\ audit \subseteq Push \X Note
  /\ order \in [state : State, cancellation : {"null", "pending", "failed", "succeeded"},
                details : SUBSET Call, tracked : BOOLEAN]
  /\ received \subseteq Call
  /\ job \in [Handler -> JobType \cup {None}]
  /\ told \subseteq {"order_cancelled", "order_tracking"}
  /\ broken \subseteq Call
  /\ crashes \in 0..MaxCrashes

\* The /on_cancel contents on record, on rows of our calls or rows of their own.
CancelAnswers ==
  {answer[c] : c \in {d \in Rows : KindOf(d) = "cancel" /\ answer[d] # "none"}}
  \cup {r[2] : r \in audit}

\* The order and the protocol log are written together, by eight code paths
\* in any interleaving, with failing writes and restarts: what the order
\* owes to a cancellation, a position or an /update is on record in
\* ondc_transactions, and a recorded cancellation or refusal shows on the
\* order.
OrderAndRowsAgree ==
  /\ order.cancellation = "succeeded" => CancelAnswers # {}
  /\ CancelAnswers \cap {"Cancelled", "error"} # {} => order.cancellation # "null"
  /\ order.tracked => \E c \in Rows : KindOf(c) = "track" /\ answer[c] # "none"
  /\ order.details \subseteq {c \in Rows : KindOf(c) = "update"}

\* conventions, "never publish before the durable write": the client is told
\* of a cancellation or a position only when it is on record.
ToldIsOnRecord ==
  /\ "order_cancelled" \in told => CancelAnswers # {} /\ order.cancellation # "null"
  /\ "order_tracking" \in told => order.tracked

\* docs/api/update.md, notes: a retry with the same message_id "is safe and
\* will not double-send".  So it is for a client that waits for one attempt
\* before it makes the next, across failures and restarts: a request has one
\* row, and the LSP gets it from one call only.
OneRowPerRequest ==
  \A c, d \in Rows : ask[c] = ask[d] => c = d

\* Unless the process dies or the database fails, a call that was recorded
\* comes to an end and leaves "pending" behind, also when its callback
\* overtakes the answer of the transport.
EveryCallSettles ==
  \A c \in Call :
    phase[c] = "sending" ~>
      \/ phase[c] = "done" /\ status[c] # "pending"
      \/ c \in broken \/ crashes > 0

\* The promise of OrderLedger.
OL == INSTANCE OrderLedger WITH
        Key <- Kind \X Message,
        CancelKey <- {"cancel"} \X Message,
        asked <- {ask[c] : c \in Rows},
        sent <- {ask[c] : c \in received},
        heard <- CancelAnswers # {},
        cancellation <- order.cancellation

ImplementsOrderLedger == OL!OlSpec
==============================================================================
