------------------------------- MODULE Booking -------------------------------
(***************************************************************************)
(* From /init to a confirmed order: services/{init,confirm}.service.ts,    *)
(* repositories/{init,confirm}.repository.ts, the controllers in front of  *)
(* them and the outcome of utils/ondc-requests.ts.                         *)
(*                                                                         *)
(* Client calls and callbacks interleave at every await; only what the     *)
(* code wraps in database.transaction is one step.  The rows are the ones  *)
(* of ondc_transactions, init_orders and logistics_order that carry the    *)
(* control; order content is identified by the /init it was made from and  *)
(* by the quote the LSP gave.  A request stands for its message_id, which  *)
(* is a fresh uuid for both actions.  A callback the code refuses or       *)
(* recognises as a duplicate changes no state and is not a step.           *)
(***************************************************************************)
EXTENDS Naturals

CONSTANTS
  Txn,          \* transaction ids, each with a processed /on_search
  InitReq,      \* the /init calls, by message_id
  ConfirmReq,   \* the /confirm calls, by message_id
  LspMsg,       \* message_ids an LSP makes up instead of echoing ours
  OrderId,      \* what generateOrderId can return
  Bpp,          \* the LSPs of the catalogs found
  Version,      \* the quotes an LSP can give for one /init
  Handler,      \* callback requests processed at the same time
  SerialClient, \* TRUE: no two /confirm of a transaction in flight at once
  DbMayFail,    \* TRUE: a status write may fail
  MaxCrashes,   \* bound: restarts of the process
  None

ASSUME DisjointRequests == InitReq \cap ConfirmReq = {}
ASSUME SwitchesAreBoolean == SerialClient \in BOOLEAN /\ DbMayFail \in BOOLEAN
ASSUME MaxCrashesIsNatural == MaxCrashes \in Nat
ASSUME NoneIsNoValue == None \notin Txn \cup InitReq \cup ConfirmReq \cup LspMsg
                                    \cup OrderId \cup Bpp

Request == InitReq \cup ConfirmReq

VARIABLES
  initRow,   \* the init rows of ondc_transactions with their snapshots
  confRow,   \* the confirm rows of ondc_transactions
  order,     \* the rows of logistics_order
  phase,     \* how far a client call has come
  load,      \* what a /confirm call has read so far
  received,  \* the requests that have reached their LSP
  job,       \* the callbacks being processed
  shown,     \* result or error events the client has been sent for a row,
             \* counted up to two
  bound,     \* the transactions the client stream has a client for
  crashes

vars == <<initRow, confRow, order, phase, load, received, job, shown, bound,
          crashes>>

NoInitRow == [status |-> "none", txn |-> None, bpp |-> None,
              answered |-> FALSE, onInit |-> None]
NoConfRow == [status |-> "none", txn |-> None, bpp |-> None, order |-> None,
              src |-> None, terms |-> None, answer |-> None]
NoLoad == [init |-> None, status |-> "none", terms |-> None, order |-> None]

Init ==
  /\ initRow = [i \in InitReq |-> NoInitRow]
  /\ confRow = [c \in ConfirmReq |-> NoConfRow]
  /\ order = [o \in OrderId |-> None]
  /\ phase = [r \in Request |-> "idle"]
  /\ load = [c \in ConfirmReq |-> NoLoad]
  /\ received = {}
  /\ job = [h \in Handler |-> None]
  /\ shown = [r \in Request |-> 0]
  /\ bound = Txn
  /\ crashes = 0

InitRows == {i \in InitReq : initRow[i].status # "none"}
InitsOf(t) == {i \in InitRows : initRow[i].txn = t}
ConfirmRows == {c \in ConfirmReq : confRow[c].status # "none"}
OrdersOf(t) == {o \in OrderId : order[o] # None /\ order[o].txn = t}
TxnOf(r) == IF r \in InitReq THEN initRow[r].txn ELSE confRow[r].txn
Move(r, p) == phase' = [phase EXCEPT ![r] = p]

------------------------------------------------------------------------------
(* /init                                                                   *)

\* createInit up to the send: the selection made from the stored catalog
\* gives the transaction and the LSP; the row is inserted as pending with
\* the snapshot of what is about to be sent, in one transaction.
CreateInit(i, t, b) ==
  /\ phase[i] = "idle"
  /\ initRow' = [initRow EXCEPT ![i] =
       [NoInitRow EXCEPT !.status = "pending", !.txn = t, !.bpp = b]]
  /\ Move(i, "sending")
  /\ UNCHANGED <<confRow, order, load, received, job, shown, bound, crashes>>

------------------------------------------------------------------------------
(* /confirm                                                                *)

InFlight(c) == phase[c] \notin {"idle", "done"}

\* loadInitialized, first query: an init row of the transaction.  There is
\* no ORDER BY, so it may be any of them.
ReadInit(c, i) ==
  /\ phase[c] = "idle"
  /\ i \in InitRows
  /\ SerialClient => \A d \in ConfirmReq :
       InFlight(d) => initRow[load[d].init].txn # initRow[i].txn
  /\ load' = [load EXCEPT ![c] = [init |-> i, status |-> initRow[i].status,
                                  terms |-> None, order |-> None]]
  /\ Move(c, "read")
  /\ UNCHANGED <<initRow, confRow, order, received, job, shown, bound, crashes>>

\* fetchInitOrderSnapshot, first query: the rows of the snapshots.  That of the
\* /init is there with the init row and is never replaced.
ReadSnapshots(c) ==
  /\ phase[c] = "read"
  /\ load' = [load EXCEPT ![c].terms = initRow[load[c].init].onInit]
  /\ Move(c, "found")
  /\ UNCHANGED <<initRow, confRow, order, received, job, shown, bound, crashes>>

\* What of a snapshot may have been read when its last query is over: all of it,
\* or, if its row has been replaced since it was read, perhaps no children.
Fetched(read, stored) ==
  {[read EXCEPT !.whole = whole] : whole \in IF stored.by = read.by THEN {TRUE} ELSE BOOLEAN}

\* Faulty: the snapshots are taken for granted.
ReadChildrenUnchecked(c) ==
  /\ phase[c] = "found"
  /\ Move(c, "quoted")
  /\ UNCHANGED <<initRow, confRow, order, load, received, job, shown, bound, crashes>>

\* The queries for their children, of which the last one matters, and the test
\* after them.  The status tested is the one read with the init row.
ReadChildren(c) ==
  LET usable == load[c].status = "completed" /\ load[c].terms # None
  IN /\ phase[c] = "found"
     /\ IF usable
        THEN /\ \E terms \in Fetched(load[c].terms, initRow[load[c].init].onInit) :
                  load' = [load EXCEPT ![c].terms = terms]
             /\ Move(c, "quoted")
        ELSE UNCHANGED load /\ Move(c, "done")
     /\ UNCHANGED <<initRow, confRow, order, received, job, shown, bound, crashes>>

\* An order id nobody has: generateOrderId draws eight random hex digits.
Fresh(o) ==
  /\ order[o] = None
  /\ \A d \in ConfirmReq : load[d].order # o

\* Faulty: every attempt mints an id.
AlwaysFresh(t) == {o \in OrderId : Fresh(o)}

\* The order ids a /confirm may go on with: the one of the transaction's
\* order, or a fresh one if it has none.
OrderIdsFor(t) ==
  IF OrdersOf(t) # {} THEN OrdersOf(t) ELSE {o \in OrderId : Fresh(o)}

\* The query for the order of the transaction, and the order id.
ReadOrder(c) ==
  /\ phase[c] = "quoted"
  /\ \E o \in OrderIdsFor(initRow[load[c].init].txn) :
       load' = [load EXCEPT ![c].order = o]
  /\ Move(c, "ready")
  /\ UNCHANGED <<initRow, confRow, order, received, job, shown, bound, crashes>>

\* The payload built from it does not validate: 409, nothing is stored.
RejectConfirm(c) ==
  /\ phase[c] = "ready"
  /\ Move(c, "done")
  /\ UNCHANGED <<initRow, confRow, order, load, received, job, shown, bound,
                 crashes>>

\* Faulty: the order is left to the callback.
CreateConfirmWithoutOrder(c) ==
  LET i == load[c].init
  IN /\ phase[c] = "ready"
     /\ confRow' = [confRow EXCEPT ![c] =
          [status |-> "pending", txn |-> initRow[i].txn, bpp |-> initRow[i].bpp,
           order |-> load[c].order, src |-> i, terms |-> load[c].terms,
           answer |-> None]]
     /\ Move(c, "sending")
     /\ UNCHANGED <<initRow, order, load, received, job, shown, bound, crashes>>

\* create: one transaction inserts the confirm row and upserts the order.
CreateConfirm(c) ==
  LET i == load[c].init
  IN /\ phase[c] = "ready"
     /\ confRow' = [confRow EXCEPT ![c] =
          [status |-> "pending", txn |-> initRow[i].txn, bpp |-> initRow[i].bpp,
           order |-> load[c].order, src |-> i, terms |-> load[c].terms,
           answer |-> None]]
     /\ order' = [order EXCEPT ![load[c].order] =
          [txn |-> initRow[i].txn, bpp |-> initRow[i].bpp, src |-> i,
           terms |-> load[c].terms, state |-> "Created"]]
     /\ Move(c, "sending")
     /\ UNCHANGED <<initRow, load, received, job, shown, bound, crashes>>

------------------------------------------------------------------------------
(* The transport, the same for both                                        *)

Sent(r) == IF r \in InitReq THEN r \in InitRows ELSE r \in ConfirmRows

\* One of the attempts reaches the LSP, perhaps after we gave up on it.
Reach(r) ==
  /\ Sent(r)
  /\ r \notin received
  /\ received' = received \cup {r}
  /\ UNCHANGED <<initRow, confRow, order, phase, load, job, shown, bound, crashes>>

\* sendOndcRequest returns: the LSP acknowledged an attempt.
SendOk(r) ==
  /\ phase[r] = "sending"
  /\ r \in received
  /\ Move(r, "acked")
  /\ UNCHANGED <<initRow, confRow, order, load, received, job, shown, bound,
                 crashes>>

\* It throws: a NACK, no answer to any attempt, or another failure.
SendFails(r) ==
  /\ phase[r] = "sending"
  /\ Move(r, "refused")
  /\ UNCHANGED <<initRow, confRow, order, load, received, job, shown, bound,
                 crashes>>

\* updateStatus: every row of the action in the transaction, whatever its
\* status is by now.
UpdateStatus(r, s) ==
  IF r \in InitReq
  THEN /\ initRow' = [i \in InitReq |->
            IF i \in InitsOf(initRow[r].txn)
            THEN [initRow[i] EXCEPT !.status = s] ELSE initRow[i]]
       /\ UNCHANGED confRow
  ELSE /\ confRow' = [c \in ConfirmReq |->
            IF c \in ConfirmRows /\ confRow[c].txn = confRow[r].txn
            THEN [confRow[c] EXCEPT !.status = s] ELSE confRow[c]]
       /\ UNCHANGED initRow

MarkSent(r) ==
  /\ phase[r] = "acked"
  /\ UpdateStatus(r, "sent")
  /\ Move(r, "done")
  /\ UNCHANGED <<order, load, received, job, shown, bound, crashes>>

\* The write of "sent" is inside the try block.
MarkSentFails(r) ==
  /\ DbMayFail
  /\ phase[r] = "acked"
  /\ Move(r, "refused")
  /\ UNCHANGED <<initRow, confRow, order, load, received, job, shown, bound,
                 crashes>>

\* Faulty: the error is rethrown without being recorded.
MarkFailedUnrecorded(r) ==
  /\ phase[r] = "refused"
  /\ Move(r, "done")
  /\ UNCHANGED <<initRow, confRow, order, load, received, job, shown, bound,
                 crashes>>

MarkFailed(r) ==
  /\ phase[r] = "refused"
  /\ UpdateStatus(r, "failed")
  /\ Move(r, "done")
  /\ UNCHANGED <<order, load, received, job, shown, bound, crashes>>

MarkFailedFails(r) ==
  /\ DbMayFail
  /\ phase[r] = "refused"
  /\ Move(r, "done")
  /\ UNCHANGED <<initRow, confRow, order, load, received, job, shown, bound,
                 crashes>>

------------------------------------------------------------------------------
(* /on_init and /on_confirm                                                *)

Idle(h) == job[h] = None

\* The quotes of an /on_init from b: at least one unless it carries an error,
\* and an error does not keep the order from being there.  The callback that
\* stores a snapshot stands for the key of its row, as it stores one at most.
OnInitContent(h, b, error) ==
  {[bpp |-> b, version |-> v, by |-> h, whole |-> TRUE] : v \in Version}
  \cup (IF error THEN {None} ELSE {})

\* Faulty: no look at the message_id of the answer already stored.
OnInitAgain(h, i, b, error) ==
  /\ Idle(h)
  /\ i \in received
  /\ initRow[i].bpp = b
  /\ \E q \in OnInitContent(h, b, error) :
       job' = [job EXCEPT ![h] = [action |-> "init", row |-> i, error |-> error,
                                  quote |-> q, stage |-> "matched"]]
  /\ UNCHANGED <<initRow, confRow, order, phase, load, received, shown, bound,
                 crashes>>

\* handleCallback up to its transaction: the row by transaction, action and
\* message_id, not another LSP's, not answered with this message_id yet.
OnInit(h, i, b, error) ==
  /\ Idle(h)
  /\ i \in received
  /\ initRow[i].bpp = b
  /\ ~initRow[i].answered
  /\ \E q \in OnInitContent(h, b, error) :
       job' = [job EXCEPT ![h] = [action |-> "init", row |-> i, error |-> error,
                                  quote |-> q, stage |-> "matched"]]
  /\ UNCHANGED <<initRow, confRow, order, phase, load, received, shown, bound,
                 crashes>>

\* The row an /on_confirm is applied to: one of the transaction's, and of the
\* order's if the callback names it; any of them, there is no ORDER BY.
ConfirmMatches(m, named) ==
  {c \in ConfirmRows : /\ confRow[c].txn = confRow[m].txn
                       /\ named => confRow[c].order = confRow[m].order}

\* The LSP answers the /confirm m, under a message_id that need not echo it.
OnConfirm(h, m, msg, named, error) ==
  /\ Idle(h)
  /\ m \in received
  /\ named \/ error
  /\ \E c \in ConfirmMatches(m, named) :
       /\ confRow[c].answer # msg
       /\ confRow[c].bpp = confRow[m].bpp
       /\ job' = [job EXCEPT ![h] = [action |-> "confirm", row |-> c, of |-> m,
                                     msg |-> msg, error |-> error,
                                     stage |-> "matched"]]
  /\ UNCHANGED <<initRow, confRow, order, phase, load, received, shown, bound,
                 crashes>>

Outcome(error) == IF error THEN "failed" ELSE "completed"
Committed(h) == job' = [job EXCEPT ![h].stage = "committed"]

\* The transaction of /on_init: a snapshot whenever there is an order, and
\* the outcome on the row.
CommitOnInit(h) ==
  /\ ~Idle(h)
  /\ job[h].action = "init" /\ job[h].stage = "matched"
  /\ LET i == job[h].row
         quote == job[h].quote
     IN initRow' = [initRow EXCEPT
          ![i].status = Outcome(job[h].error),
          ![i].answered = TRUE,
          ![i].onInit = IF quote # None THEN quote ELSE @]
  /\ Committed(h)
  /\ UNCHANGED <<confRow, order, phase, load, received, shown, bound, crashes>>

\* The transaction of /on_confirm: the returned order replaces the stored
\* one unless the callback is an error, and the outcome goes on the row.
CommitOnConfirm(h) ==
  /\ ~Idle(h)
  /\ job[h].action = "confirm" /\ job[h].stage = "matched"
  /\ LET c == job[h].row
         m == job[h].of
         o == confRow[c].order
     IN /\ order' = IF job[h].error THEN order
                    ELSE [order EXCEPT ![o].bpp = confRow[m].bpp,
                                       ![o].src = confRow[m].src,
                                       ![o].terms = confRow[m].terms,
                                       ![o].state = "Accepted"]
        /\ confRow' = [confRow EXCEPT ![c].status = Outcome(job[h].error),
                                      ![c].answer = job[h].msg]
  /\ Committed(h)
  /\ UNCHANGED <<initRow, phase, load, received, shown, bound, crashes>>

Leave(h) == job' = [job EXCEPT ![h] = None]
CountUpToTwo(n) == IF n < 2 THEN n + 1 ELSE n

\* Faulty: the client is told while the transaction is still open.
AcknowledgeEarly(h) ==
  /\ ~Idle(h)
  /\ shown' = IF TxnOf(job[h].row) \in bound
              THEN [shown EXCEPT ![job[h].row] = CountUpToTwo(@)] ELSE shown
  /\ Leave(h)
  /\ UNCHANGED <<initRow, confRow, order, phase, load, received, bound, crashes>>

\* The ACK is out and the held event follows it, if the client stream has
\* anybody for the transaction.
Acknowledge(h) ==
  /\ ~Idle(h)
  /\ job[h].stage = "committed"
  /\ shown' = IF TxnOf(job[h].row) \in bound
              THEN [shown EXCEPT ![job[h].row] = CountUpToTwo(@)] ELSE shown
  /\ Leave(h)
  /\ UNCHANGED <<initRow, confRow, order, phase, load, received, bound, crashes>>

\* The LSP's connection closes before the ACK is written: event discarded.
AckLost(h) ==
  /\ ~Idle(h)
  /\ job[h].stage = "committed"
  /\ Leave(h)
  /\ UNCHANGED <<initRow, confRow, order, phase, load, received, shown, bound,
                 crashes>>

\* The transaction fails: it leaves nothing behind, the LSP gets a 503.
CommitFails(h) ==
  /\ ~Idle(h)
  /\ job[h].stage = "matched"
  /\ Leave(h)
  /\ UNCHANGED <<initRow, confRow, order, phase, load, received, shown, bound,
                 crashes>>

------------------------------------------------------------------------------
\* The process restarts: calls and callbacks in progress are gone, and so is
\* the in-memory map from transactions to clients, which only /search fills.
Crash ==
  /\ crashes < MaxCrashes
  /\ crashes' = crashes + 1
  /\ phase' = [r \in Request |-> IF phase[r] = "idle" THEN "idle" ELSE "done"]
  /\ job' = [h \in Handler |-> None]
  /\ bound' = {}
  /\ UNCHANGED <<initRow, confRow, order, load, received, shown>>

ClientStep ==
  \/ \E i \in InitReq, t \in Txn, b \in Bpp : CreateInit(i, t, b)
  \/ \E c \in ConfirmReq :
       \/ \E i \in InitReq : ReadInit(c, i)
       \/ ReadSnapshots(c)
       \/ ReadChildren(c)
       \/ ReadOrder(c)
       \/ RejectConfirm(c)
       \/ CreateConfirm(c)

TransportStep ==
  \E r \in Request :
     \/ Reach(r)
     \/ SendOk(r)
     \/ SendFails(r)
     \/ MarkSent(r)
     \/ MarkSentFails(r)
     \/ MarkFailed(r)
     \/ MarkFailedFails(r)

CallbackStep ==
  \E h \in Handler :
     \/ \E i \in InitReq, b \in Bpp, error \in BOOLEAN : OnInit(h, i, b, error)
     \/ \E m \in ConfirmReq, named, error \in BOOLEAN :
          \E msg \in {m} \cup LspMsg : OnConfirm(h, m, msg, named, error)
     \/ CommitOnInit(h)
     \/ CommitOnConfirm(h)
     \/ Acknowledge(h)
     \/ AckLost(h)
     \/ CommitFails(h)

Next == ClientStep \/ TransportStep \/ CallbackStep \/ Crash

\* A send or callback under way goes on: the runtime runs every
\* continuation, and a send ends by answer or by timeout.  Nothing makes the
\* client call, the network deliver or the LSP answer.
Fairness ==
  /\ \A r \in Request :
       WF_vars(SendOk(r) \/ SendFails(r) \/ MarkSent(r) \/ MarkFailed(r))
  /\ \A h \in Handler :
       WF_vars(CommitOnInit(h) \/ CommitOnConfirm(h) \/ CommitFails(h)
               \/ Acknowledge(h) \/ AckLost(h))

Spec == Init /\ [][Next]_vars
FairSpec == Spec /\ Fairness

------------------------------------------------------------------------------
Status == {"pending", "sent", "completed", "failed"}
Quote == [bpp : Bpp, version : Version, by : Handler, whole : BOOLEAN]
Phase == {"idle", "read", "found", "quoted", "ready", "sending", "acked", "refused", "done"}

InitRowType ==
  {NoInitRow} \cup
  [status : Status, txn : Txn, bpp : Bpp,
   answered : BOOLEAN, onInit : Quote \cup {None}]

ConfRowType ==
  {NoConfRow} \cup
  [status : Status, txn : Txn, bpp : Bpp, order : OrderId, src : InitReq,
   terms : Quote, answer : ConfirmReq \cup LspMsg \cup {None}]

OrderType ==
  [txn : Txn, bpp : Bpp, src : InitReq, terms : Quote,
   state : {"Created", "Accepted"}]

LoadType ==
  [init : InitReq \cup {None}, status : Status \cup {"none"},
   terms : Quote \cup {None}, order : OrderId \cup {None}]

JobType ==
  [action : {"init"}, row : InitReq, error : BOOLEAN,
   quote : Quote \cup {None}, stage : {"matched", "committed"}]
  \cup
  [action : {"confirm"}, row : ConfirmReq, of : ConfirmReq,
   msg : ConfirmReq \cup LspMsg, error : BOOLEAN,
   stage : {"matched", "committed"}]

ASSUME NoneIsNoRecord == None \notin Quote \cup OrderType \cup JobType

\* Every variable has its type.
TypeOK ==
  /\ initRow \in [InitReq -> InitRowType]
  /\ confRow \in [ConfirmReq -> ConfRowType]
  /\ order \in [OrderId -> OrderType \cup {None}]
  /\ phase \in [Request -> Phase]
  /\ load \in [ConfirmReq -> LoadType]
  /\ received \subseteq Request
  /\ job \in [Handler -> JobType \cup {None}]
  /\ shown \in [Request -> 0..2]
  /\ bound \subseteq Txn
  /\ crashes \in 0..MaxCrashes

\* An order always rests on an /init of its own transaction, with the LSP
\* that quoted for that /init and on terms that LSP gave: no interleaving of
\* re-inits, confirm retries, late callbacks and status writes lets /confirm
\* book an /init nobody quoted for, or hand an order to another LSP's quote.
OrderRestsOnQuote ==
  \A o \in OrderId : order[o] # None =>
    LET i == order[o].src
    IN /\ initRow[i].onInit # None
       /\ initRow[i].txn = order[o].txn
       /\ initRow[i].bpp = order[o].bpp
       /\ order[o].terms.bpp = order[o].bpp

\* The confirm row and the order are written together: a confirm row's order
\* is there and belongs to its transaction, and no order is there without a
\* confirm row, even when the process dies half way.
RowsAndOrdersAgree ==
  /\ \A c \in ConfirmRows : confRow[c].order \in OrdersOf(confRow[c].txn)
  /\ \A o \in OrderId : order[o] # None =>
       \E c \in ConfirmRows : confRow[c].order = o /\ confRow[c].txn = order[o].txn

\* conventions, "never publish before the durable write": the client is never
\* shown an outcome that is not in the database, in particular not one a
\* restart could take back.
ShownIsDurable ==
  \A r \in Request : shown[r] > 0 =>
    IF r \in InitReq THEN initRow[r].answered ELSE confRow[r].answer # None

\* A client that waits for one /confirm before it sends the next gets one
\* order per transaction, however often it retries, whatever fails, and
\* across restarts: the retry finds the order the first attempt made.
OneOrderPerTransaction ==
  \A o1, o2 \in OrderId :
    order[o1] # None /\ order[o2] # None /\ order[o1].txn = order[o2].txn
      => o1 = o2

\* The quote an /init was answered with stands: redelivered, late or
\* contradicting callbacks for the same message_id do not replace it.
FirstAnswerStands ==
  [][\A i \in InitReq : initRow[i].answered =>
        initRow'[i].answered /\ initRow'[i].onInit = initRow[i].onInit]_vars

\* An order carries the very quote that is stored for its /init, and all of it,
\* although /confirm reads it in several queries, and others follow before it
\* writes the order.
OrderCarriesStandingQuote ==
  \A o \in OrderId :
    order[o] # None => order[o].terms = initRow[order[o].src].onInit

\* Callbacks that come one at a time are shown once each: a redelivered
\* /on_init never shows the client a second outcome.
InitShownOnce == \A i \in InitReq : shown[i] <= 1

\* Unless the process dies or the database fails, every request that was
\* persisted comes to an end and leaves "pending" behind.
EverySubmissionSettles ==
  \A r \in Request :
    phase[r] = "sending" ~>
      /\ phase[r] = "done"
      /\ (IF r \in InitReq THEN initRow[r] ELSE confRow[r]).status # "pending"

\* The promise about orders, with the quoted /inits read off the snapshots.
OB == INSTANCE OrderBook WITH
        quotedIn <- [i \in InitReq |->
                       IF initRow[i].onInit # None THEN initRow[i].txn ELSE None],
        book <- [o \in OrderId |->
                   IF order[o] = None THEN None
                   ELSE [txn |-> order[o].txn, src |-> order[o].src]]

ImplementsOrderBook == OB!ObSpec

------------------------------------------------------------------------------
(* What the documentation says and the code does not keep to.              *)

\* docs/architecture/database/transactions.md, the status life cycle: nothing
\* leads out of "completed".
CompletedIsFinal ==
  [][\A i \in InitReq : initRow[i].status = "completed" =>
        initRow'[i].status = "completed"]_vars
==============================================================================
