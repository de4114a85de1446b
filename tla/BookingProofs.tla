---------------------------- MODULE BookingProofs ----------------------------
(***************************************************************************)
(* Proofs about Booking, for any number of transactions, calls, callbacks, *)
(* LSPs, order ids and restarts, and any mix of failures.                  *)
(*                                                                         *)
(* None of the invariants is inductive by itself: IInv adds what the       *)
(* stages of the calls, the rows and the callbacks under way know of each  *)
(* other.  One lemma per conjunct shows that a step preserves it.  What    *)
(* else is needed for one order per transaction, for the refinement and    *)
(* for quotes that stand is added where it is needed.                      *)
(***************************************************************************)
EXTENDS Booking, TLAPS

\* A call that has not begun has no row and has read nothing; a /confirm has
\* no row before it writes one; what reached an LSP was stored before.
StagesAgree ==
  /\ \A i \in InitReq : phase[i] = "idle" => i \notin InitRows
  /\ \A c \in ConfirmReq :
       /\ phase[c] = "idle" => load[c] = NoLoad
       /\ phase[c] \in {"idle", "read", "found", "quoted", "ready"} => c \notin ConfirmRows
  /\ \A r \in received : Sent(r)

\* A quote is stored for an /init that was made, comes from its LSP and is whole.
QuotesAgree ==
  \A i \in InitReq : initRow[i].onInit # None =>
     /\ i \in InitRows /\ initRow[i].onInit.bpp = initRow[i].bpp
     /\ initRow[i].onInit.whole

\* A /confirm has read a quote.
HasTerms(c) ==
  phase[c] \in {"quoted", "ready"} \/ (phase[c] = "found" /\ load[c].terms # None)

\* What a /confirm has read up to each stage.
LoadsAgree ==
  \A c \in ConfirmReq :
     /\ phase[c] # "idle" => load[c].init \in InitRows /\ load[c].status \in Status
     /\ HasTerms(c) =>
          /\ load[c].terms \in Quote
          /\ load[c].terms.bpp = initRow[load[c].init].bpp
          /\ initRow[load[c].init].onInit # None
     /\ phase[c] = "ready" => load[c].order \in OrderId

\* An order id that was drawn or found is for one transaction only.
OrderIdsAgree ==
  \A c \in ConfirmReq : load[c].order \in OrderId =>
     /\ load[c].init \in InitRows
     /\ order[load[c].order] # None =>
          order[load[c].order].txn = initRow[load[c].init].txn
     /\ \A d \in ConfirmReq : load[d].order = load[c].order =>
          initRow[load[d].init].txn = initRow[load[c].init].txn

\* A confirm row goes back to a quoted /init, and its order is there.
ConfirmRowsAgree ==
  \A c \in ConfirmRows :
     /\ initRow[confRow[c].src].onInit # None
     /\ initRow[confRow[c].src].txn = confRow[c].txn
     /\ initRow[confRow[c].src].bpp = confRow[c].bpp
     /\ confRow[c].terms.bpp = confRow[c].bpp
     /\ order[confRow[c].order] # None
     /\ order[confRow[c].order].txn = confRow[c].txn

\* A callback under way has found its row, and answers a call of the same
\* transaction, LSP and, unless it is an error, order.
JobsAgree ==
  \A h \in Handler : job[h] # None =>
     /\ job[h].action = "init" =>
          /\ job[h].row \in InitRows
          /\ job[h].quote # None =>
               job[h].quote.bpp = initRow[job[h].row].bpp /\ job[h].quote.whole
     /\ job[h].action = "confirm" =>
          /\ job[h].row \in ConfirmRows /\ job[h].of \in ConfirmRows
          /\ confRow[job[h].row].txn = confRow[job[h].of].txn
          /\ confRow[job[h].row].bpp = confRow[job[h].of].bpp
          /\ job[h].error \/ confRow[job[h].row].order = confRow[job[h].of].order

IInv ==
  /\ TypeOK
  /\ StagesAgree
  /\ QuotesAgree
  /\ LoadsAgree
  /\ OrderIdsAgree
  /\ ConfirmRowsAgree
  /\ JobsAgree
  /\ OrderRestsOnQuote
  /\ RowsAndOrdersAgree

------------------------------------------------------------------------------
(* Types                                                                   *)

\* The records the actions start from have their types.
LEMMA RowTypes ==
  /\ NoInitRow \in InitRowType
  /\ NoConfRow \in ConfRowType
  /\ NoLoad \in LoadType
  BY DEF NoInitRow, NoConfRow, NoLoad, InitRowType, ConfRowType, LoadType

\* A row that is there is a full record.
LEMMA FullRows ==
  ASSUME TypeOK
  PROVE  /\ \A i \in InitRows :
              initRow[i] \in [status : Status, txn : Txn, bpp : Bpp,
                             answered : BOOLEAN, onInit : Quote \cup {None}]
         /\ \A c \in ConfirmRows :
              confRow[c] \in [status : Status, txn : Txn, bpp : Bpp,
                             order : OrderId, src : InitReq, terms : Quote,
                             answer : ConfirmReq \cup LspMsg \cup {None}]
  <1>1. NoInitRow.status = "none" /\ NoConfRow.status = "none"
    BY DEF NoInitRow, NoConfRow
  <1> QED
    BY <1>1 DEF TypeOK, InitRows, ConfirmRows, InitRowType, ConfRowType

\* A job under way is one of the two records, by its action.
LEMMA FullJobs ==
  ASSUME TypeOK, NEW h \in Handler, job[h] # None
  PROVE  \/ /\ job[h].action = "init"
            /\ job[h] \in [action : {"init"}, row : InitReq, error : BOOLEAN,
                           quote : Quote \cup {None},
                           stage : {"matched", "committed"}]
         \/ /\ job[h].action = "confirm"
            /\ job[h] \in [action : {"confirm"}, row : ConfirmReq, of : ConfirmReq,
                           msg : ConfirmReq \cup LspMsg, error : BOOLEAN,
                           stage : {"matched", "committed"}]
  BY DEF TypeOK, JobType

\* A row not there is the empty one.
LEMMA EmptyRows ==
  ASSUME TypeOK
  PROVE  /\ \A i \in InitReq \ InitRows : initRow[i] = NoInitRow
         /\ \A c \in ConfirmReq \ ConfirmRows : confRow[c] = NoConfRow
  <1>1. \A s \in Status : s # "none"
    BY DEF Status
  <1> QED
    BY <1>1 DEF TypeOK, InitRows, ConfirmRows, InitRowType, ConfRowType

LEMMA TypeInit == Init => TypeOK
  BY RowTypes, MaxCrashesIsNatural DEF Init, TypeOK, Phase

\* What is read of a quote is a quote of that LSP, and all of it if its row has
\* not been replaced.
LEMMA FetchedQuote ==
  ASSUME NEW read \in Quote, NEW stored, NEW terms \in Fetched(read, stored)
  PROVE  /\ terms \in Quote /\ terms.bpp = read.bpp
         /\ stored = read /\ read.whole => terms = read
  <1>1. PICK whole \in BOOLEAN :
          /\ terms = [read EXCEPT !.whole = whole]
          /\ stored.by = read.by => whole = TRUE
    BY DEF Fetched
  <1>2. read = [bpp |-> read.bpp, version |-> read.version, by |-> read.by,
                whole |-> read.whole] /\ read.whole \in BOOLEAN
    BY DEF Quote
  <1>3. terms = [bpp |-> read.bpp, version |-> read.version, by |-> read.by, whole |-> whole]
    BY <1>1, <1>2
  <1>4. terms \in Quote /\ terms.bpp = read.bpp
    BY <1>3 DEF Quote
  <1> QED
    BY <1>1, <1>2, <1>3, <1>4

LEMMA TypeStep == IInv /\ [Next]_vars => TypeOK'
  <1> SUFFICES ASSUME IInv, [Next]_vars PROVE TypeOK'
    OBVIOUS
  <1>t. TypeOK
    BY DEF IInv
  <1>1. ASSUME NEW i \in InitReq, NEW t \in Txn, NEW b \in Bpp, CreateInit(i, t, b)
        PROVE  TypeOK'
    <2>1. [NoInitRow EXCEPT !.status = "pending", !.txn = t, !.bpp = b] \in InitRowType
      BY DEF NoInitRow, InitRowType, Status
    <2> QED
      BY <1>t, <1>1, <2>1 DEF TypeOK, CreateInit, Move, Phase, Request
  <1>2. ASSUME NEW c \in ConfirmReq, NEW i \in InitReq, ReadInit(c, i)
        PROVE  TypeOK'
    <2>1. initRow[i].status \in Status
      BY <1>t, <1>2, FullRows DEF ReadInit
    <2>2. load' \in [ConfirmReq -> LoadType]
      BY <1>t, <1>2, <2>1 DEF TypeOK, ReadInit, LoadType
    <2> QED
      BY <1>t, <1>2, <2>2 DEF TypeOK, ReadInit, Move, Phase, Request
  <1>3. ASSUME NEW c \in ConfirmReq, ReadSnapshots(c) PROVE TypeOK'
    <2>1. load[c].init \in InitRows
      BY <1>3 DEF IInv, LoadsAgree, ReadSnapshots
    <2>2. initRow[load[c].init].onInit \in Quote \cup {None}
      BY <1>t, <2>1, FullRows
    <2>3. load' \in [ConfirmReq -> LoadType]
      BY <1>t, <1>3, <2>2 DEF TypeOK, ReadSnapshots, LoadType
    <2> QED
      BY <1>t, <1>3, <2>3 DEF TypeOK, ReadSnapshots, Move, Phase, Request
  <1>19. ASSUME NEW c \in ConfirmReq, ReadChildren(c) PROVE TypeOK'
    <2>1. CASE load[c].status = "completed" /\ load[c].terms # None
      <3>1. load[c].terms \in Quote
        BY <1>t, <2>1, <1>19 DEF TypeOK, LoadType
      <3>2. PICK terms \in Quote : load' = [load EXCEPT ![c].terms = terms]
        BY <1>19, <2>1, <3>1, FetchedQuote DEF ReadChildren
      <3>3. load' \in [ConfirmReq -> LoadType]
        BY <1>t, <3>2 DEF TypeOK, LoadType
      <3> QED
        BY <1>t, <1>19, <2>1, <3>3 DEF TypeOK, ReadChildren, Move, Phase, Request
    <2>2. CASE ~(load[c].status = "completed" /\ load[c].terms # None)
      BY <1>t, <1>19, <2>2 DEF TypeOK, ReadChildren, Move, Phase, Request
    <2> QED
      BY <2>1, <2>2
  <1>4. ASSUME NEW c \in ConfirmReq, ReadOrder(c) PROVE TypeOK'
    <2>1. PICK o \in OrderId : load' = [load EXCEPT ![c].order = o]
      BY <1>4 DEF ReadOrder, OrderIdsFor, OrdersOf
    <2>2. load' \in [ConfirmReq -> LoadType]
      BY <1>t, <2>1 DEF TypeOK, LoadType
    <2> QED
      BY <1>t, <1>4, <2>2 DEF TypeOK, ReadOrder, Move, Phase, Request
  <1>5. ASSUME NEW c \in ConfirmReq, RejectConfirm(c) PROVE TypeOK'
    BY <1>t, <1>5 DEF TypeOK, RejectConfirm, Move, Phase, Request
  <1>6. ASSUME NEW c \in ConfirmReq, CreateConfirm(c) PROVE TypeOK'
    <2>1. /\ load[c].init \in InitRows /\ load[c].init \in InitReq
          /\ load[c].terms \in Quote
          /\ load[c].order \in OrderId
      BY <1>6 DEF IInv, LoadsAgree, HasTerms, CreateConfirm, InitRows
    <2>2. /\ initRow[load[c].init].txn \in Txn
          /\ initRow[load[c].init].bpp \in Bpp
      BY <1>t, <2>1, FullRows
    <2>3. confRow' \in [ConfirmReq -> ConfRowType]
      BY <1>t, <1>6, <2>1, <2>2 DEF TypeOK, CreateConfirm, ConfRowType, Status
    <2>4. order' \in [OrderId -> OrderType \cup {None}]
      BY <1>t, <1>6, <2>1, <2>2 DEF TypeOK, CreateConfirm, OrderType
    <2> QED
      BY <1>t, <1>6, <2>3, <2>4 DEF TypeOK, CreateConfirm, Move, Phase, Request
  <1>7. ASSUME NEW r \in Request, Reach(r) PROVE TypeOK'
    BY <1>t, <1>7 DEF TypeOK, Reach
  <1>8. ASSUME NEW r \in Request, SendOk(r) \/ SendFails(r) \/ MarkSentFails(r)
                                  \/ MarkFailedFails(r)
        PROVE  TypeOK'
    BY <1>t, <1>8 DEF TypeOK, SendOk, SendFails, MarkSentFails, MarkFailedFails,
                      Move, Phase
  <1>9. ASSUME NEW r \in Request, NEW s \in Status, UpdateStatus(r, s),
               Move(r, "done"),
               UNCHANGED <<order, load, received, job, shown, bound, crashes>>
        PROVE  TypeOK'
    <2>1. initRow' \in [InitReq -> InitRowType]
      <3>1. CASE r \in InitReq
        <4>1. SUFFICES ASSUME NEW i \in InitReq PROVE initRow'[i] \in InitRowType
          BY <1>9, <3>1 DEF UpdateStatus
        <4>2. CASE i \in InitsOf(initRow[r].txn)
          BY <1>t, <1>9, <3>1, <4>2, FullRows DEF UpdateStatus, InitsOf, InitRowType
        <4>3. CASE i \notin InitsOf(initRow[r].txn)
          BY <1>t, <1>9, <3>1, <4>3 DEF UpdateStatus, TypeOK
        <4> QED
          BY <4>2, <4>3
      <3>2. CASE r \notin InitReq
        BY <1>t, <1>9, <3>2 DEF UpdateStatus, TypeOK
      <3> QED
        BY <3>1, <3>2
    <2>2. confRow' \in [ConfirmReq -> ConfRowType]
      <3>1. CASE r \notin InitReq
        <4>1. SUFFICES ASSUME NEW c \in ConfirmReq PROVE confRow'[c] \in ConfRowType
          BY <1>9, <3>1 DEF UpdateStatus
        <4>2. CASE c \in ConfirmRows /\ confRow[c].txn = confRow[r].txn
          BY <1>t, <1>9, <3>1, <4>2, FullRows DEF UpdateStatus, ConfRowType
        <4>3. CASE ~(c \in ConfirmRows /\ confRow[c].txn = confRow[r].txn)
          BY <1>t, <1>9, <3>1, <4>3 DEF UpdateStatus, TypeOK
        <4> QED
          BY <4>2, <4>3
      <3>2. CASE r \in InitReq
        BY <1>t, <1>9, <3>2 DEF UpdateStatus, TypeOK
      <3> QED
        BY <3>1, <3>2
    <2> QED
      BY <1>t, <1>9, <2>1, <2>2 DEF TypeOK, Move, Phase
  <1>10. ASSUME NEW r \in Request, MarkSent(r) \/ MarkFailed(r) PROVE TypeOK'
    BY <1>9, <1>10 DEF MarkSent, MarkFailed, Status
  <1>11. ASSUME NEW h \in Handler, NEW i \in InitReq, NEW b \in Bpp,
                NEW error \in BOOLEAN, OnInit(h, i, b, error)
         PROVE  TypeOK'
    <2>1. OnInitContent(h, b, error) \subseteq Quote \cup {None}
      <3>1. \A v \in Version :
              [bpp |-> b, version |-> v, by |-> h, whole |-> TRUE] \in Quote
        BY DEF Quote
      <3> QED
        BY <3>1 DEF OnInitContent
    <2>2. job' \in [Handler -> JobType \cup {None}]
      BY <1>t, <1>11, <2>1 DEF TypeOK, OnInit, JobType
    <2> QED
      BY <1>t, <1>11, <2>2 DEF TypeOK, OnInit
  <1>12. ASSUME NEW h \in Handler, NEW m \in ConfirmReq, NEW named \in BOOLEAN,
                NEW error \in BOOLEAN, NEW msg \in {m} \cup LspMsg,
                OnConfirm(h, m, msg, named, error)
         PROVE  TypeOK'
    <2>1. ConfirmMatches(m, named) \subseteq ConfirmReq
      BY DEF ConfirmMatches, ConfirmRows
    <2>2. job' \in [Handler -> JobType \cup {None}]
      BY <1>t, <1>12, <2>1 DEF TypeOK, OnConfirm, JobType
    <2> QED
      BY <1>t, <1>12, <2>2 DEF TypeOK, OnConfirm
  <1>13. ASSUME NEW h \in Handler, job[h] # None, Committed(h)
         PROVE  job' \in [Handler -> JobType \cup {None}]
    <2>1. [job[h] EXCEPT !.stage = "committed"] \in JobType
      BY <1>t, <1>13, FullJobs DEF JobType
    <2> QED
      BY <1>t, <1>13, <2>1 DEF TypeOK, Committed
  <1>14. ASSUME NEW h \in Handler, CommitOnInit(h) PROVE TypeOK'
    <2>1. /\ job[h].row \in InitRows /\ job[h].row \in InitReq
          /\ job[h].quote \in Quote \cup {None}
      BY <1>t, <1>14, FullJobs DEF IInv, JobsAgree, CommitOnInit, Idle
    <2>2. Outcome(job[h].error) \in Status
      BY DEF Outcome, Status
    <2>3. initRow' \in [InitReq -> InitRowType]
      BY <1>t, <1>14, <2>1, <2>2, FullRows DEF TypeOK, CommitOnInit, InitRowType
    <2> QED
      BY <1>t, <1>13, <1>14, <2>3 DEF TypeOK, CommitOnInit, Idle
  <1>15. ASSUME NEW h \in Handler, CommitOnConfirm(h) PROVE TypeOK'
    <2>1. /\ job[h].row \in ConfirmRows /\ job[h].row \in ConfirmReq
          /\ job[h].of \in ConfirmRows
          /\ job[h].msg \in ConfirmReq \cup LspMsg
      BY <1>t, <1>15, FullJobs DEF IInv, JobsAgree, CommitOnConfirm, Idle
    <2>2. confRow' \in [ConfirmReq -> ConfRowType]
      <3>1. Outcome(job[h].error) \in Status
        BY DEF Outcome, Status
      <3>2. ASSUME NEW c \in ConfirmRows, NEW s \in Status,
                   NEW a \in ConfirmReq \cup LspMsg
            PROVE  [confRow[c] EXCEPT !.status = s, !.answer = a] \in ConfRowType
        BY <1>t, FullRows DEF ConfRowType
      <3>3. confRow' = [confRow EXCEPT ![job[h].row] =
              [confRow[job[h].row] EXCEPT !.status = Outcome(job[h].error),
                                          !.answer = job[h].msg]]
        BY <1>t, <1>15, <2>1 DEF TypeOK, CommitOnConfirm
      <3> QED
        BY <1>t, <2>1, <3>1, <3>2, <3>3 DEF TypeOK
    <2>3. order[confRow[job[h].row].order] \in OrderType
      BY <1>t, <2>1, FullRows DEF TypeOK, IInv, ConfirmRowsAgree
    <2>4. order' \in [OrderId -> OrderType \cup {None}]
      BY <1>t, <1>15, <2>1, <2>3, FullRows DEF TypeOK, CommitOnConfirm, OrderType
    <2> QED
      BY <1>t, <1>13, <1>15, <2>2, <2>4 DEF TypeOK, CommitOnConfirm, Idle
  <1>16. ASSUME NEW h \in Handler, Acknowledge(h) \/ AckLost(h) \/ CommitFails(h)
         PROVE  TypeOK'
    BY <1>t, <1>16 DEF TypeOK, Acknowledge, AckLost, CommitFails, Leave, CountUpToTwo
  <1>17. CASE Crash
    BY <1>t, <1>17, MaxCrashesIsNatural DEF TypeOK, Crash, Phase
  <1>18. CASE UNCHANGED vars
    BY <1>t, <1>18 DEF TypeOK, vars
  <1> QED
    BY <1>1, <1>2, <1>3, <1>4, <1>5, <1>6, <1>7, <1>8, <1>10, <1>11, <1>12, <1>14,
       <1>15, <1>16, <1>17, <1>18, <1>19
       DEF Next, ClientStep, TransportStep, CallbackStep

------------------------------------------------------------------------------
(* Rows are never deleted, and only their status and answer change.        *)

InitRowsKept ==
  \A i \in InitRows :
     /\ i \in InitRows'
     /\ initRow'[i].txn = initRow[i].txn
     /\ initRow'[i].bpp = initRow[i].bpp
     /\ initRow[i].onInit # None => initRow'[i].onInit # None

ConfirmRowsKept ==
  \A c \in ConfirmRows :
     /\ c \in ConfirmRows'
     /\ confRow'[c].txn = confRow[c].txn
     /\ confRow'[c].bpp = confRow[c].bpp
     /\ confRow'[c].order = confRow[c].order
     /\ confRow'[c].src = confRow[c].src
     /\ confRow'[c].terms = confRow[c].terms

\* What a status write leaves of the rows.
LEMMA StatusWriteKeeps ==
  ASSUME TypeOK, NEW r \in Request, NEW s \in Status, UpdateStatus(r, s)
  PROVE  /\ InitRows' = InitRows /\ ConfirmRows' = ConfirmRows
         /\ \A i \in InitReq : /\ initRow'[i].txn = initRow[i].txn
                               /\ initRow'[i].bpp = initRow[i].bpp
                               /\ initRow'[i].onInit = initRow[i].onInit
         /\ ConfirmRowsKept
  <1>s. s # "none"
    BY DEF Status
  <1>1. \A i \in InitReq :
          /\ (initRow'[i].status = "none") = (initRow[i].status = "none")
          /\ initRow'[i].txn = initRow[i].txn
          /\ initRow'[i].bpp = initRow[i].bpp
          /\ initRow'[i].onInit = initRow[i].onInit
    <2>1. SUFFICES ASSUME NEW i \in InitReq
                   PROVE  /\ (initRow'[i].status = "none") = (initRow[i].status = "none")
                          /\ initRow'[i].txn = initRow[i].txn
                          /\ initRow'[i].bpp = initRow[i].bpp
                          /\ initRow'[i].onInit = initRow[i].onInit
      OBVIOUS
    <2>2. CASE initRow'[i] = initRow[i]
      BY <2>2
    <2>3. CASE i \in InitRows /\ initRow'[i] = [initRow[i] EXCEPT !.status = s]
      BY <1>s, <2>3, FullRows DEF InitRows
    <2> QED
      BY <2>2, <2>3 DEF UpdateStatus, InitsOf
  <1>2. \A c \in ConfirmReq :
          /\ (confRow'[c].status = "none") = (confRow[c].status = "none")
          /\ confRow'[c].txn = confRow[c].txn
          /\ confRow'[c].bpp = confRow[c].bpp
          /\ confRow'[c].order = confRow[c].order
          /\ confRow'[c].src = confRow[c].src
          /\ confRow'[c].terms = confRow[c].terms
    <2>1. SUFFICES ASSUME NEW c \in ConfirmReq
                   PROVE  /\ (confRow'[c].status = "none") = (confRow[c].status = "none")
                          /\ confRow'[c].txn = confRow[c].txn
                          /\ confRow'[c].bpp = confRow[c].bpp
                          /\ confRow'[c].order = confRow[c].order
                          /\ confRow'[c].src = confRow[c].src
                          /\ confRow'[c].terms = confRow[c].terms
      OBVIOUS
    <2>2. CASE confRow'[c] = confRow[c]
      BY <2>2
    <2>3. CASE c \in ConfirmRows /\ confRow'[c] = [confRow[c] EXCEPT !.status = s]
      BY <1>s, <2>3, FullRows DEF ConfirmRows
    <2> QED
      BY <2>2, <2>3 DEF UpdateStatus
  <1> QED
    BY <1>1, <1>2 DEF InitRows, ConfirmRows, ConfirmRowsKept

\* What CommitOnInit makes of its row.
LEMMA AnsweredRow ==
  ASSUME IInv, NEW h \in Handler, CommitOnInit(h)
  PROVE  /\ job[h].row \in InitRows /\ InitRows' = InitRows
         /\ \A i \in InitReq :
              /\ initRow'[i].txn = initRow[i].txn
              /\ initRow'[i].bpp = initRow[i].bpp
              /\ i # job[h].row => initRow'[i] = initRow[i]
         /\ initRow'[job[h].row].onInit =
              IF job[h].quote # None THEN job[h].quote ELSE initRow[job[h].row].onInit
  <1>t. TypeOK
    BY DEF IInv
  <1> DEFINE i == job[h].row
             q == IF job[h].quote # None THEN job[h].quote ELSE initRow[i].onInit
  <1>1. i \in InitRows /\ i \in InitReq
    BY <1>t, FullJobs DEF IInv, JobsAgree, CommitOnInit, Idle, InitRows
  <1>2. initRow' = [initRow EXCEPT ![i] = [initRow[i] EXCEPT
           !.status = Outcome(job[h].error), !.answered = TRUE, !.onInit = q]]
    BY <1>t, <1>1 DEF TypeOK, CommitOnInit
  <1>3. ASSUME NEW s \in Status, NEW w
        PROVE  LET x == [initRow[i] EXCEPT !.status = s, !.answered = TRUE, !.onInit = w]
               IN  /\ x.status = s /\ x.txn = initRow[i].txn
                   /\ x.bpp = initRow[i].bpp /\ x.onInit = w
    BY <1>t, <1>1, FullRows
  <1>4. Outcome(job[h].error) \in Status
    BY DEF Outcome, Status
  <1>5. \A s \in Status : s # "none"
    BY DEF Status
  <1>6. /\ initRow'[i].status \in Status /\ initRow'[i].txn = initRow[i].txn
        /\ initRow'[i].bpp = initRow[i].bpp /\ initRow'[i].onInit = q
    <2> HIDE DEF q
    <2> QED
      BY <1>t, <1>1, <1>2, <1>3, <1>4 DEF TypeOK
  <1>7. \A j \in InitReq : j # i => initRow'[j] = initRow[j]
    BY <1>t, <1>1, <1>2 DEF TypeOK
  <1> QED
    BY <1>1, <1>5, <1>6, <1>7 DEF InitRows

\* What CommitOnConfirm makes of its row.
LEMMA AnsweredConfirm ==
  ASSUME IInv, NEW h \in Handler, CommitOnConfirm(h)
  PROVE  ConfirmRows' = ConfirmRows /\ ConfirmRowsKept
  <1>t. TypeOK
    BY DEF IInv
  <1> DEFINE c == job[h].row
  <1>1. c \in ConfirmRows /\ c \in ConfirmReq
    BY <1>t, FullJobs DEF IInv, JobsAgree, CommitOnConfirm, Idle, ConfirmRows
  <1>2. confRow' = [confRow EXCEPT ![c] =
           [confRow[c] EXCEPT !.status = Outcome(job[h].error), !.answer = job[h].msg]]
    BY <1>t, <1>1 DEF TypeOK, CommitOnConfirm
  <1>3. ASSUME NEW s \in Status, NEW a
        PROVE  LET x == [confRow[c] EXCEPT !.status = s, !.answer = a]
               IN  /\ x.status = s /\ x.txn = confRow[c].txn
                   /\ x.bpp = confRow[c].bpp /\ x.order = confRow[c].order
                   /\ x.src = confRow[c].src /\ x.terms = confRow[c].terms
    BY <1>t, <1>1, FullRows
  <1>4. Outcome(job[h].error) \in Status
    BY DEF Outcome, Status
  <1>5. \A s \in Status : s # "none"
    BY DEF Status
  <1>6. /\ confRow'[c].status \in Status /\ confRow'[c].txn = confRow[c].txn
        /\ confRow'[c].bpp = confRow[c].bpp /\ confRow'[c].order = confRow[c].order
        /\ confRow'[c].src = confRow[c].src /\ confRow'[c].terms = confRow[c].terms
    BY <1>t, <1>1, <1>2, <1>3, <1>4 DEF TypeOK
  <1>7. \A d \in ConfirmReq : d # c => confRow'[d] = confRow[d]
    BY <1>t, <1>1, <1>2 DEF TypeOK
  <1> QED
    BY <1>1, <1>5, <1>6, <1>7 DEF ConfirmRows, ConfirmRowsKept

\* What CommitOnConfirm makes of the order.
LEMMA AcceptedOrder ==
  ASSUME IInv, NEW h \in Handler, CommitOnConfirm(h)
  PROVE  LET o == confRow[job[h].row].order
             m == confRow[job[h].of]
         IN  /\ o \in OrderId /\ order[o] # None /\ order'[o] # None
             /\ \A p \in OrderId : p # o => order'[p] = order[p]
             /\ order'[o].txn = order[o].txn
             /\ \/ order'[o] = order[o]
                \/ /\ job[h].error = FALSE
                   /\ order'[o].bpp = m.bpp
                   /\ order'[o].src = m.src
                   /\ order'[o].terms = m.terms
  <1>t. TypeOK
    BY DEF IInv
  <1> DEFINE o == confRow[job[h].row].order
             m == confRow[job[h].of]
  <1>1. job[h].row \in ConfirmRows /\ job[h].of \in ConfirmRows
    BY <1>t, FullJobs DEF IInv, JobsAgree, CommitOnConfirm, Idle
  <1>2. /\ o \in OrderId /\ order[o] # None /\ order[o] \in OrderType
        /\ m.bpp \in Bpp /\ m.src \in InitReq /\ m.terms \in Quote
    BY <1>t, <1>1, FullRows DEF TypeOK, IInv, ConfirmRowsAgree
  <1>3. job[h].error \in BOOLEAN
    BY <1>t, FullJobs DEF CommitOnConfirm, Idle
  <1>4. CASE job[h].error
    <2>1. order' = order
      BY <1>4 DEF CommitOnConfirm
    <2> QED
      BY <1>2, <2>1
  <1>5. CASE ~job[h].error
    <2>1. order' = [order EXCEPT ![o] = [order[o] EXCEPT
             !.bpp = m.bpp, !.src = m.src, !.terms = m.terms, !.state = "Accepted"]]
      BY <1>t, <1>2, <1>5 DEF TypeOK, CommitOnConfirm
    <2> HIDE DEF o, m
    <2>2. LET x == [order[o] EXCEPT !.bpp = m.bpp, !.src = m.src, !.terms = m.terms,
                                    !.state = "Accepted"]
          IN  /\ x \in OrderType /\ x.txn = order[o].txn
              /\ x.bpp = m.bpp /\ x.src = m.src /\ x.terms = m.terms
      BY <1>2 DEF OrderType
    <2>3. None \notin OrderType
      BY NoneIsNoRecord
    <2>4. /\ order'[o].txn = order[o].txn /\ order'[o].bpp = m.bpp
          /\ order'[o].src = m.src /\ order'[o].terms = m.terms /\ order'[o] # None
          /\ \A p \in OrderId : p # o => order'[p] = order[p]
      BY <1>t, <1>2, <2>1, <2>2, <2>3 DEF TypeOK
    <2> QED
      BY <1>2, <1>3, <1>5, <2>4 DEF o, m
  <1> QED
    BY <1>4, <1>5

\* What CreateConfirm makes of the order.
LEMMA WrittenOrder ==
  ASSUME IInv, NEW c \in ConfirmReq, CreateConfirm(c)
  PROVE  LET o == load[c].order
             i == load[c].init
         IN  /\ o \in OrderId /\ i \in InitRows /\ order'[o] # None
             /\ \A p \in OrderId : p # o => order'[p] = order[p]
             /\ order'[o].txn = initRow[i].txn /\ order'[o].bpp = initRow[i].bpp
             /\ order'[o].src = i /\ order'[o].terms = load[c].terms
  <1>t. TypeOK
    BY DEF IInv
  <1>1. /\ load[c].order \in OrderId /\ load[c].init \in InitRows
        /\ load[c].init \in InitReq /\ load[c].terms \in Quote
    BY DEF IInv, LoadsAgree, HasTerms, CreateConfirm, InitRows
  <1>2. order' = [order EXCEPT ![load[c].order] =
          [txn |-> initRow[load[c].init].txn, bpp |-> initRow[load[c].init].bpp,
           src |-> load[c].init, terms |-> load[c].terms, state |-> "Created"]]
    BY DEF CreateConfirm
  <1>3. [txn |-> initRow[load[c].init].txn, bpp |-> initRow[load[c].init].bpp,
         src |-> load[c].init, terms |-> load[c].terms, state |-> "Created"] \in OrderType
    BY <1>t, <1>1, FullRows DEF OrderType
  <1>4. None \notin OrderType
    BY NoneIsNoRecord
  <1> QED
    BY <1>t, <1>1, <1>2, <1>3, <1>4 DEF TypeOK

\* A new init row: /init calls that have begun are not run again.
LEMMA NewInitRow ==
  ASSUME IInv, NEW i \in InitReq, NEW t \in Txn, NEW b \in Bpp, CreateInit(i, t, b)
  PROVE  /\ i \notin InitRows /\ InitRows' = InitRows \cup {i}
         /\ \A j \in InitReq : j # i => initRow'[j] = initRow[j]
         /\ initRow'[i].onInit = None
  BY DEF IInv, TypeOK, StagesAgree, CreateInit, InitRows, NoInitRow

\* A new confirm row.
LEMMA NewConfirmRow ==
  ASSUME IInv, NEW c \in ConfirmReq, CreateConfirm(c)
  PROVE  /\ c \notin ConfirmRows /\ ConfirmRows' = ConfirmRows \cup {c}
         /\ \A d \in ConfirmReq : d # c => confRow'[d] = confRow[d]
         /\ confRow'[c] = [status |-> "pending", txn |-> initRow[load[c].init].txn,
                           bpp |-> initRow[load[c].init].bpp, order |-> load[c].order,
                           src |-> load[c].init, terms |-> load[c].terms,
                           answer |-> None]
  BY DEF IInv, TypeOK, StagesAgree, CreateConfirm, ConfirmRows

LEMMA RowsKept == IInv /\ [Next]_vars => InitRowsKept /\ ConfirmRowsKept
  <1> SUFFICES ASSUME IInv, [Next]_vars PROVE InitRowsKept /\ ConfirmRowsKept
    OBVIOUS
  <1>t. TypeOK
    BY DEF IInv
  <1>u. ASSUME UNCHANGED initRow PROVE InitRowsKept
    BY <1>u DEF InitRowsKept, InitRows
  <1>v. ASSUME UNCHANGED confRow PROVE ConfirmRowsKept
    BY <1>v DEF ConfirmRowsKept, ConfirmRows
  <1>1. ASSUME NEW i \in InitReq, NEW t \in Txn, NEW b \in Bpp, CreateInit(i, t, b)
        PROVE  InitRowsKept /\ ConfirmRowsKept
    <2>1. UNCHANGED confRow
      BY <1>1 DEF CreateInit
    <2>2. InitRowsKept
      BY <1>1, NewInitRow DEF InitRowsKept, InitRows
    <2> QED
      BY <1>v, <2>1, <2>2
  <1>2. ASSUME NEW c \in ConfirmReq, CreateConfirm(c)
        PROVE  InitRowsKept /\ ConfirmRowsKept
    <2>1. UNCHANGED initRow
      BY <1>2 DEF CreateConfirm
    <2>2. ConfirmRowsKept
      BY <1>2, NewConfirmRow DEF ConfirmRowsKept, ConfirmRows
    <2> QED
      BY <1>u, <2>1, <2>2
  <1>3. ASSUME NEW r \in Request, MarkSent(r) \/ MarkFailed(r)
        PROVE  InitRowsKept /\ ConfirmRowsKept
    <2>1. PICK s \in Status : UpdateStatus(r, s)
      BY <1>3 DEF MarkSent, MarkFailed, Status
    <2> QED
      BY <1>t, <2>1, StatusWriteKeeps DEF InitRowsKept, InitRows
  <1>4. ASSUME NEW h \in Handler, CommitOnInit(h)
        PROVE  InitRowsKept /\ ConfirmRowsKept
    <2>1. UNCHANGED confRow
      BY <1>4 DEF CommitOnInit
    <2>2. InitRowsKept
      BY <1>4, AnsweredRow DEF InitRowsKept, InitRows
    <2> QED
      BY <1>v, <2>1, <2>2
  <1>5. ASSUME NEW h \in Handler, CommitOnConfirm(h)
        PROVE  InitRowsKept /\ ConfirmRowsKept
    <2>1. UNCHANGED initRow
      BY <1>5 DEF CommitOnConfirm
    <2> QED
      BY <1>5, <1>u, <2>1, AnsweredConfirm
  <1>6. CASE UNCHANGED <<initRow, confRow>>
    BY <1>u, <1>v, <1>6
  <1> QED
    BY <1>1, <1>2, <1>3, <1>4, <1>5, <1>6
       DEF Next, ClientStep, TransportStep, CallbackStep, ReadInit, ReadSnapshots,
           ReadChildren, ReadOrder, RejectConfirm, Reach, SendOk, SendFails, MarkSentFails,
           MarkFailedFails, OnInit, OnConfirm, Acknowledge, AckLost, CommitFails,
           Crash, vars

\* What was stored before a send stays stored.
LEMMA SentKept ==
  ASSUME IInv, [Next]_vars, NEW r, Sent(r)
  PROVE  Sent(r)'
  BY RowsKept DEF Sent, InitRowsKept, ConfirmRowsKept

------------------------------------------------------------------------------
(* One lemma per conjunct of IInv                                          *)

\* The steps that touch neither rows, phases nor what calls have read, and
\* add nothing to what has reached an LSP.
Aside ==
  UNCHANGED <<initRow, confRow, order, phase, load, received>>

LEMMA StagesStep == IInv /\ [Next]_vars => StagesAgree'
  <1> SUFFICES ASSUME IInv, [Next]_vars PROVE StagesAgree'
    OBVIOUS
  <1>t. TypeOK /\ StagesAgree
    BY DEF IInv
  <1>d. \A i \in InitReq : i \notin ConfirmReq
    BY DisjointRequests
  <1>r. ASSUME received' = received PROVE \A r \in received' : Sent(r)'
    BY <1>t, <1>r, SentKept DEF StagesAgree
  <1>1. ASSUME NEW i \in InitReq, NEW t \in Txn, NEW b \in Bpp, CreateInit(i, t, b)
        PROVE  StagesAgree'
    <2>1. \A j \in InitReq : phase'[j] = "idle" => j \notin InitRows'
      <3>1. \A j \in InitReq : phase'[j] = IF j = i THEN "sending" ELSE phase[j]
        BY <1>t, <1>1 DEF TypeOK, CreateInit, Move, Request
      <3>2. InitRows' = InitRows \cup {i}
        BY <1>1, NewInitRow
      <3> QED
        BY <1>t, <3>1, <3>2 DEF StagesAgree
    <2>2. \A c \in ConfirmReq : phase'[c] = phase[c]
      BY <1>t, <1>d, <1>1 DEF TypeOK, CreateInit, Move
    <2> QED
      BY <1>t, <1>r, <1>1, <2>1, <2>2 DEF StagesAgree, CreateInit, ConfirmRows
  <1>2. ASSUME NEW c \in ConfirmReq, NEW p \in Phase \ {"idle"}, phase[c] # "sending",
               Move(c, p), phase[c] \in {"idle", "read", "found", "quoted", "ready"},
               \A d \in ConfirmReq : d # c => load'[d] = load[d],
               UNCHANGED <<initRow, confRow, received>>
        PROVE  StagesAgree'
    <2>1. \A j \in Request : j # c => phase'[j] = phase[j]
      BY <1>t, <1>2 DEF TypeOK, Move
    <2>2. phase'[c] = p
      BY <1>t, <1>2 DEF TypeOK, Move, Request
    <2> QED
      BY <1>t, <1>d, <1>r, <1>2, <2>1, <2>2
         DEF StagesAgree, InitRows, ConfirmRows, Request
  <1>3. ASSUME NEW c \in ConfirmReq,
               \/ \E i \in InitReq : ReadInit(c, i)
               \/ ReadSnapshots(c) \/ ReadChildren(c) \/ ReadOrder(c) \/ RejectConfirm(c)
        PROVE  StagesAgree'
    <2>1. /\ \A d \in ConfirmReq : d # c => load'[d] = load[d]
          /\ UNCHANGED <<initRow, confRow, received>>
      BY <1>t, <1>3 DEF TypeOK, ReadInit, ReadSnapshots, ReadChildren, ReadOrder, RejectConfirm
    <2>2. \E p \in Phase \ {"idle"} : Move(c, p)
      BY <1>3 DEF Phase, ReadInit, ReadSnapshots, ReadChildren, ReadOrder, RejectConfirm
    <2>3. phase[c] \in {"idle", "read", "found", "quoted", "ready"}
      BY <1>3 DEF ReadInit, ReadSnapshots, ReadChildren, ReadOrder, RejectConfirm
    <2> QED
      BY <1>2, <2>1, <2>2, <2>3
  <1>4. ASSUME NEW c \in ConfirmReq, CreateConfirm(c) PROVE StagesAgree'
    <2>1. /\ \A j \in Request : j # c => phase'[j] = phase[j]
          /\ phase'[c] = "sending"
      BY <1>t, <1>4 DEF TypeOK, CreateConfirm, Move, Request
    <2>2. UNCHANGED <<initRow, load, received>>
      BY <1>4 DEF CreateConfirm
    <2>3. \A i \in InitReq : phase'[i] = "idle" => i \notin InitRows'
      <3>1. \A i \in InitReq : phase'[i] = phase[i]
        BY <1>d, <2>1 DEF Request
      <3> QED
        BY <1>t, <2>2, <3>1 DEF StagesAgree, InitRows
    <2>4. ConfirmRows' = ConfirmRows \cup {c}
      BY <1>4, NewConfirmRow
    <2>5. \A d \in ConfirmReq : d # c => phase'[d] = phase[d]
      BY <2>1 DEF Request
    <2>6. \A d \in ConfirmReq :
             /\ phase'[d] = "idle" => load'[d] = NoLoad
             /\ phase'[d] \in {"idle", "read", "found", "quoted", "ready"} => d \notin ConfirmRows'
      BY <1>t, <2>1, <2>2, <2>4, <2>5 DEF StagesAgree
    <2>7. \A r \in received' : Sent(r)'
      BY <1>r, <2>2
    <2> QED
      BY <2>3, <2>6, <2>7 DEF StagesAgree
  <1>5. ASSUME NEW r \in Request, Reach(r) PROVE StagesAgree'
    BY <1>t, <1>5 DEF StagesAgree, Reach, InitRows, ConfirmRows, Sent
  <1>6. ASSUME NEW r \in Request, phase[r] \in {"sending", "acked", "refused"},
               NEW p \in {"acked", "refused", "done"}, Move(r, p),
               InitRows' = InitRows, ConfirmRows' = ConfirmRows,
               UNCHANGED <<load, received>>
        PROVE  StagesAgree'
    <2>1. /\ \A j \in Request : j # r => phase'[j] = phase[j]
          /\ phase'[r] = p
      BY <1>t, <1>6 DEF TypeOK, Move
    <2>2. \A c \in ConfirmReq : phase'[c] \in {"idle", "read", "found", "quoted", "ready"} =>
                                 phase'[c] = phase[c]
      BY <1>6, <2>1 DEF Request
    <2>3. \A i \in InitReq : phase'[i] = "idle" => phase[i] = "idle"
      BY <1>6, <2>1 DEF Request
    <2> QED
      BY <1>t, <1>r, <1>6, <2>2, <2>3 DEF StagesAgree
  <1>7. ASSUME NEW r \in Request,
               SendOk(r) \/ SendFails(r) \/ MarkSentFails(r) \/ MarkFailedFails(r)
        PROVE  StagesAgree'
    <2>1. InitRows' = InitRows /\ ConfirmRows' = ConfirmRows
      BY <1>7 DEF SendOk, SendFails, MarkSentFails, MarkFailedFails, InitRows, ConfirmRows
    <2> QED
      BY <1>6, <1>7, <2>1 DEF SendOk, SendFails, MarkSentFails, MarkFailedFails
  <1>8. ASSUME NEW r \in Request, MarkSent(r) \/ MarkFailed(r) PROVE StagesAgree'
    <2>1. PICK s \in Status : UpdateStatus(r, s)
      BY <1>8 DEF MarkSent, MarkFailed, Status
    <2>2. InitRows' = InitRows /\ ConfirmRows' = ConfirmRows
      BY <1>t, <2>1, StatusWriteKeeps
    <2> QED
      BY <1>6, <1>8, <2>2 DEF MarkSent, MarkFailed
  <1>9. ASSUME NEW h \in Handler, CommitOnInit(h) PROVE StagesAgree'
    BY <1>t, <1>r, <1>9, AnsweredRow DEF StagesAgree, CommitOnInit, ConfirmRows
  <1>10. ASSUME NEW h \in Handler, CommitOnConfirm(h) PROVE StagesAgree'
    BY <1>t, <1>r, <1>10, AnsweredConfirm DEF StagesAgree, CommitOnConfirm, InitRows
  <1>11. CASE Crash
    <2>1. /\ \A r \in Request : phase'[r] = IF phase[r] = "idle" THEN "idle" ELSE "done"
          /\ UNCHANGED <<initRow, confRow, load, received>>
      BY <1>11 DEF Crash
    <2> QED
      BY <1>t, <1>r, <2>1 DEF StagesAgree, InitRows, ConfirmRows, Request
  <1>12. CASE Aside
    BY <1>t, <1>r, <1>12 DEF StagesAgree, Aside, InitRows, ConfirmRows
  <1> QED
    BY <1>1, <1>3, <1>4, <1>5, <1>7, <1>8, <1>9, <1>10, <1>11, <1>12
       DEF Next, ClientStep, TransportStep, CallbackStep, OnInit, OnConfirm,
           Acknowledge, AckLost, CommitFails, vars, Aside

LEMMA QuotesStep == IInv /\ [Next]_vars => QuotesAgree'
  <1> SUFFICES ASSUME IInv, [Next]_vars PROVE QuotesAgree'
    OBVIOUS
  <1>t. TypeOK /\ QuotesAgree
    BY DEF IInv
  <1>1. ASSUME NEW i \in InitReq, NEW t \in Txn, NEW b \in Bpp, CreateInit(i, t, b)
        PROVE  QuotesAgree'
    BY <1>t, <1>1, NewInitRow DEF QuotesAgree
  <1>2. ASSUME NEW r \in Request, MarkSent(r) \/ MarkFailed(r) PROVE QuotesAgree'
    <2>1. PICK s \in Status : UpdateStatus(r, s)
      BY <1>2 DEF MarkSent, MarkFailed, Status
    <2> QED
      BY <1>t, <2>1, StatusWriteKeeps DEF QuotesAgree
  <1>3. ASSUME NEW h \in Handler, CommitOnInit(h) PROVE QuotesAgree'
    <2>1. job[h].quote # None =>
            job[h].quote.bpp = initRow[job[h].row].bpp /\ job[h].quote.whole
      BY <1>3 DEF IInv, JobsAgree, CommitOnInit, Idle
    <2> QED
      BY <1>t, <1>3, <2>1, AnsweredRow DEF QuotesAgree
  <1>4. CASE UNCHANGED initRow
    BY <1>t, <1>4 DEF QuotesAgree, InitRows
  <1> QED
    BY <1>1, <1>2, <1>3, <1>4
       DEF Next, ClientStep, TransportStep, CallbackStep, ReadInit, ReadSnapshots,
           ReadChildren, ReadOrder, RejectConfirm, CreateConfirm, Reach, SendOk, SendFails,
           MarkSentFails, MarkFailedFails, OnInit, OnConfirm, CommitOnConfirm,
           Acknowledge, AckLost, CommitFails, Crash, vars

LEMMA LoadsStep == IInv /\ [Next]_vars => LoadsAgree'
  <1> SUFFICES ASSUME IInv, [Next]_vars, NEW c \in ConfirmReq
               PROVE  /\ phase'[c] # "idle" =>
                           load'[c].init \in InitRows' /\ load'[c].status \in Status
                      /\ HasTerms(c)' =>
                           /\ load'[c].terms \in Quote
                           /\ load'[c].terms.bpp = initRow'[load'[c].init].bpp
                           /\ initRow'[load'[c].init].onInit # None
                      /\ phase'[c] = "ready" => load'[c].order \in OrderId
    BY DEF LoadsAgree
  <1> DEFINE Goal == /\ phase'[c] # "idle" =>
                          load'[c].init \in InitRows' /\ load'[c].status \in Status
                     /\ HasTerms(c)' =>
                          /\ load'[c].terms \in Quote
                          /\ load'[c].terms.bpp = initRow'[load'[c].init].bpp
                          /\ initRow'[load'[c].init].onInit # None
                     /\ phase'[c] = "ready" => load'[c].order \in OrderId
  <1>t. TypeOK /\ LoadsAgree /\ QuotesAgree
    BY DEF IInv
  <1>k. InitRowsKept
    BY RowsKept
  <1>d. \A i \in InitReq : i # c
    BY DisjointRequests
  \* A call that does not read, and is not put back to a stage of reading.
  <1>u. ASSUME load'[c] = load[c],
               \/ phase'[c] = phase[c]
               \/ /\ phase[c] # "idle"
                  /\ phase'[c] \notin {"idle", "found", "quoted", "ready"}
        PROVE  Goal
    BY <1>t, <1>k, <1>u DEF LoadsAgree, HasTerms, InitRowsKept
  <1>1. ASSUME NEW i \in InitReq, NEW t \in Txn, NEW b \in Bpp, CreateInit(i, t, b)
        PROVE  Goal
    <2>1. load'[c] = load[c] /\ phase'[c] = phase[c]
      BY <1>t, <1>d, <1>1 DEF TypeOK, CreateInit, Move
    <2> QED
      BY <1>u, <2>1
  <1>2. ASSUME NEW d \in ConfirmReq, d # c,
               \/ \E i \in InitReq : ReadInit(d, i)
               \/ ReadSnapshots(d) \/ ReadChildren(d) \/ ReadOrder(d) \/ RejectConfirm(d) \/ CreateConfirm(d)
        PROVE  Goal
    <2>1. load'[c] = load[c]
      BY <1>t, <1>2 DEF TypeOK, ReadInit, ReadSnapshots, ReadChildren, ReadOrder, RejectConfirm,
                        CreateConfirm
    <2>2. \E p : phase' = [phase EXCEPT ![d] = p]
      BY <1>2 DEF ReadInit, ReadSnapshots, ReadChildren, ReadOrder, RejectConfirm, CreateConfirm, Move
    <2>3. phase'[c] = phase[c]
      BY <1>t, <1>2, <2>2 DEF TypeOK
    <2> QED
      BY <1>u, <2>1, <2>3
  <1>3. ASSUME NEW i \in InitReq, ReadInit(c, i) PROVE Goal
    <2>1. i \in InitRows /\ initRow[i].status \in Status
      BY <1>t, <1>3, FullRows DEF ReadInit
    <2>2. /\ load'[c] = [init |-> i, status |-> initRow[i].status,
                         terms |-> None, order |-> None]
          /\ phase'[c] = "read" /\ i \in InitRows'
      BY <1>t, <1>3 DEF TypeOK, ReadInit, Move, Request, InitRows
    <2> QED
      BY <2>1, <2>2 DEF HasTerms
  <1>4. CASE ReadSnapshots(c)
    <2>1. load[c].init \in InitRows /\ load[c].init \in InitReq /\ load[c].status \in Status
      BY <1>t, <1>4 DEF LoadsAgree, ReadSnapshots, InitRows
    <2>2. UNCHANGED initRow /\ InitRows' = InitRows
      BY <1>4 DEF ReadSnapshots, InitRows
    <2>3. /\ load'[c].init = load[c].init /\ load'[c].status = load[c].status
          /\ load'[c].terms = initRow[load[c].init].onInit /\ phase'[c] = "found"
      BY <1>t, <1>4 DEF TypeOK, LoadType, ReadSnapshots, Move, Request
    <2>4. initRow[load[c].init].onInit # None =>
            /\ initRow[load[c].init].onInit \in Quote
            /\ initRow[load[c].init].onInit.bpp = initRow[load[c].init].bpp
      BY <1>t, <2>1, FullRows DEF QuotesAgree
    <2> QED
      BY <2>1, <2>2, <2>3, <2>4 DEF HasTerms
  <1>10. CASE ReadChildren(c)
    <2>1. load[c].init \in InitRows /\ load[c].init \in InitReq /\ load[c].status \in Status
      BY <1>t, <1>10 DEF LoadsAgree, ReadChildren, InitRows
    <2>2. UNCHANGED initRow /\ InitRows' = InitRows /\ phase[c] = "found"
      BY <1>10 DEF ReadChildren, InitRows
    <2>3. CASE load[c].status = "completed" /\ load[c].terms # None
      <3>1. /\ load[c].terms \in Quote
            /\ load[c].terms.bpp = initRow[load[c].init].bpp
            /\ initRow[load[c].init].onInit # None
        BY <1>t, <2>2, <2>3 DEF LoadsAgree, HasTerms
      <3>2. PICK terms \in Fetched(load[c].terms, initRow[load[c].init].onInit) :
              load' = [load EXCEPT ![c].terms = terms]
        BY <1>10, <2>3 DEF ReadChildren
      <3>3. terms \in Quote /\ terms.bpp = load[c].terms.bpp
        BY <3>1, FetchedQuote
      <3>4. /\ load'[c].init = load[c].init /\ load'[c].status = load[c].status
            /\ load'[c].terms = terms
        BY <1>t, <3>2 DEF TypeOK, LoadType
      <3>5. phase'[c] = "quoted"
        BY <1>t, <1>10, <2>3 DEF TypeOK, ReadChildren, Move, Request
      <3> QED
        BY <2>1, <2>2, <3>1, <3>3, <3>4, <3>5
    <2>4. CASE ~(load[c].status = "completed" /\ load[c].terms # None)
      <3>1. load'[c] = load[c] /\ phase'[c] = "done"
        BY <1>t, <1>10, <2>4 DEF TypeOK, ReadChildren, Move, Request
      <3> QED
        BY <1>u, <2>2, <3>1
    <2> QED
      BY <2>3, <2>4
  <1>5. CASE ReadOrder(c)
    <2>1. PICK o \in OrderId : load' = [load EXCEPT ![c].order = o]
      BY <1>5 DEF ReadOrder, OrderIdsFor, OrdersOf
    <2>2. /\ load'[c].init = load[c].init /\ load'[c].status = load[c].status
          /\ load'[c].terms = load[c].terms /\ load'[c].order = o
      BY <1>t, <2>1 DEF TypeOK, LoadType
    <2>3. phase[c] = "quoted" /\ phase'[c] = "ready" /\ UNCHANGED initRow
      BY <1>t, <1>5 DEF TypeOK, ReadOrder, Move, Request
    <2> QED
      BY <1>t, <2>2, <2>3 DEF LoadsAgree, HasTerms, InitRows
  <1>6. CASE RejectConfirm(c) \/ CreateConfirm(c)
    <2>1. /\ load'[c] = load[c] /\ phase[c] = "ready"
          /\ phase'[c] \in {"done", "sending"}
      BY <1>t, <1>6 DEF TypeOK, RejectConfirm, CreateConfirm, Move, Request
    <2> QED
      BY <1>u, <2>1
  <1>7. ASSUME NEW r \in Request, \/ SendOk(r) \/ SendFails(r) \/ MarkSentFails(r)
                                  \/ MarkFailedFails(r) \/ MarkSent(r) \/ MarkFailed(r)
        PROVE  Goal
    <2>1. /\ phase[r] \in {"sending", "acked", "refused"} /\ load' = load
          /\ \E p \in {"acked", "refused", "done"} : phase' = [phase EXCEPT ![r] = p]
      BY <1>7 DEF SendOk, SendFails, MarkSentFails, MarkFailedFails, MarkSent,
                  MarkFailed, Move
    <2>2. \/ phase'[c] = phase[c]
          \/ phase[c] # "idle" /\ phase'[c] \notin {"idle", "found", "quoted", "ready"}
      BY <1>t, <2>1 DEF TypeOK
    <2> QED
      BY <1>u, <2>1, <2>2
  <1>8. CASE Crash
    <2>1. /\ load'[c] = load[c]
          /\ phase'[c] = IF phase[c] = "idle" THEN "idle" ELSE "done"
      BY <1>8 DEF Crash, Request
    <2> QED
      BY <1>u, <2>1
  <1>9. CASE UNCHANGED <<phase, load>>
    BY <1>u, <1>9
  <1> QED
    BY <1>1, <1>2, <1>3, <1>4, <1>5, <1>6, <1>7, <1>8, <1>9, <1>10
       DEF Next, ClientStep, TransportStep, CallbackStep, Reach, OnInit, OnConfirm,
           CommitOnInit, CommitOnConfirm, Acknowledge, AckLost, CommitFails, vars

LEMMA OrderIdsStep == IInv /\ [Next]_vars => OrderIdsAgree'
  <1> SUFFICES ASSUME IInv, [Next]_vars PROVE OrderIdsAgree'
    OBVIOUS
  <1>t. TypeOK /\ OrderIdsAgree /\ LoadsAgree
    BY DEF IInv
  <1>k. InitRowsKept
    BY RowsKept
  \* Nobody reads an order id, and an order that is there keeps its transaction.
  <1>u. ASSUME \A c \in ConfirmReq : load'[c].init = load[c].init
                                     /\ load'[c].order = load[c].order,
               \A o \in OrderId : order'[o] # None =>
                  order[o] # None /\ order'[o].txn = order[o].txn
        PROVE  OrderIdsAgree'
    BY <1>t, <1>k, <1>u DEF OrderIdsAgree, InitRowsKept
  <1>1. ASSUME NEW c \in ConfirmReq, NEW i \in InitReq, ReadInit(c, i)
        PROVE  OrderIdsAgree'
    <2>1. /\ load'[c].order = None
          /\ \A d \in ConfirmReq : d # c => load'[d] = load[d]
          /\ UNCHANGED <<initRow, order>>
      BY <1>t, <1>1 DEF TypeOK, ReadInit
    <2>2. None \notin OrderId
      BY NoneIsNoValue
    <2> QED
      BY <1>t, <2>1, <2>2 DEF OrderIdsAgree, InitRows
  <1>2. ASSUME NEW c \in ConfirmReq, ReadSnapshots(c) PROVE OrderIdsAgree'
    <2>1. \A d \in ConfirmReq : load'[d].init = load[d].init
                                /\ load'[d].order = load[d].order
      BY <1>t, <1>2 DEF TypeOK, ReadSnapshots, LoadType
    <2> QED
      BY <1>2, <1>u, <2>1 DEF ReadSnapshots
  <1>7. ASSUME NEW c \in ConfirmReq, ReadChildren(c) PROVE OrderIdsAgree'
    <2>1. load' = load \/ \E terms : load' = [load EXCEPT ![c].terms = terms]
      BY <1>7 DEF ReadChildren
    <2>2. \A d \in ConfirmReq : load'[d].init = load[d].init
                                /\ load'[d].order = load[d].order
      BY <1>t, <2>1 DEF TypeOK, LoadType
    <2> QED
      BY <1>7, <1>u, <2>2 DEF ReadChildren
  <1>3. ASSUME NEW c \in ConfirmReq, ReadOrder(c) PROVE OrderIdsAgree'
    <2> DEFINE t == initRow[load[c].init].txn
    <2>1. PICK o \in OrderIdsFor(t) : load' = [load EXCEPT ![c].order = o]
      BY <1>3 DEF ReadOrder
    <2>2. /\ \A d \in ConfirmReq : load'[d].init = load[d].init
          /\ \A d \in ConfirmReq : d # c => load'[d].order = load[d].order
          /\ load'[c].order = o
      BY <1>t, <2>1 DEF TypeOK, LoadType
    <2>3. load[c].init \in InitRows
      BY <1>t, <1>3 DEF LoadsAgree, ReadOrder
    <2>4. /\ order[o] # None => order[o].txn = t
          /\ \A d \in ConfirmReq : load[d].order = o => initRow[load[d].init].txn = t
      <3>1. CASE OrdersOf(t) # {}
        BY <1>t, <2>1, <3>1 DEF OrderIdsFor, OrdersOf, OrderIdsAgree
      <3>2. CASE OrdersOf(t) = {}
        BY <2>1, <3>2 DEF OrderIdsFor, Fresh
      <3> QED
        BY <3>1, <3>2
    <2>5. UNCHANGED <<initRow, order>>
      BY <1>3 DEF ReadOrder
    <2> HIDE DEF t
    <2>6. t = initRow[load[c].init].txn
      BY DEF t
    <2> QED
      BY <1>t, <2>2, <2>3, <2>4, <2>5, <2>6 DEF OrderIdsAgree, InitRows
  <1>4. ASSUME NEW c \in ConfirmReq, CreateConfirm(c) PROVE OrderIdsAgree'
    <2>1. load[c].order \in OrderId
      BY <1>t, <1>4 DEF LoadsAgree, HasTerms, CreateConfirm
    <2>2. /\ order'[load[c].order].txn = initRow[load[c].init].txn
          /\ \A o \in OrderId : o # load[c].order => order'[o] = order[o]
          /\ UNCHANGED <<initRow, load>>
      BY <1>t, <1>4, <2>1 DEF TypeOK, CreateConfirm
    <2> QED
      BY <1>t, <2>1, <2>2 DEF OrderIdsAgree, InitRows
  <1>5. ASSUME NEW h \in Handler, CommitOnConfirm(h) PROVE OrderIdsAgree'
    <2>1. \A o \in OrderId : order'[o] # None =>
             order[o] # None /\ order'[o].txn = order[o].txn
      BY <1>5, AcceptedOrder
    <2> QED
      BY <1>5, <1>u, <2>1 DEF CommitOnConfirm
  <1>6. CASE UNCHANGED <<order, load>>
    BY <1>6, <1>u
  <1> QED
    BY <1>1, <1>2, <1>3, <1>4, <1>5, <1>6, <1>7
       DEF Next, ClientStep, TransportStep, CallbackStep, CreateInit, RejectConfirm,
           Reach, SendOk, SendFails, MarkSent, MarkFailed,
           MarkSentFails, MarkFailedFails, OnInit, OnConfirm, CommitOnInit,
           Acknowledge, AckLost, CommitFails, Crash, vars

LEMMA ConfirmRowsStep == IInv /\ [Next]_vars => ConfirmRowsAgree'
  <1> SUFFICES ASSUME IInv, [Next]_vars, NEW c \in ConfirmRows'
               PROVE  /\ initRow'[confRow'[c].src].onInit # None
                      /\ initRow'[confRow'[c].src].txn = confRow'[c].txn
                      /\ initRow'[confRow'[c].src].bpp = confRow'[c].bpp
                      /\ confRow'[c].terms.bpp = confRow'[c].bpp
                      /\ order'[confRow'[c].order] # None
                      /\ order'[confRow'[c].order].txn = confRow'[c].txn
    BY DEF ConfirmRowsAgree
  <1> DEFINE Goal == /\ initRow'[confRow'[c].src].onInit # None
                     /\ initRow'[confRow'[c].src].txn = confRow'[c].txn
                     /\ initRow'[confRow'[c].src].bpp = confRow'[c].bpp
                     /\ confRow'[c].terms.bpp = confRow'[c].bpp
                     /\ order'[confRow'[c].order] # None
                     /\ order'[confRow'[c].order].txn = confRow'[c].txn
  <1>t. TypeOK /\ ConfirmRowsAgree /\ LoadsAgree /\ OrderIdsAgree /\ QuotesAgree
    BY DEF IInv
  <1>k. InitRowsKept /\ ConfirmRowsKept
    BY RowsKept
  \* A row that was there, while its order keeps its transaction.
  <1>u. ASSUME c \in ConfirmRows,
               \A o \in OrderId : order[o] # None =>
                  order'[o] # None /\ order'[o].txn = order[o].txn
        PROVE  Goal
    <2>1. /\ confRow'[c].txn = confRow[c].txn /\ confRow'[c].bpp = confRow[c].bpp
          /\ confRow'[c].order = confRow[c].order /\ confRow'[c].src = confRow[c].src
          /\ confRow'[c].terms = confRow[c].terms
      BY <1>k, <1>u DEF ConfirmRowsKept
    <2>2. confRow[c].order \in OrderId /\ confRow[c].src \in InitRows
      BY <1>t, <1>u, FullRows DEF ConfirmRowsAgree, QuotesAgree
    <2> QED
      BY <1>t, <1>k, <1>u, <2>1, <2>2 DEF ConfirmRowsAgree, InitRowsKept
  <1>1. ASSUME NEW d \in ConfirmReq, CreateConfirm(d) PROVE Goal
    <2>1. /\ load[d].order \in OrderId /\ load[d].init \in InitRows
          /\ load[d].terms.bpp = initRow[load[d].init].bpp
          /\ initRow[load[d].init].onInit # None
          /\ UNCHANGED initRow
      BY <1>t, <1>1 DEF LoadsAgree, HasTerms, CreateConfirm
    <2>2. CASE c = d
      <3>1. /\ confRow'[c].txn = initRow[load[d].init].txn
            /\ confRow'[c].bpp = initRow[load[d].init].bpp
            /\ confRow'[c].order = load[d].order /\ confRow'[c].src = load[d].init
            /\ confRow'[c].terms = load[d].terms
        <4>1. confRow'[d] =
                [status |-> "pending", txn |-> initRow[load[d].init].txn,
                 bpp |-> initRow[load[d].init].bpp, order |-> load[d].order,
                 src |-> load[d].init, terms |-> load[d].terms, answer |-> None]
          BY <1>1, NewConfirmRow
        <4> QED
          BY <2>2, <4>1
      <3>2. /\ order'[load[d].order] # None
            /\ order'[load[d].order].txn = initRow[load[d].init].txn
        BY <1>1, WrittenOrder
      <3> QED
        BY <2>1, <3>1, <3>2
    <2>3. CASE c # d
      <3>1. c \in ConfirmRows
        BY <1>1, <2>3, NewConfirmRow
      <3>2. \A o \in OrderId : order[o] # None =>
              order'[o] # None /\ order'[o].txn = order[o].txn
        <4>1. order[load[d].order] # None =>
                order[load[d].order].txn = initRow[load[d].init].txn
          BY <1>t, <2>1 DEF OrderIdsAgree
        <4> QED
          BY <1>1, <4>1, WrittenOrder
      <3> QED
        BY <1>u, <3>1, <3>2
    <2> QED
      BY <2>2, <2>3
  <1>2. ASSUME NEW h \in Handler, CommitOnConfirm(h) PROVE Goal
    <2>1. c \in ConfirmRows
      BY <1>2, AnsweredConfirm
    <2> QED
      BY <1>2, <1>u, <2>1, AcceptedOrder
  <1>3. ASSUME NEW r \in Request, MarkSent(r) \/ MarkFailed(r) PROVE Goal
    <2>1. PICK s \in Status : UpdateStatus(r, s)
      BY <1>3 DEF MarkSent, MarkFailed, Status
    <2>2. c \in ConfirmRows /\ UNCHANGED order
      BY <1>t, <1>3, <2>1, StatusWriteKeeps DEF MarkSent, MarkFailed
    <2> QED
      BY <1>u, <2>2
  <1>4. CASE UNCHANGED <<confRow, order>>
    <2>1. c \in ConfirmRows
      BY <1>4 DEF ConfirmRows
    <2> QED
      BY <1>u, <1>4, <2>1
  <1> QED
    BY <1>1, <1>2, <1>3, <1>4
       DEF Next, ClientStep, TransportStep, CallbackStep, CreateInit, ReadInit,
           ReadSnapshots, ReadChildren, ReadOrder, RejectConfirm, Reach, SendOk, SendFails,
           MarkSentFails, MarkFailedFails, OnInit, OnConfirm, CommitOnInit,
           Acknowledge, AckLost, CommitFails, Crash, vars

\* What JobsAgree says of one job.
JobAgrees(j) ==
  /\ j.action = "init" =>
       /\ j.row \in InitRows
       /\ j.quote # None => j.quote.bpp = initRow[j.row].bpp /\ j.quote.whole
  /\ j.action = "confirm" =>
       /\ j.row \in ConfirmRows /\ j.of \in ConfirmRows
       /\ confRow[j.row].txn = confRow[j.of].txn
       /\ confRow[j.row].bpp = confRow[j.of].bpp
       /\ j.error \/ confRow[j.row].order = confRow[j.of].order

LEMMA JobsStep == IInv /\ [Next]_vars => JobsAgree'
  <1> SUFFICES ASSUME IInv, [Next]_vars PROVE JobsAgree'
    OBVIOUS
  <1>t. TypeOK /\ JobsAgree /\ StagesAgree
    BY DEF IInv
  <1>k. InitRowsKept /\ ConfirmRowsKept
    BY RowsKept
  <1>d. \A m \in ConfirmReq : m \notin InitReq
    BY DisjointRequests
  \* What was found stays true.
  <1>j. ASSUME NEW j, JobAgrees(j) PROVE JobAgrees(j)'
    BY <1>k, <1>j DEF JobAgrees, InitRowsKept, ConfirmRowsKept
  <1>u. ASSUME NEW h \in Handler, JobAgrees(job'[h]) \/ job'[h] = None,
               \A g \in Handler : g # h => job'[g] = job[g]
        PROVE  JobsAgree'
    <2>1. ASSUME NEW g \in Handler, job'[g] # None PROVE JobAgrees(job'[g])
      BY <1>t, <1>u, <2>1 DEF JobsAgree, JobAgrees
    <2>2. ASSUME NEW g \in Handler, job'[g] # None PROVE JobAgrees(job[g])'
      BY <1>j, <2>1, <2>2 DEF JobAgrees
    <2> QED
      BY <2>2 DEF JobsAgree, JobAgrees
  <1>1. ASSUME NEW h \in Handler, NEW i \in InitReq, NEW b \in Bpp,
               NEW error \in BOOLEAN, OnInit(h, i, b, error)
        PROVE  JobsAgree'
    <2>1. PICK q \in OnInitContent(h, b, error) :
             job' = [job EXCEPT ![h] = [action |-> "init", row |-> i, error |-> error,
                                        quote |-> q, stage |-> "matched"]]
      BY <1>1 DEF OnInit
    <2>2. i \in InitRows /\ initRow[i].bpp = b /\ (q # None => q.bpp = b /\ q.whole)
      BY <1>t, <1>1 DEF OnInit, StagesAgree, Sent, OnInitContent
    <2>3. JobAgrees(job'[h]) /\ \A g \in Handler : g # h => job'[g] = job[g]
      BY <1>t, <2>1, <2>2 DEF TypeOK, JobAgrees
    <2> QED
      BY <1>u, <2>3
  <1>2. ASSUME NEW h \in Handler, NEW m \in ConfirmReq, NEW named \in BOOLEAN,
               NEW error \in BOOLEAN, NEW msg \in {m} \cup LspMsg,
               OnConfirm(h, m, msg, named, error)
        PROVE  JobsAgree'
    <2>1. PICK c \in ConfirmMatches(m, named) :
             /\ confRow[c].bpp = confRow[m].bpp
             /\ job' = [job EXCEPT ![h] = [action |-> "confirm", row |-> c, of |-> m,
                                           msg |-> msg, error |-> error,
                                           stage |-> "matched"]]
      BY <1>2 DEF OnConfirm
    <2>2. /\ m \in ConfirmRows /\ c \in ConfirmRows
          /\ confRow[c].txn = confRow[m].txn
          /\ error \/ confRow[c].order = confRow[m].order
      BY <1>t, <1>d, <1>2, <2>1 DEF OnConfirm, StagesAgree, Sent, ConfirmMatches
    <2>3. JobAgrees(job'[h]) /\ \A g \in Handler : g # h => job'[g] = job[g]
      BY <1>t, <2>1, <2>2 DEF TypeOK, JobAgrees
    <2> QED
      BY <1>u, <2>3
  <1>3. ASSUME NEW h \in Handler, CommitOnInit(h) \/ CommitOnConfirm(h) PROVE JobsAgree'
    <2>1. job[h] # None /\ job' = [job EXCEPT ![h].stage = "committed"]
      BY <1>3 DEF CommitOnInit, CommitOnConfirm, Committed, Idle
    <2>2. job'[h] = [job[h] EXCEPT !.stage = "committed"]
          /\ \A g \in Handler : g # h => job'[g] = job[g]
      BY <1>t, <2>1 DEF TypeOK
    <2>3. JobAgrees(job[h])
      BY <1>t, <2>1 DEF JobsAgree, JobAgrees
    <2>4. JobAgrees(job'[h])
      <3>1. CASE job[h].action = "init"
        <4>1. /\ job'[h].action = "init" /\ job'[h].row = job[h].row
              /\ job'[h].quote = job[h].quote
          BY <1>t, <2>1, <2>2, <3>1, FullJobs
        <4> QED
          BY <2>3, <3>1, <4>1 DEF JobAgrees
      <3>2. CASE job[h].action = "confirm"
        <4>1. /\ job'[h].action = "confirm" /\ job'[h].row = job[h].row
              /\ job'[h].of = job[h].of /\ job'[h].error = job[h].error
          BY <1>t, <2>1, <2>2, <3>2, FullJobs
        <4> QED
          BY <2>3, <3>2, <4>1 DEF JobAgrees
      <3> QED
        BY <1>t, <2>1, <3>1, <3>2, FullJobs
    <2> QED
      BY <1>u, <2>2, <2>4
  <1>4. ASSUME NEW h \in Handler, Acknowledge(h) \/ AckLost(h) \/ CommitFails(h)
        PROVE  JobsAgree'
    <2>1. job'[h] = None /\ \A g \in Handler : g # h => job'[g] = job[g]
      BY <1>t, <1>4 DEF TypeOK, Acknowledge, AckLost, CommitFails, Leave
    <2> QED
      BY <1>u, <2>1
  <1>5. CASE Crash
    BY <1>5 DEF Crash, JobsAgree
  <1>6. CASE UNCHANGED job
    <2>1. ASSUME NEW h \in Handler, job[h] # None PROVE JobAgrees(job[h])
      BY <1>t, <2>1 DEF JobsAgree, JobAgrees
    <2>2. ASSUME NEW h \in Handler, job'[h] # None PROVE JobAgrees(job[h])'
      BY <1>6, <1>j, <2>1, <2>2 DEF JobAgrees
    <2> QED
      BY <2>2 DEF JobsAgree, JobAgrees
  <1> QED
    BY <1>1, <1>2, <1>3, <1>4, <1>5, <1>6
       DEF Next, ClientStep, TransportStep, CallbackStep, CreateInit, ReadInit,
           ReadSnapshots, ReadChildren, ReadOrder, RejectConfirm, CreateConfirm, Reach, SendOk,
           SendFails, MarkSent, MarkFailed, MarkSentFails, MarkFailedFails, vars

LEMMA OrdersStep == IInv /\ [Next]_vars => OrderRestsOnQuote'
  <1> SUFFICES ASSUME IInv, [Next]_vars, NEW o \in OrderId, order'[o] # None
               PROVE  /\ initRow'[order'[o].src].onInit # None
                      /\ initRow'[order'[o].src].txn = order'[o].txn
                      /\ initRow'[order'[o].src].bpp = order'[o].bpp
                      /\ order'[o].terms.bpp = order'[o].bpp
    BY DEF OrderRestsOnQuote
  <1> DEFINE Goal == /\ initRow'[order'[o].src].onInit # None
                     /\ initRow'[order'[o].src].txn = order'[o].txn
                     /\ initRow'[order'[o].src].bpp = order'[o].bpp
                     /\ order'[o].terms.bpp = order'[o].bpp
  <1>t. TypeOK /\ OrderRestsOnQuote /\ QuotesAgree /\ ConfirmRowsAgree
    BY DEF IInv
  <1>k. InitRowsKept
    BY RowsKept
  <1>u. ASSUME order'[o] = order[o] PROVE Goal
    <2>1. /\ initRow[order[o].src].onInit # None
          /\ initRow[order[o].src].txn = order[o].txn
          /\ initRow[order[o].src].bpp = order[o].bpp
          /\ order[o].terms.bpp = order[o].bpp
      BY <1>t, <1>u DEF OrderRestsOnQuote
    <2>2. order[o].src \in InitRows
      BY <1>t, <1>u, <2>1 DEF TypeOK, OrderType, QuotesAgree
    <2> QED
      BY <1>k, <1>u, <2>1, <2>2 DEF InitRowsKept
  <1>1. ASSUME NEW c \in ConfirmReq, CreateConfirm(c) PROVE Goal
    <2>1. CASE o # load[c].order
      <3>1. order'[o] = order[o]
        BY <1>1, <2>1, WrittenOrder
      <3> QED
        BY <1>u, <3>1
    <2>2. CASE o = load[c].order
      <3>1. /\ load[c].terms.bpp = initRow[load[c].init].bpp
            /\ initRow[load[c].init].onInit # None
            /\ UNCHANGED initRow
        BY <1>1 DEF IInv, LoadsAgree, HasTerms, CreateConfirm
      <3> QED
        BY <1>1, <2>2, <3>1, WrittenOrder
    <2> QED
      BY <2>1, <2>2
  <1>2. ASSUME NEW h \in Handler, CommitOnConfirm(h) PROVE Goal
    <2> DEFINE c == job[h].row
               m == job[h].of
    <2>1. CASE order'[o] = order[o]
      BY <1>u, <2>1
    <2>2. CASE order'[o] # order[o]
      <3>1. /\ job[h] # None /\ job[h].action = "confirm"
            /\ UNCHANGED initRow
        BY <1>2 DEF CommitOnConfirm, Idle
      <3>2. /\ c \in ConfirmRows /\ m \in ConfirmRows
            /\ confRow[c].txn = confRow[m].txn
        BY <3>1 DEF IInv, JobsAgree
      <3>3. /\ o = confRow[c].order
            /\ order'[o].txn = order[o].txn /\ order'[o].bpp = confRow[m].bpp
            /\ order'[o].src = confRow[m].src /\ order'[o].terms = confRow[m].terms
        BY <1>2, <2>2, AcceptedOrder
      <3>4. order[o].txn = confRow[m].txn
        BY <1>t, <3>2, <3>3 DEF ConfirmRowsAgree
      <3> QED
        BY <1>t, <3>1, <3>2, <3>3, <3>4 DEF ConfirmRowsAgree
    <2> QED
      BY <2>1, <2>2
  <1>3. CASE UNCHANGED order
    BY <1>3, <1>u
  <1> QED
    BY <1>1, <1>2, <1>3
       DEF Next, ClientStep, TransportStep, CallbackStep, CreateInit, ReadInit,
           ReadSnapshots, ReadChildren, ReadOrder, RejectConfirm, Reach, SendOk, SendFails,
           MarkSent, MarkFailed, MarkSentFails, MarkFailedFails, OnInit, OnConfirm,
           CommitOnInit, Acknowledge, AckLost, CommitFails, Crash, vars

LEMMA RowsAndOrdersStep == IInv /\ [Next]_vars => RowsAndOrdersAgree'
  <1> SUFFICES ASSUME IInv, [Next]_vars PROVE RowsAndOrdersAgree'
    OBVIOUS
  <1>t. TypeOK /\ RowsAndOrdersAgree
    BY DEF IInv
  <1>k. ConfirmRowsKept
    BY RowsKept
  <1>1. ASSUME NEW c \in ConfirmRows'
        PROVE  /\ confRow'[c].order \in OrderId
               /\ order'[confRow'[c].order] # None
               /\ order'[confRow'[c].order].txn = confRow'[c].txn
    <2>1. TypeOK' /\ ConfirmRowsAgree'
      BY TypeStep, ConfirmRowsStep
    <2>2. \A x \in ConfRowType : x.status # "none" => x.order \in OrderId
      BY DEF ConfRowType, NoConfRow
    <2> QED
      BY <2>1, <2>2 DEF TypeOK, ConfirmRowsAgree, ConfirmRows
  \* An order that was there has kept its row.
  <1>2. ASSUME NEW o \in OrderId, order[o] # None, order'[o].txn = order[o].txn
        PROVE  \E c \in ConfirmRows' : confRow'[c].order = o
                                        /\ confRow'[c].txn = order'[o].txn
    BY <1>t, <1>k, <1>2 DEF RowsAndOrdersAgree, ConfirmRowsKept
  <1>3. ASSUME NEW o \in OrderId, order'[o] # None
        PROVE  \E c \in ConfirmRows' : confRow'[c].order = o
                                        /\ confRow'[c].txn = order'[o].txn
    <2>1. CASE order'[o] = order[o]
      BY <1>2, <1>3, <2>1
    <2>2. ASSUME NEW c \in ConfirmReq, CreateConfirm(c), order'[o] # order[o]
          PROVE  \E d \in ConfirmRows' : confRow'[d].order = o
                                          /\ confRow'[d].txn = order'[o].txn
      <3>1. o = load[c].order /\ order'[o].txn = initRow[load[c].init].txn
        BY <2>2, WrittenOrder
      <3>2. confRow'[c] =
              [status |-> "pending", txn |-> initRow[load[c].init].txn,
               bpp |-> initRow[load[c].init].bpp, order |-> load[c].order,
               src |-> load[c].init, terms |-> load[c].terms, answer |-> None]
            /\ c \in ConfirmRows'
        BY <2>2, NewConfirmRow
      <3> QED
        BY <3>1, <3>2
    <2>3. ASSUME NEW h \in Handler, CommitOnConfirm(h), order'[o] # order[o]
          PROVE  \E d \in ConfirmRows' : confRow'[d].order = o
                                          /\ confRow'[d].txn = order'[o].txn
      <3>1. order[o] # None /\ order'[o].txn = order[o].txn
        BY <2>3, AcceptedOrder
      <3> QED
        BY <1>2, <3>1
    <2> QED
      BY <2>1, <2>2, <2>3
         DEF Next, ClientStep, TransportStep, CallbackStep, CreateInit, ReadInit,
             ReadSnapshots, ReadChildren, ReadOrder, RejectConfirm, Reach, SendOk, SendFails,
             MarkSent, MarkFailed, MarkSentFails, MarkFailedFails, OnInit, OnConfirm,
             CommitOnInit, Acknowledge, AckLost, CommitFails, Crash, vars
  <1> QED
    BY <1>1, <1>3 DEF RowsAndOrdersAgree, OrdersOf

LEMMA IInvInit == Init => IInv
  <1> SUFFICES ASSUME Init PROVE IInv
    OBVIOUS
  <1>1. InitRows = {} /\ ConfirmRows = {}
    BY DEF Init, InitRows, ConfirmRows, NoInitRow, NoConfRow
  <1>2. \A i \in InitReq : initRow[i].onInit = None
    BY DEF Init, NoInitRow
  <1>3. \A c \in ConfirmReq : load[c].order \notin OrderId /\ phase[c] = "idle"
                               /\ load[c] = NoLoad
    BY NoneIsNoValue DEF Init, NoLoad, Request
  <1>4. TypeOK
    BY TypeInit
  <1> QED
    BY <1>1, <1>2, <1>3, <1>4
       DEF Init, IInv, StagesAgree, QuotesAgree, LoadsAgree, HasTerms, OrderIdsAgree,
           ConfirmRowsAgree, JobsAgree, OrderRestsOnQuote, RowsAndOrdersAgree

THEOREM Inductive == Spec => []IInv
  <1>1. IInv /\ [Next]_vars => IInv'
    BY TypeStep, StagesStep, QuotesStep, LoadsStep, OrderIdsStep, ConfirmRowsStep,
       JobsStep, OrdersStep, RowsAndOrdersStep DEF IInv
  <1> QED
    BY <1>1, IInvInit, PTL DEF Spec

------------------------------------------------------------------------------
(* The theorems                                                            *)

\* Every variable keeps its type, whatever the interleaving of calls,
\* callbacks, failures and restarts.
THEOREM TypeCorrect == Spec => []TypeOK
  <1>1. IInv => TypeOK
    BY DEF IInv
  <1> QED
    BY <1>1, Inductive, PTL

\* /confirm (repositories/confirm.repository.ts) never books an /init that
\* no LSP quoted for, and no order passes to another LSP's quote.
THEOREM OrdersRest == Spec => []OrderRestsOnQuote
  <1>1. IInv => OrderRestsOnQuote
    BY DEF IInv
  <1> QED
    BY <1>1, Inductive, PTL

\* Confirm rows and orders are written together: neither is ever there
\* without the other, across restarts.
THEOREM RowsAndOrders == Spec => []RowsAndOrdersAgree
  <1>1. IInv => RowsAndOrdersAgree
    BY DEF IInv
  <1> QED
    BY <1>1, Inductive, PTL

------------------------------------------------------------------------------
(* One order per transaction, for clients that do not overlap /confirm     *)

\* The orders of a transaction change only by CreateConfirm.
LEMMA OrdersOfKept ==
  ASSUME IInv, [Next]_vars, \A c \in ConfirmReq : ~CreateConfirm(c), NEW t
  PROVE  OrdersOf(t)' = OrdersOf(t)
  <1>1. ASSUME NEW h \in Handler, CommitOnConfirm(h)
        PROVE  \A o \in OrderId : /\ (order'[o] # None) = (order[o] # None)
                                  /\ order'[o].txn = order[o].txn
    BY <1>1, AcceptedOrder
  <1>2. CASE UNCHANGED order
    BY <1>2 DEF OrdersOf
  <1> QED
    BY <1>1, <1>2
       DEF OrdersOf, Next, ClientStep, TransportStep, CallbackStep, CreateInit, ReadInit,
           ReadSnapshots, ReadChildren, ReadOrder, RejectConfirm, Reach, SendOk, SendFails,
           MarkSent, MarkFailed, MarkSentFails, MarkFailedFails, OnInit, OnConfirm,
           CommitOnInit, Acknowledge, AckLost, CommitFails, Crash, vars

\* The transaction a /confirm in flight is for.
LoadTxn(c) == initRow[load[c].init].txn

OneInFlight ==
  \A c, d \in ConfirmReq :
     InFlight(c) /\ InFlight(d) /\ c # d => LoadTxn(c) # LoadTxn(d)

ReadyForTheOrder ==
  \A c \in ConfirmReq : phase[c] = "ready" =>
     \A o \in OrdersOf(LoadTxn(c)) : o = load[c].order

SerialInv == IInv /\ OneInFlight /\ ReadyForTheOrder /\ OneOrderPerTransaction

\* What a step other than reading does to the calls.
LEMMA CallsKept ==
  ASSUME IInv, [Next]_vars, NEW c \in ConfirmReq,
         \A i \in InitReq : ~ReadInit(c, i)
  PROVE  /\ InFlight(c)' => InFlight(c) /\ LoadTxn(c)' = LoadTxn(c)
         /\ phase'[c] = "ready" =>
              \/ ReadOrder(c)
              \/ phase[c] = "ready" /\ load'[c] = load[c]
  <1>t. TypeOK /\ LoadsAgree
    BY DEF IInv
  <1>k. InitRowsKept
    BY RowsKept
  <1>1. InFlight(c) => load[c].init \in InitRows
    BY <1>t DEF LoadsAgree, InFlight
  <1>u. ASSUME load'[c] = load[c], phase'[c] = phase[c] \/ phase[c] # "idle",
               phase'[c] = "ready" => phase[c] = "ready",
               InFlight(c)' => InFlight(c)
        PROVE  /\ InFlight(c)' => InFlight(c) /\ LoadTxn(c)' = LoadTxn(c)
               /\ phase'[c] = "ready" =>
                    \/ ReadOrder(c)
                    \/ phase[c] = "ready" /\ load'[c] = load[c]
    BY <1>k, <1>1, <1>u DEF LoadTxn, InitRowsKept
  <1>2. CASE UNCHANGED <<phase, load>>
    BY <1>u, <1>2 DEF InFlight
  <1>3. ASSUME NEW i \in InitReq, NEW t \in Txn, NEW b \in Bpp, CreateInit(i, t, b)
        PROVE  load'[c] = load[c] /\ phase'[c] = phase[c]
    BY <1>t, <1>3, DisjointRequests DEF TypeOK, CreateInit, Move
  <1>4. ASSUME NEW d \in ConfirmReq, d # c,
               \/ \E i \in InitReq : ReadInit(d, i)
               \/ ReadSnapshots(d) \/ ReadChildren(d) \/ ReadOrder(d) \/ RejectConfirm(d) \/ CreateConfirm(d)
        PROVE  load'[c] = load[c] /\ phase'[c] = phase[c]
    <2>1. load'[c] = load[c]
      BY <1>t, <1>4 DEF TypeOK, ReadInit, ReadSnapshots, ReadChildren, ReadOrder, RejectConfirm,
                        CreateConfirm
    <2>2. \E p : phase' = [phase EXCEPT ![d] = p]
      BY <1>4 DEF ReadInit, ReadSnapshots, ReadChildren, ReadOrder, RejectConfirm, CreateConfirm, Move
    <2> QED
      BY <1>t, <1>4, <2>1, <2>2 DEF TypeOK
  <1>5. CASE ReadSnapshots(c)
    <2>1. load'[c].init = load[c].init /\ UNCHANGED initRow
      BY <1>t, <1>5 DEF TypeOK, ReadSnapshots, LoadType
    <2>2. phase[c] = "read" /\ phase'[c] = "found"
      BY <1>t, <1>5 DEF TypeOK, ReadSnapshots, Move, Request
    <2> QED
      BY <2>1, <2>2 DEF InFlight, LoadTxn
  <1>10. CASE ReadChildren(c)
    <2>1. load' = load \/ \E terms : load' = [load EXCEPT ![c].terms = terms]
      BY <1>10 DEF ReadChildren
    <2>2. load'[c].init = load[c].init /\ UNCHANGED initRow
      BY <1>t, <1>10, <2>1 DEF TypeOK, ReadChildren, LoadType
    <2>3. phase[c] = "found" /\ phase'[c] \in {"quoted", "done"}
      BY <1>t, <1>10 DEF TypeOK, ReadChildren, Move, Request
    <2> QED
      BY <2>2, <2>3 DEF InFlight, LoadTxn
  <1>6. CASE ReadOrder(c)
    <2>1. load'[c].init = load[c].init /\ UNCHANGED initRow
      BY <1>t, <1>6 DEF TypeOK, ReadOrder, LoadType
    <2>2. phase[c] = "quoted" /\ phase'[c] = "ready"
      BY <1>t, <1>6 DEF TypeOK, ReadOrder, Move, Request
    <2> QED
      BY <1>6, <2>1, <2>2 DEF InFlight, LoadTxn
  <1>7. CASE RejectConfirm(c) \/ CreateConfirm(c)
    <2>1. load'[c] = load[c] /\ phase[c] = "ready" /\ phase'[c] \in {"done", "sending"}
      BY <1>t, <1>7 DEF TypeOK, RejectConfirm, CreateConfirm, Move, Request
    <2> QED
      BY <1>u, <2>1 DEF InFlight
  <1>8. ASSUME NEW r \in Request, \/ SendOk(r) \/ SendFails(r) \/ MarkSentFails(r)
                                  \/ MarkFailedFails(r) \/ MarkSent(r) \/ MarkFailed(r)
        PROVE  /\ load'[c] = load[c]
               /\ \/ phase'[c] = phase[c]
                  \/ /\ phase[c] \in {"sending", "acked", "refused"}
                     /\ phase'[c] \in {"acked", "refused", "done"}
    <2>1. /\ phase[r] \in {"sending", "acked", "refused"} /\ load' = load
          /\ \E p \in {"acked", "refused", "done"} : phase' = [phase EXCEPT ![r] = p]
      BY <1>8 DEF SendOk, SendFails, MarkSentFails, MarkFailedFails, MarkSent,
                  MarkFailed, Move
    <2> QED
      BY <1>t, <2>1 DEF TypeOK
  <1>9. CASE Crash
    <2>1. /\ load'[c] = load[c]
          /\ phase'[c] = IF phase[c] = "idle" THEN "idle" ELSE "done"
      BY <1>9 DEF Crash, Request
    <2> QED
      BY <1>u, <2>1 DEF InFlight
  <1> QED
    BY <1>u, <1>2, <1>3, <1>4, <1>5, <1>6, <1>7, <1>8, <1>9, <1>10
       DEF InFlight, Next, ClientStep, TransportStep, CallbackStep, Reach, OnInit,
           OnConfirm, CommitOnInit, CommitOnConfirm, Acknowledge, AckLost,
           CommitFails, vars

LEMMA OneInFlightStep ==
  ASSUME SerialClient, SerialInv, [Next]_vars
  PROVE  OneInFlight'
  <1> SUFFICES ASSUME NEW c \in ConfirmReq, NEW d \in ConfirmReq, c # d,
                      InFlight(c)', InFlight(d)'
               PROVE  LoadTxn(c)' # LoadTxn(d)'
    BY DEF OneInFlight
  <1>t. IInv /\ TypeOK /\ LoadsAgree /\ OneInFlight
    BY DEF SerialInv, IInv
  \* A call begins while another one is in flight.
  <1>1. ASSUME NEW a \in ConfirmReq, NEW b \in ConfirmReq, a # b,
               NEW i \in InitReq, ReadInit(a, i), InFlight(b)'
        PROVE  LoadTxn(a)' # LoadTxn(b)'
    <2>1. \A j \in InitReq : ~ReadInit(b, j)
      <3>1. phase' = [phase EXCEPT ![a] = "read"]
        BY <1>1 DEF ReadInit, Move
      <3>2. SUFFICES ASSUME NEW j \in InitReq, ReadInit(b, j) PROVE FALSE
        OBVIOUS
      <3>3. phase[b] = "idle" /\ phase' = [phase EXCEPT ![b] = "read"]
        BY <3>2 DEF ReadInit, Move
      <3> QED
        BY <1>t, <1>1, <3>1, <3>3 DEF TypeOK, Request
    <2>2. InFlight(b) /\ LoadTxn(b)' = LoadTxn(b)
      BY <1>t, <1>1, <2>1, CallsKept
    <2>3. LoadTxn(a)' = initRow[i].txn
      BY <1>t, <1>1 DEF TypeOK, ReadInit, LoadTxn
    <2>4. LoadTxn(b) # initRow[i].txn
      BY <1>1, <2>2 DEF ReadInit, LoadTxn
    <2> QED
      BY <2>2, <2>3, <2>4
  <1>2. CASE \E i \in InitReq : ReadInit(c, i)
    BY <1>1, <1>2
  <1>3. CASE \E i \in InitReq : ReadInit(d, i)
    BY <1>1, <1>3
  <1>4. CASE \A i \in InitReq : ~ReadInit(c, i) /\ ~ReadInit(d, i)
    <2>1. /\ InFlight(c) /\ LoadTxn(c)' = LoadTxn(c)
          /\ InFlight(d) /\ LoadTxn(d)' = LoadTxn(d)
      BY <1>t, <1>4, CallsKept
    <2> QED
      BY <1>t, <2>1 DEF OneInFlight
  <1> QED
    BY <1>2, <1>3, <1>4

LEMMA ReadyStep ==
  ASSUME SerialClient, SerialInv, [Next]_vars
  PROVE  ReadyForTheOrder'
  <1> SUFFICES ASSUME NEW c \in ConfirmReq, phase'[c] = "ready",
                      NEW o \in OrdersOf(LoadTxn(c))'
               PROVE  o = load'[c].order
    BY DEF ReadyForTheOrder
  <1>t. IInv /\ TypeOK /\ OneInFlight /\ ReadyForTheOrder /\ OneOrderPerTransaction
    BY DEF SerialInv, IInv
  <1>1. \A i \in InitReq : ~ReadInit(c, i)
    BY <1>t DEF TypeOK, ReadInit, Move, Request
  <1>2. /\ InFlight(c) /\ LoadTxn(c)' = LoadTxn(c)
        /\ ReadOrder(c) \/ (phase[c] = "ready" /\ load'[c] = load[c])
    BY <1>t, <1>1, CallsKept DEF InFlight
  <1>3. CASE ReadOrder(c)
    <2>1. PICK p \in OrderIdsFor(LoadTxn(c)) : load' = [load EXCEPT ![c].order = p]
      BY <1>3 DEF ReadOrder, LoadTxn
    <2>2. load'[c].order = p
      BY <1>t, <2>1 DEF TypeOK, LoadType
    <2>3. o \in OrdersOf(LoadTxn(c))
      BY <1>2, <1>3 DEF ReadOrder, OrdersOf
    <2>4. p \in OrdersOf(LoadTxn(c))
      BY <2>1, <2>3 DEF OrderIdsFor
    <2> QED
      BY <1>t, <2>2, <2>3, <2>4 DEF OrdersOf, OneOrderPerTransaction
  <1>4. CASE phase[c] = "ready" /\ load'[c] = load[c]
    <2>1. o \in OrdersOf(LoadTxn(c))
      <3>1. CASE \A d \in ConfirmReq : ~CreateConfirm(d)
        BY <1>t, <1>2, <3>1, OrdersOfKept DEF OrdersOf
      <3>2. ASSUME NEW d \in ConfirmReq, CreateConfirm(d)
            PROVE  o \in OrdersOf(LoadTxn(c))
        <4>1. c # d
          BY <1>t, <3>2 DEF TypeOK, CreateConfirm, Move, Request
        <4>2. InFlight(d)
          BY <3>2 DEF CreateConfirm, InFlight
        <4>3. LoadTxn(d) # LoadTxn(c)
          BY <1>t, <1>2, <4>1, <4>2 DEF OneInFlight
        <4>4. order'[load[d].order].txn = LoadTxn(d)
              /\ \A p \in OrderId : p # load[d].order => order'[p] = order[p]
          BY <1>t, <3>2, WrittenOrder DEF LoadTxn
        <4> QED
          BY <1>2, <4>3, <4>4 DEF OrdersOf
      <3> QED
        BY <3>1, <3>2
    <2> QED
      BY <1>t, <1>4, <2>1 DEF ReadyForTheOrder
  <1> QED
    BY <1>2, <1>3, <1>4

LEMMA OneOrderStep ==
  ASSUME SerialClient, SerialInv, [Next]_vars
  PROVE  OneOrderPerTransaction'
  <1>t. IInv /\ ReadyForTheOrder /\ OneOrderPerTransaction
    BY DEF SerialInv
  <1> SUFFICES ASSUME NEW t, NEW o1 \in OrdersOf(t)', NEW o2 \in OrdersOf(t)'
               PROVE  o1 = o2
    BY DEF OneOrderPerTransaction, OrdersOf
  <1>1. ASSUME NEW c \in ConfirmReq, CreateConfirm(c) PROVE o1 = o2
    <2>1. phase[c] = "ready"
      BY <1>1 DEF CreateConfirm
    <2>2. order'[load[c].order].txn = LoadTxn(c)
          /\ \A p \in OrderId : p # load[c].order => order'[p] = order[p]
      BY <1>t, <1>1, WrittenOrder DEF LoadTxn
    <2>3. CASE t = LoadTxn(c)
      <3>1. ASSUME NEW o \in OrdersOf(t)' PROVE o = load[c].order
        BY <1>t, <2>1, <2>2, <2>3, <3>1 DEF ReadyForTheOrder, OrdersOf
      <3> QED
        BY <3>1
    <2>4. CASE t # LoadTxn(c)
      <3>1. ASSUME NEW o \in OrdersOf(t)' PROVE o \in OrdersOf(t)
        BY <2>2, <2>4, <3>1 DEF OrdersOf
      <3> QED
        BY <1>t, <3>1 DEF OneOrderPerTransaction, OrdersOf
    <2> QED
      BY <2>3, <2>4
  <1>2. CASE \A c \in ConfirmReq : ~CreateConfirm(c)
    <2>1. OrdersOf(t)' = OrdersOf(t)
      BY <1>t, <1>2, OrdersOfKept
    <2> QED
      BY <1>t, <2>1 DEF OneOrderPerTransaction, OrdersOf
  <1> QED
    BY <1>1, <1>2

\* A client that does not overlap the /confirm calls of a transaction gets
\* one order per transaction, however often it retries and whatever fails or
\* restarts in between (loadInitialized finds the order of the first attempt).
THEOREM OneOrder == SerialClient => (Spec => []OneOrderPerTransaction)
  <1> SUFFICES ASSUME SerialClient PROVE Spec => []OneOrderPerTransaction
    OBVIOUS
  <1>1. Init => SerialInv
    <2> SUFFICES ASSUME Init PROVE SerialInv
      OBVIOUS
    <2>1. IInv
      BY IInvInit
    <2>2. \A c \in ConfirmReq : phase[c] = "idle"
      BY DEF Init, Request
    <2> QED
      BY <2>1, <2>2
         DEF Init, SerialInv, OneInFlight, InFlight, ReadyForTheOrder, OneOrderPerTransaction
  <1>2. SerialInv /\ IInv' /\ [Next]_vars => SerialInv'
    BY OneInFlightStep, ReadyStep, OneOrderStep DEF SerialInv
  <1>3. SerialInv => OneOrderPerTransaction
    BY DEF SerialInv
  <1> QED
    BY <1>1, <1>2, <1>3, Inductive, PTL DEF Spec

------------------------------------------------------------------------------
(* Booking implements OrderBook                                            *)

LEMMA RefinementInit == Init => OB!ObInit
  <1>1. NoInitRow.onInit = None
    BY DEF NoInitRow
  <1> QED
    BY <1>1 DEF Init, OB!ObInit

LEMMA RefinementStep ==
  ASSUME IInv, [Next]_vars
  PROVE  [OB!ObNext]_(OB!obVars)
  <1> DEFINE Quoted == [i \in InitReq |->
                          IF initRow[i].onInit # None THEN initRow[i].txn ELSE None]
             Book == [o \in OrderId |->
                        IF order[o] = None THEN None
                        ELSE [txn |-> order[o].txn, src |-> order[o].src]]
  <1>t. TypeOK /\ QuotesAgree
    BY DEF IInv
  <1>n. None \notin Txn
    BY NoneIsNoValue
  <1>u. ASSUME Quoted' = Quoted, Book' = Book PROVE [OB!ObNext]_(OB!obVars)
    BY <1>u DEF OB!obVars
  <1>q. ASSUME \A j \in InitReq : initRow'[j].onInit = None <=> initRow[j].onInit = None,
               \A j \in InitReq : initRow[j].onInit # None =>
                                    initRow'[j].txn = initRow[j].txn
        PROVE  Quoted' = Quoted
    <2>1. \A j \in InitReq : Quoted'[j] = Quoted[j]
      BY <1>q
    <2> QED
      BY <2>1
  <1>z. ASSUME NEW j \in InitReq, OB!StoreQuote(j) PROVE [OB!ObNext]_(OB!obVars)
    BY <1>z DEF OB!ObNext
  <1>w. ASSUME NEW o \in OrderId, NEW i \in InitReq, UNCHANGED initRow,
               initRow[i].onInit # None,
               order[o] # None => order[o].txn = initRow[i].txn,
               order'[o] # None, order'[o].txn = initRow[i].txn, order'[o].src = i,
               \A p \in OrderId : p # o => order'[p] = order[p]
        PROVE  [OB!ObNext]_(OB!obVars)
    <2>1. Quoted[i] = initRow[i].txn /\ Quoted[i] # None
      BY <1>t, <1>n, <1>w, FullRows DEF QuotesAgree
    <2>2. Book[o] # None => Book[o].txn = Quoted[i]
      BY <1>w, <2>1
    <2>3. Book' = [Book EXCEPT ![o] = [txn |-> Quoted[i], src |-> i]]
      BY <1>w, <2>1
    <2>4. Quoted' = Quoted
      BY <1>w
    <2>5. OB!WriteOrder(o, i)
      BY <2>1, <2>2, <2>3, <2>4 DEF OB!WriteOrder
    <2> QED
      BY <2>5 DEF OB!ObNext
  <1>1. ASSUME NEW i \in InitReq, NEW t \in Txn, NEW b \in Bpp, CreateInit(i, t, b)
        PROVE  [OB!ObNext]_(OB!obVars)
    <2>1. Quoted' = Quoted
      BY <1>q, <1>t, <1>1, NewInitRow DEF QuotesAgree
    <2>2. Book' = Book
      BY <1>1 DEF CreateInit
    <2> QED
      BY <1>u, <2>1, <2>2
  <1>2. ASSUME NEW r \in Request, MarkSent(r) \/ MarkFailed(r)
        PROVE  [OB!ObNext]_(OB!obVars)
    <2>1. PICK s \in Status : UpdateStatus(r, s)
      BY <1>2 DEF MarkSent, MarkFailed, Status
    <2>2. Quoted' = Quoted
      BY <1>q, <1>t, <2>1, StatusWriteKeeps
    <2>3. Book' = Book
      BY <1>2 DEF MarkSent, MarkFailed
    <2> QED
      BY <1>u, <2>2, <2>3
  <1>3. ASSUME NEW c \in ConfirmReq, CreateConfirm(c) PROVE [OB!ObNext]_(OB!obVars)
    <2>1. /\ UNCHANGED initRow
          /\ load[c].order \in OrderId /\ load[c].init \in InitReq
          /\ initRow[load[c].init].onInit # None
          /\ order[load[c].order] # None =>
                order[load[c].order].txn = initRow[load[c].init].txn
      BY <1>3 DEF IInv, LoadsAgree, HasTerms, OrderIdsAgree, CreateConfirm, InitRows
    <2> QED
      BY <1>3, <1>w, <2>1, WrittenOrder
  <1>4. ASSUME NEW h \in Handler, CommitOnInit(h) PROVE [OB!ObNext]_(OB!obVars)
    <2> DEFINE i == job[h].row
    <2>1. i \in InitRows /\ i \in InitReq /\ initRow[i].txn \in Txn
      BY <1>t, <1>4, AnsweredRow, FullRows DEF InitRows
    <2>2. /\ \A j \in InitReq : /\ initRow'[j].txn = initRow[j].txn
                                /\ j # i => initRow'[j] = initRow[j]
          /\ initRow[i].onInit # None => initRow'[i].onInit # None
      BY <1>4, AnsweredRow
    <2>3. Book' = Book
      BY <1>4 DEF CommitOnInit
    <2> HIDE DEF i
    <2>4. CASE initRow[i].onInit = None /\ initRow'[i].onInit # None
      <3>1. PICK k \in InitReq : k = i
        BY <2>1
      <3>2. Quoted[k] = None /\ initRow[k].txn \in Txn
        BY <2>1, <2>4, <3>1
      <3>3. Quoted' = [Quoted EXCEPT ![k] = initRow[k].txn]
        BY <2>1, <2>2, <2>4, <3>1
      <3>4. OB!StoreQuote(k)
        BY <2>3, <3>2, <3>3 DEF OB!StoreQuote
      <3> QED
        BY <1>z, <3>4
    <2>5. CASE ~(initRow[i].onInit = None /\ initRow'[i].onInit # None)
      <3>1. Quoted' = Quoted
        BY <1>q, <2>1, <2>2, <2>5
      <3> QED
        BY <1>u, <2>3, <3>1
    <2> QED
      BY <2>4, <2>5
  <1>5. ASSUME NEW h \in Handler, CommitOnConfirm(h) PROVE [OB!ObNext]_(OB!obVars)
    <2> DEFINE o == confRow[job[h].row].order
               i == confRow[job[h].of].src
    <2>1. job[h] # None /\ job[h].action = "confirm" /\ UNCHANGED initRow
      BY <1>5 DEF CommitOnConfirm, Idle
    <2>2. /\ job[h].row \in ConfirmRows /\ job[h].of \in ConfirmRows
          /\ confRow[job[h].row].txn = confRow[job[h].of].txn
      BY <2>1 DEF IInv, JobsAgree
    <2>3. /\ i \in InitReq /\ initRow[i].onInit # None
          /\ initRow[i].txn = order[o].txn
      BY <1>t, <2>2, FullRows DEF IInv, ConfirmRowsAgree
    <2>4. CASE order' = order
      BY <1>u, <2>1, <2>4
    <2>5. CASE order' # order
      <3>1. /\ o \in OrderId /\ order'[o] # None
            /\ order'[o].txn = order[o].txn
            /\ \A p \in OrderId : p # o => order'[p] = order[p]
        BY <1>5, AcceptedOrder
      <3>2. order'[o] = order[o] \/ order'[o].src = i
        BY <1>5, AcceptedOrder
      <3>3. CASE order'[o] = order[o]
        <4>1. Quoted' = Quoted /\ Book' = Book
          BY <2>1, <3>1, <3>3
        <4> QED
          BY <1>u, <4>1
      <3>4. CASE order'[o].src = i
        BY <1>w, <2>1, <2>3, <3>1, <3>4
      <3> QED
        BY <3>2, <3>3, <3>4
    <2> QED
      BY <2>4, <2>5
  <1>6. CASE UNCHANGED <<initRow, order>>
    BY <1>u, <1>6
  <1> QED
    BY <1>1, <1>2, <1>3, <1>4, <1>5, <1>6
       DEF Next, ClientStep, TransportStep, CallbackStep, ReadInit, ReadSnapshots,
           ReadChildren, ReadOrder, RejectConfirm, Reach, SendOk, SendFails, MarkSentFails,
           MarkFailedFails, OnInit, OnConfirm, Acknowledge, AckLost, CommitFails,
           Crash, vars

\* Whatever happens to calls, callbacks and the process, the order table obeys
\* OrderBook: an order comes from a quoted /init of its transaction, never
\* disappears and never changes transaction.
THEOREM Refinement == Spec => ImplementsOrderBook
  <1>1. IInv /\ [Next]_vars => [OB!ObNext]_(OB!obVars)
    BY RefinementStep
  <1> QED
    BY <1>1, RefinementInit, Inductive, PTL DEF Spec, ImplementsOrderBook, OB!ObSpec

------------------------------------------------------------------------------
(* What the client is shown is in the database                             *)

\* A committed callback has left its answer on its row, and a shown outcome
\* was committed.
CommittedIsAnswered ==
  \A h \in Handler : job[h] # None /\ job[h].stage = "committed" =>
     /\ job[h].action = "init" => initRow[job[h].row].answered
     /\ job[h].action = "confirm" => confRow[job[h].row].answer # None

\* No step takes an answer back.
AnswersKept ==
  /\ \A i \in InitReq : initRow[i].answered => initRow'[i].answered
  /\ \A c \in ConfirmReq : confRow[c].answer # None => confRow'[c].answer # None

\* A status write does not touch the answers.
LEMMA StatusWriteKeepsAnswers ==
  ASSUME TypeOK, NEW r \in Request, NEW s \in Status, UpdateStatus(r, s)
  PROVE  /\ \A i \in InitReq : initRow'[i].answered = initRow[i].answered
         /\ \A c \in ConfirmReq : confRow'[c].answer = confRow[c].answer
  <1>1. ASSUME NEW i \in InitReq PROVE initRow'[i].answered = initRow[i].answered
    <2>1. CASE initRow'[i] = initRow[i]
      BY <2>1
    <2>2. CASE i \in InitRows /\ initRow'[i] = [initRow[i] EXCEPT !.status = s]
      BY <2>2, FullRows DEF InitRows
    <2> QED
      BY <2>1, <2>2 DEF UpdateStatus, InitsOf
  <1>2. ASSUME NEW c \in ConfirmReq PROVE confRow'[c].answer = confRow[c].answer
    <2>1. CASE confRow'[c] = confRow[c]
      BY <2>1
    <2>2. CASE c \in ConfirmRows /\ confRow'[c] = [confRow[c] EXCEPT !.status = s]
      BY <2>2, FullRows DEF ConfirmRows
    <2> QED
      BY <2>1, <2>2 DEF UpdateStatus
  <1> QED
    BY <1>1, <1>2

\* The transaction of /on_init answers its row.
LEMMA OnInitAnswers ==
  ASSUME IInv, NEW h \in Handler, CommitOnInit(h)
  PROVE  /\ job[h].row \in InitReq
         /\ initRow'[job[h].row].answered
  <1>t. TypeOK
    BY DEF IInv
  <1>1. job[h].row \in InitRows /\ job[h].row \in InitReq
    BY AnsweredRow DEF InitRows
  <1>2. PICK i : i = job[h].row
    OBVIOUS
  <1>3. PICK s, q : initRow' = [initRow EXCEPT ![i] = [initRow[i] EXCEPT
           !.status = s, !.answered = TRUE, !.onInit = q]]
    BY <1>t, <1>1, <1>2 DEF TypeOK, CommitOnInit
  <1>4. [initRow[i] EXCEPT !.status = s, !.answered = TRUE, !.onInit = q].answered = TRUE
    BY <1>t, <1>1, <1>2, FullRows
  <1>5. initRow'[i].answered = TRUE
    BY <1>t, <1>1, <1>2, <1>3, <1>4 DEF TypeOK
  <1> QED
    BY <1>1, <1>2, <1>5

\* The transaction of /on_confirm answers its row.
LEMMA OnConfirmAnswers ==
  ASSUME IInv, NEW h \in Handler, CommitOnConfirm(h)
  PROVE  /\ job[h].row \in ConfirmReq
         /\ confRow'[job[h].row].answer # None
         /\ \A c \in ConfirmReq : c # job[h].row => confRow'[c] = confRow[c]
  <1>t. TypeOK
    BY DEF IInv
  <1>1. /\ job[h].row \in ConfirmRows /\ job[h].row \in ConfirmReq
        /\ job[h].msg \in ConfirmReq \cup LspMsg
    BY <1>t, FullJobs DEF IInv, JobsAgree, CommitOnConfirm, Idle
  <1>2. PICK c, m : c = job[h].row /\ m = job[h].msg
    OBVIOUS
  <1>3. PICK s : confRow' = [confRow EXCEPT ![c] = [confRow[c] EXCEPT
           !.status = s, !.answer = m]]
    BY <1>t, <1>1, <1>2 DEF TypeOK, CommitOnConfirm
  <1>4. [confRow[c] EXCEPT !.status = s, !.answer = m].answer = m
    BY <1>t, <1>1, <1>2, FullRows
  <1>5. confRow'[c].answer = m /\ \A d \in ConfirmReq : d # c => confRow'[d] = confRow[d]
    BY <1>t, <1>1, <1>2, <1>3, <1>4 DEF TypeOK
  <1> QED
    BY <1>1, <1>2, <1>5, NoneIsNoValue

LEMMA AnswersStep == IInv /\ [Next]_vars => AnswersKept
  <1> SUFFICES ASSUME IInv, [Next]_vars PROVE AnswersKept
    OBVIOUS
  <1>t. TypeOK
    BY DEF IInv
  <1>1. ASSUME NEW i \in InitReq, NEW t \in Txn, NEW b \in Bpp, CreateInit(i, t, b)
        PROVE  AnswersKept
    <2>1. initRow[i] = NoInitRow /\ ~NoInitRow.answered
      BY <1>t, <1>1, NewInitRow, EmptyRows DEF NoInitRow
    <2>2. UNCHANGED confRow /\ \A j \in InitReq : j # i => initRow'[j] = initRow[j]
      BY <1>1, NewInitRow DEF CreateInit
    <2> QED
      BY <2>1, <2>2 DEF AnswersKept
  <1>2. ASSUME NEW c \in ConfirmReq, CreateConfirm(c) PROVE AnswersKept
    <2>1. confRow[c] = NoConfRow /\ NoConfRow.answer = None
      BY <1>t, <1>2, NewConfirmRow, EmptyRows DEF NoConfRow
    <2>2. UNCHANGED initRow /\ \A d \in ConfirmReq : d # c => confRow'[d] = confRow[d]
      BY <1>2, NewConfirmRow DEF CreateConfirm
    <2> QED
      BY <2>1, <2>2 DEF AnswersKept
  <1>3. ASSUME NEW r \in Request, MarkSent(r) \/ MarkFailed(r) PROVE AnswersKept
    <2>1. PICK s \in Status : UpdateStatus(r, s)
      BY <1>3 DEF MarkSent, MarkFailed, Status
    <2> QED
      BY <1>t, <2>1, StatusWriteKeepsAnswers DEF AnswersKept
  <1>4. ASSUME NEW h \in Handler, CommitOnInit(h) PROVE AnswersKept
    <2>1. UNCHANGED confRow /\ \A j \in InitReq : j # job[h].row => initRow'[j] = initRow[j]
      BY <1>4, AnsweredRow DEF CommitOnInit
    <2> QED
      BY <1>4, <2>1, OnInitAnswers DEF AnswersKept
  <1>5. ASSUME NEW h \in Handler, CommitOnConfirm(h) PROVE AnswersKept
    <2>1. UNCHANGED initRow
      BY <1>5 DEF CommitOnConfirm
    <2> QED
      BY <1>5, <2>1, OnConfirmAnswers DEF AnswersKept
  <1>6. CASE UNCHANGED <<initRow, confRow>>
    BY <1>6 DEF AnswersKept
  <1> QED
    BY <1>1, <1>2, <1>3, <1>4, <1>5, <1>6
       DEF Next, ClientStep, TransportStep, CallbackStep, ReadInit, ReadSnapshots,
           ReadChildren, ReadOrder, RejectConfirm, Reach, SendOk, SendFails, MarkSentFails,
           MarkFailedFails, OnInit, OnConfirm, Acknowledge, AckLost, CommitFails,
           Crash, vars

\* A callback that goes from matched to committed is the one that commits.
LEMMA CommittedStep == IInv /\ CommittedIsAnswered /\ [Next]_vars => CommittedIsAnswered'
  <1> SUFFICES ASSUME IInv, CommittedIsAnswered, [Next]_vars PROVE CommittedIsAnswered'
    OBVIOUS
  <1>t. TypeOK
    BY DEF IInv
  <1>a. AnswersKept
    BY AnswersStep
  <1>k. ASSUME NEW g \in Handler, job'[g] = job[g]
        PROVE  job'[g] # None /\ job'[g].stage = "committed" =>
                 /\ job'[g].action = "init" => initRow'[job'[g].row].answered
                 /\ job'[g].action = "confirm" => confRow'[job'[g].row].answer # None
    <2>1. job[g] # None => \/ job[g].action = "init" /\ job[g].row \in InitReq
                           \/ job[g].action = "confirm" /\ job[g].row \in ConfirmReq
      BY <1>t, FullJobs
    <2> QED
      BY <1>a, <1>k, <2>1 DEF AnswersKept, CommittedIsAnswered
  <1>1. CASE UNCHANGED job
    BY <1>k, <1>1 DEF CommittedIsAnswered
  <1>2. ASSUME NEW h \in Handler, NEW i \in InitReq, NEW b \in Bpp,
               NEW error \in BOOLEAN, OnInit(h, i, b, error)
        PROVE  CommittedIsAnswered'
    <2>1. job'[h].stage = "matched" /\ \A g \in Handler : g # h => job'[g] = job[g]
      BY <1>t, <1>2 DEF TypeOK, OnInit
    <2> QED
      BY <1>k, <2>1 DEF CommittedIsAnswered
  <1>3. ASSUME NEW h \in Handler, NEW m \in ConfirmReq, NEW named \in BOOLEAN,
               NEW error \in BOOLEAN, NEW msg \in {m} \cup LspMsg,
               OnConfirm(h, m, msg, named, error)
        PROVE  CommittedIsAnswered'
    <2>1. job'[h].stage = "matched" /\ \A g \in Handler : g # h => job'[g] = job[g]
      BY <1>t, <1>3 DEF TypeOK, OnConfirm
    <2> QED
      BY <1>k, <2>1 DEF CommittedIsAnswered
  <1>4. ASSUME NEW h \in Handler, job[h] # None, Committed(h)
        PROVE  /\ job'[h].row = job[h].row /\ job'[h].action = job[h].action
               /\ \A g \in Handler : g # h => job'[g] = job[g]
    BY <1>t, <1>4, FullJobs DEF TypeOK, Committed
  <1>5. ASSUME NEW h \in Handler, CommitOnInit(h) PROVE CommittedIsAnswered'
    <2>1. /\ job'[h].row = job[h].row /\ job'[h].action = "init"
          /\ \A g \in Handler : g # h => job'[g] = job[g]
      BY <1>4, <1>5 DEF CommitOnInit, Idle
    <2> QED
      BY <1>5, <1>k, <2>1, OnInitAnswers DEF CommittedIsAnswered
  <1>6. ASSUME NEW h \in Handler, CommitOnConfirm(h) PROVE CommittedIsAnswered'
    <2>1. /\ job'[h].row = job[h].row /\ job'[h].action = "confirm"
          /\ \A g \in Handler : g # h => job'[g] = job[g]
      BY <1>4, <1>6 DEF CommitOnConfirm, Idle
    <2> QED
      BY <1>6, <1>k, <2>1, OnConfirmAnswers DEF CommittedIsAnswered
  <1>7. ASSUME NEW h \in Handler, Leave(h) PROVE CommittedIsAnswered'
    <2>1. job'[h] = None /\ \A g \in Handler : g # h => job'[g] = job[g]
      BY <1>t, <1>7 DEF TypeOK, Leave
    <2> QED
      BY <1>k, <2>1 DEF CommittedIsAnswered
  <1>8. CASE Crash
    BY <1>8 DEF Crash, CommittedIsAnswered
  <1> QED
    BY <1>1, <1>2, <1>3, <1>5, <1>6, <1>7, <1>8
       DEF Next, ClientStep, TransportStep, CallbackStep, CreateInit, ReadInit,
           ReadSnapshots, ReadChildren, ReadOrder, RejectConfirm, CreateConfirm, Reach, SendOk,
           SendFails, MarkSent, MarkFailed, MarkSentFails, MarkFailedFails,
           Acknowledge, AckLost, CommitFails, vars

LEMMA ShownStep ==
  IInv /\ CommittedIsAnswered /\ ShownIsDurable /\ [Next]_vars => ShownIsDurable'
  <1> SUFFICES ASSUME IInv, CommittedIsAnswered, ShownIsDurable, [Next]_vars
               PROVE  ShownIsDurable'
    OBVIOUS
  <1>t. TypeOK
    BY DEF IInv
  <1>a. AnswersKept
    BY AnswersStep
  <1>k. ASSUME NEW r \in Request, shown'[r] = shown[r]
        PROVE  shown'[r] > 0 =>
                 IF r \in InitReq THEN initRow'[r].answered ELSE confRow'[r].answer # None
    BY <1>a, <1>k DEF AnswersKept, ShownIsDurable, Request
  <1>1. CASE UNCHANGED shown
    BY <1>k, <1>1 DEF ShownIsDurable
  <1>2. ASSUME NEW h \in Handler, Acknowledge(h) PROVE ShownIsDurable'
    <2>1. \A r \in Request : r # job[h].row => shown'[r] = shown[r]
      BY <1>t, <1>2 DEF TypeOK, Acknowledge
    <2>2. UNCHANGED <<initRow, confRow>> /\ job[h] # None /\ job[h].stage = "committed"
      BY <1>2 DEF Acknowledge, Idle
    <2>3. \/ job[h].action = "init" /\ job[h].row \in InitReq
          \/ job[h].action = "confirm" /\ job[h].row \in ConfirmReq \ InitReq
      BY <1>t, <2>2, FullJobs, DisjointRequests
    <2>4. IF job[h].row \in InitReq THEN initRow'[job[h].row].answered
                                    ELSE confRow'[job[h].row].answer # None
      BY <2>2, <2>3 DEF CommittedIsAnswered
    <2> QED
      BY <1>k, <2>1, <2>4 DEF ShownIsDurable
  <1>3. ASSUME NEW c \in ConfirmReq, ReadChildren(c) PROVE ShownIsDurable'
    BY <1>1, <1>3 DEF ReadChildren
  <1> QED
    BY <1>1, <1>2, <1>3
       DEF Next, ClientStep, TransportStep, CallbackStep, CreateInit, ReadInit,
           ReadSnapshots, ReadOrder, RejectConfirm, CreateConfirm, Reach, SendOk,
           SendFails, MarkSent, MarkFailed, MarkSentFails, MarkFailedFails, OnInit,
           OnConfirm, CommitOnInit, CommitOnConfirm, AckLost, CommitFails, Crash, vars

\* The client is never shown an outcome that is not in the database, however
\* many callbacks are processed at once and whatever restarts (Acknowledge
\* follows the commit, and no later write takes an answer off its row).
THEOREM ShownDurable == Spec => []ShownIsDurable
  <1>1. Init => CommittedIsAnswered /\ ShownIsDurable
    BY DEF Init, CommittedIsAnswered, ShownIsDurable
  <1> QED
    BY <1>1, CommittedStep, ShownStep, Inductive, PTL DEF Spec

------------------------------------------------------------------------------
(* Deliveries that wait for each other                                     *)

\* No two copies of an /on_init are between their look at the row and their
\* answer to the LSP.  The duplicate check reads the row before the
\* transaction, so that copies that overlap both pass it: what follows holds
\* of an LSP that waits for the answer to a delivery before it repeats it.
\* Callbacks of other rows may overlap at will.
OneDeliveryAtATime ==
  \A g, h \in Handler :
    /\ job[g] # None /\ job[g].action = "init"
    /\ job[h] # None /\ job[h].action = "init"
    /\ job[g].row = job[h].row
    => g = h

\* A quote is stored by an answer, and only the first answer brings one.
QuotesAreAnswers ==
  \A i \in InitReq : initRow[i].onInit # None => initRow[i].answered

\* The /on_init being processed is the first one of its row, and the client
\* has seen nothing of it.
FirstInitJobs ==
  \A h \in Handler : job[h] # None /\ job[h].action = "init" =>
     /\ job[h].stage = "matched" => ~initRow[job[h].row].answered
     /\ job[h].stage = "committed" => initRow[job[h].row].answered
     /\ shown[job[h].row] = 0

\* The client has seen at most one outcome of an /init, that of its answer.
InitsShown ==
  \A i \in InitReq : /\ shown[i] <= 1
                     /\ shown[i] > 0 => initRow[i].answered

\* The terms a /confirm has read, put on its row and on its order are those
\* of the quote that is stored.
TermsStand ==
  /\ \A c \in ConfirmReq : HasTerms(c) =>
       load[c].terms = initRow[load[c].init].onInit
  /\ \A c \in ConfirmRows : confRow[c].terms = initRow[confRow[c].src].onInit
  /\ OrderCarriesStandingQuote

AnswerInv ==
  /\ QuotesAreAnswers
  /\ FirstInitJobs
  /\ InitsShown
  /\ TermsStand

\* What FirstAnswerStands says of a step.
AnswersStand ==
  \A i \in InitReq : initRow[i].answered =>
     initRow'[i].answered /\ initRow'[i].onInit = initRow[i].onInit

LEMMA AnswersStandStep == IInv /\ FirstInitJobs /\ [Next]_vars => AnswersStand
  <1> SUFFICES ASSUME IInv, FirstInitJobs, [Next]_vars,
                      NEW i \in InitReq, initRow[i].answered
               PROVE  initRow'[i].answered /\ initRow'[i].onInit = initRow[i].onInit
    BY DEF AnswersStand
  <1>t. TypeOK
    BY DEF IInv
  <1>a. initRow'[i].answered
    BY AnswersStep DEF AnswersKept
  <1>1. ASSUME NEW j \in InitReq, NEW t \in Txn, NEW b \in Bpp, CreateInit(j, t, b)
        PROVE  initRow'[i].onInit = initRow[i].onInit
    <2>1. initRow[j] = NoInitRow /\ ~NoInitRow.answered
      BY <1>t, <1>1, NewInitRow, EmptyRows DEF NoInitRow
    <2> QED
      BY <1>1, <2>1, NewInitRow
  <1>2. ASSUME NEW r \in Request, MarkSent(r) \/ MarkFailed(r)
        PROVE  initRow'[i].onInit = initRow[i].onInit
    <2>1. PICK s \in Status : UpdateStatus(r, s)
      BY <1>2 DEF MarkSent, MarkFailed, Status
    <2> QED
      BY <1>t, <2>1, StatusWriteKeeps
  <1>3. ASSUME NEW h \in Handler, CommitOnInit(h)
        PROVE  initRow'[i].onInit = initRow[i].onInit
    <2>1. ~initRow[job[h].row].answered
      BY <1>3 DEF FirstInitJobs, CommitOnInit, Idle
    <2> QED
      BY <1>3, <2>1, AnsweredRow
  <1>4. CASE UNCHANGED initRow
    BY <1>4
  <1> QED
    BY <1>a, <1>1, <1>2, <1>3, <1>4
       DEF Next, ClientStep, TransportStep, CallbackStep, ReadInit, ReadSnapshots,
           ReadChildren, ReadOrder, RejectConfirm, CreateConfirm, Reach, SendOk, SendFails,
           MarkSentFails, MarkFailedFails, OnInit, OnConfirm, CommitOnConfirm,
           Acknowledge, AckLost, CommitFails, Crash, vars

LEMMA QuotesAreAnswersStep ==
  IInv /\ QuotesAreAnswers /\ [Next]_vars => QuotesAreAnswers'
  <1> SUFFICES ASSUME IInv, QuotesAreAnswers, [Next]_vars PROVE QuotesAreAnswers'
    OBVIOUS
  <1>t. TypeOK
    BY DEF IInv
  <1>a. AnswersKept
    BY AnswersStep
  <1>k. ASSUME NEW i \in InitReq, initRow'[i].onInit = initRow[i].onInit
        PROVE  initRow'[i].onInit # None => initRow'[i].answered
    BY <1>a, <1>k DEF AnswersKept, QuotesAreAnswers
  <1>1. ASSUME NEW i \in InitReq, NEW t \in Txn, NEW b \in Bpp, CreateInit(i, t, b)
        PROVE  QuotesAreAnswers'
    BY <1>k, <1>1, NewInitRow DEF QuotesAreAnswers
  <1>2. ASSUME NEW r \in Request, MarkSent(r) \/ MarkFailed(r) PROVE QuotesAreAnswers'
    <2>1. PICK s \in Status : UpdateStatus(r, s)
      BY <1>2 DEF MarkSent, MarkFailed, Status
    <2> QED
      BY <1>t, <1>k, <2>1, StatusWriteKeeps DEF QuotesAreAnswers
  <1>3. ASSUME NEW h \in Handler, CommitOnInit(h) PROVE QuotesAreAnswers'
    <2>1. \A i \in InitReq : i # job[h].row => initRow'[i] = initRow[i]
      BY <1>3, AnsweredRow
    <2> QED
      BY <1>k, <1>3, <2>1, OnInitAnswers DEF QuotesAreAnswers
  <1>4. CASE UNCHANGED initRow
    BY <1>4 DEF QuotesAreAnswers
  <1> QED
    BY <1>1, <1>2, <1>3, <1>4
       DEF Next, ClientStep, TransportStep, CallbackStep, ReadInit, ReadSnapshots,
           ReadChildren, ReadOrder, RejectConfirm, CreateConfirm, Reach, SendOk, SendFails,
           MarkSentFails, MarkFailedFails, OnInit, OnConfirm, CommitOnConfirm,
           Acknowledge, AckLost, CommitFails, Crash, vars

\* Rows whose answered flag a step leaves alone.
LEMMA FlagsKept ==
  ASSUME IInv, [Next]_vars, \A h \in Handler : ~CommitOnInit(h)
  PROVE  \A i \in InitReq : initRow'[i].answered = initRow[i].answered
  <1>t. TypeOK
    BY DEF IInv
  <1>1. ASSUME NEW i \in InitReq, NEW t \in Txn, NEW b \in Bpp, CreateInit(i, t, b)
        PROVE  \A j \in InitReq : initRow'[j].answered = initRow[j].answered
    <2>1. initRow[i] = NoInitRow
      BY <1>t, <1>1, NewInitRow, EmptyRows
    <2>2. initRow'[i].answered = NoInitRow.answered
      BY <1>t, <1>1 DEF TypeOK, CreateInit, NoInitRow
    <2> QED
      BY <1>1, <2>1, <2>2, NewInitRow
  <1>2. ASSUME NEW r \in Request, MarkSent(r) \/ MarkFailed(r)
        PROVE  \A j \in InitReq : initRow'[j].answered = initRow[j].answered
    <2>1. PICK s \in Status : UpdateStatus(r, s)
      BY <1>2 DEF MarkSent, MarkFailed, Status
    <2> QED
      BY <1>t, <2>1, StatusWriteKeepsAnswers
  <1>3. CASE UNCHANGED initRow
    BY <1>3
  <1> QED
    BY <1>1, <1>2, <1>3
       DEF Next, ClientStep, TransportStep, CallbackStep, ReadInit, ReadSnapshots,
           ReadChildren, ReadOrder, RejectConfirm, CreateConfirm, Reach, SendOk, SendFails,
           MarkSentFails, MarkFailedFails, OnInit, OnConfirm, CommitOnConfirm,
           Acknowledge, AckLost, CommitFails, Crash, vars

LEMMA FirstInitJobsStep ==
  OneDeliveryAtATime /\ IInv /\ FirstInitJobs /\ InitsShown /\ [Next]_vars
    => FirstInitJobs'
  <1> SUFFICES ASSUME OneDeliveryAtATime, IInv, FirstInitJobs, InitsShown, [Next]_vars
               PROVE  FirstInitJobs'
    OBVIOUS
  <1>t. TypeOK
    BY DEF IInv
  <1> DEFINE First(h) ==
        job'[h] # None /\ job'[h].action = "init" =>
          /\ job'[h].stage = "matched" => ~initRow'[job'[h].row].answered
          /\ job'[h].stage = "committed" => initRow'[job'[h].row].answered
          /\ shown'[job'[h].row] = 0
  <1>i. \A h \in Handler : job[h] # None /\ job[h].action = "init" => job[h].row \in InitReq
    BY <1>t, FullJobs
  <1>k. ASSUME NEW g \in Handler, job'[g] = job[g],
               job[g] # None /\ job[g].action = "init" =>
                 /\ initRow'[job[g].row].answered = initRow[job[g].row].answered
                 /\ shown'[job[g].row] = shown[job[g].row]
        PROVE  First(g)
    BY <1>k DEF FirstInitJobs
  <1>z. SUFFICES \A h \in Handler : First(h)
    BY <1>z DEF FirstInitJobs
  <1> HIDE DEF First
  <1>q. ASSUME \A h \in Handler : ~CommitOnInit(h), UNCHANGED shown,
               NEW g \in Handler, job'[g] = job[g]
        PROVE  First(g)
    <2>1. \A i \in InitReq : initRow'[i].answered = initRow[i].answered
      BY <1>q, FlagsKept
    <2> QED
      BY <1>i, <1>k, <1>q, <2>1
  <1>1. ASSUME NEW h \in Handler, NEW i \in InitReq, NEW b \in Bpp,
               NEW error \in BOOLEAN, OnInit(h, i, b, error)
        PROVE  \A g \in Handler : First(g)
    <2>1. /\ job'[h].stage = "matched" /\ job'[h].row = i
          /\ UNCHANGED <<initRow, shown>> /\ ~initRow[i].answered
          /\ \A g \in Handler : g # h => job'[g] = job[g]
      BY <1>t, <1>1 DEF TypeOK, OnInit
    <2>2. shown[i] = 0
      <3>1. shown[i] \in 0..2
        BY <1>t DEF TypeOK, Request
      <3> QED
        BY <2>1, <3>1 DEF InitsShown
    <2>3. First(h)
      BY <2>1, <2>2 DEF First
    <2>4. \A g \in Handler : g # h => First(g)
      BY <1>k, <2>1
    <2> QED
      BY <2>3, <2>4
  <1>2. ASSUME NEW h \in Handler, NEW m \in ConfirmReq, NEW named \in BOOLEAN,
               NEW error \in BOOLEAN, NEW msg \in {m} \cup LspMsg,
               OnConfirm(h, m, msg, named, error)
        PROVE  \A g \in Handler : First(g)
    <2>1. /\ job'[h].action = "confirm" /\ UNCHANGED <<initRow, shown>>
          /\ \A g \in Handler : g # h => job'[g] = job[g]
      BY <1>t, <1>2 DEF TypeOK, OnConfirm
    <2>2. First(h)
      BY <2>1 DEF First
    <2>3. \A g \in Handler : g # h => First(g)
      BY <1>k, <2>1
    <2> QED
      BY <2>2, <2>3
  <1>3. ASSUME NEW h \in Handler, job[h] # None, Committed(h)
        PROVE  /\ job'[h].row = job[h].row /\ job'[h].action = job[h].action
               /\ job'[h].stage = "committed"
               /\ \A g \in Handler : g # h => job'[g] = job[g]
    BY <1>t, <1>3, FullJobs DEF TypeOK, Committed
  <1>4. ASSUME NEW h \in Handler, CommitOnInit(h)
        PROVE  \A g \in Handler : First(g)
    <2>1. /\ job'[h].row = job[h].row /\ job'[h].stage = "committed" /\ UNCHANGED shown
          /\ job[h] # None /\ job[h].action = "init"
          /\ \A g \in Handler : g # h => job'[g] = job[g]
      BY <1>3, <1>4 DEF CommitOnInit, Idle
    <2>2. shown[job[h].row] = 0
      BY <2>1 DEF FirstInitJobs
    <2>3. First(h)
      BY <1>4, <2>1, <2>2, OnInitAnswers DEF First
    <2>4. ASSUME NEW g \in Handler, g # h PROVE First(g)
      <3>1. job[g] # None /\ job[g].action = "init" => job[g].row # job[h].row
        BY <2>1, <2>4 DEF OneDeliveryAtATime
      <3>2. job[g] # None /\ job[g].action = "init" =>
              initRow'[job[g].row] = initRow[job[g].row]
        BY <1>i, <1>4, <3>1, AnsweredRow
      <3> QED
        BY <1>k, <2>1, <2>4, <3>2
    <2> QED
      BY <2>3, <2>4
  <1>5. ASSUME NEW h \in Handler, CommitOnConfirm(h)
        PROVE  \A g \in Handler : First(g)
    <2>1. /\ job'[h].action = "confirm" /\ UNCHANGED <<initRow, shown>>
          /\ \A g \in Handler : g # h => job'[g] = job[g]
      BY <1>3, <1>5 DEF CommitOnConfirm, Idle
    <2>2. First(h)
      BY <2>1 DEF First
    <2>3. \A g \in Handler : g # h => First(g)
      BY <1>k, <2>1
    <2> QED
      BY <2>2, <2>3
  <1>6. ASSUME NEW h \in Handler, Acknowledge(h) \/ AckLost(h) \/ CommitFails(h)
        PROVE  \A g \in Handler : First(g)
    <2>1. job'[h] = None /\ \A g \in Handler : g # h => job'[g] = job[g]
      BY <1>t, <1>6 DEF TypeOK, Acknowledge, AckLost, CommitFails, Leave
    <2>2. UNCHANGED initRow /\ job[h] # None
      BY <1>6 DEF Acknowledge, AckLost, CommitFails, Idle
    <2>3. \A r \in Request : r # job[h].row => shown'[r] = shown[r]
      BY <1>t, <1>6 DEF TypeOK, Acknowledge, AckLost, CommitFails
    <2>4. First(h)
      BY <2>1 DEF First
    <2>5. ASSUME NEW g \in Handler, g # h PROVE First(g)
      <3>1. job[g] # None /\ job[g].action = "init" => job[g].row # job[h].row
        <4>1. \/ job[h].action = "init"
              \/ job[h].row \in ConfirmReq
          BY <1>t, <2>2, FullJobs
        <4> QED
          BY <1>i, <2>2, <2>5, <4>1, DisjointRequests DEF OneDeliveryAtATime
      <3> QED
        BY <1>i, <1>k, <2>1, <2>2, <2>3, <2>5, <3>1 DEF Request
    <2> QED
      BY <2>4, <2>5
  <1>7. CASE Crash
    BY <1>7 DEF Crash, First
  <1>8. CASE ~CallbackStep /\ ~Crash
    <2>1. \A h \in Handler : ~CommitOnInit(h)
      BY <1>8 DEF CallbackStep
    <2>2. UNCHANGED <<job, shown>>
      BY <1>8 DEF Next, ClientStep, TransportStep, CreateInit, ReadInit, ReadSnapshots,
                  ReadChildren, ReadOrder, RejectConfirm, CreateConfirm, Reach, SendOk, SendFails,
                  MarkSent, MarkFailed, MarkSentFails, MarkFailedFails, vars
    <2> QED
      BY <1>q, <2>1, <2>2
  <1> QED
    BY <1>1, <1>2, <1>4, <1>5, <1>6, <1>7, <1>8 DEF CallbackStep

LEMMA InitsShownStep ==
  IInv /\ FirstInitJobs /\ InitsShown /\ [Next]_vars => InitsShown'
  <1> SUFFICES ASSUME IInv, FirstInitJobs, InitsShown, [Next]_vars,
                      NEW i \in InitReq
               PROVE  shown'[i] <= 1 /\ (shown'[i] > 0 => initRow'[i].answered)
    BY DEF InitsShown
  <1>t. TypeOK
    BY DEF IInv
  <1>a. initRow[i].answered => initRow'[i].answered
    BY AnswersStep DEF AnswersKept
  <1>1. CASE shown'[i] = shown[i]
    BY <1>1, <1>a DEF InitsShown
  <1>2. ASSUME NEW h \in Handler, Acknowledge(h), shown'[i] # shown[i]
        PROVE  shown'[i] <= 1 /\ (shown'[i] > 0 => initRow'[i].answered)
    <2>1. job[h] # None /\ job[h].stage = "committed" /\ job[h].row = i
      BY <1>t, <1>2 DEF TypeOK, Acknowledge, Idle
    <2>2. job[h].action = "init"
      BY <1>t, <2>1, FullJobs, DisjointRequests
    <2>3. shown[i] = 0 /\ initRow[i].answered
      BY <2>1, <2>2 DEF FirstInitJobs
    <2>4. shown' = [shown EXCEPT ![i] = CountUpToTwo(shown[i])]
      BY <1>2, <2>1 DEF Acknowledge
    <2>5. shown'[i] = 1
      BY <1>t, <2>3, <2>4 DEF TypeOK, CountUpToTwo, Request
    <2> QED
      BY <1>a, <2>3, <2>5
  <1>3. CASE UNCHANGED shown
    BY <1>1, <1>3
  <1>4. ASSUME NEW c \in ConfirmReq, ReadChildren(c) PROVE UNCHANGED shown
    BY <1>4 DEF ReadChildren
  <1> QED
    BY <1>1, <1>2, <1>3, <1>4
       DEF Next, ClientStep, TransportStep, CallbackStep, CreateInit, ReadInit,
           ReadSnapshots, ReadOrder, RejectConfirm, CreateConfirm, Reach, SendOk,
           SendFails, MarkSent, MarkFailed, MarkSentFails, MarkFailedFails, OnInit,
           OnConfirm, CommitOnInit, CommitOnConfirm, AckLost, CommitFails, Crash, vars

\* A stored quote stays as it is.
LEMMA QuotesStand ==
  ASSUME IInv, QuotesAreAnswers, FirstInitJobs, [Next]_vars,
         NEW i \in InitReq, initRow[i].onInit # None
  PROVE  initRow'[i].onInit = initRow[i].onInit
  BY AnswersStandStep DEF AnswersStand, QuotesAreAnswers

\* What a /confirm holds from its second query on.
LEMMA LoadTermsStep ==
  ASSUME IInv, AnswerInv, [Next]_vars,
         NEW c \in ConfirmReq, HasTerms(c)'
  PROVE  load'[c].terms = initRow'[load'[c].init].onInit
  <1>t. TypeOK /\ LoadsAgree
    BY DEF IInv
  <1>q. c \in Request /\ c \notin InitReq
    BY DisjointRequests DEF Request
  <1>k. ASSUME HasTerms(c), load'[c].terms = load[c].terms,
               load'[c].init = load[c].init
        PROVE  load'[c].terms = initRow'[load'[c].init].onInit
    <2>1. load[c].terms = initRow[load[c].init].onInit
      BY <1>k DEF AnswerInv, TermsStand
    <2>2. load[c].init \in InitReq /\ initRow[load[c].init].onInit # None
      BY <1>t, <1>k DEF LoadsAgree, HasTerms, InitRows
    <2>3. initRow'[load[c].init].onInit = initRow[load[c].init].onInit
      BY <2>2, QuotesStand DEF AnswerInv
    <2> QED
      BY <1>k, <2>1, <2>3
  <1>1. ASSUME NEW d \in ConfirmReq, ReadSnapshots(d)
        PROVE  load'[c].terms = initRow'[load'[c].init].onInit
    <2>1. CASE d = c
      <3>1. load[c].init \in InitRows
        BY <1>t, <1>1, <2>1 DEF LoadsAgree, ReadSnapshots
      <3>2. load[c] \in LoadType
        BY <1>t DEF TypeOK
      <3>3. /\ load'[c].terms = initRow[load[c].init].onInit
            /\ load'[c].init = load[c].init
        BY <1>t, <1>1, <2>1, <3>2 DEF TypeOK, LoadType, ReadSnapshots
      <3> QED
        BY <1>1, <3>3 DEF ReadSnapshots
    <2>2. CASE d # c
      BY <1>t, <1>q, <1>k, <1>1, <2>2 DEF TypeOK, ReadSnapshots, Move, HasTerms
    <2> QED
      BY <2>1, <2>2
  <1>10. ASSUME NEW d \in ConfirmReq, ReadChildren(d)
         PROVE  load'[c].terms = initRow'[load'[c].init].onInit
    <2>1. CASE d = c
      <3>1. phase[c] = "found" /\ UNCHANGED initRow
        BY <1>10, <2>1 DEF ReadChildren
      <3>2. CASE load[c].status = "completed" /\ load[c].terms # None
        <4>1. PICK terms \in Fetched(load[c].terms, initRow[load[c].init].onInit) :
                load' = [load EXCEPT ![c].terms = terms]
          BY <1>10, <2>1, <3>2 DEF ReadChildren
        <4>2. /\ HasTerms(c) /\ load[c].terms \in Quote /\ load[c].init \in InitReq
              /\ initRow[load[c].init].onInit # None
          BY <1>t, <3>1, <3>2 DEF LoadsAgree, HasTerms, InitRows
        <4>3. /\ load[c].terms = initRow[load[c].init].onInit
              /\ initRow[load[c].init].onInit.whole
          BY <4>2 DEF AnswerInv, TermsStand, IInv, QuotesAgree
        <4>4. terms = load[c].terms
          BY <4>2, <4>3, FetchedQuote
        <4>5. load'[c].terms = terms /\ load'[c].init = load[c].init
          BY <1>t, <4>1 DEF TypeOK, LoadType
        <4> QED
          BY <3>1, <4>3, <4>4, <4>5
      <3>3. CASE ~(load[c].status = "completed" /\ load[c].terms # None)
        <4>1. phase'[c] = "done"
          BY <1>t, <1>q, <1>10, <2>1, <3>3 DEF TypeOK, ReadChildren, Move
        <4> QED
          BY <4>1 DEF HasTerms
      <3> QED
        BY <3>2, <3>3
    <2>2. CASE d # c
      <3>1. load' = load \/ \E terms : load' = [load EXCEPT ![d].terms = terms]
        BY <1>10 DEF ReadChildren
      <3>2. load'[c] = load[c]
        BY <1>t, <2>2, <3>1 DEF TypeOK
      <3>3. phase'[c] = phase[c]
        BY <1>t, <1>q, <1>10, <2>2 DEF TypeOK, ReadChildren, Move
      <3> QED
        BY <1>k, <3>2, <3>3 DEF HasTerms
    <2> QED
      BY <2>1, <2>2
  <1>2. ASSUME NEW d \in ConfirmReq, ReadOrder(d)
        PROVE  load'[c].terms = initRow'[load'[c].init].onInit
    <2>1. PICK o \in OrderId : load' = [load EXCEPT ![d].order = o]
      BY <1>2 DEF ReadOrder, OrderIdsFor, OrdersOf
    <2>2. load[c] \in LoadType
      BY <1>t DEF TypeOK
    <2>3. load'[c].terms = load[c].terms /\ load'[c].init = load[c].init
      BY <1>t, <2>1, <2>2 DEF TypeOK, LoadType
    <2>4. HasTerms(c)
      BY <1>t, <1>q, <1>2, <2>3 DEF TypeOK, ReadOrder, Move, HasTerms
    <2> QED
      BY <1>k, <2>3, <2>4
  <1>3. ASSUME NEW d \in ConfirmReq, NEW i \in InitReq, ReadInit(d, i)
        PROVE  load'[c].terms = initRow'[load'[c].init].onInit
    <2>1. d # c /\ phase'[c] = phase[c]
      BY <1>t, <1>q, <1>3 DEF TypeOK, ReadInit, Move, HasTerms
    <2>2. load'[c] = load[c]
      BY <1>t, <1>3, <2>1 DEF TypeOK, ReadInit
    <2> QED
      BY <1>k, <2>1, <2>2 DEF HasTerms
  <1>4. ASSUME NEW r, NEW p \in Phase \ {"found", "quoted", "ready"}, Move(r, p), UNCHANGED load
        PROVE  load'[c].terms = initRow'[load'[c].init].onInit
    <2>1. phase'[c] = IF c = r THEN p ELSE phase[c]
      BY <1>t, <1>q, <1>4 DEF TypeOK, Move
    <2> QED
      BY <1>k, <1>4, <2>1 DEF HasTerms
  <1>5. CASE UNCHANGED <<phase, load>>
    BY <1>k, <1>5 DEF HasTerms
  <1>6. CASE Crash
    <2>1. phase'[c] \in {"idle", "done"}
      BY <1>q, <1>6 DEF Crash
    <2> QED
      BY <2>1 DEF HasTerms
  <1>7. CASE TransportStep
    BY <1>4, <1>5, <1>7
       DEF TransportStep, Phase, Reach, SendOk, SendFails, MarkSent, MarkFailed,
           MarkSentFails, MarkFailedFails
  <1>8. ASSUME NEW d \in ConfirmReq, RejectConfirm(d) \/ CreateConfirm(d)
        PROVE  load'[c].terms = initRow'[load'[c].init].onInit
    BY <1>4, <1>8 DEF Phase, RejectConfirm, CreateConfirm
  <1>9. ASSUME NEW i \in InitReq, NEW t \in Txn, NEW b \in Bpp, CreateInit(i, t, b)
        PROVE  load'[c].terms = initRow'[load'[c].init].onInit
    BY <1>4, <1>9 DEF Phase, CreateInit
  <1>11. CASE CallbackStep
    BY <1>5, <1>11
       DEF CallbackStep, OnInit, OnConfirm, CommitOnInit, CommitOnConfirm,
           Acknowledge, AckLost, CommitFails
  <1>12. CASE ClientStep
    BY <1>1, <1>2, <1>3, <1>8, <1>9, <1>10, <1>12 DEF ClientStep
  <1> QED
    BY <1>5, <1>6, <1>7, <1>11, <1>12 DEF Next, vars

\* What is on a confirm row and on an order.
LEMMA BookedTermsStep ==
  ASSUME IInv, AnswerInv, [Next]_vars
  PROVE  /\ \A c \in ConfirmRows' : confRow'[c].terms = initRow'[confRow'[c].src].onInit
         /\ OrderCarriesStandingQuote'
  <1>t. TypeOK /\ TermsStand
    BY DEF IInv, AnswerInv
  <1>r. ASSUME NEW c \in ConfirmRows
        PROVE  confRow[c].terms = initRow'[confRow[c].src].onInit
    <2>1. confRow[c].src \in InitReq /\ initRow[confRow[c].src].onInit # None
      BY <1>t, FullRows DEF IInv, ConfirmRowsAgree
    <2>2. initRow'[confRow[c].src].onInit = initRow[confRow[c].src].onInit
      BY <2>1, QuotesStand DEF AnswerInv
    <2> QED
      BY <1>t, <2>2 DEF TermsStand
  <1>o. ASSUME NEW o \in OrderId, order[o] # None
        PROVE  order[o].terms = initRow'[order[o].src].onInit
    <2>1. order[o].src \in InitReq /\ initRow[order[o].src].onInit # None
      BY <1>t, <1>o DEF IInv, OrderRestsOnQuote, TypeOK, OrderType
    <2>2. initRow'[order[o].src].onInit = initRow[order[o].src].onInit
      BY <2>1, QuotesStand DEF AnswerInv
    <2> QED
      BY <1>t, <1>o, <2>2 DEF TermsStand, OrderCarriesStandingQuote
  <1>k. ASSUME NEW c \in ConfirmRows
        PROVE  confRow'[c].terms = initRow'[confRow'[c].src].onInit
    <2>1. confRow'[c].terms = confRow[c].terms /\ confRow'[c].src = confRow[c].src
      BY RowsKept DEF ConfirmRowsKept
    <2> QED
      BY <1>r, <2>1
  <1>1. ASSUME NEW c \in ConfirmReq, CreateConfirm(c)
        PROVE  /\ \A d \in ConfirmRows' : confRow'[d].terms = initRow'[confRow'[d].src].onInit
               /\ OrderCarriesStandingQuote'
    <2>1. load[c].terms = initRow[load[c].init].onInit /\ UNCHANGED initRow
      BY <1>t, <1>1 DEF TermsStand, HasTerms, CreateConfirm
    <2>2. /\ confRow'[c].terms = load[c].terms /\ confRow'[c].src = load[c].init
          /\ ConfirmRows' = ConfirmRows \cup {c}
      BY <1>t, <1>1, NewConfirmRow DEF TypeOK, CreateConfirm
    <2>3. OrderCarriesStandingQuote'
      BY <1>1, <1>o, <2>1, WrittenOrder DEF OrderCarriesStandingQuote
    <2> QED
      BY <1>k, <2>1, <2>2, <2>3
  <1>2. ASSUME NEW h \in Handler, CommitOnConfirm(h)
        PROVE  /\ \A d \in ConfirmRows' : confRow'[d].terms = initRow'[confRow'[d].src].onInit
               /\ OrderCarriesStandingQuote'
    <2>1. ConfirmRows' = ConfirmRows
      BY <1>2, AnsweredConfirm
    <2>2. job[h].of \in ConfirmRows
      BY <1>2 DEF IInv, JobsAgree, CommitOnConfirm, Idle
    <2>3. PICK o, m : o = confRow[job[h].row].order /\ m = confRow[job[h].of]
      OBVIOUS
    <2>4. m.terms = initRow'[m.src].onInit
      BY <1>r, <2>2, <2>3
    <2>5. /\ o \in OrderId /\ order[o] # None
          /\ \A p \in OrderId : p # o => order'[p] = order[p]
          /\ \/ order'[o] = order[o]
             \/ order'[o].src = m.src /\ order'[o].terms = m.terms
      BY <1>2, <2>3, AcceptedOrder
    <2>6. OrderCarriesStandingQuote'
      BY <1>o, <2>4, <2>5 DEF OrderCarriesStandingQuote
    <2> QED
      BY <1>k, <2>1, <2>6
  <1>3. CASE UNCHANGED order /\ ConfirmRows' = ConfirmRows
    BY <1>k, <1>o, <1>3 DEF OrderCarriesStandingQuote
  <1>4. ASSUME NEW r \in Request, MarkSent(r) \/ MarkFailed(r)
        PROVE  UNCHANGED order /\ ConfirmRows' = ConfirmRows
    <2>1. PICK s \in Status : UpdateStatus(r, s)
      BY <1>4 DEF MarkSent, MarkFailed, Status
    <2> QED
      BY <1>t, <1>4, <2>1, StatusWriteKeeps DEF MarkSent, MarkFailed
  <1>5. CASE UNCHANGED <<order, confRow>>
    BY <1>3, <1>5 DEF ConfirmRows
  <1> QED
    BY <1>1, <1>2, <1>3, <1>4, <1>5
       DEF Next, ClientStep, TransportStep, CallbackStep, CreateInit, ReadInit,
           ReadSnapshots, ReadChildren, ReadOrder, RejectConfirm, Reach, SendOk, SendFails,
           MarkSentFails, MarkFailedFails, OnInit, OnConfirm, CommitOnInit,
           Acknowledge, AckLost, CommitFails, Crash, vars

LEMMA AnswerInvInit == Init => AnswerInv
  <1>1. NoInitRow.onInit = None /\ NoConfRow.status = "none"
    BY DEF NoInitRow, NoConfRow
  <1> QED
    BY <1>1 DEF Init, AnswerInv, QuotesAreAnswers, FirstInitJobs, InitsShown, TermsStand,
                OrderCarriesStandingQuote, Request, ConfirmRows, HasTerms

LEMMA AnswerInvStep ==
  OneDeliveryAtATime /\ IInv /\ AnswerInv /\ [Next]_vars => AnswerInv'
  <1> SUFFICES ASSUME OneDeliveryAtATime, IInv, AnswerInv, [Next]_vars PROVE AnswerInv'
    OBVIOUS
  <1>1. QuotesAreAnswers' /\ FirstInitJobs' /\ InitsShown'
    BY QuotesAreAnswersStep, FirstInitJobsStep, InitsShownStep DEF AnswerInv
  <1>2. TermsStand'
    BY LoadTermsStep, BookedTermsStep DEF TermsStand
  <1> QED
    BY <1>1, <1>2 DEF AnswerInv

LEMMA AnswerInductive == Spec /\ []OneDeliveryAtATime => []AnswerInv
  BY AnswerInvInit, AnswerInvStep, Inductive, PTL DEF Spec

\* With one handler, as in the run that checks the next three theorems'
\* properties, no two deliveries overlap.
LEMMA OneHandler == (\A g, h \in Handler : g = h) => (Spec => []OneDeliveryAtATime)
  <1> SUFFICES ASSUME \A g, h \in Handler : g = h PROVE Spec => []OneDeliveryAtATime
    OBVIOUS
  <1>1. OneDeliveryAtATime
    BY DEF OneDeliveryAtATime
  <1> QED
    BY <1>1, PTL

\* If the deliveries of an /on_init do not overlap, the first answer to an
\* /init stands: no redelivered, late or contradicting /on_init replaces its
\* quote, whatever calls, restarts and failing writes come between.
THEOREM FirstAnswers == Spec /\ []OneDeliveryAtATime => FirstAnswerStands
  <1>1. IInv /\ AnswerInv /\ [Next]_vars =>
          [\A i \in InitReq : initRow[i].answered =>
             initRow'[i].answered /\ initRow'[i].onInit = initRow[i].onInit]_vars
    BY AnswersStandStep DEF AnswerInv, AnswersStand
  <1> QED
    BY <1>1, Inductive, AnswerInductive, PTL DEF Spec, FirstAnswerStands

\* If the deliveries of an /on_init do not overlap, the client is shown one
\* outcome per /init, however often the LSP repeats itself.
THEOREM ShownOnce == Spec /\ []OneDeliveryAtATime => []InitShownOnce
  <1>1. AnswerInv => InitShownOnce
    BY DEF AnswerInv, InitsShown, InitShownOnce
  <1> QED
    BY <1>1, AnswerInductive, PTL

\* If the deliveries of an /on_init do not overlap, an order carries the quote
\* that is stored for its /init, although /confirm read it three queries
\* before it wrote the order.
THEOREM OrdersCarryQuotes == Spec /\ []OneDeliveryAtATime => []OrderCarriesStandingQuote
  <1>1. AnswerInv => OrderCarriesStandingQuote
    BY DEF AnswerInv, TermsStand
  <1> QED
    BY <1>1, AnswerInductive, PTL
==============================================================================
