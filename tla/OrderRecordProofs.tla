--------------------------- MODULE OrderRecordProofs ---------------------------
(***************************************************************************)
(* OrderRecord keeps the order and the protocol log in agreement, tells    *)
(* the client only what is on record, gives a request one row if its calls *)
(* do not overlap, and implements OrderLedger -- for any number of calls,  *)
(* callbacks, failing writes and restarts.                                 *)
(*                                                                         *)
(* What is missing for induction is what a callback between its look-up    *)
(* and its commit may rely on (a row, once there, stays the row of its     *)
(* request), and what a call knows of its row at each stage.               *)
(***************************************************************************)
EXTENDS OrderRecord, TLAPS

\* An /on_cancel is on record; one that confirms or refuses is.
CancelRow(c) == c \in Rows /\ KindOf(c) = "cancel"
Heard == audit # {} \/ \E c \in Call : CancelRow(c) /\ answer[c] # "none"
HeardOutcome ==
  \/ \E r \in audit : r[2] \in {"Cancelled", "error"}
  \/ \E c \in Call : CancelRow(c) /\ answer[c] \in {"Cancelled", "error"}

\* What a call knows of its row at each stage, and what a row tells.
CallsAgree ==
  \A c \in Call :
    /\ phase[c] # "idle" => ask[c] \in Kind \X Message
    /\ phase[c] \in {"idle", "loaded", "free"} => status[c] = "none"
    /\ phase[c] \in {"sending", "acked", "refused"} => status[c] # "none"
    /\ answer[c] # "none" => status[c] # "none"
    /\ c \in received => status[c] # "none"

\* OrderAndRowsAgree, one claim per column.
ColumnsAgree ==
  /\ order.cancellation = "succeeded" => Heard
  /\ HeardOutcome => order.cancellation # "null"
  /\ order.tracked => \E c \in Rows : KindOf(c) = "track" /\ answer[c] # "none"
  /\ order.details \subseteq {c \in Rows : KindOf(c) = "update"}

\* An event is backed by what is on record.
Backed(event) ==
  /\ event = "order_cancelled" => Heard /\ order.cancellation # "null"
  /\ event = "order_tracking" => order.tracked

\* A callback under way belongs to a row of its kind, or to none; what it is
\* about to tell, once committed, is on record.
JobAgrees(j) ==
  /\ j.kind \in {"update", "track"} => j.of \in Rows /\ KindOf(j.of) = j.kind
  /\ j.kind = "cancel" => j.of \in Push \/ CancelRow(j.of)
  /\ j.stage = "committed" => \A event \in News(j) : Backed(event)

JobsAgree == \A h \in Handler : job[h] # None => JobAgrees(job[h])
ToldAgrees == \A event \in told : Backed(event)

Where == CallsAgree /\ ColumnsAgree /\ JobsAgree /\ ToldAgrees
IInv == TypeOK /\ Where

\* Of the calls under way, one belongs to a request, and one that found no
\* row is right about it.
OnePerRequest ==
  /\ \A c, d \in Call : InFlight(c) /\ InFlight(d) /\ ask[c] = ask[d] => c = d
  /\ \A c \in Call : phase[c] = "free" => RowsOf(ask[c]) = {}
  /\ OneRowPerRequest

SerialInv == IInv /\ (SerialClient => OnePerRequest)

------------------------------------------------------------------------------
(* Types                                                                   *)

Status == {"none", "pending", "sent", "completed", "failed"}
OrderType == [state : State, cancellation : {"null", "pending", "failed", "succeeded"},
              details : SUBSET Call, tracked : BOOLEAN]

\* A callback under way is one.
LEMMA FullJob ==
  ASSUME TypeOK, NEW h \in Handler, job[h] # None
  PROVE  job[h] \in JobType
  BY DEF TypeOK

LEMMA NewJob ==
  ASSUME NEW kind \in Kind, NEW of \in Call \cup Push \cup {None}, NEW says \in Content
  PROVE  Job(kind, of, says) \in JobType
  BY DEF Job, JobType

\* What is overwritten is details only.
LEMMA OverwrittenOrder ==
  ASSUME NEW o \in OrderType, NEW n \in Overwritten(o)
  PROVE  /\ n \in OrderType
         /\ n.state = o.state /\ n.cancellation = o.cancellation /\ n.tracked = o.tracked
         /\ n.details \subseteq o.details
  <1>1. PICK kept \in SUBSET o.details : n = [o EXCEPT !.details = kept]
    BY DEF Overwritten
  <1> QED
    BY <1>1 DEF OrderType

\* What an /update, an /on_status or an /on_cancel may make of the order.
LEMMA AppliedOrder ==
  ASSUME TypeOK, NEW c \in Call, NEW n \in Applied(c)
  PROVE  /\ n \in OrderType
         /\ n.cancellation = order.cancellation /\ n.tracked = order.tracked
         /\ n.details \subseteq order.details \cup {d \in {c} : KindOf(d) = "update"}
  <1>1. order \in OrderType
    BY DEF TypeOK, OrderType
  <1>2. CASE KindOf(c) = "update"
    <2>1. PICK o \in Overwritten(order) : n = [o EXCEPT !.details = o.details \cup {c}]
      BY <1>2 DEF Applied
    <2>2. /\ o \in OrderType /\ o.cancellation = order.cancellation
          /\ o.tracked = order.tracked /\ o.details \subseteq order.details
      BY <1>1, OverwrittenOrder
    <2> QED
      BY <1>2, <2>1, <2>2 DEF OrderType
  <1>3. CASE KindOf(c) # "update"
    BY <1>1, <1>3 DEF Applied
  <1> QED
    BY <1>2, <1>3

LEMMA StatusOrder ==
  ASSUME TypeOK, NEW says \in Content, NEW n,
         n \in IF says = "error" THEN {order} ELSE Overwritten(Reported(says))
  PROVE  /\ n \in OrderType
         /\ n.cancellation = order.cancellation /\ n.tracked = order.tracked
         /\ n.details \subseteq order.details
  <1>1. order \in OrderType
    BY DEF TypeOK, OrderType
  <1>2. PICK o \in OrderType : /\ o = Reported(says)
                               /\ o.cancellation = order.cancellation
                               /\ o.tracked = order.tracked /\ o.details = order.details
    BY <1>1 DEF Reported, OrderType
  <1>3. n = order \/ n \in Overwritten(o)
    BY <1>2
  <1> QED
    BY <1>1, <1>2, <1>3, OverwrittenOrder

LEMMA CancelledOrder ==
  ASSUME TypeOK, NEW says \in Content, NEW n \in CancelOrder(says)
  PROVE  /\ n \in OrderType
         /\ n.tracked = order.tracked /\ n.details \subseteq order.details
         /\ says \in {"Cancelled", "error"} => n.cancellation \in {"succeeded", "failed"}
         /\ says \notin {"Cancelled", "error"} => n = order
  <1>1. order \in OrderType
    BY DEF TypeOK, OrderType
  <1>2. CASE says = "Cancelled"
    <2>1. PICK o : o = [order EXCEPT !.state = says, !.cancellation = "succeeded"]
      OBVIOUS
    <2>2. /\ o \in OrderType /\ o.cancellation = "succeeded"
          /\ o.tracked = order.tracked /\ o.details = order.details
      BY <1>1, <1>2, <2>1 DEF OrderType, State
    <2>3. n \in Overwritten(o)
      BY <1>2, <2>1 DEF CancelOrder
    <2> QED
      BY <1>2, <2>2, <2>3, OverwrittenOrder
  <1>3. CASE says = "error"
    BY <1>1, <1>3 DEF CancelOrder, OrderType
  <1>4. CASE says \notin {"Cancelled", "error"}
    BY <1>1, <1>4 DEF CancelOrder
  <1> QED
    BY <1>2, <1>3, <1>4

\* What a callback leaves in a row and in the state of the order.
LEMMA Written ==
  ASSUME TypeOK, NEW says \in Content
  PROVE  /\ Outcome(says) \in Status
         /\ Noted(says) \in Note
         /\ Reported(says) \in OrderType
  <1>1. Outcome(says) \in Status /\ Noted(says) \in Note
    BY DEF Outcome, Noted, Status, Note
  <1>2. order \in OrderType
    BY DEF TypeOK, OrderType
  <1>3. Reported(says) \in OrderType
    BY <1>2 DEF Reported, OrderType
  <1> QED
    BY <1>1, <1>3

\* What an attempt to send leaves there.
LEMMA Updated ==
  ASSUME TypeOK, NEW c \in Call, NEW s \in {"sent", "failed"}, UpdateStatus(c, s)
  PROVE  status' \in [Call -> Status] /\ order' \in OrderType
  <1>1. status' \in [Call -> Status]
    BY DEF UpdateStatus, TypeOK, Status
  <1>2. order \in OrderType
    BY DEF TypeOK, OrderType
  <1>3. [order EXCEPT !.cancellation = IF s = "sent" THEN "pending" ELSE "failed"] \in OrderType
    BY <1>2 DEF OrderType
  <1> QED
    BY <1>1, <1>2, <1>3 DEF UpdateStatus

LEMMA TypeInit == Init => TypeOK
  BY NaturalCrashBound DEF Init, TypeOK, State

\* The steps of the calls that leave the order alone.
LEMMA QuietCallTypes ==
  ASSUME TypeOK, NEW c \in Call,
         \/ \E k \in Kind \X Message : Load(c, k)
         \/ Find(c) \/ InsertFails(c) \/ Reach(c) \/ SendOk(c) \/ SendFails(c)
         \/ MarkSentFails(c) \/ MarkFailedFails(c)
  PROVE  TypeOK'
  <1>1. CASE \E k \in Kind \X Message : Load(c, k)
    <2> PICK k \in Kind \X Message : Load(c, k)
      BY <1>1
    <2> QED
      BY DEF Load, Move, rowVars, TypeOK
  <1>2. CASE Find(c) \/ InsertFails(c)
    BY <1>2 DEF Find, InsertFails, Move, rowVars, TypeOK
  <1>3. CASE Reach(c)
    BY <1>3 DEF Reach, Rows, callVars, rowVars, TypeOK
  <1>4. CASE SendOk(c) \/ SendFails(c)
    BY <1>4 DEF SendOk, SendFails, Move, rowVars, TypeOK
  <1>5. CASE MarkSentFails(c) \/ MarkFailedFails(c)
    BY <1>5 DEF MarkSentFails, MarkFailedFails, Move, rowVars, TypeOK
  <1> QED
    BY <1>1, <1>2, <1>3, <1>4, <1>5

LEMMA CallTypes ==
  ASSUME TypeOK, NEW c \in Call, CallStep(c)
  PROVE  TypeOK'
  <1>1. CASE Insert(c)
    <2>1. order \in OrderType
      BY DEF TypeOK, OrderType
    <2>2. \A n \in Applied(c) : n \in OrderType
      BY AppliedOrder
    <2>3. order' \in OrderType
      BY <1>1, <2>2 DEF Insert
    <2> QED
      BY <1>1, <2>3 DEF Insert, Move, TypeOK, OrderType
  <1>2. CASE MarkSent(c) \/ MarkFailed(c)
    <2>1. status' \in [Call -> Status] /\ order' \in OrderType
      BY <1>2, Updated DEF MarkSent, MarkFailed
    <2> QED
      BY <1>2, <2>1 DEF MarkSent, MarkFailed, Move, TypeOK, Status, OrderType
  <1> QED
    BY <1>1, <1>2, QuietCallTypes DEF CallStep

\* A row is the row of a request.
LEMMA RowHasKind ==
  ASSUME IInv, NEW c \in Rows
  PROVE  c \in Call /\ ask[c] \in Kind \X Message /\ KindOf(c) \in Kind
  BY DEF IInv, Where, CallsAgree, TypeOK, Rows, KindOf

\* The row a callback is matched with, or none.
LEMMA MatchedRow ==
  ASSUME IInv, NEW h \in Handler, NEW kind \in {"update", "track"}, Matched(h, kind)
  PROVE  /\ job[h].of \in Rows /\ KindOf(job[h].of) = kind
         /\ job[h] \in JobType /\ job[h].says \in Content
  <1>1. job[h] \in JobType
    BY FullJob DEF IInv, Matched
  <1>2. JobAgrees(job[h])
    BY DEF IInv, Where, JobsAgree, Matched
  <1> QED
    BY <1>1, <1>2 DEF JobAgrees, JobType, Matched

LEMMA CommitKeepsJobType ==
  ASSUME TypeOK, NEW h \in Handler, job[h] # None, Committed(h)
  PROVE  /\ job' \in [Handler -> JobType \cup {None}]
         /\ job'[h] = [job[h] EXCEPT !.stage = "committed"]
         /\ job[h].says \in Content
  <1>1. job[h] \in JobType
    BY FullJob
  <1>2. [job[h] EXCEPT !.stage = "committed"] \in JobType
    BY <1>1 DEF JobType
  <1> QED
    BY <1>1, <1>2 DEF Committed, TypeOK, JobType

LEMMA CallbackTypes ==
  ASSUME IInv, NEW h \in Handler, CallbackStep(h)
  PROVE  TypeOK'
  <1> USE DEF IInv
  <1>1. ASSUME NEW j \in JobType, Start(h, j) PROVE TypeOK'
    BY <1>1 DEF Start, callVars, rowVars, TypeOK
  <1>2. CASE \E c \in Call, says \in Content : OnAnswer(h, c, says)
    <2> PICK c \in Call, says \in Content : OnAnswer(h, c, says)
      BY <1>2
    <2> PICK d \in RowsOf(ask[c]) : Start(h, Job(KindOf(c), d, says))
      BY DEF OnAnswer
    <2>1. d \in Call /\ KindOf(c) \in Kind
      BY RowHasKind DEF RowsOf, KindOf
    <2> QED
      BY <2>1, NewJob, <1>1
  <1>3. CASE \E says \in Content : OnStatus(h, says)
    BY <1>1, <1>3, NewJob DEF OnStatus, Kind
  <1>4. CASE \E p \in Push, says \in Content : OnCancelPush(h, p, says)
    BY <1>1, <1>4, NewJob DEF OnCancelPush, Kind
  <1>5. CASE CommitOnUpdate(h)
    <2>1. job[h] # None /\ Committed(h)
      BY <1>5 DEF CommitOnUpdate, Matched
    <2>2. order' \in OrderType
      BY <1>5, <2>1, CommitKeepsJobType, Written DEF CommitOnUpdate
    <2>3. status' \in [Call -> Status] /\ answer' \in [Call -> Note \cup {"none"}]
      BY <1>5, <2>1, CommitKeepsJobType, Written DEF CommitOnUpdate, TypeOK, Status
    <2> QED
      BY <1>5, <2>1, <2>2, <2>3, CommitKeepsJobType
      DEF CommitOnUpdate, callVars, TypeOK, Status, OrderType
  <1>6. CASE CommitOnStatus(h)
    <2>1. job[h] # None /\ Committed(h)
      BY <1>6 DEF CommitOnStatus, Matched
    <2>2. job[h].says \in Content
      BY <2>1, FullJob DEF JobType
    <2>4. order' \in OrderType
      BY <1>6, <2>2, StatusOrder DEF CommitOnStatus
    <2>5. status' \in [Call -> Status] /\ answer' \in [Call -> Note \cup {"none"}]
      BY <1>6, <2>1, CommitKeepsJobType, Written DEF CommitOnStatus, TypeOK, Status
    <2> QED
      BY <1>6, <2>1, <2>4, <2>5, CommitKeepsJobType
      DEF CommitOnStatus, callVars, TypeOK, Status, OrderType
  <1>7. CASE CommitOnTrack(h)
    <2>1. job[h] # None /\ Committed(h)
      BY <1>7 DEF CommitOnTrack, Matched
    <2>2. order' \in OrderType
      BY <1>7 DEF CommitOnTrack, TypeOK, OrderType
    <2>3. status' \in [Call -> Status] /\ answer' \in [Call -> Note \cup {"none"}]
      BY <1>7, <2>1, CommitKeepsJobType, Written DEF CommitOnTrack, TypeOK, Status
    <2> QED
      BY <1>7, <2>1, <2>2, <2>3, CommitKeepsJobType
      DEF CommitOnTrack, callVars, TypeOK, Status, OrderType
  <1>8. CASE CommitOnCancel(h)
    <2>1. job[h] # None /\ Committed(h)
      BY <1>8 DEF CommitOnCancel, Matched
    <2>2. order' \in OrderType
      BY <1>8, <2>1, FullJob, CancelledOrder DEF CommitOnCancel, JobType
    <2>3. CASE job[h].of \in Push
      <3>1. UNCHANGED <<status, answer>> /\ audit' = audit \cup {<<job[h].of, Noted(job[h].says)>>}
        BY <1>8, <2>3 DEF CommitOnCancel
      <3>2. audit' \subseteq Push \X Note
        <4>1. Noted(job[h].says) \in Note
          BY <2>1, CommitKeepsJobType, Written
        <4> QED
          BY <2>3, <3>1, <4>1 DEF TypeOK
      <3> QED
        BY <1>8, <2>1, <2>2, <3>1, <3>2, CommitKeepsJobType
        DEF CommitOnCancel, callVars, TypeOK, OrderType
    <2>4. CASE job[h].of \notin Push
      <3> DEFINE rows == RowsOf(ask[job[h].of])
      <3>1. /\ status' = [c \in Call |-> IF c \in rows THEN Outcome(job[h].says) ELSE status[c]]
            /\ answer' = [c \in Call |-> IF c \in rows THEN Noted(job[h].says) ELSE answer[c]]
            /\ UNCHANGED audit
        BY <1>8, <2>4 DEF CommitOnCancel
      <3> HIDE DEF rows
      <3>2. status' \in [Call -> Status] /\ answer' \in [Call -> Note \cup {"none"}]
        BY <3>1, <2>1, CommitKeepsJobType, Written DEF TypeOK, Status
      <3> QED
        BY <1>8, <2>1, <2>2, <3>1, <3>2, CommitKeepsJobType
        DEF CommitOnCancel, callVars, TypeOK, Status, OrderType
    <2> QED
      BY <2>3, <2>4
  <1>9. CASE CommitFails(h)
    BY <1>9 DEF CommitFails, callVars, rowVars, TypeOK
  <1>10. CASE Publish(h)
    BY <1>10 DEF Publish, News, callVars, rowVars, TypeOK
  <1> QED
    BY <1>2, <1>3, <1>4, <1>5, <1>6, <1>7, <1>8, <1>9, <1>10 DEF CallbackStep

LEMMA TypeStep == IInv /\ [Next]_vars => TypeOK'
  <1> SUFFICES ASSUME IInv, [Next]_vars PROVE TypeOK'
    OBVIOUS
  <1>1. CASE Crash
    <2>1. crashes' \in 0..MaxCrashes
      BY <1>1, NaturalCrashBound DEF Crash, IInv, TypeOK
    <2> QED
      BY <1>1, <2>1 DEF Crash, rowVars, IInv, TypeOK
  <1>2. CASE UNCHANGED vars
    BY <1>2 DEF vars, IInv, TypeOK
  <1> QED
    BY <1>1, <1>2, CallTypes, CallbackTypes DEF Next, IInv

------------------------------------------------------------------------------
(* What every step keeps                                                   *)

\* What is on record stays there.
Kept ==
  /\ audit \subseteq audit'
  /\ \A c \in Rows : c \in Rows' /\ ask'[c] = ask[c] /\ (answer[c] # "none" => answer'[c] # "none")
  /\ order.cancellation # "null" => order'.cancellation # "null"
  /\ order.tracked => order'.tracked

LEMMA KeptByCalls ==
  ASSUME IInv, NEW c \in Call, CallStep(c)
  PROVE  Kept
  <1> USE DEF IInv, Where, CallsAgree, Rows, Kept
  <1>1. CASE \E k \in Kind \X Message : Load(c, k)
    <2> PICK k \in Kind \X Message : Load(c, k)
      BY <1>1
    <2> QED
      BY DEF Load, rowVars, TypeOK
  <1>2. CASE Find(c) \/ InsertFails(c) \/ Reach(c) \/ SendOk(c) \/ SendFails(c)
             \/ MarkSentFails(c) \/ MarkFailedFails(c)
    BY <1>2 DEF Find, InsertFails, Reach, SendOk, SendFails, MarkSentFails,
                MarkFailedFails, callVars, rowVars
  <1>3. CASE Insert(c)
    BY <1>3, AppliedOrder DEF Insert, IInv, TypeOK
  <1>4. CASE MarkSent(c) \/ MarkFailed(c)
    BY <1>4 DEF MarkSent, MarkFailed, UpdateStatus, TypeOK, RowsOf
  <1> QED
    BY <1>1, <1>2, <1>3, <1>4 DEF CallStep

LEMMA KeptByCallbacks ==
  ASSUME IInv, NEW h \in Handler, CallbackStep(h)
  PROVE  Kept
  <1> USE DEF Rows, Kept
  <1>0. ASSUME NEW j, Start(h, j) PROVE Kept
    BY <1>0 DEF Start, callVars, rowVars
  <1>1. CASE \/ \E c \in Call, says \in Content : OnAnswer(h, c, says)
             \/ \E says \in Content : OnStatus(h, says)
             \/ \E p \in Push, says \in Content : OnCancelPush(h, p, says)
    BY <1>0, <1>1 DEF OnAnswer, OnStatus, OnCancelPush
  <1>2. CASE CommitOnUpdate(h)
    BY <1>2 DEF CommitOnUpdate, Outcome, Noted, Reported, callVars, IInv, TypeOK
  <1>3. CASE CommitOnStatus(h)
    <2>1. order'.tracked = order.tracked /\ order'.cancellation = order.cancellation
      BY <1>3, FullJob, StatusOrder DEF CommitOnStatus, Matched, IInv, JobType
    <2> QED
      BY <1>3, <2>1 DEF CommitOnStatus, Outcome, Noted, callVars, IInv, TypeOK
  <1>4. CASE CommitOnTrack(h)
    BY <1>4 DEF CommitOnTrack, Outcome, Noted, callVars, IInv, TypeOK
  <1>5. CASE CommitOnCancel(h)
    <2>1. /\ order'.tracked = order.tracked
          /\ order'.cancellation \in {order.cancellation, "succeeded", "failed"}
      BY <1>5, FullJob, CancelledOrder DEF CommitOnCancel, Matched, IInv, JobType
    <2> QED
      BY <1>5, <2>1 DEF CommitOnCancel, Outcome, Noted, callVars, IInv, TypeOK
  <1>6. CASE CommitFails(h) \/ Publish(h)
    BY <1>6 DEF CommitFails, Publish, callVars, rowVars
  <1> QED
    BY <1>1, <1>2, <1>3, <1>4, <1>5, <1>6 DEF CallbackStep

LEMMA KeptByAll == IInv /\ [Next]_vars => Kept
  <1>1. Crash \/ UNCHANGED vars => Kept
    BY DEF Crash, vars, rowVars, Rows, Kept
  <1> QED
    BY <1>1, KeptByCalls, KeptByCallbacks DEF Next

\* So an event stays backed, and a callback that is left alone keeps its row.
LEMMA BackedStays ==
  ASSUME Kept, IInv, NEW event, Backed(event)
  PROVE  Backed(event)'
  BY DEF Kept, Backed, Heard, CancelRow, KindOf, Rows

LEMMA JobStays ==
  ASSUME Kept, IInv, NEW j \in JobType, JobAgrees(j)
  PROVE  JobAgrees(j)'
  <1>1. \A event \in News(j) : Backed(event) => Backed(event)'
    BY BackedStays
  <1> QED
    BY <1>1 DEF Kept, JobAgrees, CancelRow, KindOf, JobType

\* A step that leaves the callbacks alone, or drops some.
LEMMA JobsStay ==
  ASSUME IInv, Kept, NEW H \in SUBSET Handler,
         \A g \in H : job'[g] \in {job[g], None}
  PROVE  \A g \in H : job'[g] # None => JobAgrees(job[g])'
  <1> SUFFICES ASSUME NEW g \in H, job'[g] # None PROVE JobAgrees(job[g])'
    OBVIOUS
  <1>1. PICK j \in JobType : j = job[g]
    BY FullJob DEF IInv
  <1>2. JobAgrees(j)
    BY <1>1 DEF IInv, Where, JobsAgree
  <1>3. JobAgrees(j)'
    BY <1>2, JobStays
  <1>4. job'[g] = j
    BY <1>1
  <1> QED
    BY <1>3, <1>4

LEMMA ToldStays ==
  ASSUME IInv, Kept, told' = told
  PROVE  ToldAgrees'
  BY BackedStays DEF IInv, Where, ToldAgrees

\* The order and what it is compared with are not touched.
LEMMA ColumnsStay ==
  ASSUME IInv, UNCHANGED <<order, answer, audit>>,
         \A c \in Call : status[c] # "none" =>
            status'[c] # "none" /\ ask'[c] = ask[c],
         \A c \in Call : answer[c] # "none" => status[c] # "none"
  PROVE  ColumnsAgree'
  <1>1. Heard => Heard'
    BY DEF Heard, CancelRow, Rows, KindOf
  <1>2. HeardOutcome' => HeardOutcome
    BY DEF HeardOutcome, CancelRow, Rows, KindOf
  <1> QED
    BY <1>1, <1>2 DEF IInv, Where, ColumnsAgree, Rows, KindOf, TypeOK

------------------------------------------------------------------------------
(* The steps of the calls                                                  *)

LEMMA LoadStep ==
  ASSUME IInv, TypeOK', Kept, NEW c \in Call, NEW k \in Kind \X Message, Load(c, k)
  PROVE  Where'
  <1>1. CallsAgree'
    BY DEF Load, Move, rowVars, IInv, Where, CallsAgree, TypeOK
  <1>2. ColumnsAgree'
    <2>1. \A d \in Call : status[d] # "none" => status'[d] # "none" /\ ask'[d] = ask[d]
      BY DEF Load, rowVars, IInv, Where, CallsAgree, TypeOK
    <2> QED
      BY <2>1, ColumnsStay DEF Load, rowVars, IInv, Where, CallsAgree
  <1>3. JobsAgree'
    BY JobsStay DEF Load, JobsAgree
  <1> QED
    BY <1>1, <1>2, <1>3, ToldStays DEF Load, Where

\* The steps that only move the call on, and the way of the request to the LSP.
LEMMA MoveStep ==
  ASSUME IInv, TypeOK', Kept, NEW c \in Call,
         \/ Find(c) \/ InsertFails(c) \/ Reach(c) \/ SendOk(c) \/ SendFails(c)
         \/ MarkSentFails(c) \/ MarkFailedFails(c)
  PROVE  Where'
  <1>1. UNCHANGED <<ask, status, answer, audit, order, job, told>>
    BY DEF Find, InsertFails, Reach, SendOk, SendFails, MarkSentFails, MarkFailedFails,
           callVars, rowVars
  <1>2. CallsAgree'
    <2>1. CASE Reach(c)
      BY <2>1 DEF Reach, callVars, rowVars, Rows, IInv, Where, CallsAgree, TypeOK
    <2>2. CASE Find(c) \/ InsertFails(c)
      BY <1>1, <2>2 DEF Find, InsertFails, Move, IInv, Where, CallsAgree, TypeOK
    <2>3. CASE SendOk(c) \/ SendFails(c) \/ MarkSentFails(c) \/ MarkFailedFails(c)
      BY <1>1, <2>3 DEF SendOk, SendFails, MarkSentFails, MarkFailedFails, Move, IInv, Where,
                        CallsAgree, TypeOK
    <2> QED
      BY <2>1, <2>2, <2>3
  <1>3. ColumnsAgree'
    BY <1>1, ColumnsStay DEF IInv, Where, CallsAgree
  <1>4. JobsAgree'
    BY <1>1, JobsStay DEF JobsAgree
  <1> QED
    BY <1>1, <1>2, <1>3, <1>4, ToldStays DEF Where

LEMMA InsertStep ==
  ASSUME IInv, TypeOK', Kept, NEW c \in Call, Insert(c)
  PROVE  Where'
  <1>1. CallsAgree'
    BY DEF Insert, Move, IInv, Where, CallsAgree, TypeOK
  <1>2. /\ UNCHANGED <<ask, answer, audit, job, told>>
        /\ Rows' = Rows \cup {c}
        /\ answer[c] = "none"
    BY DEF Insert, Rows, IInv, Where, CallsAgree, TypeOK
  <1>3. Heard' = Heard /\ HeardOutcome' = HeardOutcome
    BY <1>2 DEF Heard, HeardOutcome, CancelRow, KindOf
  <1>4. /\ order'.cancellation = order.cancellation
        /\ order'.tracked = order.tracked
        /\ order'.details \subseteq order.details \cup {d \in {c} : KindOf(d) = "update"}
    BY AppliedOrder DEF Insert, IInv
  <1>5. ColumnsAgree'
    BY <1>2, <1>3, <1>4 DEF IInv, Where, ColumnsAgree, KindOf
  <1>6. JobsAgree'
    BY <1>2, JobsStay DEF JobsAgree
  <1> QED
    BY <1>1, <1>2, <1>5, <1>6, ToldStays DEF Where

LEMMA MarkStep ==
  ASSUME IInv, TypeOK', Kept, NEW c \in Call, MarkSent(c) \/ MarkFailed(c)
  PROVE  Where'
  <1>1. /\ UNCHANGED <<ask, answer, audit, received, job, told>>
        /\ Rows' = Rows
        /\ \A d \in Call : status'[d] # "none" <=> status[d] # "none"
        /\ phase[c] # "idle" /\ phase' = [phase EXCEPT ![c] = "done"]
    BY DEF MarkSent, MarkFailed, UpdateStatus, Move, Rows, RowsOf, IInv, TypeOK
  <1>2. CallsAgree'
    BY <1>1 DEF IInv, Where, CallsAgree, TypeOK
  <1>3. Heard' = Heard /\ HeardOutcome' = HeardOutcome
    BY <1>1 DEF Heard, HeardOutcome, CancelRow, KindOf
  <1>4. /\ order'.cancellation \in {order.cancellation, "pending", "failed"}
        /\ order'.tracked = order.tracked
        /\ order'.details = order.details
    BY DEF MarkSent, MarkFailed, UpdateStatus, IInv, TypeOK
  <1>5. ColumnsAgree'
    BY <1>1, <1>3, <1>4 DEF IInv, Where, ColumnsAgree, KindOf
  <1>6. JobsAgree'
    BY <1>1, JobsStay DEF JobsAgree
  <1> QED
    BY <1>1, <1>2, <1>5, <1>6, ToldStays DEF Where

LEMMA CrashStep ==
  ASSUME IInv, TypeOK', Kept, Crash
  PROVE  Where'
  <1>1. CallsAgree'
    BY DEF Crash, rowVars, IInv, Where, CallsAgree, TypeOK
  <1>2. ColumnsAgree'
    BY ColumnsStay DEF Crash, rowVars, IInv, Where, CallsAgree
  <1>3. JobsAgree'
    BY DEF Crash, JobsAgree
  <1> QED
    BY <1>1, <1>2, <1>3, ToldStays DEF Crash, Where

------------------------------------------------------------------------------
(* The steps of the callbacks                                              *)

LEMMA StartStep ==
  ASSUME IInv, TypeOK', Kept, NEW h \in Handler, NEW j \in JobType, Start(h, j),
         JobAgrees(j)
  PROVE  Where'
  <1>1. UNCHANGED <<ask, phase, status, answer, audit, order, received, told>>
    BY DEF Start, callVars, rowVars
  <1>2. CallsAgree' /\ ColumnsAgree'
    BY <1>1, ColumnsStay DEF IInv, Where, CallsAgree
  <1>3. JobsAgree'
    <2>1. \A g \in Handler \ {h} : job'[g] # None => JobAgrees(job[g])'
      BY JobsStay DEF Start, IInv, TypeOK
    <2>2. job'[h] = j /\ JobAgrees(j)'
      BY JobStays DEF Start, IInv, TypeOK
    <2> QED
      BY <2>1, <2>2 DEF JobsAgree
  <1> QED
    BY <1>1, <1>2, <1>3, ToldStays DEF Where

LEMMA StartSteps ==
  ASSUME IInv, TypeOK', Kept, NEW h \in Handler,
         \/ \E c \in Call, says \in Content : OnAnswer(h, c, says)
         \/ \E says \in Content : OnStatus(h, says)
         \/ \E p \in Push, says \in Content : OnCancelPush(h, p, says)
  PROVE  Where'
  <1>1. ASSUME NEW kind \in Kind, NEW of \in Call \cup Push \cup {None}, NEW says \in Content,
               /\ kind \in {"update", "track"} => of \in Rows /\ KindOf(of) = kind
               /\ kind = "cancel" => of \in Push \/ CancelRow(of)
        PROVE  Job(kind, of, says) \in JobType /\ JobAgrees(Job(kind, of, says))
    BY <1>1, NewJob DEF Job, JobAgrees
  <1>2. CASE \E c \in Call, says \in Content : OnAnswer(h, c, says)
    <2> PICK c \in Call, says \in Content : OnAnswer(h, c, says)
      BY <1>2
    <2> PICK d \in RowsOf(ask[c]) : Start(h, Job(KindOf(c), d, says))
      BY DEF OnAnswer
    <2>1. d \in Call /\ d \in Rows /\ KindOf(d) = KindOf(c) /\ KindOf(c) \in Kind
      BY RowHasKind DEF RowsOf, KindOf, Rows
    <2>2. Job(KindOf(c), d, says) \in JobType /\ JobAgrees(Job(KindOf(c), d, says))
      BY <2>1, <1>1 DEF CancelRow
    <2>3. PICK j \in JobType : j = Job(KindOf(c), d, says)
      BY <2>2
    <2> QED
      BY <2>2, <2>3, StartStep
  <1>3. CASE \E says \in Content : OnStatus(h, says)
    <2> PICK says \in Content : Start(h, Job("status", None, says))
      BY <1>3 DEF OnStatus
    <2> QED
      BY <1>1, StartStep DEF Kind
  <1>4. CASE \E p \in Push, says \in Content : OnCancelPush(h, p, says)
    <2> PICK p \in Push, says \in Content : Start(h, Job("cancel", p, says))
      BY <1>4 DEF OnCancelPush
    <2> QED
      BY <1>1, StartStep DEF Kind
  <1> QED
    BY <1>2, <1>3, <1>4

\* A commit moves its own callback on; the claims of its news are up to it.
LEMMA CommitJobs ==
  ASSUME IInv, TypeOK', Kept, NEW h \in Handler, job[h] # None, Committed(h),
         \A event \in News(job[h]) : Backed(event)'
  PROVE  JobsAgree'
  <1>1. \A g \in Handler \ {h} : job'[g] # None => JobAgrees(job[g])'
    BY JobsStay DEF Committed, IInv, TypeOK
  <1>2. PICK i \in JobType : i = job[h]
    BY FullJob DEF IInv
  <1>3. PICK j \in JobType : j = [i EXCEPT !.stage = "committed"]
    BY <1>2 DEF JobType
  <1>4. job'[h] = j
    BY <1>2, <1>3, CommitKeepsJobType DEF IInv
  <1>5. News(j) = News(i)
    BY <1>3 DEF News, JobType
  <1>6. JobAgrees(i)'
    BY <1>2, JobStays DEF IInv, Where, JobsAgree
  <1>7. \A event \in News(i) : Backed(event)'
    BY <1>2
  <1>8. JobAgrees(j)'
    BY <1>3, <1>5, <1>6, <1>7 DEF JobAgrees, JobType
  <1> QED
    BY <1>1, <1>4, <1>8 DEF JobsAgree

LEMMA OnUpdateStep ==
  ASSUME IInv, TypeOK', Kept, NEW h \in Handler, CommitOnUpdate(h)
  PROVE  Where'
  <1>1. /\ job[h] # None /\ Committed(h)
        /\ job[h].of \in Rows /\ KindOf(job[h].of) = "update"
        /\ job[h].says \in Content /\ job[h].kind = "update"
    BY MatchedRow DEF CommitOnUpdate, Matched
  <1>2. /\ UNCHANGED <<ask, phase, audit, received, told>>
        /\ Rows' = Rows
        /\ \A d \in Call : status'[d] # "none" <=> status[d] # "none"
        /\ \A d \in Call : d = job[h].of \/ answer'[d] = answer[d]
    BY <1>1 DEF CommitOnUpdate, callVars, Outcome, Rows, IInv, TypeOK
  <1>3. CallsAgree'
    BY <1>1, <1>2 DEF Rows, IInv, Where, CallsAgree
  <1>4. Heard' = Heard /\ HeardOutcome' = HeardOutcome
    BY <1>1, <1>2 DEF Heard, HeardOutcome, CancelRow, KindOf
  <1>5. /\ order'.cancellation = order.cancellation
        /\ order'.tracked = order.tracked
        /\ order'.details = order.details
    BY DEF CommitOnUpdate, Reported, IInv, TypeOK
  <1>6. ColumnsAgree'
    BY <1>1, <1>2, <1>4, <1>5 DEF IInv, Where, ColumnsAgree, KindOf, Rows
  <1>7. JobsAgree'
    BY <1>1, CommitJobs DEF News
  <1> QED
    BY <1>2, <1>3, <1>6, <1>7, ToldStays DEF Where

LEMMA OnTrackStep ==
  ASSUME IInv, TypeOK', Kept, NEW h \in Handler, CommitOnTrack(h)
  PROVE  Where'
  <1>1. /\ job[h] # None /\ Committed(h)
        /\ job[h].of \in Rows /\ KindOf(job[h].of) = "track"
        /\ job[h].says \in Content /\ job[h].kind = "track"
    BY MatchedRow DEF CommitOnTrack, Matched
  <1>2. /\ UNCHANGED <<ask, phase, audit, received, told>>
        /\ Rows' = Rows
        /\ \A d \in Call : status'[d] # "none" <=> status[d] # "none"
        /\ \A d \in Call : d = job[h].of \/ answer'[d] = answer[d]
        /\ answer'[job[h].of] # "none"
    BY <1>1 DEF CommitOnTrack, callVars, Outcome, Noted, Rows, IInv, TypeOK
  <1>3. CallsAgree'
    BY <1>1, <1>2 DEF Rows, IInv, Where, CallsAgree
  <1>4. Heard' = Heard /\ HeardOutcome' = HeardOutcome
    BY <1>1, <1>2 DEF Heard, HeardOutcome, CancelRow, KindOf
  <1>5. /\ order'.cancellation = order.cancellation
        /\ order'.details = order.details
        /\ job[h].says \in State => order'.tracked
    BY DEF CommitOnTrack, IInv, TypeOK
  <1>6. ColumnsAgree'
    BY <1>1, <1>2, <1>4, <1>5 DEF IInv, Where, ColumnsAgree, KindOf, Rows
  <1>7. JobsAgree'
    BY <1>1, <1>5, CommitJobs DEF News, Backed
  <1> QED
    BY <1>2, <1>3, <1>6, <1>7, ToldStays DEF Where

LEMMA OnStatusStep ==
  ASSUME IInv, TypeOK', Kept, NEW h \in Handler, CommitOnStatus(h)
  PROVE  Where'
  <1>1. job[h] # None /\ Committed(h) /\ job[h].kind = "status"
    BY DEF CommitOnStatus, Matched
  <1>2. /\ UNCHANGED <<ask, phase, audit, received, told>>
        /\ Rows' = Rows
        /\ \A d \in Call : status'[d] # "none" <=> status[d] # "none"
        /\ \A d \in Call : (d \in Rows /\ KindOf(d) = "status") \/ answer'[d] = answer[d]
    BY <1>1 DEF CommitOnStatus, callVars, Outcome, Rows, IInv, TypeOK
  <1>3. CallsAgree'
    BY <1>1, <1>2 DEF Rows, IInv, Where, CallsAgree
  <1>4. Heard' = Heard /\ HeardOutcome' = HeardOutcome
    BY <1>1, <1>2 DEF Heard, HeardOutcome, CancelRow, KindOf
  <1>5. /\ order'.cancellation = order.cancellation
        /\ order'.tracked = order.tracked
        /\ order'.details \subseteq order.details
    BY <1>1, FullJob, StatusOrder DEF CommitOnStatus, IInv, JobType
  <1>6. ColumnsAgree'
    BY <1>1, <1>2, <1>4, <1>5 DEF IInv, Where, ColumnsAgree, KindOf, Rows
  <1>7. JobsAgree'
    BY <1>1, CommitJobs DEF News
  <1> QED
    BY <1>2, <1>3, <1>6, <1>7, ToldStays DEF Where

LEMMA OnCancelStep ==
  ASSUME IInv, TypeOK', Kept, NEW h \in Handler, CommitOnCancel(h)
  PROVE  Where' /\ Heard'
  <1>1. job[h] # None /\ Committed(h) /\ job[h].kind = "cancel"
    BY DEF CommitOnCancel, Matched
  <1>2. PICK of \in Call \cup Push \cup {None}, says \in Content :
          of = job[h].of /\ says = job[h].says
    BY <1>1, FullJob DEF IInv, JobType
  <1>3. of \in Push \/ CancelRow(of)
    BY <1>2, <1>1 DEF IInv, Where, JobsAgree, JobAgrees
  <1>4. UNCHANGED <<ask, phase, received, told>>
    BY DEF CommitOnCancel, callVars
  \* Of the rows, only those of the request change, and they are answered.
  <1>5. /\ Rows' = Rows
        /\ \A d \in Call : status'[d] # "none" <=> status[d] # "none"
        /\ \A d \in Call : \/ answer'[d] = answer[d]
                           \/ d \in Rows /\ answer'[d] = Noted(says)
        /\ \A r \in audit' : r \in audit \/ r[2] = Noted(says)
        /\ Heard'
    <2>1. CASE of \in Push
      <3>1. UNCHANGED <<status, answer>> /\ audit' = audit \cup {<<of, Noted(says)>>}
        BY <1>2, <2>1 DEF CommitOnCancel
      <3>2. Rows' = Rows /\ audit' # {}
        BY <3>1 DEF Rows
      <3>3. \A r \in audit' : r \in audit \/ r[2] = Noted(says)
        BY <3>1
      <3> QED
        BY <3>1, <3>2, <3>3 DEF Heard
    <2>2. CASE of \notin Push
      <3> DEFINE rows == RowsOf(ask[of])
      <3>1. /\ status' = [c \in Call |-> IF c \in rows THEN Outcome(says) ELSE status[c]]
            /\ answer' = [c \in Call |-> IF c \in rows THEN Noted(says) ELSE answer[c]]
            /\ UNCHANGED audit
        BY <1>2, <2>2 DEF CommitOnCancel
      <3>2. of \in rows /\ CancelRow(of) /\ rows \subseteq Rows
        BY <1>3, <2>2 DEF RowsOf, CancelRow, Rows
      <3> HIDE DEF rows
      <3>3. \A d \in Call : status'[d] # "none" <=> status[d] # "none"
        BY <3>1, <3>2 DEF Outcome, Rows
      <3>4. Rows' = Rows
        BY <3>3 DEF Rows
      <3>5. answer'[of] # "none" /\ CancelRow(of)' /\ of \in Call
        <4>1. of \in Call /\ answer'[of] = Noted(says)
          BY <3>1, <3>2 DEF CancelRow, Rows
        <4> QED
          BY <1>4, <3>2, <3>4, <4>1 DEF Noted, CancelRow, KindOf
      <3>6. \A d \in Call : answer'[d] = answer[d] \/ (d \in Rows /\ answer'[d] = Noted(says))
        BY <3>1, <3>2
      <3> QED
        BY <3>1, <3>3, <3>4, <3>5, <3>6 DEF Heard
    <2> QED
      BY <2>1, <2>2
  <1>6. CallsAgree'
    BY <1>4, <1>5 DEF Rows, IInv, Where, CallsAgree
  <1>7. CASE says \in {"Cancelled", "error"}
    <2>1. /\ order'.cancellation # "null"
          /\ order'.tracked = order.tracked
          /\ order'.details \subseteq order.details
      BY <1>2, <1>7, CancelledOrder DEF CommitOnCancel, IInv
    <2>2. ColumnsAgree'
      BY <1>4, <1>5, <2>1 DEF IInv, Where, ColumnsAgree, KindOf, Rows, Noted
    <2>3. JobsAgree'
      BY <1>1, <1>5, <1>7, <2>1, CommitJobs DEF News, Backed
    <2> QED
      BY <1>4, <1>6, <2>2, <2>3, <1>5, ToldStays DEF Where
  <1>8. CASE says \notin {"Cancelled", "error"}
    <2>1. order' = order
      BY <1>2, <1>8, CancelledOrder DEF CommitOnCancel, IInv
    <2>2. HeardOutcome' => HeardOutcome
      BY <1>4, <1>5, <1>8 DEF HeardOutcome, CancelRow, KindOf, Noted
    <2>3. ColumnsAgree'
      BY <1>4, <1>5, <2>1, <2>2 DEF IInv, Where, ColumnsAgree, KindOf, Rows, Noted
    <2>4. JobsAgree'
      BY <1>1, <1>2, <1>8, CommitJobs DEF News
    <2> QED
      BY <1>4, <1>6, <2>3, <2>4, <1>5, ToldStays DEF Where
  <1> QED
    BY <1>5, <1>7, <1>8

LEMMA EndStep ==
  ASSUME IInv, TypeOK', Kept, NEW h \in Handler, CommitFails(h) \/ Publish(h)
  PROVE  Where'
  <1>1. /\ UNCHANGED <<ask, phase, status, answer, audit, order, received>>
        /\ job' = [job EXCEPT ![h] = None]
    BY DEF CommitFails, Publish, callVars, rowVars
  <1>2. CallsAgree' /\ ColumnsAgree'
    BY <1>1, ColumnsStay DEF IInv, Where, CallsAgree
  <1>3. JobsAgree'
    BY <1>1, JobsStay DEF JobsAgree, IInv, TypeOK
  <1>4. ToldAgrees'
    <2>1. CASE CommitFails(h)
      BY <2>1, ToldStays DEF CommitFails
    <2>2. CASE Publish(h)
      <3>1. \A event \in News(job[h]) : Backed(event)
        BY <2>2 DEF Publish, IInv, Where, JobsAgree, JobAgrees
      <3>2. told' = told \cup News(job[h])
        BY <2>2 DEF Publish
      <3>3. \A event \in told' : Backed(event)
        BY <3>1, <3>2 DEF IInv, Where, ToldAgrees
      <3> QED
        BY <3>3, BackedStays DEF ToldAgrees
    <2> QED
      BY <2>1, <2>2
  <1> QED
    BY <1>2, <1>3, <1>4 DEF Where

------------------------------------------------------------------------------
(* The safety theorems                                                     *)

LEMMA InvInit == Init => IInv
  BY TypeInit DEF Init, Rows, Heard, HeardOutcome, CancelRow, CallsAgree, ColumnsAgree,
                  JobsAgree, ToldAgrees, Where, IInv

LEMMA InvStep == IInv /\ [Next]_vars => IInv'
  <1> SUFFICES ASSUME IInv, [Next]_vars PROVE IInv'
    OBVIOUS
  <1>1. TypeOK' /\ Kept
    BY TypeStep, KeptByAll
  <1>2. ASSUME NEW c \in Call, CallStep(c) PROVE Where'
    BY <1>1, <1>2, LoadStep, MoveStep, InsertStep, MarkStep DEF CallStep
  <1>3. ASSUME NEW h \in Handler, CallbackStep(h) PROVE Where'
    BY <1>1, <1>3, StartSteps, OnUpdateStep, OnStatusStep, OnTrackStep, OnCancelStep, EndStep
    DEF CallbackStep
  <1>4. CASE UNCHANGED vars
    <2>1. CallsAgree' /\ ColumnsAgree'
      BY <1>4, ColumnsStay DEF vars, IInv, Where, CallsAgree
    <2>2. JobsAgree'
      BY <1>1, <1>4, JobsStay DEF vars, JobsAgree
    <2> QED
      BY <1>1, <1>4, <2>1, <2>2, ToldStays DEF vars, Where, IInv
  <1> QED
    BY <1>1, <1>2, <1>3, <1>4, CrashStep DEF Next, IInv

\* The invariant from which the safety theorems follow.
THEOREM Inductive == Spec => []IInv
  BY InvInit, InvStep, PTL DEF Spec

\* Rows, the order, the calls and the callbacks keep their types.
THEOREM TypeCorrect == Spec => []TypeOK
  <1>1. IInv => TypeOK
    BY DEF IInv
  <1> QED
    BY <1>1, Inductive, PTL

\* CancelAnswers, read as a statement on rows.
LEMMA AnswersRead ==
  /\ CancelAnswers # {} <=> Heard
  /\ CancelAnswers \cap {"Cancelled", "error"} # {} <=> HeardOutcome
  BY DEF CancelAnswers, Heard, HeardOutcome, CancelRow, Rows

\* Through any interleaving of the calls and the callbacks, failing writes
\* and restarts, what the order says of a cancellation, a position or an
\* /update is on record, and a recorded cancellation or refusal shows.
THEOREM OrderAndRows == Spec => []OrderAndRowsAgree
  <1>1. IInv => OrderAndRowsAgree
    BY AnswersRead DEF IInv, Where, ColumnsAgree, OrderAndRowsAgree
  <1> QED
    BY <1>1, Inductive, PTL

\* The client is told of a cancellation or a position only when the commit
\* has made it durable.
THEOREM ToldOnRecord == Spec => []ToldIsOnRecord
  <1>1. IInv => ToldIsOnRecord
    BY AnswersRead DEF IInv, Where, ToldAgrees, Backed, ToldIsOnRecord
  <1> QED
    BY <1>1, Inductive, PTL

------------------------------------------------------------------------------
(* One row per request, for a client that does not overlap its calls       *)

LEMMA SerialInit == Init => SerialInv
  BY InvInit DEF Init, Rows, InFlight, OnePerRequest, OneRowPerRequest, SerialInv

\* The rows and their requests stay the same, and no call starts.
LEMMA RequestsStay ==
  ASSUME IInv, OnePerRequest, Rows' = Rows, UNCHANGED ask,
         \A c \in Call : InFlight(c)' => InFlight(c),
         \A c \in Call : phase'[c] = "free" => phase[c] = "free"
  PROVE  OnePerRequest'
  BY DEF OnePerRequest, OneRowPerRequest, RowsOf, Rows

LEMMA LoadSerial ==
  ASSUME IInv, OnePerRequest, SerialClient, NEW c \in Call, NEW k \in Kind \X Message, Load(c, k)
  PROVE  OnePerRequest'
  <1>1. /\ status' = status /\ Rows' = Rows
        /\ phase[c] = "idle" /\ c \notin Rows
        /\ \A d \in Call \ {c} : ask'[d] = ask[d] /\ phase'[d] = phase[d]
        /\ ask'[c] = k /\ phase'[c] \in {"loaded", "done"}
    BY DEF Load, Move, rowVars, Rows, IInv, TypeOK, Where, CallsAgree
  <1>2. \A d \in Call \ {c} : InFlight(d)' => ask[d] # k
    BY <1>1 DEF Load, InFlight
  <1>3. \A d, e \in Call : InFlight(d)' /\ InFlight(e)' /\ ask'[d] = ask'[e] => d = e
    BY <1>1, <1>2 DEF OnePerRequest, InFlight
  <1>4. \A d \in Rows : ask'[d] = ask[d]
    BY <1>1 DEF Rows
  <1>5. \A d \in Call : phase'[d] = "free" => RowsOf(ask[d])' = {}
    <2> SUFFICES ASSUME NEW d \in Call, phase'[d] = "free" PROVE RowsOf(ask[d])' = {}
      OBVIOUS
    <2>1. d # c /\ phase[d] = "free" /\ ask'[d] = ask[d]
      BY <1>1
    <2>2. RowsOf(ask[d]) = {}
      BY <2>1 DEF OnePerRequest
    <2> QED
      BY <1>1, <1>4, <2>1, <2>2 DEF RowsOf
  <1>6. OneRowPerRequest'
    BY <1>1, <1>4 DEF OnePerRequest, OneRowPerRequest
  <1> QED
    BY <1>3, <1>5, <1>6 DEF OnePerRequest

LEMMA FindSerial ==
  ASSUME IInv, OnePerRequest, NEW c \in Call, Find(c)
  PROVE  OnePerRequest'
  <1>1. /\ UNCHANGED <<ask, status>> /\ Rows' = Rows
        /\ phase[c] = "loaded"
        /\ phase' = [phase EXCEPT ![c] = IF RowsOf(ask[c]) = {} THEN "free" ELSE "done"]
    BY DEF Find, Move, rowVars, Rows
  <1>2. \A d \in Call : InFlight(d)' => InFlight(d)
    BY <1>1 DEF InFlight, IInv, TypeOK
  <1>3. \A d \in Call : phase'[d] = "free" => RowsOf(ask[d]) = {}
    BY <1>1 DEF OnePerRequest, IInv, TypeOK
  <1> QED
    BY <1>1, <1>2, <1>3 DEF OnePerRequest, OneRowPerRequest, RowsOf

LEMMA InsertSerial ==
  ASSUME IInv, OnePerRequest, NEW c \in Call, Insert(c)
  PROVE  OnePerRequest'
  <1>1. /\ UNCHANGED ask /\ Rows' = Rows \cup {c}
        /\ phase[c] = "free" /\ phase' = [phase EXCEPT ![c] = "sending"]
    BY DEF Insert, Move, Rows, IInv, TypeOK
  <1>2. RowsOf(ask[c]) = {}
    BY <1>1 DEF OnePerRequest
  <1>3. \A d \in Call : InFlight(d)' => InFlight(d)
    BY <1>1 DEF InFlight, IInv, TypeOK
  <1>4. \A d \in Call : phase'[d] = "free" => RowsOf(ask[d])' = {}
    <2> SUFFICES ASSUME NEW d \in Call, phase'[d] = "free" PROVE RowsOf(ask[d])' = {}
      OBVIOUS
    <2>1. d # c /\ phase[d] = "free"
      BY <1>1 DEF IInv, TypeOK
    <2>2. ask[d] # ask[c]
      BY <1>1, <2>1 DEF OnePerRequest, InFlight
    <2> QED
      BY <1>1, <2>1, <2>2 DEF OnePerRequest, RowsOf
  <1>5. OneRowPerRequest'
    BY <1>1, <1>2 DEF OnePerRequest, OneRowPerRequest, RowsOf
  <1> QED
    BY <1>1, <1>3, <1>4, <1>5 DEF OnePerRequest

LEMMA CallSerial ==
  ASSUME IInv, OnePerRequest, SerialClient, NEW c \in Call, CallStep(c)
  PROVE  OnePerRequest'
  <1>1. CASE Reach(c)
    BY <1>1, RequestsStay DEF Reach, callVars, rowVars, Rows, InFlight
  <1>2. CASE InsertFails(c) \/ SendOk(c) \/ SendFails(c) \/ MarkSentFails(c) \/ MarkFailedFails(c)
    <2>1. /\ UNCHANGED ask /\ Rows' = Rows
          /\ \E p \in {"acked", "refused", "done"} : phase' = [phase EXCEPT ![c] = p]
          /\ InFlight(c)
      BY <1>2 DEF InsertFails, SendOk, SendFails, MarkSentFails, MarkFailedFails, Move, rowVars,
                  Rows, InFlight
    <2> QED
      BY <2>1, RequestsStay DEF InFlight, IInv, TypeOK
  <1>3. CASE MarkSent(c) \/ MarkFailed(c)
    <2>1. /\ UNCHANGED ask /\ Rows' = Rows /\ phase' = [phase EXCEPT ![c] = "done"]
      BY <1>3 DEF MarkSent, MarkFailed, UpdateStatus, Move, Rows, RowsOf
    <2> QED
      BY <2>1, RequestsStay DEF InFlight, IInv, TypeOK
  <1> QED
    BY <1>1, <1>2, <1>3, LoadSerial, FindSerial, InsertSerial DEF CallStep

\* A callback adds no row of a call.
LEMMA CallbackFrame ==
  ASSUME IInv, NEW h \in Handler, CallbackStep(h)
  PROVE  UNCHANGED <<ask, phase, received>> /\ Rows' = Rows
  <1>1. UNCHANGED <<ask, phase, received>>
    BY DEF CallbackStep, OnAnswer, OnStatus, OnCancelPush, Start, CommitOnUpdate, CommitOnStatus,
           CommitOnTrack, CommitOnCancel, CommitFails, Publish, callVars
  <1>2. Rows' = Rows
    <2>1. CASE \/ \E c \in Call, says \in Content : OnAnswer(h, c, says)
               \/ \E says \in Content : OnStatus(h, says)
               \/ \E p \in Push, says \in Content : OnCancelPush(h, p, says)
      BY <2>1 DEF OnAnswer, OnStatus, OnCancelPush, Start, rowVars, Rows
    <2>2. CASE CommitOnUpdate(h)
      BY <2>2, MatchedRow DEF CommitOnUpdate, Outcome, Rows, IInv, TypeOK
    <2>3. CASE CommitOnTrack(h)
      BY <2>3, MatchedRow DEF CommitOnTrack, Outcome, Rows, IInv, TypeOK
    <2>4. CASE CommitOnStatus(h)
      BY <2>4 DEF CommitOnStatus, Outcome, Rows, IInv, TypeOK
    <2>5. CASE CommitOnCancel(h)
      <3>1. CASE UNCHANGED status
        BY <3>1 DEF Rows
      <3>2. CASE status' = [c \in Call |-> IF c \in RowsOf(ask[job[h].of])
                                           THEN Outcome(job[h].says) ELSE status[c]]
        BY <3>2 DEF RowsOf, Outcome, Rows
      <3> QED
        BY <2>5, <3>1, <3>2 DEF CommitOnCancel
    <2>6. CASE CommitFails(h) \/ Publish(h)
      BY <2>6 DEF CommitFails, Publish, rowVars, Rows
    <2> QED
      BY <2>1, <2>2, <2>3, <2>4, <2>5, <2>6 DEF CallbackStep
  <1> QED
    BY <1>1, <1>2

LEMMA CallbackSerial ==
  ASSUME IInv, OnePerRequest, NEW h \in Handler, CallbackStep(h)
  PROVE  OnePerRequest'
  BY CallbackFrame, RequestsStay DEF InFlight

LEMMA SerialStep == SerialInv /\ [Next]_vars => SerialInv'
  <1> SUFFICES ASSUME IInv, OnePerRequest, SerialClient, [Next]_vars PROVE OnePerRequest'
    BY InvStep DEF SerialInv
  <1>1. CASE Crash
    <2>1. UNCHANGED ask /\ Rows' = Rows
      BY <1>1 DEF Crash, rowVars, Rows
    <2>2. \A c \in Call : phase'[c] \in {"idle", "done"}
      BY <1>1 DEF Crash
    <2> QED
      BY <2>1, <2>2, RequestsStay DEF InFlight
  <1>2. CASE UNCHANGED vars
    BY <1>2, RequestsStay DEF vars, Rows, InFlight
  <1> QED
    BY <1>1, <1>2, CallSerial, CallbackSerial DEF Next

\* docs/api/update.md, "safe to retry": if the calls of a request do not
\* overlap, a request has one row, whatever fails in between.
THEOREM OneRow == ASSUME SerialClient PROVE Spec => []OneRowPerRequest
  <1>1. SerialInv => OneRowPerRequest
    BY DEF SerialInv, OnePerRequest
  <1> QED
    BY <1>1, SerialInit, SerialStep, PTL DEF Spec

------------------------------------------------------------------------------
(* Refinement                                                              *)

Asked == {ask[c] : c \in Rows}
Sent == {ask[c] : c \in received}

\* What OrderLedger sees of a step: the requests on record, those sent,
\* whether an /on_cancel is on record, and what the order says of it.
Unseen ==
  /\ Asked' = Asked /\ Sent' = Sent /\ Heard' = Heard
  /\ order'.cancellation = order.cancellation

LEMMA HeardRead == (CancelAnswers # {} <=> Heard) /\ (CancelAnswers' # {} <=> Heard')
  BY DEF CancelAnswers, Heard, CancelRow, Rows

LEMMA UnseenStutters == Unseen => UNCHANGED OL!olVars
  <1>1. (CancelAnswers # {})' = (CancelAnswers # {}) <=> Heard' = Heard
    BY DEF CancelAnswers, Heard, CancelRow, Rows
  <1> QED
    BY <1>1 DEF Unseen, Asked, Sent, OL!olVars

\* Rows and requests, the order's cancellation_status and the answers to
\* /cancel are what they were.
LEMMA UnseenIf ==
  ASSUME Rows' = Rows, received' = received, received \subseteq Rows,
         \A c \in Rows : ask'[c] = ask[c],
         audit' = audit,
         \A c \in Rows : KindOf(c) = "cancel" => answer'[c] = answer[c],
         order'.cancellation = order.cancellation
  PROVE  Unseen
  <1>1. Asked' = Asked /\ Sent' = Sent
    BY DEF Asked, Sent
  <1>2. Heard' = Heard
    BY DEF Heard, CancelRow, KindOf
  <1> QED
    BY <1>1, <1>2 DEF Unseen

LEMMA ReceivedAreRows == IInv => received \subseteq Rows
  BY DEF IInv, TypeOK, Where, CallsAgree, Rows

LEMMA CallRefines ==
  ASSUME IInv, NEW c \in Call, CallStep(c)
  PROVE  OL!OlNext \/ UNCHANGED OL!olVars
  <1>1. CASE \/ \E k \in Kind \X Message : Load(c, k)
             \/ Find(c) \/ InsertFails(c) \/ SendOk(c) \/ SendFails(c)
             \/ MarkSentFails(c) \/ MarkFailedFails(c)
    <2>1. UNCHANGED <<status, answer, audit, order, received>>
      BY <1>1 DEF Load, Find, InsertFails, SendOk, SendFails, MarkSentFails, MarkFailedFails,
                  rowVars
    <2>2. \A d \in Rows : ask'[d] = ask[d]
      BY <1>1 DEF Load, Find, InsertFails, SendOk, SendFails, MarkSentFails, MarkFailedFails,
                  Rows, IInv, TypeOK, Where, CallsAgree
    <2> QED
      BY <2>1, <2>2, UnseenIf, UnseenStutters, ReceivedAreRows DEF Rows
  <1>2. CASE Insert(c)
    <2>1. /\ UNCHANGED <<ask, answer, audit, received>>
          /\ Rows' = Rows \cup {c} /\ answer[c] = "none"
          /\ ask[c] \in Kind \X Message
      BY <1>2 DEF Insert, Rows, IInv, Where, CallsAgree, TypeOK
    <2>2. Asked' = Asked \cup {ask[c]} /\ Sent' = Sent
      BY <2>1 DEF Asked, Sent
    <2>3. Heard' = Heard
      BY <2>1 DEF Heard, CancelRow, KindOf
    <2>4. order'.cancellation = order.cancellation
      BY <1>2, AppliedOrder DEF Insert, IInv
    <2> QED
      BY <2>1, <2>2, <2>3, <2>4, HeardRead DEF OL!OlNext, OL!Ask, Asked, Sent
  <1>3. CASE Reach(c)
    <2>1. UNCHANGED <<ask, status, answer, audit, order>> /\ received' = received \cup {c}
          /\ c \in Rows
      BY <1>3 DEF Reach, callVars, rowVars
    <2>2. Asked' = Asked /\ Sent' = Sent \cup {ask[c]} /\ Heard' = Heard /\ ask[c] \in Asked
      BY <2>1 DEF Asked, Sent, Heard, CancelRow, KindOf, Rows
    <2>3. ask[c] \in Kind \X Message
      BY <2>1, RowHasKind
    <2> QED
      BY <2>1, <2>2, <2>3, HeardRead DEF OL!OlNext, OL!Send, Asked, Sent
  <1>4. CASE MarkSent(c) \/ MarkFailed(c)
    <2>1. UNCHANGED <<ask, answer, audit, received>> /\ Rows' = Rows /\ c \in Rows
      BY <1>4 DEF MarkSent, MarkFailed, UpdateStatus, Rows, RowsOf, IInv, Where, CallsAgree, TypeOK
    <2>2. CASE KindOf(c) # "cancel"
      <3>1. order' = order
        BY <1>4, <2>2 DEF MarkSent, MarkFailed, UpdateStatus
      <3> QED
        BY <2>1, <3>1, UnseenIf, UnseenStutters, ReceivedAreRows
    <2>3. CASE KindOf(c) = "cancel"
      <3>1. order'.cancellation \in {"pending", "failed"}
        BY <1>4, <2>3 DEF MarkSent, MarkFailed, UpdateStatus, IInv, TypeOK
      <3>2. ask[c] \in Asked /\ ask[c] \in {"cancel"} \X Message /\ ask[c] \in Kind \X Message
        BY <2>1, <2>3, RowHasKind DEF Asked, KindOf
      <3>3. Asked' = Asked /\ Sent' = Sent /\ Heard' = Heard
        BY <2>1 DEF Asked, Sent, Heard, CancelRow, KindOf
      <3> QED
        BY <3>1, <3>2, <3>3, HeardRead DEF OL!OlNext, OL!Try, Asked, Sent
    <2> QED
      BY <2>2, <2>3
  <1> QED
    BY <1>1, <1>2, <1>3, <1>4 DEF CallStep

LEMMA CallbackRefines ==
  ASSUME IInv, IInv', NEW h \in Handler, CallbackStep(h)
  PROVE  OL!OlNext \/ UNCHANGED OL!olVars
  <1>1. UNCHANGED <<ask, received>> /\ Rows' = Rows
    BY CallbackFrame
  <1>2. CASE \/ \E c \in Call, says \in Content : OnAnswer(h, c, says)
             \/ \E says \in Content : OnStatus(h, says)
             \/ \E p \in Push, says \in Content : OnCancelPush(h, p, says)
             \/ CommitFails(h) \/ Publish(h)
    <2>1. UNCHANGED <<answer, audit, order>>
      BY <1>2 DEF OnAnswer, OnStatus, OnCancelPush, Start, CommitFails, Publish, rowVars
    <2> QED
      BY <1>1, <2>1, UnseenIf, UnseenStutters, ReceivedAreRows
  <1>3. CASE CommitOnUpdate(h) \/ CommitOnTrack(h)
    <2>1. PICK kind \in {"update", "track"} : Matched(h, kind)
      BY <1>3 DEF CommitOnUpdate, CommitOnTrack
    <2>2. job[h].of \in Rows /\ KindOf(job[h].of) = kind
      BY <2>1, MatchedRow
    <2>3. \A d \in Rows : KindOf(d) = "cancel" => answer'[d] = answer[d]
      BY <1>3, <2>2 DEF CommitOnUpdate, CommitOnTrack, IInv, TypeOK, Rows
    <2>4. audit' = audit /\ order'.cancellation = order.cancellation
      BY <1>3 DEF CommitOnUpdate, CommitOnTrack, Reported, IInv, TypeOK
    <2> QED
      BY <1>1, <2>3, <2>4, UnseenIf, UnseenStutters, ReceivedAreRows
  <1>4. CASE CommitOnStatus(h)
    <2>1. \A d \in Rows : KindOf(d) = "cancel" => answer'[d] = answer[d]
      BY <1>4 DEF CommitOnStatus, IInv, TypeOK, Rows
    <2>2. audit' = audit /\ order'.cancellation = order.cancellation
      BY <1>4, FullJob, StatusOrder DEF CommitOnStatus, Matched, IInv, JobType
    <2> QED
      BY <1>1, <2>1, <2>2, UnseenIf, UnseenStutters, ReceivedAreRows
  <1>5. CASE CommitOnCancel(h)
    <2>1. order'.cancellation \in {"succeeded", "failed", order.cancellation}
      BY <1>5, FullJob, CancelledOrder DEF CommitOnCancel, Matched, IInv, JobType
    <2>2. Heard'
      BY <1>5, OnCancelStep, KeptByCallbacks DEF IInv
    <2>3. Asked' = Asked /\ Sent' = Sent
      BY <1>1 DEF Asked, Sent
    <2> QED
      BY <2>1, <2>2, <2>3, HeardRead DEF OL!OlNext, OL!Hear, Asked, Sent
  <1> QED
    BY <1>2, <1>3, <1>4, <1>5 DEF CallbackStep

\* Nothing is sent that is not on record, and the order never says more of a
\* cancellation than was asked for and was heard.
THEOREM Refinement == Spec => ImplementsOrderLedger
  <1>1. Init => OL!OlInit
    BY DEF Init, OL!OlInit, Rows, CancelAnswers
  <1>2. IInv /\ IInv' /\ [Next]_vars => [OL!OlNext]_OL!olVars
    <2> SUFFICES ASSUME IInv, IInv', [Next]_vars PROVE OL!OlNext \/ UNCHANGED OL!olVars
      OBVIOUS
    <2>1. CASE Crash \/ UNCHANGED vars
      <3>1. UNCHANGED <<ask, status, answer, audit, order, received>>
        BY <2>1 DEF Crash, vars, rowVars
      <3> QED
        BY <3>1, UnseenIf, UnseenStutters, ReceivedAreRows DEF Rows
    <2> QED
      BY <2>1, CallRefines, CallbackRefines DEF Next
  <1> QED
    BY <1>1, <1>2, Inductive, PTL DEF Spec, ImplementsOrderLedger, OL!OlSpec
==============================================================================
