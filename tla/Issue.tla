-------------------------------- MODULE Issue --------------------------------
(***************************************************************************)
(* One complaint: services/issue.service.ts, repositories/issue.           *)
(* repository.ts, controllers/issue.controller.ts, mappers/issue.mapper.ts *)
(* and schemas/issue.schema.ts.                                            *)
(*                                                                         *)
(* A call opens the issue, closes it, escalates it or asks for its status. *)
(* Other issues are other instances; of those that are opened for the same *)
(* order, perhaps by a retry of the very same request, the opening is here *)
(* too, for the rows of ondc_transactions are found by message_id.  An     *)
(* action of ours is the call that wrote it and its descriptor code, one   *)
(* of the respondent only the latter.                                      *)
(* Action ids are positions ("complainant-1", "respondent-0"), so each     *)
(* side's rows of issue_actions are a sequence, and the unique index on    *)
(* (issue_id, action_id) refuses a row for a place that is taken.          *)
(*                                                                         *)
(* The respondent does what Reply says, in this order; a callback carries  *)
(* what it had done when the callback was written, and perhaps the         *)
(* complainant's actions as it had got them.  Callbacks are acknowledged   *)
(* first, come in any order and any number of times; those that the code   *)
(* refuses or takes for duplicates change nothing and are no steps.        *)
(***************************************************************************)
EXTENDS Absent, Naturals, Sequences

CONSTANTS
  Opener,       \* the call that opens the issue
  Twin,         \* calls that open an issue of their own, for the same order
  Later,        \* the calls that close it, escalate it or ask for its status
  Message,      \* the message_ids of the calls
  Push,         \* the keys of callbacks nobody asked for
  Handler,      \* callbacks processed at the same time
  Reply,        \* the respondent's actions, in order
  Status,       \* the words for the status of an issue
  Level,        \* and for its level
  Content,      \* what callbacks say besides the two logs
  Opened,       \* the message_id the issue was opened with, or None: it is not yet
  SerialClient, \* TRUE: no two calls on the issue in flight at once
  DbMayFail,    \* TRUE: a write may fail
  MaxCrashes    \* bound: restarts of the process

Call == {Opener} \cup Twin \cup Later
Code == {"OPEN", "CLOSE", "ESCALATE", "status"}
Action == {"issue", "issue_status"}
Key == Action \X Message \cup Push
Entry == Call \X (Code \ {"status"})

ASSUME CallsAreApart ==
  /\ Opener \notin Later \cup Twin /\ Twin \cap Later = {}
  /\ Push \cap (Action \X Message) = {}
ASSUME OpenedIsMessage == Opened \in Message \cup {None}

\* We write these ourselves; the respondent's words are its own.
ASSUME OurWords ==
  /\ {"OPEN", "CLOSED"} \subseteq Status /\ {"ISSUE", "GRIEVANCE"} \subseteq Level
  /\ None \notin Status \cup Level

\* An error or not, and the status and the level it has, if any.
ASSUME ContentIsSaid ==
  Content \subseteq [error : BOOLEAN, status : Status \cup {None}, level : Level \cup {None}]
ASSUME ReplyIsCodes == Reply \in Seq({"PROCESSING", "RESOLVED"})
ASSUME Switches == SerialClient \in BOOLEAN /\ DbMayFail \in BOOLEAN
ASSUME CrashBound == MaxCrashes \in Nat
ASSUME NoneIsNoCall ==
  /\ None \notin Code \X Message
  /\ None \notin [key : Key, named : BOOLEAN, echo : Seq(Entry), stage : {"matched"}]
  /\ None \notin [key : Key, named : BOOLEAN, echo : Seq(Entry), stage : {"read"},
                  ours : Nat, theirs : Nat]
  /\ None \notin [news : 0..Len(Reply), stage : {"committed"}]

VARIABLES
  ask,      \* the code and the message_id of a call that has begun
  phase,    \* how far a call has come
  read,     \* what a call has read of the issue: its level and our actions
  status,   \* of the row a call has written to ondc_transactions
  answered, \* the calls whose row records a callback
  audit,    \* the keys of the rows written for callbacks nobody asked for
  issue,    \* the row of issues
  ours,     \* rows of issue_actions: what the complainant has done
  theirs,   \* rows of issue_actions: what the respondent has done
  payload,  \* the complainant_actions of this issue that a call sends
  received, \* the calls that have reached the LSP
  job,      \* the callbacks being processed
  told,     \* how much of theirs the client has been told to look at
  broken,   \* the calls a status write failed for
  crashes

vars == <<ask, phase, read, status, answered, audit, issue, ours, theirs, payload,
          received, job, told, broken, crashes>>

rowVars == <<status, answered, audit>>
logVars == <<issue, ours, theirs, payload>>
callVars == <<ask, phase, read, payload, broken>>
pastVars == <<told, crashes>>

NothingRead == [level |-> "ISSUE", ours |-> <<>>]

\* Before the issue is opened, or when the call that opened it is over and
\* the LSP has it.
Init ==
  LET open == Opened # None
      first == IF open THEN <<<<Opener, "OPEN">>>> ELSE <<>>
      done == IF open THEN {Opener} ELSE {}
  IN
  /\ ask = [c \in Call |-> IF c \in done THEN <<"OPEN", Opened>> ELSE None]
  /\ phase = [c \in Call |-> IF c \in done THEN "done" ELSE "idle"]
  /\ read = [c \in Call |-> NothingRead]
  /\ status = [c \in Call |-> IF c \in done THEN "sent" ELSE "none"]
  /\ answered = {}
  /\ audit = {}
  /\ issue = [stored |-> open, status |-> "OPEN", level |-> "ISSUE"]
  /\ ours = first
  /\ theirs = <<>>
  /\ payload = [c \in Call |-> IF c \in done THEN first ELSE <<>>]
  /\ received = done
  /\ job = [h \in Handler |-> None]
  /\ told = 0
  /\ broken = {}
  /\ crashes = 0

CodeOf(c) == ask[c][1]
KeyOf(c) == <<IF CodeOf(c) = "status" THEN "issue_status" ELSE "issue", ask[c][2]>>
Rows == {c \in Call : status[c] # "none"}
RowsOf(k) == {c \in Rows : KeyOf(c) = k}
Move(c, p) == phase' = [phase EXCEPT ![c] = p]
InFlight(c) == phase[c] \notin {"idle", "done"}
Heard(code) == \E i \in 1..Len(theirs) : theirs[i] = code

------------------------------------------------------------------------------
(* The calls                                                               *)

Begin(c, code, m) ==
  /\ phase[c] = "idle"
  /\ SerialClient => \A d \in Call : ~InFlight(d)
  /\ ask' = [ask EXCEPT ![c] = <<code, m>>]

\* createIssue: the order is loaded; a new issue has nothing to read, and an id
\* of its own.
Open(c, m) ==
  /\ Begin(c, "OPEN", m)
  /\ Move(c, "loaded")
  /\ UNCHANGED <<read, rowVars, logVars, received, job, pastVars, broken>>

\* updateIssue, checkIssueStatus: findByIssueId reads the row of the issue.
\* An update of a closed issue, and an escalation beyond GRIEVANCE, are
\* refused on this row.
ReadRow(c, code, m) ==
  /\ Begin(c, code, m)
  /\ issue.stored
  /\ code \in {"CLOSE", "ESCALATE"} => issue.status # "CLOSED"
  /\ code = "ESCALATE" => issue.level = "ISSUE"
  /\ read' = [read EXCEPT ![c] = [level |-> issue.level, ours |-> <<>>]]
  /\ Move(c, "row")
  /\ UNCHANGED <<rowVars, logVars, received, job, pastVars, broken>>

\* findByIssueId, the second round of queries: the actions.  An escalation
\* needs a respondent who has resolved the issue.
ReadActions(c) ==
  /\ phase[c] = "row"
  /\ read' = [read EXCEPT ![c] = [level |-> read[c].level, ours |-> ours]]
  /\ Move(c, IF CodeOf(c) = "ESCALATE" /\ ~Heard("RESOLVED") THEN "done" ELSE "loaded")
  /\ UNCHANGED <<ask, rowVars, logVars, received, job, pastVars, broken>>

\* Faulty: no look for an earlier row.
AlwaysNew(c) ==
  /\ phase[c] = "loaded"
  /\ Move(c, "free")
  /\ UNCHANGED <<ask, read, rowVars, logVars, received, job, pastVars, broken>>

\* The look for a row of the same request, which makes the call a retry.
Find(c) ==
  /\ phase[c] = "loaded"
  /\ Move(c, IF RowsOf(KeyOf(c)) = {} THEN "free" ELSE "done")
  /\ UNCHANGED <<ask, read, rowVars, logVars, received, job, pastVars, broken>>

NextStatus(code) == IF code = "CLOSE" THEN "CLOSED" ELSE "OPEN"
NextLevel(c) == IF CodeOf(c) = "ESCALATE" THEN "GRIEVANCE" ELSE read[c].level

\* The place of the new action, complainant-<n>, is not taken.
PlaceIsFree(c) == Len(ours) <= Len(read[c].ours)

\* Faulty: only the new action is sent.
NewActionOnly(c) == <<<<c, CodeOf(c)>>>>

\* The complainant_actions sent: the history that was read with the new action
\* behind it.
ActionsSent(c) == Append(read[c].ours, <<c, CodeOf(c)>>)

\* The complainant_actions of the request that opens the issue.
OpeningSent(c) == <<<<c, "OPEN">>>>

\* One transaction: the action, the row of the issue, the row of the request.
Write(c, sent, is, level) ==
  /\ ours' = Append(ours, <<c, CodeOf(c)>>)
  /\ issue' = [stored |-> TRUE, status |-> is, level |-> level]
  /\ payload' = [payload EXCEPT ![c] = sent]
  /\ status' = [status EXCEPT ![c] = "pending"]
  /\ read' = [read EXCEPT ![c] = NothingRead]
  /\ Move(c, "sending")
  /\ UNCHANGED <<ask, answered, audit, theirs, received, job, pastVars, broken>>

\* createIssue.
Create(c) ==
  /\ phase[c] = "free"
  /\ c = Opener
  /\ Write(c, OpeningSent(c), "OPEN", "ISSUE")

\* The same for another issue, of which only the row of the request is here.
CreateTwin(c) ==
  /\ phase[c] = "free"
  /\ c \in Twin
  /\ status' = [status EXCEPT ![c] = "pending"]
  /\ Move(c, "sending")
  /\ UNCHANGED <<ask, read, answered, audit, logVars, received, job, pastVars, broken>>

\* appendIssueAction.
Act(c) ==
  /\ phase[c] = "free"
  /\ CodeOf(c) \in {"CLOSE", "ESCALATE"}
  /\ PlaceIsFree(c)
  /\ Write(c, ActionsSent(c), NextStatus(CodeOf(c)), NextLevel(c))

\* The place is taken, or the database fails: nothing is left behind.
AppendFails(c) ==
  /\ phase[c] = "free"
  /\ DbMayFail \/ (CodeOf(c) \in {"CLOSE", "ESCALATE"} /\ ~PlaceIsFree(c))
  /\ read' = [read EXCEPT ![c] = NothingRead]
  /\ Move(c, "done")
  /\ UNCHANGED <<ask, rowVars, logVars, received, job, pastVars, broken>>

\* createIssueStatusCheck.
Check(c) ==
  /\ phase[c] = "free"
  /\ CodeOf(c) = "status"
  /\ status' = [status EXCEPT ![c] = "pending"]
  /\ Move(c, "sending")
  /\ UNCHANGED <<ask, read, answered, audit, logVars, received, job, pastVars, broken>>

\* One of the attempts reaches the LSP, perhaps after we gave up on it.
Reach(c) ==
  /\ c \in Rows \ received
  /\ received' = received \cup {c}
  /\ UNCHANGED <<ask, phase, read, rowVars, logVars, job, pastVars, broken>>

SendOk(c) ==
  /\ phase[c] = "sending"
  /\ c \in received
  /\ Move(c, "acked")
  /\ UNCHANGED <<ask, read, rowVars, logVars, received, job, pastVars, broken>>

SendFails(c) ==
  /\ phase[c] = "sending"
  /\ Move(c, "refused")
  /\ UNCHANGED <<ask, read, rowVars, logVars, received, job, pastVars, broken>>

\* updateStatus: every row of the request, whatever it says by now.
UpdateStatus(c, s) ==
  /\ status' = [d \in Call |-> IF d \in RowsOf(KeyOf(c)) THEN s ELSE status[d]]
  /\ UNCHANGED <<answered, audit>>

MarkSent(c) ==
  /\ phase[c] = "acked"
  /\ UpdateStatus(c, "sent")
  /\ Move(c, "done")
  /\ UNCHANGED <<ask, read, logVars, received, job, pastVars, broken>>

\* The write of "sent" is inside the try block.
MarkSentFails(c) ==
  /\ DbMayFail
  /\ phase[c] = "acked"
  /\ Move(c, "refused")
  /\ UNCHANGED <<ask, read, rowVars, logVars, received, job, pastVars, broken>>

\* Faulty: the error is rethrown without being recorded.
MarkFailedUnrecorded(c) ==
  /\ phase[c] = "refused"
  /\ Move(c, "done")
  /\ UNCHANGED <<ask, read, rowVars, logVars, received, job, pastVars, broken>>

\* The action stays: the issue is closed or escalated here although the LSP
\* may never have had it.
MarkFailed(c) ==
  /\ phase[c] = "refused"
  /\ UpdateStatus(c, "failed")
  /\ Move(c, "done")
  /\ UNCHANGED <<ask, read, logVars, received, job, pastVars, broken>>

MarkFailedFails(c) ==
  /\ DbMayFail
  /\ phase[c] = "refused"
  /\ broken' = broken \cup {c}
  /\ Move(c, "done")
  /\ UNCHANGED <<ask, read, rowVars, logVars, received, job, pastVars>>

------------------------------------------------------------------------------
(* The callbacks                                                           *)

Start(h, key, named, echo) ==
  /\ job[h] = None
  /\ named \/ echo = <<>>
  /\ job' = [job EXCEPT ![h] = [key |-> key, named |-> named, echo |-> echo, stage |-> "matched"]]
  /\ UNCHANGED <<ask, phase, read, rowVars, logVars, received, pastVars, broken>>

\* The complainant's actions as one request has brought them to the LSP, which
\* a callback may carry, or not.
Echo == {payload[c] : c \in received} \cup {<<>>}

\* A callback with the message_id of one of our calls: a row of the request
\* that records none yet.  /on_issue must name an issue, this or another,
\* /on_issue_status need not.
OnAnswer(h, c, named, echo) ==
  /\ c \in received
  /\ \E d \in RowsOf(KeyOf(c)) : d \notin answered
  /\ named => received \ Twin # {}
  /\ KeyOf(c)[1] = "issue" => named \/ received \cap Twin # {}
  /\ Start(h, KeyOf(c), named, echo)

\* One of the LSP's own: it must name the issue, and is known only by the row
\* an earlier delivery has written.
OnPush(h, key, echo) ==
  /\ issue.stored
  /\ key \notin audit
  /\ Start(h, key, TRUE, echo)

Stage(h, stage) == job[h] # None /\ job[h].stage = stage

\* The ids of the actions that are stored.
ReadIds(h) ==
  /\ Stage(h, "matched")
  /\ job' = [job EXCEPT ![h] =
       [key |-> job[h].key, named |-> job[h].named, echo |-> job[h].echo, stage |-> "read",
        ours |-> Len(ours), theirs |-> Len(theirs)]]
  /\ UNCHANGED <<ask, phase, read, rowVars, logVars, received, pastVars, broken>>

\* Faulty: an echoed action is not recognised.
EchoIsNew(j) == j.echo

\* The incoming actions whose ids were not stored when they were read; resp
\* is how far the respondent was when the callback was written.
NewOurs(j) == SubSeq(j.echo, j.ours + 1, Len(j.echo))
NewTheirs(j, resp) == SubSeq(Reply, j.theirs + 1, resp)

\* Faulty: a second row for a place that is taken.
AlwaysFits(j, resp) == TRUE

\* None of their places has been taken since.
Fits(j, resp) ==
  /\ NewOurs(j) # <<>> => Len(ours) <= j.ours
  /\ NewTheirs(j, resp) # <<>> => Len(theirs) <= j.theirs

\* Faulty: what a callback leaves out is blanked.
PatchedBlank(says) ==
  IF says.error THEN issue ELSE [issue EXCEPT !.status = says.status, !.level = says.level]

\* buildIssuePatch: what the callback carries, word for word.
Patched(says) ==
  IF says.error THEN issue
  ELSE [issue EXCEPT !.status = Else(says.status, @), !.level = Else(says.level, @)]

Outcome(says) == IF says.error THEN "failed" ELSE "completed"

\* The rows of the request, or a row of its own.
Record(key, says) ==
  IF key \notin Push
  THEN /\ status' = [c \in Call |-> IF c \in RowsOf(key) THEN Outcome(says) ELSE status[c]]
       /\ answered' = answered \cup RowsOf(key)
       /\ UNCHANGED audit
  ELSE /\ audit' = audit \cup {key}
       /\ UNCHANGED <<status, answered>>

\* handleOnIssue and handleOnIssueStatus, the transaction.  (What a callback
\* says makes no difference before, and so is chosen here.)
Commit(h, says, resp) ==
  /\ Stage(h, "read")
  /\ job[h].named \/ (resp = 0 /\ Patched(says) = issue)
  /\ Fits(job[h], resp)
  /\ ours' = ours \o NewOurs(job[h])
  /\ theirs' = theirs \o NewTheirs(job[h], resp)
  /\ issue' = Patched(says)
  /\ Record(job[h].key, says)
  /\ job' = [job EXCEPT ![h] = [news |-> IF says.error THEN 0 ELSE resp,
                               stage |-> "committed"]]
  /\ UNCHANGED <<ask, phase, read, payload, received, told, crashes, broken>>

\* A place is taken, or the database fails: nothing is left behind, and the
\* callback, whose ACK is out, is lost.
CommitFails(h) ==
  /\ Stage(h, "read")
  /\ DbMayFail \/ \E resp \in 0..Len(Reply) : ~Fits(job[h], resp)
  /\ job' = [job EXCEPT ![h] = None]
  /\ UNCHANGED <<ask, phase, read, rowVars, logVars, received, pastVars, broken>>

\* issue_updated, issue_status_updated: the client comes to look.
Publish(h) ==
  /\ Stage(h, "committed")
  /\ told' = IF job[h].news > told THEN job[h].news ELSE told
  /\ job' = [job EXCEPT ![h] = None]
  /\ UNCHANGED <<ask, phase, read, rowVars, logVars, received, crashes, broken>>

------------------------------------------------------------------------------
\* The process restarts: calls and callbacks in progress are gone.
Crash ==
  /\ crashes < MaxCrashes
  /\ crashes' = crashes + 1
  /\ phase' = [c \in Call |-> IF phase[c] = "idle" THEN "idle" ELSE "done"]
  /\ job' = [h \in Handler |-> None]
  /\ UNCHANGED <<ask, read, rowVars, logVars, received, told, broken>>

CallStep(c) ==
  \/ c \notin Later /\ \E m \in Message : Open(c, m)
  \/ c \in Later /\ \E code \in Code \ {"OPEN"}, m \in Message : ReadRow(c, code, m)
  \/ ReadActions(c)
  \/ Find(c)
  \/ Create(c)
  \/ CreateTwin(c)
  \/ Act(c)
  \/ AppendFails(c)
  \/ Check(c)
  \/ Reach(c)
  \/ SendOk(c)
  \/ SendFails(c)
  \/ MarkSent(c)
  \/ MarkSentFails(c)
  \/ MarkFailed(c)
  \/ MarkFailedFails(c)

CallbackStep(h) ==
  \/ \E c \in Call, named \in BOOLEAN, echo \in Echo : OnAnswer(h, c, named, echo)
  \/ \E key \in Push, echo \in Echo : OnPush(h, key, echo)
  \/ ReadIds(h)
  \/ \E says \in Content, resp \in 0..Len(Reply) : Commit(h, says, resp)
  \/ CommitFails(h)
  \/ Publish(h)

Next ==
  \/ \E c \in Call : CallStep(c)
  \/ \E h \in Handler : CallbackStep(h)
  \/ Crash

\* A call under way goes on: the runtime runs every continuation, and a send
\* ends by answer or by time-out.
Fairness ==
  \A c \in Call :
    WF_vars(SendOk(c) \/ SendFails(c) \/ MarkSent(c) \/ MarkFailed(c) \/ MarkFailedFails(c))

Spec == Init /\ [][Next]_vars
FairSpec == Spec /\ Fairness

------------------------------------------------------------------------------
JobType ==
  [key : Key, named : BOOLEAN, echo : Seq(Entry), stage : {"matched"}]
  \cup [key : Key, named : BOOLEAN, echo : Seq(Entry), stage : {"read"}, ours : Nat, theirs : Nat]
  \cup [news : 0..Len(Reply), stage : {"committed"}]

TypeOK ==
  /\ ask \in [Call -> (Code \X Message) \cup {None}]
  /\ phase \in [Call -> {"idle", "row", "loaded", "free", "sending", "acked", "refused", "done"}]
  /\ read \in [Call -> [level : Level, ours : Seq(Entry)]]
  /\ status \in [Call -> {"none", "pending", "sent", "completed", "failed"}]
  /\ answered \subseteq Call
  /\ audit \subseteq Push
  /\ issue \in [stored : BOOLEAN, status : Status, level : Level]
  /\ ours \in Seq(Entry)
  /\ theirs \in Seq({"PROCESSING", "RESOLVED"})
  /\ payload \in [Call -> Seq(Entry)]
  /\ received \subseteq Call
  /\ job \in [Handler -> JobType \cup {None}]
  /\ told \in Nat
  /\ broken \subseteq Call
  /\ crashes \in 0..MaxCrashes

\* docs/architecture/database/issues.md:103, "Append-only ... inserted only if
\* action_id isn't already stored".  With positions as ids, a history read two
\* queries before it is extended and callbacks that echo it: every action of
\* ours is there once, with its request; the log begins with the opening; and
\* the escalation the service allows only after a resolution
\* (issue.service.ts:191) has one on record.
OurLogIsTrue ==
  /\ issue.stored <=> ours # <<>>
  /\ ours # <<>> => ours[1] = <<Opener, "OPEN">>
  /\ \A i, k \in 1..Len(ours) : ours[i][1] = ours[k][1] => i = k
  /\ \A c \in Call : (\E i \in 1..Len(ours) : ours[i][1] = c)
                     <=> c \in Rows \ Twin /\ CodeOf(c) # "status"
  /\ (\E i \in 1..Len(ours) : ours[i][2] = "ESCALATE") => Heard("RESOLVED")

\* The respondent's actions are the beginning of what it did, in its order,
\* each once, although callbacks that were written before others are
\* processed after them, or with them; and the client is never sent to look at
\* more than is stored.
TheirLogIsTrue ==
  /\ Len(theirs) <= Len(Reply)
  /\ \A i \in 1..Len(theirs) : theirs[i] = Reply[i]
  /\ told <= Len(theirs)

\* issues.md:105, "Every outbound /issue rebuilds its actions[] from these
\* rows": what a call sends is the log up to and with its own action, also
\* when two clients act at once, and so whatever reaches the LSP agrees with
\* whatever else has.
SentIsTheLog ==
  \A c \in Rows \ Twin :
    CodeOf(c) # "status" =>
      /\ Len(payload[c]) \in 1..Len(ours)
      /\ \A i \in 1..Len(payload[c]) : payload[c][i] = ours[i]
      /\ payload[c][Len(payload[c])] = <<c, CodeOf(c)>>

\* The request that acts on the issue is recorded, and so sent, once, also for
\* a client that does not wait for one attempt before the next: what the look
\* for a row lets pass meets the unique index on the issue's actions.  (The
\* request that opens an issue has no such index: a Twin may stand beside it.)
ActedOnce ==
  \A c, d \in Rows \ Twin : KeyOf(c) = KeyOf(d) /\ CodeOf(c) # "status" => c = d

\* Unless the process dies or the database fails, a recorded call comes to an
\* end and leaves "pending" behind.
EveryCallSettles ==
  \A c \in Call :
    phase[c] = "sending" ~>
      \/ phase[c] = "done" /\ status[c] # "pending"
      \/ c \in broken \/ crashes > 0

\* The promise of IssueLog.
IL == INSTANCE IssueLog WITH
        Action <- Entry,
        Closing <- Call \X {"CLOSE"},
        ours <- ours,
        theirs <- theirs,
        sent <- {payload[c] : c \in {d \in received \ Twin : CodeOf(d) # "status"}},
        status <- issue.status

ImplementsIssueLog == IL!IlSpec
==============================================================================
