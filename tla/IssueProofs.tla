------------------------------ MODULE IssueProofs ------------------------------
(***************************************************************************)
(* Proofs about one complaint, for any number of calls, callbacks, replies *)
(* and restarts.                                                           *)
(*                                                                         *)
(* That our log is true is not inductive: a call relies on what it has     *)
(* read two steps before it writes, and a callback on what was sent.  So   *)
(* the invariant says of each of them what it knows.                       *)
(***************************************************************************)
EXTENDS Issue, SequenceTheorems, TLAPS

Prefix(s, t) == Len(s) <= Len(t) /\ \A i \in 1..Len(s) : s[i] = t[i]

\* A call that has not written yet.
Fresh == {"idle", "row", "loaded", "free"}

Acts(c) == CodeOf(c) # "status" /\ c \notin Twin
InLog(c) == \E i \in 1..Len(ours) : ours[i][1] = c

\* What is known of a call before it writes: nobody has closed or escalated
\* since it read the log, or the place it wants is taken.
CallFacts(c) ==
  /\ phase[c] = "idle" <=> ask[c] = None
  /\ phase[c] \in Fresh => status[c] = "none"
  /\ ask[c] # None => (c \notin Later <=> CodeOf(c) = "OPEN")
  /\ c \in Later /\ ask[c] # None => ours # <<>>
  /\ c = Opener /\ phase[c] \in Fresh => ours = <<>>
  /\ phase[c] \in {"loaded", "free"} /\ c \in Later /\ Acts(c) =>
       /\ Prefix(read[c].ours, ours)
       /\ CodeOf(c) = "ESCALATE" => Heard("RESOLVED")
       /\ phase[c] = "free" /\ PlaceIsFree(c) => RowsOf(KeyOf(c)) \subseteq Twin

\* What is known of the log.
LogFacts ==
  /\ issue.stored <=> ours # <<>>
  /\ ours # <<>> => ours[1] = <<Opener, "OPEN">>
  /\ ours = <<>> => Rows \subseteq Twin
  /\ \A i, k \in 1..Len(ours) : ours[i][1] = ours[k][1] => i = k
  /\ \A c \in Call : InLog(c) <=> c \in Rows /\ Acts(c)
  /\ (\E i \in 1..Len(ours) : ours[i][2] = "ESCALATE") => Heard("RESOLVED")
  /\ received \subseteq Rows

\* What a call has sent.
SentFacts(c) ==
  /\ Prefix(payload[c], ours)
  /\ c \in Rows /\ Acts(c) =>
       Len(payload[c]) > 0 /\ payload[c][Len(payload[c])] = <<c, CodeOf(c)>>

\* What is known of a callback while it is processed: all it echoes is stored.
JobFacts(h) ==
  /\ Stage(h, "matched") => Len(job[h].echo) <= Len(ours)
  /\ Stage(h, "read") => /\ Len(job[h].echo) <= job[h].ours
                         /\ job[h].theirs <= Len(theirs)
  /\ Stage(h, "committed") => job[h].news <= Len(theirs)

IInv ==
  /\ TypeOK
  /\ LogFacts /\ TheirLogIsTrue /\ ActedOnce
  /\ \A c \in Call : CallFacts(c) /\ SentFacts(c)
  /\ \A h \in Handler : JobFacts(h)

------------------------------------------------------------------------------
(* Types.                                                                  *)

LEMMA JobShape ==
  ASSUME TypeOK, NEW h \in Handler
  PROVE  /\ Stage(h, "matched") =>
              job[h] \in [key : Key, named : BOOLEAN, echo : Seq(Entry), stage : {"matched"}]
         /\ Stage(h, "read") =>
              job[h] \in [key : Key, named : BOOLEAN, echo : Seq(Entry), stage : {"read"},
                          ours : Nat, theirs : Nat]
         /\ Stage(h, "committed") => job[h] \in [news : 0..Len(Reply), stage : {"committed"}]
  <1>1. job[h] \in JobType \cup {None}
    BY DEF TypeOK
  <1>2. CASE job[h] = None
    BY <1>2 DEF Stage
  <1>3. CASE job[h] \in [key : Key, named : BOOLEAN, echo : Seq(Entry), stage : {"matched"}]
    BY <1>3 DEF Stage
  <1>4. CASE job[h] \in [key : Key, named : BOOLEAN, echo : Seq(Entry), stage : {"read"},
                         ours : Nat, theirs : Nat]
    BY <1>4 DEF Stage
  <1>5. CASE job[h] \in [news : 0..Len(Reply), stage : {"committed"}]
    BY <1>5 DEF Stage
  <1> QED
    BY <1>1, <1>2, <1>3, <1>4, <1>5 DEF JobType

\* What a call has asked for has a code and a message_id.
LEMMA Asked ==
  ASSUME TypeOK, NEW c \in Call, ask[c] # None
  PROVE  /\ ask[c] \in Code \X Message /\ CodeOf(c) \in Code
         /\ KeyOf(c) \in Key
         /\ Acts(c) => <<c, CodeOf(c)>> \in Entry
  <1>1. ask[c] \in Code \X Message
    BY DEF TypeOK
  <1>2. ask[c][1] \in Code /\ ask[c][2] \in Message
    BY <1>1
  <1> QED
    BY <1>1, <1>2 DEF CodeOf, KeyOf, Key, Action, Acts, Entry, Code

\* A call that is not idle has asked, and one with a row is not idle.
LEMMA RowsAsked ==
  ASSUME IInv
  PROVE  /\ \A c \in Call : phase[c] # "idle" <=> ask[c] # None
         /\ \A c \in Rows : c \in Call /\ phase[c] \notin Fresh /\ ask[c] # None
  BY DEF IInv, CallFacts, Rows, Fresh

\* An action and a status check never share a key.
LEMMA KeysTell ==
  ASSUME NEW c, NEW d, KeyOf(c) = KeyOf(d)
  PROVE  CodeOf(c) = "status" <=> CodeOf(d) = "status"
  BY DEF KeyOf

\* A call opens the issue, opens another or comes later.
LEMMA Calls ==
  ASSUME NEW c \in Call
  PROVE  /\ c = Opener \/ c \in Twin \/ c \in Later
         /\ c \in Later => c # Opener /\ c \notin Twin
         /\ Opener \notin Twin
  BY CallsAreApart DEF Call

------------------------------------------------------------------------------
(* What a step leaves alone.                                               *)

\* A call whose own variables stand, or that has come past its write.
LEMMA CallKept ==
  ASSUME IInv, NEW c \in Call, ours' = ours, theirs' = theirs,
         ask'[c] = ask[c],
         \/ phase'[c] = phase[c] /\ read'[c] = read[c]
         \/ phase[c] # "idle" /\ phase'[c] \notin Fresh,
         \A d \in Call : status'[d] = "none" <=> status[d] = "none",
         \A d \in Call : ask[d] # None => ask'[d] = ask[d]
  PROVE  CallFacts(c)'
  <1>1. CallFacts(c) /\ (ask[c] # None => ask[c] \in Code \X Message)
    BY DEF IInv, TypeOK
  <1>2. Rows' = Rows
    BY DEF Rows
  <1>3. CodeOf(c)' = CodeOf(c) /\ KeyOf(c)' = KeyOf(c) /\ (Acts(c)' <=> Acts(c))
    BY DEF CodeOf, KeyOf, Acts
  <1>4. \A d \in Rows : KeyOf(d)' = KeyOf(d)
    BY RowsAsked DEF CodeOf, KeyOf
  <1>5. RowsOf(KeyOf(c))' = RowsOf(KeyOf(c))
    BY <1>2, <1>3, <1>4 DEF RowsOf
  <1>6. CASE phase'[c] = phase[c] /\ read'[c] = read[c]
    <2>1. Prefix(read[c].ours, ours)' <=> Prefix(read[c].ours, ours)
      BY <1>6 DEF Prefix
    <2>2. (PlaceIsFree(c)' <=> PlaceIsFree(c)) /\ (Heard("RESOLVED")' <=> Heard("RESOLVED"))
      BY <1>6 DEF PlaceIsFree, Heard
    <2> QED
      BY <1>1, <1>3, <1>5, <1>6, <2>1, <2>2 DEF CallFacts
  <1>7. CASE phase[c] # "idle" /\ phase'[c] \notin Fresh
    <2>1. phase'[c] \notin {"idle", "row", "loaded", "free"}
      BY <1>7 DEF Fresh
    <2> QED
      BY <1>1, <1>3, <1>7, <2>1 DEF CallFacts, Fresh
  <1> QED
    BY <1>6, <1>7

LEMMA JobKept ==
  ASSUME IInv, NEW h \in Handler, ours' = ours, theirs' = theirs,
         job'[h] = job[h] \/ job'[h] = None
  PROVE  JobFacts(h)'
  <1>1. JobFacts(h)
    BY DEF IInv
  <1>2. CASE job'[h] = job[h]
    BY <1>1, <1>2 DEF JobFacts, Stage
  <1>3. CASE job'[h] = None
    BY <1>3 DEF JobFacts, Stage
  <1> QED
    BY <1>2, <1>3

\* A step that writes no log and no row.
LEMMA Quiet ==
  ASSUME IInv, TypeOK', ours' = ours, theirs' = theirs, payload' = payload, issue' = issue,
         \A d \in Call : status'[d] = "none" <=> status[d] = "none",
         \A d \in Call : ask[d] # None => ask'[d] = ask[d],
         received' \subseteq Rows, told' <= Len(theirs),
         \A d \in Call : CallFacts(d)',
         \A h \in Handler : JobFacts(h)'
  PROVE  IInv'
  <1>1. Rows' = Rows
    BY DEF Rows
  <1>2. \A d \in Rows : /\ CodeOf(d)' = CodeOf(d) /\ KeyOf(d)' = KeyOf(d) /\ (Acts(d)' <=> Acts(d))
    BY RowsAsked DEF CodeOf, KeyOf, Acts
  <1>3. \A d \in Call : InLog(d)' <=> InLog(d)
    BY DEF InLog
  <1>4. Heard("RESOLVED")' <=> Heard("RESOLVED")
    BY DEF Heard
  <1>5. LogFacts'
    <2>1. LogFacts
      BY DEF IInv
    <2>2. \A d \in Call : InLog(d)' <=> d \in Rows' /\ Acts(d)'
      BY <1>1, <1>2, <1>3, <2>1 DEF LogFacts
    <2>3. (\E i \in 1..Len(ours') : ours'[i][2] = "ESCALATE") => Heard("RESOLVED")'
      BY <1>4, <2>1 DEF LogFacts
    <2>4. \A i, k \in 1..Len(ours') : ours'[i][1] = ours'[k][1] => i = k
      BY <2>1 DEF LogFacts
    <2> QED
      BY <1>1, <2>1, <2>2, <2>3, <2>4 DEF LogFacts
  <1>6. TheirLogIsTrue'
    BY DEF IInv, TheirLogIsTrue
  <1>7. ActedOnce'
    BY <1>1, <1>2 DEF IInv, ActedOnce
  <1>8. \A d \in Call : SentFacts(d)'
    <2>1. TAKE d \in Call
    <2>2. SentFacts(d)
      BY DEF IInv
    <2>3. Prefix(payload[d], ours)'
      BY <2>2 DEF SentFacts, Prefix
    <2> QED
      BY <1>1, <1>2, <2>2, <2>3 DEF SentFacts
  <1> QED
    BY <1>5, <1>6, <1>7, <1>8 DEF IInv

------------------------------------------------------------------------------
(* The steps of a call that write no log and no row.                       *)

\* A call has come further, and has perhaps begun or read something.
LEMMA Moves ==
  ASSUME IInv, NEW c \in Call, TypeOK', Move(c, phase'[c]),
         \A d \in Call : d # c => ask'[d] = ask[d] /\ read'[d] = read[d],
         ask[c] # None => ask'[c] = ask[c],
         CallFacts(c)',
         \A d \in Call : status'[d] = "none" <=> status[d] = "none",
         logVars' = logVars, received' \subseteq Rows, job' = job, told' = told
  PROVE  IInv'
  <1>1. ours' = ours /\ theirs' = theirs /\ payload' = payload /\ issue' = issue
    BY DEF logVars
  <1>2. ASSUME NEW d \in Call PROVE CallFacts(d)'
    <2>1. CASE d = c
      BY <2>1
    <2>2. CASE d # c
      <3>1. phase'[d] = phase[d]
        BY <2>2 DEF Move, IInv, TypeOK
      <3> QED
        BY <1>1, <2>2, <3>1, CallKept
    <2> QED
      BY <2>1, <2>2
  <1>3. \A h \in Handler : JobFacts(h)'
    BY <1>1, JobKept
  <1>4. told' <= Len(theirs)
    BY DEF IInv, TheirLogIsTrue
  <1> QED
    BY <1>1, <1>2, <1>3, <1>4, Quiet

\* The phase of one call, of the phases there are.
LEMMA PhaseType ==
  ASSUME TypeOK, NEW c \in Call, NEW p, Move(c, p),
         p \in {"idle", "row", "loaded", "free", "sending", "acked", "refused", "done"}
  PROVE  /\ phase' \in [Call -> {"idle", "row", "loaded", "free", "sending", "acked",
                                 "refused", "done"}]
         /\ phase'[c] = p /\ Move(c, phase'[c])
  BY DEF TypeOK, Move

LEMMA BeginType ==
  ASSUME IInv, NEW c \in Call, NEW code \in Code, NEW m \in Message, Begin(c, code, m)
  PROVE  /\ ask' \in [Call -> (Code \X Message) \cup {None}]
         /\ ask[c] = None /\ ask'[c] # None /\ CodeOf(c)' = code
         /\ \A d \in Call : d # c => ask'[d] = ask[d]
  <1>1. <<code, m>> \in Code \X Message /\ <<code, m>> # None
    BY NoneIsNoCall
  <1>2. ask' = [ask EXCEPT ![c] = <<code, m>>]
    BY DEF Begin
  <1>3. ask[c] = None
    BY DEF Begin, IInv, CallFacts
  <1>4. ask'[c] = <<code, m>> /\ ask' \in [Call -> (Code \X Message) \cup {None}]
    BY <1>1, <1>2 DEF IInv, TypeOK
  <1> QED
    BY <1>1, <1>2, <1>3, <1>4 DEF CodeOf, IInv, TypeOK

LEMMA Opens ==
  ASSUME IInv, NEW c \in Call, c \notin Later, NEW m \in Message, Open(c, m)
  PROVE  IInv'
  <1> "OPEN" \in Code
    BY DEF Code
  <1>1. Begin(c, "OPEN", m) /\ Move(c, "loaded")
    BY DEF Open
  <1>2. TypeOK'
    <2>1. phase' \in [Call -> {"idle", "row", "loaded", "free", "sending", "acked",
                               "refused", "done"}]
      BY <1>1, PhaseType DEF IInv
    <2>2. ask' \in [Call -> (Code \X Message) \cup {None}]
      BY <1>1, BeginType
    <2> QED
      BY <2>1, <2>2 DEF IInv, TypeOK, Open, rowVars, logVars, pastVars
  <1>3. CallFacts(c)'
    <2>1. /\ phase[c] = "idle" /\ status'[c] = "none" /\ ours' = ours
          /\ c = Opener => ours = <<>>
      BY <1>1 DEF Begin, IInv, CallFacts, Fresh, Open, rowVars, logVars
    <2>2. phase'[c] = "loaded" /\ ask'[c] # None /\ CodeOf(c)' = "OPEN"
      BY <1>1, PhaseType, BeginType DEF IInv
    <2> QED
      BY <2>1, <2>2 DEF CallFacts, Fresh
  <1>4. received' \subseteq Rows
    BY DEF Open, IInv, LogFacts
  <1>5. Move(c, phase'[c])
    BY <1>1, PhaseType DEF IInv
  <1>6. /\ \A d \in Call : d # c => ask'[d] = ask[d] /\ read'[d] = read[d]
        /\ ask[c] # None => ask'[c] = ask[c]
    BY <1>1, BeginType DEF Open
  <1> QED
    BY <1>2, <1>3, <1>4, <1>5, <1>6, Moves DEF Open, rowVars, pastVars

LEMMA ReadsRow ==
  ASSUME IInv, NEW c \in Later, NEW code \in Code \ {"OPEN"}, NEW m \in Message,
         ReadRow(c, code, m)
  PROVE  IInv'
  <1> c \in Call /\ c # Opener /\ c \notin Twin
    BY CallsAreApart DEF Call
  <1>1. Begin(c, code, m) /\ Move(c, "row") /\ code \in Code
    BY DEF ReadRow
  <1>2. TypeOK'
    <2>1. phase' \in [Call -> {"idle", "row", "loaded", "free", "sending", "acked",
                               "refused", "done"}]
      BY <1>1, PhaseType DEF IInv
    <2>2. ask' \in [Call -> (Code \X Message) \cup {None}]
      BY <1>1, BeginType
    <2>3. issue.level \in Level /\ <<>> \in Seq(Entry)
      BY DEF IInv, TypeOK
    <2>4. read' \in [Call -> [level : Level, ours : Seq(Entry)]]
      BY <2>3 DEF IInv, TypeOK, ReadRow
    <2> QED
      BY <2>1, <2>2, <2>4 DEF IInv, TypeOK, ReadRow, rowVars, logVars, pastVars
  <1>3. CallFacts(c)'
    <2>1. phase[c] = "idle" /\ status'[c] = "none" /\ ours' = ours /\ ours # <<>>
      BY <1>1 DEF Begin, IInv, CallFacts, Fresh, ReadRow, rowVars, logVars, LogFacts
    <2>2. phase'[c] = "row" /\ ask'[c] # None /\ CodeOf(c)' = code
      BY <1>1, PhaseType, BeginType DEF IInv
    <2> QED
      BY <2>1, <2>2 DEF CallFacts, Fresh
  <1>4. received' \subseteq Rows
    BY DEF ReadRow, IInv, LogFacts
  <1>5. Move(c, phase'[c])
    BY <1>1, PhaseType DEF IInv
  <1>6. /\ \A d \in Call : d # c => ask'[d] = ask[d]
        /\ ask[c] # None => ask'[c] = ask[c]
    BY <1>1, BeginType
  <1>7. \A d \in Call : d # c => read'[d] = read[d]
    BY DEF ReadRow, IInv, TypeOK
  <1> QED
    BY <1>2, <1>3, <1>4, <1>5, <1>6, <1>7, Moves DEF ReadRow, rowVars, pastVars

LEMMA ReadsActions ==
  ASSUME IInv, NEW c \in Call, ReadActions(c)
  PROVE  IInv'
  <1> DEFINE p == IF CodeOf(c) = "ESCALATE" /\ ~Heard("RESOLVED") THEN "done" ELSE "loaded"
  <1>1. Move(c, p) /\ p \in {"done", "loaded"} /\ phase[c] = "row"
    BY DEF ReadActions
  <1>2. phase'[c] = p /\ Move(c, phase'[c])
    BY <1>1, PhaseType DEF IInv
  <1>3. read'[c].ours = ours /\ \A d \in Call : d # c => read'[d] = read[d]
    BY DEF ReadActions, IInv, TypeOK
  <1>4. TypeOK'
    <2>1. phase' \in [Call -> {"idle", "row", "loaded", "free", "sending", "acked",
                               "refused", "done"}]
      BY <1>1, PhaseType DEF IInv
    <2>2. [level |-> read[c].level, ours |-> ours] \in [level : Level, ours : Seq(Entry)]
      BY DEF IInv, TypeOK
    <2>3. read' \in [Call -> [level : Level, ours : Seq(Entry)]]
      BY <2>2 DEF IInv, TypeOK, ReadActions
    <2> QED
      BY <2>1, <2>3 DEF IInv, TypeOK, ReadActions, rowVars, logVars, pastVars
  <1>5. CallFacts(c)'
    <2>1. /\ CodeOf(c)' = CodeOf(c) /\ (Acts(c)' <=> Acts(c)) /\ ask' = ask
          /\ ours' = ours /\ status' = status /\ (Heard("RESOLVED")' <=> Heard("RESOLVED"))
      BY DEF ReadActions, CodeOf, Acts, logVars, rowVars, Heard
    <2>2. Prefix(read[c].ours, ours)'
      BY <1>3, <2>1 DEF Prefix, IInv, TypeOK
    <2>3. CallFacts(c)
      BY DEF IInv
    <2>4. phase'[c] = "loaded" /\ CodeOf(c) = "ESCALATE" => Heard("RESOLVED")
      BY <1>2
    <2>5. phase'[c] = "done" \/ phase'[c] = "loaded"
      BY <1>1, <1>2
    <2> QED
      BY <1>1, <2>1, <2>2, <2>3, <2>4, <2>5 DEF CallFacts, Fresh
  <1>6. received' \subseteq Rows
    BY DEF ReadActions, IInv, LogFacts
  <1> QED
    BY <1>2, <1>3, <1>4, <1>5, <1>6, Moves DEF ReadActions, rowVars, pastVars

LEMMA Finds ==
  ASSUME IInv, NEW c \in Call, Find(c)
  PROVE  IInv'
  <1> DEFINE p == IF RowsOf(KeyOf(c)) = {} THEN "free" ELSE "done"
  <1>1. Move(c, p) /\ p \in {"done", "free"} /\ phase[c] = "loaded"
    BY DEF Find
  <1>2. phase'[c] = p /\ Move(c, phase'[c])
    BY <1>1, PhaseType DEF IInv
  <1>3. TypeOK'
    <2>1. phase' \in [Call -> {"idle", "row", "loaded", "free", "sending", "acked",
                               "refused", "done"}]
      BY <1>1, PhaseType DEF IInv
    <2> QED
      BY <2>1 DEF IInv, TypeOK, Find, rowVars, logVars, pastVars
  <1>4. CallFacts(c)'
    <2>1. /\ CodeOf(c)' = CodeOf(c) /\ (Acts(c)' <=> Acts(c)) /\ ask' = ask
          /\ ours' = ours /\ status' = status /\ (Heard("RESOLVED")' <=> Heard("RESOLVED"))
          /\ RowsOf(KeyOf(c))' = RowsOf(KeyOf(c))
      BY DEF Find, CodeOf, Acts, logVars, rowVars, Heard, RowsOf, Rows, KeyOf
    <2>2. Prefix(read[c].ours, ours)' <=> Prefix(read[c].ours, ours)
      BY <2>1 DEF Prefix, Find
    <2>3. CallFacts(c)
      BY DEF IInv
    <2>4. phase'[c] = "free" => RowsOf(KeyOf(c)) = {}
      BY <1>2
    <2>5. phase'[c] = "done" \/ phase'[c] = "free"
      BY <1>1, <1>2
    <2> QED
      BY <1>1, <2>1, <2>2, <2>3, <2>4, <2>5 DEF CallFacts, Fresh
  <1>5. received' \subseteq Rows
    BY DEF Find, IInv, LogFacts
  <1> QED
    BY <1>2, <1>3, <1>4, <1>5, Moves DEF Find, rowVars, pastVars

\* A call that has come past its write, or gives up before it.
LEMMA GoesOn ==
  ASSUME IInv, NEW c \in Call, NEW p \in {"acked", "refused", "done"}, Move(c, p),
         phase[c] # "idle", ask' = ask, logVars' = logVars, job' = job,
         \A d \in Call : d # c => read'[d] = read[d],
         read' \in [Call -> [level : Level, ours : Seq(Entry)]],
         status' \in [Call -> {"none", "pending", "sent", "completed", "failed"}],
         \A d \in Call : status'[d] = "none" <=> status[d] = "none",
         answered' = answered, audit' = audit, received' = received, pastVars' = pastVars,
         broken' \subseteq Call
  PROVE  IInv'
  <1>1. phase'[c] = p /\ Move(c, phase'[c])
    BY PhaseType DEF IInv
  <1>2. TypeOK'
    <2>1. phase' \in [Call -> {"idle", "row", "loaded", "free", "sending", "acked",
                               "refused", "done"}]
      BY PhaseType DEF IInv
    <2> QED
      BY <2>1 DEF IInv, TypeOK, logVars, pastVars
  <1>3. CallFacts(c)'
    <2>1. p \notin Fresh
      BY DEF Fresh
    <2>2. ours' = ours /\ theirs' = theirs
      BY DEF logVars
    <2> QED
      BY <1>1, <2>1, <2>2, CallKept
  <1>4. received' \subseteq Rows /\ told' = told
    BY DEF IInv, LogFacts, pastVars
  <1> QED
    BY <1>1, <1>2, <1>3, <1>4, Moves

LEMMA AppendsFail ==
  ASSUME IInv, NEW c \in Call, AppendFails(c)
  PROVE  IInv'
  <1>1. /\ Move(c, "done") /\ phase[c] # "idle" /\ \A d \in Call : d # c => read'[d] = read[d]
        /\ ask' = ask /\ logVars' = logVars /\ job' = job /\ status' = status
        /\ answered' = answered /\ audit' = audit /\ received' = received
        /\ pastVars' = pastVars /\ broken' = broken
    BY DEF AppendFails, IInv, TypeOK, rowVars
  <1>2. NothingRead \in [level : Level, ours : Seq(Entry)]
    BY OurWords DEF NothingRead
  <1>3. read' \in [Call -> [level : Level, ours : Seq(Entry)]]
    BY <1>2 DEF AppendFails, IInv, TypeOK
  <1>4. /\ status' \in [Call -> {"none", "pending", "sent", "completed", "failed"}]
        /\ broken' \subseteq Call
    BY <1>1 DEF IInv, TypeOK
  <1> QED
    BY <1>1, <1>3, <1>4, GoesOn

LEMMA Reaches ==
  ASSUME IInv, NEW c \in Call, Reach(c)
  PROVE  IInv'
  <1>1. /\ ask' = ask /\ phase' = phase /\ read' = read /\ logVars' = logVars /\ job' = job
        /\ status' = status /\ told' = told /\ received' = received \cup {c} /\ c \in Rows
    BY DEF Reach, rowVars, pastVars
  <1>2. TypeOK'
    BY DEF IInv, TypeOK, Reach, rowVars, logVars, pastVars
  <1>3. ours' = ours /\ theirs' = theirs /\ payload' = payload /\ issue' = issue
    BY <1>1 DEF logVars
  <1>4. received' \subseteq Rows /\ told' <= Len(theirs)
    BY <1>1 DEF IInv, LogFacts, TheirLogIsTrue
  <1>5. \A d \in Call : CallFacts(d)'
    BY <1>1, <1>3, CallKept
  <1>6. \A h \in Handler : JobFacts(h)'
    BY <1>1, <1>3, JobKept
  <1> QED
    BY <1>1, <1>2, <1>3, <1>4, <1>5, <1>6, Quiet

\* updateStatus makes no row and takes none away.
LEMMA StatusOnly ==
  ASSUME TypeOK, NEW c \in Call, NEW s \in {"sent", "failed"}, UpdateStatus(c, s)
  PROVE  /\ status' \in [Call -> {"none", "pending", "sent", "completed", "failed"}]
         /\ \A d \in Call : status'[d] = "none" <=> status[d] = "none"
         /\ answered' = answered /\ audit' = audit
  BY DEF UpdateStatus, RowsOf, Rows, TypeOK

\* The end of a call.
Ending(c) ==
  \/ SendOk(c) \/ SendFails(c) \/ MarkSent(c)
  \/ MarkSentFails(c) \/ MarkFailed(c) \/ MarkFailedFails(c)

LEMMA Ends ==
  ASSUME IInv, NEW c \in Call, Ending(c)
  PROVE  IInv'
  <1> USE DEF rowVars
  <1>1. /\ status \in [Call -> {"none", "pending", "sent", "completed", "failed"}]
        /\ read \in [Call -> [level : Level, ours : Seq(Entry)]]
        /\ broken \subseteq Call /\ TypeOK
    BY DEF IInv, TypeOK
  <1>2. CASE SendOk(c)
    BY <1>1, <1>2, GoesOn DEF SendOk
  <1>3. CASE SendFails(c)
    BY <1>1, <1>3, GoesOn DEF SendFails
  <1>4. CASE MarkSent(c)
    BY <1>1, <1>4, GoesOn, StatusOnly DEF MarkSent
  <1>5. CASE MarkSentFails(c)
    BY <1>1, <1>5, GoesOn DEF MarkSentFails
  <1>6. CASE MarkFailed(c)
    BY <1>1, <1>6, GoesOn, StatusOnly DEF MarkFailed
  <1>7. CASE MarkFailedFails(c)
    BY <1>1, <1>7, GoesOn DEF MarkFailedFails
  <1> QED
    BY <1>2, <1>3, <1>4, <1>5, <1>6, <1>7 DEF Ending

LEMMA Crashes ==
  ASSUME IInv, Crash
  PROVE  IInv'
  <1>1. /\ ask' = ask /\ read' = read /\ logVars' = logVars /\ status' = status /\ told' = told
        /\ received' = received
        /\ ours' = ours /\ theirs' = theirs /\ payload' = payload /\ issue' = issue
    BY DEF Crash, rowVars, logVars
  <1>2. TypeOK'
    BY CrashBound DEF IInv, TypeOK, Crash, rowVars, logVars
  <1>3. \A d \in Call : CallFacts(d)'
    <2>1. TAKE d \in Call
    <2>2. phase'[d] = phase[d] \/ (phase[d] # "idle" /\ phase'[d] \notin Fresh)
      BY DEF Crash, Fresh
    <2> QED
      BY <1>1, <2>2, CallKept
  <1>4. \A h \in Handler : JobFacts(h)'
    BY <1>1, JobKept DEF Crash
  <1>5. received' \subseteq Rows /\ told' <= Len(theirs)
    BY <1>1 DEF IInv, LogFacts, TheirLogIsTrue
  <1> QED
    BY <1>1, <1>2, <1>3, <1>4, <1>5, Quiet

------------------------------------------------------------------------------
(* The steps that write a row.                                             *)

\* Only c has a row that it had not.
LEMMA NewRow ==
  ASSUME IInv, NEW c \in Call, phase[c] = "free",
         status' = [status EXCEPT ![c] = "pending"], ask' = ask
  PROVE  /\ Rows' = Rows \cup {c} /\ c \notin Rows
         /\ \A d \in Call : d # c => status'[d] = status[d]
         /\ status'[c] = "pending"
         /\ status' \in [Call -> {"none", "pending", "sent", "completed", "failed"}]
         /\ \A d \in Call : KeyOf(d)' = KeyOf(d) /\ CodeOf(d)' = CodeOf(d) /\ (Acts(d)' <=> Acts(d))
  <1>1. CallFacts(c) /\ TypeOK
    BY DEF IInv
  <1>2. status[c] = "none"
    BY <1>1 DEF CallFacts, Fresh
  <1>3. /\ status'[c] = "pending" /\ \A d \in Call : d # c => status'[d] = status[d]
        /\ status' \in [Call -> {"none", "pending", "sent", "completed", "failed"}]
    BY <1>1 DEF TypeOK
  <1> QED
    BY <1>2, <1>3 DEF Rows, KeyOf, CodeOf, Acts

LEMMA Checks ==
  ASSUME IInv, NEW c \in Call, Check(c) \/ CreateTwin(c)
  PROVE  IInv'
  <1>1. /\ phase[c] = "free" /\ (CodeOf(c) = "status" \/ c \in Twin) /\ Move(c, "sending")
        /\ status' = [status EXCEPT ![c] = "pending"] /\ ask' = ask /\ read' = read
        /\ ours' = ours /\ theirs' = theirs /\ payload' = payload /\ issue' = issue
        /\ received' = received /\ job' = job /\ told' = told /\ ~Acts(c)
    BY DEF Check, CreateTwin, logVars, pastVars, Acts
  <1>2. /\ Rows' = Rows \cup {c} /\ c \notin Rows
        /\ \A d \in Call : d # c => status'[d] = status[d]
        /\ status'[c] = "pending"
        /\ status' \in [Call -> {"none", "pending", "sent", "completed", "failed"}]
        /\ \A d \in Call : KeyOf(d)' = KeyOf(d) /\ CodeOf(d)' = CodeOf(d) /\ (Acts(d)' <=> Acts(d))
    BY <1>1, NewRow
  <1>3. /\ phase' \in [Call -> {"idle", "row", "loaded", "free", "sending", "acked",
                                "refused", "done"}]
        /\ phase'[c] = "sending" /\ \A d \in Call : d # c => phase'[d] = phase[d]
    BY <1>1, PhaseType DEF IInv, Move, TypeOK
  <1>4. TypeOK'
    BY <1>2, <1>3 DEF IInv, TypeOK, Check, CreateTwin, logVars, pastVars
  <1>5. (Heard("RESOLVED")' <=> Heard("RESOLVED")) /\ \A d \in Call : InLog(d)' <=> InLog(d)
    BY <1>1 DEF Heard, InLog
  <1>6. (ours # <<>> \/ c \in Twin) /\ LogFacts
    <2>1. ask[c] # None /\ (c \in Later \/ c \in Twin)
      BY <1>1, Calls DEF IInv, CallFacts
    <2> QED
      BY <2>1 DEF IInv, CallFacts
  <1>7. LogFacts'
    <2>1. \A d \in Call : InLog(d)' <=> d \in Rows' /\ Acts(d)'
      BY <1>1, <1>2, <1>5, <1>6 DEF LogFacts
    <2>2. (\E i \in 1..Len(ours') : ours'[i][2] = "ESCALATE") => Heard("RESOLVED")'
      BY <1>1, <1>5, <1>6 DEF LogFacts
    <2>3. \A i, k \in 1..Len(ours') : ours'[i][1] = ours'[k][1] => i = k
      BY <1>1, <1>6 DEF LogFacts
    <2> QED
      BY <1>1, <1>2, <1>6, <2>1, <2>2, <2>3 DEF LogFacts
  <1>8. TheirLogIsTrue'
    BY <1>1 DEF IInv, TheirLogIsTrue
  <1>9. ActedOnce'
    <2>1. ActedOnce
      BY DEF IInv
    <2>2. ASSUME NEW a \in Rows', NEW d \in Rows', KeyOf(a)' = KeyOf(d)', Acts(a)', Acts(d)'
          PROVE  a = d
      <3>1. a \in Call /\ d \in Call
        BY DEF Rows
      <3>2. KeyOf(a) = KeyOf(d) /\ Acts(a) /\ Acts(d)
        BY <1>2, <2>2, <3>1, KeysTell DEF Acts
      <3>3. a \in Rows /\ d \in Rows
        BY <1>1, <1>2, <2>2, <3>2
      <3> QED
        BY <2>1, <3>2, <3>3 DEF ActedOnce, Acts
    <2>3. \A a, d \in Rows' : KeyOf(a)' = KeyOf(d)' =>
                                 (CodeOf(a)' = "status" <=> CodeOf(d)' = "status")
      BY DEF KeyOf
    <2> QED
      BY <2>2, <2>3 DEF ActedOnce, Acts
  <1>10. ASSUME NEW d \in Call PROVE CallFacts(d)'
    <2>1. CallFacts(d)
      BY DEF IInv
    <2>2. CASE d = c
      <3>1. phase'[d] \notin {"idle", "row", "loaded", "free"}
        BY <1>3, <2>2
      <3>2. ask'[d] # None /\ (d \notin Later <=> CodeOf(d) = "OPEN") /\ CodeOf(d)' = CodeOf(d)
            /\ (d \in Later => ours' # <<>>)
        BY <1>1, <1>2, <2>1, <2>2 DEF CallFacts
      <3> QED
        BY <1>1, <2>2, <3>1, <3>2 DEF CallFacts, Fresh
    <2>3. CASE d # c
      <3>1. phase'[d] = phase[d] /\ status'[d] = status[d] /\ CodeOf(d)' = CodeOf(d)
        BY <1>2, <1>3, <2>3
      <3>2. (Prefix(read[d].ours, ours)' <=> Prefix(read[d].ours, ours))
            /\ (PlaceIsFree(d)' <=> PlaceIsFree(d))
        BY <1>1 DEF Prefix, PlaceIsFree
      <3>3. Acts(d) /\ RowsOf(KeyOf(d)) \subseteq Twin => RowsOf(KeyOf(d))' \subseteq Twin
        <4>1. Acts(d) => KeyOf(c) # KeyOf(d) \/ c \in Twin
          BY <1>1, KeysTell DEF Acts
        <4> QED
          BY <1>2, <4>1 DEF RowsOf, Rows
      <3> QED
        BY <1>1, <1>2, <1>5, <2>1, <3>1, <3>2, <3>3 DEF CallFacts
    <2> QED
      BY <2>2, <2>3
  <1>11. ASSUME NEW d \in Call PROVE SentFacts(d)'
    <2>1. SentFacts(d)
      BY DEF IInv
    <2>2. Prefix(payload[d], ours)'
      BY <1>1, <2>1 DEF SentFacts, Prefix
    <2> QED
      BY <1>1, <1>2, <2>1, <2>2 DEF SentFacts
  <1>12. \A h \in Handler : JobFacts(h)'
    BY <1>1, JobKept
  <1> QED
    BY <1>4, <1>7, <1>8, <1>9, <1>10, <1>11, <1>12 DEF IInv

\* The log with one more entry.
LEMMA OneMore ==
  ASSUME NEW s \in Seq(Entry), NEW e \in Entry
  PROVE  /\ Append(s, e) \in Seq(Entry) /\ Len(Append(s, e)) = Len(s) + 1
         /\ Len(s) \in Nat /\ Append(s, e) # <<>>
         /\ Append(s, e)[Len(s) + 1] = e /\ \A i \in 1..Len(s) : Append(s, e)[i] = s[i]
         /\ 1..(Len(s) + 1) = 1..Len(s) \cup {Len(s) + 1} /\ Len(s) + 1 \notin 1..Len(s)
         /\ s = <<>> => Append(s, e)[1] = e
         /\ s # <<>> => Append(s, e)[1] = s[1]
  OBVIOUS

LEMMA PrefixGrows ==
  ASSUME NEW s \in Seq(Entry), NEW t \in Seq(Entry), NEW e \in Entry, Prefix(s, t)
  PROVE  Prefix(s, Append(t, e))
  BY DEF Prefix

\* The call writes its action behind the whole log.
LEMMA Writes ==
  ASSUME IInv, NEW c \in Call, NEW sent, NEW is \in Status, NEW level \in Level,
         phase[c] = "free", Acts(c), RowsOf(KeyOf(c)) \subseteq Twin,
         c = Opener <=> ours = <<>>,
         CodeOf(c) = "ESCALATE" => Heard("RESOLVED"),
         sent = Append(ours, <<c, CodeOf(c)>>),
         Write(c, sent, is, level)
  PROVE  IInv'
  <1> DEFINE e == <<c, CodeOf(c)>>
  <1>1. /\ ours' = Append(ours, e)
        /\ issue' = [stored |-> TRUE, status |-> is, level |-> level]
        /\ payload' = [payload EXCEPT ![c] = sent]
        /\ status' = [status EXCEPT ![c] = "pending"]
        /\ read' = [read EXCEPT ![c] = NothingRead]
        /\ Move(c, "sending")
        /\ ask' = ask /\ theirs' = theirs /\ received' = received /\ job' = job /\ told' = told
        /\ answered' = answered /\ audit' = audit /\ crashes' = crashes /\ broken' = broken
    BY DEF Write, pastVars
  <1>2. /\ Rows' = Rows \cup {c} /\ c \notin Rows
        /\ \A d \in Call : d # c => status'[d] = status[d]
        /\ status'[c] = "pending"
        /\ status' \in [Call -> {"none", "pending", "sent", "completed", "failed"}]
        /\ \A d \in Call : KeyOf(d)' = KeyOf(d) /\ CodeOf(d)' = CodeOf(d) /\ (Acts(d)' <=> Acts(d))
    BY <1>1, NewRow
  <1>3. /\ phase' \in [Call -> {"idle", "row", "loaded", "free", "sending", "acked",
                                "refused", "done"}]
        /\ phase'[c] = "sending" /\ \A d \in Call : d # c => phase'[d] = phase[d]
    BY <1>1, PhaseType DEF IInv, Move, TypeOK
  <1>4. ask[c] # None /\ CallFacts(c) /\ TypeOK /\ LogFacts
    BY DEF IInv, CallFacts
  <1>5. e \in Entry /\ ours \in Seq(Entry) /\ e[1] = c /\ e[2] = CodeOf(c)
    BY <1>4, Asked DEF TypeOK
  <1>6. /\ ours' \in Seq(Entry) /\ Len(ours') = Len(ours) + 1 /\ Len(ours) \in Nat /\ ours' # <<>>
        /\ ours'[Len(ours) + 1] = e /\ \A i \in 1..Len(ours) : ours'[i] = ours[i]
        /\ 1..(Len(ours) + 1) = 1..Len(ours) \cup {Len(ours) + 1}
        /\ Len(ours) + 1 \notin 1..Len(ours)
        /\ ours = <<>> => ours'[1] = e
        /\ ours # <<>> => ours'[1] = ours[1]
    BY <1>1, <1>5, OneMore
  <1>7. Heard("RESOLVED")' <=> Heard("RESOLVED")
    BY <1>1 DEF Heard
  <1>8. ~InLog(c)
    BY <1>2, <1>4 DEF LogFacts
  <1>9. TypeOK'
    <2>1. NothingRead \in [level : Level, ours : Seq(Entry)]
      BY OurWords DEF NothingRead
    <2>2. read' \in [Call -> [level : Level, ours : Seq(Entry)]]
      BY <1>1, <1>4, <2>1 DEF TypeOK
    <2>3. payload' \in [Call -> Seq(Entry)]
      BY <1>1, <1>4, <1>6 DEF TypeOK
    <2>4. issue' \in [stored : BOOLEAN, status : Status, level : Level]
      BY <1>1
    <2> QED
      BY <1>1, <1>2, <1>3, <1>4, <1>6, <2>2, <2>3, <2>4 DEF TypeOK
  <1>10. LogFacts'
    <2>1. ours'[1] = <<Opener, "OPEN">>
      <3>1. CASE ours = <<>>
        BY <1>4, <1>6, <3>1 DEF CallFacts
      <3>2. CASE ours # <<>>
        BY <1>4, <1>6, <3>2 DEF LogFacts
      <3> QED
        BY <3>1, <3>2
    <2>2. \A i, k \in 1..Len(ours') : ours'[i][1] = ours'[k][1] => i = k
      <3>1. \A i \in 1..Len(ours) : ours[i][1] # c
        BY <1>8 DEF InLog
      <3>2. \A i \in 1..Len(ours) : ours'[i][1] # c
        BY <1>6, <3>1
      <3>3. \A i \in 1..Len(ours') : i \in 1..Len(ours) \/ i = Len(ours) + 1
        BY <1>6
      <3>4. ours'[Len(ours) + 1][1] = c
        BY <1>5, <1>6
      <3>5. \A i, k \in 1..Len(ours) : ours'[i][1] = ours'[k][1] => i = k
        BY <1>4, <1>6 DEF LogFacts
      <3> QED
        BY <3>2, <3>3, <3>4, <3>5
    <2>3. ASSUME NEW d \in Call PROVE InLog(d)' <=> d \in Rows' /\ Acts(d)'
      <3>1. InLog(d)' <=> InLog(d) \/ d = c
        BY <1>5, <1>6 DEF InLog
      <3>2. InLog(d) <=> d \in Rows /\ Acts(d)
        BY <1>4 DEF LogFacts
      <3> QED
        BY <1>2, <3>1, <3>2
    <2>4. (\E i \in 1..Len(ours') : ours'[i][2] = "ESCALATE") => Heard("RESOLVED")'
      <3>1. ASSUME NEW i \in 1..Len(ours'), ours'[i][2] = "ESCALATE" PROVE Heard("RESOLVED")
        <4>1. CASE i \in 1..Len(ours)
          BY <1>4, <1>6, <3>1, <4>1 DEF LogFacts
        <4>2. CASE i = Len(ours) + 1
          BY <1>5, <1>6, <3>1, <4>2
        <4> QED
          BY <1>6, <4>1, <4>2
      <3> QED
        BY <1>7, <3>1
    <2>5. received' \subseteq Rows' /\ issue'.stored
      BY <1>1, <1>2, <1>4 DEF LogFacts
    <2> QED
      BY <1>6, <2>1, <2>2, <2>3, <2>4, <2>5 DEF LogFacts
  <1>11. TheirLogIsTrue'
    BY <1>1 DEF IInv, TheirLogIsTrue
  <1>12. ActedOnce'
    <2>1. ActedOnce
      BY DEF IInv
    <2>2. ASSUME NEW a \in Rows', NEW d \in Rows', KeyOf(a)' = KeyOf(d)', Acts(a)', Acts(d)'
          PROVE  a = d
      <3>1. a \in Call /\ d \in Call
        BY DEF Rows
      <3>2. KeyOf(a) = KeyOf(d) /\ Acts(a) /\ Acts(d)
        BY <1>2, <2>2, <3>1
      <3>3. CASE a \in Rows /\ d \in Rows
        BY <2>1, <3>2, <3>3 DEF ActedOnce, Acts
      <3>4. CASE a = c
        BY <1>2, <2>2, <3>2, <3>4 DEF RowsOf, Acts
      <3>5. CASE d = c
        BY <1>2, <2>2, <3>2, <3>5 DEF RowsOf, Acts
      <3> QED
        BY <1>2, <2>2, <3>3, <3>4, <3>5
    <2>3. \A a, d \in Rows' : KeyOf(a)' = KeyOf(d)' =>
                                 (CodeOf(a)' = "status" <=> CodeOf(d)' = "status")
      BY DEF KeyOf
    <2> QED
      BY <2>2, <2>3 DEF ActedOnce, Acts
  <1>13. ASSUME NEW d \in Call PROVE CallFacts(d)'
    <2>1. CallFacts(d)
      BY DEF IInv
    <2>2. CASE d = c
      <3>1. phase'[d] \notin {"idle", "row", "loaded", "free"}
        BY <1>3, <2>2
      <3>2. ask'[d] # None /\ (d \notin Later <=> CodeOf(d) = "OPEN") /\ CodeOf(d)' = CodeOf(d)
        BY <1>1, <1>2, <1>4, <2>2 DEF CallFacts
      <3> QED
        BY <1>1, <1>6, <2>2, <3>1, <3>2 DEF CallFacts, Fresh
    <2>3. CASE d # c
      <3>1. /\ phase'[d] = phase[d] /\ status'[d] = status[d] /\ CodeOf(d)' = CodeOf(d)
            /\ read'[d] = read[d] /\ ask'[d] = ask[d] /\ (Acts(d)' <=> Acts(d))
        BY <1>1, <1>2, <1>3, <1>4, <2>3 DEF TypeOK
      <3>2. read[d].ours \in Seq(Entry)
        BY <1>4 DEF TypeOK
      <3>3. Prefix(read[d].ours, ours) => Prefix(read[d].ours, ours)'
        <4>1. Prefix(read[d].ours, ours) => Prefix(read[d].ours, ours')
          BY <1>1, <1>5, <3>2, PrefixGrows
        <4> QED
          BY <3>1, <4>1 DEF Prefix
      <3>4. Prefix(read[d].ours, ours) => ~PlaceIsFree(d)'
        BY <1>6, <3>1, <3>2 DEF Prefix, PlaceIsFree
      <3>5. ~(d = Opener /\ phase[d] \in Fresh)
        <4>1. d = Opener /\ phase[d] \in Fresh => ours = <<>>
          BY <2>1 DEF CallFacts
        <4> QED
          BY <2>3, <4>1
      <3>6. phase[d] \in {"loaded", "free"} /\ d \in Later /\ Acts(d) =>
               /\ Prefix(read[d].ours, ours)
               /\ CodeOf(d) = "ESCALATE" => Heard("RESOLVED")
        BY <2>1 DEF CallFacts
      <3>7. /\ phase[d] = "idle" <=> ask[d] = None
            /\ phase[d] \in Fresh => status[d] = "none"
            /\ ask[d] # None => (d \notin Later <=> CodeOf(d) = "OPEN")
        BY <2>1 DEF CallFacts
      <3> QED
        BY <1>6, <1>7, <3>1, <3>3, <3>4, <3>5, <3>6, <3>7 DEF CallFacts
    <2> QED
      BY <2>2, <2>3
  <1>14. ASSUME NEW d \in Call PROVE SentFacts(d)'
    <2>1. SentFacts(d)
      BY DEF IInv
    <2>2. CASE d = c
      <3>1. payload'[d] = ours'
        BY <1>1, <1>4, <2>2 DEF TypeOK
      <3>2. Prefix(payload[d], ours)'
        BY <1>6, <3>1 DEF Prefix
      <3>3. Len(payload'[d]) > 0 /\ payload'[d][Len(payload'[d])] = <<d, CodeOf(d)'>>
        BY <1>2, <1>6, <2>2, <3>1
      <3> QED
        BY <3>2, <3>3 DEF SentFacts
    <2>3. CASE d # c
      <3>1. payload'[d] = payload[d] /\ payload[d] \in Seq(Entry)
        BY <1>1, <1>4, <2>3 DEF TypeOK
      <3>2. Prefix(payload[d], ours')
        BY <1>1, <1>5, <2>1, <3>1, PrefixGrows DEF SentFacts
      <3>3. Prefix(payload[d], ours)'
        BY <3>1, <3>2 DEF Prefix
      <3> QED
        BY <1>2, <2>1, <2>3, <3>1, <3>3 DEF SentFacts
    <2> QED
      BY <2>2, <2>3
  <1>15. ASSUME NEW h \in Handler PROVE JobFacts(h)'
    <2>1. JobFacts(h) /\ (Stage(h, "matched") => Len(job[h].echo) \in Nat)
      BY <1>4, JobShape DEF IInv
    <2> QED
      BY <1>1, <1>6, <2>1 DEF JobFacts, Stage
  <1> QED
    BY <1>9, <1>10, <1>11, <1>12, <1>13, <1>14, <1>15 DEF IInv

LEMMA Creates ==
  ASSUME IInv, NEW c \in Call, Create(c)
  PROVE  IInv'
  <1>1. phase[c] = "free" /\ c = Opener /\ Write(c, OpeningSent(c), "OPEN", "ISSUE")
    BY DEF Create
  <1>2. CodeOf(c) = "OPEN" /\ ours = <<>> /\ Acts(c)
    BY <1>1, Calls DEF IInv, CallFacts, Fresh, Acts
  <1>3. RowsOf(KeyOf(c)) \subseteq Twin
    BY <1>2 DEF IInv, LogFacts, RowsOf
  <1>4. OpeningSent(c) = Append(ours, <<c, CodeOf(c)>>)
    BY <1>1, <1>2 DEF OpeningSent
  <1>5. "ISSUE" \in Level /\ "OPEN" \in Status
    BY OurWords
  <1> QED
    BY <1>1, <1>2, <1>3, <1>4, <1>5, Writes

\* What was read is the log, if the place is free.
LEMMA SameLog ==
  ASSUME NEW s \in Seq(Entry), NEW t \in Seq(Entry), Prefix(s, t), Len(t) <= Len(s)
  PROVE  s = t
  BY DEF Prefix

LEMMA ActsWrite ==
  ASSUME IInv, NEW c \in Call, Act(c)
  PROVE  IInv'
  <1>1. /\ phase[c] = "free" /\ CodeOf(c) \in {"CLOSE", "ESCALATE"} /\ PlaceIsFree(c)
        /\ Write(c, ActionsSent(c), NextStatus(CodeOf(c)), NextLevel(c))
    BY DEF Act
  <1>2. c \in Later /\ c # Opener /\ ours # <<>> /\ Acts(c)
    <2>1. c \in Later
      BY <1>1 DEF IInv, CallFacts
    <2> QED
      BY <1>1, <2>1, Calls DEF IInv, CallFacts, Acts
  <1>3. /\ Prefix(read[c].ours, ours) /\ RowsOf(KeyOf(c)) \subseteq Twin
        /\ CodeOf(c) = "ESCALATE" => Heard("RESOLVED")
    BY <1>1, <1>2 DEF IInv, CallFacts
  <1>4. read[c].ours \in Seq(Entry) /\ ours \in Seq(Entry) /\ read[c].level \in Level
    BY DEF IInv, TypeOK
  <1>5. read[c].ours = ours
    BY <1>1, <1>3, <1>4, SameLog DEF PlaceIsFree
  <1>6. ActionsSent(c) = Append(ours, <<c, CodeOf(c)>>)
    BY <1>5 DEF ActionsSent
  <1>7. NextStatus(CodeOf(c)) \in Status /\ NextLevel(c) \in Level
    BY <1>4, OurWords DEF NextStatus, NextLevel
  <1> QED
    BY <1>1, <1>2, <1>3, <1>6, <1>7, Writes

------------------------------------------------------------------------------
(* The callbacks.                                                          *)

\* A callback is taken in, and nothing else happens.
LEMMA JobMoves ==
  ASSUME IInv, NEW h \in Handler, NEW j, job' = [job EXCEPT ![h] = j],
         j \in JobType \cup {None}, JobFacts(h)',
         told' \in Nat, told' <= Len(theirs), crashes' = crashes,
         ask' = ask, phase' = phase, read' = read, rowVars' = rowVars, logVars' = logVars,
         received' = received, broken' = broken
  PROVE  IInv'
  <1>1. ours' = ours /\ theirs' = theirs /\ payload' = payload /\ issue' = issue /\ status' = status
    BY DEF rowVars, logVars
  <1>2. TypeOK'
    BY DEF IInv, TypeOK, rowVars, logVars
  <1>3. \A d \in Call : CallFacts(d)'
    BY <1>1, CallKept
  <1>4. ASSUME NEW g \in Handler PROVE JobFacts(g)'
    <2>1. CASE g = h
      BY <2>1
    <2>2. CASE g # h
      <3>1. job'[g] = job[g]
        BY <2>2 DEF IInv, TypeOK
      <3> QED
        BY <1>1, <3>1, JobKept
    <2> QED
      BY <2>1, <2>2
  <1>5. received' \subseteq Rows
    BY DEF IInv, LogFacts
  <1> QED
    BY <1>1, <1>2, <1>3, <1>4, <1>5, Quiet

LEMMA Echoes ==
  ASSUME IInv, NEW echo \in Echo
  PROVE  echo \in Seq(Entry) /\ Len(echo) <= Len(ours)
  <1>1. CASE echo = <<>>
    BY <1>1 DEF IInv, TypeOK
  <1>2. ASSUME NEW c \in received, echo = payload[c]
        PROVE  echo \in Seq(Entry) /\ Len(echo) <= Len(ours)
    BY <1>2 DEF IInv, TypeOK, SentFacts, Prefix
  <1> QED
    BY <1>1, <1>2 DEF Echo

LEMMA Starts ==
  ASSUME IInv, NEW h \in Handler, NEW key \in Key, NEW named \in BOOLEAN, NEW echo \in Echo,
         Start(h, key, named, echo)
  PROVE  IInv'
  <1> DEFINE j == [key |-> key, named |-> named, echo |-> echo, stage |-> "matched"]
  <1>1. job' = [job EXCEPT ![h] = j] /\ job'[h] = j
    BY DEF Start, IInv, TypeOK
  <1>2. echo \in Seq(Entry) /\ Len(echo) <= Len(ours)
    BY Echoes
  <1>3. j \in [key : Key, named : BOOLEAN, echo : Seq(Entry), stage : {"matched"}]
    BY <1>2
  <1>4. JobFacts(h)'
    <2>1. ours' = ours
      BY DEF Start, logVars
    <2> QED
      BY <1>1, <1>2, <2>1 DEF JobFacts, Stage
  <1>5. told' \in Nat /\ told' <= Len(theirs) /\ crashes' = crashes
    BY DEF Start, pastVars, IInv, TypeOK, TheirLogIsTrue
  <1>6. j \in JobType \cup {None}
    BY <1>3 DEF JobType
  <1> HIDE DEF j
  <1> QED
    BY <1>1, <1>4, <1>5, <1>6, JobMoves DEF Start

LEMMA Answers ==
  ASSUME IInv, NEW h \in Handler, NEW c \in Call, NEW named \in BOOLEAN, NEW echo \in Echo,
         OnAnswer(h, c, named, echo)
  PROVE  IInv'
  <1>1. c \in Rows
    BY DEF OnAnswer, IInv, LogFacts
  <1>2. KeyOf(c) \in Key
    BY <1>1, Asked, RowsAsked DEF IInv
  <1> QED
    BY <1>2, Starts DEF OnAnswer

LEMMA Pushes ==
  ASSUME IInv, NEW h \in Handler, NEW key \in Push, NEW echo \in Echo,
         OnPush(h, key, echo)
  PROVE  IInv'
  <1>1. key \in Key
    BY DEF Key
  <1> QED
    BY <1>1, Starts DEF OnPush

LEMMA ReadsIds ==
  ASSUME IInv, NEW h \in Handler, ReadIds(h)
  PROVE  IInv'
  <1> DEFINE j == [key |-> job[h].key, named |-> job[h].named, echo |-> job[h].echo,
                   stage |-> "read", ours |-> Len(ours), theirs |-> Len(theirs)]
  <1>1. job' = [job EXCEPT ![h] = j] /\ job'[h] = j /\ Stage(h, "matched")
    BY DEF ReadIds, IInv, TypeOK
  <1>2. job[h] \in [key : Key, named : BOOLEAN, echo : Seq(Entry), stage : {"matched"}]
    BY <1>1, JobShape DEF IInv
  <1>3. Len(ours) \in Nat /\ Len(theirs) \in Nat
    BY DEF IInv, TypeOK
  <1>4. j \in [key : Key, named : BOOLEAN, echo : Seq(Entry), stage : {"read"},
               ours : Nat, theirs : Nat]
    BY <1>2, <1>3
  <1>5. JobFacts(h)'
    <2>1. ours' = ours /\ theirs' = theirs
      BY DEF ReadIds, logVars
    <2>2. Len(job[h].echo) <= Len(ours)
      BY <1>1 DEF IInv, JobFacts
    <2>3. job'[h].stage = "read" /\ job'[h].echo = job[h].echo
          /\ job'[h].ours = Len(ours) /\ job'[h].theirs = Len(theirs)
      BY <1>1
    <2> QED
      BY <1>3, <2>1, <2>2, <2>3 DEF JobFacts, Stage
  <1>6. told' \in Nat /\ told' <= Len(theirs) /\ crashes' = crashes
    BY DEF ReadIds, pastVars, IInv, TypeOK, TheirLogIsTrue
  <1>7. j \in JobType \cup {None}
    BY <1>4 DEF JobType
  <1> HIDE DEF j
  <1> QED
    BY <1>1, <1>5, <1>6, <1>7, JobMoves DEF ReadIds

LEMMA CommitsFail ==
  ASSUME IInv, NEW h \in Handler, CommitFails(h)
  PROVE  IInv'
  <1>1. job' = [job EXCEPT ![h] = None] /\ job'[h] = None
    BY DEF CommitFails, IInv, TypeOK
  <1>2. JobFacts(h)'
    BY <1>1 DEF JobFacts, Stage
  <1>3. told' \in Nat /\ told' <= Len(theirs) /\ crashes' = crashes
    BY DEF CommitFails, pastVars, IInv, TypeOK, TheirLogIsTrue
  <1> QED
    BY <1>1, <1>2, <1>3, JobMoves DEF CommitFails

LEMMA Publishes ==
  ASSUME IInv, NEW h \in Handler, Publish(h)
  PROVE  IInv'
  <1>1. job' = [job EXCEPT ![h] = None] /\ job'[h] = None
    BY DEF Publish, IInv, TypeOK
  <1>2. JobFacts(h)'
    BY <1>1 DEF JobFacts, Stage
  <1>3. job[h].news \in Nat /\ job[h].news <= Len(theirs)
    <2>1. Stage(h, "committed")
      BY DEF Publish
    <2>2. job[h].news \in 0..Len(Reply)
      BY <2>1, JobShape DEF IInv
    <2> QED
      BY <2>1, <2>2 DEF IInv, JobFacts
  <1>4. told' \in Nat /\ told' <= Len(theirs) /\ crashes' = crashes
    BY <1>3 DEF Publish, IInv, TypeOK, TheirLogIsTrue
  <1> QED
    BY <1>1, <1>2, <1>4, JobMoves DEF Publish

\* Nothing of what is echoed is new.
LEMMA NoneNew ==
  ASSUME NEW s \in Seq(Entry), NEW n \in Nat, Len(s) <= n
  PROVE  SubSeq(s, n + 1, Len(s)) = <<>>
  OBVIOUS

\* A beginning of what the respondent did.
HeadOfReply(s) ==
  /\ s \in Seq({"PROCESSING", "RESOLVED"})
  /\ Len(s) <= Len(Reply)
  /\ \A i \in 1..Len(s) : s[i] = Reply[i]

\* What it has done since is put behind what is known.
Continues(known, n, resp, new) ==
  /\ n \in Nat /\ n <= Len(known) /\ resp \in 0..Len(Reply)
  /\ SubSeq(Reply, n + 1, resp) # <<>> => Len(known) <= n
  /\ new = known \o SubSeq(Reply, n + 1, resp)

LEMMA Joined ==
  ASSUME NEW s \in Seq({"PROCESSING", "RESOLVED"}), NEW t \in Seq({"PROCESSING", "RESOLVED"})
  PROVE  /\ s \o t \in Seq({"PROCESSING", "RESOLVED"}) /\ s \o <<>> = s
         /\ Len(s) \in Nat /\ Len(t) \in Nat /\ Len(s \o t) = Len(s) + Len(t)
         /\ \A i \in 1..Len(s) : (s \o t)[i] = s[i]
         /\ \A i \in 1..Len(t) : (s \o t)[Len(s) + i] = t[i]
  OBVIOUS

LEMMA Piece ==
  ASSUME NEW a \in Nat, NEW b \in 0..Len(Reply)
  PROVE  /\ Len(Reply) \in Nat
         /\ b <= a => SubSeq(Reply, a + 1, b) = <<>>
         /\ a < b => /\ SubSeq(Reply, a + 1, b) \in Seq({"PROCESSING", "RESOLVED"})
                     /\ Len(SubSeq(Reply, a + 1, b)) = b - a
                     /\ \A i \in 1..(b - a) : SubSeq(Reply, a + 1, b)[i] = Reply[a + i]
  BY ReplyIsCodes

LEMMA Catches ==
  ASSUME NEW known, NEW n, NEW resp, NEW new,
         HeadOfReply(known), Continues(known, n, resp, new)
  PROVE  /\ HeadOfReply(new)
         /\ Len(known) <= Len(new) /\ resp <= Len(new)
         /\ \A i \in 1..Len(known) : new[i] = known[i]
  <1>1. PICK more : more = SubSeq(Reply, n + 1, resp)
    OBVIOUS
  <1>2. /\ known \in Seq({"PROCESSING", "RESOLVED"}) /\ Len(known) <= Len(Reply)
        /\ \A i \in 1..Len(known) : known[i] = Reply[i]
    BY DEF HeadOfReply
  <1>3. /\ n \in Nat /\ n <= Len(known) /\ resp \in 0..Len(Reply)
        /\ more # <<>> => Len(known) <= n
        /\ new = known \o more
    BY <1>1 DEF Continues
  <1>4. Len(Reply) \in Nat /\ Len(known) \in Nat /\ known \o <<>> = known
    BY <1>2, <1>3, Piece, Joined
  <1>5. resp \in Nat /\ resp <= Len(Reply)
    BY <1>3, <1>4
  <1>6. CASE resp <= n
    <2>1. more = <<>>
      BY <1>1, <1>3, <1>6, Piece
    <2>2. new = known
      BY <1>3, <1>4, <2>1
    <2>3. resp <= Len(known)
      BY <1>3, <1>4, <1>5, <1>6
    <2> QED
      BY <1>2, <1>4, <2>2, <2>3 DEF HeadOfReply
  <1>7. CASE n < resp
    <2>1. /\ more \in Seq({"PROCESSING", "RESOLVED"}) /\ Len(more) = resp - n
          /\ \A i \in 1..(resp - n) : more[i] = Reply[n + i]
      BY <1>1, <1>3, <1>7, Piece
    <2>2. Len(known) = n
      <3>1. more # <<>>
        <4>1. Len(<<>>) = 0 /\ resp - n # 0
          BY <1>3, <1>5, <1>7
        <4> QED
          BY <2>1, <4>1
      <3> QED
        BY <1>3, <1>4, <3>1
    <2>3. /\ new \in Seq({"PROCESSING", "RESOLVED"}) /\ Len(new) = n + (resp - n)
          /\ \A i \in 1..n : new[i] = known[i]
          /\ \A i \in 1..(resp - n) : new[n + i] = more[i]
      <3>1. /\ known \o more \in Seq({"PROCESSING", "RESOLVED"})
            /\ Len(known \o more) = Len(known) + Len(more)
            /\ \A i \in 1..Len(known) : (known \o more)[i] = known[i]
            /\ \A i \in 1..Len(more) : (known \o more)[Len(known) + i] = more[i]
        BY <1>2, <2>1, Joined
      <3> QED
        BY <1>3, <2>1, <2>2, <3>1
    <2>4. Len(new) = resp
      BY <1>3, <1>5, <2>3
    <2>5. ASSUME NEW i, i \in 1..resp PROVE new[i] = Reply[i]
      <3>1. CASE i \in 1..n
        BY <1>2, <2>2, <2>3, <3>1
      <3>2. CASE n < i
        <4>1. i - n \in 1..(resp - n) /\ n + (i - n) = i
          BY <1>3, <1>5, <2>5, <3>2
        <4>2. new[n + (i - n)] = more[i - n] /\ more[i - n] = Reply[n + (i - n)]
          BY <2>1, <2>3, <4>1
        <4> QED
          BY <4>1, <4>2
      <3>3. i \in 1..n \/ n < i
        BY <1>3, <1>5, <2>5
      <3> QED
        BY <3>1, <3>2, <3>3
    <2>6. Len(known) <= Len(new) /\ resp <= Len(new)
      BY <1>3, <1>5, <1>7, <2>2, <2>4
    <2> QED
      BY <1>5, <2>2, <2>3, <2>4, <2>5, <2>6 DEF HeadOfReply
  <1> QED
    BY <1>3, <1>5, <1>6, <1>7

\* What the transaction of a callback leaves.
LEMMA CommitFacts ==
  ASSUME IInv, NEW h \in Handler, NEW says \in Content, NEW resp \in 0..Len(Reply),
         Commit(h, says, resp)
  PROVE  /\ ours' = ours
         /\ theirs' \in Seq({"PROCESSING", "RESOLVED"})
         /\ Len(theirs) <= Len(theirs') /\ Len(theirs') <= Len(Reply) /\ resp <= Len(theirs')
         /\ \A i \in 1..Len(theirs') : theirs'[i] = Reply[i]
         /\ \A i \in 1..Len(theirs) : theirs'[i] = theirs[i]
         /\ issue' \in [stored : BOOLEAN, status : Status, level : Level]
         /\ issue'.stored = issue.stored
         /\ status' \in [Call -> {"none", "pending", "sent", "completed", "failed"}]
         /\ \A c \in Call : status'[c] = "none" <=> status[c] = "none"
         /\ answered' \subseteq Call /\ audit' \subseteq Push
  <1>1. Stage(h, "read") /\ TypeOK /\ TheirLogIsTrue /\ JobFacts(h)
    BY DEF Commit, IInv
  <1>2. job[h] \in [key : Key, named : BOOLEAN, echo : Seq(Entry), stage : {"read"},
                    ours : Nat, theirs : Nat]
    BY <1>1, JobShape
  <1>3. /\ job[h].echo \in Seq(Entry) /\ job[h].ours \in Nat /\ job[h].theirs \in Nat
        /\ job[h].key \in Key
        /\ Len(job[h].echo) <= job[h].ours /\ job[h].theirs <= Len(theirs)
    BY <1>1, <1>2 DEF JobFacts
  <1>4. ours' = ours
    <2>1. NewOurs(job[h]) = <<>>
      BY <1>3, NoneNew DEF NewOurs
    <2> QED
      BY <1>1, <2>1 DEF Commit, TypeOK
  <1>5. /\ theirs' = theirs \o SubSeq(Reply, job[h].theirs + 1, resp)
        /\ SubSeq(Reply, job[h].theirs + 1, resp) # <<>> => Len(theirs) <= job[h].theirs
    BY DEF Commit, Fits, NewTheirs
  <1>6. /\ theirs \in Seq({"PROCESSING", "RESOLVED"}) /\ Len(theirs) <= Len(Reply)
        /\ \A i \in 1..Len(theirs) : theirs[i] = Reply[i]
    BY <1>1 DEF TypeOK, TheirLogIsTrue
  <1>7. /\ theirs' \in Seq({"PROCESSING", "RESOLVED"})
        /\ Len(theirs) <= Len(theirs') /\ Len(theirs') <= Len(Reply) /\ resp <= Len(theirs')
        /\ \A i \in 1..Len(theirs') : theirs'[i] = Reply[i]
        /\ \A i \in 1..Len(theirs) : theirs'[i] = theirs[i]
    <2>1. PICK known, n, new : known = theirs /\ n = job[h].theirs /\ new = theirs'
      OBVIOUS
    <2>2. HeadOfReply(known) /\ Continues(known, n, resp, new)
      BY <1>3, <1>5, <1>6, <2>1 DEF HeadOfReply, Continues
    <2>3. /\ HeadOfReply(new)
          /\ Len(known) <= Len(new) /\ resp <= Len(new)
          /\ \A i \in 1..Len(known) : new[i] = known[i]
      BY <2>2, Catches
    <2> QED
      BY <2>1, <2>3 DEF HeadOfReply
  <1>8. /\ issue' \in [stored : BOOLEAN, status : Status, level : Level]
        /\ issue'.stored = issue.stored
    <2>1. issue \in [stored : BOOLEAN, status : Status, level : Level]
      BY <1>1 DEF TypeOK
    <2>2. issue' = Patched(says)
      BY DEF Commit
    <2>3. CASE says.error
      BY <2>1, <2>2, <2>3 DEF Patched
    <2>4. CASE ~says.error
      <3>1. says.status \in Status \cup {None} /\ says.level \in Level \cup {None}
        BY ContentIsSaid
      <3>2. /\ Else(says.status, issue.status) \in Status
            /\ Else(says.level, issue.level) \in Level
        BY <2>1, <3>1 DEF Else
      <3> QED
        BY <2>1, <2>2, <2>4, <3>2 DEF Patched
    <2> QED
      BY <2>3, <2>4
  <1>9. /\ status' \in [Call -> {"none", "pending", "sent", "completed", "failed"}]
        /\ \A c \in Call : status'[c] = "none" <=> status[c] = "none"
        /\ answered' \subseteq Call /\ audit' \subseteq Push
    <2>1. Record(job[h].key, says)
      BY DEF Commit
    <2>2. CASE job[h].key \notin Push
      <3>1. /\ status' = [c \in Call |-> IF c \in RowsOf(job[h].key) THEN Outcome(says) ELSE status[c]]
            /\ answered' = answered \cup RowsOf(job[h].key) /\ audit' = audit
        BY <2>1, <2>2 DEF Record
      <3>2. Outcome(says) \in {"failed", "completed"}
        BY DEF Outcome
      <3>3. \A c \in RowsOf(job[h].key) : c \in Call /\ status[c] # "none"
        BY DEF RowsOf, Rows
      <3> QED
        BY <1>1, <3>1, <3>2, <3>3 DEF TypeOK
    <2>3. CASE job[h].key \in Push
      <3>1. audit' = audit \cup {job[h].key} /\ status' = status /\ answered' = answered
        BY <2>1, <2>3 DEF Record
      <3> QED
        BY <1>1, <2>3, <3>1 DEF TypeOK
    <2> QED
      BY <2>2, <2>3
  <1> QED
    BY <1>4, <1>7, <1>8, <1>9

LEMMA Commits ==
  ASSUME IInv, NEW h \in Handler, NEW says \in Content, NEW resp \in 0..Len(Reply),
         Commit(h, says, resp)
  PROVE  IInv'
  <1> DEFINE j == [news |-> IF says.error THEN 0 ELSE resp, stage |-> "committed"]
  <1>1. /\ ours' = ours
        /\ theirs' \in Seq({"PROCESSING", "RESOLVED"})
        /\ Len(theirs) <= Len(theirs') /\ Len(theirs') <= Len(Reply) /\ resp <= Len(theirs')
        /\ \A i \in 1..Len(theirs') : theirs'[i] = Reply[i]
        /\ \A i \in 1..Len(theirs) : theirs'[i] = theirs[i]
        /\ issue' \in [stored : BOOLEAN, status : Status, level : Level]
        /\ issue'.stored = issue.stored
        /\ status' \in [Call -> {"none", "pending", "sent", "completed", "failed"}]
        /\ \A c \in Call : status'[c] = "none" <=> status[c] = "none"
        /\ answered' \subseteq Call /\ audit' \subseteq Push
    BY CommitFacts
  <1>2. /\ ask' = ask /\ phase' = phase /\ read' = read /\ payload' = payload
        /\ received' = received /\ told' = told /\ crashes' = crashes /\ broken' = broken
        /\ job' = [job EXCEPT ![h] = j]
    BY DEF Commit
  <1>3. /\ Len(theirs) \in Nat /\ Len(theirs') \in Nat /\ Len(Reply) \in Nat /\ told \in Nat
        /\ TypeOK /\ LogFacts /\ TheirLogIsTrue
    <2>1. theirs \in Seq({"PROCESSING", "RESOLVED"}) /\ told \in Nat
      BY DEF IInv, TypeOK
    <2>2. Len(theirs) \in Nat
      BY <2>1
    <2>3. Len(theirs') \in Nat
      BY <1>1
    <2> QED
      BY <2>1, <2>2, <2>3, ReplyIsCodes DEF IInv
  <1>4. j.news \in 0..Len(Reply) /\ j.news <= Len(theirs')
    BY <1>1, <1>3
  <1>5. TypeOK'
    <2>1. j \in [news : 0..Len(Reply), stage : {"committed"}]
      BY <1>4
    <2>2. j \in JobType
      BY <2>1 DEF JobType
    <2> HIDE DEF j
    <2>3. job' \in [Handler -> JobType \cup {None}]
      BY <1>2, <1>3, <2>2 DEF TypeOK
    <2> QED
      BY <1>1, <1>2, <1>3, <2>3 DEF TypeOK
  <1>6. Rows' = Rows
    BY <1>1 DEF Rows
  <1>7. Heard("RESOLVED") => Heard("RESOLVED")'
    <2>1. ASSUME NEW i, i \in 1..Len(theirs), theirs[i] = "RESOLVED"
          PROVE  i \in 1..Len(theirs') /\ theirs'[i] = "RESOLVED"
      BY <1>1, <1>3, <2>1
    <2> QED
      BY <2>1 DEF Heard
  <1>8. LogFacts'
    <2>1. \A d \in Call : /\ InLog(d)' <=> InLog(d)
                          /\ Acts(d)' <=> Acts(d)
      BY <1>1, <1>2 DEF InLog, Acts, CodeOf
    <2>2. \A d \in Call : InLog(d)' <=> d \in Rows' /\ Acts(d)'
      BY <1>3, <1>6, <2>1 DEF LogFacts
    <2>3. (\E i \in 1..Len(ours') : ours'[i][2] = "ESCALATE") => Heard("RESOLVED")'
      BY <1>1, <1>3, <1>7 DEF LogFacts
    <2>4. \A i, k \in 1..Len(ours') : ours'[i][1] = ours'[k][1] => i = k
      BY <1>1, <1>3 DEF LogFacts
    <2> QED
      BY <1>1, <1>2, <1>3, <1>6, <2>2, <2>3, <2>4 DEF LogFacts
  <1>9. TheirLogIsTrue'
    <2>1. told' <= Len(theirs')
      BY <1>1, <1>2, <1>3 DEF TheirLogIsTrue
    <2> QED
      BY <1>1, <2>1 DEF TheirLogIsTrue
  <1>10. ActedOnce'
    <2>1. \A d \in Call : KeyOf(d)' = KeyOf(d) /\ CodeOf(d)' = CodeOf(d)
      BY <1>2 DEF KeyOf, CodeOf
    <2> QED
      BY <1>6, <2>1 DEF IInv, ActedOnce, Rows
  <1>11. ASSUME NEW d \in Call PROVE CallFacts(d)' /\ SentFacts(d)'
    <2>1. CallFacts(d) /\ SentFacts(d)
      BY DEF IInv
    <2>2. /\ CodeOf(d)' = CodeOf(d) /\ KeyOf(d)' = KeyOf(d) /\ (Acts(d)' <=> Acts(d))
          /\ (PlaceIsFree(d)' <=> PlaceIsFree(d)) /\ RowsOf(KeyOf(d))' = RowsOf(KeyOf(d))
          /\ (Prefix(read[d].ours, ours)' <=> Prefix(read[d].ours, ours))
          /\ (Prefix(payload[d], ours)' <=> Prefix(payload[d], ours))
      BY <1>1, <1>2, <1>6 DEF CodeOf, KeyOf, Acts, PlaceIsFree, RowsOf, Prefix
    <2>3. CallFacts(d)'
      BY <1>1, <1>2, <1>7, <2>1, <2>2 DEF CallFacts
    <2>4. SentFacts(d)'
      BY <1>2, <1>6, <2>1, <2>2 DEF SentFacts
    <2> QED
      BY <2>3, <2>4
  <1>12. ASSUME NEW g \in Handler PROVE JobFacts(g)'
    <2>1. CASE g = h
      <3>1. job'[h] = j
        BY <1>2, <1>3 DEF TypeOK
      <3> QED
        BY <1>4, <2>1, <3>1 DEF JobFacts, Stage
    <2>2. CASE g # h
      <3>1. job'[g] = job[g]
        BY <1>2, <1>3, <2>2 DEF TypeOK
      <3>2. JobFacts(g) /\ (Stage(g, "read") => job[g].theirs \in Nat)
                        /\ (Stage(g, "committed") => job[g].news \in Nat)
        BY <1>3, JobShape DEF IInv
      <3>3. /\ Stage(g, "matched")' <=> Stage(g, "matched")
            /\ Stage(g, "read")' <=> Stage(g, "read")
            /\ Stage(g, "committed")' <=> Stage(g, "committed")
        BY <3>1 DEF Stage
      <3> QED
        BY <1>1, <1>3, <3>1, <3>2, <3>3 DEF JobFacts
    <2> QED
      BY <2>1, <2>2
  <1> QED
    BY <1>5, <1>8, <1>9, <1>10, <1>11, <1>12 DEF IInv

------------------------------------------------------------------------------
(* The invariant.                                                          *)

LEMMA Starting ==
  ASSUME Init
  PROVE  IInv
  <1> DEFINE first == IF Opened # None THEN <<<<Opener, "OPEN">>>> ELSE <<>>
             done == IF Opened # None THEN {Opener} ELSE {}
  <1>1. Opener \in Call /\ <<Opener, "OPEN">> \in Entry /\ "OPEN" \in Code /\ "ISSUE" \in Level
        /\ "OPEN" \in Status
    BY OurWords DEF Call, Entry, Code
  <1>2. /\ first \in Seq(Entry)
        /\ Opened # None => <<"OPEN", Opened>> \in Code \X Message
                            /\ <<"OPEN", Opened>> # None
    BY <1>1, OpenedIsMessage, NoneIsNoCall
  <1>3. /\ ask = [c \in Call |-> IF c \in done THEN <<"OPEN", Opened>> ELSE None]
        /\ phase = [c \in Call |-> IF c \in done THEN "done" ELSE "idle"]
        /\ read = [c \in Call |-> NothingRead]
        /\ status = [c \in Call |-> IF c \in done THEN "sent" ELSE "none"]
        /\ answered = {} /\ audit = {}
        /\ issue = [stored |-> Opened # None, status |-> "OPEN", level |-> "ISSUE"]
        /\ ours = first /\ theirs = <<>>
        /\ payload = [c \in Call |-> IF c \in done THEN first ELSE <<>>]
        /\ received = done /\ job = [h \in Handler |-> None] /\ told = 0 /\ broken = {}
        /\ crashes = 0
    BY DEF Init
  <1>4. TypeOK
    <2>1. NothingRead \in [level : Level, ours : Seq(Entry)]
      BY OurWords DEF NothingRead
    <2>2. done \subseteq Call /\ <<>> \in Seq(Entry) /\ <<>> \in Seq({"PROCESSING", "RESOLVED"})
      BY <1>1
    <2>3. ask \in [Call -> (Code \X Message) \cup {None}]
      BY <1>2, <1>3
    <2>4. payload \in [Call -> Seq(Entry)]
      BY <1>2, <1>3, <2>2
    <2>5. issue \in [stored : BOOLEAN, status : Status, level : Level]
      BY <1>1, <1>3
    <2>6. read \in [Call -> [level : Level, ours : Seq(Entry)]]
      BY <1>3, <2>1
    <2> HIDE DEF first, done
    <2> QED
      BY <1>2, <1>3, <2>2, <2>3, <2>4, <2>5, <2>6, CrashBound DEF TypeOK
  <1>5. Rows = done
    BY <1>1, <1>3 DEF Rows
  <1>6. \A h \in Handler : JobFacts(h)
    BY <1>3 DEF JobFacts, Stage
  <1>7. TheirLogIsTrue
    <2>1. Len(theirs) = 0 /\ Len(Reply) \in Nat /\ told = 0
      BY <1>3, ReplyIsCodes
    <2> QED
      BY <2>1 DEF TheirLogIsTrue
  <1>8. CASE Opened = None
    <2>1. /\ ours = <<>> /\ Len(ours) = 0 /\ Rows = {} /\ received = {}
          /\ \A c \in Call : /\ ask[c] = None /\ phase[c] = "idle" /\ status[c] = "none"
                             /\ payload[c] = <<>> /\ Len(payload[c]) = 0
      BY <1>3, <1>5, <1>8
    <2>2. LogFacts
      <3>1. ~issue.stored /\ \A i \in 1..Len(ours) : FALSE
        <4>1. issue.stored = (Opened # None)
          BY <1>3
        <4>2. \A i \in 1..0 : FALSE
          OBVIOUS
        <4> QED
          BY <1>8, <2>1, <4>1, <4>2
      <3>2. \A c \in Call : ~InLog(c)
        BY <3>1 DEF InLog
      <3> QED
        BY <2>1, <3>1, <3>2 DEF LogFacts
    <2>3. \A c \in Call : CallFacts(c) /\ SentFacts(c)
      BY <2>1 DEF CallFacts, SentFacts, Prefix, Fresh
    <2>4. ActedOnce
      BY <2>1 DEF ActedOnce
    <2> QED
      BY <1>4, <1>6, <1>7, <2>2, <2>3, <2>4 DEF IInv
  <1>9. CASE Opened # None
    <2>1. /\ ours = <<<<Opener, "OPEN">>>> /\ Len(ours) = 1 /\ ours[1] = <<Opener, "OPEN">>
          /\ ours # <<>> /\ Rows = {Opener} /\ received = {Opener} /\ issue.stored
          /\ \A i \in 1..Len(ours) : i = 1
      <3>1. ours = <<<<Opener, "OPEN">>>>
        BY <1>3, <1>9
      <3>2. Len(ours) = 1 /\ ours[1] = <<Opener, "OPEN">>
        BY <3>1
      <3>3. ours # <<>>
        <4>1. Len(<<>>) = 0
          OBVIOUS
        <4> QED
          BY <3>2, <4>1
      <3>4. Rows = {Opener} /\ received = {Opener} /\ issue.stored
        BY <1>3, <1>5, <1>9
      <3> QED
        BY <3>1, <3>2, <3>3, <3>4
    <2>2. /\ ask[Opener] = <<"OPEN", Opened>> /\ phase[Opener] = "done"
          /\ status[Opener] = "sent" /\ payload[Opener] = ours /\ CodeOf(Opener) = "OPEN"
          /\ \A c \in Call : c # Opener =>
               /\ ask[c] = None /\ phase[c] = "idle" /\ status[c] = "none"
               /\ payload[c] = <<>> /\ Len(payload[c]) = 0
      BY <1>1, <1>3, <1>9 DEF CodeOf
    <2>3. LogFacts
      <3>1. Acts(Opener)
        BY <1>1, <2>2, Calls DEF Acts
      <3>2. \A c \in Call : InLog(c) <=> c = Opener
        BY <2>1 DEF InLog
      <3>3. ours[1][2] # "ESCALATE"
        BY <2>1
      <3> QED
        BY <2>1, <2>2, <3>1, <3>2, <3>3 DEF LogFacts
    <2>4. ASSUME NEW c \in Call PROVE CallFacts(c) /\ SentFacts(c)
      <3>1. CASE c = Opener
        <4>1. Opener \notin Later
          BY CallsAreApart
        <4>2. ask[c] # None /\ phase[c] \notin Fresh /\ phase[c] \notin {"idle", "loaded", "free"}
          <5>1. <<"OPEN", Opened>> \in Code \X Message
            BY <1>9, OpenedIsMessage DEF Code
          <5>2. ask[c] # None
            BY <2>2, <3>1, <5>1, NoneIsNoCall
          <5> QED
            BY <2>2, <3>1, <5>2 DEF Fresh
        <4>3. CallFacts(c)
          BY <2>2, <3>1, <4>1, <4>2 DEF CallFacts
        <4>4. SentFacts(c)
          <5>1. Len(ours) \in Nat /\ Len(ours) = 1 /\ payload[c] = ours /\ ours[Len(ours)] = <<c, CodeOf(c)>>
            BY <2>1, <2>2, <3>1
          <5> QED
            BY <5>1 DEF SentFacts, Prefix
        <4> QED
          BY <4>3, <4>4
      <3>2. CASE c # Opener
        BY <2>1, <2>2, <3>2 DEF CallFacts, SentFacts, Prefix, Fresh
      <3> QED
        BY <3>1, <3>2
    <2>5. ActedOnce
      BY <2>1 DEF ActedOnce
    <2> QED
      BY <1>4, <1>6, <1>7, <2>3, <2>4, <2>5 DEF IInv
  <1> QED
    BY <1>8, <1>9

LEMMA Standing ==
  ASSUME IInv, UNCHANGED vars
  PROVE  IInv'
  <1>1. /\ ours' = ours /\ theirs' = theirs /\ payload' = payload /\ issue' = issue
        /\ status' = status /\ ask' = ask /\ phase' = phase /\ read' = read /\ job' = job
        /\ received' = received /\ told' = told
    BY DEF vars
  <1>2. TypeOK'
    BY DEF IInv, TypeOK, vars
  <1>3. \A d \in Call : CallFacts(d)'
    BY <1>1, CallKept
  <1>4. \A h \in Handler : JobFacts(h)'
    BY <1>1, JobKept
  <1>5. received' \subseteq Rows /\ told' <= Len(theirs)
    BY <1>1 DEF IInv, LogFacts, TheirLogIsTrue
  <1> QED
    BY <1>1, <1>2, <1>3, <1>4, <1>5, Quiet

LEMMA CallSteps ==
  ASSUME IInv, NEW c \in Call, CallStep(c)
  PROVE  IInv'
  <1>1. ASSUME c \in Later, NEW code \in Code \ {"OPEN"}, NEW m \in Message, ReadRow(c, code, m)
        PROVE  IInv'
    BY <1>1, ReadsRow
  <1>3. ASSUME c \notin Later, NEW m \in Message, Open(c, m) PROVE IInv'
    BY <1>3, Opens
  <1>2. ASSUME Ending(c) PROVE IInv'
    BY <1>2, Ends
  <1> QED
    BY <1>1, <1>2, <1>3, ReadsActions, Finds, Creates, ActsWrite, AppendsFail, Checks, Reaches
       DEF CallStep, Ending

LEMMA CallbackSteps ==
  ASSUME IInv, NEW h \in Handler, CallbackStep(h)
  PROVE  IInv'
  BY Answers, Pushes, ReadsIds, Commits, CommitsFail, Publishes DEF CallbackStep

\* What is known of every call and callback at each of its steps stays true.
THEOREM Inductive == Spec => []IInv
  <1>1. Init => IInv
    BY Starting
  <1>2. IInv /\ [Next]_vars => IInv'
    BY CallSteps, CallbackSteps, Crashes, Standing DEF Next
  <1> QED
    BY <1>1, <1>2, PTL DEF Spec

\* Every column, request and callback in progress has values of its kind
\* (schemas/issue.schema.ts, services/issue.service.ts).
THEOREM TypeCorrect == Spec => []TypeOK
  <1>1. IInv => TypeOK
    BY DEF IInv
  <1> QED
    BY <1>1, Inductive, PTL

\* Our actions are in issue_actions once each, with their requests, from the
\* opening on, however calls and callbacks come between each other's queries
\* (issue.repository.ts, appendIssueAction and insertIssueActions).
THEOREM LogIsTrue == Spec => []OurLogIsTrue
  <1>1. IInv => OurLogIsTrue
    BY DEF IInv, LogFacts, OurLogIsTrue, InLog, Acts
  <1> QED
    BY <1>1, Inductive, PTL

\* The respondent's actions are what it did, in its order, in whatever order
\* its callbacks are processed (issue.repository.ts, handleOnIssue).
THEOREM HeardIsTrue == Spec => []TheirLogIsTrue
  <1>1. IInv => TheirLogIsTrue
    BY DEF IInv
  <1> QED
    BY <1>1, Inductive, PTL

\* What a call sends is the log up to its own action (issue.mapper.ts).
THEOREM LogIsSent == Spec => []SentIsTheLog
  <1>1. ASSUME IInv PROVE SentIsTheLog
    <2>1. ASSUME NEW c \in Rows \ Twin, CodeOf(c) # "status"
          PROVE  /\ Len(payload[c]) \in 1..Len(ours)
                 /\ \A i \in 1..Len(payload[c]) : payload[c][i] = ours[i]
                 /\ payload[c][Len(payload[c])] = <<c, CodeOf(c)>>
      <3>1. SentFacts(c) /\ payload[c] \in Seq(Entry) /\ ours \in Seq(Entry) /\ Acts(c)
        BY <1>1, <2>1 DEF IInv, TypeOK, Rows, Acts
      <3>2. Len(payload[c]) \in Nat /\ Len(ours) \in Nat
        BY <3>1
      <3> QED
        BY <2>1, <3>1, <3>2 DEF SentFacts, Prefix
    <2> QED
      BY <2>1 DEF SentIsTheLog
  <1> QED
    BY <1>1, Inductive, PTL

\* A retried request acts on the issue once, although the look for its row and
\* its write are two transactions (issue.service.ts, updateIssue).  The opening
\* of another issue by the same request, a Twin, is not counted.
THEOREM ActsOnce == Spec => []ActedOnce
  <1>1. IInv => ActedOnce
    BY DEF IInv
  <1> QED
    BY <1>1, Inductive, PTL

------------------------------------------------------------------------------
(* The promise is kept.                                                    *)

SentLogs == {payload[c] : c \in {d \in received \ Twin : CodeOf(d) # "status"}}

\* A step that the promise does not see.
LEMMA Unseen ==
  ASSUME IInv, ours' = ours, theirs' = theirs, payload' = payload, issue' = issue,
         received' = received, \A d \in Call : ask[d] # None => ask'[d] = ask[d]
  PROVE  UNCHANGED IL!ilVars
  <1>1. \A d \in received : CodeOf(d)' = CodeOf(d)
    BY RowsAsked DEF IInv, LogFacts, CodeOf
  <1>2. SentLogs' = SentLogs
    BY <1>1 DEF SentLogs
  <1> QED
    BY <1>2 DEF IL!ilVars, SentLogs

LEMMA WritesOne ==
  ASSUME IInv, NEW c \in Call, NEW sent, NEW is, NEW level, phase[c] = "free", Acts(c),
         is = NextStatus(CodeOf(c)), Write(c, sent, is, level)
  PROVE  IL!Write(<<c, CodeOf(c)>>) /\ <<c, CodeOf(c)>> \in Entry
  <1> DEFINE e == <<c, CodeOf(c)>>
  <1>1. ask[c] # None /\ c \notin Rows
    BY DEF IInv, CallFacts, Fresh, Rows
  <1>2. c \notin received /\ ~InLog(c)
    BY <1>1 DEF IInv, LogFacts
  <1>3. e \in Entry
    BY <1>1, Asked DEF IInv
  <1>4. \A i \in 1..Len(ours) : ours[i] # e
    BY <1>2 DEF InLog
  <1>5. issue'.status = IF e \in Call \X {"CLOSE"} THEN "CLOSED" ELSE "OPEN"
    <2>1. issue'.status = is
      BY DEF Write
    <2> QED
      BY <2>1 DEF NextStatus
  <1>6. SentLogs' = SentLogs
    <2>1. /\ received' = received /\ \A d \in received : payload'[d] = payload[d]
          /\ \A d \in received : CodeOf(d)' = CodeOf(d)
      BY <1>2 DEF Write, CodeOf, IInv, TypeOK
    <2> QED
      BY <2>1 DEF SentLogs
  <1>7. ours' = Append(ours, e) /\ theirs' = theirs
    BY DEF Write
  <1> QED
    BY <1>3, <1>4, <1>5, <1>6, <1>7 DEF IL!Write, SentLogs

LEMMA SendsOne ==
  ASSUME IInv, NEW c \in Call, Reach(c)
  PROVE  IL!Deliver \/ UNCHANGED IL!ilVars
  <1>1. /\ ours' = ours /\ theirs' = theirs /\ payload' = payload /\ issue' = issue
        /\ ask' = ask /\ received' = received \cup {c} /\ c \in Rows
    BY DEF Reach, logVars
  <1>2. \A d \in Call : CodeOf(d)' = CodeOf(d)
    BY <1>1 DEF CodeOf
  <1>3. received \subseteq Call
    BY DEF IInv, TypeOK
  <1>4. CASE Acts(c)
    <2>1. SentLogs' = SentLogs \cup {payload[c]}
      BY <1>1, <1>2, <1>3, <1>4 DEF SentLogs, Acts
    <2>2. IL!Extends(ours, payload[c])
      BY DEF IInv, SentFacts, Prefix, IL!Extends
    <2> QED
      BY <1>1, <2>1, <2>2 DEF IL!Deliver, SentLogs
  <1>5. CASE ~Acts(c)
    <2>1. SentLogs' = SentLogs
      BY <1>1, <1>2, <1>3, <1>5 DEF SentLogs, Acts
    <2> QED
      BY <1>1, <2>1 DEF IL!ilVars, SentLogs
  <1> QED
    BY <1>4, <1>5

LEMMA HearsOne ==
  ASSUME IInv, NEW h \in Handler, NEW says \in Content, NEW resp \in 0..Len(Reply),
         Commit(h, says, resp)
  PROVE  IL!Hear
  <1>1. /\ ours' = ours /\ Len(theirs) <= Len(theirs')
        /\ \A i \in 1..Len(theirs) : theirs'[i] = theirs[i]
        /\ issue'.status \in Status
    BY CommitFacts
  <1>2. SentLogs' = SentLogs
    BY DEF Commit, SentLogs, CodeOf
  <1> QED
    BY <1>1, <1>2 DEF IL!Hear, IL!Extends, SentLogs

LEMMA CallStepsKeep ==
  ASSUME IInv, NEW c \in Call, CallStep(c)
  PROVE  IL!IlNext \/ UNCHANGED IL!ilVars
  <1> USE DEF logVars
  <1>1. ASSUME NEW code \in Code \ {"OPEN"}, NEW m \in Message, ReadRow(c, code, m)
        PROVE  UNCHANGED IL!ilVars
    <2>1. \A d \in Call : ask[d] # None => ask'[d] = ask[d]
      BY <1>1, BeginType DEF ReadRow
    <2> QED
      BY <1>1, <2>1, Unseen DEF ReadRow
  <1>7. ASSUME NEW m \in Message, Open(c, m) PROVE UNCHANGED IL!ilVars
    <2>1. "OPEN" \in Code
      BY DEF Code
    <2>2. \A d \in Call : ask[d] # None => ask'[d] = ask[d]
      BY <1>7, <2>1, BeginType DEF Open
    <2> QED
      BY <1>7, <2>2, Unseen DEF Open
  <1>2. CASE Create(c)
    <2>1. CodeOf(c) = "OPEN" /\ Acts(c) /\ "OPEN" = NextStatus(CodeOf(c))
      BY <1>2, Calls DEF Create, Acts, NextStatus, IInv, CallFacts
    <2> QED
      BY <1>2, <2>1, WritesOne DEF Create, IL!IlNext
  <1>3. CASE Act(c)
    <2>1. Acts(c)
      BY <1>3, Calls DEF Act, Acts, IInv, CallFacts
    <2> QED
      BY <1>3, <2>1, WritesOne DEF Act, IL!IlNext
  <1>4. CASE Reach(c)
    BY <1>4, SendsOne DEF IL!IlNext
  <1>5. CASE ReadActions(c) \/ Find(c) \/ AppendFails(c) \/ Check(c) \/ CreateTwin(c)
    BY <1>5, Unseen DEF ReadActions, Find, AppendFails, Check, CreateTwin
  <1>6. CASE Ending(c)
    BY <1>6, Unseen DEF Ending, SendOk, SendFails, MarkSent, MarkSentFails, MarkFailed,
                        MarkFailedFails
  <1> QED
    BY <1>1, <1>2, <1>3, <1>4, <1>5, <1>6, <1>7 DEF CallStep, Ending

LEMMA CallbackStepsKeep ==
  ASSUME IInv, NEW h \in Handler, CallbackStep(h)
  PROVE  IL!IlNext \/ UNCHANGED IL!ilVars
  <1> USE DEF logVars
  <1>1. ASSUME NEW c \in Call, NEW named \in BOOLEAN, NEW echo \in Echo,
               OnAnswer(h, c, named, echo)
        PROVE  UNCHANGED IL!ilVars
    BY <1>1, Unseen DEF OnAnswer, Start
  <1>2. ASSUME NEW key \in Push, NEW echo \in Echo, OnPush(h, key, echo)
        PROVE  UNCHANGED IL!ilVars
    BY <1>2, Unseen DEF OnPush, Start
  <1>3. CASE ReadIds(h) \/ CommitFails(h) \/ Publish(h)
    BY <1>3, Unseen DEF ReadIds, CommitFails, Publish
  <1>4. ASSUME NEW says \in Content, NEW resp \in 0..Len(Reply), Commit(h, says, resp)
        PROVE  IL!IlNext
    BY <1>4, HearsOne DEF IL!IlNext
  <1> QED
    BY <1>1, <1>2, <1>3, <1>4 DEF CallbackStep

\* Two logs that only grow, the respondent sent nothing but beginnings of
\* ours, and the status of our last action or of the respondent's choice: what
\* IssueLog promises, the endpoints keep
\* (docs/architecture/database/issues.md:103-105).
THEOREM KeepsIssueLog == Spec => ImplementsIssueLog
  <1>1. ASSUME Init PROVE IL!IlInit
    <2>1. IInv /\ theirs = <<>> /\ issue.status = "OPEN"
      BY <1>1, Starting DEF Init
    <2>2. \A log \in SentLogs : IL!Extends(ours, log)
      BY <2>1 DEF SentLogs, IInv, TypeOK, SentFacts, Prefix, IL!Extends
    <2> QED
      BY <2>1, <2>2 DEF IL!IlInit, SentLogs
  <1>2. ASSUME IInv, [Next]_vars PROVE [IL!IlNext]_(IL!ilVars)
    <2>2. CASE Crash
      BY <1>2, <2>2, Unseen DEF Crash, logVars
    <2>3. CASE UNCHANGED vars
      BY <1>2, <2>3, Unseen DEF vars
    <2> QED
      BY <1>2, <2>2, <2>3, CallStepsKeep, CallbackStepsKeep DEF Next
  <1> QED
    BY <1>1, <1>2, Inductive, PTL DEF Spec, ImplementsIssueLog, IL!IlSpec
===============================================================================
