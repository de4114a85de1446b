------------------------------- MODULE IssueLog -------------------------------
(***************************************************************************)
(* What the issue endpoints promise about one complaint: two logs that     *)
(* only grow, our actions and the respondent's; the respondent is sent     *)
(* nothing but beginnings of our log, without a gap or an action it has    *)
(* seen in another place; and the status of the complaint is that of the   *)
(* last action on record or what the respondent has said since.            *)
(***************************************************************************)
EXTENDS Sequences, Naturals

CONSTANTS Action,    \* the actions of the complainant
          Closing,   \* those that close
          Status     \* what the respondent may say of a complaint

VARIABLES ours,    \* the complainant's actions, in order
          theirs,  \* the respondent's, as far as they are known
          sent,    \* the logs the respondent has been sent
          status

ilVars == <<ours, theirs, sent, status>>

Extends(long, short) ==
  /\ Len(short) <= Len(long)
  /\ \A i \in 1..Len(short) : long[i] = short[i]

\* Nothing is open, or what was done before is on record.
IlInit ==
  /\ \A log \in sent : Extends(ours, log)
  /\ theirs = <<>>
  /\ status = "OPEN"

Write(a) ==
  /\ \A i \in 1..Len(ours) : ours[i] # a
  /\ ours' = Append(ours, a)
  /\ status' = IF a \in Closing THEN "CLOSED" ELSE "OPEN"
  /\ UNCHANGED <<theirs, sent>>

Deliver ==
  /\ \E log \in sent' : Extends(ours, log) /\ sent' = sent \cup {log}
  /\ UNCHANGED <<ours, theirs, status>>

Hear ==
  /\ Extends(theirs', theirs)
  /\ status' \in Status
  /\ UNCHANGED <<ours, sent>>

IlNext ==
  \/ \E a \in Action : Write(a)
  \/ Deliver
  \/ Hear

IlSpec == IlInit /\ [][IlNext]_ilVars
==============================================================================
