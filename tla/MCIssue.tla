------------------------------- MODULE MCIssue -------------------------------
(* A small complaint for TLC.                                                *)
EXTENDS Issue, TLC

CONSTANT p1

MCReply == <<"PROCESSING", "RESOLVED">>
MCResolved == <<"RESOLVED">>

MCPush == {<<"issue_status", p1>>}

MCStatus == {"OPEN", "PROCESSING", "RESOLVED", "CLOSED"}
MCLevel == {"ISSUE", "GRIEVANCE", "DISPUTE"}

Says(is, level) == [error |-> FALSE, status |-> is, level |-> level]
Fails == [error |-> TRUE, status |-> None, level |-> None]

\* Of a complaint that is acted upon, and of one that is being opened.
MCSaysLater == {Fails, Says("PROCESSING", None)}
MCSaysFirst == {Says("CLOSED", "DISPUTE")}

Symmetry == Permutations(Message \ {Opened}) \cup Permutations(Later) \cup Permutations(Handler)

\* No step looks at what the client was told, at what a finished call has read, or
\* at the writes that failed (here none).
View ==
  <<ask, phase, [c \in Call |-> IF InFlight(c) THEN read[c] ELSE NothingRead], status, answered,
    audit, issue, ours, theirs, payload, received, job, crashes>>
==============================================================================
