------------------------------- MODULE Exchange -------------------------------
(***************************************************************************)
(* A request out and its callbacks in, on one clock: the retry loop of     *)
(* Transport, and the verification of KeyCache for the callbacks of a      *)
(* counterparty that has taken the request.                                *)
(***************************************************************************)
EXTENDS Transport, KeyCache

CONSTANT Answers  \* the request a callback answers

ASSUME AnswersAssumption == Answers \in [Callback -> Request]

allVars == <<clock, sendVars, keyVars>>

ExchangeInit == clock = 0 /\ SendInit /\ KeyInit

\* The counterparty has accepted an attempt, perhaps one we gave up on.
Accepted(r) == \E n \in 1..Attempts : reply[<<r, n>>] = "ACK"

\* An /on_* comes in.
Call(c) ==
  /\ Accepted(Answers[c])
  /\ \E k \in KeyId, value \in Value : Arrive(c, k, value)

\* Time passes while no timer is due.
Pass == Tick /\ ~SendDue /\ ~LookupDue

ExchangeNext ==
  \/ SendStep /\ UNCHANGED <<clock, keyVars>>
  \/ KeyStep /\ UNCHANGED <<clock, sendVars>>
  \/ \E c \in Callback : Call(c) /\ UNCHANGED <<clock, sendVars>>
  \/ Pass /\ UNCHANGED <<sendVars, keyVars>>

ExchangeSpec == ExchangeInit /\ [][ExchangeNext]_allVars

------------------------------------------------------------------------------
ExchangeTypeOK == clock \in 0..MaxClock /\ SendTypeOK /\ KeyTypeOK
==============================================================================
