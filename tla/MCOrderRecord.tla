----------------------------- MODULE MCOrderRecord -----------------------------
(***************************************************************************)
(* Instances of OrderRecord.  Calls, message_ids and handlers are          *)
(* interchangeable.                                                        *)
(***************************************************************************)
EXTENDS OrderRecord, TLC

MCSymmetry ==
  Permutations(Call) \cup Permutations(Message) \cup Permutations(Push)
  \cup Permutations(Handler)

\* No step looks at what the client was told or at the writes that failed.
MCView == <<ask, phase, status, answer, audit, order, received, job, crashes>>
==============================================================================
