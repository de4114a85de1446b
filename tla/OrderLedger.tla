------------------------------ MODULE OrderLedger ------------------------------
(***************************************************************************)
(* What the post-order calls promise about one order: nothing is sent to   *)
(* the LSP that was not recorded first; the order says that a cancellation *)
(* is under way only if one was asked for, and that it succeeded only if   *)
(* the LSP has said something about a cancellation, which is on record.    *)
(***************************************************************************)
CONSTANTS Key,        \* the requests: an action and a message_id
          CancelKey   \* those that ask for the cancellation

VARIABLES asked,        \* the requests on record
          sent,         \* those the LSP has had
          heard,        \* whether an /on_cancel is on record
          cancellation  \* logistics_order.cancellation_status

olVars == <<asked, sent, heard, cancellation>>

OlInit ==
  /\ asked = {}
  /\ sent = {}
  /\ heard = FALSE
  /\ cancellation = "null"

Ask(k) ==
  /\ asked' = asked \cup {k}
  /\ UNCHANGED <<sent, heard, cancellation>>

Send(k) ==
  /\ k \in asked
  /\ sent' = sent \cup {k}
  /\ UNCHANGED <<asked, heard, cancellation>>

\* The outcome of an attempt to send the cancellation.
Try(k) ==
  /\ k \in asked \cap CancelKey
  /\ cancellation' \in {"pending", "failed"}
  /\ UNCHANGED <<asked, sent, heard>>

\* The LSP confirms the cancellation, refuses it, or says neither.
Hear ==
  /\ heard' = TRUE
  /\ cancellation' \in {"succeeded", "failed", cancellation}
  /\ UNCHANGED <<asked, sent>>

OlNext == Hear \/ \E k \in Key : Ask(k) \/ Send(k) \/ Try(k)

OlSpec == OlInit /\ [][OlNext]_olVars
==============================================================================
