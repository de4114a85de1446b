----------------------------- MODULE OrderPayload -----------------------------
(***************************************************************************)
(* The data of one order: drawn up by Draft until the /confirm is stored,  *)
(* then edited by OrderEdits.                                              *)
(***************************************************************************)
EXTENDS Draft, OrderEdits

payloadVars == <<draftVars, editVars>>

PayloadInit == DraftInit /\ EditInit

Drafting ==
  \/ \E lacks \in Silence : SendInit(lacks)
  \/ \E items, fulfillments \in IdList, lacks \in Silence :
       ReceiveOnInit(items, fulfillments, lacks)

Instructed(side, end) ==
  IF end.instructions = None THEN {} ELSE {<<side, "code">>, <<side, "short_desc">>}

\* The columns of the row that the /confirm gives.
FilledBy(order) ==
  order.linked \cup Instructed("start", order.fulfillments[1].start)
               \cup Instructed("end", order.fulfillments[1].end)

\* The tags of the order and of its fulfillment.
TagsOf(order) == order.tags \cup ({order.fulfillments[1].tags} \ {None, Empty})

\* POST /confirm: what is sent is stored.
Confirm(supplied, linked) ==
  \/ /\ SendConfirm(supplied, linked)
     /\ Replace("confirm", FilledBy(confirm'), TagsOf(confirm'))
     /\ UNCHANGED <<edit, reports>>
  \/ RefuseConfirm(supplied, linked) /\ UNCHANGED editVars

PayloadNext ==
  \/ Drafting /\ UNCHANGED editVars
  \/ \E supplied \in Supplied \cup {None}, linked \in {{}, Linked} : Confirm(supplied, linked)
  \/ confirm # None /\ EditStep /\ UNCHANGED draftVars

PayloadSpec == PayloadInit /\ [][PayloadNext]_payloadVars
================================================================================
