---------------------------- MODULE MCOrderPayload ----------------------------
(* Three ids and two updates, over one or two fields of the linked order.    *)
EXTENDS OrderPayload, TLC

CONSTANTS i1, i2, i3

\* None, ours alone, ours behind another, or two others.
MCIdList == {<<>>, <<i1>>, <<i2, i1>>, <<i2, i3>>}

\* All is said, or only what has to be, or what a /confirm needs.
MCSilence == {{}, Part, Part \ {"category", "reference"}}

\* Nothing, or all there is to give.
MCGiving == {{}, Extra}

\* Bound: of the orders whose row is the same only those are edited whose /init
\* and /on_init left nothing out and kept to the ids; and of the calls of /confirm
\* only those that give all the columns or none, and no tags or "yes".
Plain ==
  confirm # None =>
    /\ init = MapInit({}) /\ onInit = Answer(<<i1>>, <<i1>>, {})
    /\ confirm.fulfillments[1].tags \in {"lsp", "yes"}
    /\ confirm.linked = {} <=> confirm.fulfillments[1].awb = None

Symmetry == Permutations(Edit) \cup Permutations(LinkedField)
================================================================================
