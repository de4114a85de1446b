----------------------------- MODULE CatalogShelf -----------------------------
(***************************************************************************)
(* What the ingestion of /on_search promises for each callback, however    *)
(* often it is delivered: its catalog is put on the shelf at most once,    *)
(* whole, and only after the callback was accepted; the clients are told   *)
(* of it at most once, and only when it can be found there.                *)
(***************************************************************************)
CONSTANT Key   \* the callbacks: a search, an LSP and a message_id

VARIABLES accepted,  \* the callbacks an LSP has had an ACK for
          shelved,   \* those whose catalog can be searched and booked from
          announced  \* those the clients have been told of

csVars == <<accepted, shelved, announced>>

CsInit ==
  /\ accepted = {}
  /\ shelved = {}
  /\ announced = {}

Accept(k) ==
  /\ accepted' = accepted \cup {k}
  /\ UNCHANGED <<shelved, announced>>

Shelve(k) ==
  /\ k \in accepted \ shelved
  /\ shelved' = shelved \cup {k}
  /\ UNCHANGED <<accepted, announced>>

Announce(k) ==
  /\ k \in shelved \ announced
  /\ announced' = announced \cup {k}
  /\ UNCHANGED <<accepted, shelved>>

CsNext == \E k \in Key : Accept(k) \/ Shelve(k) \/ Announce(k)

CsSpec == CsInit /\ [][CsNext]_csVars
==============================================================================
