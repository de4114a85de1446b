------------------------------ MODULE OrderEdits ------------------------------
(***************************************************************************)
(* What /update tells the LSP of one order and stores of it:               *)
(* services/update.service.ts, mappers/update/ and applyUpdate of          *)
(* repositories/update.repository.ts, among the callbacks that replace     *)
(* the columns and the tags of the order.                                  *)
(*                                                                         *)
(* A column holds who gave its value: an edit, "confirm" or "lsp".  What   *)
(* is built is what is sent; whether it arrives and the status of the      *)
(* request are OrderRecord's.  The tag "yes" or "no" is the fulfillment's  *)
(* state tag with ready_to_ship in its list; a row of the table tags and   *)
(* the rows of its list are read by two queries, and written by one        *)
(* transaction.                                                            *)
(***************************************************************************)
EXTENDS Absent, Naturals, Sequences

CONSTANTS
  Edit,         \* calls of /update
  LinkedField,  \* of the linked retail order
  MaxReports    \* bound: /on_confirm and /on_status that carry an order

Side == {"start", "end"}
Linked == {"linked"} \X LinkedField
Column == Linked \cup Side \X {"code", "short_desc", "token"}
Giver == Edit \cup {"confirm", "lsp"}

ASSUME ReportsBound == MaxReports \in Nat
ASSUME EditsAreNobodyElse == {"confirm", "lsp"} \cap Edit = {}
ASSUME NoneIsNoGiver == None \notin Giver

VARIABLES
  row,      \* the columns of logistics_order
  tags,     \* of the order
  stateRow, \* the write that inserted the row of the state tag, if there is one
  edit,     \* how far a call has come, and what it has read and built
  journal,  \* history: the writes to the order, with what was given for them
  reports

editVars == <<row, tags, stateRow, edit, journal, reports>>

Tag == {"yes", "no", "catalog", "lsp", "bap_terms", "bpp_terms", "rto_action"}

\* Those that validate_tag_0 of the workbench does not take.
Unwanted == {"bap_terms", "bpp_terms", "rto_action"}

\* What a client may ask for, and the columns it gives.
Input ==
  [type : {"LINKED_ORDER_DETAILS"}, gives : SUBSET Linked \ {{}}]
  \cup [type : {"READY_TO_SHIP"}, gives : SUBSET Linked]
  \cup [type : {"INSTRUCTION"},
        gives : {{<<side, "code">>} : side \in Side}
                \cup {{<<side, "code">>, <<side, "short_desc">>} : side \in Side}]
  \cup [type : {"AUTHENTICATION"}, gives : {{<<side, "token">>} : side \in Side}]

Free == [stage |-> "free"]

EditInit ==
  /\ row = [c \in Column |-> None]
  /\ tags = {}
  /\ stateRow = 0
  /\ edit = [e \in Edit |-> Free]
  /\ journal = <<>>
  /\ reports = 0

\* A write: who gave what for it, what else it writes, how many writes had been
\* made when what it writes was read, and what it does to the state tag.
Enter(by, gave, wrote, from, state) ==
  journal' = Append(journal,
    [by |-> by, gave |-> gave, wrote |-> wrote, from |-> from, state |-> state])

StateOf(ts) == IF "yes" \in ts THEN "ready" ELSE "not ready"

------------------------------------------------------------------------------
(* The mappers.                                                            *)

\* Faulty: what is stored wins over what the client gives.
LinkedOrderAsStored(e, gives, r) ==
  [c \in Column |-> IF c \notin Linked THEN None
                    ELSE IF c \in gives THEN Else(r[c], e) ELSE r[c]]

\* buildLinkedOrder: what the client does not give is sent as it is stored.
LinkedOrder(e, gives, r) ==
  [c \in Column |-> IF c \in gives THEN e ELSE IF c \in Linked THEN r[c] ELSE None]

\* buildInstructionUpdate: so is the short description; the code is given.
Instruction(e, gives, r) ==
  [c \in Column |-> IF c \in gives THEN e
                    ELSE IF c[2] = "short_desc" /\ <<c[1], "code">> \in gives THEN r[c]
                    ELSE None]

\* buildAuthenticationUpdate.
Authentication(e, gives) == [c \in Column |-> IF c \in gives THEN e ELSE None]

\* What the builder of the type says of its own.
Fresh(e, input, r) ==
  CASE input.type = "INSTRUCTION" -> Instruction(e, input.gives, r)
    [] input.type = "AUTHENTICATION" -> Authentication(e, input.gives)
    [] OTHER -> LinkedOrder(e, input.gives, r)

\* The tags with the state tag replaced: mergeTagsByCode.
Ready(ts) == (ts \ {"no"}) \cup {"yes"}

\* The tags an update carries.
Carried(input, ts) ==
  (IF input.type = "READY_TO_SHIP" THEN Ready(ts) ELSE ts) \ Unwanted

\* Faulty: it is not.
NoEcho(r, ts) == [c \in Column |-> None]

\* buildBaseOrder: with a parcel that is ready the pick-up instruction is sent
\* again, if there is one.
Echo(r, ts) ==
  [c \in Column |-> IF /\ "yes" \in ts /\ r[<<"start", "short_desc">>] # None
                       /\ c \in {<<"start", "code">>, <<"start", "short_desc">>}
                    THEN r[c] ELSE None]

\* buildUpdateOrder: what the update says.
Says(e, input, r, ts) ==
  [c \in Column |-> Else(Fresh(e, input, r)[c], Echo(r, Carried(input, ts))[c])]

------------------------------------------------------------------------------
(* The steps of createUpdate, and the callbacks.                           *)

\* loadOrder.
Load(e, input) ==
  /\ edit[e] = Free
  /\ edit' = [edit EXCEPT ![e] =
       [stage |-> "loaded", input |-> input, row |-> row, from |-> Len(journal)]]
  /\ UNCHANGED <<row, tags, stateRow, journal, reports>>

\* loadFulfillmentTags, the query for the rows of the tags.
ReadTags(e) ==
  /\ edit[e].stage = "loaded"
  /\ edit' = [edit EXCEPT ![e] =
       [stage |-> "tagged", input |-> edit[e].input, row |-> edit[e].row, from |-> edit[e].from,
        tags |-> tags, stateRow |-> stateRow, tagsFrom |-> Len(journal)]]
  /\ UNCHANGED <<row, tags, stateRow, journal, reports>>

\* A state tag whose row has been replaced is found without its list, and says
\* neither "yes" nor "no".
Listed(e) ==
  IF edit[e].stateRow = stateRow THEN edit[e].tags ELSE edit[e].tags \ {"yes", "no"}

\* The queries for their lists, of which that of the state tag matters; the
\* payload is built with what has been found.
Build(e) ==
  /\ edit[e].stage = "tagged"
  /\ edit' = [edit EXCEPT ![e] =
       [stage |-> "built", input |-> edit[e].input, from |-> edit[e].from,
        says |-> Says(e, edit[e].input, edit[e].row, Listed(e)),
        tags |-> Carried(edit[e].input, Listed(e)),
        tagsFrom |-> edit[e].tagsFrom, listsFrom |-> Len(journal)]]
  /\ UNCHANGED <<row, tags, stateRow, journal, reports>>

\* The columns applyUpdate writes.
About(input) ==
  CASE input.type = "INSTRUCTION" ->
         {c \in Column : c[2] \in {"code", "short_desc"} /\ <<c[1], "code">> \in input.gives}
    [] input.type = "AUTHENTICATION" -> input.gives
    [] OTHER -> Linked

\* A column for which nothing is said keeps its value.
Store(says, columns) ==
  row' = [c \in Column |-> IF c \in columns THEN Else(says[c], row[c]) ELSE row[c]]

\* create: the transaction with applyUpdate in it.
Create(e) ==
  /\ edit[e].stage = "built"
  /\ Store(edit[e].says, About(edit[e].input))
  /\ IF edit[e].input.type = "READY_TO_SHIP"
     THEN /\ tags' = Ready(tags)
          /\ stateRow' = Len(journal) + 1
          /\ Enter(e, edit[e].input.gives, About(edit[e].input), edit[e].from, "ready")
     ELSE /\ UNCHANGED <<tags, stateRow>>
          /\ Enter(e, edit[e].input.gives, About(edit[e].input), edit[e].from, "kept")
  /\ edit' = [edit EXCEPT ![e].stage = "stored"]
  /\ UNCHANGED reports

\* An order from elsewhere is flattened into the row: buildLogisticsOrderColumns,
\* syncLogisticsOrderTags.
Replace(by, gave, ts) ==
  /\ row' = [c \in Column |-> IF c \in gave THEN by ELSE row[c]]
  /\ tags' = ts
  /\ stateRow' = Len(journal) + 1
  /\ Enter(by, gave, gave, Len(journal), StateOf(ts))

\* What an order of the LSP may say of these columns.
Told == {{}, Linked, {<<"start", "code">>, <<"start", "short_desc">>}}

\* An /on_confirm or /on_status.
Report(gave, ts) ==
  /\ reports < MaxReports
  /\ Replace("lsp", gave, ts)
  /\ reports' = reports + 1
  /\ UNCHANGED edit

EditStep ==
  \/ \E e \in Edit : (\E input \in Input : Load(e, input)) \/ ReadTags(e) \/ Build(e) \/ Create(e)
  \/ \E gave \in Told, ts \in {{}, {"yes"}, {"no", "lsp"}} : Report(gave, ts)

------------------------------------------------------------------------------
\* linked-order.mapper.ts:27, "only fields the caller actually supplies are
\* changed": what somebody gave for a column stays until somebody gives another
\* value for it, unless an update that had read the order before writes it back.
EditsStand ==
  \A i \in DOMAIN journal : \A c \in journal[i].gave :
    row[c] # journal[i].by =>
      \E j \in i + 1 .. Len(journal) :
        \/ c \in journal[j].gave
        \/ c \in journal[j].wrote /\ journal[j].from < i

Built(e) == edit[e].stage \in {"built", "stored"}

\* The order was made ready before the first n writes were over, and is still.
ReadyBy(n) ==
  \E i \in 1..n : /\ journal[i].state = "ready"
                  /\ \A j \in i + 1 .. n : journal[j].state # "not ready"

\* The tags were replaced after the first m writes and before the first n were over.
Rewritten(m, n) == \E j \in m + 1 .. n : journal[j].state # "kept"

\* shared.ts:39 and 47: every update after the one that made the parcel ready
\* says so too, whichever it is, unless the state tag is deleted and inserted
\* again between the two queries for it; and an update that says so has the
\* pick-up instruction if one was ever given before the order was read.
ReadyIsRepeated ==
  \A e \in Edit : Built(e) =>
    /\ ReadyBy(edit[e].tagsFrom) /\ ~Rewritten(edit[e].tagsFrom, edit[e].listsFrom)
         => "yes" \in edit[e].tags
    /\ "yes" \in edit[e].tags
         /\ (\E i \in 1..edit[e].from : <<"start", "short_desc">> \in journal[i].gave)
       => edit[e].says[<<"start", "short_desc">>] # None
================================================================================
