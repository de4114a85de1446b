-------------------------- MODULE OrderPayloadProofs --------------------------
(***************************************************************************)
(* Proofs about the draft of an order, for any ids and whatever an offer   *)
(* or an /on_init leaves out, and about its edits, for any number of       *)
(* updates, callbacks and fields of the linked order.                      *)
(*                                                                         *)
(* EditsStand is not inductive: what an update has read and built stands   *)
(* for the row at the moment it was read, so the same must be known of it, *)
(* over the writes up to that moment.                                      *)
(***************************************************************************)
EXTENDS OrderPayload, SequenceTheorems, TLAPS

EntryType == [by : Giver, gave : SUBSET Column, wrote : SUBSET Column, from : Nat,
              state : {"ready", "kept", "not ready"}]

RowType == [Column -> Giver \cup {None}]

\* A call has read nothing, or the row, or the rows of the tags too, or has built
\* what it stores.
Shape(e) ==
  \/ edit[e] = Free
  \/ \E input \in Input, r \in RowType, from \in Nat :
       edit[e] = [stage |-> "loaded", input |-> input, row |-> r, from |-> from]
  \/ \E input \in Input, r \in RowType, from, tagsFrom, stateRowThen \in Nat :
       /\ edit[e] = [stage |-> "tagged", input |-> input, row |-> r, from |-> from,
                     tags |-> edit[e].tags, stateRow |-> stateRowThen, tagsFrom |-> tagsFrom]
  \/ /\ edit[e] = [stage |-> edit[e].stage, input |-> edit[e].input,
                    from |-> edit[e].from, says |-> edit[e].says,
                    tags |-> edit[e].tags, tagsFrom |-> edit[e].tagsFrom,
                    listsFrom |-> edit[e].listsFrom]
     /\ edit[e].stage \in {"built", "stored"} /\ edit[e].input \in Input
     /\ edit[e].says \in RowType /\ edit[e].from \in Nat /\ edit[e].tagsFrom \in Nat
     /\ edit[e].listsFrom \in Nat

Types ==
  /\ row \in RowType
  /\ stateRow \in Nat
  /\ DOMAIN edit = Edit
  /\ edit = [e \in Edit |-> edit[e]]
  /\ \A e \in Edit : Shape(e)
  /\ journal \in Seq(EntryType)

\* After the first n writes, v is the value the last of them gave for c, or one
\* that an update which had read the order before has written back.
Holds(c, v, n) ==
  \A i \in 1..n :
    c \in journal[i].gave /\ v # journal[i].by =>
      \E j \in i + 1 .. n :
        \/ c \in journal[j].gave
        \/ c \in journal[j].wrote /\ journal[j].from < i

\* Somebody has given a value for c in the first n writes.
GivenBy(c, n) == \E i \in 1..n : c \in journal[i].gave

Short == <<"start", "short_desc">>

\* What an update has read is the row after the writes up to then.
LoadedFacts(e) ==
  edit[e].stage \in {"loaded", "tagged"} =>
    /\ edit[e].from <= Len(journal)
    /\ \A c \in Column : Holds(c, edit[e].row[c], edit[e].from)
    /\ GivenBy(Short, edit[e].from) => edit[e].row[Short] # None

\* The tags it has found are those after the writes up to then, and the state tag
\* still has the row it had, or has been replaced since.
TaggedFacts(e) ==
  edit[e].stage = "tagged" =>
    /\ edit[e].tagsFrom <= Len(journal)
    /\ ReadyBy(edit[e].tagsFrom) => "yes" \in edit[e].tags
    /\ edit[e].stateRow = stateRow \/ Rewritten(edit[e].tagsFrom, Len(journal))

\* What it is about to store is what the client gave, and what it has read.
BuiltFacts(e) ==
  Built(e) =>
    /\ edit[e].from <= Len(journal)
    /\ edit[e].tagsFrom <= Len(journal) /\ edit[e].listsFrom <= Len(journal)
    /\ \A c \in About(edit[e].input) :
         IF c \in edit[e].input.gives
         THEN edit[e].says[c] = e
         ELSE Holds(c, edit[e].says[c], edit[e].from)
    /\ ReadyBy(edit[e].tagsFrom) /\ ~Rewritten(edit[e].tagsFrom, edit[e].listsFrom)
         => "yes" \in edit[e].tags
    /\ "yes" \in edit[e].tags /\ GivenBy(Short, edit[e].from) => edit[e].says[Short] # None

RowFacts ==
  /\ \A c \in Column : Holds(c, row[c], Len(journal))
  /\ GivenBy(Short, Len(journal)) => row[Short] # None
  /\ ReadyBy(Len(journal)) => "yes" \in tags

CallFacts(e) == LoadedFacts(e) /\ TaggedFacts(e) /\ BuiltFacts(e)

EInv == Types /\ RowFacts /\ \A e \in Edit : CallFacts(e)

------------------------------------------------------------------------------
(* Columns and inputs.                                                     *)

LEMMA Columns ==
  /\ Short \in Column
  /\ Linked \subseteq Column
  /\ Edit \subseteq Giver /\ "lsp" \in Giver /\ "confirm" \in Giver
  BY DEF Short, Column, Side, Linked, Giver

LEMMA Inputs ==
  ASSUME NEW input \in Input
  PROVE  /\ input.gives \subseteq About(input)
         /\ About(input) \subseteq Column
         /\ input.type \in {"LINKED_ORDER_DETAILS", "READY_TO_SHIP", "INSTRUCTION", "AUTHENTICATION"}
  BY DEF Input, About, Column, Side, Linked

\* The past of the journal does not change, and what is true of it neither.
LEMMA Past ==
  ASSUME journal \in Seq(EntryType), journal' \in Seq(EntryType),
         Len(journal) <= Len(journal'),
         \A i \in 1..Len(journal) : journal'[i] = journal[i],
         NEW n \in Nat, n <= Len(journal)
  PROVE  /\ \A c, v : Holds(c, v, n) <=> Holds(c, v, n)'
         /\ \A c : GivenBy(c, n) <=> GivenBy(c, n)'
         /\ ReadyBy(n) <=> ReadyBy(n)'
         /\ \A m \in Nat : Rewritten(m, n) <=> Rewritten(m, n)'
  <1>1. \A i \in 1..n : journal'[i] = journal[i]
    OBVIOUS
  <1>2. \A i \in 1..n : \A j \in i + 1 .. n : journal'[j] = journal[j]
    OBVIOUS
  <1>3. \A c, v : Holds(c, v, n) <=> Holds(c, v, n)'
    BY <1>1, <1>2, Zenon DEF Holds
  <1>4. \A c : GivenBy(c, n) <=> GivenBy(c, n)'
    BY <1>1 DEF GivenBy
  <1>5. ReadyBy(n) <=> ReadyBy(n)'
    BY <1>1, <1>2, Zenon DEF ReadyBy
  <1>6. ASSUME NEW m \in Nat
        PROVE  Rewritten(m, n) <=> Rewritten(m, n)'
    <2>1. \A j \in m + 1 .. n : j \in 1..n
      OBVIOUS
    <2> QED
      BY <1>1, <2>1 DEF Rewritten
  <1> QED
    BY <1>3, <1>4, <1>5, <1>6

\* A write appends to the journal.
LEMMA Appended ==
  ASSUME journal \in Seq(EntryType), NEW x \in EntryType, journal' = Append(journal, x)
  PROVE  /\ journal' \in Seq(EntryType)
         /\ Len(journal') = Len(journal) + 1
         /\ Len(journal) \in Nat
         /\ \A i \in 1..Len(journal) : journal'[i] = journal[i]
         /\ journal'[Len(journal) + 1] = x
  OBVIOUS

\* A write keeps what stands: of every column it either leaves the value, or
\* gives one, or writes back one that stood when it was read.
LEMMA WriteStands ==
  ASSUME journal \in Seq(EntryType),
         \A c \in Column : Holds(c, row[c], Len(journal)),
         NEW x \in EntryType, journal' = Append(journal, x),
         x.from <= Len(journal),
         \A c \in x.gave : row'[c] = x.by,
         \A c \in Column \ x.gave :
            row'[c] = row[c] \/ (c \in x.wrote /\ Holds(c, row'[c], x.from))
  PROVE  \A c \in Column : Holds(c, row[c], Len(journal))'
  <1> DEFINE n == Len(journal)
  <1>1. /\ Len(journal') = n + 1 /\ n \in Nat
        /\ \A i \in 1..n : journal'[i] = journal[i]
        /\ journal'[n + 1] = x /\ x.from \in Nat
    BY Appended DEF EntryType
  <1> HIDE DEF n
  <1>2. SUFFICES ASSUME NEW c \in Column, NEW i \in 1..(n + 1),
                        c \in journal'[i].gave, row'[c] # journal'[i].by
                 PROVE  \E j \in i + 1 .. n + 1 :
                          \/ c \in journal'[j].gave
                          \/ c \in journal'[j].wrote /\ journal'[j].from < i
    BY <1>1 DEF Holds, n
  <1>3. i # n + 1
    BY <1>1, <1>2
  <1>4. i \in 1..n /\ journal'[i] = journal[i] /\ n + 1 \in i + 1 .. n + 1
    BY <1>1, <1>2, <1>3
  <1>5. CASE c \in x.gave
    BY <1>1, <1>4, <1>5
  <1>6. CASE c \notin x.gave /\ row'[c] = row[c]
    <2>1. Holds(c, row[c], n)
      BY DEF n
    <2>2. PICK j \in i + 1 .. n :
            \/ c \in journal[j].gave
            \/ c \in journal[j].wrote /\ journal[j].from < i
      BY <1>2, <1>4, <1>6, <2>1 DEF Holds
    <2>3. j \in 1..n /\ j \in i + 1 .. n + 1
      BY <1>1, <1>4
    <2> QED
      BY <1>1, <2>2, <2>3
  <1>7. CASE c \in x.wrote /\ Holds(c, row'[c], x.from)
    <2>1. CASE x.from < i
      BY <1>1, <1>4, <1>7, <2>1
    <2>2. CASE i <= x.from
      <3>1. i \in 1..x.from
        BY <1>4, <2>2
      <3>2. PICK j \in i + 1 .. x.from :
              \/ c \in journal[j].gave
              \/ c \in journal[j].wrote /\ journal[j].from < i
        BY <1>2, <1>4, <1>7, <3>1 DEF Holds
      <3>3. j \in 1..n /\ j \in i + 1 .. n + 1
        BY <1>1, <1>4 DEF n
      <3> QED
        BY <1>1, <3>2, <3>3
    <2>3. x.from \in Nat /\ i \in Nat
      BY <1>1
    <2>4. x.from < i \/ i <= x.from
      BY <2>3
    <2> QED
      BY <2>1, <2>2, <2>4
  <1> QED
    BY <1>5, <1>6, <1>7, <1>2

\* And keeps the two facts about the parcel that is ready.
LEMMA WriteFacts ==
  ASSUME Types, RowFacts, row' \in RowType,
         NEW x \in EntryType, journal' = Append(journal, x),
         x.from <= Len(journal),
         \A c \in x.gave : row'[c] = x.by,
         \A c \in Column \ x.gave :
            row'[c] = row[c] \/ (c \in x.wrote /\ Holds(c, row'[c], x.from)),
         row[Short] # None => row'[Short] # None,
         x.state = "ready" => "yes" \in tags',
         x.state = "kept" => tags' = tags
  PROVE  RowFacts'
  <1>0. PICK n \in Nat : n = Len(journal)
    BY LenProperties DEF Types
  <1>1. /\ Len(journal') = n + 1 /\ n = Len(journal)
        /\ \A i \in 1..n : journal'[i] = journal[i]
        /\ journal'[n + 1] = x
        /\ journal' \in Seq(EntryType) /\ journal \in Seq(EntryType)
    BY <1>0, Appended DEF Types
  <1>2. /\ \A c : GivenBy(c, n) <=> GivenBy(c, n)'
        /\ ReadyBy(n) <=> ReadyBy(n)'
    BY <1>1, Past
  <1>3. \A c \in Column : Holds(c, row[c], Len(journal))'
    BY WriteStands DEF RowFacts, Types
  <1>4. GivenBy(Short, n + 1)' => row'[Short] # None
    <2> SUFFICES ASSUME GivenBy(Short, n + 1)' PROVE row'[Short] # None
      OBVIOUS
    <2>1. PICK i \in 1 .. n + 1 : Short \in journal'[i].gave
      BY <1>1 DEF GivenBy
    <2>2. CASE i = n + 1
      BY <1>1, <2>1, <2>2, NoneIsNoGiver DEF EntryType
    <2>3. CASE i \in 1..n
      BY <1>1, <2>1, <2>3 DEF RowFacts, GivenBy
    <2> QED
      BY <1>1, <2>1, <2>2, <2>3
  <1>5. ReadyBy(n + 1)' => "yes" \in tags'
    <2> SUFFICES ASSUME ReadyBy(n + 1)' PROVE "yes" \in tags'
      OBVIOUS
    <2>1. PICK i \in 1 .. n + 1 :
            /\ journal'[i].state = "ready"
            /\ \A j \in i + 1 .. n + 1 : journal'[j].state # "not ready"
      BY <1>1 DEF ReadyBy
    <2>2. CASE i = n + 1
      BY <1>1, <2>1, <2>2
    <2>3. CASE i \in 1..n
      <3>1. n + 1 \in i + 1 .. n + 1
        BY <1>1, <2>3
      <3>2. x.state # "not ready"
        BY <1>1, <2>1, <3>1
      <3>3. x.state = "ready" \/ x.state = "kept"
        BY <3>2 DEF EntryType
      <3>4. \A j \in i + 1 .. n : j \in 1..n /\ j \in i + 1 .. n + 1
        BY <1>0, <2>3
      <3>5. \A j \in i + 1 .. n : journal[j].state # "not ready"
        BY <1>1, <2>1, <3>4
      <3>6. journal[i].state = "ready"
        BY <1>1, <2>1, <2>3
      <3>7. ReadyBy(n)
        BY <2>3, <3>5, <3>6 DEF ReadyBy
      <3> QED
        BY <1>1, <3>3, <3>7 DEF RowFacts
    <2>4. i = n + 1 \/ i \in 1..n
      BY <1>0
    <2> QED
      BY <2>2, <2>3, <2>4
  <1> QED
    BY <1>1, <1>3, <1>4, <1>5 DEF RowFacts

\* What a call may have read.
LEMMA Reading ==
  ASSUME Types, NEW e \in Edit
  PROVE  /\ edit[e].stage \in {"loaded", "tagged"} =>
              /\ edit[e].input \in Input /\ edit[e].row \in RowType /\ edit[e].from \in Nat
         /\ edit[e].stage = "tagged" => edit[e].tagsFrom \in Nat
         /\ Built(e) =>
              /\ edit[e].input \in Input /\ edit[e].says \in RowType
              /\ edit[e].from \in Nat /\ edit[e].tagsFrom \in Nat /\ edit[e].listsFrom \in Nat
         /\ Built(e) =>
              edit[e] = [stage |-> edit[e].stage, input |-> edit[e].input,
                         from |-> edit[e].from, says |-> edit[e].says,
                         tags |-> edit[e].tags, tagsFrom |-> edit[e].tagsFrom,
                         listsFrom |-> edit[e].listsFrom]
         /\ edit[e] = Free \/ edit[e].stage \in {"loaded", "tagged"} \/ Built(e)
  <1>1. Shape(e)
    BY DEF Types
  <1>2. PICK call : call = edit[e]
    OBVIOUS
  <1>3. CASE edit[e] = Free
    BY <1>3 DEF Free, Built
  <1>4. CASE \E input \in Input, r \in RowType, from \in Nat :
               call = [stage |-> "loaded", input |-> input, row |-> r, from |-> from]
    <2>1. PICK input \in Input, r \in RowType, from \in Nat :
            call = [stage |-> "loaded", input |-> input, row |-> r, from |-> from]
      BY <1>4
    <2>2. call.stage = "loaded" /\ call.input = input /\ call.row = r /\ call.from = from
      BY <2>1
    <2> QED
      BY <1>2, <2>2 DEF Built
  <1>5. CASE \E input \in Input, r \in RowType, from, tagsFrom, stateRowThen \in Nat :
               call = [stage |-> "tagged", input |-> input, row |-> r, from |-> from,
                       tags |-> call.tags, stateRow |-> stateRowThen, tagsFrom |-> tagsFrom]
    <2>1. PICK input \in Input, r \in RowType, from \in Nat, tagsFrom \in Nat, then \in Nat :
            call = [stage |-> "tagged", input |-> input, row |-> r, from |-> from,
                    tags |-> call.tags, stateRow |-> then, tagsFrom |-> tagsFrom]
      BY <1>5
    <2>2. /\ call.stage = "tagged" /\ call.input = input /\ call.row = r /\ call.from = from
          /\ call.tagsFrom = tagsFrom
      BY <2>1
    <2> QED
      BY <1>2, <2>2 DEF Built
  <1>6. CASE /\ call = [stage |-> call.stage, input |-> call.input,
                        from |-> call.from, says |-> call.says,
                        tags |-> call.tags, tagsFrom |-> call.tagsFrom,
                        listsFrom |-> call.listsFrom]
             /\ call.stage \in {"built", "stored"} /\ call.input \in Input
             /\ call.says \in RowType /\ call.from \in Nat /\ call.tagsFrom \in Nat
             /\ call.listsFrom \in Nat
    BY <1>2, <1>6 DEF Built
  <1> QED
    BY <1>1, <1>2, <1>3, <1>4, <1>5, <1>6 DEF Shape

\* The writes of a step: journal grows, and the state tag keeps its row or one of
\* the new entries says otherwise.
Grows ==
  /\ journal' \in Seq(EntryType) /\ Len(journal) <= Len(journal')
  /\ \A i \in 1..Len(journal) : journal'[i] = journal[i]
  /\ \/ stateRow' = stateRow
     \/ \E j \in Len(journal) + 1 .. Len(journal') : journal'[j].state # "kept"

\* What a call has read stands, whatever is written meanwhile.
LEMMA LoadedKept ==
  ASSUME Types, Grows, NEW e \in Edit, LoadedFacts(e), TaggedFacts(e),
         edit'[e] = edit[e], edit[e].stage \in {"loaded", "tagged"}
  PROVE  CallFacts(e)'
  <1>0. journal \in Seq(EntryType) /\ Len(journal) \in Nat /\ Len(journal') \in Nat
    BY DEF Types, Grows
  <1>1. edit[e].from \in Nat /\ edit[e].from <= Len(journal)
    BY Reading DEF LoadedFacts
  <1>2. PICK n \in Nat : n = edit[e].from
    BY <1>1
  <1>3. /\ \A c, v : Holds(c, v, n) <=> Holds(c, v, n)'
        /\ \A c : GivenBy(c, n) <=> GivenBy(c, n)'
    BY <1>0, <1>1, <1>2, Past DEF Grows
  <1>4. LoadedFacts(e)'
    BY <1>0, <1>1, <1>2, <1>3 DEF LoadedFacts, Grows
  <1>5. TaggedFacts(e)'
    <2>1. CASE edit[e].stage = "tagged"
      <3>1. edit[e].tagsFrom \in Nat /\ edit[e].tagsFrom <= Len(journal)
        BY <2>1, Reading DEF TaggedFacts
      <3>2. PICK k \in Nat : k = edit[e].tagsFrom
        BY <3>1
      <3>3. ReadyBy(k) <=> ReadyBy(k)'
        BY <1>0, <3>1, <3>2, Past DEF Grows
      <3>4. PICK m \in Nat, n1 \in Nat : m = Len(journal) /\ n1 = Len(journal')
        BY <1>0
      <3>5. ASSUME Rewritten(k, m)
            PROVE  \E j \in k + 1 .. n1 : journal'[j].state # "kept"
        <4>1. PICK j \in k + 1 .. m : journal[j].state # "kept"
          BY <3>5 DEF Rewritten
        <4>2. j \in 1..m /\ j \in k + 1 .. n1
          BY <3>4, <4>1 DEF Grows
        <4> QED
          BY <3>4, <4>1, <4>2 DEF Grows
      <3>6. ASSUME NEW j \in m + 1 .. n1
            PROVE  j \in k + 1 .. n1
        BY <3>1, <3>2, <3>4
      <3>7. edit[e].stateRow = stateRow' \/ \E j \in k + 1 .. n1 : journal'[j].state # "kept"
        BY <2>1, <3>2, <3>4, <3>5, <3>6 DEF TaggedFacts, Grows
      <3> QED
        BY <1>0, <2>1, <3>1, <3>2, <3>3, <3>4, <3>7 DEF TaggedFacts, Rewritten, Grows
    <2>2. CASE edit[e].stage # "tagged"
      BY <2>2 DEF TaggedFacts
    <2> QED
      BY <2>1, <2>2
  <1> QED
    BY <1>4, <1>5 DEF CallFacts, BuiltFacts, Built

\* And what it has built.
LEMMA BuiltKept ==
  ASSUME Types, Grows, NEW e \in Edit, Built(e), BuiltFacts(e),
         edit'[e].stage \in {"built", "stored"},
         edit'[e].input = edit[e].input, edit'[e].says = edit[e].says,
         edit'[e].from = edit[e].from, edit'[e].tagsFrom = edit[e].tagsFrom,
         edit'[e].listsFrom = edit[e].listsFrom, edit'[e].tags = edit[e].tags
  PROVE  CallFacts(e)'
  <1>0. journal \in Seq(EntryType) /\ Len(journal) \in Nat /\ Len(journal') \in Nat
    BY DEF Types, Grows
  <1>1. /\ edit[e].from \in Nat /\ edit[e].from <= Len(journal)
        /\ edit[e].tagsFrom \in Nat /\ edit[e].tagsFrom <= Len(journal)
        /\ edit[e].listsFrom \in Nat /\ edit[e].listsFrom <= Len(journal)
    BY Reading DEF BuiltFacts
  <1>2. PICK n \in Nat, k \in Nat, l \in Nat :
          n = edit[e].from /\ k = edit[e].tagsFrom /\ l = edit[e].listsFrom
    BY <1>1
  <1>3. /\ \A c, v : Holds(c, v, n) <=> Holds(c, v, n)'
        /\ \A c : GivenBy(c, n) <=> GivenBy(c, n)'
        /\ ReadyBy(k) <=> ReadyBy(k)'
        /\ Rewritten(k, l) <=> Rewritten(k, l)'
    BY <1>0, <1>1, <1>2, Past DEF Grows
  <1>4. LoadedFacts(e)' /\ TaggedFacts(e)'
    BY DEF LoadedFacts, TaggedFacts
  <1>5. PICK input, says, ts :
          input = edit[e].input /\ says = edit[e].says /\ ts = edit[e].tags
    OBVIOUS
  <1>6. /\ \A c \in About(input) :
             IF c \in input.gives THEN says[c] = e ELSE Holds(c, says[c], n)
        /\ ReadyBy(k) /\ ~Rewritten(k, l) => "yes" \in ts
        /\ "yes" \in ts /\ GivenBy(Short, n) => says[Short] # None
    BY <1>2, <1>5 DEF BuiltFacts
  <1>7. /\ \A c \in About(input) :
             IF c \in input.gives THEN says[c] = e ELSE Holds(c, says[c], n)'
        /\ ReadyBy(k)' /\ ~Rewritten(k, l)' => "yes" \in ts
        /\ "yes" \in ts /\ GivenBy(Short, n)' => says[Short] # None
    BY <1>3, <1>6
  <1>8. BuiltFacts(e)'
    <2>1. /\ edit'[e].input = input /\ edit'[e].says = says /\ edit'[e].tags = ts
          /\ edit'[e].from = n /\ edit'[e].tagsFrom = k /\ edit'[e].listsFrom = l
      BY <1>2, <1>5
    <2>2. n <= Len(journal') /\ k <= Len(journal') /\ l <= Len(journal')
      BY <1>0, <1>1, <1>2 DEF Grows
    <2> QED
      BY <1>7, <2>1, <2>2 DEF BuiltFacts
  <1> QED
    BY <1>4, <1>8 DEF CallFacts

LEMMA FactsKept ==
  ASSUME Types, Grows, NEW e \in Edit, CallFacts(e)
  PROVE  /\ edit'[e] = edit[e] => CallFacts(e)'
         /\ Built(e) /\ edit'[e] = [edit[e] EXCEPT !.stage = "stored"] => CallFacts(e)'
  <1>1. ASSUME edit'[e] = edit[e]
        PROVE  CallFacts(e)'
    <2>1. CASE edit[e] = Free
      BY <1>1, <2>1 DEF CallFacts, LoadedFacts, TaggedFacts, BuiltFacts, Built, Free
    <2>2. CASE edit[e].stage \in {"loaded", "tagged"}
      BY <1>1, <2>2, LoadedKept DEF CallFacts
    <2>3. CASE Built(e)
      BY <1>1, <2>3, BuiltKept DEF CallFacts, Built
    <2> QED
      BY <2>1, <2>2, <2>3, Reading
  <1>2. ASSUME Built(e), edit'[e] = [edit[e] EXCEPT !.stage = "stored"]
        PROVE  CallFacts(e)'
    <2>1. /\ edit'[e].stage = "stored"
          /\ edit'[e].input = edit[e].input /\ edit'[e].says = edit[e].says
          /\ edit'[e].from = edit[e].from /\ edit'[e].tagsFrom = edit[e].tagsFrom
          /\ edit'[e].listsFrom = edit[e].listsFrom /\ edit'[e].tags = edit[e].tags
      BY <1>2 DEF Types, Shape, Built, Free
    <2> QED
      BY <1>2, <2>1, BuiltKept DEF CallFacts
  <1> QED
    BY <1>1, <1>2

------------------------------------------------------------------------------
(* Every step keeps the facts.                                             *)

LEMMA SaysRow ==
  ASSUME NEW e \in Edit, NEW input \in Input, NEW r \in RowType, NEW ts
  PROVE  /\ Says(e, input, r, ts) \in RowType
         /\ \A c \in About(input) :
              Says(e, input, r, ts)[c] = IF c \in input.gives THEN e ELSE r[c]
         /\ "yes" \in Carried(input, ts) /\ r[Short] # None
              => Says(e, input, r, ts)[Short] # None
  <1>1. e \in Giver /\ e # None
    BY Columns, NoneIsNoGiver
  <1>2. Echo(r, Carried(input, ts)) \in RowType
    BY DEF Echo, RowType
  <1>3. /\ LinkedOrder(e, input.gives, r) \in RowType
        /\ Instruction(e, input.gives, r) \in RowType
        /\ Authentication(e, input.gives) \in RowType
    BY <1>1 DEF LinkedOrder, Instruction, Authentication, RowType
  <1>4. Fresh(e, input, r) \in RowType
    BY <1>3 DEF Fresh
  <1>5. Says(e, input, r, ts) \in RowType
    BY <1>2, <1>4 DEF Says, RowType, Else
  <1>6. \A c \in Column : Echo(r, Carried(input, ts))[c] \in {None, r[c]}
    BY DEF Echo
  <1>7. \A c \in Linked : Echo(r, Carried(input, ts))[c] = None
    BY Columns DEF Echo, Linked
  <1>8. ASSUME NEW c \in About(input)
        PROVE  Says(e, input, r, ts)[c] = IF c \in input.gives THEN e ELSE r[c]
    <2>1. c \in Column
      BY Inputs
    <2>2. Says(e, input, r, ts)[c]
            = Else(Fresh(e, input, r)[c], Echo(r, Carried(input, ts))[c])
      BY <2>1 DEF Says
    <2>3. CASE input.type \in {"LINKED_ORDER_DETAILS", "READY_TO_SHIP"}
      <3>1. c \in Linked /\ Fresh(e, input, r) = LinkedOrder(e, input.gives, r)
        BY <2>3 DEF About, Fresh
      <3>2. Fresh(e, input, r)[c] = IF c \in input.gives THEN e ELSE r[c]
        BY <2>1, <3>1 DEF LinkedOrder
      <3> QED
        BY <1>1, <1>7, <2>2, <3>1, <3>2 DEF Else
    <2>4. CASE input.type = "INSTRUCTION"
      <3>1. /\ Fresh(e, input, r) = Instruction(e, input.gives, r)
            /\ c[2] \in {"code", "short_desc"} /\ <<c[1], "code">> \in input.gives
        BY <2>4 DEF About, Fresh
      <3>2. c[2] = "code" => c \in input.gives
        <4>1. c[2] = "code" => c = <<c[1], "code">>
          BY <2>1 DEF Column, Linked, Side
        <4> QED
          BY <3>1, <4>1
      <3>3. Fresh(e, input, r)[c] = IF c \in input.gives THEN e ELSE r[c]
        BY <2>1, <3>1, <3>2 DEF Instruction
      <3> QED
        BY <1>1, <1>6, <2>1, <2>2, <3>3 DEF Else
    <2>5. CASE input.type = "AUTHENTICATION"
      <3>1. c \in input.gives /\ Fresh(e, input, r) = Authentication(e, input.gives)
        BY <2>5 DEF About, Fresh
      <3>2. Fresh(e, input, r)[c] = e
        BY <2>1, <3>1 DEF Authentication
      <3> QED
        BY <1>1, <2>2, <3>1, <3>2 DEF Else
    <2> QED
      BY <2>3, <2>4, <2>5, Inputs
  <1>9. "yes" \in Carried(input, ts) /\ r[Short] # None => Says(e, input, r, ts)[Short] # None
    BY Columns DEF Says, Echo, Else, Short
  <1> QED
    BY <1>5, <1>8, <1>9

LEMMA ShapeKept ==
  ASSUME NEW e \in Edit, Shape(e), edit'[e] = edit[e]
  PROVE  Shape(e)'
  BY DEF Shape

LEMMA LoadStep ==
  ASSUME EInv, NEW e \in Edit, NEW input \in Input, Load(e, input)
  PROVE  EInv'
  <1>0. PICK n \in Nat : n = Len(journal)
    BY LenProperties DEF EInv, Types
  <1>1. /\ journal' = journal /\ row' = row /\ tags' = tags /\ stateRow' = stateRow
        /\ edit'[e] = [stage |-> "loaded", input |-> input, row |-> row, from |-> n]
        /\ \A f \in Edit \ {e} : edit'[f] = edit[f]
    BY <1>0 DEF Load, EInv, Types
  <1>2. Types'
    <2>1. Shape(e)'
      BY <1>1 DEF EInv, Types, Shape
    <2>2. \A f \in Edit \ {e} : Shape(f)'
      BY <1>1, ShapeKept DEF EInv, Types
    <2> QED
      BY <1>1, <2>1, <2>2 DEF Load, EInv, Types
  <1>3. RowFacts'
    BY <1>1 DEF EInv, RowFacts, Holds, GivenBy, ReadyBy
  <1>4. CallFacts(e)'
    BY <1>0, <1>1, <1>3 DEF CallFacts, LoadedFacts, TaggedFacts, BuiltFacts, Built, RowFacts
  <1>5. \A f \in Edit \ {e} : CallFacts(f)'
    <2>1. Grows
      BY <1>0, <1>1 DEF EInv, Types, Grows
    <2>2. ASSUME NEW f \in Edit \ {e}
          PROVE  CallFacts(f)'
      BY <1>1, <2>1, FactsKept DEF EInv
    <2> QED
      BY <2>2
  <1> QED
    BY <1>2, <1>3, <1>4, <1>5 DEF EInv

LEMMA ReadTagsStep ==
  ASSUME EInv, NEW e \in Edit, ReadTags(e)
  PROVE  EInv'
  <1>0. PICK n \in Nat : n = Len(journal)
    BY LenProperties DEF EInv, Types
  <1>1. PICK input \in Input, r \in RowType, from \in Nat :
          edit[e] = [stage |-> "loaded", input |-> input, row |-> r, from |-> from]
    BY DEF ReadTags, EInv, Types, Shape, Free
  <1>2. PICK ts, st : ts = tags /\ st = stateRow
    OBVIOUS
  <1>3. /\ journal' = journal /\ row' = row /\ tags' = tags /\ stateRow' = stateRow
        /\ edit'[e] = [stage |-> "tagged", input |-> input, row |-> r, from |-> from,
                       tags |-> ts, stateRow |-> st, tagsFrom |-> n]
        /\ \A f \in Edit \ {e} : edit'[f] = edit[f]
    BY <1>0, <1>1, <1>2 DEF ReadTags, EInv, Types
  <1>4. Types'
    <2>1. Shape(e)'
      <3>1. /\ edit'[e].tags = ts /\ st \in Nat
        BY <1>2, <1>3 DEF EInv, Types
      <3> QED
        BY <1>0, <1>3, <3>1 DEF Shape
    <2>2. \A f \in Edit \ {e} : Shape(f)'
      BY <1>3, ShapeKept DEF EInv, Types
    <2> QED
      BY <1>3, <2>1, <2>2 DEF ReadTags, EInv, Types
  <1>5. RowFacts'
    BY <1>3 DEF EInv, RowFacts, Holds, GivenBy, ReadyBy
  <1>6. CallFacts(e)'
    <2>1. /\ from <= n
          /\ \A c \in Column : Holds(c, r[c], from)
          /\ GivenBy(Short, from) => r[Short] # None
      BY <1>0, <1>1 DEF EInv, CallFacts, LoadedFacts
    <2>2. ReadyBy(n) => "yes" \in ts
      BY <1>0, <1>2 DEF EInv, RowFacts
    <2>3. /\ \A c, v, k : Holds(c, v, k) => Holds(c, v, k)'
          /\ \A k : GivenBy(Short, k)' => GivenBy(Short, k)
          /\ ReadyBy(n)' => ReadyBy(n)
      BY <1>3 DEF Holds, GivenBy, ReadyBy
    <2>4. LoadedFacts(e)'
      BY <1>0, <1>3, <2>1, <2>3 DEF LoadedFacts
    <2>5. TaggedFacts(e)'
      BY <1>0, <1>2, <1>3, <2>2, <2>3 DEF TaggedFacts
    <2>6. BuiltFacts(e)'
      BY <1>3 DEF BuiltFacts, Built
    <2> QED
      BY <2>4, <2>5, <2>6 DEF CallFacts
  <1>7. ASSUME NEW f \in Edit \ {e}
        PROVE  CallFacts(f)'
    <2>1. Grows
      BY <1>0, <1>3 DEF EInv, Types, Grows
    <2> QED
      BY <1>3, <2>1, FactsKept DEF EInv
  <1> QED
    BY <1>4, <1>5, <1>6, <1>7 DEF EInv

LEMMA BuildStep ==
  ASSUME EInv, NEW e \in Edit, Build(e)
  PROVE  EInv'
  <1>0. PICK n \in Nat : n = Len(journal)
    BY LenProperties DEF EInv, Types
  <1>f. PICK found : found = edit[e].tags
    OBVIOUS
  <1>1. PICK input \in Input, r \in RowType, from \in Nat, tagsFrom \in Nat, st \in Nat :
          edit[e] = [stage |-> "tagged", input |-> input, row |-> r, from |-> from,
                     tags |-> found, stateRow |-> st, tagsFrom |-> tagsFrom]
    BY <1>f DEF Build, EInv, Types, Shape, Free
  <1>l. PICK listed : listed = Listed(e)
    OBVIOUS
  <1>2. PICK says, ts : says = Says(e, input, r, listed) /\ ts = Carried(input, listed)
    OBVIOUS
  <1>3. /\ journal' = journal /\ row' = row /\ tags' = tags /\ stateRow' = stateRow
        /\ edit'[e] = [stage |-> "built", input |-> input, from |-> from, says |-> says,
                       tags |-> ts, tagsFrom |-> tagsFrom, listsFrom |-> n]
        /\ \A f \in Edit \ {e} : edit'[f] = edit[f]
    BY <1>0, <1>1, <1>l, <1>2 DEF Build, EInv, Types
  <1>4. /\ says \in RowType
        /\ \A c \in About(input) : says[c] = IF c \in input.gives THEN e ELSE r[c]
        /\ "yes" \in ts /\ r[Short] # None => says[Short] # None
    BY <1>2, SaysRow
  <1>5. Types'
    <2>1. Shape(e)'
      BY <1>0, <1>3, <1>4 DEF Shape
    <2>2. \A f \in Edit \ {e} : Shape(f)'
      BY <1>3, ShapeKept DEF EInv, Types
    <2> QED
      BY <1>3, <2>1, <2>2 DEF Build, EInv, Types
  <1>6. RowFacts'
    BY <1>3 DEF EInv, RowFacts, Holds, GivenBy, ReadyBy
  <1>7. /\ from <= n
        /\ \A c \in Column : Holds(c, r[c], from)
        /\ GivenBy(Short, from) => r[Short] # None
        /\ tagsFrom <= n
        /\ ReadyBy(tagsFrom) => "yes" \in found
        /\ st = stateRow \/ Rewritten(tagsFrom, n)
    BY <1>0, <1>1 DEF EInv, CallFacts, LoadedFacts, TaggedFacts
  <1>8. ReadyBy(tagsFrom) /\ ~Rewritten(tagsFrom, n) => "yes" \in ts
    <2>1. st = stateRow => listed = found
      BY <1>1, <1>l DEF Listed
    <2> QED
      BY <1>2, <1>7, <2>1 DEF Carried, Ready, Unwanted
  <1>9. /\ \A c, v, k : Holds(c, v, k) => Holds(c, v, k)'
        /\ \A k : GivenBy(Short, k)' => GivenBy(Short, k)
        /\ ReadyBy(tagsFrom)' => ReadyBy(tagsFrom)
        /\ Rewritten(tagsFrom, n) => Rewritten(tagsFrom, n)'
    BY <1>3 DEF Holds, GivenBy, ReadyBy, Rewritten
  <1>10. \A c \in About(input) :
           IF c \in input.gives THEN says[c] = e ELSE Holds(c, says[c], from)'
    BY <1>4, <1>7, <1>9, Inputs
  <1>11. /\ ReadyBy(tagsFrom)' /\ ~Rewritten(tagsFrom, n)' => "yes" \in ts
         /\ "yes" \in ts /\ GivenBy(Short, from)' => says[Short] # None
    BY <1>4, <1>7, <1>8, <1>9
  <1>12. CallFacts(e)'
    <2>1. LoadedFacts(e)' /\ TaggedFacts(e)'
      BY <1>3 DEF LoadedFacts, TaggedFacts
    <2>2. BuiltFacts(e)'
      BY <1>0, <1>3, <1>7, <1>10, <1>11 DEF BuiltFacts, Built
    <2> QED
      BY <2>1, <2>2 DEF CallFacts
  <1>13. ASSUME NEW f \in Edit \ {e}
         PROVE  CallFacts(f)'
    <2>1. Grows
      BY <1>0, <1>3 DEF EInv, Types, Grows
    <2> QED
      BY <1>3, <2>1, FactsKept DEF EInv
  <1> QED
    BY <1>5, <1>6, <1>12, <1>13 DEF EInv

\* What has been built replaces what it says something about.
LEMMA CreateStep ==
  ASSUME EInv, NEW e \in Edit, Create(e)
  PROVE  EInv'
  <1>0. PICK n \in Nat : n = Len(journal)
    BY LenProperties DEF EInv, Types
  <1>1. PICK input \in Input, says \in RowType, from \in Nat :
          /\ edit[e].stage = "built" /\ Built(e)
          /\ edit[e].input = input /\ edit[e].says = says /\ edit[e].from = from
    BY Reading DEF Create, EInv, Built
  <1>2. /\ e \in Giver
        /\ input.gives \in SUBSET Column /\ About(input) \in SUBSET Column
        /\ input.gives \subseteq About(input)
    BY Columns, Inputs
  <1>3. /\ edit'[e] = [edit[e] EXCEPT !.stage = "stored"]
        /\ \A f \in Edit \ {e} : edit'[f] = edit[f]
        /\ DOMAIN edit' = Edit /\ edit' = [f \in Edit |-> edit'[f]]
    BY DEF Create, EInv, Types
  <1>4. /\ row' \in RowType
        /\ \A c \in Column : row'[c] = IF c \in About(input) THEN Else(says[c], row[c]) ELSE row[c]
    BY <1>1 DEF Create, Store, EInv, Types, RowType, Else
  <1>5. PICK state :
          /\ state \in {"ready", "kept", "not ready"}
          /\ journal' = Append(journal,
               [by |-> e, gave |-> input.gives, wrote |-> About(input), from |-> from,
                state |-> state])
          /\ state = "ready" => "yes" \in tags'
          /\ state = "kept" => tags' = tags /\ stateRow' = stateRow
          /\ stateRow' \in Nat
    <2>0. stateRow \in Nat /\ n + 1 \in Nat
      BY DEF EInv, Types
    <2>1. CASE input.type = "READY_TO_SHIP"
      BY <1>0, <1>1, <2>0, <2>1 DEF Create, Ready, Enter
    <2>2. CASE input.type # "READY_TO_SHIP"
      BY <1>1, <2>0, <2>2 DEF Create, Enter
    <2> QED
      BY <2>1, <2>2
  <1>6. PICK x \in EntryType :
          /\ journal' = Append(journal, x)
          /\ x.by = e /\ x.gave = input.gives /\ x.wrote = About(input) /\ x.from = from
          /\ x.state = state
    <2>1. [by |-> e, gave |-> input.gives, wrote |-> About(input), from |-> from,
           state |-> state] \in EntryType
      BY <1>2, <1>5 DEF EntryType
    <2> QED
      BY <1>5, <2>1
  <1>7. /\ from <= n
        /\ \A c \in About(input) :
             IF c \in input.gives THEN says[c] = e ELSE Holds(c, says[c], from)
    BY <1>0, <1>1 DEF EInv, CallFacts, BuiltFacts, Built
  <1>8. /\ \A c \in x.gave : row'[c] = x.by
        /\ \A c \in Column \ x.gave :
              row'[c] = row[c] \/ (c \in x.wrote /\ Holds(c, row'[c], x.from))
    <2>1. ASSUME NEW c \in Column, c \in input.gives
          PROVE  row'[c] = e
      BY <1>2, <1>4, <1>7, <2>1, NoneIsNoGiver DEF Else
    <2>2. ASSUME NEW c \in Column, c \notin input.gives
          PROVE  row'[c] = row[c] \/ (c \in About(input) /\ Holds(c, row'[c], from))
      <3>1. row'[c] = row[c] \/ (c \in About(input) /\ row'[c] = says[c])
        BY <1>4 DEF Else
      <3> QED
        BY <1>7, <2>2, <3>1
    <2> QED
      BY <1>2, <1>6, <2>1, <2>2
  <1>9. row[Short] # None => row'[Short] # None
    BY <1>4, Columns DEF Else
  <1>10. RowFacts'
    <2>1. /\ Types /\ RowFacts /\ row' \in RowType
          /\ x.from <= Len(journal)
          /\ x.state = "ready" => "yes" \in tags'
          /\ x.state = "kept" => tags' = tags
      BY <1>0, <1>4, <1>5, <1>6, <1>7 DEF EInv
    <2> QED
      BY <1>6, <1>8, <1>9, <2>1, WriteFacts
  <1>11. Grows
    <2>1. journal \in Seq(EntryType)
      BY DEF EInv, Types
    <2>2. /\ journal' \in Seq(EntryType) /\ Len(journal') = Len(journal) + 1
          /\ Len(journal) \in Nat
          /\ \A i \in 1..Len(journal) : journal'[i] = journal[i]
          /\ journal'[Len(journal) + 1] = x
      BY <1>6, <2>1, Appended
    <2>3. stateRow' = stateRow \/ x.state # "kept"
      BY <1>5, <1>6
    <2> QED
      BY <2>2, <2>3 DEF Grows
  <1>12. Types'
    <2>1. Shape(e)'
      <3>1. Types /\ edit[e].stage = "built" /\ Built(e)
        BY <1>1 DEF EInv
      <3>4. /\ edit[e] = [stage |-> "built", input |-> edit[e].input,
                         from |-> edit[e].from, says |-> edit[e].says,
                         tags |-> edit[e].tags, tagsFrom |-> edit[e].tagsFrom,
                         listsFrom |-> edit[e].listsFrom]
            /\ edit[e].input \in Input
            /\ edit[e].says \in RowType /\ edit[e].from \in Nat /\ edit[e].tagsFrom \in Nat
            /\ edit[e].listsFrom \in Nat
        BY <3>1, Reading
      <3>5. edit'[e] = [stage |-> "stored", input |-> edit[e].input,
                        from |-> edit[e].from, says |-> edit[e].says,
                        tags |-> edit[e].tags, tagsFrom |-> edit[e].tagsFrom,
                        listsFrom |-> edit[e].listsFrom]
        BY <1>3, <3>4
      <3> QED
        BY <3>4, <3>5 DEF Shape
    <2>2. \A f \in Edit \ {e} : Shape(f)'
      BY <1>3, ShapeKept DEF EInv, Types
    <2> QED
      BY <1>3, <1>4, <1>5, <1>11, <2>1, <2>2 DEF Types, Grows
  <1>13. ASSUME NEW f \in Edit \ {e}
         PROVE  CallFacts(f)'
    BY <1>3, <1>11, FactsKept DEF EInv
  <1>14. CallFacts(e)'
    <2>1. Built(e)
      BY <1>1 DEF Built
    <2> QED
      BY <1>3, <1>11, <2>1, FactsKept DEF EInv
  <1> QED
    BY <1>10, <1>12, <1>13, <1>14 DEF EInv

\* An order from elsewhere replaces what it gives, and all tags.
LEMMA ReplaceStep ==
  ASSUME EInv, NEW by \in Giver, NEW gave \in SUBSET Column, NEW ts,
         Replace(by, gave, ts), edit' = edit
  PROVE  EInv'
  <1>0. PICK n \in Nat : n = Len(journal)
    BY LenProperties DEF EInv, Types
  <1>1. /\ row' \in RowType
        /\ \A c \in Column : row'[c] = IF c \in gave THEN by ELSE row[c]
    BY DEF Replace, EInv, Types, RowType
  <1>2. PICK state :
          /\ state \in {"ready", "kept", "not ready"}
          /\ journal' = Append(journal,
               [by |-> by, gave |-> gave, wrote |-> gave, from |-> n, state |-> state])
          /\ state # "kept"
          /\ state = "ready" => "yes" \in tags'
          /\ stateRow' \in Nat
    <2>1. /\ StateOf(ts) \in {"ready", "not ready"}
          /\ StateOf(ts) = "ready" => "yes" \in ts
      BY DEF StateOf
    <2>2. PICK said : said = StateOf(ts)
      OBVIOUS
    <2>3. /\ tags' = ts /\ stateRow' = n + 1 /\ n \in Nat
          /\ journal' = Append(journal,
               [by |-> by, gave |-> gave, wrote |-> gave, from |-> n, state |-> said])
      BY <1>0, <2>2, LenProperties DEF Replace, Enter, EInv, Types
    <2>4. said \in {"ready", "kept", "not ready"} /\ said # "kept"
      BY <2>1, <2>2
    <2>5. said = "ready" => "yes" \in tags'
      BY <2>1, <2>2, <2>3, Zenon
    <2>6. stateRow' \in Nat
      BY <2>3
    <2> QED
      BY <2>3, <2>4, <2>5, <2>6, Zenon
  <1>3. PICK x \in EntryType :
          /\ journal' = Append(journal, x)
          /\ x.by = by /\ x.gave = gave /\ x.wrote = gave /\ x.from = n
          /\ x.state = state
    <2>1. [by |-> by, gave |-> gave, wrote |-> gave, from |-> n, state |-> state] \in EntryType
      BY <1>2 DEF EntryType
    <2> QED
      BY <1>2, <2>1
  <1>4. row[Short] # None => row'[Short] # None
    BY <1>1, Columns, NoneIsNoGiver
  <1>5. RowFacts'
    <2>1. Types /\ RowFacts
      BY DEF EInv
    <2>2. /\ x.from <= Len(journal)
          /\ \A c \in x.gave : row'[c] = x.by
          /\ \A c \in Column \ x.gave : row'[c] = row[c]
          /\ x.state = "ready" => "yes" \in tags'
          /\ x.state = "kept" => tags' = tags
      <3>1. x.from <= Len(journal)
        BY <1>0, <1>3
      <3>2. \A c \in x.gave : c \in Column /\ row'[c] = x.by
        BY <1>1, <1>3
      <3>3. \A c \in Column \ x.gave : row'[c] = row[c]
        BY <1>1, <1>3
      <3>4. x.state = "ready" \/ x.state = "not ready"
        BY <1>2, <1>3
      <3> QED
        BY <1>2, <1>3, <3>1, <3>2, <3>3, <3>4
    <2> QED
      BY <1>1, <1>3, <1>4, <2>1, <2>2, WriteFacts
  <1>6. Grows
    <2>1. journal \in Seq(EntryType)
      BY DEF EInv, Types
    <2>2. /\ journal' \in Seq(EntryType) /\ Len(journal') = Len(journal) + 1
          /\ Len(journal) \in Nat
          /\ \A i \in 1..Len(journal) : journal'[i] = journal[i]
          /\ journal'[Len(journal) + 1] = x
      BY <1>3, <2>1, Appended
    <2>3. x.state # "kept"
      BY <1>2, <1>3
    <2> QED
      BY <2>2, <2>3 DEF Grows
  <1>7. Types'
    <2>1. \A f \in Edit : Shape(f)'
      BY ShapeKept DEF EInv, Types
    <2> QED
      BY <1>1, <1>2, <1>6, <2>1 DEF EInv, Types, Grows
  <1>8. ASSUME NEW f \in Edit
        PROVE  CallFacts(f)'
    BY <1>6, FactsKept DEF EInv
  <1> QED
    BY <1>5, <1>7, <1>8 DEF EInv

\* A /confirm gives the linked order, or not, and instructions.
LEMMA GivenColumns ==
  ASSUME NEW supplied, NEW linked \in {{}, Linked}, SendConfirm(supplied, linked)
  PROVE  FilledBy(confirm') \in SUBSET Column
  <1>1. confirm'.linked = linked
    BY DEF SendConfirm, Drafts, BuildConfirm
  <1>2. /\ Linked \subseteq Column
        /\ \A side \in Side : <<side, "code">> \in Column /\ <<side, "short_desc">> \in Column
    BY DEF Column
  <1>3. /\ Instructed("start", confirm'.fulfillments[1].start) \subseteq Column
        /\ Instructed("end", confirm'.fulfillments[1].end) \subseteq Column
    BY <1>2 DEF Instructed, Side
  <1> QED
    BY <1>1, <1>2, <1>3 DEF FilledBy

LEMMA PayloadInitially == PayloadInit => EInv
  <1> SUFFICES ASSUME PayloadInit PROVE EInv
    OBVIOUS
  <1>1. /\ journal = <<>> /\ row = [c \in Column |-> None] /\ edit = [e \in Edit |-> Free]
        /\ stateRow = 0
    BY DEF PayloadInit, EditInit
  <1>2. Len(journal) = 0 /\ journal \in Seq(EntryType) /\ 1..0 = {}
    BY <1>1
  <1>3. Types
    BY <1>1, <1>2 DEF Types, RowType, Shape
  <1>4. RowFacts
    BY <1>2 DEF RowFacts, Holds, GivenBy, ReadyBy
  <1>5. \A e \in Edit : CallFacts(e)
    BY <1>1 DEF CallFacts, LoadedFacts, TaggedFacts, BuiltFacts, Built, Free
  <1> QED
    BY <1>3, <1>4, <1>5 DEF EInv

LEMMA PayloadStep == EInv /\ [PayloadNext]_payloadVars => EInv'
  <1> SUFFICES ASSUME EInv, [PayloadNext]_payloadVars PROVE EInv'
    OBVIOUS
  <1>1. ASSUME UNCHANGED editVars
        PROVE  EInv'
    <2>1. /\ row' = row /\ tags' = tags /\ edit' = edit /\ journal' = journal
          /\ stateRow' = stateRow
      BY <1>1 DEF editVars
    <2>2. PICK n \in Nat : n = Len(journal)
      BY LenProperties DEF EInv, Types
    <2>3. Types'
      BY <2>1, ShapeKept DEF EInv, Types
    <2>4. RowFacts'
      BY <2>1 DEF EInv, RowFacts, Holds, GivenBy, ReadyBy
    <2>5. ASSUME NEW e \in Edit
          PROVE  CallFacts(e)'
      <3>1. Grows
        BY <2>1, <2>2 DEF EInv, Types, Grows
      <3> QED
        BY <2>1, <3>1, FactsKept DEF EInv
    <2> QED
      BY <2>3, <2>4, <2>5 DEF EInv
  <1>2. ASSUME NEW supplied, NEW linked \in {{}, Linked}, Confirm(supplied, linked)
        PROVE  EInv'
    <2>1. CASE SendConfirm(supplied, linked) /\ UNCHANGED edit
               /\ Replace("confirm", FilledBy(confirm'), TagsOf(confirm'))
      BY <2>1, GivenColumns, ReplaceStep, Columns
    <2> QED
      BY <1>1, <1>2, <2>1 DEF Confirm
  <1>3. ASSUME NEW gave \in Told, NEW ts, Report(gave, ts)
        PROVE  EInv'
    <2>1. gave \in SUBSET Column
      BY DEF Told, Column, Side
    <2> QED
      BY <1>3, <2>1, ReplaceStep, Columns DEF Report
  <1>4. ASSUME EditStep
        PROVE  EInv'
    BY <1>3, <1>4, LoadStep, ReadTagsStep, BuildStep, CreateStep DEF EditStep
  <1> QED
    BY <1>1, <1>2, <1>4 DEF PayloadNext, payloadVars

------------------------------------------------------------------------------
(* The draft.  BookedAsQuoted compares the /confirm with the two calls on    *)
(* the wire, and the code makes it of two snapshots in the tables: what      *)
(* links them is that a snapshot is its order, but for the names.            *)

OrderParts == {"provider", "locations", "items", "fulfillments", "billing", "payment",
               "quote", "terms", "tags"}

\* An order has its parts, and so have its fulfillments and their ends.
Entire(order) ==
  /\ DOMAIN order = OrderParts
  /\ \A i \in DOMAIN order.fulfillments :
       /\ DOMAIN order.fulfillments[i] = {"id", "type", "start", "end", "tags", "awb"}
       /\ DOMAIN order.fulfillments[i].start = {"place", "person", "instructions", "time"}
       /\ DOMAIN order.fulfillments[i].end = {"place", "person", "instructions", "time"}

\* A stored snapshot says what the order says.
Stored(snapshot, order, name) == initOrders[snapshot] = Extract(order, name)

SentAsOffered ==
  init # None =>
    \E lacks \in Silence :
      init = MapInit(lacks) /\ Stored("init", init, Unless("name", lacks, "search"))

AnsweredAsHeard ==
  onInit # None =>
    /\ init # None
    /\ \E items, fulfillments \in IdList, lacks \in Silence :
         onInit = Answer(items, fulfillments, lacks) /\ Stored("onInit", onInit, SearchName)

DraftFacts ==
  /\ DOMAIN initOrders = {"init", "onInit"}
  /\ SentAsOffered
  /\ AnsweredAsHeard
  /\ confirm # None => onInit # None
  /\ BookedAsQuoted

\* What is stored of an end and fetched again is the end, but for its name and,
\* if it has none, its place.
LEMMA AnEnd ==
  ASSUME NEW side, DOMAIN side = {"place", "person", "instructions", "time"}, NEW name
  PROVE  /\ DOMAIN RebuildSide(Named(side, name)) = {"place", "person", "instructions", "time"}
         /\ RebuildSide(Named(side, name)).place = Else(side.place, Empty)
         /\ RebuildSide(Named(side, name)).person = Else(name, side.person)
         /\ RebuildSide(Named(side, name)).instructions = side.instructions
         /\ RebuildSide(Named(side, name)).time = side.time
  BY DEF RebuildSide, Named

\* What is fetched of a stored order is the order, but for the names.
LEMMA RoundTrip ==
  ASSUME NEW order, Entire(order), NEW name, NEW fetched,
         fetched = Rebuild(Extract(order, name))
  PROVE  /\ \A part \in {"provider", "locations", "items", "quote", "terms", "tags"} :
              fetched[part] = order[part]
         /\ fetched.billing = Else(order.billing, Empty)
         /\ fetched.payment = Else(order.payment, Empty)
         /\ DOMAIN fetched.fulfillments = DOMAIN order.fulfillments
         /\ \A i \in DOMAIN order.fulfillments :
              /\ DOMAIN fetched.fulfillments[i] = {"id", "type", "start", "end", "tags", "awb"}
              /\ fetched.fulfillments[i].id = order.fulfillments[i].id
              /\ fetched.fulfillments[i].type = Else(order.fulfillments[i].type, "default")
              /\ fetched.fulfillments[i].start =
                   RebuildSide(Named(order.fulfillments[i].start, name))
              /\ fetched.fulfillments[i].end =
                   RebuildSide(Named(order.fulfillments[i].end, name))
              /\ fetched.fulfillments[i].tags = order.fulfillments[i].tags
              /\ fetched.fulfillments[i].awb = order.fulfillments[i].awb
  <1> DEFINE stored == Extract(order, name)
  <1>1. /\ DOMAIN stored = OrderParts
        /\ \A part \in OrderParts \ {"fulfillments"} : stored[part] = order[part]
        /\ DOMAIN stored.fulfillments = DOMAIN order.fulfillments
    BY DEF Extract, Entire, OrderParts
  <1>2. ASSUME NEW i \in DOMAIN order.fulfillments
        PROVE  /\ DOMAIN stored.fulfillments[i] = {"id", "type", "start", "end", "tags", "awb"}
               /\ stored.fulfillments[i].start = Named(order.fulfillments[i].start, name)
               /\ stored.fulfillments[i].end = Named(order.fulfillments[i].end, name)
               /\ \A part \in {"id", "type", "tags", "awb"} :
                    stored.fulfillments[i][part] = order.fulfillments[i][part]
    BY DEF Extract, Entire, OrderParts
  <1>3. fetched = Rebuild(stored)
    OBVIOUS
  <1> HIDE DEF stored
  <1>4. /\ DOMAIN fetched = OrderParts
        /\ \A part \in {"provider", "locations", "items", "quote", "terms", "tags"} :
              fetched[part] = stored[part]
        /\ fetched.billing = Else(stored.billing, Empty)
        /\ fetched.payment = Else(stored.payment, Empty)
        /\ DOMAIN fetched.fulfillments = DOMAIN stored.fulfillments
    BY <1>1, <1>3 DEF Rebuild, OrderParts
  <1>5. ASSUME NEW i \in DOMAIN order.fulfillments
        PROVE  /\ DOMAIN fetched.fulfillments[i] = {"id", "type", "start", "end", "tags", "awb"}
               /\ fetched.fulfillments[i].type = Else(stored.fulfillments[i].type, "default")
               /\ fetched.fulfillments[i].start = RebuildSide(stored.fulfillments[i].start)
               /\ fetched.fulfillments[i].end = RebuildSide(stored.fulfillments[i].end)
               /\ \A part \in {"id", "tags", "awb"} :
                    fetched.fulfillments[i][part] = stored.fulfillments[i][part]
    <2>1. fetched.fulfillments =
            [k \in DOMAIN stored.fulfillments |->
               [stored.fulfillments[k] EXCEPT
                  !.type = Else(stored.fulfillments[k].type, "default"),
                  !.start = RebuildSide(stored.fulfillments[k].start),
                  !.end = RebuildSide(stored.fulfillments[k].end)]]
      BY <1>1, <1>3 DEF Rebuild, OrderParts
    <2>2. PICK f : f = stored.fulfillments[i]
      OBVIOUS
    <2>3. fetched.fulfillments[i] =
            [f EXCEPT !.type = Else(f.type, "default"), !.start = RebuildSide(f.start),
                      !.end = RebuildSide(f.end)]
      BY <1>1, <2>1, <2>2
    <2>4. DOMAIN f = {"id", "type", "start", "end", "tags", "awb"}
      BY <1>2, <2>2
    <2> QED
      BY <2>2, <2>3, <2>4
  <1>6. \A part \in {"provider", "locations", "items", "quote", "terms", "tags", "billing",
                     "payment"} : stored[part] = order[part]
    BY <1>1 DEF OrderParts
  <1> QED
    BY <1>1, <1>2, <1>4, <1>5, <1>6

\* The offer and the answer are entire.
LEMMA Offered ==
  ASSUME NEW lacks
  PROVE  Entire(MapInit(lacks))
  BY DEF Entire, MapInit, OrderParts

LEMMA Heard ==
  ASSUME NEW items, NEW fulfillments, NEW lacks
  PROVE  Entire(Answer(items, fulfillments, lacks))
  <1>1. PICK order : order = Answer(items, fulfillments, lacks)
    OBVIOUS
  <1>2. DOMAIN order = OrderParts
    BY <1>1 DEF Answer, OrderParts
  <1>3. order.fulfillments =
          [i \in DOMAIN fulfillments |->
            [ id |-> fulfillments[i], type |-> "lsp",
              start |-> [ place |-> "lsp", person |-> Unless("name", lacks, "lsp"),
                          instructions |-> None, time |-> Unless("time", lacks, "lsp") ],
              end |-> [ place |-> "lsp", person |-> Unless("name", lacks, "lsp"),
                        instructions |-> None, time |-> None ],
              tags |-> Unless("tags", lacks, "lsp"), awb |-> None ]]
    BY <1>1 DEF Answer
  <1>4. ASSUME NEW i \in DOMAIN order.fulfillments
        PROVE  /\ DOMAIN order.fulfillments[i] = {"id", "type", "start", "end", "tags", "awb"}
               /\ DOMAIN order.fulfillments[i].start
                    = {"place", "person", "instructions", "time"}
               /\ DOMAIN order.fulfillments[i].end
                    = {"place", "person", "instructions", "time"}
    <2>1. PICK f : f = order.fulfillments[i]
      OBVIOUS
    <2>2. f = [ id |-> fulfillments[i], type |-> "lsp",
                start |-> [ place |-> "lsp", person |-> Unless("name", lacks, "lsp"),
                            instructions |-> None, time |-> Unless("time", lacks, "lsp") ],
                end |-> [ place |-> "lsp", person |-> Unless("name", lacks, "lsp"),
                          instructions |-> None, time |-> None ],
                tags |-> Unless("tags", lacks, "lsp"), awb |-> None ]
      BY <1>3, <2>1
    <2> QED
      BY <2>1, <2>2
  <1> QED
    BY <1>1, <1>2, <1>4 DEF Entire

\* An /on_init lists ids, or nothing.
LEMMA ListedIds ==
  ASSUME NEW ids \in IdList
  PROVE  /\ DOMAIN ids = {} \/ 1 \in DOMAIN ids
         /\ ids = <<>> <=> DOMAIN ids = {}
         /\ \A j \in DOMAIN ids : ids[j] \in Id
  <1>1. ids \in Seq(Id)
    BY IdListAssumption
  <1>2. DOMAIN ids = 1..Len(ids) /\ Len(ids) \in Nat
    BY <1>1
  <1>3. ids = <<>> <=> Len(ids) = 0
    BY <1>1, EmptySeq
  <1> QED
    BY <1>1, <1>2, <1>3

\* Rows in any order are the rows.
LEMMA Rows ==
  ASSUME NEW rows, NEW given \in AnyOrder(rows)
  PROVE  /\ DOMAIN given = DOMAIN rows
         /\ \A i \in DOMAIN rows : \E j \in DOMAIN rows : given[i] = rows[j]
         /\ \A j \in DOMAIN rows : \E i \in DOMAIN rows : given[i] = rows[j]
  <1>1. PICK place \in [DOMAIN rows -> DOMAIN rows] :
          /\ \A j \in DOMAIN rows : \E i \in DOMAIN rows : place[i] = j
          /\ given = [i \in DOMAIN rows |-> rows[place[i]]]
    BY DEF AnyOrder
  <1> QED
    BY <1>1

\* Spread leaves no part out, and gives those of the second that are there.
LEMMA SpreadParts ==
  ASSUME NEW a, NEW b
  PROVE  /\ DOMAIN Spread(a, b) = DOMAIN a
         /\ \A part \in DOMAIN a : Spread(a, b)[part] = Else(b[part], a[part])
  BY DEF Spread

\* Of one stored part, mergeById makes what Theirs says of it.
LEMMA MergedOne ==
  ASSUME NEW stored, DOMAIN stored = {1},
         NEW theirs, 1 \in DOMAIN theirs, NEW supplied \in AnyOrder(theirs)
  PROVE  /\ DOMAIN MergeById(stored, supplied) = {1}
         /\ \E j \in DOMAIN theirs :
              /\ MergeById(stored, supplied)[1] = Spread(stored[1], theirs[j])
              /\ \/ theirs[j].id = stored[1].id
                 \/ \A k \in DOMAIN theirs : theirs[k].id # stored[1].id
  <1>1. /\ DOMAIN supplied = DOMAIN theirs
        /\ \A i \in DOMAIN theirs : \E j \in DOMAIN theirs : supplied[i] = theirs[j]
        /\ \A j \in DOMAIN theirs : \E i \in DOMAIN theirs : supplied[i] = theirs[j]
    BY Rows
  <1>2. PICK one, merged : one = stored[1] /\ merged = MergeById(stored, supplied)[1]
    OBVIOUS
  <1>3. CASE \E i \in DOMAIN supplied : supplied[i].id = one.id
    <2>1. PICK i : i = CHOOSE k \in DOMAIN supplied : supplied[k].id = one.id
      OBVIOUS
    <2>2. i \in DOMAIN supplied /\ supplied[i].id = one.id
      BY <1>3, <2>1
    <2>3. merged = Spread(one, supplied[i])
      BY <1>2, <1>3, <2>1 DEF MergeById
    <2>4. PICK j \in DOMAIN theirs : supplied[i] = theirs[j]
      BY <1>1, <2>2
    <2> QED
      BY <1>2, <2>2, <2>3, <2>4 DEF MergeById
  <1>4. CASE ~\E i \in DOMAIN supplied : supplied[i].id = one.id
    <2>1. merged = Spread(one, supplied[1])
      BY <1>1, <1>2, <1>4 DEF MergeById
    <2>2. PICK j \in DOMAIN theirs : supplied[1] = theirs[j]
      BY <1>1
    <2>3. \A k \in DOMAIN theirs : theirs[k].id # one.id
      BY <1>1, <1>4
    <2> QED
      BY <1>2, <2>1, <2>2, <2>3 DEF MergeById
  <1> QED
    BY <1>3, <1>4

\* With nothing to merge, it stays what it is.
LEMMA MergedNone ==
  ASSUME NEW stored, DOMAIN stored = {1},
         NEW theirs, DOMAIN theirs = {}, NEW supplied \in AnyOrder(theirs)
  PROVE  /\ DOMAIN MergeById(stored, supplied) = {1}
         /\ MergeById(stored, supplied)[1] = stored[1]
  <1>1. DOMAIN supplied = {}
    BY Rows
  <1>2. PICK merged : merged = MergeById(stored, supplied)
    OBVIOUS
  <1>3. merged[1] = stored[1] /\ DOMAIN merged = {1}
    BY <1>1, <1>2 DEF MergeById
  <1> QED
    BY <1>2, <1>3

\* Either way the merged part is made of one that may stand for it.
LEMMA MergedParts ==
  ASSUME NEW stored, DOMAIN stored = {1},
         NEW theirs, DOMAIN theirs = {} \/ 1 \in DOMAIN theirs,
         NEW supplied \in AnyOrder(theirs)
  PROVE  /\ DOMAIN MergeById(stored, supplied) = {1}
         /\ DOMAIN MergeById(stored, supplied)[1] = DOMAIN stored[1]
         /\ \E quoted \in Theirs(theirs, stored[1]) :
              \A part \in DOMAIN stored[1] :
                MergeById(stored, supplied)[1][part] = Else(quoted[part], stored[1][part])
  <1>1. PICK one, merged : one = stored[1] /\ merged = MergeById(stored, supplied)
    OBVIOUS
  <1>2. CASE DOMAIN theirs = {}
    <2>1. DOMAIN merged = {1} /\ merged[1] = one
      BY <1>1, <1>2, MergedNone
    <2>2. one \in Theirs(theirs, one)
      BY <1>2 DEF Theirs
    <2>3. \A part \in DOMAIN one : one[part] = Else(one[part], one[part])
      BY DEF Else
    <2> QED
      BY <1>1, <1>2, <2>1, <2>2, <2>3
  <1>3. CASE 1 \in DOMAIN theirs
    <2>1. PICK j \in DOMAIN theirs :
            /\ DOMAIN merged = {1} /\ merged[1] = Spread(one, theirs[j])
            /\ \/ theirs[j].id = one.id
               \/ \A k \in DOMAIN theirs : theirs[k].id # one.id
      BY <1>1, <1>3, MergedOne
    <2>2. PICK quoted : quoted = theirs[j]
      OBVIOUS
    <2>3. quoted \in Theirs(theirs, one)
      BY <1>3, <2>1, <2>2 DEF Theirs
    <2>4. /\ DOMAIN Spread(one, quoted) = DOMAIN one
          /\ \A part \in DOMAIN one : Spread(one, quoted)[part] = Else(quoted[part], one[part])
      BY SpreadParts
    <2> QED
      BY <1>1, <2>1, <2>2, <2>3, <2>4
  <1> QED
    BY <1>2, <1>3

\* What is fetched of a stored order, in whatever order its rows come.
LEMMA FetchedOrder ==
  ASSUME NEW snapshot, NEW order, NEW name, Stored(snapshot, order, name), Entire(order),
         NEW rebuilt, rebuilt = Rebuild(Extract(order, name)),
         NEW fetched \in Fetched(snapshot)
  PROVE  /\ \A part \in {"provider", "locations", "quote", "terms", "tags"} :
              fetched[part] = order[part]
         /\ fetched.billing = Else(order.billing, Empty)
         /\ fetched.payment = Else(order.payment, Empty)
         /\ fetched.items \in AnyOrder(order.items)
         /\ fetched.fulfillments \in AnyOrder(rebuilt.fulfillments)
  <1>1. PICK items \in AnyOrder(rebuilt.items), fulfillments \in AnyOrder(rebuilt.fulfillments) :
          fetched = [rebuilt EXCEPT !.items = items, !.fulfillments = fulfillments]
    <2>1. fetched \in Arranged(rebuilt)
      BY DEF Fetched, Stored
    <2>2. PICK items \in AnyOrder(rebuilt.items),
               fulfillments \in AnyOrder(rebuilt.fulfillments) :
            fetched = WithRows(rebuilt, items, fulfillments)
      BY <2>1, SMT DEF Arranged
    <2> QED
      BY <2>2 DEF WithRows
  <1>2. DOMAIN rebuilt = OrderParts
    BY DEF Rebuild, Extract, Entire
  <1>3. /\ \A part \in OrderParts \ {"items", "fulfillments"} : fetched[part] = rebuilt[part]
        /\ fetched.items = items /\ fetched.fulfillments = fulfillments
    BY <1>1, <1>2 DEF OrderParts
  <1>4. /\ \A part \in {"provider", "locations", "items", "quote", "terms", "tags"} :
              rebuilt[part] = order[part]
        /\ rebuilt.billing = Else(order.billing, Empty)
        /\ rebuilt.payment = Else(order.payment, Empty)
    BY RoundTrip
  <1> QED
    BY <1>3, <1>4 DEF OrderParts

\* One part is a sequence of one.
LEMMA Single ==
  ASSUME NEW f, f = [i \in DOMAIN f |-> f[i]], DOMAIN f = {1}
  PROVE  Len(f) = 1
  <1>1. f = [i \in 1..1 |-> f[i]]
    OBVIOUS
  <1> QED
    BY <1>1

\* A fulfillment of the call changes no more than the way-bill, the time, the
\* instructions and the tags of the order's.
LEMMA SuppliedMerged ==
  ASSUME NEW fulfillments, NEW i \in DOMAIN fulfillments,
         DOMAIN fulfillments[i] = {"id", "type", "start", "end", "tags", "awb"},
         DOMAIN fulfillments[i].start = {"place", "person", "instructions", "time"},
         DOMAIN fulfillments[i].end = {"place", "person", "instructions", "time"},
         NEW supplied \in Supplied \cup {None}
  PROVE  /\ DOMAIN MergeSupplied(fulfillments, supplied) = DOMAIN fulfillments
         /\ LET merged == MergeSupplied(fulfillments, supplied)[i]
            IN /\ merged.id = fulfillments[i].id
               /\ merged.type = fulfillments[i].type
               /\ merged.start.place = fulfillments[i].start.place
               /\ merged.start.person = fulfillments[i].start.person
               /\ merged.end.place = fulfillments[i].end.place
               /\ merged.tags \in {"yes", "no", Empty, fulfillments[i].tags}
  <1>1. PICK f, merged : f = fulfillments[i] /\ merged = MergeSupplied(fulfillments, supplied)[i]
    OBVIOUS
  <1>2. DOMAIN MergeSupplied(fulfillments, supplied) = DOMAIN fulfillments
    BY DEF MergeSupplied
  <1>3. CASE supplied = None \/ supplied.id # f.id
    <2>1. merged = f
      BY <1>1, <1>3 DEF MergeSupplied
    <2> QED
      BY <1>1, <1>2, <2>1
  <1>4. CASE ~(supplied = None \/ supplied.id # f.id)
    <2>1. supplied.tags \in {None, Empty, "yes", "no"}
      BY <1>4 DEF Supplied
    <2>2. PICK time, first, last, awb :
            /\ time = Given("time", supplied, f.start.time)
            /\ first = Given("start", supplied, f.start.instructions)
            /\ last = Given("end", supplied, f.end.instructions)
            /\ awb = Given("awb", supplied, f.awb)
      OBVIOUS
    <2>3. PICK start, end :
            /\ start = [f.start EXCEPT !.time = time, !.instructions = first]
            /\ end = [f.end EXCEPT !.instructions = last]
      OBVIOUS
    <2>4. merged = [f EXCEPT !.awb = awb, !.start = start, !.end = end,
                             !.tags = Else(supplied.tags, f.tags)]
      BY <1>1, <1>4, <2>2, <2>3 DEF MergeSupplied
    <2>5. start.place = f.start.place /\ start.person = f.start.person
          /\ end.place = f.end.place
      BY <1>1, <2>3
    <2>6. /\ merged.id = f.id /\ merged.type = f.type /\ merged.end = end
          /\ merged.start = start /\ merged.tags = Else(supplied.tags, f.tags)
      BY <1>1, <2>4
    <2>7. merged.tags \in {"yes", "no", Empty, f.tags}
      BY <2>1, <2>6 DEF Else
    <2> QED
      BY <1>1, <1>2, <2>5, <2>6, <2>7
  <1> QED
    BY <1>3, <1>4

LEMMA EndOf ==
  ASSUME NEW place, NEW person, NEW time, NEW name
  PROVE  RebuildSide(Named([ place |-> place, person |-> person, instructions |-> None,
                             time |-> time ], name))
           = [ place |-> Else(place, Empty), person |-> Else(name, person),
               instructions |-> None, time |-> time ]
  <1>1. PICK side : side = [ place |-> place, person |-> person, instructions |-> None,
                             time |-> time ]
    OBVIOUS
  <1>2. Named(side, name)
          = [ place |-> place, person |-> Else(name, person), instructions |-> None,
              time |-> time ]
    BY <1>1 DEF Named
  <1>3. PICK named : named = Named(side, name)
    OBVIOUS
  <1>4. RebuildSide(named)
          = [ place |-> Else(place, Empty), person |-> Else(name, person),
              instructions |-> None, time |-> time ]
    BY <1>2, <1>3 DEF RebuildSide
  <1> QED
    BY <1>1, <1>3, <1>4

\* Nobody who says something is None or Empty.
LEMMA NotAbsent ==
  /\ "search" # None /\ "catalog" # None /\ "client" # None /\ "lsp" # None
  /\ "default" # None /\ Empty # None /\ "lsp" # Empty /\ "client" # Empty
  BY NoneIsNobody DEF Who, Empty

\* A /confirm is made of what is stored, and what is stored of what was said.
LEMMA BookedOne ==
  ASSUME DraftFacts, NEW supplied \in Supplied \cup {None}, NEW linked,
         SendConfirm(supplied, linked)
  PROVE  BookedAsQuoted'
  <1>1. /\ init # None /\ onInit # None
        /\ init' = init /\ onInit' = onInit /\ initOrders' = initOrders
    BY DEF SendConfirm, DraftFacts, AnsweredAsHeard
  <1>2. PICK lacks, name :
          init = MapInit(lacks) /\ Stored("init", init, name) /\ name \in {None, "search"}
    BY <1>1 DEF DraftFacts, SentAsOffered, Unless
  <1>3. PICK items \in IdList, fulfillments \in IdList, silent \in Silence :
          onInit = Answer(items, fulfillments, silent) /\ Stored("onInit", onInit, SearchName)
    BY <1>1 DEF DraftFacts, AnsweredAsHeard
  <1>4. PICK ours \in Fetched("init"), theirs \in Fetched("onInit") :
          confirm' = BuildConfirm(Merge(ours, theirs), supplied, linked)
    BY DEF SendConfirm, Drafts
  <1>5. PICK merged :
          merged = Merge(ours, theirs) /\ confirm' = BuildConfirm(merged, supplied, linked)
    BY <1>4
  <1>6. Entire(init) /\ Entire(onInit)
    BY <1>2, <1>3, Offered, Heard
  <1>7. PICK own, answer :
          /\ own = Rebuild(Extract(init, name))
          /\ answer = Rebuild(Extract(onInit, SearchName))
    OBVIOUS
  <1>8. /\ \A part \in {"provider", "locations", "quote", "terms", "tags"} :
              ours[part] = init[part] /\ theirs[part] = onInit[part]
        /\ ours.billing = Else(init.billing, Empty) /\ ours.payment = Else(init.payment, Empty)
        /\ theirs.billing = Else(onInit.billing, Empty)
        /\ theirs.payment = Else(onInit.payment, Empty)
        /\ ours.items \in AnyOrder(init.items)
        /\ theirs.items \in AnyOrder(onInit.items)
        /\ ours.fulfillments \in AnyOrder(own.fulfillments)
        /\ theirs.fulfillments \in AnyOrder(answer.fulfillments)
    BY <1>2, <1>3, <1>6, <1>7, FetchedOrder
  <1>9. \A part \in {"provider", "locations", "billing", "payment", "quote", "terms"} :
          confirm'[part] = Else(onInit[part], init[part])
    <2>1. /\ confirm'.provider = theirs.provider
          /\ confirm'.locations = Else(theirs.locations, ours.locations)
          /\ confirm'.billing = Prefer(theirs.billing, ours.billing)
          /\ confirm'.payment = Prefer(theirs.payment, ours.payment)
          /\ confirm'.quote = Else(theirs.quote, ours.quote)
          /\ confirm'.terms = Else(theirs.terms, ours.terms)
      BY <1>5 DEF BuildConfirm, Merge
    <2>2. /\ onInit.provider = "lsp" /\ onInit.payment = "lsp"
          /\ onInit.billing \in {None, "lsp"}
          /\ init.billing = "client" /\ init.payment = "client"
      BY <1>2, <1>3 DEF Answer, MapInit, Unless
    <2>3. confirm'.provider = Else(onInit.provider, init.provider)
      BY <1>8, <2>1, <2>2, NotAbsent DEF Else
    <2>4. confirm'.billing = Else(onInit.billing, init.billing)
      BY <1>8, <2>1, <2>2, NotAbsent DEF Else, Prefer
    <2>5. confirm'.payment = Else(onInit.payment, init.payment)
      BY <1>8, <2>1, <2>2, NotAbsent DEF Else, Prefer
    <2> QED
      BY <1>8, <2>1, <2>3, <2>4, <2>5
  <1>10. /\ Len(confirm'.items) = 1
         /\ \E quoted \in Theirs(onInit.items, init.items[1]) :
              \A part \in DOMAIN confirm'.items[1] :
                confirm'.items[1][part] = Else(quoted[part], init.items[1][part])
    <2>1. confirm'.items = MergeById(ours.items, theirs.items)
      BY <1>5 DEF BuildConfirm, Merge
    <2>2. /\ DOMAIN init.items = {1}
          /\ DOMAIN onInit.items = {} \/ 1 \in DOMAIN onInit.items
      <3>1. DOMAIN onInit.items = DOMAIN items
        BY <1>3 DEF Answer
      <3> QED
        BY <1>2, <3>1, ListedIds DEF MapInit
    <2>3. DOMAIN ours.items = {1} /\ ours.items[1] = init.items[1]
      BY <1>8, <2>2, Rows
    <2>4. PICK a, b, c, m :
           a = ours.items /\ b = theirs.items /\ c = onInit.items /\ m = MergeById(a, b)
      OBVIOUS
    <2>5. /\ DOMAIN a = {1} /\ b \in AnyOrder(c) /\ m = confirm'.items
          /\ DOMAIN c = {} \/ 1 \in DOMAIN c
      BY <1>8, <2>1, <2>2, <2>3, <2>4
    <2>6. /\ DOMAIN m = {1}
          /\ DOMAIN m[1] = DOMAIN a[1]
          /\ \E quoted \in Theirs(c, a[1]) :
              \A part \in DOMAIN a[1] : m[1][part] = Else(quoted[part], a[1][part])
      <3>1. m = MergeById(a, b)
        BY <2>4
      <3>2. /\ DOMAIN MergeById(a, b) = {1}
            /\ DOMAIN MergeById(a, b)[1] = DOMAIN a[1]
            /\ \E quoted \in Theirs(c, a[1]) :
                \A part \in DOMAIN a[1] :
                  MergeById(a, b)[1][part] = Else(quoted[part], a[1][part])
        BY <2>5, MergedParts
      <3> QED
        BY <3>1, <3>2
    <2>7. m = [i \in DOMAIN m |-> m[i]]
      BY <2>4 DEF MergeById
    <2>8. Len(m) = 1
      BY <2>6, <2>7, Single
    <2> QED
      BY <2>3, <2>4, <2>5, <2>6, <2>8
  <1>11. PICK stored : stored = merged.fulfillments
    OBVIOUS
  <1>12. /\ DOMAIN onInit.fulfillments = DOMAIN fulfillments
         /\ DOMAIN fulfillments = {} \/ 1 \in DOMAIN fulfillments
         /\ DOMAIN answer.fulfillments = DOMAIN fulfillments
         /\ \A j \in DOMAIN fulfillments :
              answer.fulfillments[j].id = onInit.fulfillments[j].id
    <2>1. DOMAIN onInit.fulfillments = DOMAIN fulfillments
      BY <1>3 DEF Answer
    <2> QED
      BY <1>6, <1>7, <2>1, RoundTrip, ListedIds
  <1>13. PICK base :
           /\ DOMAIN ours.fulfillments = {1} /\ base = ours.fulfillments[1]
           /\ DOMAIN base = {"id", "type", "start", "end", "tags", "awb"}
           /\ base.id = Chosen /\ base.type = "catalog"
           /\ base.tags = init.fulfillments[1].tags
           /\ base.start = RebuildSide(Named(init.fulfillments[1].start, name))
           /\ base.end = RebuildSide(Named(init.fulfillments[1].end, name))
    <2>1. /\ DOMAIN init.fulfillments = {1} /\ init.fulfillments[1].id = Chosen
          /\ init.fulfillments[1].type = "catalog"
      BY <1>2 DEF MapInit
    <2>2. /\ DOMAIN own.fulfillments = {1} /\ own.fulfillments[1].id = Chosen
          /\ DOMAIN own.fulfillments[1] = {"id", "type", "start", "end", "tags", "awb"}
          /\ own.fulfillments[1].type = Else("catalog", "default")
          /\ own.fulfillments[1].tags = init.fulfillments[1].tags
          /\ own.fulfillments[1].start = RebuildSide(Named(init.fulfillments[1].start, name))
          /\ own.fulfillments[1].end = RebuildSide(Named(init.fulfillments[1].end, name))
      BY <1>6, <1>7, <2>1, RoundTrip
    <2>3. DOMAIN ours.fulfillments = {1} /\ ours.fulfillments[1] = own.fulfillments[1]
      BY <1>8, <2>2, Rows
    <2>4. Else("catalog", "default") = "catalog"
      BY NotAbsent DEF Else
    <2> QED
      BY <2>2, <2>3, <2>4
  <1>14. PICK offered :
           /\ offered = init.fulfillments[1] /\ offered.id = Chosen /\ offered.type = "catalog"
           /\ DOMAIN offered.start = {"place", "person", "instructions", "time"}
           /\ DOMAIN offered.end = {"place", "person", "instructions", "time"}
           /\ offered.start.place = "search" /\ offered.end.place = "search"
           /\ offered.start.person = None
    BY <1>2 DEF MapInit
  <1>s. stored = MergeById(ours.fulfillments, theirs.fulfillments)
    BY <1>5, <1>11 DEF Merge
  <1>16. SearchName \in {None, "search"} /\ SearchName = Else(name, None)
    <2>1. /\ init.fulfillments[1].start.person = None
          /\ DOMAIN init.fulfillments[1].start = {"place", "person", "instructions", "time"}
          /\ 1 \in DOMAIN init.fulfillments
          /\ DOMAIN init.fulfillments[1] = {"id", "type", "start", "end", "tags", "awb"}
      BY <1>2 DEF MapInit
    <2>2. SearchName = Extract(init, name).fulfillments[1].start.person
      BY <1>2 DEF SearchName, Stored
    <2>3. Extract(init, name).fulfillments[1].start = Named(init.fulfillments[1].start, name)
      BY <1>6, <2>1 DEF Extract, Entire, OrderParts
    <2>4. SearchName = Else(name, None)
      BY <2>1, <2>2, <2>3 DEF Named
    <2> QED
      BY <1>2, <2>4 DEF Else
  <1> DEFINE Ends == {"place", "person", "instructions", "time"}
             Shows(quoted) ==
               /\ DOMAIN stored[1] = {"id", "type", "start", "end", "tags", "awb"}
               /\ DOMAIN stored[1].start = Ends /\ DOMAIN stored[1].end = Ends
               /\ stored[1].id = quoted.id /\ stored[1].type = quoted.type
               /\ stored[1].start.place = quoted.start.place
               /\ stored[1].end.place = quoted.end.place
               /\ stored[1].start.person = Else(SearchName, quoted.start.person)
               /\ stored[1].tags = Else(quoted.tags, init.fulfillments[1].tags)
  <1>17. ASSUME DOMAIN fulfillments = {}
         PROVE  /\ DOMAIN stored = {1}
                /\ \E quoted \in Theirs(onInit.fulfillments, offered) : Shows(quoted)
    <2>1. DOMAIN stored = {1} /\ stored[1] = base
      <3>1. PICK a, b, c :
              a = ours.fulfillments /\ b = theirs.fulfillments /\ c = answer.fulfillments
        OBVIOUS
      <3>2. DOMAIN a = {1} /\ DOMAIN c = {} /\ b \in AnyOrder(c) /\ a[1] = base
        BY <1>8, <1>12, <1>13, <1>17, <3>1
      <3>3. DOMAIN MergeById(a, b) = {1} /\ MergeById(a, b)[1] = a[1]
        BY <3>2, MergedNone
      <3> QED
        BY <1>s, <3>1, <3>2, <3>3
    <2>2. offered \in Theirs(onInit.fulfillments, offered)
      BY <1>12, <1>17 DEF Theirs
    <2>3. /\ DOMAIN base.start = Ends /\ DOMAIN base.end = Ends
          /\ base.start.place = Else(offered.start.place, Empty)
          /\ base.end.place = Else(offered.end.place, Empty)
          /\ base.start.person = Else(name, offered.start.person)
      <3>1. PICK first, last : first = offered.start /\ last = offered.end
        OBVIOUS
      <3>2. /\ DOMAIN first = Ends /\ DOMAIN last = Ends
            /\ base.start = RebuildSide(Named(first, name))
            /\ base.end = RebuildSide(Named(last, name))
        BY <1>13, <1>14, <3>1
      <3> QED
        BY <3>1, <3>2, AnEnd
    <2>4. Else("search", Empty) = "search" /\ Else(SearchName, None) = Else(name, None)
      BY <1>16, NotAbsent DEF Else
    <2>5. Else(offered.tags, offered.tags) = offered.tags
      BY DEF Else
    <2>6. Shows(offered)
      BY <1>13, <1>14, <2>1, <2>3, <2>4, <2>5
    <2> QED
      BY <2>1, <2>2, <2>6
  <1>18. ASSUME 1 \in DOMAIN fulfillments
         PROVE  /\ DOMAIN stored = {1}
                /\ \E quoted \in Theirs(onInit.fulfillments, offered) : Shows(quoted)
    <2>1. PICK j \in DOMAIN fulfillments :
            /\ DOMAIN stored = {1}
            /\ stored[1] = Spread(base, answer.fulfillments[j])
            /\ \/ answer.fulfillments[j].id = Chosen
               \/ \A k \in DOMAIN fulfillments : answer.fulfillments[k].id # Chosen
      <3>1. PICK a, b, c :
              a = ours.fulfillments /\ b = theirs.fulfillments /\ c = answer.fulfillments
        OBVIOUS
      <3>2. /\ DOMAIN a = {1} /\ 1 \in DOMAIN c /\ b \in AnyOrder(c) /\ a[1] = base
            /\ a[1].id = Chosen /\ DOMAIN c = DOMAIN fulfillments
        BY <1>8, <1>12, <1>13, <1>18, <3>1
      <3>3. /\ DOMAIN MergeById(a, b) = {1}
            /\ \E j \in DOMAIN c :
                 /\ MergeById(a, b)[1] = Spread(a[1], c[j])
                 /\ \/ c[j].id = a[1].id
                    \/ \A k \in DOMAIN c : c[k].id # a[1].id
        BY <3>2, MergedOne
      <3> QED
        BY <1>s, <3>1, <3>2, <3>3
    <2>2. PICK quoted, heard : quoted = onInit.fulfillments[j] /\ heard = answer.fulfillments[j]
      OBVIOUS
    <2>3. quoted \in Theirs(onInit.fulfillments, offered)
      BY <1>12, <1>14, <2>1, <2>2 DEF Theirs
    <2>4. /\ quoted.id \in Id /\ quoted.type = "lsp"
          /\ quoted.start.place = "lsp" /\ quoted.end.place = "lsp"
          /\ quoted.start = [ place |-> "lsp", person |-> quoted.start.person,
                              instructions |-> None, time |-> quoted.start.time ]
          /\ quoted.end = [ place |-> "lsp", person |-> quoted.end.person,
                            instructions |-> None, time |-> None ]
          /\ quoted.start.person \in {None, "lsp"} /\ quoted.end.person \in {None, "lsp"}
          /\ quoted.start.time \in {None, "lsp"}
      <3>1. /\ j \in DOMAIN fulfillments /\ fulfillments[j] \in Id
            /\ quoted =
                 [ id |-> fulfillments[j], type |-> "lsp",
                   start |-> [ place |-> "lsp", person |-> Unless("name", silent, "lsp"),
                               instructions |-> None, time |-> Unless("time", silent, "lsp") ],
                   end |-> [ place |-> "lsp", person |-> Unless("name", silent, "lsp"),
                             instructions |-> None, time |-> None ],
                   tags |-> Unless("tags", silent, "lsp"), awb |-> None ]
        BY <1>3, <2>1, <2>2, ListedIds DEF Answer
      <3>2. /\ Unless("name", silent, "lsp") \in {None, "lsp"}
            /\ Unless("time", silent, "lsp") \in {None, "lsp"}
        BY DEF Unless
      <3>3. quoted.id \in Id /\ quoted.type = "lsp"
        BY <3>1
      <3>4. quoted.start = [ place |-> "lsp", person |-> Unless("name", silent, "lsp"),
                             instructions |-> None, time |-> Unless("time", silent, "lsp") ]
        BY <3>1
      <3>5. quoted.end = [ place |-> "lsp", person |-> Unless("name", silent, "lsp"),
                           instructions |-> None, time |-> None ]
        BY <3>1
      <3> QED
        BY <3>2, <3>3, <3>4, <3>5
    <2>5. /\ DOMAIN heard = {"id", "type", "start", "end", "tags", "awb"}
          /\ heard.id = quoted.id /\ heard.type = Else(quoted.type, "default")
          /\ heard.start = RebuildSide(Named(quoted.start, SearchName))
          /\ heard.end = RebuildSide(Named(quoted.end, SearchName))
          /\ heard.tags = quoted.tags
      BY <1>6, <1>7, <1>12, <2>1, <2>2, RoundTrip
    <2>6. /\ heard.start.place = "lsp" /\ heard.end.place = "lsp"
          /\ heard.start.person = Else(SearchName, quoted.start.person)
          /\ heard.start # None /\ heard.end # None
      <3>1. PICK person : person = SearchName
        OBVIOUS
      <3>2. Else("lsp", Empty) = "lsp"
        BY NotAbsent DEF Else
      <3>3. heard.start = [ place |-> "lsp", person |-> Else(person, quoted.start.person),
                            instructions |-> None, time |-> quoted.start.time ]
        <4>1. PICK p, t : p = quoted.start.person /\ t = quoted.start.time
          OBVIOUS
        <4>2. RebuildSide(Named([ place |-> "lsp", person |-> p, instructions |-> None,
                                  time |-> t ], person))
                = [ place |-> Else("lsp", Empty), person |-> Else(person, p),
                    instructions |-> None, time |-> t ]
          BY EndOf
        <4> QED
          BY <2>4, <2>5, <3>1, <3>2, <4>1, <4>2
      <3>4. heard.end = [ place |-> "lsp", person |-> Else(person, quoted.end.person),
                          instructions |-> None, time |-> None ]
        <4>1. PICK p : p = quoted.end.person
          OBVIOUS
        <4>2. RebuildSide(Named([ place |-> "lsp", person |-> p, instructions |-> None,
                                  time |-> None ], person))
                = [ place |-> Else("lsp", Empty), person |-> Else(person, p),
                    instructions |-> None, time |-> None ]
          BY EndOf
        <4> QED
          BY <2>4, <2>5, <3>1, <3>2, <4>1, <4>2
      <3>5. /\ Else(person, quoted.start.person) \in Who \cup {None}
            /\ Else(person, quoted.end.person) \in Who \cup {None}
            /\ quoted.start.time \in Who \cup {None} /\ "lsp" \in Who
        BY <2>4, <1>16, <3>1 DEF Else, Who
      <3>6. heard.start # None
        BY <3>3, <3>5, NoneIsNoEnd
      <3>7. heard.end # None
        BY <3>4, <3>5, NoneIsNoEnd
      <3> QED
        BY <3>1, <3>3, <3>4, <3>6, <3>7
    <2>7. /\ DOMAIN stored = {1}
          /\ stored = [i \in DOMAIN stored |-> stored[i]]
          /\ DOMAIN stored[1] = {"id", "type", "start", "end", "tags", "awb"}
          /\ stored[1].id = quoted.id /\ stored[1].type = quoted.type
          /\ stored[1].start = heard.start /\ stored[1].end = heard.end
          /\ stored[1].tags = Else(quoted.tags, init.fulfillments[1].tags)
      <3>1. /\ DOMAIN stored[1] = {"id", "type", "start", "end", "tags", "awb"}
            /\ \A part \in {"id", "type", "start", "end", "tags", "awb"} :
                 stored[1][part] = Else(heard[part], base[part])
        <4>1. PICK booked : booked = stored[1]
          OBVIOUS
        <4>2. /\ DOMAIN base = {"id", "type", "start", "end", "tags", "awb"}
              /\ booked = Spread(base, heard)
          BY <1>13, <2>1, <2>2, <4>1
        <4>3. /\ DOMAIN booked = DOMAIN base
              /\ \A part \in DOMAIN base : booked[part] = Else(heard[part], base[part])
          BY <4>2, SpreadParts
        <4> QED
          BY <4>1, <4>2, <4>3
      <3>2. /\ stored[1].id = Else(heard.id, base.id)
            /\ stored[1].type = Else(heard.type, base.type)
            /\ stored[1].start = Else(heard.start, base.start)
            /\ stored[1].end = Else(heard.end, base.end)
            /\ stored[1].tags = Else(heard.tags, base.tags)
        BY <3>1
      <3>3. stored[1].id = quoted.id
        BY <2>4, <2>5, <3>2, NoneIsNoId DEF Else
      <3>4. stored[1].type = quoted.type
        BY <2>4, <2>5, <3>2, NotAbsent DEF Else
      <3>5. stored[1].start = heard.start /\ stored[1].end = heard.end
        BY <2>6, <3>2 DEF Else
      <3>6. stored = [i \in DOMAIN stored |-> stored[i]]
        BY <1>5, <1>11 DEF Merge, MergeById
      <3> QED
        BY <1>13, <2>1, <2>5, <3>1, <3>2, <3>3, <3>4, <3>5, <3>6
    <2>8. DOMAIN stored[1].start = Ends /\ DOMAIN stored[1].end = Ends
      BY <2>4, <2>5, <2>7, AnEnd
    <2> QED
      BY <2>3, <2>4, <2>6, <2>7, <2>8
  <1>19. PICK quoted \in Theirs(onInit.fulfillments, offered) :
           /\ DOMAIN stored = {1} /\ Shows(quoted)
    BY <1>12, <1>17, <1>18
  <1>20. PICK sent : sent = MergeSupplied(stored, supplied)
    OBVIOUS
  <1>21. confirm'.fulfillments = sent
    BY <1>5, <1>11, <1>20 DEF BuildConfirm
  <1>22. /\ DOMAIN stored[1].start = {"place", "person", "instructions", "time"}
         /\ DOMAIN stored[1].end = {"place", "person", "instructions", "time"}
    BY <1>19
  <1>23. /\ DOMAIN sent = {1} /\ sent = [i \in DOMAIN sent |-> sent[i]]
         /\ sent[1].id = stored[1].id /\ sent[1].type = stored[1].type
         /\ sent[1].start.place = stored[1].start.place
         /\ sent[1].start.person = stored[1].start.person
         /\ sent[1].end.place = stored[1].end.place
         /\ sent[1].tags \in {"yes", "no", Empty, stored[1].tags}
    <2>1. sent = [i \in DOMAIN sent |-> sent[i]]
      BY <1>20 DEF MergeSupplied
    <2>2. /\ DOMAIN MergeSupplied(stored, supplied) = DOMAIN stored
          /\ LET one == MergeSupplied(stored, supplied)[1]
             IN /\ one.id = stored[1].id
                /\ one.type = stored[1].type
                /\ one.start.place = stored[1].start.place
                /\ one.start.person = stored[1].start.person
                /\ one.end.place = stored[1].end.place
                /\ one.tags \in {"yes", "no", Empty, stored[1].tags}
      <3>1. 1 \in DOMAIN stored
        BY <1>19
      <3>2. DOMAIN stored[1] = {"id", "type", "start", "end", "tags", "awb"}
        BY <1>19
      <3> QED
        BY <1>22, <3>1, <3>2, SuppliedMerged, Zenon
    <2> QED
      BY <1>19, <1>20, <2>1, <2>2
  <1>24. Len(sent) = 1
    BY <1>23, Single
  <1>25. /\ sent[1].id = quoted.id /\ sent[1].type = quoted.type
         /\ sent[1].start.place = quoted.start.place
         /\ sent[1].end.place = quoted.end.place
         /\ sent[1].start.person = Else(SearchName, quoted.start.person)
         /\ sent[1].tags \in {"yes", "no", Empty, Else(quoted.tags, init.fulfillments[1].tags)}
    BY <1>19, <1>23
  <1>26. onInit.tags \cup {"bap_terms"} = confirm'.tags
    <2>1. /\ confirm'.tags = merged.tags \cup {"bap_terms"}
          /\ merged.tags = IF theirs.tags = {} THEN ours.tags ELSE theirs.tags
      BY <1>5 DEF BuildConfirm, Merge, Accepting
    <2>2. init.tags = {}
      BY <1>2 DEF MapInit
    <2> QED
      BY <1>8, <2>1, <2>2
  <1>27. SearchName' = SearchName
    BY <1>1 DEF SearchName
  <1> QED
    BY <1>1, <1>9, <1>10, <1>14, <1>21, <1>24, <1>25, <1>26, <1>27 DEF BookedAsQuoted

LEMMA DraftInitially == PayloadInit => DraftFacts
  BY DEF PayloadInit, DraftInit, DraftFacts, SentAsOffered, AnsweredAsHeard, BookedAsQuoted

LEMMA Sending ==
  ASSUME DraftFacts, NEW lacks \in Silence, SendInit(lacks)
  PROVE  DraftFacts'
  <1>1. init = None /\ onInit = None /\ confirm = None
    BY DEF DraftFacts, AnsweredAsHeard, SendInit
  <1>2. /\ init' = MapInit(lacks) /\ onInit' = None /\ confirm' = None
        /\ DOMAIN initOrders' = {"init", "onInit"}
        /\ Stored("init", init, Unless("name", lacks, "search"))'
    BY <1>1 DEF SendInit, Write, Stored, DraftFacts
  <1>3. SentAsOffered'
    BY <1>2 DEF SentAsOffered
  <1> QED
    BY <1>2, <1>3 DEF DraftFacts, AnsweredAsHeard, BookedAsQuoted

LEMMA Receiving ==
  ASSUME DraftFacts, NEW items \in IdList, NEW fulfillments \in IdList, NEW lacks \in Silence,
         ReceiveOnInit(items, fulfillments, lacks)
  PROVE  DraftFacts'
  <1>1. init # None /\ onInit = None /\ confirm = None
    BY DEF DraftFacts, ReceiveOnInit
  <1>2. /\ init' = init /\ confirm' = None
        /\ onInit' = Answer(items, fulfillments, lacks)
        /\ DOMAIN initOrders' = {"init", "onInit"}
        /\ initOrders'["init"] = initOrders["init"]
        /\ initOrders'["onInit"] = Extract(Answer(items, fulfillments, lacks), SearchName)
    BY <1>1 DEF ReceiveOnInit, Write, DraftFacts
  <1>3. SentAsOffered'
    BY <1>2 DEF SentAsOffered, Stored, DraftFacts
  <1>4. AnsweredAsHeard'
    <2>1. SearchName' = SearchName
      BY <1>2 DEF SearchName
    <2>2. Stored("onInit", onInit, SearchName)'
      BY <1>2, <2>1 DEF Stored
    <2> QED
      BY <1>1, <1>2, <2>2 DEF AnsweredAsHeard
  <1> QED
    BY <1>2, <1>3, <1>4 DEF DraftFacts, BookedAsQuoted

\* What is stored is not touched by a /confirm, nor by the edits.
LEMMA DraftKept ==
  ASSUME DraftFacts, UNCHANGED <<init, onInit, initOrders>>
  PROVE  /\ SentAsOffered' /\ AnsweredAsHeard' /\ DOMAIN initOrders' = {"init", "onInit"}
         /\ UNCHANGED confirm => BookedAsQuoted'
  BY DEF DraftFacts, SentAsOffered, AnsweredAsHeard, Stored, SearchName, BookedAsQuoted

LEMMA DraftStep == DraftFacts /\ [PayloadNext]_payloadVars => DraftFacts'
  <1> SUFFICES ASSUME DraftFacts, [PayloadNext]_payloadVars PROVE DraftFacts'
    OBVIOUS
  <1>1. ASSUME Drafting PROVE DraftFacts'
    BY <1>1, Sending, Receiving DEF Drafting
  <1>2. ASSUME NEW supplied \in Supplied \cup {None}, NEW linked, Confirm(supplied, linked)
        PROVE  DraftFacts'
    <2>1. CASE SendConfirm(supplied, linked)
      <3>1. UNCHANGED <<init, onInit, initOrders>> /\ onInit' # None
        BY <2>1 DEF SendConfirm
      <3> QED
        BY <2>1, <3>1, BookedOne, DraftKept DEF DraftFacts
    <2>2. CASE RefuseConfirm(supplied, linked)
      <3>1. UNCHANGED <<init, onInit, initOrders>> /\ UNCHANGED confirm
        BY <2>2 DEF RefuseConfirm
      <3> QED
        BY <3>1, DraftKept DEF DraftFacts
    <2> QED
      BY <1>2, <2>1, <2>2 DEF Confirm
  <1>3. ASSUME UNCHANGED draftVars PROVE DraftFacts'
    <2>1. UNCHANGED <<init, onInit, initOrders>> /\ UNCHANGED confirm
      BY <1>3 DEF draftVars
    <2> QED
      BY <2>1, DraftKept DEF DraftFacts
  <1> QED
    BY <1>1, <1>2, <1>3 DEF PayloadNext, payloadVars

------------------------------------------------------------------------------
(* The theorems.                                                           *)

THEOREM Inductive == PayloadSpec => []EInv
  BY PayloadInitially, PayloadStep, PTL DEF PayloadSpec

\* What somebody gave for a column of the order stays until somebody gives
\* another value, or an update that had read the order before writes it back.
THEOREM WhatIsGivenStays == PayloadSpec => []EditsStand
  <1>1. EInv => EditsStand
    <2>1. ASSUME EInv
          PROVE  EditsStand
      <3>1. PICK n \in Nat : n = Len(journal)
        BY <2>1, LenProperties DEF EInv, Types
      <3>2. DOMAIN journal = 1..n /\ \A i \in 1..n : journal[i].gave \in SUBSET Column
        <4>1. journal \in Seq(EntryType)
          BY <2>1 DEF EInv, Types
        <4>2. DOMAIN journal = 1..n /\ \A i \in 1..n : journal[i] \in EntryType
          BY <3>1, <4>1
        <4> QED
          BY <4>2 DEF EntryType
      <3>3. \A c \in Column : Holds(c, row[c], n)
        BY <2>1, <3>1 DEF EInv, RowFacts
      <3> QED
        BY <3>1, <3>2, <3>3, Zenon DEF Holds, EditsStand
    <2> QED
      BY <2>1
  <1> QED
    BY <1>1, Inductive, PTL

\* Every update after the one that made the parcel ready repeats it, unless the
\* state tag is inserted again between the two queries for it, and repeats the
\* pick-up instruction with it.
THEOREM ReadyStays == PayloadSpec => []ReadyIsRepeated
  <1>1. EInv => ReadyIsRepeated
    BY DEF EInv, CallFacts, BuiltFacts, GivenBy, Short, ReadyIsRepeated
  <1> QED
    BY <1>1, Inductive, PTL

\* The /confirm says what the /on_init said and, where that was silent, what our
\* /init said, though both have gone through the tables.
THEOREM BookedQuoted == PayloadSpec => []BookedAsQuoted
  <1>1. DraftFacts => BookedAsQuoted
    BY DEF DraftFacts
  <1> QED
    BY <1>1, DraftInitially, DraftStep, PTL DEF PayloadSpec
===============================================================================
