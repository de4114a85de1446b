--------------------------------- MODULE Draft ---------------------------------
(***************************************************************************)
(* What one booking says, from the offer that was picked to the order that *)
(* /confirm carries: mappers/init.mapper.ts, init-persistence.mapper.ts    *)
(* and confirm.mapper.ts, with the validation on the way and the init_*    *)
(* tables in between.                                                      *)
(*                                                                         *)
(* Of every part of an order only who said it is told apart: "search" (our *)
(* /search), "catalog" (the /on_search), "client" (the call of /init),     *)
(* "lsp" (the /on_init), "confirm" (the call of /confirm).  None is a part *)
(* that is left out, Empty the object {} that stands for none in the code. *)
(* Parts that go the same way are one: a location and its contact, an      *)
(* item's description, quantity and time.                                  *)
(***************************************************************************)
EXTENDS Absent, Naturals, Sequences

CONSTANTS
  Id,       \* of items and fulfillments
  Chosen,   \* the id of the item and the fulfillment that were picked
  IdList,   \* bound: the lists of ids an /on_init may have
  Silence,  \* bound: the parts an offer, or an /on_init, leaves out at once
  Giving    \* bound: the parts of a fulfillment a /confirm gives at once

ASSUME ChosenAssumption == Chosen \in Id
ASSUME NoneIsNoId == None \notin Id
\* The tables of items and of fulfillments have a unique index on order and id.
\* The validation lets an empty list pass.
ASSUME IdListAssumption ==
  \A ids \in IdList :
    /\ ids \in Seq(Id)
    /\ \A j, k \in DOMAIN ids : ids[j] = ids[k] => j = k

Empty == "{}"
Who == {"search", "catalog", "client", "lsp", "confirm", "default", Empty}

\* What a catalog, or an /on_init, may leave out; with the cancellation terms
\* it leaves out its own tags and the descriptions of the items.
Part == {"locations", "category", "reference", "time", "name", "billing", "terms", "tags"}

\* What a /confirm may give of a fulfillment: its way-bill, its time of pick-up
\* and the instructions for its two ends.
Extra == {"awb", "time", "start", "end"}

ASSUME SilenceAssumption == Silence \subseteq SUBSET Part
ASSUME GivingAssumption == Giving \subseteq SUBSET Extra
ASSUME NoneIsNobody == None \notin Who
\* What is left out is no end of a fulfillment either.
ASSUME NoneIsNoEnd ==
  None \notin [place : Who, person : Who \cup {None}, instructions : {None},
               time : Who \cup {None}]

VARIABLES
  init,        \* the /init on the wire, or None
  onInit,      \* the /on_init that was accepted, or None
  initOrders,  \* the snapshots stored: init_orders and its children, or None
  confirm,     \* the /confirm on the wire, or None
  refused      \* a /confirm was refused by our own validation

draftVars == <<init, onInit, initOrders, confirm, refused>>

DraftInit ==
  /\ init = None /\ onInit = None /\ confirm = None
  /\ initOrders = [init |-> None, onInit |-> None]
  /\ refused = FALSE

Unless(part, lacks, who) == IF part \in lacks THEN None ELSE who

------------------------------------------------------------------------------
(* The /init, and what is stored of an order.                              *)

\* mapInitRequestToOndc: one item and one fulfillment.
MapInit(lacks) ==
  [ provider |-> "catalog",
    locations |-> Unless("locations", lacks, "catalog"),
    items |-> <<[ id |-> Chosen,
                  category |-> Unless("category", lacks, "catalog"),
                  fulfillment |-> Unless("reference", lacks, Chosen),
                  description |-> "catalog" ]>>,
    fulfillments |-> <<[ id |-> Chosen, type |-> "catalog",
      start |-> [ place |-> "search", person |-> None, instructions |-> None,
                  time |-> Unless("time", lacks, "catalog") ],
      end |-> [ place |-> "search", person |-> None, instructions |-> None,
                time |-> None ],
      tags |-> Unless("tags", lacks, "catalog"), awb |-> None ]>>,
    billing |-> "client", payment |-> "client",
    quote |-> None, terms |-> None, tags |-> {} ]

\* extractInitOrder: the names at the two ends are those of the search, if it
\* has them.
Named(side, name) == [side EXCEPT !.person = Else(name, side.person)]

Extract(order, name) ==
  [order EXCEPT !.fulfillments =
     [i \in DOMAIN order.fulfillments |->
        [order.fulfillments[i] EXCEPT
           !.start = Named(order.fulfillments[i].start, name),
           !.end = Named(order.fulfillments[i].end, name)]]]

\* insertInitOrderSnapshot.
Write(snapshot, order, name) ==
  initOrders' = [initOrders EXCEPT ![snapshot] = Extract(order, name)]

\* buildSide: an end has a location, whether one was stored or not.
RebuildSide(side) == [side EXCEPT !.place = Else(side.place, Empty)]

\* buildOndcInitOrder: so has a fulfillment its type and its ends, and an order
\* its billing and its payment.
Rebuild(stored) ==
  [stored EXCEPT
     !.billing = Else(stored.billing, Empty),
     !.payment = Else(stored.payment, Empty),
     !.fulfillments =
       [i \in DOMAIN stored.fulfillments |->
          [stored.fulfillments[i] EXCEPT
             !.type = Else(stored.fulfillments[i].type, "default"),
             !.start = RebuildSide(stored.fulfillments[i].start),
             !.end = RebuildSide(stored.fulfillments[i].end)]]]

\* The rows of a query that asks for no order.
AnyOrder(rows) ==
  {[i \in DOMAIN rows |-> rows[place[i]]] :
     place \in {p \in [DOMAIN rows -> DOMAIN rows] :
                  \A j \in DOMAIN rows : \E i \in DOMAIN rows : p[i] = j}}

WithRows(order, items, fulfillments) ==
  [order EXCEPT !.items = items, !.fulfillments = fulfillments]

Arranged(order) ==
  {WithRows(order, items, fulfillments) :
     items \in AnyOrder(order.items), fulfillments \in AnyOrder(order.fulfillments)}

\* fetchInitOrderSnapshot, and what is made of it.
Fetched(snapshot) == Arranged(Rebuild(initOrders[snapshot]))

\* POST /init, with an offer that lacks some parts.
SendInit(lacks) ==
  /\ init = None
  /\ init' = MapInit(lacks)
  /\ Write("init", MapInit(lacks), Unless("name", lacks, "search"))
  /\ UNCHANGED <<onInit, confirm, refused>>

\* The name the search has is on our own row.
SearchName == initOrders.init.fulfillments[1].start.person

\* The fulfillment the items of an /on_init belong to: its first or, if it lists
\* none, ours.
Delivery(fulfillments) == IF fulfillments = <<>> THEN Chosen ELSE fulfillments[1]

\* An /on_init the validation lets through: what it may leave out is left out,
\* and it may list another item or fulfillment, name ours anew, or list none.
Answer(items, fulfillments, lacks) ==
  [ provider |-> "lsp",
    locations |-> Unless("locations", lacks, "lsp"),
    items |-> [i \in DOMAIN items |->
                 [ id |-> items[i],
                   category |-> Unless("category", lacks, "lsp"),
                   fulfillment |-> Unless("reference", lacks, Delivery(fulfillments)),
                   description |-> Unless("terms", lacks, "lsp") ]],
    fulfillments |-> [i \in DOMAIN fulfillments |->
      [ id |-> fulfillments[i], type |-> "lsp",
        start |-> [ place |-> "lsp", person |-> Unless("name", lacks, "lsp"),
                    instructions |-> None, time |-> Unless("time", lacks, "lsp") ],
        end |-> [ place |-> "lsp", person |-> Unless("name", lacks, "lsp"),
                  instructions |-> None, time |-> None ],
        tags |-> Unless("tags", lacks, "lsp"), awb |-> None ]],
    billing |-> Unless("billing", lacks, "lsp"), payment |-> "lsp",
    quote |-> "lsp",
    terms |-> Unless("terms", lacks, "lsp"),
    tags |-> IF "terms" \in lacks THEN {} ELSE {"bpp_terms"} ]

\* POST /on_init.
ReceiveOnInit(items, fulfillments, lacks) ==
  /\ init # None /\ onInit = None
  /\ onInit' = Answer(items, fulfillments, lacks)
  /\ Write("onInit", Answer(items, fulfillments, lacks), SearchName)
  /\ UNCHANGED <<init, confirm, refused>>

------------------------------------------------------------------------------
(* The /confirm.                                                           *)

\* { ...a, ...b }: the parts b has, and those of a that it has not.
Spread(a, b) == [part \in DOMAIN a |-> Else(b[part], a[part])]

\* mergeById: what is stored, with the one of that id or in that place.
MergeById(stored, supplied) ==
  [i \in DOMAIN stored |->
     IF \E j \in DOMAIN supplied : supplied[j].id = stored[i].id
     THEN Spread(stored[i],
                 supplied[CHOOSE j \in DOMAIN supplied : supplied[j].id = stored[i].id])
     ELSE IF i \in DOMAIN supplied THEN Spread(stored[i], supplied[i]) ELSE stored[i]]

\* Faulty: only a part that is absent falls back, not an empty one.
PreferPresent(a, b) == Else(a, b)

\* preferNonEmpty.
Prefer(a, b) == IF a \in {None, Empty} THEN b ELSE a

\* mergeInitializedOrder.
Merge(ours, theirs) ==
  [ provider |-> theirs.provider,
    locations |-> Else(theirs.locations, ours.locations),
    items |-> MergeById(ours.items, theirs.items),
    fulfillments |-> MergeById(ours.fulfillments, theirs.fulfillments),
    billing |-> Prefer(theirs.billing, ours.billing),
    payment |-> Prefer(theirs.payment, ours.payment),
    quote |-> Else(theirs.quote, ours.quote),
    terms |-> Else(theirs.terms, ours.terms),
    tags |-> IF theirs.tags = {} THEN ours.tags ELSE theirs.tags ]

\* The fulfillment of a /confirm call: its id, what it gives, and its tags, which
\* may be the empty list.
Supplied == [id : Id, gives : Giving, tags : {None, Empty, "yes", "no"}]

\* What the call gives, or what there is.
Given(part, supplied, old) == IF part \in supplied.gives THEN "confirm" ELSE old

\* mergeConfirmFulfillments.
MergeSupplied(fulfillments, supplied) ==
  [i \in DOMAIN fulfillments |->
     IF supplied = None \/ supplied.id # fulfillments[i].id
     THEN fulfillments[i]
     ELSE [fulfillments[i] EXCEPT
             !.awb = Given("awb", supplied, @),
             !.start.time = Given("time", supplied, @),
             !.start.instructions = Given("start", supplied, @),
             !.end.instructions = Given("end", supplied, @),
             !.tags = Else(supplied.tags, @)]]

\* withBapAcceptance.
Accepting(codes) == codes \cup {"bap_terms"}

\* buildConfirmOrder.
BuildConfirm(initialized, supplied, linked) ==
  [ provider |-> initialized.provider,
    locations |-> initialized.locations,
    items |-> initialized.items,
    fulfillments |-> MergeSupplied(initialized.fulfillments, supplied),
    billing |-> initialized.billing,
    payment |-> initialized.payment,
    quote |-> initialized.quote,
    terms |-> initialized.terms,
    tags |-> Accepting(initialized.tags),
    linked |-> linked ]

\* validateBasicOrder, validateWorkbenchFields: every item has a category and
\* belongs to a fulfillment of the order.
Bookable(order) ==
  /\ order.quote # None /\ order.payment # Empty
  /\ \A i \in DOMAIN order.items :
       /\ order.items[i].category # None
       /\ \E j \in DOMAIN order.fulfillments :
            order.items[i].fulfillment = order.fulfillments[j].id

\* The orders a /confirm might carry.
Drafts(supplied, linked) ==
  {BuildConfirm(Merge(ours, theirs), supplied, linked) :
     ours \in Fetched("init"), theirs \in Fetched("onInit")}

\* POST /confirm.
SendConfirm(supplied, linked) ==
  /\ onInit # None /\ confirm = None
  /\ \E draft \in Drafts(supplied, linked) : Bookable(draft) /\ confirm' = draft
  /\ UNCHANGED <<init, onInit, initOrders, refused>>

\* It is refused with 400, and nothing is stored.
RefuseConfirm(supplied, linked) ==
  /\ onInit # None /\ confirm = None
  /\ \E draft \in Drafts(supplied, linked) : ~Bookable(draft)
  /\ refused' = TRUE
  /\ UNCHANGED <<init, onInit, initOrders, confirm>>

------------------------------------------------------------------------------
\* The items, or fulfillments, of the /on_init that may stand for ours: the one
\* with our id or, if there is none, whichever the database gives first.  If
\* it lists none, ours stands for itself.
Theirs(theirs, ours) ==
  LET same == {j \in DOMAIN theirs : theirs[j].id = ours.id}
  IN IF DOMAIN theirs = {} THEN {ours}
     ELSE {theirs[j] : j \in IF same = {} THEN DOMAIN theirs ELSE same}

\* confirm.mapper.ts:220, "initialized ... is authoritative for identity/pricing
\* fields", and 88-90, what /on_init omits "is retained rather than lost": the
\* /confirm says what the /on_init on the wire said and, where that was silent,
\* what our /init said, however it went through the tables; of the client's
\* call it has the linked order, the way-bill, the time, the instructions and
\* the tags, and the names are those of the search.
BookedAsQuoted ==
  confirm # None =>
    /\ \A part \in {"provider", "locations", "billing", "payment", "quote", "terms"} :
         confirm[part] = Else(onInit[part], init[part])
    /\ Len(confirm.items) = 1 /\ Len(confirm.fulfillments) = 1
    /\ \E quoted \in Theirs(onInit.items, init.items[1]) :
         \A part \in DOMAIN confirm.items[1] :
           confirm.items[1][part] = Else(quoted[part], init.items[1][part])
    /\ \E quoted \in Theirs(onInit.fulfillments, init.fulfillments[1]) :
         LET booked == confirm.fulfillments[1]
         IN /\ booked.id = quoted.id /\ booked.type = quoted.type
            /\ booked.start.place = quoted.start.place
            /\ booked.end.place = quoted.end.place
            /\ booked.start.person = Else(SearchName, quoted.start.person)
            /\ booked.tags \in
                 {"yes", "no", Empty, Else(quoted.tags, init.fulfillments[1].tags)}
    /\ onInit.tags \cup {"bap_terms"} = confirm.tags
================================================================================
