# Verification of the ONDC logistics buyer application

The repository is the buyer side (BAP) of ONDC logistics: one Node process in
front of a Postgres database. Its own clients call `POST /logistics/{search,
init,confirm,update,status,track,cancel,issue,issue_status}`. Each call is
forwarded over the network to a gateway or a logistics provider (LSP, the BPP),
which acknowledges it and answers later, on its own initiative, with
`POST /on_{search,init,...}`. The results go to the client over server-sent
events. This directory holds TLA+ modules that model the parts of this program
whose correctness depends on the order in which things happen, TLC runs that
check them, and proofs, checked by TLAPS, of what holds for any number of
clients, LSPs and messages. Paths below are relative to the repository.

## The system

### One call, one callback

All outbound actions have one shape. A service reads what it needs from the
database, builds the payload, has its repository insert a row in
`ondc_transactions` with status `pending`, awaits the transport
(`src/utils/ondc-requests.ts`: an attempt and `ONDC_ACK_RETRIES` repetitions,
each with a time-out), and writes the status `sent`, or `failed` if anything in
the `try` threw. The callback is verified by two middlewares, looked up,
deduplicated, checked and written in one database transaction; after the commit
events are pushed to the client.

What makes this hard:

* Every `await` is a point where any other request may run. Only
  `database.transaction` blocks are atomic. Almost every handler reads, awaits
  and then acts on what it read.
* A callback can overtake the answer of the call it belongs to: the LSP may
  answer before its ACK has reached us, and before `sent` is written.
* A time-out does not mean that the LSP did not get the request.
* LSPs repeat callbacks, may answer late, twice, or under a `message_id` of
  their own.
* Nothing is resumed after a restart. Queues, the map from transactions to
  connected clients and held events are in memory.

### Components

| component | state it keeps | operations | correct when |
| --- | --- | --- | --- |
| Search and ingestion (`services/search`, `services/on-search`, their repositories) | search row, `on_search_callbacks`, `search_providers` and children; the `setImmediate` queue | `/search`, stage + ACK of `/on_search`, ingestion, `getSearchOptions` | an ACK means staged; one catalog per callback; staged catalogs are ingested |
| Booking (`services/init`, `services/confirm`, their repositories) | init and confirm rows, two snapshots per `/init`, `logistics_order` | `/init`, `/on_init`, `/confirm`, `/on_confirm` | an order rests on a quote; one order per transaction; rows and orders agree |
| Order changes (`services/{update,status,track,cancel}`, their repositories, `logistics-order-shared`) | request rows, the columns and tags of the order | four calls, four callbacks, polling endpoints | what the order says was said by its LSP; each request's outcome is recorded once |
| Issues (`services/issue`, `repositories/issue`) | issue row, the two action logs | `/issue` open/close/escalate, `/issue_status`, two callbacks | logs only grow, echoes are not duplicated, what is sent is what is on record |
| Deferred callback stream (`utils/streams/callback-stream`) | per request: pending, released or discarded, and a queue | `push`, `releaseAfterAck`, `discard` | no event before its ACK; in order; all or none |
| Client, order, search streams (`utils/streams/{client,order,search}-*`) | in-memory maps of clients and responses | subscribe, bind, publish, close | events go to the transaction's client, once; each close takes away only what is its own |
| Outbound transport (`utils/ondc-requests`, `utils/ondc-transport`) | none between calls | sign, send, retry | ends in the time its configuration gives it; attempts can be told apart |
| Registry and signatures (`services/registry`, `utils/crypto`, signature middleware) | key cache with a time to live | look-up, verify | a key is used only as long as the registry vouches for it |
| Context check of callbacks (middleware) | none | refuse mismatched contexts | stateless |
| Mapping and validation (`mappers`, `schemas`, `utils/*-validation`) | none | request to payload, payload to rows | nothing given is lost or invented on the way |
| Demo flows, logging, observability, startup | none that the service reads | | |

The components share the database and, through the streams, the client. The
processing order of the controllers matters: `/on_search`, `/on_init` and
`/on_confirm` are processed first (`/on_search` as far as the staging) and then
acknowledged, so a failure gives the LSP a 503 and a reason to repeat; `/on_update`,
`/on_status`, `/on_track`, `/on_cancel`, `/on_issue` and `/on_issue_status` are
acknowledged first and processed in the background, so a failure is only logged.

## The modules

| module | models | role |
| --- | --- | --- |
| `OrderBook` | | abstract: what booking promises about orders |
| `Booking` | `/init`, `/on_init`, `/confirm`, `/on_confirm`: services, repositories, controllers, the transport's outcome | implements `OrderBook` |
| `CatalogShelf` | | abstract: what the ingestion promises per callback |
| `SearchIngestion` | `/search`, `/on_search`: services, repositories, controller | implements `CatalogShelf` |
| `OrderLedger` | | abstract: what the post-order calls promise about an order |
| `OrderRecord` | `/update`, `/status`, `/track`, `/cancel` and their callbacks: services, repositories, controllers, the transport's outcome | implements `OrderLedger` |
| `IssueLog` | | abstract: two logs that grow, the respondent sent beginnings of ours |
| `Issue` | `/issue`, `/issue_status` and their callbacks: service, repository, mapper, controller | implements `IssueLog` |
| `Absent`, `Draft` | the mappers from the offer to the `/confirm`, and the `init_*` tables in between | |
| `OrderEdits` | the mappers of `/update` and `applyUpdate` | |
| `OrderPayload` | | composes `Draft` and `OrderEdits` |
| `AckedDelivery` | | abstract: what the event stream promises |
| `CallbackStream` | `utils/streams/callback-stream.ts`, the controllers' use of it | |
| `ClientStreams` | the client, order and search streams | |
| `EventDelivery` | | composes `CallbackStream` and `ClientStreams`, implements `AckedDelivery` |
| `Timers` | the clock | |
| `Transport` | the attempts of `utils/ondc-requests.ts` | |
| `KeyCache` | `services/registry.service.ts`, the signature middleware | |
| `Exchange` | | composes `Transport` and `KeyCache` on one clock |
| `*Proofs` | | theorems about the module of that name |
| `MC*` | | small instances and symmetry for TLC |

`Booking`, `SearchIngestion`, `OrderRecord` and `Issue` do not contain the
transport, the verification of signatures or the streams. They keep of them what
a handler can see: a request reaches its LSP (`Reach`) or not, the call of the
transport ends in `SendOk` or `SendFails`, and an event is published.

Definitions marked "Faulty" are not part of the specifications: they are the
bugs used to make sure that each property can fail (see `PROJECT.json`).

### CallbackStream

One stream per callback request. `state` and `queue` are the fields of
`DeferredCallbackStream`; `hooked` says that the `finish` and `close` listeners
are installed; `answer` and `resp` are the HTTP response as the controller and
as the runtime see it; `emitted` counts the pushes of the handler and `sink` is
what the client stream got. `Push`, `WriteAck` (with `releaseAfterAck`),
`WriteNack` (with `discard`), `Finish` and `Drop` are the entry points. Handlers
of both kinds are covered: those in `ProcessFirst` push before the answer, the
others after it.

### Booking

`initRow`, `confRow` and `order` are the tables. A row is reduced to what
control depends on: its status, its transaction and LSP, whether it has been
answered (`callback_message_id`), and the identity of the quote stored for it. An
order is identified by the `/init` it was made from and the quote it carries.
`phase` and `load` are the local variables of the service functions: `/confirm` reads
an init row, then the rows of its snapshots, then their children, then an existing
order, in queries of their own, and other requests run in between (`ReadInit`,
`ReadSnapshots`, `ReadChildren`, `ReadOrder`, `CreateConfirm`). An `/on_init` deletes and inserts
the snapshot it replaces, so the children of one that was read before may be gone:
`by` says which callback wrote a snapshot, `whole` whether what was read of it is all
of it (`Fetched`). `received` is the network: the requests that have
reached their LSP, which `Reach` can make true even after we have given up on
them. `job` are the callbacks between their look-up and their commit and between
their commit and their ACK. `UpdateStatus` writes all rows of the action in the
transaction because the code does. `Crash` forgets calls, callbacks and the map
of clients.

Callbacks that the code refuses (other LSP, no order, wrong order id) or takes
for duplicates change no state; they are guards. A call that is refused by
validation before anything is stored is only modelled where another request can
run in between (`RejectConfirm`).

### SearchIngestion

`status` and `phase` are as above; `callback` and `catalogs` are the two tables
(`catalogs` counts, so that a second ingestion would be seen). `job` holds the
deliveries between the look-up and the staging and between the staging and the
update of the search row, `queue` is the `setImmediate` queue, `fresh` are the
callbacks whose commit has returned but whose events are not yet published.
`broken` records for which callbacks a write failed; it is a history variable
that only the liveness property reads.

### OrderRecord

One order after `/confirm`. `status`, `answer` and `ask` are the rows of our
calls in `ondc_transactions` (status, what the recorded callback says, action and
`message_id`), `audit` the rows written for `/on_cancel` callbacks nobody asked
for. `order` has the columns of `logistics_order` that the properties tell apart:
the state, `cancellation_status`, whether the tracking columns are set, and
`details`, which stands for what an `/update` writes (instructions,
authorization, the `ready_to_ship` tag, the linked order): the calls some of it was
written by. Absent columns are left alone by an update of the table, so a later write
replaces what some of these calls left, any of them (`Overwritten`). An `/on_track` need
not have a tracking. The four calls have one shape and share their actions (`Load`, `Find`,
`Insert`, `SendOk`, `MarkSent`, ...); `KindOf` decides where the repositories
differ, such as `/update` changing the order before it sends and `/cancel` writing
`cancellation_status` with the row's status. The callbacks do differ, so each
kind has its own commit: `/on_update` and `/on_track` go to the row they were
matched with, `/on_status` to every row of a `/status` that says `sent`,
`/on_cancel` to all rows of the request. They are acknowledged first, so a failing
transaction (`CommitFails`) or a restart loses the callback. A callback may
report any state of the order, in any order and any number of times.

Two calls may be one request: the client chooses the `message_id`. The look for
an earlier row (`Find`) and the insert are separate queries without a unique
index, so `OneRowPerRequest` needs `SerialClient`, the client's promise to wait
for one attempt before it makes the next.

### Issue

One issue, and the opening of others for the same order (`Twin`), of which only the row
of the request is kept: a call that opens an issue draws an id of its own and then
looks for a row of its request, and a second one under the same `message_id` that
overlaps it opens a second issue, which the callbacks of the first can complete.
`ActedOnce` is about the requests that close or escalate, where the index on the actions
decides. `issue` is its row, `ours` and `theirs` are the rows of `issue_actions`
of the two sides, in the order of their ids (`complainant-<n>`,
`respondent-<n>`): a place in the sequence is an `action_id`, and the unique index on
it is `PlaceIsFree` and `Fits`. `findByIssueId` reads the row and then the
actions (`ReadRow`, `ReadActions`), the look for a retry is a third query (`Find`),
and only `Act` writes; `read` is what the call has in hand meanwhile. `payload` is
what it sends, `received` what the respondent has got. A callback reads the ids
that are stored (`ReadIds`) and inserts what is new (`Commit`); its echo of our
actions is one of the payloads the respondent has got, its own actions are a
beginning of `Reply`, which stands for what the respondent does. The status and
the level are whatever was written last (`NextStatus`, `NextLevel`), by a callback
word for word (`Patched`): `Status` and `Level` have the respondent's words besides ours,
and a callback may leave either out or give one that contradicts the log.

The respondent is taken to echo what it was sent and to number its actions from
one log, which is how the code reads `respondent_actions`; a callback that lists
them in the flat `actions` array goes the same way. A `resolution_provider` that
collides is a failing `Commit`.

### Draft, OrderEdits and OrderPayload

These are about data, so their values are not strings but who gave them. `Draft`
follows an order from the offer through our `/init`, the tables (`Write`,
`Fetched`), the `/on_init` and the merge that makes the `/confirm`; the part of an
order is `None` where the code has `undefined` and `Empty` where it has `{}`,
because the code tells them apart (`Prefer`). Items and fulfillments come back from
the tables in `AnyOrder`. `OrderEdits` has the columns and tags of `logistics_order`
that an `/update` reads and writes (`Create`), and the callbacks that replace them
(`Report`). It reads the order (`Load`), the rows of its tags (`ReadTags`) and the list
of each tag (`Build`) by different queries; a state tag that is deleted and inserted
between the last two is found without its list, and is neither "yes" nor "no"
(`Listed`, `stateRow`). `journal` is a history variable: who
wrote what, and how much of the journal had been written when it was read.
`OrderPayload` puts one after the other: what is confirmed is what is then edited.

### ClientStreams and EventDelivery

`clients` and `bound` are the two maps of `ClientStreamManager`, `subscribers` that of
the legacy streams; `wire` is what has been written to a connection, `missed` what
`push` found no client for. A connection is the next event-stream request,
whoever makes it. In `EventDelivery` every step of `CallbackStream` writes what
it lets through to the connection of the callback's client in the same step, as
the code does in one turn of the event loop; what handlers publish on the legacy
streams is written at once, before the ACK or after it. Of two open connections
of a client only the newer is served, and when it closes the older one is not
taken back: `OpenIsRegistered` says so.

### Transport, KeyCache and Exchange

Time is a number, and `Pass` lets it run while no timer is due. `Transport` is
`sendOndcRequest` for several requests. An attempt ends by an answer, by its time-out
or that of its connection, after which the next follows at once (`TimeOut`), by a connection
that breaks, after which there is a pause (`GetNothing`), or before it is sent, if signing it throws
(`SendInit`, `Attempt`): `copies` are the attempts on the network
with their `context.timestamp`, `reply` is what the counterparty said to each,
heard only while its attempt is waited for. `KeyCache` has the registry (`latest`,
`from`, `until`), the entries of the cache and the verifications in progress; an
answer of the registry says what was so when it was asked (`Consult`) and is used
later (`Return`). `Exchange` lets a callback come in once an attempt has been
accepted, perhaps one that was given up. A time-out of zero, which axios takes
for none, is excluded by `DurationsAssumption`.

## The runs

| run | instance | question |
| --- | --- | --- |
| `BookingReinit` | two `/init`, two LSPs, two quotes, one `/confirm`, one restart, callbacks one at a time | does the order rest on a quote of its LSP, do quotes stand, does the order carry the standing quote |
| `BookingRetry` | one `/init`, two `/confirm` one after the other, LSP `message_id`s, failing status writes, one restart | one order per transaction, rows and orders agree, refinement of `OrderBook` |
| `BookingHandlers` | one `/init`, one `/confirm`, two deliveries of callbacks at once, two quotes, failing commits, fairness | shown is stored, submissions end |
| `OrderRecord` | two calls of any kinds, an unsolicited `/on_cancel`, one callback at a time, failing writes, one restart | order and protocol log agree, one row per request, refinement of `OrderLedger` |
| `OrderCallbacks` | one call, an unsolicited `/on_cancel`, two callbacks at once, failing writes, fairness | told is on record, calls end |
| `Issue` | an open issue, two calls of any kind at once under their own or one `message_id`, one callback at a time, errors and a status word of the respondent's own, one action of the respondent, one restart | our log is true, a request acts once, refinement of `IssueLog` |
| `IssueCallbacks` | two openings under one `message_id`, an unsolicited callback, two callbacks at once that close and dispute the issue, two actions of the respondent, failing writes, fairness | the respondent's log is true, calls end |
| `OrderPayload` | three ids, an `/on_init` that has none, ours alone, ours behind another, or two others; a `/confirm` that gives nothing, or all it can, of a fulfillment; an offer and an `/on_init` that leave out nothing, all they may, or all but what a `/confirm` needs; then two updates and one callback | does the `/confirm` say what was quoted, do edits stand, is a ready parcel said to be ready |
| `EventDelivery` | two callbacks, one of either kind of controller, two events each, two clients, one watched order, two connections, fairness | no event before its ACK, none lost or repeated, connections registered, refinement of `AckedDelivery` |
| `Exchange` | one `/confirm`, two attempts, two callbacks, one key with two values, five moments | stamps, the length of a send, the life of keys |
| `SearchIngestion` | one search, two callbacks, two handlers, failing writes, one restart | ACK means staged, one catalog, everything is ingested, refinement of `CatalogShelf` |

One run shows where the code does not do what a document of the repository says
(expected: a violation):

| run | statement | what happens |
| --- | --- | --- |
| `BookingLifeCycle` | transactions.md: nothing leads out of `completed` | the LSP takes an `/init` while the call still waits, the `/on_init` is committed, and then the status write that follows the send takes `completed` away: pending, completed, sent if the send was acknowledged, or pending, completed, failed if it was given up |

Both ways are of one length, and which of them TLC reports depends on which it meets
first. The divergence is described, with its quotation, under `findings` in
`PROJECT.json`. More divergences were seen while modelling, some of them listed there too; the models
follow the code, and where a property needs the client's help to hold it says so.

* init.md:37 has `/confirm` use the latest pair of a transaction; the query has no
  ORDER BY, and `ReadInit` takes any.
* The comment at confirm.repository.ts:121 means that no second order is minted.
  Two overlapping `/confirm` calls mint two; `OneOrderPerTransaction` needs
  `SerialClient`.
* The comment at confirm.repository.ts:260 says of retries that each is "currently
  minting its own order id". `loadInitialized`, which it refers to, does not: a retry
  takes up the order of the first attempt (also transactions.md:83), and
  `OneOrderPerTransaction` holds of retries one after the other. What the comment says is
  true only of calls that overlap.
* The comment at update/shared.ts:39 has the tags echoed on every `/update`. They are read
  by two queries, and one whose row is replaced in between comes without its list: a
  parcel that is ready throughout may not be said to be. `ReadyIsRepeated` excepts that.
* Two `/issue` that open an issue under one `message_id` and overlap open two (`Twin`);
  issue.service.ts:131 would have the second be an idempotent retry.
* issues.md:35 and :49 know the statuses `OPEN` and `CLOSED` and the level `ISSUE` for
  a complaint in progress; what an `/on_issue` says is stored word for word
  (`Patched`).
* The comment at callback-stream.ts:64 relies on the retry of a callback to bring
  its discarded events again. The retry of an answered `/on_init` is a duplicate and
  pushes nothing.
* order.md:84 has a confirmed cancellation be `succeeded`; the write of `sent` that
  lands after the `/on_cancel` says `pending` for ever (`Try` in `OrderLedger`).
* issues.md:53 has the service refuse actions of a closed issue. It does so on a
  row read two queries earlier: an escalation that overlaps a close reopens the
  issue, and so does a late callback. `IssueLog` promises only that the status is that
  of our last action or what the respondent has said.
* init.md:36 describes a corrected `/on_init` that replaces the first; the
  duplicate check never lets it through (`FirstAnswerStands` holds).
* init.md:34 says that an `/on_init` with an error leaves no snapshot; the code
  writes one whenever there is an order (init.repository.ts:701), and `Booking`
  models that.
* `docs/architecture/database/search.md`:53 has no callbacks follow a failed
  `/search`. A time-out is a failure too, and then they may: `Accept` takes them.
* order.md:26 has every callback checked against `bpp_id`. `/on_track` is not.
* order.md:87 has the state become `Cancelled` only on a confirmed cancellation.
  `/on_status` and `/on_update` write whatever state they carry (`Reported`), and
  leave `cancellation_status` as it was.
* update.md:184-186 calls a retry of the same `/update` safe. Two that overlap
  are sent twice, see `SerialClient` above.
* A `/issue` that opens an issue and is retried under its `message_id` is answered
  with a new `issueId` that is stored nowhere (issue.service.ts:130-137).
* An `/on_issue` with an error and without `message.issue` is not recorded: the
  request stays `sent`.
* A `/issue` that fails keeps its effect: the issue is closed, or escalated, here
  only.
* init-order-reader.ts:52-56 reads items and fulfillments without ORDER BY, and
  `mergeById` (confirm.mapper.ts:43) falls back to the place in the list: if the
  `/on_init` renames what was ordered, which of its items stands is up to the
  database (`AnyOrder`, `Theirs`).
* confirm.mapper.ts:88-90 has nothing be lost that the `/on_init` omits. The pick-up
  time of the `/init` is: `BookedAsQuoted` leaves it out.
* update.repository.ts:30 has the order always say what was sent. Undefined
  values are skipped and overlapping updates write back what they read.
* flow-kit.ts:19 does not count the pauses between attempts; `LongestSend` does.
* The events of a callback on the legacy streams do not wait for its ACK, and
  errors are not published there at all (`Tell`).

### Bounds, and why they are enough

Transactions, orders and callbacks only interact through rows they share:
`updateStatus` touches the rows of one action in one transaction, `/confirm`
reads one transaction, staging is per callback identity, the post-order calls and
callbacks touch one order. So one transaction is
enough wherever the property does not compare transactions, and the proofs cover
the rest. Two calls of a kind are enough for one to interfere with another; two
LSPs, two quotes and two handlers for the same reason. Each property is paired with a
mutant of the model that TLC refutes within the run's own bounds. The scenarios of the
hazards that name a property happen in the instances of its runs, with one exception: two
`/confirm` that overlap (confirm.repository.ts:123) are kept out by `SerialClient`. Of the
hazards without a property most are steps of the models about which nothing is promised: a late
status, a failing write, events dropped after a restart, a failed `/update` that keeps its effect. Two are in
no instance: calls of one post-order request that overlap (cancel.repository.ts:49), which
`SerialClient` keeps out as well, and a collision of order ids. Their notes say why.
`MaxCrashes`, `MaxPush`
bound counters; `shown` and `catalogs` are counted up to two, since a second one
is already wrong. `MaxOpened`, `MaxClock`, `MaxValue` and `MaxReports` bound the
connections, the clock, the values of a key and the callbacks that carry an
order; `MaxClock` is past `LongestSend` and past `Lag`, so that time-outs and expiry both happen.
`Silence` bounds which parts are left out together, `Giving` which parts of a
fulfillment a `/confirm` gives together, `IdList` the items and fulfillments of
an `/on_init`. Every booking is explored up to its `/confirm`; the constraint
`Plain` of `MCOrderPayload` then follows the edits of those whose `/init` and
`/on_init` were complete, since the row that is edited does not depend on them,
and whose `/confirm` gave all the columns or none and no tags or a ready parcel.
The module itself has no such bound, and neither have the proofs.
`OrderRecord` and `Issue` are explored under a view that leaves out what no step
looks at (what the client was told, what a finished call has read, which status
writes failed), so that states that differ in nothing else are one.

`CHECK_DEADLOCK FALSE` is set because a finished set of calls has nothing left to
do: the system is a server and may be idle.

### Fairness

Liveness properties are checked under weak fairness of what the runtime owes a
request: a promise chain that has been started is continued, a send ends by an
answer or by its time-out, an ACK is written or the connection is found closed, a
`setImmediate` callback is run. Nothing obliges a client to call, the network to
deliver, or an LSP to answer.

## Proofs

| theorem | for any number of | says |
| --- | --- | --- |
| `CallbackStreamProofs!AckOrder`, `PushOrder`, `AllOrNone`, `Refinement` | callbacks and events | the safety promises of the stream; it implements `AckedDelivery` |
| `EventDeliveryProofs!DeliveryAckOrder`, `DeliveryRefines` | the same, with clients and connections that come and go | the promises hold of the composition |
| `EventDeliveryProofs!Registered` | clients, topics, connections | each close takes away only what is its own |
| `EventDeliveryProofs!EventsWrittenOnce` | callbacks, events, clients, connections | every event let through is on one connection or was missed, in order |
| `BookingProofs!TypeCorrect`, `OrdersRest`, `RowsAndOrders` | calls, LSPs, transactions, handlers, restarts | orders rest on quotes, rows and orders agree |
| `BookingProofs!ShownDurable` | the same | the client is shown only what is committed |
| `BookingProofs!FirstAnswers`, `ShownOnce`, `OrdersCarryQuotes` | the same, with `[]OneDeliveryAtATime` | the first answer stands and is shown once, an order carries the quote that stands |
| `BookingProofs!OneOrder` | the same, with `SerialClient` | one order per transaction |
| `BookingProofs!Refinement` | the same | booking implements `OrderBook` |
| `SearchIngestionProofs!TypeCorrect`, `AckedStaged`, `OneCatalog`, `Refinement` | searches, LSPs, handlers, restarts | an ACK means staged, one catalog per callback, it implements `CatalogShelf` |
| `OrderRecordProofs!TypeCorrect`, `OrderAndRows`, `ToldOnRecord`, `Refinement` | calls, requests, callbacks, handlers, failing writes, restarts | order and log agree, told is on record, it implements `OrderLedger` |
| `OrderRecordProofs!OneRow` | the same, with `SerialClient` | a request has one row |
| `OrderPayloadProofs!WhatIsGivenStays`, `ReadyStays` | updates, callbacks, fields of the linked order | a given column stays given, or is written back as it was read; a ready parcel stays ready on the wire, unless its tag is replaced while it is read |
| `OrderPayloadProofs!BookedQuoted` | ids, items and fulfillments of an `/on_init` or none at all, parts left out | the `/confirm` says what was quoted and, else, what was offered |
| `IssueProofs!TypeCorrect`, `LogIsTrue`, `HeardIsTrue`, `LogIsSent`, `ActsOnce` | calls, callbacks, actions of the respondent, failing writes, restarts | the logs are true, what is sent is the log, a request acts once on an issue that is there |
| `IssueProofs!KeepsIssueLog` | the same | the endpoints implement `IssueLog`, whatever words the respondent has for the status |
| `ExchangeProofs!TypeCorrect`, `StampsAlwaysGrow`, `SendEnds` | requests, retries, durations | an attempt is stamped later than the last by the time spent on that one, a send takes no longer than `LongestSend` |
| `ExchangeProofs!GoneKeysDie`, `NewKeysWork` | keys, values, look-ups, times to live | a cached key outlives its registration by no more than `Lag`; a new key is refused no longer than a look-up after it came, or `Lag` after its predecessor went |

The assumptions are the named ASSUMEs of the modules: sets of requests are
disjoint, there are finitely many `/init` calls, bounds are natural numbers, and
`None` is none of the values it is told apart from.

**CallbackStream.** `InPushOrder` is almost inductive. What is missing is why
nothing is pushed in a way that breaks it: a released stream has an empty queue,
a stream is released only after its ACK is finished, and a handler that has been
refused has pushed nothing. `IInv` adds these.

**Booking.** No safety property is inductive, because `/confirm` acts on what it
read several steps earlier. `IInv` says what a call still knows at each stage
(`LoadsAgree`: the init row it read exists and was quoted by its LSP), what a drawn order
id means to others (`OrderIdsAgree`), where confirm rows come from
(`ConfirmRowsAgree`) and what a callback under way may rely on (`JobsAgree`). It
rests on two facts about steps: an init row, once there, keeps its transaction,
LSP and quoted state (`InitRowsKept`), and confirm rows keep all but status and
answer (`ConfirmRowsKept`). `OneOrder` needs more: of the calls in flight at most
one belongs to a transaction, and one that holds an order id holds the only one
there is.

`ShownDurable` needs that what is committed has been answered (`CommittedIsAnswered`)
and that no step takes an answer back (`AnswersKept`). The three theorems about the
standing quote have a hypothesis, because without it they are false of the code: the
duplicate check of `/on_init` reads the row before the transaction that writes it, so
two overlapping deliveries of one `/on_init` both pass, and the second replaces the
quote of the first. `OneDeliveryAtATime` says that no two handlers hold an `/on_init`
of the same `/init`, which is so when the LSP waits for the answer to a delivery before
it repeats it; deliveries for different requests, all of `/on_confirm`, calls,
failures and restarts interleave freely. The run `BookingReinit` has one handler, so
that the hypothesis is true of all its behaviours (lemma `OneHandler`). Under it a
callback that has found its row unanswered still finds it so at its commit
(`FirstInitJobs`); a stored quote therefore never changes, and neither do the terms that
`/confirm` read from it, carries, and writes (`TermsStand`).

**SearchIngestion.** `IInv` says where a callback can be: staged by exactly one
handler, in the queue only when staged, fresh only when processed. Uniqueness of
the staging handler, which the unique index gives, is what makes the catalog
unique.

**OrderRecord.** A callback acts on a row it was matched with earlier, so `IInv`
keeps what it may rely on in between: the row is still the row of a request of
its kind, and what a committed callback is about to tell is on record
(`JobAgrees`). It rests on one fact about all steps (`Kept`): rows, their requests
and their being answered are never taken back, nor is an order's having been
tracked or its having a `cancellation_status`. `OneRow` adds that of the calls
under way one belongs to a request, and that a call that found no row is right
(`OnePerRequest`).

**OrderPayload.** `EditsStand` speaks of the row, but an update writes what it read
before others wrote. `EInv` says the same of what each update holds, over the
journal up to the moment it was read (`LoadedFacts`, `BuiltFacts`): then `Create` either
writes what was given, or a value with its reason in the journal. Columns only: a callback
replaces the tags as a whole. For these, `BuiltFacts` says what the two queries of an update
have found of the state tag if none replaced it in between.

`BookedAsQuoted` relates three messages, and the `/confirm` is made of two snapshots.
`DraftFacts` says that a stored snapshot is `Extract` of the message on the wire, that
the message is one of those that can be sent, and that the snapshots are not touched
afterwards. The rest is about the mappers, one lemma each: what is fetched is the
order, but for names and for empty objects where parts were missing (`RoundTrip`), in
whatever order its rows come (`FetchedOrder`); of one stored part `MergeById` makes what
`Theirs` says of it (`MergedOne`); the client's fulfillment changes only the way-bill, the
time, the instructions and the tags (`SuppliedMerged`). An `/on_init` may
list any number of items and fulfillments, none included, with different ids: the unique indexes of
`init_order_items` and `init_order_fulfillments` let no other be stored (`IdListAssumption`).

**Issue.** A call acts on a log it read two queries earlier, and a callback on what
was once sent. `IInv` says that what was read is a beginning of the log
(`CallFacts`), so that a free place means that it is the whole log; that a call
which found no row of its request, and whose place is free, is right about the row,
because every row that came since took that place; and that a callback echoes
nothing that is not stored (`JobFacts`), so that no echo is ever new. From this
what is sent is the log with the new action behind it (`SentFacts`), and each
`Write` of the code is a `Write` of `IssueLog`.

**EventDelivery.** Every step is a step of `CallbackStream` or leaves its variables
alone (`StreamsInside`), which carries its theorems over. For the connections,
`DInv` says that they are opened in order and that the newest of a client, if it
is open, is the registered one.

`WrittenOnce` follows from what is on the connections: an event let through is carried
by exactly one connection of the unified stream or is missed, nothing else is carried
(`Placed`), and the events of a callback lie there in the order of their numbers
(`Ordered`). A step lets some events through, numbered from the end of `sink` on
(`Numbering`), all in one turn to the one connection of their client, or to none
(`UnifiedWire`): so none of them was placed before, and all come behind what is there.

**Exchange.** A send is bounded because the n-th attempt begins no later than
`Latest(n)` and no timer is passed by (`SendFacts`). `StampsGrow` is about steps: the last
attempt has its stamp from the moment it began, and a pause from when it ended
(`SendFacts`), while the next takes its own from the clock. A withdrawn key dies because an
answer under way was true at some moment since it was asked for (`CheckFacts`),
which puts a limit on the entry made of it (`EntryFacts`), and both on a verdict
(`VerdictFacts`).

Of the properties of the passing runs only liveness is not proved:
`PushedReachesClient`, `EverySubmissionSettles`, `AckedIsIngested`, `EveryCallSettles`
(of two runs). It needs fairness and ENABLED, which the installed prover does not
handle, and stays with TLC. `CompletedIsFinal` is false of the code. Induction over data
is out of reach of the prover too; no module contains a RECURSIVE operator.

## What is not modelled

* **`resolveSelection`** (search.repository.ts), which finds the offer an `/init` picks:
  it only reads, and `Booking` takes any LSP. That a later catalog can make a
  selection ambiguous is therefore not seen.
* **Context check and the other mappers and validations.** Stateless. Where a
  guard of theirs decides which callbacks can be applied, it is a guard of the
  model; the other mappers rename fields one by one.
* **Parts of an issue** besides its actions, status and level: texts, images,
  refunds, participants. They are replaced or merged without a decision of the
  control.
* **The bytes of signatures** and the registry's own protocol; a signature is the
  key it was made with. A callback refused with 401 is not repeated by its sender
  in any model, so it is lost.
* **`searchSseManager.complete`**, which nothing calls, headers and keep-alive comments
  of the streams.
* **Demo flows, logging, observability, startup.** No state of the service.
* **`generateOrderId` collisions.** Fresh ids are taken to be unused, which eight
  hexadecimal digits and a date only make likely. Listed as a hazard.

## Plan

1. Lemmas towards liveness that need no fairness: that nothing under way can be left in
   a stage without a step of the runtime that leaves it, and what each such step brings nearer.
2. `resolveSelection` as an operator against a reference definition.
