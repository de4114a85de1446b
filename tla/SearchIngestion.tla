---------------------------- MODULE SearchIngestion ----------------------------
(***************************************************************************)
(* /search and the catalogs it brings back: services/{search,on-search}.   *)
(* service.ts with their repositories and the /on_search controller.       *)
(*                                                                         *)
(* An LSP answers a search any number of times and repeats what was not    *)
(* acknowledged; a callback is identified by transaction, message_id and   *)
(* bpp_id.  It is staged and acknowledged, then ingested from the          *)
(* setImmediate queue, which lives in the memory of the process.  The      *)
(* lookups of stage() whose rows are never deleted are one step with the   *)
(* lookup of the callback itself, the only one another delivery can        *)
(* overtake.  A callback for an unknown search changes nothing.            *)
(***************************************************************************)
EXTENDS Naturals

CONSTANTS
  Search,     \* the /search calls, each with a transaction of its own
  Answer,     \* an LSP with one of its message_ids
  Handler,    \* /on_search requests processed at the same time
  DbMayFail,  \* TRUE: a write may fail
  MaxCrashes, \* bound: restarts of the process
  None

ASSUME DbSwitchIsBoolean == DbMayFail \in BOOLEAN
ASSUME CrashBoundIsNatural == MaxCrashes \in Nat
ASSUME NoneIsNoJob ==
  None \notin [key : Search \X Answer, stage : {"looked", "staged"}]

Key == Search \X Answer

VARIABLES
  status,    \* of the search row of ondc_transactions
  phase,     \* how far a /search call has come
  received,  \* the searches that have reached the gateway
  callback,  \* the on_search_callbacks rows, by identity
  catalogs,  \* how often the catalog of a callback is in search_providers
  job,       \* the /on_search requests being processed
  queue,     \* the callbacks waiting for their setImmediate
  fresh,     \* those committed and about to be published
  acked,     \* the callbacks the LSP has had an ACK for
  shown,     \* how often the catalog was published to the clients
  broken,    \* the callbacks a write failed for
  crashes

vars == <<status, phase, received, callback, catalogs, job, queue, fresh, acked,
          shown, broken, crashes>>

clientVars == <<phase, received>>
ingestVars == <<queue, fresh, shown, catalogs>>

Init ==
  /\ status = [s \in Search |-> "none"]
  /\ phase = [s \in Search |-> "idle"]
  /\ received = {}
  /\ callback = [k \in Key |-> "none"]
  /\ catalogs = [k \in Key |-> 0]
  /\ job = [h \in Handler |-> None]
  /\ queue = {}
  /\ fresh = {}
  /\ acked = {}
  /\ shown = [k \in Key |-> 0]
  /\ broken = {}
  /\ crashes = 0

SearchOf(k) == k[1]
SetStatus(s, v) == status' = [status EXCEPT ![s] = v]
Move(s, p) == phase' = [phase EXCEPT ![s] = p]

------------------------------------------------------------------------------
(* /search                                                                 *)

CreateSearch(s) ==
  /\ phase[s] = "idle"
  /\ SetStatus(s, "pending")
  /\ Move(s, "sending")
  /\ UNCHANGED <<received, callback, job, ingestVars, acked, broken, crashes>>

\* One of the attempts reaches the gateway, perhaps after we gave up on it.
Reach(s) ==
  /\ status[s] # "none"
  /\ s \notin received
  /\ received' = received \cup {s}
  /\ UNCHANGED <<status, phase, callback, job, ingestVars, acked, broken, crashes>>

SendOk(s) ==
  /\ phase[s] = "sending"
  /\ s \in received
  /\ Move(s, "acked")
  /\ UNCHANGED <<status, received, callback, job, ingestVars, acked, broken, crashes>>

SendFails(s) ==
  /\ phase[s] = "sending"
  /\ Move(s, "refused")
  /\ UNCHANGED <<status, received, callback, job, ingestVars, acked, broken, crashes>>

\* The write of "sent" is inside the try block.
MarkSent(s) ==
  /\ phase[s] = "acked"
  /\ \/ /\ SetStatus(s, "sent")
        /\ Move(s, "done")
     \/ /\ DbMayFail
        /\ Move(s, "refused")
        /\ UNCHANGED status
  /\ UNCHANGED <<received, callback, job, ingestVars, acked, broken, crashes>>

MarkFailed(s) ==
  /\ phase[s] = "refused"
  /\ \/ SetStatus(s, "failed")
     \/ DbMayFail /\ UNCHANGED status
  /\ Move(s, "done")
  /\ UNCHANGED <<received, callback, job, ingestVars, acked, broken, crashes>>

------------------------------------------------------------------------------
(* /on_search, up to the ACK                                               *)

Leave(h) == job' = [job EXCEPT ![h] = None]

\* Faulty: acknowledged before it is staged.
LookUpAndAck(h, k) ==
  /\ job[h] = None
  /\ SearchOf(k) \in received
  /\ acked' = acked \cup {k}
  /\ job' = IF callback[k] # "none" THEN job
            ELSE [job EXCEPT ![h] = [key |-> k, stage |-> "looked"]]
  /\ UNCHANGED <<status, clientVars, callback, ingestVars, broken, crashes>>

\* stage(), the lookups.  A known callback is acknowledged and left alone.
LookUp(h, k) ==
  /\ job[h] = None
  /\ SearchOf(k) \in received
  /\ \/ /\ callback[k] # "none"
        /\ acked' = acked \cup {k}
        /\ UNCHANGED job
     \/ /\ callback[k] = "none"
        /\ job' = [job EXCEPT ![h] = [key |-> k, stage |-> "looked"]]
        /\ UNCHANGED acked
  /\ UNCHANGED <<status, clientVars, callback, ingestVars, broken, crashes>>

\* Faulty: no unique index on the identity of a callback.
StageAgain(h) ==
  /\ job[h] # None
  /\ job[h].stage = "looked"
  /\ callback' = [callback EXCEPT ![job[h].key] = "staged"]
  /\ job' = [job EXCEPT ![h].stage = "staged"]
  /\ UNCHANGED <<status, clientVars, ingestVars, acked, broken, crashes>>

\* stage(), the insert.  The unique index turns away the second of two
\* deliveries that both found nothing: 503, and the LSP repeats it.
Stage(h) ==
  /\ job[h] # None
  /\ job[h].stage = "looked"
  /\ LET k == job[h].key
     IN \/ /\ callback[k] = "none"
           /\ callback' = [callback EXCEPT ![k] = "staged"]
           /\ job' = [job EXCEPT ![h].stage = "staged"]
           /\ UNCHANGED broken
        \/ /\ callback[k] # "none"
           /\ Leave(h)
           /\ UNCHANGED <<callback, broken>>
        \/ /\ DbMayFail
           /\ Leave(h)
           /\ broken' = broken \cup {k}
           /\ UNCHANGED callback
  /\ UNCHANGED <<status, clientVars, ingestVars, acked, crashes>>

\* Faulty: the search takes over the status of its callback.
AcceptAsStaged(h) ==
  /\ job[h] # None
  /\ job[h].stage = "staged"
  /\ SetStatus(SearchOf(job[h].key), "staged")
  /\ queue' = queue \cup {job[h].key}
  /\ acked' = acked \cup {job[h].key}
  /\ Leave(h)
  /\ UNCHANGED <<clientVars, callback, fresh, shown, catalogs, broken, crashes>>

\* Faulty: acknowledged without being queued.
AcceptUnqueued(h) ==
  /\ job[h] # None
  /\ job[h].stage = "staged"
  /\ SetStatus(SearchOf(job[h].key), "received")
  /\ acked' = acked \cup {job[h].key}
  /\ Leave(h)
  /\ UNCHANGED <<clientVars, callback, ingestVars, broken, crashes>>

\* The row of the search is updated; enqueue and the ACK follow in the same
\* turn.  If the update fails the staged row stays: the LSP gets a 503, and
\* its next delivery finds a duplicate.
Accept(h) ==
  /\ job[h] # None
  /\ job[h].stage = "staged"
  /\ LET k == job[h].key
     IN \/ /\ SetStatus(SearchOf(k), "received")
           /\ queue' = queue \cup {k}
           /\ acked' = acked \cup {k}
           /\ UNCHANGED broken
        \/ /\ DbMayFail
           /\ broken' = broken \cup {k}
           /\ UNCHANGED <<status, queue, acked>>
  /\ Leave(h)
  /\ UNCHANGED <<clientVars, callback, fresh, shown, catalogs, crashes>>

------------------------------------------------------------------------------
(* The ingestion                                                           *)

CountUpToTwo(n) == IF n < 2 THEN n + 1 ELSE n

\* Faulty: the callback is marked, then its providers are inserted.
IngestMarksFirst(k) ==
  /\ k \in queue
  /\ callback' = [callback EXCEPT ![k] = "processed"]
  /\ SetStatus(SearchOf(k), "completed")
  /\ queue' = queue \ {k}
  /\ fresh' = fresh \cup {k}
  /\ UNCHANGED <<clientVars, job, acked, shown, catalogs, broken, crashes>>

\* process(): one transaction inserts the providers, marks the callback and
\* completes the search, or leaves nothing behind.
Ingest(k) ==
  /\ k \in queue
  /\ queue' = queue \ {k}
  /\ \/ /\ catalogs' = [catalogs EXCEPT ![k] = CountUpToTwo(@)]
        /\ callback' = [callback EXCEPT ![k] = "processed"]
        /\ SetStatus(SearchOf(k), "completed")
        /\ fresh' = fresh \cup {k}
        /\ UNCHANGED broken
     \/ /\ DbMayFail
        /\ broken' = broken \cup {k}
        /\ UNCHANGED <<catalogs, callback, status, fresh>>
  /\ UNCHANGED <<clientVars, job, acked, shown, crashes>>

\* The commit has returned: one event per provider.
Publish(k) ==
  /\ k \in fresh
  /\ fresh' = fresh \ {k}
  /\ shown' = [shown EXCEPT ![k] = CountUpToTwo(@)]
  /\ UNCHANGED <<status, clientVars, callback, catalogs, job, queue, acked, broken,
                 crashes>>

\* The process restarts: the queue was only in memory.
Crash ==
  /\ crashes < MaxCrashes
  /\ crashes' = crashes + 1
  /\ phase' = [s \in Search |-> IF phase[s] = "idle" THEN "idle" ELSE "done"]
  /\ job' = [h \in Handler |-> None]
  /\ queue' = {}
  /\ fresh' = {}
  /\ UNCHANGED <<status, received, callback, catalogs, acked, shown, broken>>

Next ==
  \/ \E s \in Search :
       \/ CreateSearch(s)
       \/ Reach(s)
       \/ SendOk(s)
       \/ SendFails(s)
       \/ MarkSent(s)
       \/ MarkFailed(s)
  \/ \E h \in Handler :
       \/ \E k \in Key : LookUp(h, k)
       \/ Stage(h)
       \/ Accept(h)
  \/ \E k \in Key : Ingest(k) \/ Publish(k)
  \/ Crash

\* What is under way goes on: every continuation is run, and so is every
\* setImmediate.
Fairness ==
  /\ \A h \in Handler : WF_vars(Stage(h) \/ Accept(h))
  /\ \A k \in Key : WF_vars(Ingest(k)) /\ WF_vars(Publish(k))

Spec == Init /\ [][Next]_vars
FairSpec == Spec /\ Fairness

------------------------------------------------------------------------------
TypeOK ==
  /\ status \in [Search -> {"none", "pending", "sent", "failed", "received",
                            "completed"}]
  /\ phase \in [Search -> {"idle", "sending", "acked", "refused", "done"}]
  /\ received \subseteq Search
  /\ callback \in [Key -> {"none", "staged", "processed"}]
  /\ catalogs \in [Key -> 0..2]
  /\ job \in [Handler -> [key : Key, stage : {"looked", "staged"}] \cup {None}]
  /\ queue \subseteq Key
  /\ fresh \subseteq Key
  /\ acked \subseteq Key
  /\ shown \in [Key -> 0..2]
  /\ broken \subseteq Key
  /\ crashes \in 0..MaxCrashes

\* on-search-ingestion.md, core principles: "Never ACK before the raw callback
\* is durably staged."  Whatever is acknowledged is in the database, across
\* concurrent deliveries, failed writes and restarts.
AckedIsStaged == \A k \in acked : callback[k] # "none"

\* A callback delivered several times, also at the same moment, brings one
\* catalog and one announcement, and "processed" says exactly that the whole
\* catalog is there to be chosen from.
OneCatalogPerCallback ==
  \A k \in Key :
    /\ shown[k] <= catalogs[k] /\ catalogs[k] <= 1
    /\ callback[k] = "processed" <=> catalogs[k] = 1

\* An acknowledged catalog becomes available unless the process died or the
\* database failed on it.
AckedIsIngested ==
  \A k \in Key :
    k \in acked ~> (callback[k] = "processed" \/ k \in broken \/ crashes > 0)

\* The ingestion implements the promise of CatalogShelf.
CS == INSTANCE CatalogShelf WITH
        accepted <- acked,
        shelved <- {k \in Key : callback[k] = "processed"},
        announced <- {k \in Key : shown[k] > 0}

ImplementsCatalogShelf == CS!CsSpec
==============================================================================
