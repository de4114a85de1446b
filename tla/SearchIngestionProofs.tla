------------------------- MODULE SearchIngestionProofs -------------------------
(***************************************************************************)
(* SearchIngestion is type correct, never acknowledges what it has not     *)
(* staged, ingests every callback at most once and implements CatalogShelf *)
(* -- for any number of searches, LSPs, deliveries, failures and restarts. *)
(*                                                                         *)
(* None of this is inductive by itself.  That a callback is ingested once  *)
(* rests on where it can be: with the one handler that inserted its row,   *)
(* in the queue, about to be published, or done with.                      *)
(***************************************************************************)
EXTENDS SearchIngestion, TLAPS

At(h, k, stage) == job[h] # None /\ job[h].key = k /\ job[h].stage = stage

\* The handler that inserted the row of a callback is the only one, and has
\* the callback to itself until it is queued.
StagedOnce ==
  \A h \in Handler, k \in Key : At(h, k, "staged") =>
    /\ callback[k] = "staged"
    /\ k \notin queue
    /\ \A g \in Handler : At(g, k, "staged") => g = h

\* What waits in the queue was acknowledged and is yet to be ingested.
QueuedIsStaged == \A k \in queue : k \in acked /\ callback[k] = "staged"

\* What is about to be published is ingested and was not published before.
FreshIsNew == \A k \in fresh : callback[k] = "processed" /\ shown[k] = 0

\* catalogs and shown follow the callback's row.
Counted ==
  \A k \in Key :
    /\ catalogs[k] = IF callback[k] = "processed" THEN 1 ELSE 0
    /\ shown[k] <= 1
    /\ shown[k] > 0 => callback[k] = "processed"

IInv ==
  /\ TypeOK
  /\ AckedIsStaged
  /\ StagedOnce
  /\ QueuedIsStaged
  /\ FreshIsNew
  /\ Counted

LEMMA KeyHasSearch == \A k \in Key : SearchOf(k) \in Search
  BY DEF Key, SearchOf

\* A delivery under way knows its callback.
LEMMA FullJob ==
  ASSUME TypeOK, NEW h \in Handler, job[h] # None
  PROVE  job[h] \in [key : Key, stage : {"looked", "staged"}]
  BY DEF TypeOK

LEMMA CountType == \A n \in 0..2 : CountUpToTwo(n) \in 0..2
  BY DEF CountUpToTwo

LEMMA TypeInit == Init => TypeOK
  BY CrashBoundIsNatural DEF Init, TypeOK

LEMMA TypeStep == TypeOK /\ [Next]_vars => TypeOK'
  <1> SUFFICES ASSUME TypeOK, [Next]_vars PROVE TypeOK'
    OBVIOUS
  <1>1. ASSUME NEW s \in Search, CreateSearch(s) \/ SendOk(s) \/ SendFails(s)
        PROVE  TypeOK'
    BY <1>1 DEF CreateSearch, SendOk, SendFails, SetStatus, Move, ingestVars, TypeOK
  <1>2. ASSUME NEW s \in Search, Reach(s) PROVE TypeOK'
    BY <1>2 DEF Reach, ingestVars, TypeOK
  <1>3. ASSUME NEW s \in Search, MarkSent(s) \/ MarkFailed(s) PROVE TypeOK'
    BY <1>3 DEF MarkSent, MarkFailed, SetStatus, Move, ingestVars, TypeOK
  <1>4. ASSUME NEW h \in Handler, NEW k \in Key, LookUp(h, k) PROVE TypeOK'
    <2>1. [key |-> k, stage |-> "looked"] \in [key : Key, stage : {"looked", "staged"}]
      OBVIOUS
    <2> QED
      BY <1>4, <2>1 DEF LookUp, clientVars, ingestVars, TypeOK
  <1>5. ASSUME NEW h \in Handler, Stage(h) PROVE TypeOK'
    <2>1. job[h] \in [key : Key, stage : {"looked", "staged"}]
      BY <1>5, FullJob DEF Stage
    <2>2. [job[h] EXCEPT !.stage = "staged"]
            \in [key : Key, stage : {"looked", "staged"}]
      BY <2>1
    <2>3. job' \in [Handler -> [key : Key, stage : {"looked", "staged"}] \cup {None}]
      BY <1>5, <2>2 DEF Stage, Leave, TypeOK
    <2>4. callback' \in [Key -> {"none", "staged", "processed"}]
      BY <1>5, <2>1 DEF Stage, TypeOK
    <2>5. broken' \subseteq Key
      BY <1>5, <2>1 DEF Stage, TypeOK
    <2> QED
      BY <1>5, <2>3, <2>4, <2>5 DEF Stage, clientVars, ingestVars, TypeOK
  <1>6. ASSUME NEW h \in Handler, Accept(h) PROVE TypeOK'
    <2>1. job[h].key \in Key
      BY <1>6, FullJob DEF Accept
    <2>2. SearchOf(job[h].key) \in Search
      BY <2>1, KeyHasSearch
    <2>3. status' \in [Search -> {"none", "pending", "sent", "failed", "received",
                                  "completed"}]
      BY <1>6, <2>2 DEF Accept, SetStatus, TypeOK
    <2>4. queue' \subseteq Key /\ acked' \subseteq Key /\ broken' \subseteq Key
      BY <1>6, <2>1 DEF Accept, TypeOK
    <2>5. job' \in [Handler -> [key : Key, stage : {"looked", "staged"}] \cup {None}]
      BY <1>6 DEF Accept, Leave, TypeOK
    <2> QED
      BY <1>6, <2>3, <2>4, <2>5 DEF Accept, clientVars, TypeOK
  <1>7. ASSUME NEW k \in Key, Ingest(k) PROVE TypeOK'
    <2>1. SearchOf(k) \in Search
      BY KeyHasSearch
    <2>2. catalogs' \in [Key -> 0..2]
      BY <1>7, CountType DEF Ingest, TypeOK
    <2>3. status' \in [Search -> {"none", "pending", "sent", "failed", "received",
                                  "completed"}]
      BY <1>7, <2>1 DEF Ingest, SetStatus, TypeOK
    <2> QED
      BY <1>7, <2>2, <2>3 DEF Ingest, clientVars, TypeOK
  <1>8. ASSUME NEW k \in Key, Publish(k) PROVE TypeOK'
    <2>1. shown' \in [Key -> 0..2]
      BY <1>8, CountType DEF Publish, TypeOK
    <2> QED
      BY <1>8, <2>1 DEF Publish, clientVars, TypeOK
  <1>9. ASSUME Crash PROVE TypeOK'
    <2>1. crashes' \in 0..MaxCrashes
      BY <1>9, CrashBoundIsNatural DEF Crash, TypeOK
    <2> QED
      BY <1>9, <2>1 DEF Crash, TypeOK
  <1>10. ASSUME UNCHANGED vars PROVE TypeOK'
    BY <1>10 DEF vars, clientVars, ingestVars, TypeOK
  <1> QED
    BY <1>1, <1>2, <1>3, <1>4, <1>5, <1>6, <1>7, <1>8, <1>9, <1>10 DEF Next

------------------------------------------------------------------------------
(* The steps that touch a callback, one lemma each                         *)

\* What the invariant says without the types.
Where == AckedIsStaged /\ StagedOnce /\ QueuedIsStaged /\ FreshIsNew /\ Counted

LEMMA LookUpStep ==
  ASSUME IInv, TypeOK', NEW h \in Handler, NEW k \in Key, LookUp(h, k)
  PROVE  Where'
  <1>1. UNCHANGED <<callback, queue, fresh, shown, catalogs>>
    BY DEF LookUp, ingestVars
  <1>2. acked \subseteq acked' /\ AckedIsStaged'
    BY <1>1 DEF LookUp, IInv, TypeOK, AckedIsStaged
  <1>3. StagedOnce'
    <2>1. ASSUME NEW g \in Handler, NEW l \in Key, At(g, l, "staged")'
          PROVE  At(g, l, "staged")
      <3>1. job' \in {job, [job EXCEPT ![h] = [key |-> k, stage |-> "looked"]]}
        BY DEF LookUp
      <3>2. CASE g = h
        BY <2>1, <3>1, <3>2 DEF At, IInv, TypeOK
      <3>3. CASE g # h
        BY <2>1, <3>1, <3>3 DEF At, IInv, TypeOK
      <3> QED
        BY <3>2, <3>3
    <2> QED
      BY <1>1, <2>1 DEF IInv, StagedOnce
  <1>4. QueuedIsStaged' /\ FreshIsNew' /\ Counted'
    BY <1>1, <1>2 DEF IInv, TypeOK, QueuedIsStaged, FreshIsNew, Counted
  <1> QED
    BY <1>2, <1>3, <1>4 DEF Where

LEMMA StageStep ==
  ASSUME IInv, TypeOK', NEW h \in Handler, Stage(h)
  PROVE  Where'
  <1> DEFINE k == job[h].key
  <1>0. TypeOK /\ k \in Key /\ job[h] \in [key : Key, stage : {"looked", "staged"}]
    BY FullJob DEF Stage, IInv
  <1>1. UNCHANGED <<acked, queue, fresh, shown, catalogs>>
    BY DEF Stage, ingestVars
  <1>2. CASE /\ callback[k] = "none"
             /\ callback' = [callback EXCEPT ![k] = "staged"]
             /\ job' = [job EXCEPT ![h].stage = "staged"]
    <2>1. k \notin acked /\ k \notin queue /\ k \notin fresh
      BY <1>2 DEF IInv, AckedIsStaged, QueuedIsStaged, FreshIsNew
    <2>2. \A g \in Handler : ~ At(g, k, "staged")
      BY <1>0, <1>2 DEF IInv, StagedOnce
    <2>3. StagedOnce'
      <3>1. ASSUME NEW g \in Handler, NEW l \in Key, At(g, l, "staged")'
            PROVE  (g = h /\ l = k) \/ (g # h /\ l # k /\ At(g, l, "staged"))
        <4>1. CASE g = h
          BY <1>0, <1>2, <3>1, <4>1 DEF At, TypeOK
        <4>2. CASE g # h
          BY <1>0, <1>2, <2>2, <3>1, <4>2 DEF At, TypeOK
        <4> QED
          BY <4>1, <4>2
      <3>2. callback'[k] = "staged" /\ \A l \in Key \ {k} : callback'[l] = callback[l]
        BY <1>0, <1>2 DEF TypeOK
      <3> QED
        BY <1>1, <2>1, <3>1, <3>2 DEF IInv, StagedOnce
    <2>4. AckedIsStaged' /\ QueuedIsStaged' /\ FreshIsNew'
      BY <1>0, <1>1, <1>2, <2>1
      DEF IInv, TypeOK, AckedIsStaged, QueuedIsStaged, FreshIsNew
    <2>5. Counted'
      <3>1. \A l \in Key : callback'[l] = "processed" <=> callback[l] = "processed"
        BY <1>0, <1>2 DEF TypeOK
      <3> QED
        BY <1>1, <3>1 DEF IInv, Counted
    <2> QED
      BY <2>3, <2>4, <2>5 DEF Where
  <1>3. CASE callback' = callback /\ Leave(h)
    <2>1. \A g \in Handler, l \in Key : At(g, l, "staged")' => At(g, l, "staged")
      BY <1>0, <1>3 DEF Leave, At, TypeOK
    <2> QED
      BY <1>1, <1>3, <2>1
      DEF IInv, Where, AckedIsStaged, StagedOnce, QueuedIsStaged, FreshIsNew, Counted
  <1> QED
    BY <1>2, <1>3 DEF Stage

LEMMA AcceptStep ==
  ASSUME IInv, TypeOK', NEW h \in Handler, Accept(h)
  PROVE  Where'
  <1> DEFINE k == job[h].key
  <1>0. TypeOK /\ k \in Key /\ At(h, k, "staged")
    BY FullJob DEF Accept, IInv, At
  <1>1. UNCHANGED <<callback, fresh, shown, catalogs>>
    BY DEF Accept
  <1>2. callback[k] = "staged"
    BY <1>0 DEF IInv, StagedOnce
  <1>3. /\ acked \subseteq acked' /\ acked' \subseteq acked \cup {k}
        /\ queue' \subseteq queue \cup {k}
        /\ k \in queue' => k \in acked' \/ k \in queue
    BY DEF Accept
  <1>4. AckedIsStaged' /\ QueuedIsStaged'
    BY <1>1, <1>2, <1>3 DEF Accept, IInv, AckedIsStaged, QueuedIsStaged
  <1>5. StagedOnce'
    <2>1. ASSUME NEW g \in Handler, NEW l \in Key, At(g, l, "staged")'
          PROVE  At(g, l, "staged") /\ l # k
      <3>1. g # h /\ At(g, l, "staged")
        BY <1>0, <2>1 DEF Accept, Leave, At, TypeOK
      <3>2. l # k
        BY <1>0, <3>1 DEF IInv, StagedOnce
      <3> QED
        BY <3>1, <3>2
    <2> QED
      BY <1>1, <1>3, <2>1 DEF IInv, StagedOnce
  <1>6. FreshIsNew' /\ Counted'
    BY <1>1 DEF IInv, FreshIsNew, Counted
  <1> QED
    BY <1>4, <1>5, <1>6 DEF Where

LEMMA IngestStep ==
  ASSUME IInv, TypeOK', NEW k \in Key, Ingest(k)
  PROVE  Where'
  <1>0. TypeOK /\ callback[k] = "staged" /\ k \in acked /\ k \notin fresh
    BY DEF Ingest, IInv, QueuedIsStaged, FreshIsNew
  <1>1. UNCHANGED <<job, acked, shown>> /\ queue' = queue \ {k}
    BY DEF Ingest
  <1>2. \A g \in Handler : ~ At(g, k, "staged")
    BY DEF Ingest, IInv, StagedOnce
  <1>3. CASE /\ catalogs' = [catalogs EXCEPT ![k] = CountUpToTwo(@)]
             /\ callback' = [callback EXCEPT ![k] = "processed"]
             /\ fresh' = fresh \cup {k}
    <2>1. catalogs[k] = 0 /\ shown[k] = 0
      BY <1>0 DEF IInv, TypeOK, Counted
    <2>2. catalogs'[k] = 1 /\ callback'[k] = "processed"
      BY <1>0, <1>3, <2>1 DEF TypeOK, CountUpToTwo
    <2>3. \A l \in Key \ {k} : catalogs'[l] = catalogs[l] /\ callback'[l] = callback[l]
      BY <1>0, <1>3 DEF TypeOK
    <2>4. AckedIsStaged'
      BY <1>0, <1>1, <2>2, <2>3 DEF IInv, TypeOK, AckedIsStaged
    <2>5. StagedOnce'
      BY <1>1, <1>2, <2>3 DEF IInv, StagedOnce, At
    <2>6. QueuedIsStaged'
      BY <1>0, <1>1, <2>3 DEF IInv, TypeOK, QueuedIsStaged
    <2>7. FreshIsNew'
      BY <1>0, <1>1, <1>3, <2>1, <2>2, <2>3 DEF IInv, TypeOK, FreshIsNew
    <2>8. Counted'
      BY <1>1, <2>1, <2>2, <2>3 DEF IInv, Counted
    <2> QED
      BY <2>4, <2>5, <2>6, <2>7, <2>8 DEF Where
  <1>4. CASE UNCHANGED <<catalogs, callback, fresh>>
    BY <1>1, <1>4
    DEF IInv, Where, AckedIsStaged, StagedOnce, At, QueuedIsStaged, FreshIsNew, Counted
  <1> QED
    BY <1>3, <1>4 DEF Ingest

LEMMA PublishStep ==
  ASSUME IInv, TypeOK', NEW k \in Key, Publish(k)
  PROVE  Where'
  <1>0. TypeOK /\ callback[k] = "processed" /\ shown[k] = 0
    BY DEF Publish, IInv, FreshIsNew
  <1>1. UNCHANGED <<callback, catalogs, job, queue, acked>> /\ fresh' = fresh \ {k}
    BY DEF Publish
  <1>2. shown'[k] = 1 /\ \A l \in Key \ {k} : shown'[l] = shown[l]
    BY <1>0 DEF Publish, TypeOK, CountUpToTwo
  <1>3. FreshIsNew'
    BY <1>0, <1>1, <1>2 DEF IInv, TypeOK, FreshIsNew
  <1>4. Counted'
    BY <1>0, <1>1, <1>2 DEF IInv, Counted
  <1> QED
    BY <1>1, <1>3, <1>4 DEF IInv, Where, AckedIsStaged, StagedOnce, At, QueuedIsStaged

LEMMA CrashStep ==
  ASSUME IInv, TypeOK', Crash
  PROVE  Where'
  <1>1. \A h \in Handler : job'[h] = None
    BY DEF Crash
  <1>2. /\ queue' = {} /\ fresh' = {}
        /\ UNCHANGED <<callback, catalogs, acked, shown>>
    BY DEF Crash
  <1> QED
    BY <1>1, <1>2
    DEF IInv, Where, AckedIsStaged, StagedOnce, At, QueuedIsStaged, FreshIsNew, Counted

\* The steps of a /search, and stuttering, leave the callbacks alone.
LEMMA OtherStep ==
  ASSUME IInv, UNCHANGED <<callback, catalogs, job, queue, fresh, acked, shown>>
  PROVE  Where'
  BY DEF IInv, Where, AckedIsStaged, StagedOnce, At, QueuedIsStaged, FreshIsNew, Counted

LEMMA SearchSteps ==
  ASSUME NEW s \in Search,
         \/ CreateSearch(s) \/ Reach(s) \/ SendOk(s)
         \/ SendFails(s) \/ MarkSent(s) \/ MarkFailed(s)
  PROVE  UNCHANGED <<callback, catalogs, job, queue, fresh, acked, shown>>
  BY DEF CreateSearch, Reach, SendOk, SendFails, MarkSent, MarkFailed, ingestVars

\* The invariant the other theorems follow from.
THEOREM Inductive == Spec => []IInv
  <1>1. Init => IInv
    <2>1. Init => Where
      BY DEF Init, Where, AckedIsStaged, StagedOnce, At, QueuedIsStaged, FreshIsNew,
             Counted
    <2> QED
      BY <2>1, TypeInit
      DEF IInv, Where
  <1>2. IInv /\ [Next]_vars => IInv'
    <2> SUFFICES ASSUME IInv, [Next]_vars PROVE IInv'
      OBVIOUS
    <2>0. TypeOK'
      BY TypeStep DEF IInv
    <2>1. Where'
      <3>1. ASSUME NEW h \in Handler, NEW k \in Key, LookUp(h, k) PROVE Where'
        BY <2>0, <3>1, LookUpStep
      <3>2. ASSUME NEW h \in Handler, Stage(h) PROVE Where'
        BY <2>0, <3>2, StageStep
      <3>3. ASSUME NEW h \in Handler, Accept(h) PROVE Where'
        BY <2>0, <3>3, AcceptStep
      <3>4. ASSUME NEW k \in Key, Ingest(k) PROVE Where'
        BY <2>0, <3>4, IngestStep
      <3>5. ASSUME NEW k \in Key, Publish(k) PROVE Where'
        BY <2>0, <3>5, PublishStep
      <3>6. ASSUME Crash PROVE Where'
        BY <2>0, <3>6, CrashStep
      <3>7. ASSUME UNCHANGED vars PROVE Where'
        BY <3>7, OtherStep DEF vars
      <3>8. ASSUME NEW s \in Search,
                   \/ CreateSearch(s) \/ Reach(s) \/ SendOk(s)
                   \/ SendFails(s) \/ MarkSent(s) \/ MarkFailed(s)
            PROVE  Where'
        BY <3>8, SearchSteps, OtherStep
      <3> QED
        BY <3>1, <3>2, <3>3, <3>4, <3>5, <3>6, <3>7, <3>8 DEF Next
    <2> QED
      BY <2>0, <2>1 DEF IInv, Where
  <1> QED
    BY <1>1, <1>2, PTL DEF Spec

\* Every variable keeps its type: a search has one of its six statuses, a
\* callback row one of its two.
THEOREM TypeCorrect == Spec => []TypeOK
  <1>1. IInv => TypeOK
    BY DEF IInv
  <1> QED
    BY <1>1, Inductive, PTL

\* Nothing is acknowledged to an LSP that is not in the database, whatever
\* fails, is delivered twice or restarts.
THEOREM AckedStaged == Spec => []AckedIsStaged
  <1>1. IInv => AckedIsStaged
    BY DEF IInv
  <1> QED
    BY <1>1, Inductive, PTL

\* Any number of deliveries of a callback brings one catalog and at most one
\* announcement of it.
THEOREM OneCatalog == Spec => []OneCatalogPerCallback
  <1>1. IInv => OneCatalogPerCallback
    <2> SUFFICES ASSUME IInv, NEW k \in Key
                 PROVE  /\ shown[k] <= catalogs[k] /\ catalogs[k] <= 1
                        /\ callback[k] = "processed" <=> catalogs[k] = 1
      BY DEF OneCatalogPerCallback
    <2>1. shown[k] \in 0..2
      BY DEF IInv, TypeOK
    <2> QED
      BY <2>1 DEF IInv, Counted
  <1> QED
    BY <1>1, Inductive, PTL

------------------------------------------------------------------------------
(* The refinement                                                          *)

\* Every step of the ingestion accepts, shelves or announces one callback, or
\* does none of it.
THEOREM Refinement == Spec => ImplementsCatalogShelf
  <1> DEFINE shelf == {k \in Key : callback[k] = "processed"}
             told == {k \in Key : shown[k] > 0}
  <1>1. Init => CS!CsInit
    BY DEF Init, CS!CsInit
  <1>2. IInv /\ [Next]_vars => [CS!CsNext]_(CS!csVars)
    <2> SUFFICES ASSUME IInv, [Next]_vars PROVE [CS!CsNext]_(CS!csVars)
      OBVIOUS
    <2>t. TypeOK
      BY DEF IInv
    <2>0. ASSUME UNCHANGED <<callback, acked, shown>> PROVE UNCHANGED CS!csVars
      BY <2>0 DEF CS!csVars
    <2>1. ASSUME NEW h \in Handler, NEW k \in Key, LookUp(h, k)
          PROVE  [CS!CsNext]_(CS!csVars)
      <3>1. UNCHANGED <<callback, shown>> /\ acked' \in {acked, acked \cup {k}}
        BY <2>1 DEF LookUp, ingestVars
      <3> QED
        BY <3>1 DEF CS!CsNext, CS!Accept, CS!csVars
    <2>2. ASSUME NEW h \in Handler, Stage(h) PROVE [CS!CsNext]_(CS!csVars)
      <3>1. job[h].key \in Key
        BY <2>2, <2>t, FullJob DEF Stage
      <3>2. shelf' = shelf
        BY <2>2, <2>t, <3>1 DEF Stage, TypeOK
      <3> QED
        BY <2>2, <3>2 DEF Stage, ingestVars, CS!csVars
    <2>3. ASSUME NEW h \in Handler, Accept(h) PROVE [CS!CsNext]_(CS!csVars)
      <3>1. PICK k \in Key : acked' \in {acked, acked \cup {k}}
        BY <2>3, <2>t, FullJob DEF Accept
      <3>2. UNCHANGED <<callback, shown>>
        BY <2>3 DEF Accept
      <3> QED
        BY <3>1, <3>2 DEF CS!CsNext, CS!Accept, CS!csVars
    <2>4. ASSUME NEW k \in Key, Ingest(k) PROVE [CS!CsNext]_(CS!csVars)
      <3>0. UNCHANGED <<acked, shown>>
        BY <2>4 DEF Ingest
      <3>1. k \in acked /\ callback[k] = "staged"
        BY <2>4 DEF Ingest, IInv, QueuedIsStaged
      <3>2. CASE callback' = [callback EXCEPT ![k] = "processed"]
        <4>1. k \in acked \ shelf /\ shelf' = shelf \cup {k}
          BY <2>t, <3>1, <3>2 DEF TypeOK
        <4> QED
          BY <3>0, <4>1 DEF CS!CsNext, CS!Shelve
      <3>3. CASE UNCHANGED callback
        BY <2>0, <3>0, <3>3
      <3> QED
        BY <2>4, <3>2, <3>3 DEF Ingest
    <2>5. ASSUME NEW k \in Key, Publish(k) PROVE [CS!CsNext]_(CS!csVars)
      <3>1. UNCHANGED <<callback, acked>>
        BY <2>5 DEF Publish
      <3>2. callback[k] = "processed" /\ shown[k] = 0
        BY <2>5 DEF Publish, IInv, FreshIsNew
      <3>3. shown'[k] = 1 /\ \A l \in Key \ {k} : shown'[l] = shown[l]
        BY <2>5, <2>t, <3>2 DEF Publish, TypeOK, CountUpToTwo
      <3>4. k \in shelf \ told /\ told' = told \cup {k}
        BY <3>2, <3>3
      <3> QED
        BY <3>1, <3>4 DEF CS!CsNext, CS!Announce
    <2>6. ASSUME Crash PROVE UNCHANGED CS!csVars
      BY <2>0, <2>6 DEF Crash
    <2>7. ASSUME UNCHANGED vars PROVE UNCHANGED CS!csVars
      BY <2>0, <2>7 DEF vars
    <2>8. ASSUME NEW s \in Search,
                 \/ CreateSearch(s) \/ Reach(s) \/ SendOk(s)
                 \/ SendFails(s) \/ MarkSent(s) \/ MarkFailed(s)
          PROVE  UNCHANGED CS!csVars
      BY <2>0, <2>8, SearchSteps
    <2> QED
      BY <2>1, <2>2, <2>3, <2>4, <2>5, <2>6, <2>7, <2>8 DEF Next
  <1> QED
    BY <1>1, <1>2, Inductive, PTL DEF Spec, ImplementsCatalogShelf, CS!CsSpec
==============================================================================
