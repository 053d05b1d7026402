---------------------------- MODULE BTCLightClient ----------------------------
(***************************************************************************)
(* The babylon btc-lightclient indexer (internal/packages/babylon/         *)
(* btc-lightclient): a row per block in which reporters inserted BTC       *)
(* headers, about the last of them, saying whether those headers rolled    *)
(* the light client back.                                                  *)
(***************************************************************************)
EXTENDS IndexerLoop, Sequences

CONSTANT
  InsertEvents \* the events of a block, in order: a message with its sender
               \* ("insert") or a header ("forward", "back")

HeaderEvents == {"forward", "back"}

ASSUME LightClientConstants ==
  InsertEvents \in
    [Heights -> Seq([type : HeaderEvents \cup {"insert"}, key : Key])]

Inserts(h) == {i \in DOMAIN InsertEvents[h] : InsertEvents[h][i].type = "insert"}

LastInsert(h) == CHOOSE i \in Inserts(h) : \A j \in Inserts(h) : j <= i

\* Mutant: keeps the first reporter with the headers of the last.
FilterFirstReporter(h) ==
  IF Inserts(h) = {} THEN {}
  ELSE LET last == LastInsert(h)
           first == CHOOSE i \in Inserts(h) : \A j \in Inserts(h) : i <= j
       IN {[reporter |-> InsertEvents[h][first].key,
            headers |-> {InsertEvents[h][i].type :
                         i \in {i \in DOMAIN InsertEvents[h] : i > last}}]}

\* The last MsgInsertHeaders of the block with the headers after it: an earlier
\* one is forgotten when the next is found.
FilterBTCLightClientEvents(h) ==
  IF Inserts(h) = {} THEN {}
  ELSE LET last == LastInsert(h)
       IN {[reporter |-> InsertEvents[h][last].key,
            headers |-> {InsertEvents[h][i].type :
                         i \in {i \in DOMAIN InsertEvents[h] : i > last}}]}

LightClientStartInit ==
  /\ package = "lightclient"
  /\ \E h \in Earliest..tip : StartInit(h, Earliest)

LightClientStartLoad == package = "lightclient" /\ StartLoad

LightClientChooseBatch ==
  /\ package = "lightclient"
  /\ CheckHeight \/ ReadEndHeight \/ LimitEndHeight

LightClientCollect ==
  /\ package = "lightclient"
  /\ Collect \/ CollectError

Reporters == {e.reporter : e \in UNION {FilterBTCLightClientEvents(h) : h \in got}}

LightClientDetect == package = "lightclient" /\ DetectKeys(Reporters)

\* The INSERT into vigilante_info.
VigilanteInsertable(new) == new # {} /\ new \cap known = {}

LightClientRegister ==
  LET new == Reporters \ vim IN
  /\ package = "lightclient"
  /\ InsertInfoList(new, VigilanteInsertable(new)) \/ ReloadInfoList

\* The row of a block; its status tells a roll back.
RollRows(h) ==
  {[height |-> h, key |-> e.reporter,
    status |-> IF "back" \in e.headers THEN 1 ELSE 0] :
   e \in FilterBTCLightClientEvents(h)}

LightClientRows == UNION {RollRows(h) : h \in got}

LightClientMake ==
  /\ package = "lightclient"
  /\ pc = "make"
  /\ IF Reporters \subseteq vim
     THEN /\ pc' = "insert"
          /\ UNCHANGED <<package, network, database, lh, indexPoint, vim,
                         monikerIDs, batch, history>>
     ELSE MakeError

\* InsertBabylonBTCRollList.  The table's retention statement names a column
\* that the table does not have: no row is ever deleted.
LightClientInsert ==
  /\ package = "lightclient"
  /\ InsertRows(LightClientRows, endHeight)

\* Loop, but for the health check.
LightClientLoop ==
  \/ LightClientChooseBatch
  \/ LightClientCollect
  \/ LightClientDetect
  \/ LightClientRegister
  \/ LightClientMake
  \/ LightClientInsert

LightClientStep ==
  \/ LightClientStartInit
  \/ LightClientStartLoad
  \/ LightClientLoop

-----------------------------------------------------------------------------
\* Properties.

\* The i-th event of block h is a header that its reporter inserted.
InsertedBy(h, i, reporter) ==
  /\ InsertEvents[h][i].type \in HeaderEvents
  /\ \E j \in Inserts(h) :
       /\ j < i
       /\ InsertEvents[h][j].key = reporter
       /\ \A l \in Inserts(h) : l <= j \/ l > i

\* A row that reports a roll back is about a reporter who did roll the light
\* client back in that block, however many reporters the block has.
RollBackByReporter ==
  package = "lightclient" =>
    \A r \in rows : r.status = 1 =>
      \E i \in DOMAIN InsertEvents[r.height] :
        InsertedBy(r.height, i, r.key) /\ InsertEvents[r.height][i].type = "back"

\* What the table has of the insertions: a block between the first and the last
\* indexed one has exactly one row when someone inserted headers in it, unless a
\* panicked fetch lost the block, and that row is about the LAST insertion: who
\* made it and whether it rolled the light client back.  This is less than every
\* insertion: those before it in the block are dropped, although the table has
\* room for a row per reporter and the indexer says it indexes the events.
LightClientLastInsertion ==
  package = "lightclient" =>
    /\ \A r \in rows :
         /\ Inserts(r.height) # {}
         /\ r.key = InsertEvents[r.height][LastInsert(r.height)].key
         /\ r.status = 1 <=>
              \E i \in DOMAIN InsertEvents[r.height] :
                /\ i > LastInsert(r.height)
                /\ InsertEvents[r.height][i].type = "back"
    /\ \A r, q \in rows : r.height = q.height => r = q
    /\ \A h \in (base + 1)..pointer :
         Inserts(h) # {} /\ h \notin lost => \E r \in rows : r.height = h

=============================================================================
