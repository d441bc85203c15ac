------------------------------- MODULE Ingest -------------------------------
(***************************************************************************)
(* POST /records of one entity: batches of clients that repeat what was    *)
(* not answered, next to erasure, the purge of tombstoned pages and a      *)
(* publish of a new collection version (records.py, canonical_records.py,  *)
(* erase.py, worker.py).  A batch is one transaction, which inserts item   *)
(* by item: an insert waits for an open row with its dedupe key.  What     *)
(* happens once a record is ready is told in Derivation and Projection.    *)
(*                                                                         *)
(* A record is its position in the store, which stands for id and seq.     *)
(***************************************************************************)
EXTENDS Naturals, Sequences, SequencesExt, FiniteSetsExt

CONSTANTS
    Clients,
    RecordDepth,   \* MAX_DERIVATION_DEPTH
    MaxStored,     \* bound: inserts
    Traffics       \* what clients and operators do

NoKey == "none"   \* no key of a page, no dedupe key

ASSUME TrafficAssumption ==
    /\ RecordDepth \in Nat /\ MaxStored \in Nat
    /\ Clients \cap {"live", "gone", "never"} = {}   \* the other states of a row
    /\ \A t \in Traffics :
        /\ t.batches \subseteq Seq([key : STRING, dedupe : STRING, tomb : BOOLEAN, cites : {"nothing", "head"}])
        /\ t.sends \in Nat         \* bound: sends of a client, repetitions included
        /\ t.publishes \in Nat     \* bound: new versions of the collection
        /\ t.erasures \in Nat      \* bound: erasures and purges together

VARIABLES
    traffic,    \* one of Traffics, which does not change
    store,      \* the rows, uncommitted ones included
    active,     \* the active version of the collection
    removals,   \* erasures and purges so far
    client,     \* of each client: what it has sent, and its transaction
    sends,      \* of each client: how often it has sent
    answers     \* history: what was answered with 200, heard or not

ingestVars == <<traffic, store, active, removals, client, sends, answers>>

Quiet == [phase |-> "quiet", items |-> <<>>, version |-> 0, ids |-> <<>>]

IngestInit ==
    /\ traffic \in Traffics
    /\ store = <<>> /\ active = 1 /\ removals = 0
    /\ client = [c \in Clients |-> Quiet] /\ sends = [c \in Clients |-> 0]
    /\ answers = {}

Live == {r \in DOMAIN store : store[r].state = "live"}
OpenOf(c) == {r \in DOMAIN store : store[r].state = c}
Visible(c) == Live \cup OpenOf(c)

\* _current_keyed_id: the newest row of a page, of whichever version.
PageRows(rows, key) == {r \in rows : key # NoKey /\ store[r].item.key = key}
PageHead(rows, key) == IF PageRows(rows, key) = {} THEN {} ELSE {Max(PageRows(rows, key))}

(***************************************************************************)
(* Clients.  A request is built once, from what the client has read, and   *)
(* repeated as it is.                                                      *)
(***************************************************************************)
Item(t) == [key |-> t.key, dedupe |-> t.dedupe, tomb |-> t.tomb,
            cites |-> IF t.cites = "head" THEN PageHead(Live, t.key) ELSE {}]

\* A tombstone needs a parent.
WellFormed(items) == \A i \in DOMAIN items : items[i].tomb => items[i].cites # {}

Post(c, items) ==
    /\ sends[c] < traffic.sends
    /\ client' = [client EXCEPT ![c] =
        [phase |-> "sent", items |-> items, version |-> 0, ids |-> <<>>]]
    /\ sends' = [sends EXCEPT ![c] = @ + 1]
    /\ UNCHANGED <<traffic, store, active, removals, answers>>

Ask(c) ==
    /\ client[c].phase \in {"quiet", "refused"}
    /\ \E batch \in traffic.batches :
        LET items == [i \in DOMAIN batch |-> Item(batch[i])] IN
            WellFormed(items) /\ Post(c, items)

\* No answer, or an internal error.
PostAgain(c) == client[c].phase = "unanswered" /\ Post(c, client[c].items)

(***************************************************************************)
(* The transaction.                                                        *)
(***************************************************************************)
\* _prepare_record: the catalog of the request, before the transaction.
Prepare(c) ==
    /\ client[c].phase = "sent"
    /\ client' = [client EXCEPT ![c].phase = "prepared", ![c].version = active]
    /\ UNCHANGED <<traffic, store, active, removals, sends, answers>>

\* Open transactions share the workspace lock; with keys, they hold the entity's.
Writing == {c \in Clients : client[c].phase = "writing"}
Keyed(c) == \E i \in DOMAIN client[c].items : client[c].items[i].key # NoKey
Parents(c) == UNION {client[c].items[i].cites : i \in DOMAIN client[c].items}

\* The transaction ends without a trace.
RollBack(c, phase) ==
    /\ store' = [r \in DOMAIN store |->
                    IF store[r].state = c THEN [store[r] EXCEPT !.state = "never"] ELSE store[r]]
    /\ client' = [client EXCEPT ![c].phase = phase, ![c].ids = <<>>]
    /\ UNCHANGED <<traffic, active, removals, sends, answers>>

\* insert_records_tx up to _load_parents.
BeginWrite(c) ==
    /\ client[c].phase = "prepared"
    /\ Keyed(c) => \A d \in Writing : ~Keyed(d)
    /\ Parents(c) \subseteq Live
    /\ client' = [client EXCEPT ![c].phase = "writing"]
    /\ UNCHANGED <<traffic, store, active, removals, sends, answers>>

\* parent_not_found
RefuseParents(c) ==
    /\ client[c].phase = "prepared" /\ ~(Parents(c) \subseteq Live)
    /\ RollBack(c, "refused")

Next1(c) == client[c].items[Len(client[c].ids) + 1]
HasNext(c) == client[c].phase = "writing" /\ Len(client[c].ids) < Len(client[c].items)

\* _record_depth: to rewrite the head of the page adds no level.
DepthOf(c, item) ==
    Max({0} \cup {store[p].depth : p \in item.cites \cap PageHead(Visible(c), item.key)}
            \cup {store[p].depth + 1 : p \in item.cites \ PageHead(Visible(c), item.key)})

\* The row, committed or not, that holds the dedupe key.
Holders(c, item) ==
    {r \in DOMAIN store : /\ item.dedupe # NoKey /\ store[r].item.dedupe = item.dedupe
                          /\ store[r].state \in Clients \cup {"live"}}
Waits(c) == IF HasNext(c)
            THEN {store[r].state : r \in Holders(c, Next1(c))} \ {"live", c} ELSE {}

\* Fault: what the record cites is not compared.
MatchesButParents(r, c, item) == [store[r].item EXCEPT !.cites = item.cites] = item

\* _dedupe_matches
DedupeMatches(r, c, item) == store[r].item = item /\ store[r].version = client[c].version

Answered(c, id) == client' = [client EXCEPT ![c].ids = Append(@, id)]

\* _insert_one: a new row.
InsertItem(c) ==
    /\ HasNext(c) /\ Holders(c, Next1(c)) = {} /\ Len(store) < MaxStored
    /\ DepthOf(c, Next1(c)) <= RecordDepth
    /\ store' = Append(store, [item |-> Next1(c), version |-> client[c].version,
                               depth |-> DepthOf(c, Next1(c)), state |-> c])
    /\ Answered(c, Len(store) + 1)
    /\ UNCHANGED <<traffic, active, removals, sends, answers>>

\* _insert_one: a duplicate.
FindItem(c) ==
    /\ HasNext(c) /\ Waits(c) = {}
    /\ DepthOf(c, Next1(c)) <= RecordDepth
    /\ \E r \in Holders(c, Next1(c)) : DedupeMatches(r, c, Next1(c)) /\ Answered(c, r)
    /\ UNCHANGED <<traffic, store, active, removals, sends, answers>>

\* depth_limit or dedupe_conflict
RefuseItem(c) ==
    /\ HasNext(c)
    /\ \/ DepthOf(c, Next1(c)) > RecordDepth
       \/ Waits(c) = {} /\ \E r \in Holders(c, Next1(c)) : ~DedupeMatches(r, c, Next1(c))
    /\ RollBack(c, "refused")

\* PostgreSQL ends one of two transactions that wait for each other; a process
\* or a connection ends any.
BreakDeadlock(c) == (\E d \in Waits(c) : c \in Waits(d)) /\ RollBack(c, "unanswered")
FailWrite(c) == client[c].phase \in {"sent", "prepared", "writing"} /\ RollBack(c, "unanswered")

CommitBatch(c) ==
    /\ client[c].phase = "writing" /\ ~HasNext(c)
    /\ store' = [r \in DOMAIN store |->
                    IF store[r].state = c THEN [store[r] EXCEPT !.state = "live"] ELSE store[r]]
    /\ answers' = answers \cup {[items |-> client[c].items, ids |-> client[c].ids]}
    /\ \E phase \in {"quiet", "unanswered"} :   \* the answer is heard or lost
        client' = [client EXCEPT ![c] = IF phase = "quiet" THEN Quiet
                                        ELSE [@ EXCEPT !.phase = phase, !.ids = <<>>]]
    /\ UNCHANGED <<traffic, active, removals, sends>>

(***************************************************************************)
(* Erasure, retention, publish.                                            *)
(***************************************************************************)
\* Fault: the lock is shared.
Sharing == TRUE

\* The exclusive workspace lock waits for the open transactions.
Exclusive == Writing = {}

\* _closure: the seeds and what derives from them, in any version.
Closed(rows) == \A r \in Live : store[r].item.cites \cap rows # {} => r \in rows
Descendants(seeds) ==
    {r \in Live : \A rows \in SUBSET Live : seeds \subseteq rows /\ Closed(rows) => r \in rows}

EraseAll(seeds) ==
    /\ Exclusive /\ removals < traffic.erasures /\ seeds # {}
    /\ LET erased == Descendants(seeds) IN
        store' = [r \in DOMAIN store |->
                    IF r \in erased THEN [store[r] EXCEPT !.state = "gone"] ELSE store[r]]
    /\ removals' = removals + 1
    /\ UNCHANGED <<traffic, active, client, sends, answers>>

EraseRecord(r) == r \in Live /\ EraseAll({r})

KeyedPages == {store[r].item.key : r \in Live} \ {NoKey}
OfVersion(v) == {r \in Live : store[r].version = v}
\* Fault: a page is expired by any of its tombstones.
OnceExpired(v, age) ==
    {k \in KeyedPages : \E r \in PageRows(OfVersion(v), k) : store[r].item.tomb /\ r <= age}

\* purge_tombstoned_pages_tx under a policy of one version: the history of the
\* pages whose newest row of that version is a tombstone of the age.
ExpiredPages(v, age) ==
    {k \in KeyedPages : \E r \in PageHead(OfVersion(v), k) : store[r].item.tomb /\ r <= age}

Purged(v, age) == UNION {PageRows(OfVersion(v), k) : k \in ExpiredPages(v, age)}
Purge(v, age) == EraseAll(Purged(v, age))

Publish ==
    /\ active <= traffic.publishes
    /\ active' = active + 1
    /\ UNCHANGED <<traffic, store, removals, client, sends, answers>>

(***************************************************************************)
IngestNext ==
    \/ \E c \in Clients :
        \/ Ask(c) \/ PostAgain(c) \/ Prepare(c) \/ BeginWrite(c) \/ RefuseParents(c)
        \/ InsertItem(c) \/ FindItem(c) \/ RefuseItem(c)
        \/ BreakDeadlock(c) \/ FailWrite(c) \/ CommitBatch(c)
    \/ \E r \in DOMAIN store : EraseRecord(r)
    \/ \E v \in 1 .. active, age \in DOMAIN store : Purge(v, age)
    \/ Publish

IngestSpec == IngestInit /\ [][IngestNext]_ingestVars

(***************************************************************************)
(* Properties.                                                             *)
(***************************************************************************)
\* records.py:1000, erase.py:139: erasure takes everything that derives from a
\* record, also what a batch was inserting meanwhile: no row cites one that is
\* gone.
LineageWhole ==
    \A r \in Live : \A p \in store[r].item.cites : store[p].state # "gone"

\* docs/api-surface.md:398-401: the records that an answer names are those that
\* were asked for, and two answers do not name two living records for one
\* dedupe key, whoever asked and however often.
AnswersAgree ==
    \A a, b \in answers : \A i \in DOMAIN a.items, j \in DOMAIN b.items :
        /\ store[a.ids[i]].item = a.items[i]
        /\ a.items[i].dedupe # NoKey /\ a.items[i].dedupe = b.items[j].dedupe
           /\ {a.ids[i], b.ids[j]} \subseteq Live => a.ids[i] = b.ids[j]

\* erase.py:351: the purge takes no page that was written again after its
\* tombstone.  Only where all rows are of one version, see PagesStay.
HeadOfPage(rows, k) == Max({r \in DOMAIN rows : rows[r].state = "live" /\ rows[r].item.key = k})
PageAlive(rows, k) == \E r \in DOMAIN rows :
    rows[r].state = "live" /\ rows[r].item.key = k /\ ~rows[HeadOfPage(rows, k)].item.tomb
PurgedAlive == \E v \in 1 .. active, age \in DOMAIN store :
    Purge(v, age) /\ \E k \in KeyedPages : PageAlive(store, k) /\ ~PageAlive(store', k)
RewrittenPagesStay == [][traffic.publishes = 0 => ~PurgedAlive]_ingestVars

\* The same without the condition.
PagesStay == [][~PurgedAlive]_ingestVars

\* docs/api-surface.md:398-400: a repeated request whose records are stored is
\* answered with them, never refused.
RetriesAnswered ==
    [][\A c \in Clients :
        (\E a \in answers : a.items = client[c].items /\ Range(a.ids) \subseteq Live
            /\ \A i \in DOMAIN a.items : a.items[i].dedupe # NoKey)
        => ~RefuseItem(c)]_ingestVars
=============================================================================
