------------------------------- MODULE Catalog -------------------------------
(***************************************************************************)
(* One collection version of one workspace while its package is replaced:  *)
(* publishes, which move stored contract hashes forward, the operator's    *)
(* migration of old hashes, and writers, whose contract is that of the     *)
(* catalog their request resolved (workspace_catalog.py, evolution.py,     *)
(* definitions/compat.py).  All of them hold the workspace lock shared, so *)
(* that it keeps none of them apart.                                       *)
(***************************************************************************)
EXTENDS Naturals, Sequences

CONSTANTS
    Authors,    \* requests and jobs that write records
    Publishers, \* requests that publish
    Undeclared,     \* no definition of the collection version
    Histories   \* the workspaces that are looked at, with their bounds

\* A contract has a shape, for what cannot be changed in place, and may declare
\* a property that records could carry before.
Contracts == [shape : {"old", "new"}, declares : BOOLEAN]
First == [shape |-> "old", declares |-> FALSE]

ASSUME CatalogAssumption ==
    /\ Undeclared \notin Contracts
    /\ Histories \subseteq
        [rows : Nat,        \* bound: records
         publishes : Nat,   \* bound: publishes
         legacy : BOOLEAN,  \* written before the contract had a hash of its own
         migrates : BOOLEAN] \* the operator migrates

VARIABLES
    history,   \* one of Histories, which does not change
    installed, \* the contract that the workspace's catalog declares
    stored,    \* its records
    author,    \* memory of the writers
    publisher, \* memory and open transactions of the publishers
    migration, \* the catalog under which the operator migrates
    published, \* publishes so far
    unseen,    \* history: unseen[p]: rows written or moved since publisher p planned
    behind     \* history: rows that the last publish has passed by

catalogVars == <<history, installed, stored, author, publisher, migration, published, unseen, behind>>

NoAuthor == [phase |-> "idle", contract |-> Undeclared]
NoPublish == [phase |-> "idle", incoming |-> Undeclared, previous |-> Undeclared, moves |-> {}, touched |-> {}]

\* A record: the identity it is stored under, whether it carries a value that
\* the declared property refuses, the shape it was written in, and, as history,
\* whether it was moved by a publish that had planned before it was as it is.
Row(contract, full, clash) ==
    [contract |-> contract, full |-> full, clash |-> clash, shape |-> contract.shape, unjudged |-> FALSE]

CatalogInit ==
    /\ history \in Histories
    /\ installed = First
    /\ stored = IF history.legacy THEN <<Row(First, TRUE, TRUE)>> ELSE <<>>
    /\ author = [a \in Authors |-> NoAuthor]
    /\ publisher = [p \in Publishers |-> NoPublish]
    /\ migration = Undeclared
    /\ published = 0 /\ unseen = [p \in Publishers |-> {}] /\ behind = {}

\* collection_hash: the contract, or before the split the whole definition.
Identity(r) == [contract |-> r.contract, full |-> r.full]
Of(contract) == [contract |-> contract, full |-> FALSE]
Legacy(contract) == [contract |-> contract, full |-> TRUE]
Groups == {Identity(stored[i]) : i \in DOMAIN stored}
Moved(rows, contract) ==
    [i \in DOMAIN stored |->
        IF i \in rows THEN [stored[i] EXCEPT !.contract = contract, !.full = FALSE] ELSE stored[i]]

InProgress(p) == publisher[p].phase # "idle"
Planned(p) == publisher[p].phase \in {"planned", "rewritten"}
Hurried(rows, missed) == [i \in DOMAIN rows |-> [rows[i] EXCEPT !.unjudged = @ \/ i \in missed]]
Missed(rows) == [p \in Publishers |-> IF Planned(p) THEN unseen[p] \cup rows ELSE unseen[p]]
Locked == UNION {publisher[p].touched : p \in Publishers}

(***************************************************************************)
(* Writers: the request resolves its catalog, and inserts in a transaction *)
(* of its own that does not look at it again.                              *)
(***************************************************************************)
ResolveCatalog(a) ==
    /\ author[a].phase = "idle" /\ installed # Undeclared
    /\ author' = [author EXCEPT ![a] = [phase |-> "resolved", contract |-> installed]]
    /\ UNCHANGED <<history, installed, stored, publisher, migration, published, unseen, behind>>

\* A publish that has committed since the request resolved has passed the record by.
InsertRecord(a) ==
    /\ author[a].phase = "resolved" /\ Len(stored) < history.rows
    /\ \E clash \in BOOLEAN :
        /\ clash => ~author[a].contract.declares
        /\ stored' = Append(stored, Row(author[a].contract, FALSE, clash))
    /\ behind' = IF author[a].contract = installed THEN behind ELSE behind \cup {Len(stored) + 1}
    /\ author' = [author EXCEPT ![a] = NoAuthor]
    /\ unseen' = Missed({Len(stored) + 1})
    /\ UNCHANGED <<history, installed, publisher, migration, published>>

(***************************************************************************)
(* install                                                                 *)
(***************************************************************************)
\* Compiled, and judged against the catalog that is read on another connection.
BeginPublish(p, incoming) ==
    /\ ~InProgress(p) /\ published < history.publishes
    /\ publisher' = [publisher EXCEPT ![p] =
            [NoPublish EXCEPT !.phase = "compiled", !.incoming = incoming, !.previous = installed]]
    /\ published' = published + 1
    /\ UNCHANGED <<history, installed, stored, author, migration, unseen, behind>>

\* contract_verdict
Additive(a, b) == a.shape = b.shape /\ (a.declares => b.declares)

\* Fault: the stored values are not read.
Unverified(g, b) == TRUE

\* _verify_rewrites of an additive move: no record of the group carries a value
\* that a new declaration refuses.
Verified(g, b) ==
    b.declares /\ ~g.contract.declares =>
        \A i \in DOMAIN stored : Identity(stored[i]) = g => ~stored[i].clash

Settled(g, incoming) == incoming # Undeclared /\ g = Of(incoming)

\* plan_stored_groups: a group of the previous catalog moves to the incoming
\* contract, and one from before the split without a further question.
Moves(g, previous, incoming) ==
    /\ incoming # Undeclared /\ previous # Undeclared
    /\ \/ g = Legacy(previous)
       \/ g = Of(previous) /\ Additive(previous, incoming) /\ Verified(g, incoming)

\* Fault: the plan asks of the groups of the previous catalog only.
KnownGroups(previous, incoming) ==
    {g \in Groups : g \in {Of(previous), Legacy(previous)} /\ ~Settled(g, incoming)}

\* _stored_groups, without what has the incoming contract already.
GroupsToMove(previous, incoming) == {g \in Groups : ~Settled(g, incoming)}

\* A group that nothing explains refuses the publish (catalog_incompatible).
PlanPublish(p) ==
    LET previous == publisher[p].previous
        incoming == publisher[p].incoming
        moving == GroupsToMove(previous, incoming) IN
    /\ publisher[p].phase = "compiled"
    /\ publisher' = [publisher EXCEPT ![p] =
            IF \A g \in moving : Moves(g, previous, incoming)
            THEN [@ EXCEPT !.phase = "planned", !.moves = moving]
            ELSE NoPublish]
    /\ UNCHANGED <<history, installed, stored, author, migration, published, unseen, behind>>

\* Fault: the update names the version and not the hash.
AllRows(p) == IF publisher[p].moves = {} THEN {} ELSE DOMAIN stored

\* The rows that the update finds: those still stored under a hash of the plan.
RowsToMove(p) == {i \in DOMAIN stored : Identity(stored[i]) \in publisher[p].moves}

\* _apply_rewrites: rows of an open transaction are waited for.
RewriteHashes(p) ==
    /\ publisher[p].phase = "planned"
    /\ RowsToMove(p) \cap Locked = {}
    /\ publisher' = [publisher EXCEPT ![p].phase = "rewritten", ![p].touched = RowsToMove(p)]
    /\ UNCHANGED <<history, installed, stored, author, migration, published, unseen, behind>>

\* The catalog is replaced, and the transaction commits.
CommitPublish(p) ==
    /\ publisher[p].phase = "rewritten"
    /\ stored' = Hurried(Moved(publisher[p].touched, publisher[p].incoming),
                       unseen[p] \cap publisher[p].touched)
    /\ installed' = publisher[p].incoming
    /\ publisher' = [publisher EXCEPT ![p] = NoPublish]
    /\ unseen' = [Missed(publisher[p].touched) EXCEPT ![p] = {}]
    /\ behind' = unseen[p] \ publisher[p].touched
    /\ UNCHANGED <<history, author, migration, published>>

\* An error, a timeout or a crash rolls back.
AbortPublish(p) ==
    /\ InProgress(p)
    /\ publisher' = [publisher EXCEPT ![p] = NoPublish]
    /\ unseen' = [unseen EXCEPT ![p] = {}]
    /\ UNCHANGED <<history, installed, stored, author, migration, published, behind>>

(***************************************************************************)
(* migrate_collection_hashes: batches under the catalog that was installed *)
(* when the command began, each a transaction (of one row here).           *)
(***************************************************************************)
BeginMigration ==
    /\ history.migrates /\ migration = Undeclared /\ installed # Undeclared
    /\ Legacy(installed) \in Groups
    /\ migration' = installed
    /\ UNCHANGED <<history, installed, stored, author, publisher, published, unseen, behind>>

MigrateBatch ==
    LET found == {i \in DOMAIN stored : Identity(stored[i]) = Legacy(migration)} IN
    /\ migration # Undeclared
    /\ IF found = {}
       THEN migration' = Undeclared /\ UNCHANGED <<stored, unseen>>
       ELSE \E i \in found \ Locked :
            stored' = Moved({i}, migration) /\ unseen' = Missed({i}) /\ UNCHANGED migration
    /\ UNCHANGED <<history, installed, author, publisher, published, behind>>

(***************************************************************************)
CatalogNext ==
    \/ \E a \in Authors : ResolveCatalog(a) \/ InsertRecord(a)
    \/ \E p \in Publishers :
        \/ \E incoming \in Contracts \cup {Undeclared} : BeginPublish(p, incoming)
        \/ PlanPublish(p) \/ RewriteHashes(p) \/ CommitPublish(p) \/ AbortPublish(p)
    \/ BeginMigration \/ MigrateBatch

CatalogSpec == CatalogInit /\ [][CatalogNext]_catalogVars

(***************************************************************************)
(* Properties.                                                             *)
(***************************************************************************)
\* What resolve_stored_collection accepts, or a publish or a migration mends.
Readable(r) == installed # Undeclared /\ Identity(r) \in {Of(installed), Legacy(installed)}

\* The record of a legacy workspace was written before the split.
FromBefore(i) == history.legacy /\ i = 1

\* However writers, publishes, refusals, crashes and the migration of hashes
\* overlap: each publish that commits makes every record readable that was there
\* when it planned, the ones that an earlier publish had passed by included, and a
\* record is behind only if it was written or moved while the last publish was
\* between its plan and its commit, and the update did not find it, or after that
\* by a request that resolved before.  A record from after the split stays in the
\* shape it was written in, always, and carries nothing that its contract refuses
\* unless an update moved it whose plan had not read it as it is.
StoredContractsHold ==
    \A i \in DOMAIN stored :
        /\ i \notin behind => Readable(stored[i])
        /\ ~FromBefore(i) =>
            /\ stored[i].contract.shape = stored[i].shape
            /\ ~stored[i].unjudged /\ stored[i].contract.declares => ~stored[i].clash

\* However publishes overlap, a stored contract only moves along a change that
\* keeps its meaning: the update names the hash that its plan has judged.  (Not
\* so for hashes from before the split, which move without a verdict.)
MovesKeepMeaning ==
    [][\A i \in DOMAIN stored : ~stored[i].full =>
        Additive(stored[i].contract, stored'[i].contract)]_catalogVars

\* docs/changing-definitions.md: a reinterpreting change is never published over
\* the records it would reinterpret.
NoReinterpretation == \A i \in DOMAIN stored : stored[i].contract.shape = stored[i].shape
=============================================================================
