------------------------------ MODULE MCStores ------------------------------
(***************************************************************************)
(* Small instances for TLC of the parts that keep one store in step with   *)
(* another.  A behaviour belongs to one of them, its part; the others keep *)
(* their initial state, so that their state spaces add up.                 *)
(***************************************************************************)
EXTENDS LockOrder, Projection, Catalog, Reembed, Spool, TLC

CONSTANTS x1, x2, x3,
    Parts   \* those that are looked at

VARIABLE part

storeVars == <<part, lockOrderVars, projectionVars, catalogVars, reembedVars, spoolVars>>

(* Locks: every record fires every pipeline; or the first needs two records. *)
Each == [p \in Pipelines |-> 1]
Several == [p \in Pipelines |-> IF p = 1 THEN 2 ELSE 1]
MCArrivals == {[keyed |-> {x1}, threshold |-> Each], [keyed |-> Records, threshold |-> Several]}

(* Projection: one executor that crashes and retries, with all that enqueues
   jobs; one executor and a longer slot; two executors that overlap. *)
A(executors, arriving, rows, jobs, attempts, overlap, annotates, reindexes) ==
    [executors |-> executors, arriving |-> arriving, rows |-> rows, jobs |-> jobs,
     attempts |-> attempts, overlap |-> overlap, annotates |-> annotates, reindexes |-> reindexes]
Every == {"unready", "derived", "ready"}
Later == {"unready", "derived"}
MCSettings ==
    {A({x1}, 2, Later, 2, 2, FALSE, FALSE, TRUE), A({x1}, 2, Later, 2, 1, FALSE, TRUE, TRUE),
     A({x1}, 3, Later, 1, 1, FALSE, FALSE, FALSE), A({x1}, 3, {"ready"}, 1, 1, FALSE, FALSE, FALSE),
     A({x2, x3}, 2, Every, 1, 1, TRUE, FALSE, FALSE)}

(* Records that await enrichment, and tombstones that do not. *)
MCMixed == {A({x1}, 2, {"unready", "ready"}, 2, 1, FALSE, FALSE, FALSE)}

(* Catalogs: two publishes that race a writer; and old hashes with the
   operator's migration. *)
H(rows, publishes, legacy, migrates) ==
    [rows |-> rows, publishes |-> publishes, legacy |-> legacy, migrates |-> migrates]
MCHistories == {H(2, 2, FALSE, FALSE), H(2, 2, TRUE, TRUE)}

(* Embeddings: the documented order of a change of model, there and back with
   crashes, with a third record, and with a rollback that is forced. *)
O(step, to) == [step |-> step, to |-> to]
To(s) == <<O("model", s), O("stage", s), O("cutover", s), O("space", s)>>
M(rows, script, crashes) == [rows |-> rows, script |-> script, crashes |-> crashes]
MCChanges == {M(2, To("s2") \o To("s1"), TRUE), M(3, To("s2"), FALSE),
              M(2, To("s2") \o <<O("force", "s1")>>, FALSE)}

(* The spool: messages of turns, and messages that say the same. *)
C(messages, again, turns, texts) ==
    [messages |-> messages, again |-> again, turns |-> turns, texts |-> texts]
MCSessions == {C(2, 1, TRUE, {"x"}), C(2, 1, FALSE, {"x"})}

(* What a part does not look at has one value. *)
Seen(p, choices) == IF part = p THEN choices ELSE {CHOOSE c \in choices : TRUE}

StoresInit ==
    /\ part \in Parts
    /\ arrival \in Seen("locks", Arrivals) /\ LockOrderInit
    /\ setting \in Seen("projection", Settings) /\ ProjectionInit
    /\ history \in Seen("catalog", Histories) /\ CatalogInit
    /\ change \in Seen("embeddings", Changes) /\ ReembedInit
    /\ session \in Seen("spool", Sessions) /\ SpoolInit

StoresNext ==
    \/ /\ part = "locks" /\ LockOrderNext
       /\ UNCHANGED <<part, projectionVars, catalogVars, reembedVars, spoolVars>>
    \/ /\ part = "projection" /\ ProjectionNext
       /\ UNCHANGED <<part, lockOrderVars, catalogVars, reembedVars, spoolVars>>
    \/ /\ part = "catalog" /\ CatalogNext
       /\ UNCHANGED <<part, lockOrderVars, projectionVars, reembedVars, spoolVars>>
    \/ /\ part = "embeddings" /\ ReembedNext
       /\ UNCHANGED <<part, lockOrderVars, projectionVars, catalogVars, spoolVars>>
    \/ /\ part = "spool" /\ SpoolNext
       /\ UNCHANGED <<part, lockOrderVars, projectionVars, catalogVars, reembedVars>>

StoresSpec == StoresInit /\ [][StoresNext]_storeVars

StoresSymmetry == Permutations({x2, x3})
=============================================================================
