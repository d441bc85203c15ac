------------------------------- MODULE Reembed -------------------------------
(***************************************************************************)
(* The vectors of one workspace while an operator changes its embedding    *)
(* model: enrichment, which embeds new records, passes that stage vectors  *)
(* of another space, the cutover, which promotes them batch by batch, and  *)
(* the way back (reembed.py and the embedding writes of enrichment.py).    *)
(***************************************************************************)
EXTENDS Naturals, Sequences

CONSTANTS
    Workers,    \* the executors that enrich
    None,       \* no vector
    Changes       \* what operators set out to do, with their bounds

Spaces == {"s1", "s2"}

\* An operator stages vectors before a cutover that is not forced.
ASSUME ReembedAssumption ==
    /\ None \notin Spaces
    /\ Changes \subseteq
        [rows : Nat,                  \* bound: records
         script : Seq([step : {"model", "space", "stage", "cutover", "force"}, to : Spaces]),
         crashes : BOOLEAN]           \* a command dies between its transactions
    /\ \A c \in Changes : \A k \in DOMAIN c.script : c.script[k].step = "cutover" => k > 1

VARIABLES
    change,     \* one of Changes, which does not change
    conf,     \* the embedding block of the catalog: the model, by the space it
              \* is meant for, and the space
    vectors,  \* the records' vectors: the current one and the staged ones
    embedder, \* memory of the workers
    at,       \* the step of its script
    command,  \* memory of the command in progress
    covered   \* history: the last cutover, with the rows that had a vector when it
              \* was checked

reembedVars == <<change, conf, vectors, embedder, at, command, covered>>

NoVector == [space |-> None, maker |-> None, staged |-> [s \in Spaces |-> None]]
NoEmbedder == [row |-> 0, space |-> None, maker |-> None]
NoCommand == [phase |-> "idle", row |-> 0, maker |-> None]

ReembedInit ==
    /\ change \in Changes
    /\ conf = [model |-> "s1", space |-> "s1"]
    /\ vectors = <<>>
    /\ embedder = [w \in Workers |-> NoEmbedder]
    /\ at = 1 /\ command = NoCommand
    /\ covered = [rows |-> {}, to |-> "s1", done |-> FALSE]

Embedded == {i \in DOMAIN vectors : vectors[i].space # None}
Due == IF at \in DOMAIN change.script THEN change.script[at] ELSE [step |-> "done", to |-> "s1"]

(***************************************************************************)
(* Enrichment.                                                             *)
(***************************************************************************)
NewRecord ==
    /\ Len(vectors) < change.rows
    /\ vectors' = Append(vectors, NoVector)
    /\ UNCHANGED <<change, conf, embedder, at, command, covered>>

\* A sweep reads the catalog and calls the model that it names ...
EmbedRecord(w, i) ==
    /\ embedder[w].row = 0 /\ i \notin Embedded
    /\ embedder' = [embedder EXCEPT ![w] = [row |-> i, space |-> conf.space, maker |-> conf.model]]
    /\ UNCHANGED <<change, conf, vectors, at, command, covered>>

\* ... and finalizes later, once: the row is no longer unready.
StoreVector(w) ==
    LET e == embedder[w] IN
    /\ e.row # 0
    /\ vectors' = IF e.row \in Embedded THEN vectors
                  ELSE [vectors EXCEPT ![e.row].space = e.space, ![e.row].maker = e.maker]
    /\ embedder' = [embedder EXCEPT ![w] = NoEmbedder]
    /\ UNCHANGED <<change, conf, at, command, covered>>

(***************************************************************************)
(* The operator.                                                           *)
(***************************************************************************)
Done == at' = at + 1 /\ command' = NoCommand

\* An edit of the embedding block, published.
EditConf ==
    /\ Due.step \in {"model", "space"}
    /\ conf' = [conf EXCEPT ![Due.step] = Due.to]
    /\ Done
    /\ UNCHANGED <<change, vectors, embedder, covered>>

\* _pending_rows: the first row with a vector of another space and none staged.
Unstaged(s) == {i \in Embedded : vectors[i].space # s /\ vectors[i].staged[s] = None}

\* reembed: a page is read, embedded, and staged in a transaction of its own.
\* (A page is one row.  The space of the catalog is refused: space_active.)
ReadUnstaged ==
    /\ Due.step = "stage" /\ command.phase = "idle" /\ Due.to # conf.space
    /\ IF Unstaged(Due.to) = {}
       THEN Done
       ELSE /\ \E i \in Unstaged(Due.to) :
                /\ \A j \in Unstaged(Due.to) : i <= j
                /\ command' = [phase |-> "embedded", row |-> i, maker |-> conf.model]
            /\ UNCHANGED at
    /\ UNCHANGED <<change, conf, vectors, embedder, covered>>

\* on conflict do nothing
Stage(v, s, maker) == [v EXCEPT !.staged[s] = IF @ = None THEN maker ELSE @]

StageVectors ==
    /\ Due.step = "stage" /\ command.phase = "embedded"
    /\ vectors' = [vectors EXCEPT ![command.row] = Stage(@, Due.to, command.maker)]
    /\ command' = NoCommand
    /\ UNCHANGED <<change, conf, embedder, at, covered>>

\* Fault: coverage is reported and not required.
UncheckedCoverage(s) == TRUE

\* What cutover_space counts before it begins.
CoverageComplete(s) == Unstaged(s) = {}

\* An incomplete space sends the operator back to stage the rest, unless forced.
CheckCutover ==
    /\ Due.step \in {"cutover", "force"} /\ command.phase = "idle"
    /\ IF Due.step = "force" \/ CoverageComplete(Due.to)
       THEN /\ command' = [NoCommand EXCEPT !.phase = "moving"]
            /\ covered' = [rows |-> IF Due.step = "force" THEN {} ELSE Embedded,
                           to |-> Due.to, done |-> FALSE]
            /\ UNCHANGED at
       ELSE at' = at - 1 /\ UNCHANGED <<command, covered>>
    /\ UNCHANGED <<change, conf, vectors, embedder>>

Promotable(s) == {i \in DOMAIN vectors : vectors[i].space # s /\ vectors[i].staged[s] # None}

\* Fault: the promoted vector replaces the outgoing one.
Replaced(v, s) == [v EXCEPT !.space = s, !.maker = v.staged[s]]

\* The outgoing vector is staged under its own space, and replaced.
Promoted(v, s) ==
    LET kept == IF v.space = None THEN v ELSE Stage(v, v.space, v.maker) IN
    [kept EXCEPT !.space = s, !.maker = v.staged[s]]

\* A batch of the loop of cutover_space (of one row here), until none is left.
CutoverBatch ==
    /\ command.phase = "moving"
    /\ IF Promotable(Due.to) = {}
       THEN Done /\ covered' = [covered EXCEPT !.done = TRUE] /\ UNCHANGED vectors
       ELSE /\ \E i \in Promotable(Due.to) :
                /\ \A j \in Promotable(Due.to) : i <= j
                /\ vectors' = [vectors EXCEPT ![i] = Promoted(@, Due.to)]
            /\ UNCHANGED <<at, command, covered>>
    /\ UNCHANGED <<change, conf, embedder>>

\* The command dies, and is given again.
CommandDies ==
    /\ change.crashes /\ command.phase # "idle"
    /\ command' = NoCommand
    /\ UNCHANGED <<change, conf, vectors, embedder, at, covered>>

(***************************************************************************)
ReembedNext ==
    \/ NewRecord
    \/ \E w \in Workers : (\E i \in DOMAIN vectors : EmbedRecord(w, i)) \/ StoreVector(w)
    \/ EditConf \/ ReadUnstaged \/ StageVectors \/ CheckCutover \/ CutoverBatch \/ CommandDies

ReembedSpec == ReembedInit /\ [][ReembedNext]_reembedVars

(***************************************************************************)
(* Properties.                                                             *)
(***************************************************************************)
Has(v, s, maker) == (v.space = s /\ v.maker = maker) \/ v.staged[s] = maker

\* No vector is ever discarded, through cutovers, crashes between their batches
\* and the way back (the docstring of reembed.py).
NothingDiscarded ==
    [][\A i \in DOMAIN vectors : \A s, m \in Spaces :
        Has(vectors[i], s, m) => Has(vectors'[i], s, m)]_reembedVars

\* A cutover that is done has left no record behind that had a vector when it
\* was checked, whatever crashed, and whatever is embedded meanwhile; so a way
\* back that is done is whole, too.  (A forced one is not checked, and covers nothing.)
CutoverIsWhole ==
    /\ at \in 1 .. (Len(change.script) + 1)
    /\ covered.done => \A i \in covered.rows : vectors[i].space = covered.to

\* The first line of reembed.py: without losing vector recall.  Once the steps
\* of docs/changing-definitions.md:588 are done, every vector is in the space
\* that is searched.
NoStragglers == at > Len(change.script) => \A i \in Embedded : vectors[i].space = conf.space

\* definitions/models.py:94: vectors from two models are not comparable, and a
\* space holds those of one.
SpacesPure == \A i \in Embedded : vectors[i].maker = vectors[i].space
=============================================================================
