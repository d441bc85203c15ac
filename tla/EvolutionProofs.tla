-------------------------- MODULE EvolutionProofs --------------------------
(***************************************************************************)
(* What changing a living workspace keeps.  Stored contracts hold and move *)
(* along changes that keep their meaning, for every number of writers,     *)
(* publishers, records and publishes.  No vector is discarded and a        *)
(* cutover that is done is whole, for every number of records and workers  *)
(* and every sequence of commands.                                         *)
(***************************************************************************)
EXTENDS Catalog, Reembed, TLAPS

(***************************************************************************)
(* The catalog and its stored contracts.                                   *)
(***************************************************************************)
ContractOrNot == Contracts \cup {Undeclared}
Rows == [contract : Contracts, full : BOOLEAN, clash : BOOLEAN, shape : {"old", "new"}, unjudged : BOOLEAN]
Hashes == [contract : Contracts, full : BOOLEAN]
AuthorTypes == [phase : {"idle", "resolved"}, contract : ContractOrNot]
PublisherTypes ==
    [phase : {"idle", "compiled", "planned", "rewritten"}, incoming : ContractOrNot,
     previous : ContractOrNot, moves : SUBSET Hashes, touched : SUBSET Nat]

CatalogTypes ==
    /\ history \in Histories
    /\ installed \in ContractOrNot
    /\ stored \in Seq(Rows)
    /\ author \in [Authors -> AuthorTypes]
    /\ publisher \in [Publishers -> PublisherTypes]
    /\ migration \in ContractOrNot
    /\ published \in Nat /\ unseen \in [Publishers -> SUBSET Nat] /\ behind \in SUBSET Nat

\* What plan_stored_groups has judged: hashes of the previous contract, in
\* either form, and an incoming contract that keeps the meaning of the new form.
Judged(P) ==
    \A g \in P.moves :
        /\ P.incoming \in Contracts /\ P.previous \in Contracts
        /\ g = Legacy(P.previous) \/ (g = Of(P.previous) /\ Additive(P.previous, P.incoming))

\* The rows that an update has locked are still stored under a hash of its plan,
\* for nobody else has them.
LocksItsOwn(P) ==
    /\ P.phase # "rewritten" => P.touched = {}
    /\ P.touched \subseteq DOMAIN stored
    /\ \A i \in P.touched : Identity(stored[i]) \in P.moves

LocksExclude ==
    \A p, q \in Publishers : p # q => publisher[p].touched \cap publisher[q].touched = {}

\* A plan speaks of every row that was neither written nor moved since, and has
\* read its values; and the update has locked what the plan speaks of.
CoversStored(p) ==
    LET P == publisher[p] IN
    Planned(p) => \A i \in DOMAIN stored : i \notin unseen[p] =>
        /\ Settled(Identity(stored[i]), P.incoming) \/ Identity(stored[i]) \in P.moves
        /\ ~FromBefore(i) /\ ~stored[i].unjudged /\ Identity(stored[i]) \in P.moves /\ P.incoming.declares
               => ~stored[i].clash
        /\ P.phase = "rewritten" /\ Identity(stored[i]) \in P.moves => i \in P.touched

\* What holds of a row that the last publish has not passed by, and of any row.
Holds(i) ==
    /\ i \notin behind => Readable(stored[i])
    /\ ~FromBefore(i) =>
        /\ ~stored[i].full /\ stored[i].contract.shape = stored[i].shape
        /\ ~stored[i].unjudged => (stored[i].contract.declares => ~stored[i].clash)

CatalogInv ==
    /\ CatalogTypes
    /\ \A a \in Authors : author[a].phase = "resolved" => author[a].contract \in Contracts
    /\ \A p \in Publishers : Judged(publisher[p]) /\ LocksItsOwn(publisher[p])
    /\ LocksExclude
    /\ \A p \in Publishers : CoversStored(p)
    /\ \A i \in DOMAIN stored : Holds(i)

USE CatalogAssumption

-----------------------------------------------------------------------------
(* Hashes.                                                                 *)

LEMMA HashTypes ==
  ASSUME NEW r \in Rows
  PROVE  /\ Identity(r) \in Hashes
         /\ Identity(r).contract = r.contract /\ Identity(r).full = r.full
  BY DEF Identity, Hashes, Rows

LEMMA HashFacts ==
  ASSUME NEW r \in Rows, NEW c \in Contracts
  PROVE  /\ Identity(r) = Of(c) <=> r.contract = c /\ ~r.full
         /\ Identity(r) = Legacy(c) <=> r.contract = c /\ r.full
  BY DEF Identity, Of, Legacy, Rows

IsRow(r, c, full, clash) ==
    /\ r \in Rows /\ r.contract = c /\ r.shape = c.shape
    /\ r.full = full /\ r.clash = clash /\ ~r.unjudged

LEMMA RowFacts ==
  \A c \in Contracts : \A full, clash \in BOOLEAN :
    IsRow(Row(c, full, clash), c, full, clash)
  BY DEF IsRow, Row, Rows, Contracts

LEMMA StoredRows ==
  ASSUME CatalogTypes, NEW i \in DOMAIN stored
  PROVE  stored[i] \in Rows
  BY DEF CatalogTypes

LEMMA AdditiveToItself ==
  ASSUME NEW c
  PROVE  Additive(c, c)
  BY DEF Additive

\* A row that is moved takes the contract, and loses the form of before the split.
IsMoved(s, rows, c) ==
    /\ s \in Seq(Rows) /\ DOMAIN s = DOMAIN stored
    /\ \A i \in DOMAIN stored :
        /\ s[i] \in Rows
        /\ i \notin rows => s[i] = stored[i]
        /\ i \in rows => s[i].contract = c /\ ~s[i].full
        /\ s[i].clash = stored[i].clash /\ s[i].unjudged = stored[i].unjudged /\ s[i].shape = stored[i].shape

LEMMA MovedFacts ==
  ASSUME CatalogTypes, NEW rows, NEW c \in Contracts
  PROVE  IsMoved(Moved(rows, c), rows, c)
<1>. DEFINE F(i) == IF i \in rows THEN [stored[i] EXCEPT !.contract = c, !.full = FALSE] ELSE stored[i]
            s == Moved(rows, c)
<1>1. s = [i \in DOMAIN stored |-> F(i)]
  BY DEF Moved
<1>2. \A i \in DOMAIN stored : [stored[i] EXCEPT !.contract = c, !.full = FALSE] \in Rows
  <2>1. TAKE i \in DOMAIN stored
  <2>2. stored[i] \in Rows
    BY StoredRows
  <2>. QED
    BY <2>2 DEF Rows
<1>3. \A i \in DOMAIN stored : F(i) \in Rows
  BY <1>2, StoredRows
<1>4. \A i \in DOMAIN stored :
        /\ i \notin rows => F(i) = stored[i]
        /\ i \in rows => F(i).contract = c /\ ~F(i).full
        /\ F(i).clash = stored[i].clash /\ F(i).unjudged = stored[i].unjudged /\ F(i).shape = stored[i].shape
  <2>1. TAKE i \in DOMAIN stored
  <2>2. stored[i] \in Rows
    BY StoredRows
  <2>. QED
    BY <2>2 DEF Rows
<1>. HIDE DEF F, s
<1>5. DOMAIN stored = 1 .. Len(stored) /\ Len(stored) \in Nat
  BY DEF CatalogTypes
<1>6. s \in Seq(Rows) /\ DOMAIN s = DOMAIN stored
  BY <1>1, <1>3, <1>5
<1>7. \A i \in DOMAIN stored : s[i] = F(i)
  BY <1>1
<1>8. IsMoved(s, rows, c)
  BY <1>3, <1>4, <1>6, <1>7 DEF IsMoved
<1>. QED
  BY <1>8 DEF s

\* Nothing is moved by an update without rows.
LEMMA NothingMoved ==
  ASSUME CatalogTypes, NEW c
  PROVE  IsMoved(Moved({}, c), {}, c)
<1>1. Moved({}, c) = stored
  <2>1. Moved({}, c) = [i \in DOMAIN stored |-> stored[i]]
    BY DEF Moved
  <2>. QED
    BY <2>1 DEF CatalogTypes
<1>2. stored \in Seq(Rows) /\ \A i \in DOMAIN stored : stored[i] \in Rows
  BY StoredRows DEF CatalogTypes
<1>. QED
  BY <1>1, <1>2 DEF IsMoved

\* What was moved although the plan had not read it is marked.
IsMarked(s, rows, c, missed) ==
    /\ s \in Seq(Rows) /\ DOMAIN s = DOMAIN stored
    /\ \A i \in DOMAIN stored :
        /\ s[i] \in Rows /\ (~s[i].unjudged => ~stored[i].unjudged /\ i \notin missed)
        /\ i \notin rows => s[i].contract = stored[i].contract /\ s[i].full = stored[i].full
        /\ i \in rows => s[i].contract = c /\ ~s[i].full
        /\ s[i].clash = stored[i].clash /\ s[i].shape = stored[i].shape

LEMMA MarkFacts ==
  ASSUME CatalogTypes, NEW moved, NEW rows, NEW c, IsMoved(moved, rows, c), NEW missed
  PROVE  IsMarked(Hurried(moved, missed), rows, c, missed)
<1>. DEFINE s == Hurried(moved, missed)
            F(i) == [moved[i] EXCEPT !.unjudged = @ \/ i \in missed]
<1>1. ASSUME NEW i \in DOMAIN stored
      PROVE  /\ F(i) \in Rows /\ (F(i).unjudged <=> moved[i].unjudged \/ i \in missed)
             /\ F(i).contract = moved[i].contract /\ F(i).full = moved[i].full
             /\ F(i).clash = moved[i].clash /\ F(i).shape = moved[i].shape
  <2>1. moved[i] \in Rows
    BY DEF IsMoved
  <2>2. (moved[i].unjudged \/ i \in missed) \in BOOLEAN
    OBVIOUS
  <2>. DEFINE b == moved[i].unjudged \/ i \in missed
  <2>3. F(i) = [moved[i] EXCEPT !.unjudged = b]
    OBVIOUS
  <2>4. b \in BOOLEAN
    BY <2>2
  <2>5. ASSUME NEW x \in BOOLEAN
        PROVE  /\ [moved[i] EXCEPT !.unjudged = x] \in Rows
               /\ [moved[i] EXCEPT !.unjudged = x].unjudged = x
               /\ [moved[i] EXCEPT !.unjudged = x].contract = moved[i].contract
               /\ [moved[i] EXCEPT !.unjudged = x].full = moved[i].full
               /\ [moved[i] EXCEPT !.unjudged = x].clash = moved[i].clash
               /\ [moved[i] EXCEPT !.unjudged = x].shape = moved[i].shape
    BY <2>1 DEF Rows
  <2>. HIDE DEF F, b
  <2>6. F(i).unjudged = b
    BY <2>3, <2>4, <2>5
  <2>7. F(i).unjudged <=> moved[i].unjudged \/ i \in missed
    BY <2>6 DEF b
  <2>. QED
    BY <2>3, <2>4, <2>5, <2>7
<1>2. DOMAIN stored = 1 .. Len(stored) /\ Len(stored) \in Nat
  BY DEF CatalogTypes
<1>3. s = [i \in DOMAIN stored |-> F(i)]
  BY DEF Hurried, IsMoved
<1>. HIDE DEF F, s
<1>4. s \in Seq(Rows) /\ DOMAIN s = DOMAIN stored
  BY <1>1, <1>2, <1>3
<1>5. \A i \in DOMAIN stored : s[i] = F(i)
  BY <1>3
<1>6. ASSUME NEW i \in DOMAIN stored
      PROVE  /\ s[i] \in Rows /\ (~s[i].unjudged => ~stored[i].unjudged /\ i \notin missed)
             /\ i \notin rows => s[i].contract = stored[i].contract /\ s[i].full = stored[i].full
             /\ i \in rows => s[i].contract = c /\ ~s[i].full
             /\ s[i].clash = stored[i].clash /\ s[i].shape = stored[i].shape
  <2>1. /\ i \notin rows => moved[i] = stored[i]
        /\ i \in rows => moved[i].contract = c /\ ~moved[i].full
        /\ moved[i].clash = stored[i].clash /\ moved[i].unjudged = stored[i].unjudged
        /\ moved[i].shape = stored[i].shape
    BY DEF IsMoved
  <2>2. s[i] = F(i)
    BY <1>5
  <2>. QED
    BY <1>1, <2>1, <2>2
<1>7. IsMarked(s, rows, c, missed)
  BY <1>4, <1>6 DEF IsMarked
<1>. QED
  BY <1>7 DEF s

-----------------------------------------------------------------------------
(* Invariance.                                                             *)

LEMMA InitCatalog == CatalogInit => CatalogInv
<1>. SUFFICES ASSUME CatalogInit PROVE CatalogInv
  OBVIOUS
<1>. DEFINE old == Row(First, TRUE, TRUE)
<1>1. First \in Contracts
  BY DEF First, Contracts
<1>2. /\ old \in Rows /\ old.contract = First /\ old.full = TRUE
  BY <1>1, RowFacts DEF IsRow
<1>3. history \in Histories /\ stored = IF history.legacy THEN <<old>> ELSE <<>>
  BY DEF CatalogInit
<1>. HIDE DEF old
<1>5. stored \in Seq(Rows) /\ \A i \in DOMAIN stored : history.legacy /\ i = 1 /\ stored[i] = old
  <2>1. CASE history.legacy
    BY <1>2, <1>3, <2>1
  <2>2. CASE ~history.legacy
    BY <1>3, <2>2
  <2>. QED
    BY <2>1, <2>2
<1>n. NoPublish \in PublisherTypes
  BY DEF NoPublish, PublisherTypes, ContractOrNot
<1>a. NoAuthor \in AuthorTypes
  BY DEF NoAuthor, AuthorTypes, ContractOrNot
<1>4. CatalogTypes
  BY <1>1, <1>5, <1>n, <1>a DEF CatalogInit, CatalogTypes, ContractOrNot
<1>6. \A i \in DOMAIN stored : Holds(i)
  <2>1. TAKE i \in DOMAIN stored
  <2>2. stored[i] \in Rows /\ stored[i].contract = installed /\ stored[i].full /\ FromBefore(i)
    BY <1>2, <1>5 DEF CatalogInit, FromBefore
  <2>3. Identity(stored[i]) = Legacy(installed) /\ installed # Undeclared
    BY <1>1, <2>2, HashFacts DEF CatalogInit
  <2>. QED
    BY <2>2, <2>3 DEF Holds, Readable
<1>7. \A p \in Publishers : publisher[p] = NoPublish /\ Judged(publisher[p]) /\ LocksItsOwn(publisher[p])
                            /\ CoversStored(p)
  BY DEF CatalogInit, NoPublish, Judged, LocksItsOwn, CoversStored, Planned
<1>8. \A a \in Authors : author[a].phase # "resolved"
  BY DEF CatalogInit, NoAuthor
<1>9. LocksExclude
  BY <1>7 DEF LocksExclude, NoPublish
<1>. QED
  BY <1>4, <1>6, <1>7, <1>8, <1>9 DEF CatalogInv

\* What a publisher does to its own memory.
LEMMA PublisherMoves ==
  ASSUME CatalogInv, NEW p \in Publishers, NEW P \in PublisherTypes,
         publisher' = [publisher EXCEPT ![p] = P],
         UNCHANGED <<history, installed, stored, author, migration, behind>>, published' \in Nat,
         unseen' \in [Publishers -> SUBSET Nat],
         \A q \in Publishers : q # p => unseen'[q] = unseen[q],
         Judged(P), LocksItsOwn(P),
         P.touched # {} => P.touched \cap Locked = {},
         CoversStored(p)'
  PROVE  CatalogInv'
<1>1. \A q \in Publishers : publisher'[q] = IF q = p THEN P ELSE publisher[q]
  BY DEF CatalogInv, CatalogTypes
<1>2. CatalogTypes'
  BY DEF CatalogInv, CatalogTypes
<1>3. \A q \in Publishers : Judged(publisher[q])' /\ LocksItsOwn(publisher[q])'
  BY <1>1 DEF CatalogInv, Judged, LocksItsOwn
<1>4. LocksExclude'
  BY <1>1 DEF CatalogInv, LocksExclude, Locked
<1>5. ASSUME NEW q \in Publishers, q # p PROVE CoversStored(q)'
  <2>1. publisher'[q] = publisher[q] /\ CoversStored(q)
    BY <1>1, <1>5 DEF CatalogInv
  <2>. QED
    BY <1>5, <2>1 DEF CoversStored, Planned, FromBefore
<1>6. \A i \in DOMAIN stored' : Holds(i)'
  BY DEF CatalogInv, Holds, Readable, FromBefore
<1>7. \A a \in Authors : author'[a].phase = "resolved" => author'[a].contract \in Contracts
  BY DEF CatalogInv
<1>. QED
  BY <1>2, <1>3, <1>4, <1>5, <1>6, <1>7 DEF CatalogInv

\* Rows are added to what the publishers that have planned do not know.
LEMMA MissedFacts ==
  ASSUME CatalogTypes, NEW rows, rows \subseteq Nat
  PROVE  /\ Missed(rows) \in [Publishers -> SUBSET Nat]
         /\ \A p \in Publishers : unseen[p] \subseteq Missed(rows)[p]
         /\ \A p \in Publishers : Planned(p) => rows \subseteq Missed(rows)[p]
  BY DEF CatalogTypes, Missed

\* What a writer appends is valid under the catalog that it resolved, which is
\* the installed one unless a publish has overtaken the request.
LEMMA WriterStep ==
  ASSUME CatalogInv, NEW a \in Authors, ResolveCatalog(a) \/ InsertRecord(a)
  PROVE  CatalogInv'
<1>u. UNCHANGED <<history, installed, publisher, migration, published>>
  BY DEF ResolveCatalog, InsertRecord
<1>s. LocksExclude'
  BY <1>u DEF CatalogInv, LocksExclude
<1>1. CASE ResolveCatalog(a)
  <2>1. /\ author' = [author EXCEPT ![a] = [phase |-> "resolved", contract |-> installed]]
        /\ UNCHANGED <<stored, unseen, behind>> /\ installed \in Contracts
    BY <1>1 DEF ResolveCatalog, CatalogInv, CatalogTypes, ContractOrNot
  <2>2. \A b \in Authors : author'[b] = IF b = a THEN [phase |-> "resolved", contract |-> installed] ELSE author[b]
    BY <2>1 DEF CatalogInv, CatalogTypes
  <2>3. CatalogTypes'
    BY <1>u, <2>1 DEF CatalogInv, CatalogTypes, AuthorTypes
  <2>4. \A b \in Authors : author'[b].phase = "resolved" => author'[b].contract \in Contracts
    BY <2>1, <2>2 DEF CatalogInv
  <2>5. \A p \in Publishers : (Judged(publisher[p]) /\ LocksItsOwn(publisher[p]))'
    BY <1>u, <2>1 DEF CatalogInv, Judged, LocksItsOwn
  <2>6. /\ \A p \in Publishers : CoversStored(p)'
        /\ \A i \in DOMAIN stored' : Holds(i)'
    BY <1>u, <2>1 DEF CatalogInv, CoversStored, Planned, FromBefore, Holds, Readable
  <2>. QED
    BY <1>s, <2>3, <2>4, <2>5, <2>6 DEF CatalogInv
<1>2. CASE InsertRecord(a)
  <2>0. PICK clash \in BOOLEAN :
          /\ clash => ~author[a].contract.declares
          /\ stored' = Append(stored, Row(author[a].contract, FALSE, clash))
    BY <1>2 DEF InsertRecord
  <2>. DEFINE new == Row(author[a].contract, FALSE, clash)
  <2>c. author[a].contract \in Contracts
    BY <1>2 DEF CatalogInv, InsertRecord
  <2>1. /\ new \in Rows /\ new.contract = author[a].contract /\ new.full = FALSE
        /\ new.clash = clash /\ new.shape = new.contract.shape
    <3>1. IsRow(new, author[a].contract, FALSE, clash)
      BY <2>c, RowFacts, Zenon
    <3>. HIDE DEF new
    <3>. QED
      BY <3>1 DEF IsRow
  <2>2. behind' = IF new.contract = installed THEN behind ELSE behind \cup {Len(stored) + 1}
    BY <1>2, <2>1 DEF InsertRecord
  <2>3. new.clash => ~new.contract.declares
    BY <2>0, <2>1
  <2>. HIDE DEF new
  <2>4. stored \in Seq(Rows) /\ stored' = Append(stored, new)
    BY <2>0 DEF CatalogInv, CatalogTypes, new
  <2>5. /\ stored' \in Seq(Rows)
        /\ \A i \in DOMAIN stored : i \in DOMAIN stored' /\ stored'[i] = stored[i]
        /\ \A i \in DOMAIN stored' : i \in DOMAIN stored \/ (i = Len(stored) + 1 /\ stored'[i] = new)
    BY <2>1, <2>4
  <2>6. author' = [author EXCEPT ![a] = NoAuthor] /\ unseen' = Missed({Len(stored) + 1})
    BY <1>2 DEF InsertRecord
  <2>7. \A b \in Authors : author'[b] = IF b = a THEN NoAuthor ELSE author[b]
    BY <2>6 DEF CatalogInv, CatalogTypes
  <2>m. /\ unseen' \in [Publishers -> SUBSET Nat]
        /\ \A p \in Publishers : unseen[p] \subseteq unseen'[p]
        /\ \A p \in Publishers : Planned(p) => Len(stored) + 1 \in unseen'[p]
    <3>1. {Len(stored) + 1} \subseteq Nat /\ CatalogTypes
      BY <2>4 DEF CatalogInv
    <3>. QED
      BY <2>6, <3>1, MissedFacts
  <2>8. CatalogTypes'
    <3>1. behind' \in SUBSET Nat
      <4>1. {Len(stored) + 1} \subseteq Nat /\ behind \subseteq Nat
        BY <2>4 DEF CatalogInv, CatalogTypes
      <4>. QED
        BY <2>2, <4>1
    <3>. QED
      BY <1>u, <2>5, <2>6, <2>m, <3>1 DEF CatalogInv, CatalogTypes, NoAuthor, AuthorTypes, ContractOrNot
  <2>9. \A b \in Authors : author'[b].phase = "resolved" => author'[b].contract \in Contracts
    BY <2>7 DEF CatalogInv, NoAuthor
  <2>10. \A p \in Publishers : (Judged(publisher[p]) /\ LocksItsOwn(publisher[p]))'
    BY <1>u, <2>5 DEF CatalogInv, Judged, LocksItsOwn
  <2>11. \A p \in Publishers : CoversStored(p)'
    <3>1. TAKE p \in Publishers
    <3>2. ASSUME Planned(p), NEW i \in DOMAIN stored', i \notin unseen'[p]
          PROVE  i \in DOMAIN stored /\ stored'[i] = stored[i] /\ i \notin unseen[p]
      BY <2>5, <2>m, <3>2
    <3>3. CoversStored(p)
      BY DEF CatalogInv
    <3>. QED
      BY <1>u, <3>2, <3>3 DEF CoversStored, Planned, FromBefore
  <2>12. \A i \in DOMAIN stored' : Holds(i)'
    <3>1. ASSUME Len(stored) + 1 \notin behind' PROVE Identity(new) = Of(installed) /\ installed # Undeclared
      BY <2>1, <2>2, <2>c, <3>1, HashFacts
    <3>2. /\ Len(stored) + 1 \notin behind' => Identity(new) = Of(installed) /\ installed # Undeclared
          /\ ~new.full /\ new.contract.shape = new.shape
          /\ new.contract.declares => ~new.clash
          /\ behind \subseteq behind'
      BY <2>1, <2>2, <2>3, <3>1
    <3>3. \A i \in DOMAIN stored : Holds(i)
      BY DEF CatalogInv
    <3>. QED
      BY <1>u, <2>5, <3>2, <3>3 DEF Holds, Readable, FromBefore
  <2>. QED
    BY <1>s, <2>8, <2>9, <2>10, <2>11, <2>12 DEF CatalogInv
<1>. QED
  BY <1>1, <1>2

LEMMA BeginStep ==
  ASSUME CatalogInv, NEW p \in Publishers, NEW incoming \in ContractOrNot, BeginPublish(p, incoming)
  PROVE  CatalogInv'
<1>. DEFINE P == [NoPublish EXCEPT !.phase = "compiled", !.incoming = incoming, !.previous = installed]
<1>n. NoPublish \in PublisherTypes /\ NoPublish.moves = {} /\ NoPublish.touched = {}
  BY DEF NoPublish, PublisherTypes, ContractOrNot
<1>p. /\ P \in PublisherTypes /\ P.moves = {} /\ P.touched = {} /\ P.phase = "compiled"
  BY <1>n DEF PublisherTypes, CatalogInv, CatalogTypes
<1>1. P \in PublisherTypes /\ Judged(P) /\ LocksItsOwn(P)
  BY <1>p DEF Judged, LocksItsOwn
<1>2. publisher' = [publisher EXCEPT ![p] = P]
  BY DEF BeginPublish
<1>. HIDE DEF P
<1>3. /\ UNCHANGED <<history, installed, stored, author, migration, behind>>
      /\ published' = published + 1 /\ unseen' = unseen
  BY DEF BeginPublish
<1>4. published' \in Nat /\ unseen' \in [Publishers -> SUBSET Nat]
  BY <1>3 DEF CatalogInv, CatalogTypes
<1>5. publisher'[p] = P
  BY <1>2 DEF CatalogInv, CatalogTypes
<1>6. CoversStored(p)'
  BY <1>p, <1>5 DEF CoversStored, Planned
<1>. QED
  BY <1>p, <1>1, <1>2, <1>3, <1>4, <1>6, PublisherMoves

\* A publish ends without a trace.
LEMMA GivesUp ==
  ASSUME CatalogInv, NEW p \in Publishers, publisher' = [publisher EXCEPT ![p] = NoPublish],
         UNCHANGED <<history, installed, stored, author, migration, published, behind>>,
         unseen' \in [Publishers -> SUBSET Nat],
         \A q \in Publishers : q # p => unseen'[q] = unseen[q]
  PROVE  CatalogInv'
<1>1. /\ NoPublish \in PublisherTypes /\ Judged(NoPublish) /\ LocksItsOwn(NoPublish)
      /\ NoPublish.touched = {} /\ NoPublish.phase = "idle"
  BY DEF NoPublish, PublisherTypes, ContractOrNot, Judged, LocksItsOwn
<1>2. publisher'[p] = NoPublish
  BY DEF CatalogInv, CatalogTypes
<1>3. CoversStored(p)'
  BY <1>1, <1>2 DEF CoversStored, Planned
<1>4. published' \in Nat
  BY DEF CatalogInv, CatalogTypes
<1>. QED
  BY <1>1, <1>3, <1>4, PublisherMoves

LEMMA AbortStep ==
  ASSUME CatalogInv, NEW p \in Publishers, AbortPublish(p)
  PROVE  CatalogInv'
<1>1. /\ publisher' = [publisher EXCEPT ![p] = NoPublish] /\ unseen' = [unseen EXCEPT ![p] = {}]
      /\ UNCHANGED <<history, installed, stored, author, migration, published, behind>>
  BY DEF AbortPublish
<1>2. /\ unseen' \in [Publishers -> SUBSET Nat]
      /\ \A q \in Publishers : q # p => unseen'[q] = unseen[q]
  BY <1>1 DEF CatalogInv, CatalogTypes
<1>. QED
  BY <1>1, <1>2, GivesUp

\* Every group is judged, or the publish is refused.
LEMMA PlanStep ==
  ASSUME CatalogInv, NEW p \in Publishers, PlanPublish(p)
  PROVE  CatalogInv'
<1>. DEFINE previous == publisher[p].previous
            incoming == publisher[p].incoming
            moving == GroupsToMove(previous, incoming)
            P == [publisher[p] EXCEPT !.phase = "planned", !.moves = moving]
<1>1. /\ UNCHANGED <<history, installed, stored, author, migration, published, unseen, behind>>
      /\ publisher[p].phase = "compiled"
      /\ publisher' = [publisher EXCEPT ![p] =
            IF \A g \in moving : Moves(g, previous, incoming) THEN P ELSE NoPublish]
  BY DEF PlanPublish, CatalogInv, CatalogTypes
<1>2. CASE ~(\A g \in moving : Moves(g, previous, incoming))
  <2>1. unseen' \in [Publishers -> SUBSET Nat] /\ \A q \in Publishers : unseen'[q] = unseen[q]
    BY <1>1 DEF CatalogInv, CatalogTypes
  <2>. QED
    BY <1>1, <1>2, <2>1, GivesUp
<1>3. CASE \A g \in moving : Moves(g, previous, incoming)
  <2>1. publisher' = [publisher EXCEPT ![p] = P]
    BY <1>1, <1>3
  <2>2. publisher[p] \in PublisherTypes /\ publisher[p].touched = {}
    BY <1>1 DEF CatalogInv, CatalogTypes, LocksItsOwn
  <2>3. moving \in SUBSET Hashes
    BY StoredRows, HashTypes DEF Groups, GroupsToMove, CatalogInv
  <2>4. previous \in ContractOrNot /\ incoming \in ContractOrNot
    BY <2>2 DEF PublisherTypes
  <2>5. /\ P \in PublisherTypes /\ P.phase = "planned" /\ P.moves = moving /\ P.touched = {}
        /\ P.previous = previous /\ P.incoming = incoming
    BY <2>2, <2>3 DEF PublisherTypes
  <2>6. \A i \in DOMAIN stored : Settled(Identity(stored[i]), incoming) \/ Identity(stored[i]) \in moving
    BY DEF Groups, GroupsToMove
  <2>7. \A g \in moving : /\ previous \in Contracts /\ incoming \in Contracts
                          /\ g = Legacy(previous) \/ (g = Of(previous) /\ Additive(previous, incoming) /\ Verified(g, incoming))
    BY <1>3, <2>4 DEF Moves, ContractOrNot
  <2>. HIDE DEF P, moving, previous, incoming
  <2>8. Judged(P)
    BY <2>5, <2>7 DEF Judged
  <2>9. LocksItsOwn(P)
    BY <2>5 DEF LocksItsOwn
  <2>10. publisher'[p] = P
    BY <2>1 DEF CatalogInv, CatalogTypes
  <2>13. ASSUME NEW i \in DOMAIN stored, ~FromBefore(i), incoming \in Contracts, incoming.declares,
                ~stored[i].unjudged, Identity(stored[i]) \in moving
         PROVE  ~stored[i].clash
    <3>1. stored[i] \in Rows /\ Holds(i)
      BY StoredRows DEF CatalogInv
    <3>2. ~stored[i].full /\ (stored[i].contract.declares => ~stored[i].clash)
      BY <2>13, <3>1 DEF Holds
    <3>3. Identity(stored[i]) # Legacy(previous) /\ previous \in Contracts
      BY <2>7, <2>13, <3>1, <3>2, HashFacts
    <3>4. Verified(Identity(stored[i]), incoming)
      BY <2>7, <2>13, <3>3
    <3>5. Identity(stored[i]).contract = stored[i].contract
      BY <3>1, HashTypes
    <3>. QED
      BY <2>13, <3>2, <3>4, <3>5 DEF Verified
  <2>14. CoversStored(p)'
    <3>1. UNCHANGED <<history, stored, unseen>>
      BY <1>1
    <3>2. incoming \in Contracts \/ moving = {}
      BY <2>7
    <3>. QED
      BY <2>5, <2>6, <2>10, <2>13, <3>1, <3>2 DEF CoversStored, FromBefore
  <2>15. published' \in Nat /\ unseen' \in [Publishers -> SUBSET Nat]
         /\ \A q \in Publishers : unseen'[q] = unseen[q]
    BY <1>1 DEF CatalogInv, CatalogTypes
  <2>. QED
    BY <1>1, <2>1, <2>5, <2>8, <2>9, <2>14, <2>15, PublisherMoves
<1>. QED
  BY <1>2, <1>3

LEMMA RewriteStep ==
  ASSUME CatalogInv, NEW p \in Publishers, RewriteHashes(p)
  PROVE  CatalogInv'
<1>. DEFINE rows == RowsToMove(p)
            P == [publisher[p] EXCEPT !.phase = "rewritten", !.touched = rows]
<1>1. /\ UNCHANGED <<history, installed, stored, author, migration, published, unseen, behind>>
      /\ publisher[p].phase = "planned" /\ rows \cap Locked = {}
      /\ publisher[p] \in PublisherTypes
  BY DEF RewriteHashes, CatalogInv, CatalogTypes
<1>2. rows \in SUBSET Nat /\ rows \subseteq DOMAIN stored
  BY DEF RowsToMove, CatalogInv, CatalogTypes
<1>3. publisher' = [publisher EXCEPT ![p] = P]
  <2>1. publisher' = [publisher EXCEPT ![p].phase = "rewritten", ![p].touched = rows]
    BY DEF RewriteHashes
  <2>. QED
    BY <1>1, <2>1 DEF CatalogInv, CatalogTypes
<1>4. /\ P \in PublisherTypes /\ P.phase = "rewritten" /\ P.moves = publisher[p].moves /\ P.touched = rows
      /\ P.previous = publisher[p].previous /\ P.incoming = publisher[p].incoming
  BY <1>1, <1>2 DEF PublisherTypes
<1>. HIDE DEF P
<1>5. Judged(P)
  BY <1>4 DEF CatalogInv, Judged
<1>6. LocksItsOwn(P)
  BY <1>2, <1>4 DEF LocksItsOwn, RowsToMove
<1>7. publisher'[p] = P
  BY <1>3 DEF CatalogInv, CatalogTypes
<1>8. CoversStored(p)'
  <2>1. CoversStored(p) /\ Planned(p)
    BY <1>1 DEF CatalogInv, Planned
  <2>. QED
    BY <1>1, <1>4, <1>7, <2>1 DEF CoversStored, RowsToMove, FromBefore
<1>9. published' \in Nat /\ unseen' \in [Publishers -> SUBSET Nat]
      /\ \A q \in Publishers : unseen'[q] = unseen[q]
  BY <1>1 DEF CatalogInv, CatalogTypes
<1>10. P.touched # {} => P.touched \cap Locked = {}
  BY <1>1, <1>4
<1>11. P \in PublisherTypes
  BY <1>4
<1>12. UNCHANGED <<history, installed, stored, author, migration, behind>>
  BY <1>1
<1>. HIDE DEF rows
<1>. QED
  BY <1>3, <1>5, <1>6, <1>8, <1>9, <1>10, <1>11, <1>12, PublisherMoves

\* The rows of the plan take the incoming contract, and the catalog with them.
LEMMA CommitStep ==
  ASSUME CatalogInv, NEW p \in Publishers, CommitPublish(p)
  PROVE  /\ CatalogInv'
         /\ \A i \in DOMAIN stored : ~stored[i].full =>
                Additive(stored[i].contract, stored'[i].contract)
<1>. DEFINE P == publisher[p]
            moved == Moved(P.touched, P.incoming)
<1>1. /\ stored' = Hurried(moved, unseen[p] \cap P.touched)
      /\ installed' = P.incoming
      /\ publisher' = [publisher EXCEPT ![p] = NoPublish] /\ P.phase = "rewritten"
      /\ unseen' = [Missed(P.touched) EXCEPT ![p] = {}] /\ behind' = unseen[p] \ P.touched
      /\ UNCHANGED <<history, author, migration, published>>
  BY DEF CommitPublish
<1>2. /\ CatalogTypes /\ P \in PublisherTypes /\ Judged(P) /\ LocksItsOwn(P) /\ Planned(p)
  BY <1>1 DEF CatalogInv, CatalogTypes, Planned
<1>3. P.touched # {} => P.incoming \in Contracts /\ P.previous \in Contracts
  BY <1>2 DEF Judged, LocksItsOwn
<1>m. /\ stored' \in Seq(Rows) /\ DOMAIN stored' = DOMAIN stored
      /\ \A i \in DOMAIN stored :
            /\ stored'[i] \in Rows /\ (~stored'[i].unjudged => ~stored[i].unjudged /\ i \notin unseen[p] \cap P.touched)
            /\ i \notin P.touched => /\ stored'[i].contract = stored[i].contract
                                     /\ stored'[i].full = stored[i].full
            /\ i \in P.touched => stored'[i].contract = P.incoming /\ ~stored'[i].full
            /\ stored'[i].clash = stored[i].clash /\ stored'[i].shape = stored[i].shape
  <2>1. IsMoved(moved, P.touched, P.incoming)
    BY <1>2, <1>3, MovedFacts, NothingMoved
  <2>. HIDE DEF moved, P
  <2>2. IsMarked(stored', P.touched, P.incoming, unseen[p] \cap P.touched)
    BY <1>1, <1>2, <2>1, MarkFacts
  <2>. QED
    BY <2>2 DEF IsMarked
<1>i. \A i \in DOMAIN stored : i \notin P.touched => Identity(stored'[i]) = Identity(stored[i])
  BY <1>m DEF Identity
<1>u. /\ unseen' \in [Publishers -> SUBSET Nat]
      /\ \A q \in Publishers : q # p => unseen[q] \subseteq unseen'[q]
      /\ \A q \in Publishers : q # p /\ Planned(q) => P.touched \subseteq unseen'[q]
  <2>1. P.touched \subseteq Nat
    BY <1>2 DEF PublisherTypes
  <2>2. /\ Missed(P.touched) \in [Publishers -> SUBSET Nat]
        /\ \A q \in Publishers : unseen[q] \subseteq Missed(P.touched)[q]
        /\ \A q \in Publishers : Planned(q) => P.touched \subseteq Missed(P.touched)[q]
    BY <1>2, <2>1, MissedFacts
  <2>. QED
    BY <1>1, <2>2
<1>4. \A i \in P.touched : i \in DOMAIN stored /\ stored[i] \in Rows /\ stored'[i] \in Rows
                           /\ Identity(stored[i]) \in P.moves
  BY <1>2, <1>m DEF LocksItsOwn, CatalogTypes
<1>5. \A i \in DOMAIN stored : ~stored[i].full => Additive(stored[i].contract, stored'[i].contract)
  <2>1. SUFFICES ASSUME NEW i \in P.touched, ~stored[i].full
                 PROVE  Additive(stored[i].contract, P.incoming)
    BY <1>m, AdditiveToItself
  <2>2. Identity(stored[i]) # Legacy(P.previous)
    BY <1>3, <1>4, <2>1, HashFacts
  <2>3. Identity(stored[i]) = Of(P.previous) /\ Additive(P.previous, P.incoming)
    BY <1>2, <1>4, <2>2 DEF Judged
  <2>4. stored[i].contract = P.previous
    BY <1>3, <1>4, <2>3, HashFacts
  <2>. QED
    BY <2>3, <2>4
<1>n. /\ NoPublish \in PublisherTypes /\ NoPublish.phase = "idle" /\ NoPublish.moves = {}
      /\ NoPublish.touched = {}
  BY DEF NoPublish, PublisherTypes, ContractOrNot
<1>6. \A q \in Publishers : publisher'[q] = IF q = p THEN NoPublish ELSE publisher[q]
  BY <1>1, <1>2 DEF CatalogTypes
<1>7. CatalogTypes'
  BY <1>1, <1>2, <1>m, <1>n, <1>u DEF CatalogTypes, PublisherTypes
<1>8. \A q \in Publishers : Judged(publisher[q])' /\ LocksItsOwn(publisher[q])'
  <2>1. TAKE q \in Publishers
  <2>2. CASE q = p
    BY <1>6, <1>n, <2>2 DEF Judged, LocksItsOwn
  <2>3. CASE q # p
    <3>1. publisher'[q] = publisher[q] /\ Judged(publisher[q]) /\ LocksItsOwn(publisher[q])
      BY <1>6, <2>3 DEF CatalogInv
    <3>2. \A i \in publisher[q].touched : i \notin P.touched
      BY <2>3 DEF CatalogInv, LocksExclude
    <3>3. \A i \in publisher[q].touched : i \in DOMAIN stored /\ Identity(stored'[i]) = Identity(stored[i])
      BY <1>i, <3>1, <3>2 DEF LocksItsOwn
    <3>4. LocksItsOwn(publisher[q])'
      BY <1>m, <3>1, <3>3 DEF LocksItsOwn
    <3>. QED
      BY <3>1, <3>4 DEF Judged
  <2>. QED
    BY <2>2, <2>3
<1>9. LocksExclude'
  BY <1>6, <1>n DEF CatalogInv, LocksExclude
<1>10. \A q \in Publishers : CoversStored(q)'
  <2>1. TAKE q \in Publishers
  <2>2. CASE q = p
    BY <1>6, <1>n, <2>2 DEF CoversStored, Planned
  <2>3. CASE q # p /\ Planned(q)
    <3>1. publisher'[q] = publisher[q] /\ CoversStored(q)
      BY <1>6, <2>3 DEF CatalogInv
    <3>2. ASSUME NEW i \in DOMAIN stored, i \notin unseen'[q]
          PROVE  /\ ~stored'[i].unjudged => ~stored[i].unjudged
                 /\ i \notin unseen[q]
                 /\ Identity(stored'[i]) = Identity(stored[i]) /\ stored'[i].clash = stored[i].clash
      BY <1>i, <1>m, <1>u, <2>3, <3>2
    <3>. QED
      BY <1>1, <1>m, <2>3, <3>1, <3>2 DEF CoversStored, FromBefore
  <2>4. CASE q # p /\ ~Planned(q)
    BY <1>6, <2>4 DEF CoversStored, Planned
  <2>. QED
    BY <2>2, <2>3, <2>4
<1>h. \A i \in DOMAIN stored' : Holds(i)'
  <2>. SUFFICES ASSUME NEW i \in DOMAIN stored PROVE Holds(i)'
    BY <1>m
  <2>1. stored[i] \in Rows /\ Holds(i) /\ CoversStored(p)
    BY <1>2, StoredRows DEF CatalogInv
  <2>2. FromBefore(i)' <=> FromBefore(i)
    BY <1>1 DEF FromBefore
  <2>3. ~FromBefore(i) => ~stored'[i].full /\ stored'[i].contract.shape = stored'[i].shape
    <3>1. ASSUME ~FromBefore(i) PROVE stored'[i].contract.shape = stored'[i].shape
      <4>1. ~stored[i].full /\ stored[i].contract.shape = stored[i].shape
        BY <2>1, <3>1 DEF Holds
      <4>2. Additive(stored[i].contract, stored'[i].contract)
        BY <1>5, <4>1
      <4>. QED
        BY <1>m, <4>1, <4>2 DEF Additive
    <3>. QED
      BY <1>m, <2>1, <3>1 DEF Holds
  <2>4. ASSUME i \notin behind'
        PROVE  installed' \in Contracts /\ stored'[i].contract = installed' /\ ~stored'[i].full
    <3>1. CASE i \in P.touched
      BY <1>1, <1>3, <1>m, <3>1
    <3>2. CASE i \notin P.touched
      <4>1. i \notin unseen[p]
        BY <1>1, <2>4, <3>2
      <4>2. Settled(Identity(stored[i]), P.incoming)
        BY <1>1, <1>2, <2>1, <3>2, <4>1 DEF CoversStored
      <4>3. P.incoming \in Contracts /\ Identity(stored[i]) = Of(P.incoming)
        BY <1>2, <4>2 DEF Settled, PublisherTypes, ContractOrNot
      <4>4. stored[i].contract = P.incoming /\ ~stored[i].full
        BY <2>1, <4>3, HashFacts
      <4>. QED
        BY <1>1, <1>m, <3>2, <4>3, <4>4
    <3>. QED
      BY <3>1, <3>2
  <2>5. ASSUME i \notin behind' PROVE Readable(stored[i])'
    <3>1. Identity(stored'[i]) = Of(installed') /\ installed' # Undeclared
      BY <1>m, <2>4, <2>5, HashFacts
    <3>. QED
      BY <3>1 DEF Readable
  <2>6. ASSUME ~FromBefore(i), ~stored'[i].unjudged, stored'[i].contract.declares PROVE ~stored'[i].clash
    <3>1. ~stored[i].unjudged
      BY <1>m, <2>6
    <3>2. CASE i \in P.touched
      <4>1. i \notin unseen[p] /\ Identity(stored[i]) \in P.moves /\ stored'[i].contract = P.incoming
        BY <1>4, <1>m, <2>6, <3>2
      <4>. QED
        BY <1>2, <1>m, <2>1, <2>6, <3>1, <4>1 DEF CoversStored
    <3>3. CASE i \notin P.touched
      BY <1>m, <2>1, <2>6, <3>1, <3>3 DEF Holds
    <3>. QED
      BY <3>2, <3>3
  <2>. QED
    BY <2>2, <2>3, <2>5, <2>6 DEF Holds
<1>11. \A a \in Authors : author'[a].phase = "resolved" => author'[a].contract \in Contracts
  BY <1>1 DEF CatalogInv
<1>12. CatalogInv'
  BY <1>7, <1>8, <1>9, <1>10, <1>h, <1>11 DEF CatalogInv
<1>. QED
  BY <1>5, <1>12

\* A batch moves a row that no open transaction has, of the form of before the
\* split, to the same contract in the new form.
LEMMA MigrationStep ==
  ASSUME CatalogInv, BeginMigration \/ MigrateBatch
  PROVE  /\ CatalogInv'
         /\ \A i \in DOMAIN stored : ~stored[i].full =>
                Additive(stored[i].contract, stored'[i].contract)
<1>u. UNCHANGED <<history, installed, author, publisher, published, behind>>
  BY DEF BeginMigration, MigrateBatch
<1>l. LocksExclude'
  BY <1>u DEF CatalogInv, LocksExclude
<1>a. \A a \in Authors : author'[a].phase = "resolved" => author'[a].contract \in Contracts
  BY <1>u DEF CatalogInv
<1>1. CASE UNCHANGED <<stored, unseen>> /\ migration' \in ContractOrNot
  <2>1. CatalogTypes'
    BY <1>u, <1>1 DEF CatalogInv, CatalogTypes
  <2>2. \A p \in Publishers : Judged(publisher[p])' /\ LocksItsOwn(publisher[p])'
    BY <1>u, <1>1 DEF CatalogInv, Judged, LocksItsOwn
  <2>3. /\ \A p \in Publishers : CoversStored(p)'
        /\ \A i \in DOMAIN stored' : Holds(i)'
    BY <1>u, <1>1 DEF CatalogInv, CoversStored, Planned, FromBefore, Holds, Readable
  <2>4. CatalogInv'
    BY <1>l, <1>a, <2>1, <2>2, <2>3 DEF CatalogInv
  <2>. QED
    BY <1>1, <2>4, AdditiveToItself
<1>2. ASSUME NEW i \in DOMAIN stored, Identity(stored[i]) = Legacy(migration), i \notin Locked,
             migration # Undeclared, stored' = Moved({i}, migration),
             unseen' = Missed({i}), UNCHANGED migration
      PROVE  /\ CatalogInv'
             /\ \A j \in DOMAIN stored : ~stored[j].full =>
                    Additive(stored[j].contract, stored'[j].contract)
  <2>1. CatalogTypes /\ migration \in Contracts
    BY <1>2 DEF CatalogInv, CatalogTypes, ContractOrNot
  <2>2. /\ stored' \in Seq(Rows) /\ DOMAIN stored' = DOMAIN stored
        /\ \A j \in DOMAIN stored : j # i => stored'[j] = stored[j]
        /\ stored'[i] \in Rows /\ stored'[i].contract = migration /\ ~stored'[i].full
        /\ stored'[i].clash = stored[i].clash /\ stored'[i].unjudged = stored[i].unjudged
        /\ stored'[i].shape = stored[i].shape
    <3>1. IsMoved(stored', {i}, migration)
      BY <1>2, <2>1, MovedFacts
    <3>. QED
      BY <3>1 DEF IsMoved
  <2>m. /\ unseen' \in [Publishers -> SUBSET Nat]
        /\ \A p \in Publishers : unseen[p] \subseteq unseen'[p]
        /\ \A p \in Publishers : Planned(p) => i \in unseen'[p]
    <3>1. {i} \subseteq Nat
      BY <2>1 DEF CatalogTypes
    <3>. QED
      BY <1>2, <2>1, <3>1, MissedFacts
  <2>3. stored[i] \in Rows /\ stored[i].full /\ stored[i].contract = migration
    BY <1>2, <2>1, StoredRows, HashFacts
  <2>4. stored'[i] \in Rows /\ Identity(stored'[i]) = Of(migration)
    BY <2>1, <2>2, HashFacts
  <2>5. CatalogTypes'
    BY <1>u, <1>2, <2>1, <2>2, <2>m DEF CatalogTypes
  <2>6. \A p \in Publishers : Judged(publisher[p])' /\ LocksItsOwn(publisher[p])'
    <3>1. TAKE p \in Publishers
    <3>2. Judged(publisher[p]) /\ LocksItsOwn(publisher[p])
      BY DEF CatalogInv
    <3>3. i \notin publisher[p].touched
      BY <1>2 DEF Locked
    <3>4. \A j \in publisher[p].touched : j \in DOMAIN stored /\ stored'[j] = stored[j]
      BY <2>2, <3>2, <3>3 DEF LocksItsOwn
    <3>. QED
      BY <1>u, <2>2, <3>2, <3>4 DEF Judged, LocksItsOwn
  <2>7. \A p \in Publishers : CoversStored(p)'
    <3>1. TAKE p \in Publishers
    <3>2. CoversStored(p)
      BY DEF CatalogInv
    <3>3. ASSUME Planned(p), NEW j \in DOMAIN stored, j \notin unseen'[p]
          PROVE  j \notin unseen[p] /\ stored'[j] = stored[j]
      BY <2>2, <2>m, <3>3
    <3>. QED
      BY <1>u, <2>2, <3>2, <3>3 DEF CoversStored, Planned, FromBefore
  <2>h. \A j \in DOMAIN stored' : Holds(j)'
    <3>1. \A j \in DOMAIN stored : Holds(j)
      BY DEF CatalogInv
    <3>2. FromBefore(i) /\ FromBefore(i)'
      BY <1>u, <2>3, <3>1 DEF Holds, FromBefore
    <3>3. ASSUME i \notin behind PROVE Readable(stored[i])'
      <4>1. Readable(stored[i])
        BY <2>2, <3>1, <3>3 DEF Holds
      <4>2. installed \in Contracts
        BY <2>1, <4>1 DEF CatalogTypes, ContractOrNot, Readable
      <4>3. stored[i].contract = installed
        BY <2>3, <4>1, <4>2, HashFacts DEF Readable
      <4>. QED
        BY <1>u, <2>3, <2>4, <4>1, <4>3 DEF Readable
    <3>4. Holds(i)'
      BY <1>u, <3>2, <3>3 DEF Holds
    <3>. QED
      BY <1>u, <2>2, <3>1, <3>4 DEF Holds, Readable, FromBefore
  <2>8. CatalogInv'
    BY <1>l, <1>a, <2>5, <2>6, <2>7, <2>h DEF CatalogInv
  <2>9. \A j \in DOMAIN stored : ~stored[j].full => Additive(stored[j].contract, stored'[j].contract)
    BY <2>2, <2>3, AdditiveToItself
  <2>. QED
    BY <2>8, <2>9
<1>. QED
  BY <1>1, <1>2 DEF BeginMigration, MigrateBatch, CatalogInv, CatalogTypes, ContractOrNot

LEMMA StutterStep ==
  ASSUME CatalogInv, UNCHANGED catalogVars
  PROVE  CatalogInv'
  BY DEF CatalogInv, catalogVars, CatalogTypes, Judged, LocksItsOwn, LocksExclude, Planned,
         CoversStored, Holds, Readable, FromBefore

LEMMA CatalogInductive == CatalogInv /\ [CatalogNext]_catalogVars => CatalogInv'
<1>. SUFFICES ASSUME CatalogInv, [CatalogNext]_catalogVars PROVE CatalogInv'
  OBVIOUS
<1>1. CASE UNCHANGED catalogVars
  BY <1>1, StutterStep
<1>2. ASSUME NEW a \in Authors, ResolveCatalog(a) \/ InsertRecord(a) PROVE CatalogInv'
  BY <1>2, WriterStep
<1>3. ASSUME NEW p \in Publishers, NEW incoming \in ContractOrNot, BeginPublish(p, incoming) PROVE CatalogInv'
  BY <1>3, BeginStep
<1>4. ASSUME NEW p \in Publishers, PlanPublish(p) \/ RewriteHashes(p) \/ CommitPublish(p) \/ AbortPublish(p)
      PROVE  CatalogInv'
  BY <1>4, PlanStep, RewriteStep, CommitStep, AbortStep
<1>5. CASE BeginMigration \/ MigrateBatch
  BY <1>5, MigrationStep
<1>. QED
  BY <1>1, <1>2, <1>3, <1>4, <1>5 DEF CatalogNext, ContractOrNot

-----------------------------------------------------------------------------
(* Results.                                                                *)

\* The invariant of the workspace catalog: what each publisher has judged and
\* locked, and that a plan speaks of everything that has not changed since.
THEOREM CatalogInvariance == CatalogSpec => []CatalogInv
  BY InitCatalog, CatalogInductive, PTL DEF CatalogSpec

\* However writers, publishes, refusals, crashes and the migration of hashes
\* overlap: a publish that commits makes every record readable that was there when
\* it planned, so that only what was written or moved past the last one's plan and
\* update is not; and a record from after the split keeps its shape, and carries
\* nothing its contract refuses unless an update moved it that had not read it.
THEOREM ContractsHold == CatalogSpec => []StoredContractsHold
<1>1. CatalogInv => StoredContractsHold
  BY DEF CatalogInv, StoredContractsHold, Holds
<1>. QED
  BY <1>1, CatalogInvariance, PTL

\* However publishes overlap, a stored contract (not a hash from before the split)
\* moves along a change that keeps its meaning: the update names the hash that its plan has judged, and the row
\* that it has locked is still stored under it at the commit.
THEOREM MovesAreAdditive == CatalogSpec => MovesKeepMeaning
<1>1. CatalogInv /\ [CatalogNext]_catalogVars =>
        [\A i \in DOMAIN stored : ~stored[i].full =>
            Additive(stored[i].contract, stored'[i].contract)]_catalogVars
  <2>. SUFFICES ASSUME CatalogInv, CatalogNext
                PROVE  \A i \in DOMAIN stored : ~stored[i].full =>
                            Additive(stored[i].contract, stored'[i].contract)
    OBVIOUS
  <2>1. CASE \E p \in Publishers : CommitPublish(p)
    BY <2>1, CommitStep
  <2>2. CASE BeginMigration \/ MigrateBatch
    BY <2>2, MigrationStep
  <2>3. ASSUME NEW a \in Authors, InsertRecord(a)
        PROVE  \A i \in DOMAIN stored : stored'[i] = stored[i]
    <3>1. PICK r : stored' = Append(stored, r)
      BY <2>3 DEF InsertRecord
    <3>. QED
      BY <3>1 DEF CatalogInv, CatalogTypes
  <2>4. CASE stored' = stored
    BY <2>4, AdditiveToItself
  <2>. QED
    BY <2>1, <2>2, <2>3, <2>4, AdditiveToItself
    DEF CatalogNext, ResolveCatalog, BeginPublish, PlanPublish, RewriteHashes, AbortPublish
<1>. QED
  BY <1>1, CatalogInvariance, PTL DEF CatalogSpec, MovesKeepMeaning

(***************************************************************************)
(* Vectors and the moves from one embedding space to another.              *)
(***************************************************************************)
SpaceOrNone == Spaces \cup {None}
VectorTypes == [space : SpaceOrNone, maker : SpaceOrNone, staged : [Spaces -> SpaceOrNone]]
EmbedderTypes == [row : Nat, space : SpaceOrNone, maker : SpaceOrNone]

ReembedTypes ==
    /\ change \in Changes
    /\ conf \in [model : Spaces, space : Spaces]
    /\ vectors \in Seq(VectorTypes)
    /\ embedder \in [Workers -> EmbedderTypes]
    /\ at \in 1 .. (Len(change.script) + 1)
    /\ command \in [phase : {"idle", "embedded", "moving"}, row : Nat, maker : SpaceOrNone]
    /\ covered \in [rows : SUBSET Nat, to : Spaces, done : BOOLEAN]

\* What is staged for the space that a row is in is its own vector, and a row
\* without a vector has none staged.
KeepsItsOwn(v) ==
    /\ v.space = None => \A s \in Spaces : v.staged[s] = None
    /\ v.space # None => v.maker \in Spaces /\ v.staged[v.space] \in {None, v.maker}

\* A worker holds the vector of a row that exists.
EmbedderHolds(e) ==
    e.row # 0 => e.row \in DOMAIN vectors /\ e.space \in Spaces /\ e.maker \in Spaces

\* A page that was embedded is that of rows of another space.
StagesAnother ==
    command.phase = "embedded" =>
        /\ Due.step = "stage" /\ command.maker \in Spaces
        /\ command.row \in Embedded /\ vectors[command.row].space # Due.to

\* While a cutover moves rows, those that it checked have moved or can.
MovesCovered ==
    command.phase = "moving" =>
        /\ Due.step \in {"cutover", "force"} /\ covered.to = Due.to /\ ~covered.done
        /\ \A i \in covered.rows :
            vectors[i].space = covered.to \/ vectors[i].staged[covered.to] # None

CoveredMoved ==
    /\ covered.rows \subseteq Embedded
    /\ covered.done => \A i \in covered.rows : vectors[i].space = covered.to

ReembedInv ==
    /\ ReembedTypes
    /\ \A i \in DOMAIN vectors : KeepsItsOwn(vectors[i])
    /\ \A w \in Workers : EmbedderHolds(embedder[w])
    /\ StagesAnother /\ MovesCovered /\ CoveredMoved

USE ReembedAssumption

-----------------------------------------------------------------------------
(* Vectors.                                                                *)

\* new is v with a vector staged for s, unless one was.
StagedFrom(v, new, s, m) ==
    /\ new \in VectorTypes /\ new.space = v.space /\ new.maker = v.maker
    /\ new.staged[s] = IF v.staged[s] = None THEN m ELSE v.staged[s]
    /\ \A t \in Spaces : t # s => new.staged[t] = v.staged[t]

LEMMA StageFacts ==
  ASSUME NEW v \in VectorTypes, NEW s \in Spaces, NEW m \in Spaces
  PROVE  StagedFrom(v, Stage(v, s, m), s, m)
<1>. DEFINE x == IF v.staged[s] = None THEN m ELSE v.staged[s]
<1>1. x \in SpaceOrNone /\ v.staged \in [Spaces -> SpaceOrNone]
  BY DEF VectorTypes, SpaceOrNone
<1>2. Stage(v, s, m) = [v EXCEPT !.staged = [v.staged EXCEPT ![s] = x]]
  BY DEF Stage, VectorTypes
<1>. HIDE DEF x
<1>3. [v.staged EXCEPT ![s] = x] \in [Spaces -> SpaceOrNone]
  BY <1>1
<1>4. /\ [v.staged EXCEPT ![s] = x][s] = x
      /\ \A t \in Spaces : t # s => [v.staged EXCEPT ![s] = x][t] = v.staged[t]
  BY <1>1
<1>. QED
  BY <1>2, <1>3, <1>4 DEF VectorTypes, StagedFrom, x

\* A vector that keeps its own is promoted without a loss.
LEMMA PromotedFacts ==
  ASSUME NEW v \in VectorTypes, KeepsItsOwn(v), NEW s \in Spaces, v.space # s, v.staged[s] # None
  PROVE  /\ Promoted(v, s) \in VectorTypes /\ Promoted(v, s).space = s
         /\ KeepsItsOwn(Promoted(v, s))
         /\ \A t \in Spaces : v.staged[t] # None => Promoted(v, s).staged[t] = v.staged[t]
         /\ \A t, m \in Spaces : Has(v, t, m) => Has(Promoted(v, s), t, m)
<1>. DEFINE kept == Stage(v, v.space, v.maker)
<1>1. v.space \in Spaces /\ v.maker \in Spaces /\ v.staged[s] \in Spaces
  BY DEF KeepsItsOwn, VectorTypes, SpaceOrNone
<1>2. /\ kept \in VectorTypes /\ kept.space = v.space /\ kept.maker = v.maker
      /\ kept.staged[v.space] = v.maker
      /\ \A t \in Spaces : t # v.space => kept.staged[t] = v.staged[t]
  <2>1. StagedFrom(v, kept, v.space, v.maker)
    BY <1>1, StageFacts, Zenon
  <2>2. v.staged[v.space] \in {None, v.maker}
    BY <1>1 DEF KeepsItsOwn
  <2>. HIDE DEF kept
  <2>. QED
    BY <2>1, <2>2 DEF StagedFrom
<1>3. Promoted(v, s) = [kept EXCEPT !.space = s, !.maker = v.staged[s]]
  BY <1>1 DEF Promoted
<1>. HIDE DEF kept
<1>4. /\ Promoted(v, s) \in VectorTypes
      /\ Promoted(v, s).space = s /\ Promoted(v, s).maker = v.staged[s]
      /\ Promoted(v, s).staged = kept.staged
  BY <1>1, <1>2, <1>3 DEF VectorTypes, SpaceOrNone
<1>5. KeepsItsOwn(Promoted(v, s))
  BY <1>1, <1>2, <1>4 DEF KeepsItsOwn
<1>6. \A t \in Spaces : v.staged[t] # None => Promoted(v, s).staged[t] = v.staged[t]
  BY <1>1, <1>2, <1>4 DEF KeepsItsOwn
<1>7. \A t, m \in Spaces : Has(v, t, m) => Has(Promoted(v, s), t, m)
  BY <1>1, <1>2, <1>4, <1>6 DEF Has
<1>. QED
  BY <1>4, <1>5, <1>6, <1>7

\* The step that is due, and where it leads.
Steps == [step : {"model", "space", "stage", "cutover", "force"}, to : Spaces]

LEMMA DueFacts ==
  ASSUME change \in Changes, at \in 1 .. (Len(change.script) + 1)
  PROVE  /\ change.script \in Seq(Steps)
         /\ Len(change.script) \in Nat
         /\ Due.to \in Spaces
         /\ Due.step # "done" => at + 1 \in 1 .. (Len(change.script) + 1)
         /\ Due.step = "cutover" => at - 1 \in 1 .. (Len(change.script) + 1)
<1>1. /\ change.script \in Seq(Steps)
      /\ \A k \in DOMAIN change.script : change.script[k].step = "cutover" => k > 1
  BY DEF Steps
<1>2. Len(change.script) \in Nat /\ DOMAIN change.script = 1 .. Len(change.script)
  BY <1>1
<1>3. CASE at \in DOMAIN change.script
  <2>1. Due = change.script[at]
    BY <1>3 DEF Due
  <2>2. change.script[at] \in Steps
    BY <1>1, <1>3
  <2>. QED
    BY <1>1, <1>2, <1>3, <2>1, <2>2 DEF Steps
<1>4. CASE at \notin DOMAIN change.script
  <2>1. Due.step = "done" /\ Due.to = "s1"
    BY <1>4 DEF Due
  <2>. QED
    BY <1>1, <1>2, <2>1 DEF Spaces
<1>. QED
  BY <1>3, <1>4

-----------------------------------------------------------------------------
(* Invariance.                                                             *)

LEMMA InitReembed == ReembedInit => ReembedInv
<1>. SUFFICES ASSUME ReembedInit PROVE ReembedInv
  OBVIOUS
<1>1. change \in Changes /\ Len(change.script) \in Nat
  <2>1. change.script \in Seq(Steps)
    BY DEF ReembedInit, Steps
  <2>. QED
    BY <2>1 DEF ReembedInit
<1>2. ReembedTypes
  BY <1>1 DEF ReembedInit, ReembedTypes, Spaces, SpaceOrNone, NoEmbedder, EmbedderTypes, NoCommand
<1>. QED
  BY <1>2 DEF ReembedInit, ReembedInv, StagesAnother, MovesCovered, CoveredMoved, EmbedderHolds,
              NoEmbedder, NoCommand

\* Rows that are added, or are given their first vector.
LEMMA VectorsGrow ==
  ASSUME ReembedInv, UNCHANGED <<change, conf, at, command, covered>>,
         vectors' \in Seq(VectorTypes), embedder' \in [Workers -> EmbedderTypes],
         \A i \in DOMAIN vectors : i \in DOMAIN vectors' /\ (i \in Embedded => vectors'[i] = vectors[i]),
         \A i \in DOMAIN vectors' : KeepsItsOwn(vectors'[i]),
         \A w \in Workers : EmbedderHolds(embedder[w])'
  PROVE  ReembedInv'
<1>1. ReembedTypes'
  BY DEF ReembedInv, ReembedTypes
<1>2. Embedded \subseteq Embedded'
  BY DEF Embedded
<1>3. Due' = Due
  BY DEF Due
<1>4. StagesAnother'
  BY <1>2, <1>3 DEF ReembedInv, StagesAnother, Embedded
<1>5. CoveredMoved'
  BY <1>2 DEF ReembedInv, CoveredMoved, Embedded
<1>6. MovesCovered'
  <2>1. \A i \in covered.rows : vectors'[i] = vectors[i]
    BY DEF ReembedInv, CoveredMoved, Embedded
  <2>. QED
    BY <1>3, <2>1 DEF ReembedInv, MovesCovered
<1>. QED
  BY <1>1, <1>4, <1>5, <1>6 DEF ReembedInv

LEMMA NewRecordStep ==
  ASSUME ReembedInv, NewRecord
  PROVE  ReembedInv'
<1>1. NoVector \in VectorTypes /\ KeepsItsOwn(NoVector)
  BY DEF NoVector, VectorTypes, SpaceOrNone, KeepsItsOwn
<1>2. vectors \in Seq(VectorTypes) /\ vectors' = Append(vectors, NoVector)
  BY DEF ReembedInv, ReembedTypes, NewRecord
<1>. HIDE DEF NoVector
<1>3. /\ vectors' \in Seq(VectorTypes)
      /\ \A i \in DOMAIN vectors : i \in DOMAIN vectors' /\ vectors'[i] = vectors[i]
      /\ \A i \in DOMAIN vectors' : i \in DOMAIN vectors \/ vectors'[i] = NoVector
  BY <1>1, <1>2
<1>4. \A w \in Workers : EmbedderHolds(embedder[w])'
  BY <1>3 DEF NewRecord, ReembedInv, EmbedderHolds
<1>5. \A i \in DOMAIN vectors' : KeepsItsOwn(vectors'[i])
  BY <1>1, <1>3 DEF ReembedInv
<1>. QED
  BY <1>3, <1>4, <1>5, VectorsGrow DEF NewRecord, ReembedInv, ReembedTypes

LEMMA EmbedStep ==
  ASSUME ReembedInv, NEW w \in Workers, NEW i \in DOMAIN vectors, EmbedRecord(w, i)
  PROVE  ReembedInv'
<1>. DEFINE e == [row |-> i, space |-> conf.space, maker |-> conf.model]
<1>1. /\ embedder' = [embedder EXCEPT ![w] = e] /\ UNCHANGED <<change, conf, vectors, at, command, covered>>
      /\ vectors \in Seq(VectorTypes) /\ embedder \in [Workers -> EmbedderTypes]
  BY DEF EmbedRecord, ReembedInv, ReembedTypes
<1>2. e \in EmbedderTypes /\ EmbedderHolds(e)
  BY DEF ReembedInv, ReembedTypes, EmbedderTypes, SpaceOrNone, EmbedderHolds
<1>. HIDE DEF e
<1>3. \A v \in Workers : embedder'[v] = IF v = w THEN e ELSE embedder[v]
  BY <1>1
<1>4. \A v \in Workers : EmbedderHolds(embedder[v])'
  BY <1>1, <1>2, <1>3 DEF ReembedInv, EmbedderHolds
<1>5. embedder' \in [Workers -> EmbedderTypes]
  BY <1>1, <1>2
<1>. QED
  BY <1>1, <1>4, <1>5, VectorsGrow DEF ReembedInv

\* A vector is only ever stored for a row that has none.
LEMMA StoreStep ==
  ASSUME ReembedInv, NEW w \in Workers, StoreVector(w)
  PROVE  /\ ReembedInv'
         /\ \A i \in DOMAIN vectors : \A s, m \in Spaces :
                Has(vectors[i], s, m) => Has(vectors'[i], s, m)
<1>. DEFINE e == embedder[w]
            new == [vectors[e.row] EXCEPT !.space = e.space, !.maker = e.maker]
<1>1. /\ embedder' = [embedder EXCEPT ![w] = NoEmbedder] /\ UNCHANGED <<change, conf, at, command, covered>>
      /\ vectors \in Seq(VectorTypes) /\ embedder \in [Workers -> EmbedderTypes]
  BY DEF StoreVector, ReembedInv, ReembedTypes
<1>2. e.row \in DOMAIN vectors /\ e.space \in Spaces /\ e.maker \in Spaces
  BY DEF StoreVector, ReembedInv, EmbedderHolds
<1>v. vectors[e.row] \in VectorTypes /\ KeepsItsOwn(vectors[e.row])
  BY <1>1, <1>2 DEF ReembedInv
<1>3. NoEmbedder \in EmbedderTypes /\ NoEmbedder.row = 0
  BY DEF NoEmbedder, EmbedderTypes, SpaceOrNone
<1>4. embedder' \in [Workers -> EmbedderTypes] /\ \A v \in Workers : embedder'[v] = IF v = w THEN NoEmbedder ELSE embedder[v]
  BY <1>1, <1>3
<1>5. CASE e.row \in Embedded
  <2>1. vectors' = vectors
    BY <1>5 DEF StoreVector
  <2>2. \A v \in Workers : EmbedderHolds(embedder[v])'
    BY <1>3, <1>4, <2>1 DEF ReembedInv, EmbedderHolds
  <2>. QED
    BY <1>1, <1>4, <2>1, <2>2, VectorsGrow DEF ReembedInv
<1>6. CASE e.row \notin Embedded
  <2>1. vectors' = [vectors EXCEPT ![e.row] = new]
    <3>1. vectors' = [vectors EXCEPT ![e.row].space = e.space, ![e.row].maker = e.maker]
      BY <1>6 DEF StoreVector
    <3>. QED
      BY <1>1, <1>2, <3>1
  <2>2. vectors[e.row].space = None
    BY <1>2, <1>6 DEF Embedded
  <2>3. new \in VectorTypes /\ KeepsItsOwn(new) /\ new.staged = vectors[e.row].staged
    BY <1>2, <1>v, <2>2 DEF VectorTypes, SpaceOrNone, KeepsItsOwn
  <2>4. \A s, m \in Spaces : Has(vectors[e.row], s, m) => Has(new, s, m)
    BY <2>2, <2>3 DEF Has
  <2>. HIDE DEF new, e
  <2>5. /\ vectors' \in Seq(VectorTypes) /\ DOMAIN vectors' = DOMAIN vectors
        /\ \A i \in DOMAIN vectors : vectors'[i] = IF i = e.row THEN new ELSE vectors[i]
    BY <1>1, <1>2, <2>1, <2>3
  <2>6. \A i \in DOMAIN vectors : i \in Embedded => vectors'[i] = vectors[i]
    BY <1>6, <2>5
  <2>7. \A i \in DOMAIN vectors' : KeepsItsOwn(vectors'[i])
    BY <2>3, <2>5 DEF ReembedInv
  <2>8. \A v \in Workers : EmbedderHolds(embedder[v])'
    BY <1>3, <1>4, <2>5 DEF ReembedInv, EmbedderHolds
  <2>9. \A i \in DOMAIN vectors : \A s, m \in Spaces :
                Has(vectors[i], s, m) => Has(vectors'[i], s, m)
    BY <2>4, <2>5
  <2>. QED
    BY <1>1, <1>4, <2>5, <2>6, <2>7, <2>8, <2>9, VectorsGrow
<1>. QED
  BY <1>5, <1>6

\* Commands that leave the vectors.
LEMMA CommandStep ==
  ASSUME ReembedInv, EditConf \/ ReadUnstaged \/ CheckCutover \/ CommandDies
  PROVE  ReembedInv'
<1>t. ReembedTypes /\ UNCHANGED <<change, vectors, embedder>>
  BY DEF ReembedInv, EditConf, ReadUnstaged, CheckCutover, CommandDies
<1>d. /\ Due.to \in Spaces
      /\ Due.step # "done" => at + 1 \in 1 .. (Len(change.script) + 1)
      /\ Due.step = "cutover" => at - 1 \in 1 .. (Len(change.script) + 1)
  BY <1>t, DueFacts DEF ReembedTypes
<1>k. \A w \in Workers : EmbedderHolds(embedder[w])'
  BY <1>t DEF ReembedInv, EmbedderHolds
<1>e. Embedded' = Embedded
  BY <1>t DEF Embedded
<1>1. CASE EditConf
  <2>1. /\ command' = NoCommand /\ at' = at + 1 /\ covered' = covered /\ Due.step # "done"
        /\ conf' \in [model : Spaces, space : Spaces]
    BY <1>t, <1>d, <1>1 DEF EditConf, Done, ReembedTypes
  <2>2. ReembedTypes'
    BY <1>t, <1>d, <2>1 DEF ReembedTypes, NoCommand, SpaceOrNone
  <2>. QED
    BY <1>t, <1>k, <1>e, <2>1, <2>2 DEF ReembedInv, StagesAnother, MovesCovered, CoveredMoved, NoCommand
<1>2. CASE ReadUnstaged
  <2>1. CASE Unstaged(Due.to) = {}
    <3>1. command' = NoCommand /\ at' = at + 1 /\ covered' = covered /\ conf' = conf /\ Due.step # "done"
      BY <1>2, <2>1 DEF ReadUnstaged, Done
    <3>2. ReembedTypes'
      BY <1>t, <1>d, <3>1 DEF ReembedTypes, NoCommand, SpaceOrNone
    <3>. QED
      BY <1>t, <1>k, <1>e, <3>1, <3>2
      DEF ReembedInv, StagesAnother, MovesCovered, CoveredMoved, NoCommand
  <2>2. CASE Unstaged(Due.to) # {}
    <3>1. PICK i \in Unstaged(Due.to) : command' = [phase |-> "embedded", row |-> i, maker |-> conf.model]
      BY <1>2, <2>2 DEF ReadUnstaged
    <3>2. at' = at /\ covered' = covered /\ conf' = conf /\ Due.step = "stage"
      BY <1>2, <2>2 DEF ReadUnstaged
    <3>3. i \in Embedded /\ vectors[i].space # Due.to /\ i \in Nat /\ conf.model \in Spaces
      BY <1>t DEF Unstaged, ReembedTypes, Embedded
    <3>4. ReembedTypes'
      BY <1>t, <3>1, <3>2, <3>3 DEF ReembedTypes, SpaceOrNone
    <3>5. Due' = Due
      BY <1>t, <3>2 DEF Due
    <3>6. StagesAnother'
      BY <1>t, <1>e, <3>1, <3>2, <3>3, <3>5 DEF StagesAnother
    <3>7. MovesCovered' /\ CoveredMoved'
      BY <1>t, <1>e, <3>1, <3>2 DEF ReembedInv, MovesCovered, CoveredMoved
    <3>. QED
      BY <1>t, <1>k, <3>4, <3>6, <3>7 DEF ReembedInv
  <2>. QED
    BY <2>1, <2>2
<1>3. CASE CheckCutover
  <2>0. Due.step \in {"cutover", "force"} /\ conf' = conf /\ command.phase = "idle"
    BY <1>3 DEF CheckCutover
  <2>1. CASE Due.step = "force" \/ CoverageComplete(Due.to)
    <3>1. /\ command' = [NoCommand EXCEPT !.phase = "moving"] /\ at' = at
          /\ covered' = [rows |-> IF Due.step = "force" THEN {} ELSE Embedded,
                         to |-> Due.to, done |-> FALSE]
      BY <1>3, <2>1 DEF CheckCutover
    <3>2. command' = [phase |-> "moving", row |-> 0, maker |-> None]
      BY <3>1 DEF NoCommand
    <3>3. Embedded \subseteq Nat
      BY <1>t DEF Embedded, ReembedTypes
    <3>4. ReembedTypes'
      <4>1. (IF Due.step = "force" THEN {} ELSE Embedded) \in SUBSET Nat
        BY <3>3
      <4>2. covered' \in [rows : SUBSET Nat, to : Spaces, done : BOOLEAN]
        BY <1>d, <3>1, <4>1
      <4>3. at' = at
        BY <3>1
      <4>4. command' \in [phase : {"idle", "embedded", "moving"}, row : Nat, maker : SpaceOrNone]
        BY <3>2 DEF SpaceOrNone
      <4>. QED
        BY <1>t, <2>0, <4>2, <4>3, <4>4 DEF ReembedTypes
    <3>5. Due' = Due
      BY <1>t, <3>1 DEF Due
    <3>6. MovesCovered'
      <4>1. \A i \in covered'.rows : vectors[i].space = Due.to \/ vectors[i].staged[Due.to] # None
        BY <2>1, <3>1 DEF CoverageComplete, Unstaged
      <4>. QED
        BY <1>t, <2>0, <3>1, <3>5, <4>1 DEF MovesCovered
    <3>7. StagesAnother' /\ CoveredMoved'
      BY <1>t, <1>e, <3>1, <3>2 DEF StagesAnother, CoveredMoved
    <3>. QED
      BY <1>t, <1>k, <3>4, <3>6, <3>7 DEF ReembedInv
  <2>2. CASE ~(Due.step = "force" \/ CoverageComplete(Due.to))
    <3>1. at' = at - 1 /\ UNCHANGED <<command, covered>> /\ Due.step = "cutover"
      BY <1>3, <2>0, <2>2 DEF CheckCutover
    <3>2. ReembedTypes'
      BY <1>t, <1>d, <2>0, <3>1 DEF ReembedTypes
    <3>. QED
      BY <1>t, <1>k, <1>e, <2>0, <3>1, <3>2 DEF ReembedInv, StagesAnother, MovesCovered, CoveredMoved
  <2>. QED
    BY <2>1, <2>2
<1>4. CASE CommandDies
  <2>1. command' = NoCommand /\ UNCHANGED <<conf, at, covered>>
    BY <1>4 DEF CommandDies
  <2>2. ReembedTypes'
    BY <1>t, <2>1 DEF ReembedTypes, NoCommand, SpaceOrNone
  <2>. QED
    BY <1>t, <1>k, <1>e, <2>1, <2>2 DEF ReembedInv, StagesAnother, MovesCovered, CoveredMoved, NoCommand
<1>. QED
  BY <1>1, <1>2, <1>3, <1>4

\* A row is replaced in place.
LEMMA RowReplaced ==
  ASSUME ReembedTypes, NEW i \in DOMAIN vectors, NEW v \in VectorTypes,
         vectors' = [vectors EXCEPT ![i] = v]
  PROVE  /\ vectors' \in Seq(VectorTypes) /\ DOMAIN vectors' = DOMAIN vectors
         /\ \A j \in DOMAIN vectors : vectors'[j] = IF j = i THEN v ELSE vectors[j]
  BY DEF ReembedTypes

LEMMA StageStep ==
  ASSUME ReembedInv, StageVectors
  PROVE  /\ ReembedInv'
         /\ \A i \in DOMAIN vectors : \A s, m \in Spaces :
                Has(vectors[i], s, m) => Has(vectors'[i], s, m)
<1>. DEFINE i == command.row
            to == Due.to
            v == vectors[i]
            new == Stage(v, to, command.maker)
<1>t. ReembedTypes /\ UNCHANGED <<change, conf, embedder, at, covered>> /\ command' = NoCommand
  BY DEF ReembedInv, StageVectors
<1>1. /\ i \in Embedded /\ v.space # to /\ command.maker \in Spaces
  BY DEF ReembedInv, StagesAnother, StageVectors
<1>2. i \in DOMAIN vectors /\ v \in VectorTypes /\ KeepsItsOwn(v) /\ v.space # None /\ to \in Spaces
  BY <1>t, <1>1, DueFacts DEF ReembedInv, ReembedTypes, Embedded
<1>3. vectors' = [vectors EXCEPT ![i] = new]
  BY DEF StageVectors
<1>s. StagedFrom(v, new, to, command.maker)
  BY <1>1, <1>2, StageFacts, Zenon
<1>. HIDE DEF new, v, to, i
<1>4. /\ new \in VectorTypes /\ new.space = v.space /\ new.maker = v.maker
      /\ new.staged[to] = IF v.staged[to] = None THEN command.maker ELSE v.staged[to]
      /\ \A t \in Spaces : t # to => new.staged[t] = v.staged[t]
  BY <1>s DEF StagedFrom
<1>5. KeepsItsOwn(new)
  <2>1. v.space \in Spaces
    BY <1>2 DEF VectorTypes, SpaceOrNone
  <2>. QED
    BY <1>1, <1>2, <1>4, <2>1 DEF KeepsItsOwn
<1>6. /\ vectors' \in Seq(VectorTypes) /\ DOMAIN vectors' = DOMAIN vectors
      /\ \A j \in DOMAIN vectors : vectors'[j] = IF j = i THEN new ELSE vectors[j]
  BY <1>t, <1>2, <1>3, <1>4, RowReplaced
<1>7. \A j \in DOMAIN vectors : vectors'[j].space = vectors[j].space
  BY <1>4, <1>6 DEF v
<1>8. Embedded' = Embedded
  BY <1>6, <1>7 DEF Embedded
<1>9. ReembedInv'
  <2>1. ReembedTypes'
    BY <1>t, <1>6 DEF ReembedTypes, NoCommand, SpaceOrNone
  <2>2. StagesAnother' /\ MovesCovered'
    BY <1>t DEF StagesAnother, MovesCovered, NoCommand
  <2>3. CoveredMoved'
    BY <1>t, <1>7, <1>8 DEF ReembedInv, CoveredMoved, Embedded
  <2>4. \A w \in Workers : EmbedderHolds(embedder[w])'
    BY <1>t, <1>6 DEF ReembedInv, EmbedderHolds
  <2>5. \A j \in DOMAIN vectors' : KeepsItsOwn(vectors'[j])
    BY <1>5, <1>6 DEF ReembedInv
  <2>. QED
    BY <2>1, <2>2, <2>3, <2>4, <2>5 DEF ReembedInv
<1>10. \A s, m \in Spaces : Has(v, s, m) => Has(new, s, m)
  BY <1>2, <1>4 DEF Has
<1>11. \A j \in DOMAIN vectors : \A s, m \in Spaces : Has(vectors[j], s, m) => Has(vectors'[j], s, m)
  BY <1>6, <1>10 DEF v
<1>. QED
  BY <1>9, <1>11

\* A batch moves a row and keeps its outgoing vector; when none is left, every
\* row that was covered has moved.
LEMMA CutoverStep ==
  ASSUME ReembedInv, CutoverBatch
  PROVE  /\ ReembedInv'
         /\ \A i \in DOMAIN vectors : \A s, m \in Spaces :
                Has(vectors[i], s, m) => Has(vectors'[i], s, m)
<1>. DEFINE to == Due.to
<1>t. ReembedTypes /\ UNCHANGED <<change, conf, embedder>>
  BY DEF ReembedInv, CutoverBatch
<1>d. /\ to \in Spaces
      /\ Due.step # "done" => at + 1 \in 1 .. (Len(change.script) + 1)
  BY <1>t, DueFacts DEF ReembedTypes
<1>m. /\ Due.step \in {"cutover", "force"} /\ covered.to = to /\ ~covered.done
      /\ \A i \in covered.rows : vectors[i].space = to \/ vectors[i].staged[to] # None
      /\ covered.rows \subseteq Embedded
  BY DEF CutoverBatch, ReembedInv, MovesCovered, CoveredMoved
<1>1. CASE Promotable(to) = {}
  <2>1. /\ at' = at + 1 /\ command' = NoCommand /\ vectors' = vectors
        /\ covered' = [covered EXCEPT !.done = TRUE]
    BY <1>1 DEF CutoverBatch, Done
  <2>2. \A i \in covered.rows : vectors[i].space = to
    BY <1>1, <1>m DEF Promotable, Embedded
  <2>3. /\ covered'.rows = covered.rows /\ covered'.to = to
        /\ covered' \in [rows : SUBSET Nat, to : Spaces, done : BOOLEAN]
    BY <1>t, <1>m, <2>1 DEF ReembedTypes
  <2>4. ReembedTypes'
    BY <1>t, <1>d, <1>m, <2>1, <2>3 DEF ReembedTypes, NoCommand, SpaceOrNone
  <2>5. StagesAnother' /\ MovesCovered'
    BY <2>1 DEF StagesAnother, MovesCovered, NoCommand
  <2>6. CoveredMoved'
    BY <1>m, <2>1, <2>2, <2>3 DEF CoveredMoved, Embedded
  <2>7. \A w \in Workers : EmbedderHolds(embedder[w])'
    BY <1>t, <2>1 DEF ReembedInv, EmbedderHolds
  <2>. QED
    BY <2>1, <2>4, <2>5, <2>6, <2>7 DEF ReembedInv
<1>2. CASE Promotable(to) # {}
  <2>1. PICK i \in Promotable(to) : vectors' = [vectors EXCEPT ![i] = Promoted(vectors[i], to)]
    BY <1>2 DEF CutoverBatch
  <2>u. UNCHANGED <<at, command, covered>>
    BY <1>2 DEF CutoverBatch
  <2>. DEFINE v == vectors[i]
              new == Promoted(v, to)
  <2>2. i \in DOMAIN vectors /\ v \in VectorTypes /\ KeepsItsOwn(v) /\ v.space # to /\ v.staged[to] # None
    BY <1>t DEF ReembedInv, ReembedTypes, Promotable
  <2>3. /\ new \in VectorTypes /\ new.space = to /\ KeepsItsOwn(new)
        /\ \A t \in Spaces : v.staged[t] # None => new.staged[t] = v.staged[t]
        /\ \A s, m \in Spaces : Has(v, s, m) => Has(new, s, m)
    BY <1>d, <2>2, PromotedFacts, Zenon
  <2>. HIDE DEF new
  <2>4. /\ vectors' \in Seq(VectorTypes) /\ DOMAIN vectors' = DOMAIN vectors
        /\ \A j \in DOMAIN vectors : vectors'[j] = IF j = i THEN new ELSE vectors[j]
    BY <1>t, <2>1, <2>2, <2>3, RowReplaced DEF new
  <2>. HIDE DEF v, to
  <2>5. Embedded \subseteq Embedded'
    BY <1>d, <2>3, <2>4 DEF Embedded
  <2>6. Due' = Due
    BY <1>t, <2>u DEF Due
  <2>7. ReembedTypes'
    BY <1>t, <2>u, <2>4 DEF ReembedTypes
  <2>8. StagesAnother'
    BY <2>u DEF StagesAnother, CutoverBatch
  <2>9. MovesCovered'
    <3>1. \A j \in covered.rows : vectors'[j].space = to \/ vectors'[j].staged[to] # None
      BY <1>m, <2>3, <2>4 DEF Embedded
    <3>. QED
      BY <1>m, <2>u, <2>6, <3>1 DEF MovesCovered, to
  <2>10. CoveredMoved'
    BY <1>m, <2>u, <2>5 DEF CoveredMoved
  <2>11. \A w \in Workers : EmbedderHolds(embedder[w])'
    BY <1>t, <2>4 DEF ReembedInv, EmbedderHolds
  <2>12. \A j \in DOMAIN vectors' : KeepsItsOwn(vectors'[j])
    BY <2>3, <2>4 DEF ReembedInv
  <2>13. \A j \in DOMAIN vectors : \A s, m \in Spaces : Has(vectors[j], s, m) => Has(vectors'[j], s, m)
    BY <2>3, <2>4 DEF v
  <2>. QED
    BY <2>7, <2>8, <2>9, <2>10, <2>11, <2>12, <2>13 DEF ReembedInv
<1>. QED
  BY <1>1, <1>2

LEMMA StepReembed == ReembedInv /\ [ReembedNext]_reembedVars => ReembedInv'
<1>. SUFFICES ASSUME ReembedInv, [ReembedNext]_reembedVars PROVE ReembedInv'
  OBVIOUS
<1>1. CASE UNCHANGED reembedVars
  BY <1>1 DEF reembedVars, ReembedInv, ReembedTypes, EmbedderHolds, StagesAnother, MovesCovered,
              CoveredMoved, Embedded, Due
<1>2. CASE ReembedNext
  BY <1>2, NewRecordStep, EmbedStep, StoreStep, CommandStep, StageStep, CutoverStep DEF ReembedNext
<1>. QED
  BY <1>1, <1>2

\* The inductive invariant: a row's own vector is never shadowed by another of
\* its space, and a cutover under way can still move what it covered.
THEOREM ReembedInvariance == ReembedSpec => []ReembedInv
  BY InitReembed, StepReembed, PTL DEF ReembedSpec

\* Cutovers, crashes between their batches and the way back discard no vector,
\* in whatever order the commands are given (the docstring of reembed.py).
THEOREM VectorsAreKept == ReembedSpec => NothingDiscarded
<1>1. ReembedInv /\ [ReembedNext]_reembedVars
        => [\A i \in DOMAIN vectors : \A s, m \in Spaces :
              Has(vectors[i], s, m) => Has(vectors'[i], s, m)]_reembedVars
  <2>. SUFFICES ASSUME ReembedInv, ReembedNext
                PROVE  \A i \in DOMAIN vectors : \A s, m \in Spaces :
                          Has(vectors[i], s, m) => Has(vectors'[i], s, m)
    BY DEF reembedVars
  <2>1. CASE NewRecord
    <3>1. vectors \in Seq(VectorTypes) /\ vectors' = Append(vectors, NoVector)
      BY <2>1 DEF NewRecord, ReembedInv, ReembedTypes
    <3>2. \A i \in DOMAIN vectors : vectors'[i] = vectors[i]
      BY <3>1
    <3>. QED
      BY <3>2
  <2>2. CASE \/ \E w \in Workers : \E i \in DOMAIN vectors : EmbedRecord(w, i)
             \/ EditConf \/ ReadUnstaged \/ CheckCutover \/ CommandDies
    <3>1. vectors' = vectors
      BY <2>2 DEF EmbedRecord, EditConf, ReadUnstaged, CheckCutover, CommandDies
    <3>. QED
      BY <3>1
  <2>. QED
    BY <2>1, <2>2, StoreStep, StageStep, CutoverStep DEF ReembedNext
<1>. QED
  BY <1>1, ReembedInvariance, PTL DEF ReembedSpec, NothingDiscarded

\* A cutover that is done has moved every record that had a vector when it was
\* checked, whatever crashed and was embedded meanwhile (cutover_space).  A forced one
\* is not checked, and nothing is said of what it moves.
THEOREM CutoversAreWhole == ReembedSpec => []CutoverIsWhole
<1>1. ReembedInv => CutoverIsWhole
  BY DEF ReembedInv, ReembedTypes, CoveredMoved, CutoverIsWhole
<1>. QED
  BY <1>1, ReembedInvariance, PTL
============================================================================
