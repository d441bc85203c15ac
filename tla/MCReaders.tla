------------------------------ MODULE MCReaders ------------------------------
(***************************************************************************)
(* Small instances for TLC of what reads the records: a derivation, the    *)
(* loader that accepts its definitions, a search and a walk over a graph.  *)
(* A behaviour belongs to one of them, its part; the others keep their     *)
(* initial state, so that their state spaces add up.                       *)
(***************************************************************************)
EXTENDS MCDerivation, MCDefinitions, MCAnswers

VARIABLE part

readersVars == <<part, vars, loaderVars, searchVars, traversalVars>>

\* The parts a behaviour does not belong to.
NothingDerived == setting = A("changes", TRUE, TRUE) /\ Init
NothingLoaded == source = <<>> /\ LoaderBegins
NothingSearched == spec = [sources |-> <<>>] /\ shelf = <<>> /\ SearchBegins
NothingWalked == atlas = <<>> /\ links = <<>> /\ TraversalBegins

ReadersInit ==
    \/ part = "derivation" /\ Init /\ NothingLoaded /\ NothingSearched /\ NothingWalked
    \/ part = "loader" /\ LoaderInit /\ NothingDerived /\ NothingSearched /\ NothingWalked
    \/ part = "search" /\ SearchInit /\ NothingDerived /\ NothingLoaded /\ NothingWalked
    \/ part = "walk" /\ TraversalInit /\ NothingDerived /\ NothingLoaded /\ NothingSearched

ReadersNext ==
    /\ UNCHANGED part
    /\ \/ part = "derivation" /\ Next /\ UNCHANGED <<loaderVars, searchVars, traversalVars>>
       \/ part = "loader" /\ LoaderNext /\ UNCHANGED <<vars, searchVars, traversalVars>>
       \/ part = "search" /\ SearchNext /\ UNCHANGED <<vars, loaderVars, traversalVars>>
       \/ part = "walk" /\ TraversalNext /\ UNCHANGED <<vars, loaderVars, searchVars>>

ReadersSpec == ReadersInit /\ [][ReadersNext]_readersVars
=============================================================================
