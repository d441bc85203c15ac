---------------------------- MODULE MCDerivation ----------------------------
(* Small instances of Derivation for TLC. *)
EXTENDS Derivation

CONSTANTS e1, e2

A(mode, triggered, keyed) == [mode |-> mode, triggered |-> triggered, keyed |-> keyed]

\* Each basis, with and without a trigger, and the unkeyed source.
MCSettings == {A("changes", TRUE, TRUE), A("changes", FALSE, TRUE), A("changes", TRUE, FALSE),
               A("corpus", TRUE, TRUE), A("citation_repair", FALSE, TRUE)}
MCTriggered == {A("changes", TRUE, TRUE)}
MCUnkeyed == {A("changes", TRUE, FALSE)}

MCSymmetry == Permutations(Executors)
=============================================================================
