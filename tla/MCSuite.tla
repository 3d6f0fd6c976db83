------------------------------ MODULE MCSuite ------------------------------
(* Instances of Suite for TLC.                                             *)
EXTENDS Suite, FiniteSets

\* Three groups; the prefix of the first begins the prefix of the second, as
\* "method" begins "methoduid".
MCCatalogue == << [prefix |-> << "method" >>, tests |-> 2],
                  [prefix |-> << "method", "uid" >>, tests |-> 1],
                  [prefix |-> << "signal" >>, tests |-> 1] >>

\* Whole groups and names, one of which no test has.
Arguments ==
  {NameOf(MCCatalogue[g].prefix, n) : g \in 1..3, n \in {0, 2, 4}}

MCRequests == {S \in SUBSET Arguments : Cardinality(S) <= 2}
=============================================================================
