----------------------------- MODULE MCPersons -----------------------------
(* Instances of Persons for TLC. *)
EXTENDS Persons, TLC

CONSTANTS d1, d2

\* Every enrolment gives an employee id of its own; that another one has taken
\* it meanwhile is one of the reasons for which InsertPerson may fail.
MCBadge == [e \in Enrolments |-> e]

DeleterSymmetry == Permutations(Deleters)
============================================================================
