---------------------------- MODULE MCDispatcher ----------------------------
(* Instances of module Dispatcher for TLC. *)
EXTENDS Dispatcher, TLC

Def(name, recurring, count, until, action) ==
    [name |-> name, recurring |-> recurring, count |-> count, until |-> until,
     action |-> action]

OneTime == {Def("a", FALSE, 0, 0, TRUE)}

\* A one-time event, a recurring one with a count, one with an until and one
\* whose row has no action.
Mixed ==
    OneTime \cup {Def("c", TRUE, 1, 0, TRUE), Def("u", TRUE, 0, 1, TRUE),
                  Def("n", TRUE, 0, 0, FALSE)}

\* Workers are interchangeable.
Symmetry == Permutations(Workers)
=============================================================================
