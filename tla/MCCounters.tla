----------------------------- MODULE MCCounters -----------------------------
(***************************************************************************)
(* Instances of the dictionary of counters for TLC.                        *)
(***************************************************************************)
EXTENDS Counters, TLC

Symmetry == Permutations(Procs)

\* One name is longer than the others.
Lengths == [n \in Names |-> IF n = 20 THEN 2 ELSE 1]

\* Everything, and a prefix that stands before some of the names.
Categories == {[from |-> Empty, to |-> 0], [from |-> 15, to |-> 35]}

\* The counters, and the history counters.
Both == {{"GetCounterIndex", "LookupIndex", "Dump"}, {"HistoryIndex", "HistoryPtr", "Dump"}}

=============================================================================
