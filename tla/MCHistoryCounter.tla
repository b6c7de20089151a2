-------------------------- MODULE MCHistoryCounter --------------------------
(***************************************************************************)
(* Instances of a history counter for TLC.                                 *)
(***************************************************************************)
EXTENDS HistoryCounter

\* operator++, AddVolume and AddBatch.
SmallBatches == {[count |-> 1, summ |-> 0], [count |-> 1, summ |-> 2], [count |-> 2, summ |-> 1]}

=============================================================================
