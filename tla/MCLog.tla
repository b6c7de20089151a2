------------------------------- MODULE MCLog -------------------------------
(***************************************************************************)
(* Instances of the log for TLC.                                           *)
(***************************************************************************)
EXTENDS Log

CONSTANTS main, t1

(* One thread that finds nothing open, and may fail to open its files; and *)
(* two that find everything open.                                          *)
AloneOrTogether ==
  {[threads |-> {main}, opened |-> {}, fails |-> {}, writes |-> 2, settings |-> 3],
   [threads |-> {main}, opened |-> {}, fails |-> {"LogCounters"}, writes |-> 1, settings |-> 2],
   [threads |-> {main}, opened |-> {}, fails |-> {"LogStorage"}, writes |-> 1, settings |-> 2],
   [threads |-> {main, t1}, opened |-> Statics, fails |-> {}, writes |-> 1, settings |-> 1]}

=============================================================================
