---------------------------- MODULE MCRrdWriter -----------------------------
(***************************************************************************)
(* Instances of rrd-writer for TLC.                                        *)
(***************************************************************************)
EXTENDS RrdWriter, TLC

CONSTANTS n1, n2, n3

AllNames == {n1, n2, n3}
InOrder == (n1 :> 1) @@ (n2 :> 2) @@ (n3 :> 3)

(* Two lists, with a name of which no file can be made in the middle of    *)
(* one, an outage and a restart; two lists of one dictionary; a prefix of  *)
(* history counters, which the list of all has already, and a name that two*)
(* dictionaries have; each with a name that comes later.                   *)
CommandLines ==
  LET custom(type, prefix) == [type |-> type, prefix |-> prefix]
      sets(h, v, i) == [d \in Dictionaries |-> CASE d = "history" -> h [] d = "value" -> v
                                                 [] d = "incremented" -> i]
  IN  {[custom |-> <<custom("value", {n2, n3})>>, known |-> sets({}, {n2, n3}, {}),
        later |-> sets({n1}, {}, {}), bad |-> {n2}, restarts |-> 1, outages |-> 1],
       [custom |-> <<custom("incremented", {n1}), custom("incremented", {n2, n3})>>,
        known |-> sets({}, {}, {n2, n3}), later |-> sets({}, {}, {n1}),
        bad |-> {}, restarts |-> 0, outages |-> 0],
       [custom |-> <<custom("history", {n1}), custom("value", {n1, n2})>>,
        known |-> sets({n1}, {n1, n2}, {}), later |-> sets({n3}, {}, {}),
        bad |-> {}, restarts |-> 0, outages |-> 0]}

=============================================================================
