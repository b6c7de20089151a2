--------------------------- MODULE MessageQueue ---------------------------
(***************************************************************************)
(* What the record queue promises its users, with no ring, no positions and*)
(* no bytes: messages are numbered as they are stored, they leave in that  *)
(* order, and each reader slot is given the oldest message that it has not *)
(* been past.                                                              *)
(***************************************************************************)
EXTENDS Integers

CONSTANTS Sizes,   (* Sizes of records.                                    *)
          Slots    (* Reader slots.                                        *)

VARIABLES records, (* The messages in the queue, [number, size].           *)
          next,    (* Number of the next message.                          *)
          at       (* Per slot, the number after the last message given.   *)

Init ==
  /\ records = {}
  /\ next = 0
  /\ at = [i \in Slots |-> 0]

Store(s) ==
  /\ records' = records \union {[number |-> next, size |-> s]}
  /\ next' = next + 1
  /\ UNCHANGED at

\* By Pop or by being dropped.
Leave(r) ==
  /\ \A other \in records : r.number <= other.number
  /\ records' = records \ {r}
  /\ UNCHANGED <<next, at>>

Read(i, r) ==
  /\ r.number >= at[i]
  /\ \A other \in records : other.number >= at[i] => r.number <= other.number
  /\ at' = [at EXCEPT ![i] = r.number + 1]
  /\ UNCHANGED <<records, next>>

Next ==
  \/ \E s \in Sizes : Store(s)
  \/ \E r \in records : Leave(r)
  \/ \E i \in Slots, r \in records : Read(i, r)

Spec == Init /\ [][Next]_<<records, next, at>>

=============================================================================
