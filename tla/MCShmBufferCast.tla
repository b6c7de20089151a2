-------------------------- MODULE MCShmBufferCast --------------------------
(***************************************************************************)
(* Two processes that pop, a reader slot and a cursor together are too many*)
(* for one run, and each question asks for some of them only.  A cast says *)
(* who takes part and which behaviours are set; it is chosen at the start  *)
(* and kept.  Whoever is not in the cast does nothing.                     *)
(***************************************************************************)
EXTENDS MCShmBufferEx

CONSTANTS Poppers, Watchers   (* The processes of the two casts.           *)

Casts == {[who |-> Poppers,  sets |-> DropsFail],
          [who |-> Watchers, sets |-> DropOld]}

VARIABLE cast

MCInit == Init /\ cast \in Casts

MCNext ==
  /\ Next
  /\ UNCHANGED cast
  /\ \A p \in (Consumers \union Followers \union Cursors) \ cast.who :
       pc'[p] = pc[p] /\ (p \in Cursors => cursor'[p] = cursor[p])
  /\ <<on_overflow', drop_is_ok'>> \in cast.sets \union {<<on_overflow, drop_is_ok>>}

MCSpec == MCInit /\ [][MCNext]_<<vars, cast>>

=============================================================================
