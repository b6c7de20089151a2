--------------------------- MODULE MCShmBufferEx ---------------------------
(***************************************************************************)
(* Instances of the record queue for TLC.                                  *)
(***************************************************************************)
EXTENDS ShmBufferEx

(* LogStorage sets (drop_old, TRUE), the other users leave drop_is_ok off. *)
AllBehaviors == (Overflow \X {FALSE}) \union {<<"drop_old", TRUE>>}
DropsFail    == Overflow \X {FALSE}
DropOld      == {<<"drop_old", FALSE>>}

=============================================================================
