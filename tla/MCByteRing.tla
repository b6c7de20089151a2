----------------------------- MODULE MCByteRing -----------------------------
(***************************************************************************)
(* The calls that the tests of ShmBuffer make, one after the other: Write, *)
(* Read, and then a look whether the ring is empty.  Nobody calls Free.    *)
(***************************************************************************)
EXTENDS ByteRing

(* History variable: the bytes that Write has accepted and no Read has     *)
(* returned.                                                               *)
VARIABLE unread

TestInit == Init /\ unread = 0

TestNext ==
  /\ \/ \E n \in 0 .. Size + 1 : \E d \in [1 .. n -> Byte] : Write(d)
     \/ \E n \in 0 .. Size : Read(n)
  /\ unread' = unread + told'.wrote - Len(told'.got)
  /\ Notes

TestSpec == TestInit /\ [][TestNext]_<<vars, unread>>

(* IsEmptyAfterWriteRead: the ring whose bytes have all been read is empty.*)
AllReadIsEmpty == unread = 0 => head = tail

=============================================================================
