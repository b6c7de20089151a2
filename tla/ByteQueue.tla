----------------------------- MODULE ByteQueue ------------------------------
(***************************************************************************)
(* What a ring of bytes promises: a queue of at most Size - 1 bytes, first *)
(* in, first out, that refuses what it has no room for.                    *)
(***************************************************************************)
EXTENDS Integers, Sequences

CONSTANTS Size, Byte

VARIABLES
  content,   (* the bytes that are in it                                    *)
  told       (* what the last Put or Take was told                          *)

Wrote(n) == [wrote |-> n, got |-> <<>>]
Got(s)   == [wrote |-> 0, got |-> s]

Put(d) ==
  /\ Len(content) + Len(d) <= Size - 1
  /\ told' = Wrote(Len(d))
  /\ content' = content \o d

Refuse(d) ==
  /\ Len(content) + Len(d) > Size - 1
  /\ told' = Wrote(0)
  /\ UNCHANGED content

Leave(n) == n <= Len(content) /\ content' = SubSeq(content, n + 1, Len(content))

Take(n) == Leave(n) /\ told' = Got(SubSeq(content, 1, n))

Drop(n) == Leave(n) /\ UNCHANGED told

Init == content = <<>> /\ told = Wrote(0)

Next ==
  \/ \E n \in 0 .. Size + 1 : \E d \in [1 .. n -> Byte] : Put(d) \/ Refuse(d)
  \/ \E n \in 0 .. Size : Take(n) \/ Drop(n)

Spec == Init /\ [][Next]_<<content, told>>

=============================================================================
