--------------------------- MODULE ByteRingProofs ---------------------------
(***************************************************************************)
(* The ring of bytes implements the queue of bytes, for every size of ring *)
(* and every set of bytes.                                                 *)
(*                                                                         *)
(* The types alone say that the ring is never overfull: head and tail are  *)
(* less than a turn apart, unless the ring was drained at the seam.  What  *)
(* is left is to follow each byte through a write and a read.              *)
(***************************************************************************)
EXTENDS ByteRing, SequenceTheorems, TLAPS

-----------------------------------------------------------------------------
(* What a memory, a head and a tail say of the sequences of ByteQueue.     *)

Memories == [0 .. Size - 1 -> Byte]

(* The byte that a memory and its mirror have at an address.               *)
Cell(m, x) == m[IF x < Size THEN x ELSE x - Size]

Between(h, t) == IF h <= t THEN t - h ELSE Size - (h - t)

ContentOf(m, h, t) ==
  IF h = 0 /\ t = Size THEN <<>> ELSE [k \in 1 .. Between(h, t) |-> Cell(m, h + k - 1)]

LEMMA OfTheRing ==
  /\ data_size = Between(head, tail)
  /\ Content = ContentOf(circular_data, head, tail)
  /\ \A x : At(x) = Cell(circular_data, x)
BY DEF data_size, Between, Content, ContentOf, At, Cell, DrainedAtSeam

LEMMA OfTheNextRing ==
  /\ data_size' = Between(head', tail')
  /\ Content' = ContentOf(circular_data', head', tail')
BY DEF data_size, Between, Content, ContentOf, At, Cell, DrainedAtSeam

LEMMA BetweenBounds ==
  ASSUME NEW h \in 0 .. Size - 1, NEW t \in 0 .. Size
  PROVE  /\ Between(h, t) \in 0 .. Size
         /\ Between(h, t) = Size <=> h = 0 /\ t = Size
BY SizeAssumption DEF Between

LEMMA CellIsByte ==
  ASSUME NEW m \in Memories, NEW x \in 0 .. 2 * Size - 1
  PROVE  Cell(m, x) \in Byte
BY SizeAssumption DEF Memories, Cell

LEMMA FunctionIsSeq ==
  ASSUME NEW n \in Nat, NEW f \in [1 .. n -> Byte]
  PROVE  f \in Seq(Byte) /\ Len(f) = n
OBVIOUS

LEMMA ContentIsSeq ==
  ASSUME NEW m \in Memories, NEW h \in 0 .. Size - 1, NEW t \in 0 .. Size
  PROVE  /\ ContentOf(m, h, t) \in Seq(Byte)
         /\ Len(ContentOf(m, h, t)) = IF h = 0 /\ t = Size THEN 0 ELSE Between(h, t)
         /\ \A k \in 1 .. Len(ContentOf(m, h, t)) : ContentOf(m, h, t)[k] = Cell(m, h + k - 1)
<1>1. CASE h = 0 /\ t = Size
  <2>1. ContentOf(m, h, t) = <<>>
    BY <1>1 DEF ContentOf
  <2>2. <<>> \in Seq(Byte) /\ Len(<<>>) = 0
    OBVIOUS
  <2>3. Len(ContentOf(m, h, t)) = 0 /\ ContentOf(m, h, t) \in Seq(Byte)
    BY <2>1, <2>2
  <2>4. \A k \in 1 .. 0 : ContentOf(m, h, t)[k] = Cell(m, h + k - 1)
    OBVIOUS
  <2> QED
    BY ONLY <1>1, <2>3, <2>4
<1>2. CASE ~ (h = 0 /\ t = Size)
  <2>1. Between(h, t) \in 0 .. Size - 1
    BY <1>2, BetweenBounds, SizeAssumption
  <2>2. \A k \in 1 .. Between(h, t) : h + k - 1 \in 0 .. 2 * Size - 1
    BY <2>1, SizeAssumption
  <2>3. ContentOf(m, h, t) = [k \in 1 .. Between(h, t) |-> Cell(m, h + k - 1)]
    BY <1>2 DEF ContentOf
  <2>4. ContentOf(m, h, t) \in [1 .. Between(h, t) -> Byte]
    BY <2>2, <2>3, CellIsByte
  <2>5. Between(h, t) \in Nat
    BY <2>1, SizeAssumption
  <2>6. ContentOf(m, h, t) \in Seq(Byte) /\ Len(ContentOf(m, h, t)) = Between(h, t)
    BY <2>4, <2>5, FunctionIsSeq
  <2>7. \A k \in 1 .. Between(h, t) : ContentOf(m, h, t)[k] = Cell(m, h + k - 1)
    BY ONLY <2>3
  <2> QED
    BY ONLY <1>2, <2>6, <2>7
<1> QED
  BY <1>1, <1>2

(* A piece of a sequence, byte by byte.                                    *)
LEMMA Piece ==
  ASSUME NEW s \in Seq(Byte), NEW a \in 0 .. Len(s), NEW b \in a .. Len(s)
  PROVE  /\ SubSeq(s, a + 1, b) \in Seq(Byte)
         /\ Len(SubSeq(s, a + 1, b)) = b - a
         /\ \A k \in 1 .. b - a : SubSeq(s, a + 1, b)[k] = s[a + k]
<1>1. Len(s) \in Nat
  BY LenProperties
<1>2. \A k \in a + 1 .. b : s[k] \in Byte
  BY <1>1, ElementOfSeq
<1>3. /\ SubSeq(s, a + 1, b) \in Seq(Byte)
      /\ Len(SubSeq(s, a + 1, b)) = IF a + 1 <= b THEN b - (a + 1) + 1 ELSE 0
      /\ \A k \in 1 .. b - (a + 1) + 1 : SubSeq(s, a + 1, b)[k] = s[(a + 1) + k - 1]
  BY <1>1, <1>2, SubSeqProperties
<1> QED
  BY <1>1, <1>3

-----------------------------------------------------------------------------

LEMMA TypesKept ==
  TypeOK /\ [Next]_vars => TypeOK'
<1> SUFFICES ASSUME TypeOK, [Next]_vars PROVE TypeOK'
  OBVIOUS
<1> USE SizeAssumption
<1>1. ASSUME NEW n \in 0 .. Size + 1, NEW d \in [1 .. n -> Byte], WriteCopied(d) PROVE TypeOK'
  <2>1. Len(d) = n /\ n \in 0 .. Size
    <3>1. Len(d) = n /\ tail + n <= 2 * Size /\ ~ NoRoomFor(n) /\ tail \in 0 .. Size
      BY <1>1 DEF WriteCopied, TypeOK
    <3>2. CASE tail = Size
      BY <3>1, <3>2
    <3>3. CASE tail # Size
      <4>1. data_size \in 0 .. Size /\ (data_size = Size <=> head = 0 /\ tail = Size)
        BY OfTheRing, BetweenBounds DEF TypeOK
      <4> QED BY <3>1, <3>3, <4>1 DEF NoRoomFor, capacity
    <3> QED BY <3>2, <3>3
  <2>2. \A i \in 0 .. Size - 1 : Behind(i) < n => Behind(i) + 1 \in 1 .. n
    BY <2>1 DEF TypeOK, Behind
  <2>3. circular_data' \in [0 .. Size - 1 -> Byte]
    BY <1>1, <2>1, <2>2 DEF TypeOK, WriteCopied
  <2>4. tail' \in 0 .. Size /\ head' = head /\ overrun' = overrun
    BY <1>1, <2>1 DEF TypeOK, WriteCopied
  <2> QED
    BY <2>3, <2>4 DEF TypeOK
<1>2. ASSUME NEW n \in 0 .. Size, Read(n) \/ Free(n) PROVE TypeOK'
  <2>1. PICK r \in 0 .. Size : free(r) /\ UNCHANGED <<circular_data, tail, overrun>>
    BY <1>2, OfTheRing, BetweenBounds DEF Read, Free, TypeOK
  <2> QED
    BY <2>1 DEF TypeOK, free
<1>3. CASE UNCHANGED ring /\ overrun' \in {overrun, TRUE}
  BY <1>3 DEF TypeOK, ring
<1> QED
  BY <1>1, <1>2, <1>3
     DEF Next, vars, Write, WriteRefused, WriteOverruns, IsEmpty, Compare, Return

LEMMA InitTypes == Init => TypeOK
<1>1. Init => /\ circular_data \in [0 .. Size - 1 -> Byte]
              /\ head \in 0 .. Size - 1 /\ tail \in 0 .. Size
  BY SizeAssumption DEF Init
<1>2. Init => overrun \in BOOLEAN
  BY Zenon DEF Init
<1> QED BY <1>1, <1>2 DEF TypeOK

(* The ring and its two offsets stay within their bounds.                  *)
THEOREM TypesCorrect == Spec => []TypeOK
<1>1. Init => TypeOK
  BY InitTypes
<1> QED
  BY <1>1, TypesKept, PTL DEF Spec

-----------------------------------------------------------------------------
(* A write puts its bytes behind the tail and leaves all others.           *)

LEMMA WriteIsPut ==
  ASSUME TypeOK, TypeOK', NEW n \in 1 .. Size - 1, NEW d \in [1 .. n -> Byte], WriteCopied(d)
  PROVE  Queue!Put(d)
<1> DEFINE m == circular_data
           m2 == circular_data'
           t2 == tail'
           ds == Between(head, tail)
           c == ContentOf(m, head, tail)
           c2 == ContentOf(m2, head, t2)
<1> USE SizeAssumption
<1>1. /\ d \in Seq(Byte) /\ Len(d) = n /\ n \in Nat
      /\ head' = head /\ told' = Wrote(n)
      /\ t2 = IF Size < tail + n THEN tail + n - Size ELSE tail + n
      /\ m2 = [i \in 0 .. Size - 1 |-> IF Behind(i) < n THEN d[Behind(i) + 1] ELSE m[i]]
      /\ ~ NoRoomFor(n)
  BY DEF WriteCopied
<1>2. /\ head \in 0 .. Size - 1 /\ tail \in 0 .. Size /\ t2 \in 0 .. Size
      /\ m \in Memories /\ m2 \in Memories
  BY DEF TypeOK, Memories
<1>3. /\ ds \in 0 .. Size /\ (ds = Size <=> head = 0 /\ tail = Size)
      /\ ds = IF head <= tail THEN tail - head ELSE Size - (head - tail)
  BY <1>2, BetweenBounds DEF Between
<1>4. ~ (head = 0 /\ tail = Size) => n <= Size - 1 - ds
  BY <1>1, <1>3, OfTheRing DEF NoRoomFor, capacity
<1> HIDE DEF m, m2
<1>5. \A j \in 0 .. n - 1 : Cell(m2, tail + j) = d[j + 1]
  <2> TAKE j \in 0 .. n - 1
  <2>1. PICK y \in 0 .. Size - 1 : y = IF tail + j < Size THEN tail + j ELSE tail + j - Size
    BY SMTT(30), <1>1, <1>2
  <2>2. Behind(y) = j
    BY <1>1, <1>2, <2>1 DEF Behind
  <2>3. m2[y] = d[j + 1]
    BY <1>1, <2>2
  <2> QED
    BY <1>1, <1>2, <2>1, <2>3 DEF Cell
<1>6. \A j \in n .. Size - 1 : Cell(m2, tail + j) = Cell(m, tail + j)
  <2> TAKE j \in n .. Size - 1
  <2>1. PICK y \in 0 .. Size - 1 : y = IF tail + j < Size THEN tail + j ELSE tail + j - Size
    BY <1>1, <1>2
  <2>2. Behind(y) = j
    BY <1>1, <1>2, <2>1 DEF Behind
  <2>3. m2[y] = m[y]
    BY <1>1, <2>2
  <2> QED
    BY <1>1, <1>2, <2>1, <2>3 DEF Cell
<1>7. /\ ~ (head = 0 /\ t2 = Size)
      /\ Between(head, t2) = IF head = 0 /\ tail = Size THEN n ELSE ds + n
  BY <1>1, <1>2, <1>3, <1>4 DEF Between
<1>8. /\ c \in Seq(Byte) /\ Len(c) = IF head = 0 /\ tail = Size THEN 0 ELSE ds
      /\ \A k \in 1 .. Len(c) : c[k] = Cell(m, head + k - 1)
      /\ c2 \in Seq(Byte) /\ Len(c2) = Between(head, t2)
      /\ \A k \in 1 .. Len(c2) : c2[k] = Cell(m2, head + k - 1)
  BY <1>2, <1>7, ContentIsSeq
<1> HIDE DEF t2, ds, c, c2
<1>10. c2 = c \o d
  <2>1. /\ c \o d \in Seq(Byte) /\ Len(c \o d) = Len(c) + n
        /\ \A k \in 1 .. Len(c) + n : (c \o d)[k] = IF k <= Len(c) THEN c[k] ELSE d[k - Len(c)]
    BY <1>1, <1>8, ConcatProperties
  <2>2. Len(c) \in Nat /\ Len(c2) = Len(c) + n
    BY <1>1, <1>3, <1>7, <1>8
  <2>3. ASSUME NEW k \in 1 .. Len(c) PROVE c2[k] = c[k]
    <3>1. ~ (head = 0 /\ tail = Size) /\ k \in 1 .. ds
      BY <1>8, <2>3, <1>3
    <3> DEFINE j == Size - ds + k - 1
    <3>2. j \in n .. Size - 1
      BY SMTT(30), <3>1, <1>1, <1>3, <1>4
    <3>3. \/ head + k - 1 = tail + j
          \/ head + k - 1 + Size = tail + j /\ head + k - 1 < Size
      BY <3>1, <1>2, <1>3
    <3>4. Cell(m2, tail + j) = Cell(m, tail + j)
      BY <3>2, <1>6
    <3>5. Cell(m2, head + k - 1) = Cell(m, head + k - 1)
      BY <3>2, <3>3, <3>4, <1>2 DEF Cell
    <3>6. n \in Nat /\ k \in 1 .. Len(c2)
      BY <1>1, <2>2
    <3> QED
      BY SMTT(30), <3>5, <3>6, <1>8, <2>2
  <2>4. ASSUME NEW k \in Len(c) + 1 .. Len(c) + n PROVE c2[k] = d[k - Len(c)]
    <3> DEFINE j == k - Len(c) - 1
    <3>1. j \in 0 .. n - 1 /\ k \in 1 .. Len(c2)
      BY <1>1, <2>2
    <3>2. Cell(m2, tail + j) = d[j + 1]
      BY <1>5, <3>1
    <3>3. \/ head + k - 1 = tail + j
          \/ head + k - 1 + Size = tail + j /\ head + k - 1 < Size
          \/ head + k - 1 = tail + j + Size /\ tail + j < Size
      BY SMTT(30), <3>1, <1>8, <1>2, <1>3, <1>4
    <3>4. Cell(m2, head + k - 1) = Cell(m2, tail + j)
      BY SMTT(30), <3>1, <3>3, <1>2 DEF Cell
    <3> QED
      BY SMTT(30), <3>1, <3>2, <3>4, <1>8, <2>2
  <2>5. \A k \in 1 .. Len(c2) : c2[k] = (c \o d)[k]
    BY <1>1, <2>1, <2>2, <2>3, <2>4
  <2> QED
    BY <1>8, <2>1, <2>2, <2>5, SeqEqual
<1>12. Len(c) + Len(d) <= Size - 1
  BY <1>1, <1>3, <1>4, <1>8
<1>13. Content = c /\ Content' = c2
  BY OfTheRing, OfTheNextRing, <1>1 DEF c, c2, m, m2, t2
<1> QED
  BY <1>1, <1>10, <1>12, <1>13 DEF Queue!Put, Queue!Wrote, Wrote

(* A write of nothing.                                                     *)
LEMMA NothingIsPut ==
  ASSUME TypeOK, NEW d \in [1 .. 0 -> Byte], WriteCopied(d)
  PROVE  Queue!Put(d)
<1> USE SizeAssumption
<1>1. d = <<>> /\ Len(d) = 0
  OBVIOUS
<1>2. /\ circular_data \in [0 .. Size - 1 -> Byte] /\ head \in 0 .. Size - 1 /\ tail \in 0 .. Size
  BY DEF TypeOK
<1>3. circular_data' = circular_data /\ tail' = tail /\ head' = head
  <2>1. \A i \in 0 .. Size - 1 : ~ (Behind(i) < 0)
    BY <1>2 DEF Behind
  <2>2. circular_data' = [i \in 0 .. Size - 1 |-> circular_data[i]]
    BY <1>1, <2>1 DEF WriteCopied
  <2> QED BY <1>1, <1>2, <2>2 DEF WriteCopied
<1>4. Content' = Content
  BY <1>3 DEF Content, DrainedAtSeam, data_size, At
<1>5. Content \in Seq(Byte) /\ Len(Content) <= Size - 1
  <2>1. /\ ContentOf(circular_data, head, tail) \in Seq(Byte)
        /\ Len(ContentOf(circular_data, head, tail))
             = IF head = 0 /\ tail = Size THEN 0 ELSE Between(head, tail)
    BY <1>2, ContentIsSeq DEF Memories
  <2>2. Between(head, tail) \in 0 .. Size /\ (Between(head, tail) = Size <=> head = 0 /\ tail = Size)
    BY <1>2, BetweenBounds
  <2> QED BY <2>1, <2>2, OfTheRing
<1>6. Content \o d = Content /\ Len(Content) + Len(d) <= Size - 1
  BY <1>1, <1>5, ConcatEmptySeq
<1> QED BY <1>1, <1>4, <1>6 DEF Queue!Put, WriteCopied, Queue!Wrote, Wrote

(* What is refused, the queue has no room for.                             *)
LEMMA RefusalIsRefuse ==
  ASSUME TypeOK, NEW n \in 0 .. Size + 1, NEW d \in [1 .. n -> Byte], WriteRefused(d)
  PROVE  Queue!Refuse(d)
<1> USE SizeAssumption
<1>1. Len(d) = n /\ NoRoomFor(n) /\ UNCHANGED <<circular_data, head, tail>> /\ told' = Wrote(0)
  BY DEF WriteRefused, ring
<1>2. circular_data \in Memories /\ head \in 0 .. Size - 1 /\ tail \in 0 .. Size
  BY DEF TypeOK, Memories
<1>3. data_size \in 0 .. Size /\ (data_size = Size <=> head = 0 /\ tail = Size)
  BY <1>2, BetweenBounds, OfTheRing
<1>4. data_size <= Size - 1 /\ Size - 1 - data_size < n
  BY <1>1, <1>3 DEF NoRoomFor, capacity
<1>5. Len(Content) = data_size
  BY <1>2, <1>3, <1>4, ContentIsSeq, OfTheRing
<1>6. Content' = Content
  BY <1>1 DEF Content, DrainedAtSeam, data_size, At
<1> QED BY <1>1, <1>3, <1>4, <1>5, <1>6 DEF Queue!Refuse, Queue!Wrote, Wrote

-----------------------------------------------------------------------------
(* What is read or freed are the oldest bytes, unless the ring was drained *)
(* at the seam.                                                            *)

LEMMA OldestBytesLeave ==
  ASSUME TypeOK, TypeOK', NEW r \in 0 .. Size, r <= data_size, ~ (DrainedAtSeam /\ r # 0),
         free(r), UNCHANGED <<circular_data, tail>>
  PROVE  /\ Queue!Leave(r)
         /\ [k \in 1 .. r |-> At(head + k - 1)] = SubSeq(Content, 1, r)
<1> DEFINE m == circular_data
           h2 == head'
           g == [k \in 1 .. r |-> At(head + k - 1)]
           ds == Between(head, tail)
           c == ContentOf(m, head, tail)
           c2 == ContentOf(m, h2, tail)
<1> USE SizeAssumption
<1>1. /\ head \in 0 .. Size - 1 /\ h2 \in 0 .. Size - 1 /\ tail \in 0 .. Size
      /\ circular_data' = m /\ tail' = tail /\ m \in Memories
      /\ h2 = IF head + r >= Size THEN head + r - Size ELSE head + r
  BY DEF TypeOK, free, Memories
<1>2. /\ ds \in 0 .. Size /\ (ds = Size <=> head = 0 /\ tail = Size) /\ r <= ds
      /\ ds = IF head <= tail THEN tail - head ELSE Size - (head - tail)
  BY <1>1, BetweenBounds, OfTheRing DEF Between
<1>3. Content = c /\ Content' = c2
  BY <1>1, OfTheRing, OfTheNextRing
<1>4. /\ c \in Seq(Byte) /\ c2 \in Seq(Byte)
      /\ Len(c) = IF head = 0 /\ tail = Size THEN 0 ELSE ds
      /\ Len(c2) = IF h2 = 0 /\ tail = Size THEN 0 ELSE Between(h2, tail)
      /\ \A k \in 1 .. Len(c) : c[k] = Cell(m, head + k - 1)
      /\ \A k \in 1 .. Len(c2) : c2[k] = Cell(m, h2 + k - 1)
  BY SMTT(30), <1>1, ContentIsSeq
<1>5. Between(h2, tail) = IF h2 <= tail THEN tail - h2 ELSE Size - (h2 - tail)
  BY DEF Between
<1>7. /\ g \in Seq(Byte) /\ Len(g) = r
      /\ \A k \in 1 .. r : g[k] = Cell(m, head + k - 1)
  <2>1. g = [k \in 1 .. r |-> Cell(m, head + k - 1)]
    BY OfTheRing
  <2>2. \A k \in 1 .. r : Cell(m, head + k - 1) \in Byte
    BY <1>1, CellIsByte
  <2>3. g \in [1 .. r -> Byte]
    BY <2>1, <2>2
  <2>4. r \in Nat
    OBVIOUS
  <2>5. g \in Seq(Byte) /\ Len(g) = r
    BY <2>3, <2>4
  <2> QED
    BY <2>1, <2>5
<1> HIDE DEF m, h2, g, ds, c, c2
<1>9. ~ (head = 0 /\ tail = Size /\ r # 0)
  BY DEF DrainedAtSeam
<1>11. Len(c) \in Nat /\ r <= Len(c) /\ Len(c) <= Size /\ (Len(c) = ds \/ r = 0)
  BY <1>2, <1>4, <1>9
<1>12. /\ SubSeq(c, 1, r) \in Seq(Byte) /\ Len(SubSeq(c, 1, r)) = r
      /\ \A k \in 1 .. r : SubSeq(c, 1, r)[k] = c[k]
  <2>1. /\ SubSeq(c, 0 + 1, r) \in Seq(Byte) /\ Len(SubSeq(c, 0 + 1, r)) = r - 0
        /\ \A k \in 1 .. r - 0 : SubSeq(c, 0 + 1, r)[k] = c[0 + k]
    BY <1>4, <1>11, Piece
  <2> QED
    BY <2>1
<1>13. /\ SubSeq(c, r + 1, Len(c)) \in Seq(Byte) /\ Len(SubSeq(c, r + 1, Len(c))) = Len(c) - r
      /\ \A k \in 1 .. Len(c) - r : SubSeq(c, r + 1, Len(c))[k] = c[r + k]
  <2>1. r \in 0 .. Len(c) /\ Len(c) \in r .. Len(c)
    BY <1>11
  <2> QED
    BY <2>1, <1>4, Piece
<1>14. g = SubSeq(c, 1, r)
  <2>1. \A k \in 1 .. r : g[k] = SubSeq(c, 1, r)[k]
    BY <1>11, <1>12, <1>4, <1>7
  <2> QED
    BY <2>1, <1>12, <1>7, SeqEqual
<1>15. c2 = SubSeq(c, r + 1, Len(c))
  <2>1. Len(c2) = Len(c) - r
    <3>1. CASE r = 0
      <4>1. h2 = head
        BY <3>1, <1>1
      <4> QED
        BY <3>1, <4>1, <1>11 DEF c, c2
    <3>2. CASE r # 0
      <4>1. ~ (head = 0 /\ tail = Size) /\ Len(c) = ds
        BY <3>2, <1>9, <1>4
      <4>2. CASE h2 = 0 /\ tail = Size
        BY <4>1, <4>2, <3>2, <1>1, <1>2, <1>4
      <4>3. CASE ~ (h2 = 0 /\ tail = Size)
        <5>1. Len(c2) = IF h2 <= tail THEN tail - h2 ELSE Size - (h2 - tail)
          BY <4>3, <1>4, <1>5
        <5>2. CASE head <= tail
          <6>1. head + r < Size \/ (head + r = Size /\ tail = Size)
            BY <5>2, <1>1, <1>2
          <6> QED
            BY <5>1, <5>2, <6>1, <4>1, <4>3, <1>1, <1>2
        <5>3. CASE head > tail
          BY <5>1, <5>3, <4>1, <3>2, <1>1, <1>2
        <5> QED
          BY <5>2, <5>3, <1>1
      <4> QED
        BY <4>2, <4>3
    <3> QED
      BY <3>1, <3>2
  <2>2. ASSUME NEW k \in 1 .. Len(c) - r PROVE c2[k] = c[r + k]
    <3>1. c2[k] = Cell(m, h2 + k - 1)
      BY <2>1, <1>4
    <3>2. c[r + k] = Cell(m, head + (r + k) - 1)
      BY <1>11, <1>4
    <3>3. Cell(m, h2 + k - 1) = Cell(m, head + (r + k) - 1)
      BY <1>1, <1>11 DEF Cell
    <3> QED
      BY <3>1, <3>2, <3>3
  <2> QED
    BY <2>1, <2>2, <1>13, <1>4, SeqEqual
<1> QED
  BY <1>3, <1>11, <1>14, <1>15 DEF Queue!Leave, g

-----------------------------------------------------------------------------

LEMMA WritesAreTheQueues ==
  ASSUME TypeOK, TypeOK', NEW n \in 0 .. Size + 1, NEW d \in [1 .. n -> Byte], Write(d)
  PROVE  (Queue!Next /\ UNCHANGED overrun) \/ SeamMistake
<1> USE SizeAssumption
<1>1. Len(d) = n /\ tail \in 0 .. Size
  BY DEF TypeOK
<1>2. /\ data_size \in 0 .. Size /\ (data_size = Size <=> DrainedAtSeam)
  BY OfTheRing, BetweenBounds DEF TypeOK, DrainedAtSeam
<1>3. CASE WriteRefused(d)
  <2>1. Queue!Refuse(d) /\ UNCHANGED overrun
    BY <1>3, RefusalIsRefuse DEF WriteRefused
  <2> QED BY <2>1 DEF Queue!Next
<1>4. CASE WriteCopied(d)
  <2>1. ~ NoRoomFor(n) /\ tail + n <= 2 * Size /\ UNCHANGED overrun /\ told' = Wrote(n)
    BY <1>1, <1>4 DEF WriteCopied
  <2>2. CASE n >= Size
    <3>1. DrainedAtSeam
      BY <1>1, <1>2, <2>1, <2>2 DEF NoRoomFor, capacity
    <3> QED BY <2>1, <2>2, <3>1 DEF SeamMistake, Wrote
  <2>3. CASE n = 0
    <3>1. Queue!Put(d)
      BY <1>4, <2>3, NothingIsPut
    <3> QED BY <2>1, <3>1 DEF Queue!Next
  <2>4. CASE n \in 1 .. Size - 1
    <3>1. Queue!Put(d)
      BY <1>4, <2>4, WriteIsPut
    <3> QED BY <2>1, <3>1 DEF Queue!Next
  <2> QED BY <2>2, <2>3, <2>4
<1>5. CASE WriteOverruns(d)
  <2>1. ~ NoRoomFor(n) /\ tail + n > 2 * Size /\ overrun'
    BY <1>1, <1>5 DEF WriteOverruns
  <2>2. DrainedAtSeam
    BY <1>1, <1>2, <2>1 DEF NoRoomFor, capacity
  <2> QED BY <2>1, <2>2 DEF SeamMistake
<1> QED BY <1>3, <1>4, <1>5 DEF Write

LEMMA ReadsAreTheQueues ==
  ASSUME TypeOK, TypeOK', NEW n \in 0 .. Size, Read(n)
  PROVE  (Queue!Next /\ UNCHANGED overrun) \/ SeamMistake
<1> USE SizeAssumption
<1> DEFINE r == IF n < data_size THEN n ELSE data_size
           bytes == [k \in 1 .. r |-> At(head + k - 1)]
<1>1. data_size \in 0 .. Size
  BY OfTheRing, BetweenBounds DEF TypeOK
<1>2. r \in 0 .. Size /\ r <= data_size
  BY <1>1
<1>3. told' = Got(bytes) /\ free(r) /\ UNCHANGED <<circular_data, tail, overrun>>
  BY DEF Read
<1> HIDE DEF r
<1>4. CASE DrainedAtSeam /\ r # 0
  <2>1. 1 \in DOMAIN bytes
    BY <1>2, <1>4
  <2>2. DOMAIN <<>> = {}
    OBVIOUS
  <2>3. bytes # <<>>
    BY ONLY <2>1, <2>2
  <2>4. told'.got = bytes
    BY <1>3 DEF Got
  <2> QED BY <1>4, <2>3, <2>4 DEF SeamMistake
<1>5. CASE ~ (DrainedAtSeam /\ r # 0)
  <2>1. Queue!Leave(r) /\ bytes = SubSeq(Content, 1, r)
    BY <1>2, <1>3, <1>5, OldestBytesLeave
  <2>2. Queue!Take(r)
    BY <1>3, <2>1 DEF Queue!Take, Queue!Got, Got
  <2> QED BY <1>2, <1>3, <2>2 DEF Queue!Next
<1> QED BY <1>4, <1>5

LEMMA FreesAreTheQueues ==
  ASSUME TypeOK, TypeOK', NEW n \in 0 .. Size, Free(n)
  PROVE  \/ Queue!Next /\ UNCHANGED overrun
         \/ SeamMistake \/ FreesTooMuch
         \/ UNCHANGED <<Content, told, overrun>>
<1> USE SizeAssumption
<1>1. data_size \in 0 .. Size
  BY OfTheRing, BetweenBounds DEF TypeOK
<1>2. free(n) /\ UNCHANGED <<circular_data, tail, told, overrun>>
  BY DEF Free
<1>3. CASE n > data_size
  <2>1. n \in data_size + 1 .. Size
    BY <1>1, <1>3
  <2> QED BY <2>1 DEF FreesTooMuch
<1>4. CASE n <= data_size /\ DrainedAtSeam /\ n # 0
  <2>1. CASE head' = head
    BY <1>2, <2>1 DEF Content, DrainedAtSeam, data_size, At
  <2> QED BY <1>4, <2>1 DEF SeamMistake
<1>5. CASE n <= data_size /\ ~ (DrainedAtSeam /\ n # 0)
  <2>1. Queue!Leave(n)
    BY <1>2, <1>5, OldestBytesLeave
  <2>2. Queue!Drop(n)
    BY <1>2, <2>1 DEF Queue!Drop
  <2> QED BY <1>2, <2>2 DEF Queue!Next
<1> QED BY <1>1, <1>3, <1>4, <1>5

LEMMA StepsAreTheQueues ==
  TypeOK /\ TypeOK' /\ [Next]_vars
    => [(Queue!Next /\ UNCHANGED overrun) \/ SeamMistake \/ FreesTooMuch]_<<Content, told, overrun>>
<1> SUFFICES ASSUME TypeOK, TypeOK', [Next]_vars
             PROVE  [(Queue!Next /\ UNCHANGED overrun) \/ SeamMistake \/ FreesTooMuch]_<<Content, told, overrun>>
  OBVIOUS
<1>1. CASE UNCHANGED <<ring, told, overrun>>
  <2>1. /\ circular_data' = circular_data /\ head' = head /\ tail' = tail
        /\ told' = told /\ overrun' = overrun
    BY <1>1 DEF ring
  <2>2. Content' = Content
    BY <2>1 DEF Content, DrainedAtSeam, data_size, At
  <2> QED
    BY <2>1, <2>2
<1> QED
  BY <1>1, WritesAreTheQueues, ReadsAreTheQueues, FreesAreTheQueues
     DEF Next, vars, IsEmpty, Compare, Return

(* The ring is a queue of bytes of capacity Size - 1, for every size of the*)
(* writes and reads, but for a ring drained at the seam and a Free of what *)
(* is not there.                                                           *)
THEOREM RingIsAByteQueue == Spec => ActsAsByteQueue
<1>1. Init => Queue!Init
  <2> SUFFICES ASSUME Init PROVE Queue!Init
    OBVIOUS
  <2>1. TypeOK /\ head = 0 /\ tail = 0 /\ told = Wrote(0)
    BY InitTypes DEF Init
  <2>2. Len(Content) = 0 /\ Content \in Seq(Byte)
    BY <2>1, OfTheRing, ContentIsSeq, SizeAssumption DEF TypeOK, Memories, Between
  <2>3. Content = <<>>
    BY <2>2, EmptySeq
  <2> QED
    BY <2>1, <2>3 DEF Queue!Init, Queue!Wrote, Wrote
<1> QED
  BY <1>1, TypesCorrect, StepsAreTheQueues, PTL DEF Spec, ActsAsByteQueue

-----------------------------------------------------------------------------
(* IsEmpty without the lock.  What the asker owns stands still while it    *)
(* asks; so when it loads the other's offset, the two say what is so at    *)
(* that moment, whether it loads its own before or after.                  *)

Told(empty) == IF empty THEN "empty" \in was ELSE was \cap {"filled", "seam"} # {}

Noted ==
  /\ Empty => "empty" \in was
  /\ ~ Empty => "filled" \in was
  /\ DrainedAtSeam => "seam" \in was

Asks == [by : {"nobody", "reader", "writer"}, loaded : {"nothing", "head", "tail", "both"},
         value : Int, answer : BOOLEAN]

AskInv ==
  /\ ask \in Asks
  /\ ask.by = "nobody" => ask.loaded = "nothing"
  /\ ask.by # "nobody" => Noted
  /\ ask.by = "reader" => /\ ask.loaded = "head" => ask.value = head
                          /\ ask.loaded = "tail" => Told(ask.value = head)
  /\ ask.by = "writer" => /\ ask.loaded = "tail" => ask.value = tail
                          /\ ask.loaded = "head" => Told(ask.value = tail)
  /\ EmptyWasTrue

LEMMA NotesTaken ==
  ASSUME Notes
  PROVE  /\ ask'.by # "nobody" => Noted'
         /\ ask.by # "nobody" /\ ask'.by # "nobody" => was \subseteq was'
BY DEF Notes, Noted

(* Of the two offsets as they are, what they say was noted.                *)
LEMMA NotedIsTold ==
  ASSUME Noted
  PROVE  Told(head = tail)
BY DEF Noted, Told, Empty

LEMMA NotedIsToldNext ==
  ASSUME Noted'
  PROVE  Told(head = tail)'
BY DEF Noted, Told, Empty

LEMMA AskKept ==
  TypeOK /\ TypeOK' /\ AskInv /\ [Next]_vars => AskInv'
<1> SUFFICES ASSUME TypeOK, TypeOK', AskInv, [Next]_vars PROVE AskInv'
  OBVIOUS
<1>0. /\ head \in Int /\ tail \in Int /\ head' \in Int /\ tail' \in Int /\ ask \in Asks
  BY SizeAssumption DEF TypeOK, AskInv
<1>1. CASE UNCHANGED vars
  BY <1>1 DEF vars, ring, AskInv, Asks, Noted, Told, EmptyWasTrue, Empty, DrainedAtSeam
<1>2. ASSUME Notes, UNCHANGED ask,
             \/ ask.by # "writer" /\ head' = head
             \/ ask.by # "reader" /\ tail' = tail
      PROVE  AskInv'
  <2>1. CASE ask.by = "nobody"
    BY <1>2, <2>1 DEF AskInv, EmptyWasTrue
  <2>2. CASE ask.by # "nobody"
    <3>1. was \subseteq was' /\ Noted'
      BY <1>2, <2>2, NotesTaken
    <3>2. ask.loaded = "both" => Told(ask.answer)
      BY DEF AskInv, EmptyWasTrue, Told
    <3>3. EmptyWasTrue'
      BY <1>2, <3>1, <3>2 DEF EmptyWasTrue, Told
    <3>4. CASE ask.by = "reader"
      <4>1. head' = head
        BY <1>2, <3>4
      <4>2. ask.loaded = "tail" => Told(ask.value = head)'
        BY <1>2, <3>1, <3>4, <4>1 DEF AskInv, Told
      <4>3. ask.loaded = "head" => ask'.value = head'
        BY <1>2, <3>4, <4>1 DEF AskInv
      <4> QED BY <1>0, <1>2, <3>1, <3>3, <3>4, <4>2, <4>3 DEF AskInv
    <3>5. CASE ask.by = "writer"
      <4>1. tail' = tail
        BY <1>2, <3>5
      <4>2. ask.loaded = "head" => Told(ask.value = tail)'
        BY <1>2, <3>1, <3>5, <4>1 DEF AskInv, Told
      <4>3. ask.loaded = "tail" => ask'.value = tail'
        BY <1>2, <3>5, <4>1 DEF AskInv
      <4> QED BY <1>0, <1>2, <3>1, <3>3, <3>5, <4>2, <4>3 DEF AskInv
    <3> QED BY <1>0, <2>2, <3>4, <3>5 DEF Asks
  <2> QED BY <2>1, <2>2
<1>3. ASSUME NEW n \in 0 .. Size + 1, NEW d \in [1 .. n -> Byte], Write(d), Notes PROVE AskInv'
  <2>1. UNCHANGED ask /\ ask.by # "writer" /\ head' = head
    BY <1>3 DEF Write, WriteRefused, WriteCopied, WriteOverruns, Writing, ring
  <2> QED BY <1>2, <1>3, <2>1
<1>4. ASSUME NEW n \in 0 .. Size, Read(n) \/ Free(n), Notes PROVE AskInv'
  BY <1>2, <1>4 DEF Read, Free, Reading
<1>5. ASSUME NEW p \in {"reader", "writer"}, IsEmpty(p), Notes PROVE AskInv'
  <2>1. PICK what \in {"head", "tail"} :
          ask' = [by |-> p, loaded |-> what, value |-> IF what = "head" THEN head ELSE tail,
                  answer |-> FALSE]
    BY <1>5 DEF IsEmpty
  <2>2. head' = head /\ tail' = tail
    BY <1>5 DEF IsEmpty, ring
  <2>3. Noted' /\ Told(head = tail)'
    BY <1>5, <2>1, NotesTaken, NotedIsToldNext
  <2>4. /\ ask' \in Asks /\ ask'.by = p /\ ask'.loaded = what
        /\ ask'.value = IF what = "head" THEN head' ELSE tail'
    BY <1>0, <2>1, <2>2 DEF Asks
  <2>5. EmptyWasTrue'
    BY <2>4 DEF EmptyWasTrue
  <2>6. what = "tail" => Told(ask.value = head)'
    BY <2>3, <2>4 DEF Told
  <2>7. what = "head" => Told(ask.value = tail)'
    BY <2>3, <2>4 DEF Told
  <2> QED BY <2>3, <2>4, <2>5, <2>6, <2>7 DEF AskInv
<1>6. ASSUME Compare, Notes PROVE AskInv'
  <2>1. /\ ask.loaded \in {"head", "tail"} /\ ask.by \in {"reader", "writer"} /\ Noted
        /\ Told(head = tail)
    BY <1>6, NotedIsTold DEF Compare, AskInv, Asks
  <2> DEFINE answer == ask.value = IF ask.loaded = "head" THEN tail ELSE head
  <2>2. Told(answer)
    <3>1. CASE ask.by = "reader" /\ ask.loaded = "head"
      BY <2>1, <3>1 DEF AskInv, Told
    <3>2. CASE ask.by = "reader" /\ ask.loaded = "tail"
      BY <3>2 DEF AskInv, Told
    <3>3. CASE ask.by = "writer" /\ ask.loaded = "head"
      BY <3>3 DEF AskInv, Told
    <3>4. CASE ask.by = "writer" /\ ask.loaded = "tail"
      BY <2>1, <3>4 DEF AskInv, Told
    <3> QED BY <2>1, <3>1, <3>2, <3>3, <3>4
  <2>3. ask' = [ask EXCEPT !.loaded = "both", !.answer = answer] /\ answer \in BOOLEAN
    BY <1>6 DEF Compare
  <2> HIDE DEF answer
  <2>4. ask' \in Asks /\ ask'.by = ask.by /\ ask'.loaded = "both" /\ ask'.answer = answer
    <3> DEFINE e == [ask EXCEPT !.loaded = "both"]
    <3>1. e = [by |-> ask.by, loaded |-> "both", value |-> ask.value, answer |-> ask.answer]
      BY <1>0 DEF Asks
    <3>2. ask' = [e EXCEPT !.answer = answer]
      BY <2>3
    <3> HIDE DEF e
    <3>3. ask' = [by |-> ask.by, loaded |-> "both", value |-> ask.value, answer |-> answer]
      BY <3>1, <3>2
    <3> QED BY <1>0, <2>3, <3>3 DEF Asks
  <2>5. Noted' /\ was \subseteq was'
    BY <1>6, <2>1, <2>4, NotesTaken
  <2>6. EmptyWasTrue'
    BY <2>2, <2>4, <2>5 DEF EmptyWasTrue, Told
  <2> QED BY <2>1, <2>4, <2>5, <2>6 DEF AskInv
<1>7. ASSUME Return PROVE AskInv'
  BY <1>7 DEF Return, NotAsked, AskInv, Asks, EmptyWasTrue
<1> QED BY <1>1, <1>3, <1>4, <1>5, <1>6, <1>7 DEF Next

(* Whatever the other side does between the two loads, what IsEmpty answers*)
(* to the only reader, or to the only writer, was so during the call.      *)
THEOREM EmptyAnswersAreTrue == Spec => []EmptyWasTrue
<1>1. Init => AskInv
  BY DEF Init, NotAsked, AskInv, Asks, EmptyWasTrue
<1>2. AskInv => EmptyWasTrue
  BY DEF AskInv
<1> QED BY <1>1, <1>2, TypesCorrect, AskKept, PTL DEF Spec

=============================================================================
