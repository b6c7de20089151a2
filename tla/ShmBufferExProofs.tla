------------------------- MODULE ShmBufferExProofs -------------------------
(***************************************************************************)
(* The record queue, for every size of ring, records and headers and any   *)
(* number of processes, provided that every record fits in the empty ring  *)
(* (RecordsFit).  In three parts:                                          *)
(*                                                                         *)
(*   the bytes: what the moves of head and tail do to the bytes between    *)
(*   them and to the records these make up;                                *)
(*                                                                         *)
(*   the records: the queue is type correct and never overwrites, cuts or  *)
(*   reorders the records in it, and no reader leaves the chain of records;*)
(*                                                                         *)
(*   the accounts: the totals, histories and losses are exact, a reader    *)
(*   slot is never past a message without lost saying so, and the ring     *)
(*   implements MessageQueue.                                              *)
(***************************************************************************)
EXTENDS ShmBufferEx, TLAPS

-----------------------------------------------------------------------------
(* The bytes.                                                              *)

(* Chains of records, apart from the ring they lie in.                     *)

(* q2 holds the bytes of q and behind them record number t of s bytes; or  *)
(* the bytes of q but for the first s.                                     *)
StoredBehind(q, q2, b, e, p, t, s) ==
  /\ q \in [b .. e - 1 -> Bytes]
  /\ q2 \in [b .. e + s - 1 -> Bytes]
  /\ \A v \in b .. e - 1 : q2[v] = q[v]
  /\ \A k \in 0 .. s - 1 : q2[e + k] = [msg |-> t, off |-> k, size |-> s, prev |-> p]

FreedBefore(q, q2, b, e, s) ==
  /\ q \in [b .. e - 1 -> Bytes]
  /\ q2 \in [b + s .. e - 1 -> Bytes]
  /\ \A v \in b + s .. e - 1 : q2[v] = q[v]

(* The last n of t messages lie from b to e, the newest with l bytes.      *)
ChainOf(q, b, e, n, l, t) ==
  /\ b \in Nat /\ e \in Nat /\ b <= e
  /\ n \in Nat /\ l \in Nat /\ t \in Nat
  /\ Chained(q, b, e, n, l)
  /\ Numbered(q, b, e, n, t)

(* Storing a record behind a chain makes a longer chain.                   *)
LEMMA ChainStore ==
  ASSUME NEW b, NEW e, NEW n, NEW l, NEW t, NEW q, ChainOf(q, b, e, n, l, t),
         NEW s \in RecordSizes, NEW p \in Nat, n # 0 => p = l,
         NEW q2, StoredBehind(q, q2, b, e, p, t, s)
  PROVE  /\ ChainOf(q2, b, e + s, n + 1, s, t + 1)
         /\ Starts(q2) = Starts(q) \union {e}
<1> SUFFICES ASSUME b \in Nat, e \in Nat, b <= e, n \in Nat, l \in Nat, t \in Nat,
                    s \in Nat, p \in Nat,
                    Chained(q, b, e, n, l), Numbered(q, b, e, n, t)
             PROVE  /\ Chained(q2, b, e + s, n + 1, s)
                    /\ Numbered(q2, b, e + s, n + 1, t + 1)
                    /\ Starts(q2) = Starts(q) \union {e}
  BY SizesAssumption DEF ChainOf
<1>1. s > 0
  BY SizesAssumption
<1>2. /\ DOMAIN q = b .. e - 1
      /\ DOMAIN q2 = b .. e + s - 1
      /\ \A v \in b .. e - 1 : q[v].off \in Nat /\ q[v].size \in Nat /\ q[v].prev \in Nat /\ q[v].msg \in Nat
  BY DEF StoredBehind, Bytes
<1>3. /\ e \in Starts(q2)
      /\ q2[e] = [msg |-> t, off |-> 0, size |-> s, prev |-> p]
  BY <1>1, <1>2 DEF Starts, StoredBehind
<1>4. \A v \in DOMAIN q2 : v < e => v \in DOMAIN q /\ q2[v] = q[v]
  BY <1>1, <1>2 DEF StoredBehind
<1>5. \A v \in DOMAIN q2 : v > e => q2[v].off = v - e
  <2> TAKE v \in DOMAIN q2
  <2> HAVE v > e
  <2>1. v - e \in 0 .. s - 1 /\ v = e + (v - e)
    BY <1>1, <1>2
  <2>2. q2[e + (v - e)] = [msg |-> t, off |-> v - e, size |-> s, prev |-> p]
    BY <2>1 DEF StoredBehind
  <2> QED BY <2>1, <2>2
<1>6. Starts(q2) = Starts(q) \union {e}
  BY <1>1, <1>2, <1>3, <1>4, <1>5 DEF Starts
<1>7. \A v \in Starts(q) : /\ v \in b .. e - 1 /\ v \in DOMAIN q2 /\ q2[v] = q[v] /\ v < e
                           /\ q[v].size \in Nat /\ q[v].prev \in Nat /\ q[v].msg \in Nat
  BY <1>1, <1>2 DEF Starts, StoredBehind
<1>numbered. /\ n # 0 => q[b].msg = t - n
             /\ \A v \in Starts(q) : q[v].msg < t /\ (v + q[v].size = e => q[v].msg = t - 1)
             /\ \A v, w \in Starts(q) : v < w => q[v].msg < q[w].msg
  BY DEF Numbered
<1>8. ASSUME NEW v \in Starts(q)
      PROVE  WholeAt(q2, b, e + s, v)
  <2>1. WholeAt(q, b, e, v)
    BY DEF Chained
  <2>2. /\ q[v].size \in RecordSizes /\ q[v].size \in Nat /\ q[v].size > 0
        /\ v + q[v].size <= e
    BY <2>1, <1>7, SizesAssumption DEF WholeAt
  <2>3. \A k \in 0 .. q[v].size - 1 :
          q2[v + k] = [msg |-> q[v].msg, off |-> k, size |-> q[v].size, prev |-> q[v].prev]
    <3> TAKE k \in 0 .. q[v].size - 1
    <3>1. v + k \in b .. e - 1
      BY <2>2, <1>7
    <3>2. q[v + k] = [msg |-> q[v].msg, off |-> k, size |-> q[v].size, prev |-> q[v].prev]
      BY <2>1 DEF WholeAt
    <3> QED BY <3>1, <3>2 DEF StoredBehind
  <2>4. v + q[v].size < e + s => /\ q2[v + q[v].size].off = 0
                                 /\ q2[v + q[v].size].msg = q[v].msg + 1
    <3>1. CASE v + q[v].size < e
      <4>1. q[v + q[v].size].off = 0 /\ q[v + q[v].size].msg = q[v].msg + 1
        BY <3>1, <2>1 DEF WholeAt
      <4>2. v + q[v].size \in b .. e - 1
        BY <3>1, <2>2, <1>7
      <4>3. q2[v + q[v].size] = q[v + q[v].size]
        BY <4>2 DEF StoredBehind
      <4> QED BY <4>1, <4>3
    <3>2. CASE v + q[v].size = e
      <4>1. q[v].msg = t - 1
        BY <3>2, <1>numbered
      <4> QED BY <3>2, <4>1, <1>3
    <3> QED BY <3>1, <3>2, <2>2, <1>7
  <2>5. v > b => v - q[v].prev \in Starts(q2) /\ q2[v - q[v].prev].size = q[v].prev
    <3> HAVE v > b
    <3>1. v - q[v].prev \in Starts(q) /\ q[v - q[v].prev].size = q[v].prev
      BY <2>1, <1>7 DEF WholeAt
    <3> QED BY <3>1, <1>6, <1>7
  <2> QED BY <2>2, <2>3, <2>4, <2>5, <1>1, <1>7 DEF WholeAt
<1>9. WholeAt(q2, b, e + s, e)
  <2>1. e > b => e - l \in Starts(q) /\ q[e - l].size = l /\ n # 0
    BY DEF Chained
  <2>2. e > b => e - q2[e].prev \in Starts(q2) /\ q2[e - q2[e].prev].size = q2[e].prev
    BY <2>1, <1>3, <1>6, <1>7
  <2>3. \A k \in 0 .. s - 1 :
          q2[e + k] = [msg |-> q2[e].msg, off |-> k, size |-> q2[e].size, prev |-> q2[e].prev]
    BY <1>3 DEF StoredBehind
  <2> QED BY <2>2, <2>3, <1>1, <1>3 DEF WholeAt
<1>10. Chained(q2, b, e + s, n + 1, s)
  <2>1. b \in Starts(q2)
    BY <1>6 DEF Chained
  <2>2. e + s - s \in Starts(q2) /\ q2[e + s - s].size = s
    BY <1>1, <1>3
  <2>3. n + 1 = 0 <=> b = e + s
    BY <1>1
  <2>4. \A v \in Starts(q2) : WholeAt(q2, b, e + s, v)
    BY <1>6, <1>8, <1>9
  <2> QED BY <1>1, <2>1, <2>2, <2>3, <2>4 DEF Chained
<1>11. Numbered(q2, b, e + s, n + 1, t + 1)
  <2>1. q2[b].msg = t - n
    <3>1. CASE n = 0
      BY <3>1, <1>3 DEF Chained
    <3>2. CASE n # 0
      BY <3>2, <1>7, <1>numbered DEF Chained
    <3> QED BY <3>1, <3>2
  <2>2. \A v \in Starts(q2) : q2[v].msg < t + 1
    <3> TAKE v \in Starts(q2)
    <3>1. CASE v = e
      BY <3>1, <1>3
    <3>2. CASE v \in Starts(q)
      BY <3>2, <1>7, <1>numbered
    <3> QED BY <3>1, <3>2, <1>6
  <2>3. \A v \in Starts(q2) : v + q2[v].size = e + s => q2[v].msg = t
    <3> TAKE v \in Starts(q2)
    <3>1. CASE v = e
      BY <3>1, <1>3
    <3>2. CASE v \in Starts(q)
      <4>1. v + q[v].size <= e
        BY <3>2 DEF Chained, WholeAt
      <4> QED BY <3>2, <4>1, <1>1, <1>2, <1>7
    <3> QED BY <3>1, <3>2, <1>6
  <2>4. \A v, w \in Starts(q2) : v < w => q2[v].msg < q2[w].msg
    <3> TAKE v, w \in Starts(q2)
    <3> HAVE v < w
    <3>1. v \in Starts(q)
      BY <1>6, <1>7
    <3>2. CASE w = e
      <4>1. q2[w].msg = t
        BY <3>2, <1>3
      <4>2. q2[v].msg < t
        BY <3>1, <1>7, <1>numbered
      <4> QED BY <4>1, <4>2
    <3>3. CASE w \in Starts(q)
      BY <3>1, <3>3, <1>7, <1>numbered
    <3> QED BY <3>2, <3>3, <1>6
  <2> QED BY <2>1, <2>2, <2>3, <2>4 DEF Numbered
<1> QED BY <1>6, <1>10, <1>11

(* Taking the first record off a chain leaves a chain.                     *)
LEMMA ChainFree ==
  ASSUME NEW b, NEW e, NEW n, NEW l, NEW t, NEW q, ChainOf(q, b, e, n, l, t), n # 0,
         NEW q2, NEW s \in Nat, s = q[b].size, FreedBefore(q, q2, b, e, s)
  PROVE  /\ ChainOf(q2, b + s, e, n - 1, l, t)
         /\ Starts(q2) = Starts(q) \ {b}
<1> SUFFICES ASSUME b \in Nat, e \in Nat, b <= e, n \in Nat, l \in Nat, t \in Nat,
                    Chained(q, b, e, n, l), Numbered(q, b, e, n, t)
             PROVE  /\ b + s <= e
                    /\ Chained(q2, b + s, e, n - 1, l)
                    /\ Numbered(q2, b + s, e, n - 1, t)
                    /\ Starts(q2) = Starts(q) \ {b}
  BY DEF ChainOf
<1>1. /\ b \in Starts(q)
      /\ s \in RecordSizes /\ s > 0
      /\ b + s <= e
      /\ \A k \in 0 .. s - 1 : q[b + k].off = k
  <2>1. b \in Starts(q) /\ WholeAt(q, b, e, b)
    BY DEF Chained
  <2>2. \A k \in 0 .. s - 1 : q[b + k].off = k
    <3> TAKE k \in 0 .. s - 1
    <3>1. q[b + k] = [msg |-> q[b].msg, off |-> k, size |-> q[b].size, prev |-> q[b].prev]
      BY <2>1 DEF WholeAt
    <3> QED BY <3>1
  <2> QED BY <2>1, <2>2, SizesAssumption DEF WholeAt
<1>2. /\ DOMAIN q = b .. e - 1
      /\ DOMAIN q2 = b + s .. e - 1
      /\ \A v \in b .. e - 1 : q[v].off \in Nat /\ q[v].size \in Nat /\ q[v].prev \in Nat /\ q[v].msg \in Nat
  BY DEF FreedBefore, Bytes
<1>3. \A v \in Starts(q) : v = b \/ v >= b + s
  <2> TAKE v \in Starts(q)
  <2>1. v \in b .. e - 1 /\ q[v].off = 0
    BY <1>2 DEF Starts
  <2>2. ASSUME v # b, v < b + s PROVE FALSE
    <3>1. v - b \in 0 .. s - 1 /\ b + (v - b) = v
      BY <2>1, <2>2, <1>1
    <3>2. q[v].off = v - b
      BY <3>1, <1>1
    <3> QED BY <3>2, <2>1, <2>2
  <2> QED BY <2>1, <2>2, <1>1
<1>4. Starts(q2) = Starts(q) \ {b}
  BY <1>1, <1>2, <1>3 DEF Starts, FreedBefore
<1>5. \A v \in Starts(q2) : /\ v \in b + s .. e - 1 /\ v \in Starts(q) /\ q2[v] = q[v]
                            /\ q[v].size \in Nat /\ q[v].prev \in Nat /\ q[v].msg \in Nat
  BY <1>2, <1>4 DEF Starts, FreedBefore
<1>6. b + s < e => /\ b + s \in Starts(q2) /\ b + s \in Starts(q)
                   /\ q2[b + s].msg = t - n + 1
  <2> HAVE b + s < e
  <2>1. q[b + s].off = 0 /\ q[b + s].msg = q[b].msg + 1
    BY <1>1 DEF Chained, WholeAt
  <2>2. b + s \in DOMAIN q /\ b + s \in DOMAIN q2 /\ q2[b + s] = q[b + s]
    BY <1>1, <1>2 DEF FreedBefore
  <2>3. q[b].msg = t - n
    BY DEF Numbered
  <2> QED BY <2>1, <2>2, <2>3 DEF Starts
<1>numbered. \A v \in Starts(q) : q[v].msg < t
  BY DEF Numbered
<1>7. n - 1 = 0 <=> b + s = e
  <2>1. ASSUME b + s = e PROVE n = 1
    BY <2>1, <1>1 DEF Numbered
  <2>2. ASSUME b + s < e PROVE n # 1
    <3>1. b + s \in Starts(q) /\ q[b + s].msg = t - n + 1
      BY <2>2, <1>1, <1>5, <1>6
    <3>2. q[b + s].msg < t
      BY <3>1, <1>numbered
    <3> QED BY <3>1, <3>2
  <2> QED BY <2>1, <2>2, <1>1
<1>8. Chained(q2, b + s, e, n - 1, l)
  <2>1. ASSUME n - 1 # 0
        PROVE  b + s \in Starts(q2) /\ e - l \in Starts(q2) /\ q2[e - l].size = l
    <3>1. b + s < e
      BY <2>1, <1>1, <1>7
    <3>2. e - l \in Starts(q) /\ q[e - l].size = l
      BY DEF Chained
    <3>3. e - l # b
      <4> SUFFICES ASSUME e - l = b PROVE FALSE
        OBVIOUS
      <4>1. s = l
        BY <3>2
      <4> QED BY <4>1, <3>1, <1>1
    <3> QED BY <3>1, <3>2, <3>3, <1>4, <1>5, <1>6
  <2>2. ASSUME NEW v \in Starts(q2)
        PROVE  WholeAt(q2, b + s, e, v)
    <3>1. /\ WholeAt(q, b, e, v)
          /\ v \in b + s .. e - 1 /\ v > b
          /\ q2[v] = q[v]
      BY <1>1, <1>5 DEF Chained
    <3>2. q[v].size \in Nat /\ q[v].size > 0 /\ v + q[v].size <= e
      BY <3>1, <1>5, SizesAssumption DEF WholeAt
    <3>3. \A k \in 0 .. q[v].size - 1 :
          q2[v + k] = [msg |-> q[v].msg, off |-> k, size |-> q[v].size, prev |-> q[v].prev]
      <4> TAKE k \in 0 .. q[v].size - 1
      <4>1. v + k \in b + s .. e - 1
        BY <3>1, <3>2, <1>1
      <4>2. q[v + k] = [msg |-> q[v].msg, off |-> k, size |-> q[v].size, prev |-> q[v].prev]
        BY <3>1 DEF WholeAt
      <4> QED BY <4>1, <4>2 DEF FreedBefore
    <3>4. v + q[v].size < e => /\ q2[v + q[v].size].off = 0
                               /\ q2[v + q[v].size].msg = q[v].msg + 1
      <4> HAVE v + q[v].size < e
      <4>1. v + q[v].size \in b + s .. e - 1
        BY <3>1, <3>2, <1>1
      <4>2. q2[v + q[v].size] = q[v + q[v].size]
        BY <4>1 DEF FreedBefore
      <4>3. /\ q[v + q[v].size].off = 0
            /\ q[v + q[v].size].msg = q[v].msg + 1
        BY <3>1 DEF WholeAt
      <4> QED BY <4>2, <4>3
    <3>5. v > b + s => v - q[v].prev \in Starts(q2) /\ q2[v - q[v].prev].size = q[v].prev
      <4> HAVE v > b + s
      <4>1. v - q[v].prev \in Starts(q) /\ q[v - q[v].prev].size = q[v].prev
        BY <3>1 DEF WholeAt
      <4>2. v - q[v].prev # b
        <5> SUFFICES ASSUME v - q[v].prev = b PROVE FALSE
          OBVIOUS
        <5>1. q[v].prev = s
          BY <4>1
        <5> QED BY <5>1, <1>1, <3>1
      <4> QED BY <4>1, <4>2, <1>4, <1>5
    <3> QED BY <3>1, <3>2, <3>3, <3>4, <3>5 DEF WholeAt
  <2> QED BY <2>1, <2>2, <1>7 DEF Chained
<1>9. Numbered(q2, b + s, e, n - 1, t)
  <2>1. n - 1 # 0 => q2[b + s].msg = t - (n - 1)
    BY <1>1, <1>6, <1>7
  <2> QED BY <2>1, <1>5 DEF Numbered
<1> QED BY <1>1, <1>4, <1>8, <1>9

-----------------------------------------------------------------------------
(* The ring: what moving the head or the tail does to the contents.        *)

RingTypes ==
  /\ mem \in [Addresses -> Bytes]
  /\ head \in Addresses /\ tail \in 0 .. BufferSize
  /\ head_offset \in Nat /\ tail_offset \in Nat

(* The positions, as one integer each, and the bytes behind them.          *)
LEMMA Positions ==
  ASSUME RingTypes, Placement
  PROVE  /\ GetBeginVptr \in Nat /\ GetEndVptr \in Nat
         /\ GetBeginVptr <= GetEndVptr
         /\ contents \in [GetBeginVptr .. GetEndVptr - 1 -> Bytes]
<1>1. /\ head \in Nat /\ tail \in Nat /\ head < BufferSize /\ BufferSize \in Nat
      /\ head_offset \in Nat /\ tail_offset \in Nat
  BY SizesAssumption DEF RingTypes, Addresses
<1>2. GetBeginVptr \in Nat /\ GetEndVptr \in Nat /\ GetBeginVptr <= GetEndVptr
  BY <1>1 DEF GetBeginVptr, GetEndVptr, Placement
<1>3. ASSUME NEW v \in Live
      PROVE  getRecord(v) \in Bytes
  <2>1. /\ v \in Int
        /\ 0 <= v - head_offset
        /\ v - head_offset < 2 * BufferSize
    BY <1>1 DEF Live, GetBeginVptr, GetEndVptr, Placement, NeverOverfull, capacity
  <2>2. Mirror(v - head_offset) \in Addresses
    BY <1>1, <2>1 DEF Mirror, Addresses
  <2> QED BY <2>2 DEF getRecord, RingTypes
<1> QED BY <1>2, <1>3 DEF contents, Live

(* free_head takes n bytes off the front and moves no other.               *)
LEMMA FreeHeadRing ==
  ASSUME RingTypes, Placement, NEW n \in Nat, n <= GetEndVptr - GetBeginVptr, n > 0,
         free_head(n), UNCHANGED <<mem, tail, tail_offset>>
  PROVE  /\ RingTypes' /\ Placement'
         /\ GetBeginVptr' = GetBeginVptr + n
         /\ GetEndVptr' = GetEndVptr
         /\ FreedBefore(contents, contents', GetBeginVptr, GetEndVptr, n)
<1>1. /\ head \in Nat /\ tail \in Nat /\ head < BufferSize /\ BufferSize \in Nat
      /\ tail <= BufferSize
      /\ head_offset \in Nat /\ tail_offset \in Nat
      /\ mem' = mem /\ tail' = tail /\ tail_offset' = tail_offset
  BY SizesAssumption DEF RingTypes, Addresses
<1>2. /\ head + head_offset + n <= tail + tail_offset
      /\ tail + tail_offset <= head + head_offset + BufferSize - 1
  BY <1>1 DEF GetBeginVptr, GetEndVptr, Placement, NeverOverfull, capacity
<1>3. /\ head' \in Nat /\ head' < BufferSize /\ head_offset' \in Nat
      /\ \/ head' = head + n /\ head_offset' = head_offset
         \/ head' = head + n - BufferSize /\ head_offset' = head_offset + BufferSize
  <2>1. head + n < 2 * BufferSize
    BY <1>1, <1>2
  <2> QED BY <1>1, <2>1 DEF free_head
<1>4. GetBeginVptr' = GetBeginVptr + n /\ GetEndVptr' = GetEndVptr
  <2>1. head' + head_offset' = head + head_offset + n
    <3>1. CASE head' = head + n /\ head_offset' = head_offset
      BY <1>1, <3>1
    <3>2. CASE head' = head + n - BufferSize /\ head_offset' = head_offset + BufferSize
      BY <1>1, <3>2
    <3> QED BY <1>3, <3>1, <3>2
  <2>2. tail' + tail_offset' = tail + tail_offset
    BY <1>1
  <2> QED BY <1>1, <2>1, <2>2 DEF GetBeginVptr, GetEndVptr
<1>5. RingTypes'
  BY <1>1, <1>3 DEF RingTypes, Addresses
<1>6. Placement'
  <2>1. \/ tail_offset = head_offset
        \/ tail_offset = head_offset + BufferSize
        \/ /\ tail_offset = head_offset - BufferSize
           /\ head = 0
           /\ tail = BufferSize
    BY DEF Placement
  <2>2. \/ tail_offset' = head_offset'
        \/ tail_offset' = head_offset' + BufferSize
        \/ /\ tail_offset' = head_offset' - BufferSize
           /\ head' = 0
           /\ tail' = BufferSize
    <3>1. CASE head' = head + n /\ head_offset' = head_offset
      BY <1>1, <1>2, <2>1, <3>1
    <3>2. CASE head' = head + n - BufferSize /\ head_offset' = head_offset + BufferSize
      BY <1>1, <1>2, <1>3, <2>1, <3>2
    <3> QED BY <1>3, <3>1, <3>2
  <2>3. GetBeginVptr' <= GetEndVptr' /\ GetEndVptr' - GetBeginVptr' <= BufferSize - 1
    BY <1>1, <1>2, <1>4 DEF GetBeginVptr, GetEndVptr
  <2> QED BY <2>2, <2>3 DEF Placement, NeverOverfull, capacity
<1>7. ASSUME NEW v \in GetBeginVptr + n .. GetEndVptr - 1
      PROVE  v \in Live /\ v \in Live' /\ contents'[v] = contents[v]
  <2>1. v \in Live /\ v \in Live'
    BY <1>1, <1>4 DEF Live, GetBeginVptr, GetEndVptr
  <2>2. v \in Int /\ head + head_offset + n <= v /\ v < head + head_offset + BufferSize
    BY <1>1, <1>2 DEF GetBeginVptr, GetEndVptr
  <2>3. Mirror(v - head_offset') = Mirror(v - head_offset)
    <3>1. CASE head_offset' = head_offset
      BY <3>1
    <3>2. CASE head' = head + n - BufferSize /\ head_offset' = head_offset + BufferSize
      <4>1. v - head_offset >= BufferSize /\ v - head_offset < 2 * BufferSize
        BY <1>1, <1>3, <2>2, <3>2
      <4>2. v - head_offset' = (v - head_offset) - BufferSize
        BY <1>1, <2>2, <3>2
      <4> QED BY <1>1, <2>2, <4>1, <4>2 DEF Mirror
    <3> QED BY <1>3, <3>1, <3>2
  <2> QED BY <1>1, <2>1, <2>3 DEF contents, getRecord
<1>8. contents \in [GetBeginVptr .. GetEndVptr - 1 -> Bytes]
  BY Positions
<1>9. contents' \in [GetBeginVptr + n .. GetEndVptr - 1 -> Bytes]
  <2>1. DOMAIN contents' = GetBeginVptr + n .. GetEndVptr - 1
    BY <1>4 DEF contents, Live
  <2>2. \A v \in GetBeginVptr + n .. GetEndVptr - 1 : contents'[v] \in Bytes
    BY <1>7, <1>8 DEF Live
  <2> QED BY <2>1, <2>2 DEF contents
<1> QED BY <1>4, <1>5, <1>6, <1>7, <1>8, <1>9 DEF FreedBefore

(* Distances on the ring, in plain numbers: the byte at v lies v - e behind *)
(* the tail, or a turn of the ring more, where e is the end.               *)
LEMMA Distance ==
  ASSUME NEW B \in Nat, NEW h \in Nat, NEW t \in Nat, h < B, t <= B,
         NEW ho \in Nat, NEW to \in Nat, NEW s \in Nat, s > 0,
         h + ho <= t + to, t + to + s < h + ho + B,
         to = ho \/ to = ho + B \/ (to = ho - B /\ h = 0 /\ t = B),
         NEW v \in Int, h <= v - ho, v - ho < h + B, v < t + to + s,
         NEW a, a = IF v - ho < B THEN v - ho ELSE v - ho - B
  PROVE  (IF a >= t THEN a - t ELSE a + B - t) =
         (IF v < t + to THEN v - (t + to) + B ELSE v - (t + to))
<1>1. CASE to = ho
  BY <1>1
<1>2. CASE to = ho + B
  BY <1>2
<1>3. CASE to = ho - B /\ h = 0 /\ t = B
  BY <1>3
<1> QED BY <1>1, <1>2, <1>3

(* Store writes s bytes behind the last one and none of the live bytes.    *)
LEMMA StoreRing ==
  ASSUME RingTypes, Placement, last_record_size \in Nat, total_count \in Nat,
         NEW s \in Nat, s > 0, GetEndVptr - GetBeginVptr + s <= capacity, Store(s)
  PROVE  /\ RingTypes' /\ Placement'
         /\ GetBeginVptr' = GetBeginVptr
         /\ GetEndVptr' = GetEndVptr + s
         /\ StoredBehind(contents, contents', GetBeginVptr, GetEndVptr,
                         IF count # 0 THEN last_record_size ELSE 0, total_count, s)
<1> DEFINE p == IF count # 0 THEN last_record_size ELSE 0
           new(k) == [msg |-> total_count, off |-> k, size |-> s, prev |-> p]
<1>1. /\ head \in Nat /\ tail \in Nat /\ head < BufferSize /\ BufferSize \in Nat
      /\ tail <= BufferSize
      /\ head_offset \in Nat /\ tail_offset \in Nat
      /\ head' = head /\ head_offset' = head_offset
      /\ p \in Nat
  BY SizesAssumption DEF RingTypes, Addresses, Store
<1>2. /\ head + head_offset <= tail + tail_offset
      /\ tail + tail_offset + s < head + head_offset + BufferSize
  BY <1>1 DEF GetBeginVptr, GetEndVptr, Placement, capacity
<1>3. \/ tail_offset = head_offset
      \/ tail_offset = head_offset + BufferSize
      \/ /\ tail_offset = head_offset - BufferSize
         /\ head = 0
         /\ tail = BufferSize
  BY DEF Placement
<1>4. \/ /\ tail + s <= BufferSize
         /\ tail' = tail + s
         /\ tail_offset' = tail_offset
      \/ /\ tail + s > BufferSize
         /\ tail' = tail + s - BufferSize
         /\ tail_offset' = tail_offset + BufferSize
  BY <1>1 DEF Store, commit
<1>5. /\ tail' \in Nat /\ tail' <= BufferSize /\ tail_offset' \in Nat
      /\ tail' + tail_offset' = tail + tail_offset + s
      /\ \/ tail_offset' = head_offset
         \/ tail_offset' = head_offset + BufferSize
  <2>1. CASE tail + s <= BufferSize /\ tail' = tail + s /\ tail_offset' = tail_offset
    <3>1. ~(tail_offset = head_offset - BufferSize /\ head = 0 /\ tail = BufferSize)
      BY <1>1, <2>1
    <3> QED BY <1>1, <1>3, <2>1, <3>1
  <2>2. CASE /\ tail + s > BufferSize
             /\ tail' = tail + s - BufferSize
             /\ tail_offset' = tail_offset + BufferSize
    <3>1. tail_offset # head_offset + BufferSize
      BY <1>1, <1>2, <2>2
    <3>2. tail + s < 2 * BufferSize
      BY <1>1, <1>2, <1>3
    <3> QED BY <1>1, <1>3, <2>2, <3>1, <3>2
  <2> QED BY <1>4, <2>1, <2>2
<1>6. GetBeginVptr' = GetBeginVptr /\ GetEndVptr' = GetEndVptr + s
  BY <1>1, <1>5 DEF GetBeginVptr, GetEndVptr
<1>7. Placement'
  <2>1. GetBeginVptr' <= GetEndVptr' /\ GetEndVptr' - GetBeginVptr' <= BufferSize - 1
    BY <1>1, <1>6, Positions DEF capacity
  <2> QED BY <1>1, <1>5, <2>1 DEF Placement, NeverOverfull, capacity
<1>8. mem' = [a \in Addresses |-> IF FromTail(a) < s THEN new(FromTail(a)) ELSE mem[a]]
  BY DEF Store
(* Where the byte at v lies, counted from the tail.                        *)
<1>9. ASSUME NEW v \in Int, GetBeginVptr <= v, v < GetEndVptr + s
      PROVE  /\ Mirror(v - head_offset) \in Addresses
             /\ FromTail(Mirror(v - head_offset)) =
                  IF v < GetEndVptr THEN v - GetEndVptr + BufferSize ELSE v - GetEndVptr
  <2>1. /\ head <= v - head_offset
        /\ v - head_offset < head + BufferSize
        /\ v < tail + tail_offset + s
    BY <1>1, <1>2, <1>9 DEF GetBeginVptr, GetEndVptr
  <2>2. Mirror(v - head_offset) \in Addresses
    BY <1>1, <2>1 DEF Mirror, Addresses
  <2>3. FromTail(Mirror(v - head_offset)) =
          IF v < tail + tail_offset THEN v - (tail + tail_offset) + BufferSize
                                    ELSE v - (tail + tail_offset)
    BY <1>1, <1>2, <1>3, <2>1, Distance DEF Mirror, FromTail
  <2> QED BY <2>2, <2>3 DEF GetEndVptr
<1>10. contents \in [GetBeginVptr .. GetEndVptr - 1 -> Bytes]
  BY Positions
<1>11. GetBeginVptr \in Nat /\ GetEndVptr \in Nat /\ GetBeginVptr <= GetEndVptr
  BY Positions
<1>12. ASSUME NEW v \in GetBeginVptr .. GetEndVptr - 1
       PROVE  v \in Live' /\ contents'[v] = contents[v]
  <2>1. v \in Int /\ GetBeginVptr <= v /\ v < GetEndVptr
    BY <1>11
  <2>2. v \in Live /\ v \in Live'
    BY <1>6, <1>11, <2>1 DEF Live
  <2>3. /\ Mirror(v - head_offset) \in Addresses
        /\ FromTail(Mirror(v - head_offset)) = v - GetEndVptr + BufferSize
    BY <1>9, <1>11, <2>1
  <2>4. ~(FromTail(Mirror(v - head_offset)) < s)
    BY <1>1, <1>2, <2>1, <2>3 DEF GetBeginVptr, GetEndVptr
  <2>5. mem'[Mirror(v - head_offset)] = mem[Mirror(v - head_offset)]
    BY <1>8, <2>3, <2>4
  <2> QED BY <1>1, <2>2, <2>5 DEF contents, getRecord
<1>13. ASSUME NEW k \in 0 .. s - 1
       PROVE  GetEndVptr + k \in Live' /\ contents'[GetEndVptr + k] = new(k)
  <2> DEFINE v == GetEndVptr + k
  <2>1. v \in Int /\ GetBeginVptr <= v /\ v < GetEndVptr + s /\ ~(v < GetEndVptr)
    BY <1>11
  <2>2. v \in Live'
    BY <1>6, <1>11, <2>1 DEF Live
  <2>3. /\ Mirror(v - head_offset) \in Addresses
        /\ FromTail(Mirror(v - head_offset)) = k
    BY <1>9, <1>11, <2>1
  <2>4. mem'[Mirror(v - head_offset)] = new(k)
    BY <1>8, <2>3
  <2> QED BY <1>1, <2>2, <2>4 DEF contents, getRecord
<1>14. DOMAIN contents' = GetBeginVptr .. GetEndVptr + s - 1
  <2>1. DOMAIN contents' = GetBeginVptr' .. GetEndVptr' - 1
    BY DEF contents, Live
  <2> QED BY <2>1, <1>6, <1>11
<1>15. \A k \in 0 .. s - 1 : new(k) \in Bytes
  BY <1>1 DEF Bytes
<1>16. \A v \in GetBeginVptr .. GetEndVptr + s - 1 : contents'[v] \in Bytes
  <2> TAKE v \in GetBeginVptr .. GetEndVptr + s - 1
  <2>1. CASE v < GetEndVptr
    BY <2>1, <1>10, <1>11, <1>12
  <2>2. CASE ~(v < GetEndVptr)
    <3>1. v - GetEndVptr \in 0 .. s - 1 /\ v = GetEndVptr + (v - GetEndVptr)
      BY <2>2, <1>11
    <3>2. contents'[GetEndVptr + (v - GetEndVptr)] = new(v - GetEndVptr)
      BY <3>1, <1>13
    <3> QED BY <3>1, <3>2, <1>15
  <2> QED BY <2>1, <2>2
<1>17. contents' \in [GetBeginVptr .. GetEndVptr + s - 1 -> Bytes]
  BY <1>14, <1>16 DEF contents
<1>18. RingTypes'
  <2>1. ASSUME NEW a \in Addresses
        PROVE  mem'[a] \in Bytes
    <3>1. FromTail(a) \in Nat
      BY <1>1 DEF FromTail, Addresses
    <3>2. FromTail(a) < s => new(FromTail(a)) \in Bytes
      BY <3>1, <1>15
    <3> QED BY <1>8, <3>2 DEF RingTypes
  <2> QED BY <1>1, <1>5, <1>8, <2>1 DEF RingTypes, Addresses
<1> QED
  BY <1>6, <1>7, <1>10, <1>12, <1>13, <1>17, <1>18 DEF StoredBehind

-----------------------------------------------------------------------------
(* The inductive invariant of the ring, and what the two moves do to it.   *)

Core ==
  /\ RingTypes
  /\ last_record_size \in Nat /\ count \in Nat /\ total_count \in Nat
  /\ Placement
  /\ RecordsWhole
  /\ OldestFirst

(* free_size tells the truth except in the drained queue whose tail stands *)
(* at the seam, where it says yes to everything and a record that fits in  *)
(* the ring does fit.                                                      *)
LEMMA Room ==
  ASSUME RecordsFit, RingTypes, Placement, NEW s \in RecordSizes
  PROVE  /\ free_size >= s => GetEndVptr - GetBeginVptr + s <= capacity
         /\ free_size < s /\ ~is_empty => GetBeginVptr # GetEndVptr
<1>1. /\ head \in Nat /\ tail \in Nat /\ head < BufferSize /\ BufferSize \in Nat
      /\ tail <= BufferSize
      /\ head_offset \in Nat /\ tail_offset \in Nat
      /\ SizeModulus \in Nat /\ s + BufferSize < SizeModulus
      /\ s \in Nat /\ s <= BufferSize - 1
  BY SizesAssumption DEF RingTypes, Addresses, RecordsFit, capacity
<1>2. /\ head + head_offset <= tail + tail_offset
      /\ tail + tail_offset < head + head_offset + BufferSize
  BY <1>1 DEF GetBeginVptr, GetEndVptr, Placement, NeverOverfull, capacity
<1>3. CASE tail_offset = head_offset - BufferSize /\ head = 0 /\ tail = BufferSize
  <2>1. free_size = SizeModulus - 1
    BY <1>1, <1>3 DEF free_size, data_size, capacity
  <2>2. GetBeginVptr = GetEndVptr
    BY <1>1, <1>3 DEF GetBeginVptr, GetEndVptr
  <2>3. GetEndVptr \in Int
    BY <1>1 DEF GetEndVptr
  <2> QED BY <1>1, <2>1, <2>2, <2>3 DEF capacity
<1>4. CASE tail_offset = head_offset
  <2>1. head <= tail /\ data_size = tail - head
    BY <1>1, <1>2, <1>4 DEF data_size
  <2>2. GetEndVptr - GetBeginVptr = tail - head /\ GetBeginVptr \in Int /\ GetEndVptr \in Int
    BY <1>1, <1>4 DEF GetBeginVptr, GetEndVptr
  <2>3. free_size = BufferSize - 1 - (tail - head)
    BY <1>1, <1>2, <1>4, <2>1 DEF free_size, capacity
  <2>4. GetBeginVptr = GetEndVptr => is_empty
    BY <1>1, <1>4 DEF is_empty, GetBeginVptr, GetEndVptr
  <2> QED BY <1>1, <2>1, <2>2, <2>3, <2>4 DEF capacity
<1>5. CASE tail_offset = head_offset + BufferSize
  <2>1. tail < head /\ data_size = BufferSize - (head - tail)
    BY <1>1, <1>2, <1>5 DEF data_size
  <2>2. /\ GetEndVptr - GetBeginVptr = BufferSize - (head - tail)
        /\ GetBeginVptr \in Int /\ GetEndVptr \in Int
    BY <1>1, <1>5 DEF GetBeginVptr, GetEndVptr
  <2>3. free_size = BufferSize - 1 - (BufferSize - (head - tail))
    BY <1>1, <1>2, <1>5, <2>1 DEF free_size, capacity
  <2> QED BY <1>1, <2>1, <2>2, <2>3 DEF capacity
<1> QED BY <1>3, <1>4, <1>5 DEF Placement

LEMMA CoreStore ==
  ASSUME RecordsFit, Core, NEW s \in RecordSizes, free_size >= s, Store(s)
  PROVE  /\ Core'
         /\ GetBeginVptr' = GetBeginVptr
         /\ GetEndVptr' = GetEndVptr + s
         /\ Starts(contents)' = Starts(contents) \union {GetEndVptr}
<1>1. s \in Nat /\ s > 0
  BY SizesAssumption
<1>2. /\ GetEndVptr - GetBeginVptr + s <= capacity
      /\ RingTypes /\ Placement /\ last_record_size \in Nat /\ total_count \in Nat /\ count \in Nat
  BY Room DEF Core
<1>3. /\ RingTypes' /\ Placement'
      /\ GetBeginVptr' = GetBeginVptr
      /\ GetEndVptr' = GetEndVptr + s
      /\ StoredBehind(contents, contents', GetBeginVptr, GetEndVptr,
                      IF count # 0 THEN last_record_size ELSE 0, total_count, s)
  BY <1>1, <1>2, StoreRing
<1>4. GetBeginVptr \in Nat /\ GetEndVptr \in Nat /\ GetBeginVptr <= GetEndVptr
  BY <1>2, Positions
<1>5. count' = count + 1 /\ total_count' = total_count + 1 /\ last_record_size' = s
  BY DEF Store
<1>6. ChainOf(contents, GetBeginVptr, GetEndVptr, count, last_record_size, total_count)
  BY <1>2, <1>4 DEF Core, RecordsWhole, OldestFirst, ChainOf
<1>7. /\ ChainOf(contents', GetBeginVptr, GetEndVptr + s, count + 1, s, total_count + 1)
      /\ Starts(contents') = Starts(contents) \union {GetEndVptr}
  <2> DEFINE p == IF count # 0 THEN last_record_size ELSE 0
  <2>1. p \in Nat /\ (count # 0 => p = last_record_size)
    BY <1>2
  <2>2. StoredBehind(contents, contents', GetBeginVptr, GetEndVptr, p, total_count, s)
    BY <1>3
  <2> HIDE DEF p
  <2> QED BY <1>6, <2>1, <2>2, ChainStore
<1>8. RecordsWhole' /\ OldestFirst'
  BY <1>3, <1>5, <1>7 DEF RecordsWhole, OldestFirst, ChainOf
<1> QED BY <1>1, <1>2, <1>3, <1>5, <1>7, <1>8 DEF Core

LEMMA FirstRecord ==
  ASSUME Core, count # 0
  PROVE  /\ getFirstRecord = contents[GetBeginVptr]
         /\ getFirstRecord.size \in RecordSizes
         /\ getFirstRecord.size \in Nat /\ getFirstRecord.size > 0
         /\ GetBeginVptr + getFirstRecord.size <= GetEndVptr
<1>1. head \in Nat /\ head_offset \in Nat
  BY SizesAssumption DEF Core, RingTypes, Addresses
<1>2. GetBeginVptr \in Starts(contents) /\ WholeAt(contents, GetBeginVptr, GetEndVptr, GetBeginVptr)
  BY DEF Core, RecordsWhole, Chained
<1>3. getFirstRecord = contents[GetBeginVptr]
  <2>1. GetBeginVptr - head_offset = head
    BY <1>1 DEF GetBeginVptr
  <2>2. GetBeginVptr \in Live
    BY <1>2 DEF Starts, contents
  <2> QED BY <2>1, <2>2 DEF getFirstRecord, contents, getRecord
<1>4. /\ contents[GetBeginVptr].size \in RecordSizes
      /\ GetBeginVptr + contents[GetBeginVptr].size <= GetEndVptr
  BY <1>2 DEF WholeAt
<1>5. \A s \in RecordSizes : s \in Nat /\ s > 0
  BY SizesAssumption
<1> QED BY <1>3, <1>4, <1>5

LEMMA CoreFree ==
  ASSUME Core, count # 0, free_head(getFirstRecord.size), count' = count - 1,
         UNCHANGED <<mem, tail, tail_offset, last_record_size, total_count>>
  PROVE  /\ Core'
         /\ GetBeginVptr' = GetBeginVptr + getFirstRecord.size
         /\ GetEndVptr' = GetEndVptr
         /\ Starts(contents)' = Starts(contents) \ {GetBeginVptr}
<1> DEFINE s == getFirstRecord.size
<1>1. /\ s = contents[GetBeginVptr].size
      /\ s \in Nat /\ s > 0 /\ GetBeginVptr + s <= GetEndVptr
  BY FirstRecord
<1>2. /\ RingTypes /\ Placement /\ last_record_size \in Nat /\ total_count \in Nat /\ count \in Nat
  BY DEF Core
<1>3. GetBeginVptr \in Nat /\ GetEndVptr \in Nat /\ GetBeginVptr <= GetEndVptr
  BY <1>2, Positions
<1>4. free_head(s) /\ UNCHANGED <<mem, tail, tail_offset>>
  OBVIOUS
<1>5. last_record_size' = last_record_size /\ total_count' = total_count
  OBVIOUS
<1> HIDE DEF s
<1>6. s <= GetEndVptr - GetBeginVptr
  BY <1>1, <1>3
<1>7. /\ RingTypes' /\ Placement'
      /\ GetBeginVptr' = GetBeginVptr + s
      /\ GetEndVptr' = GetEndVptr
      /\ FreedBefore(contents, contents', GetBeginVptr, GetEndVptr, s)
  BY <1>1, <1>2, <1>4, <1>6, FreeHeadRing
<1>8. ChainOf(contents, GetBeginVptr, GetEndVptr, count, last_record_size, total_count)
  BY <1>2, <1>3 DEF Core, RecordsWhole, OldestFirst, ChainOf
<1>9. /\ ChainOf(contents', GetBeginVptr + s, GetEndVptr, count - 1, last_record_size, total_count)
      /\ Starts(contents') = Starts(contents) \ {GetBeginVptr}
  BY <1>1, <1>7, <1>8, ChainFree
<1>10. RecordsWhole' /\ OldestFirst'
  BY <1>5, <1>7, <1>9 DEF RecordsWhole, OldestFirst, ChainOf
<1> QED BY <1>2, <1>5, <1>7, <1>9, <1>10 DEF Core, s

LEMMA CoreSame ==
  ASSUME Core, UNCHANGED ring
  PROVE  /\ Core'
         /\ GetBeginVptr' = GetBeginVptr
         /\ GetEndVptr' = GetEndVptr
         /\ Starts(contents)' = Starts(contents)
<1>1. /\ mem' = mem /\ head' = head /\ tail' = tail
      /\ head_offset' = head_offset /\ tail_offset' = tail_offset
      /\ last_record_size' = last_record_size /\ count' = count /\ total_count' = total_count
  BY DEF ring, places
<1>2. GetBeginVptr' = GetBeginVptr /\ GetEndVptr' = GetEndVptr
  BY <1>1 DEF GetBeginVptr, GetEndVptr
<1>3. contents' = contents
  BY <1>1, <1>2 DEF contents, Live, getRecord
<1> QED
  BY <1>1, <1>2, <1>3 DEF Core, RingTypes, Placement, NeverOverfull, RecordsWhole, OldestFirst

-----------------------------------------------------------------------------
(* The records.                                                            *)

(* The types of what is not in the ring.                                   *)
OtherTypes ==
  /\ total_drop_count \in Nat /\ total_error_count \in Nat
  /\ tmp_count \in Nat /\ tmp_volume \in Nat
  /\ tmp_drop_count \in Nat /\ tmp_drop_volume \in Nat
  /\ on_overflow \in Overflow /\ drop_is_ok \in BOOLEAN /\ drifted \in Int
  /\ reader \in [Readers -> [pos : Nat, lost : Nat]]
  /\ mutex \in Procs \union {Nobody}
  /\ need \in RecordSizes \union {0}
  /\ pc \in [Procs -> {"idle", "dropping", "pop", "get", "get_lost", "get_direction",
                       "used_bp", "used", "capacity", "transfer"}]
  /\ cursor \in [Cursors -> Int]
  /\ message_history \in [count : Nat, volume : Nat]
  /\ drop_history \in [count : Nat, volume : Nat]
  /\ error_history \in [count : Nat, volume : Nat]
  /\ gauge \in [count : Nat, used_bp : Nat, used : Nat, capacity : Nat]
  /\ seen \in [Readers -> [next : Nat, got : Nat]]

(* The inductive invariant.  Pushes, pops and drops keep the ring in order *)
(* by themselves; the types of the readers need PositionsAligned, because  *)
(* a Get that read a header out of the middle of a record could move a     *)
(* position anywhere; and a push that loops needs LoopHoldsMutex, because  *)
(* it must find need unchanged.                                            *)
RingInv ==
  /\ Core
  /\ OtherTypes
  /\ LoopHoldsMutex
  /\ PositionsAligned

-----------------------------------------------------------------------------
(* Positions.                                                              *)

AlignedIn(b, e, starts, pos) == pos < b \/ pos = e \/ pos \in starts

(* A header in the queue is followed and preceded by headers.              *)
LEMMA WholeRecord ==
  ASSUME Core, NEW v \in Starts(contents)
  PROVE  /\ getRecord(v) \in Bytes
         /\ getRecord(v).size \in RecordSizes
         /\ getRecord(v).size \in Nat /\ getRecord(v).size >= HeaderSize
         /\ getRecord(v).size > 0
         /\ v \in Nat /\ GetBeginVptr <= v /\ v < GetEndVptr
         /\ \/ v + getRecord(v).size = GetEndVptr
            \/ v + getRecord(v).size \in Starts(contents)
         /\ v > GetBeginVptr => v - getRecord(v).prev \in Starts(contents)
         /\ v + getRecord(v).size <= GetEndVptr
<1>1. /\ GetBeginVptr \in Nat /\ GetEndVptr \in Nat
      /\ contents \in [GetBeginVptr .. GetEndVptr - 1 -> Bytes]
  BY Positions DEF Core
<1>2. /\ v \in GetBeginVptr .. GetEndVptr - 1
      /\ contents[v] \in Bytes
  BY <1>1 DEF Starts
<1>3. getRecord(v) = contents[v]
  BY <1>2 DEF contents, Live
<1>4. WholeAt(contents, GetBeginVptr, GetEndVptr, v)
  BY DEF Core, RecordsWhole, Chained
<1>5. /\ contents[v].size \in RecordSizes
      /\ v + contents[v].size <= GetEndVptr
      /\ v + contents[v].size < GetEndVptr => contents[v + contents[v].size].off = 0
      /\ v > GetBeginVptr => v - contents[v].prev \in Starts(contents)
  BY <1>4 DEF WholeAt
<1>6. contents[v].size \in Nat /\ contents[v].size >= HeaderSize /\ contents[v].size > 0
  BY <1>5, SizesAssumption
<1>7. \/ v + contents[v].size = GetEndVptr
      \/ v + contents[v].size \in Starts(contents)
  <2>1. CASE v + contents[v].size < GetEndVptr
    <3>1. v + contents[v].size \in GetBeginVptr .. GetEndVptr - 1
      BY <2>1, <1>1, <1>2, <1>6
    <3> QED BY <2>1, <3>1, <1>1, <1>5 DEF Starts
  <2> QED BY <2>1, <1>1, <1>2, <1>5, <1>6
<1> QED BY <1>1, <1>2, <1>3, <1>5, <1>6, <1>7

(* The ends of the queue are aligned, and its last record.                 *)
LEMMA EndsAligned ==
  ASSUME Core
  PROVE  /\ GetBeginVptr \in Nat /\ GetEndVptr \in Nat /\ GetLastVptr \in Int
         /\ GetBeginVptr <= GetEndVptr
         /\ Aligned(GetBeginVptr) /\ Aligned(GetEndVptr) /\ Aligned(GetLastVptr)
         /\ count # 0 => /\ GetLastVptr \in Starts(contents)
                         /\ GetBeginVptr < GetEndVptr
<1>1. /\ GetBeginVptr \in Nat /\ GetEndVptr \in Nat /\ GetBeginVptr <= GetEndVptr
      /\ last_record_size \in Nat
  BY Positions DEF Core
<1>2. GetLastVptr = GetEndVptr - last_record_size
  <2>1. tail \in Int /\ tail_offset \in Int
    BY SizesAssumption DEF Core, RingTypes
  <2> QED BY <1>1, <2>1 DEF GetLastVptr, GetEndVptr
<1>3. /\ count = 0 => GetBeginVptr = GetEndVptr
      /\ count # 0 => /\ GetBeginVptr # GetEndVptr
                      /\ GetBeginVptr \in Starts(contents)
                      /\ GetEndVptr - last_record_size \in Starts(contents)
  BY DEF Core, RecordsWhole, Chained
<1> QED BY <1>1, <1>2, <1>3 DEF Aligned

LEMMA NextAligned ==
  ASSUME Core, NEW pos \in Int, Aligned(pos)
  PROVE  /\ GetNextVptr(pos) \in Nat
         /\ Aligned(GetNextVptr(pos))
<1>1. /\ GetBeginVptr \in Nat /\ GetEndVptr \in Nat /\ GetBeginVptr <= GetEndVptr
      /\ Aligned(GetBeginVptr) /\ Aligned(GetEndVptr)
  BY EndsAligned
<1>2. CASE pos < GetBeginVptr
  BY <1>1, <1>2 DEF GetNextVptr
<1>3. CASE pos >= GetEndVptr
  BY <1>1, <1>3 DEF GetNextVptr
<1>4. CASE ~(pos < GetBeginVptr) /\ ~(pos >= GetEndVptr)
  <2>1. pos \in Starts(contents)
    BY <1>1, <1>4 DEF Aligned
  <2>2. GetNextVptr(pos) = pos + getRecord(pos).size
    BY <1>1, <1>4 DEF GetNextVptr
  <2> QED BY <2>1, <2>2, WholeRecord DEF Aligned
<1> QED BY <1>2, <1>3, <1>4

LEMMA PrevAligned ==
  ASSUME Core, NEW pos \in Int, Aligned(pos)
  PROVE  /\ GetPrevVptr(pos) \in Int
         /\ Aligned(GetPrevVptr(pos))
<1>1. /\ GetBeginVptr \in Nat /\ GetEndVptr \in Nat /\ GetBeginVptr <= GetEndVptr
      /\ Aligned(GetEndVptr)
  BY EndsAligned
<1>2. CASE pos <= GetBeginVptr
  <2>1. GetPrevVptr(pos) = -1
    BY <1>2 DEF GetPrevVptr
  <2>2. -1 \in Int /\ -1 < GetBeginVptr
    BY <1>1
  <2> QED BY <2>1, <2>2 DEF Aligned
<1>3. CASE pos > GetEndVptr
  BY <1>1, <1>3 DEF GetPrevVptr
<1>4. CASE pos > GetBeginVptr /\ pos = GetEndVptr
  <2>1. GetPrevVptr(pos) = GetEndVptr - last_record_size
    BY <1>1, <1>4 DEF GetPrevVptr
  <2>2. GetEndVptr - last_record_size \in Starts(contents)
    BY <1>1, <1>4 DEF Core, RecordsWhole, Chained
  <2>3. last_record_size \in Nat
    BY DEF Core
  <2> QED BY <1>1, <2>1, <2>2, <2>3 DEF Aligned
<1>5. CASE pos > GetBeginVptr /\ pos < GetEndVptr
  <2>1. pos \in Starts(contents)
    BY <1>1, <1>5 DEF Aligned
  <2>2. GetPrevVptr(pos) = pos - getRecord(pos).prev
    BY <1>1, <1>5 DEF GetPrevVptr
  <2>3. pos - getRecord(pos).prev \in Starts(contents) /\ getRecord(pos) \in Bytes
    BY <2>1, <1>5, WholeRecord
  <2>4. pos - getRecord(pos).prev \in Nat
    BY <2>3, WholeRecord
  <2> QED BY <2>2, <2>3, <2>4 DEF Aligned
<1> QED BY <1>1, <1>2, <1>3, <1>4, <1>5

(* What a Get finds at a position it has caught up with, if not the end.   *)
LEMMA CatchUpAligned ==
  ASSUME Core, NEW pos \in Int, Aligned(pos),
         NEW c, c = IF pos < GetBeginVptr THEN GetBeginVptr ELSE pos
  PROVE  /\ c \in Int /\ c >= pos /\ c >= GetBeginVptr /\ Aligned(c)
         /\ count # 0 /\ ~(c > GetLastVptr) => c \in Starts(contents)
<1>1. /\ GetBeginVptr \in Nat /\ GetEndVptr \in Nat /\ GetLastVptr \in Int
      /\ Aligned(GetBeginVptr)
      /\ count # 0 => GetLastVptr \in Starts(contents)
  BY EndsAligned
<1>2. c \in Int /\ c >= pos /\ c >= GetBeginVptr /\ Aligned(c)
  BY <1>1
<1>3. ASSUME count # 0, ~(c > GetLastVptr)
      PROVE  c \in Starts(contents)
  <2>1. GetLastVptr < GetEndVptr
    BY <1>1, <1>3, WholeRecord
  <2> QED BY <1>1, <1>2, <1>3, <2>1 DEF Aligned
<1> QED BY <1>2, <1>3

(* The three things that happen to the ring leave aligned positions so.    *)
LEMMA StillAligned ==
  ASSUME Core, NEW pos \in Int, Aligned(pos), NEW b \in Int, NEW e \in Int, NEW starts,
         \/ b = GetBeginVptr /\ e = GetEndVptr /\ starts = Starts(contents)
         \/ b = GetBeginVptr /\ starts = Starts(contents) \union {GetEndVptr}
         \/ b > GetBeginVptr /\ e = GetEndVptr /\ starts = Starts(contents) \ {GetBeginVptr}
  PROVE  AlignedIn(b, e, starts, pos)
<1>1. GetBeginVptr \in Nat /\ GetEndVptr \in Nat
  BY EndsAligned
<1> QED BY <1>1 DEF Aligned, AlignedIn

(* The same of all the positions that processes and slots hold.            *)
LEMMA HeldAligned ==
  ASSUME Core, PositionsAligned, OtherTypes,
         GetBeginVptr' \in Int, GetEndVptr' \in Int,
         \/ /\ GetBeginVptr' = GetBeginVptr /\ GetEndVptr' = GetEndVptr
            /\ Starts(contents)' = Starts(contents)
         \/ /\ GetBeginVptr' = GetBeginVptr
            /\ Starts(contents)' = Starts(contents) \union {GetEndVptr}
         \/ /\ GetBeginVptr' > GetBeginVptr /\ GetEndVptr' = GetEndVptr
            /\ Starts(contents)' = Starts(contents) \ {GetBeginVptr}
  PROVE  /\ \A i \in Readers : AlignedIn(GetBeginVptr', GetEndVptr', Starts(contents)', reader[i].pos)
         /\ \A p \in Cursors : AlignedIn(GetBeginVptr', GetEndVptr', Starts(contents)', cursor[p])
<1>1. ASSUME NEW i \in Readers
      PROVE  AlignedIn(GetBeginVptr', GetEndVptr', Starts(contents)', reader[i].pos)
  <2>1. reader[i].pos \in Int /\ Aligned(reader[i].pos)
    BY DEF OtherTypes, PositionsAligned
  <2> QED BY <2>1, StillAligned
<1>2. ASSUME NEW p \in Cursors
      PROVE  AlignedIn(GetBeginVptr', GetEndVptr', Starts(contents)', cursor[p])
  <2>1. cursor[p] \in Int /\ Aligned(cursor[p])
    BY DEF OtherTypes, PositionsAligned
  <2> QED BY <2>1, StillAligned
<1> QED BY <1>1, <1>2

(* A step that moves no position keeps them aligned, whatever it does to   *)
(* the ring.                                                               *)
LEMMA PositionsKept ==
  ASSUME RingInv, Core', UNCHANGED <<reader, cursor>>,
         \/ /\ GetBeginVptr' = GetBeginVptr /\ GetEndVptr' = GetEndVptr
            /\ Starts(contents)' = Starts(contents)
         \/ /\ GetBeginVptr' = GetBeginVptr
            /\ Starts(contents)' = Starts(contents) \union {GetEndVptr}
         \/ /\ GetBeginVptr' > GetBeginVptr /\ GetEndVptr' = GetEndVptr
            /\ Starts(contents)' = Starts(contents) \ {GetBeginVptr}
  PROVE  PositionsAligned'
<1>1. GetBeginVptr' \in Int /\ GetEndVptr' \in Int
  <2>1. RingTypes' /\ Placement'
    BY DEF Core
  <2>2. head' \in Int /\ tail' \in Int /\ head_offset' \in Int /\ tail_offset' \in Int
    BY <2>1, SizesAssumption DEF RingTypes, Addresses
  <2> QED BY <2>2 DEF GetBeginVptr, GetEndVptr
<1>2. Core /\ PositionsAligned /\ OtherTypes
  BY DEF RingInv
<1>3. /\ \A i \in Readers : AlignedIn(GetBeginVptr', GetEndVptr', Starts(contents)', reader[i].pos)
      /\ \A p \in Cursors : AlignedIn(GetBeginVptr', GetEndVptr', Starts(contents)', cursor[p])
  BY <1>1, <1>2, HeldAligned
<1> QED BY <1>3 DEF PositionsAligned, Aligned, AlignedIn

-----------------------------------------------------------------------------
(* One lemma per operation.                                                *)

LEMMA LoopNeed ==
  ASSUME RingInv, NEW p \in Producers, pc[p] = "dropping"
  PROVE  need \in RecordSizes
<1>1. p \in Procs /\ p # Nobody
  BY UsersAssumption DEF Procs
<1>2. mutex = p
  BY <1>1 DEF RingInv, LoopHoldsMutex
<1> QED BY <1>1, <1>2 DEF RingInv, LoopHoldsMutex

LEMMA PushStores ==
  ASSUME RecordsFit, RingInv, NEW p \in Producers,
         (\E s \in RecordSizes : PushFits(p, s)) \/ PushAfterDrop(p)
  PROVE  RingInv'
<1>1. PICK s \in RecordSizes :
        /\ free_size >= s /\ Store(s) /\ UNCHANGED <<policy, reader, cursor, history, gauge, seen>>
        /\ \/ UNCHANGED <<mutex, need, pc>>
           \/ pc[p] = "dropping" /\ Release(p)
  <2>1. CASE \E s \in RecordSizes : PushFits(p, s)
    BY <2>1 DEF PushFits
  <2>2. CASE PushAfterDrop(p)
    <3>1. need \in RecordSizes
      BY <2>2, LoopNeed DEF PushAfterDrop
    <3> QED BY <2>2, <3>1 DEF PushAfterDrop
  <2> QED BY <2>1, <2>2
<1>2. /\ Core'
      /\ GetBeginVptr' = GetBeginVptr
      /\ Starts(contents)' = Starts(contents) \union {GetEndVptr}
  BY <1>1, CoreStore DEF RingInv
<1>3. s \in Nat
  BY SizesAssumption
<1>4. OtherTypes'
  BY <1>1, <1>3 DEF RingInv, OtherTypes, Store, Release, drops, policy, history
<1>5. LoopHoldsMutex'
  BY <1>1, UsersAssumption DEF RingInv, OtherTypes, LoopHoldsMutex, Release, Procs
<1>6. PositionsAligned'
  BY <1>1, <1>2, PositionsKept
<1> QED BY <1>2, <1>4, <1>5, <1>6 DEF RingInv

(* A step that leaves the ring, the lock and the positions alone, or only  *)
(* takes the lock into the loop or gives it back from there.               *)
LEMMA RingUntouched ==
  ASSUME RingInv, UNCHANGED <<ring, reader, cursor>>, OtherTypes', LoopHoldsMutex'
  PROVE  RingInv'
<1>1. /\ Core'
      /\ GetBeginVptr' = GetBeginVptr /\ GetEndVptr' = GetEndVptr
      /\ Starts(contents)' = Starts(contents)
  BY CoreSame DEF RingInv
<1>2. PositionsAligned'
  BY <1>1, PositionsKept
<1> QED BY <1>1, <1>2 DEF RingInv

LEMMA PushGivesUp ==
  ASSUME RingInv, NEW p \in Producers, NEW s \in RecordSizes,
         PushDropNew(p, s) \/ PushDropOld(p, s) \/ PushTooLarge(p)
  PROVE  RingInv'
<1>1. s \in Nat
  BY SizesAssumption
<1>2. OtherTypes'
  BY <1>1 DEF RingInv, OtherTypes, PushDropNew, PushDropOld, PushTooLarge, CountDrop, Release,
              drops, policy, history, Procs
<1>3. LoopHoldsMutex'
  BY UsersAssumption DEF RingInv, OtherTypes, LoopHoldsMutex, PushDropNew, PushDropOld, PushTooLarge,
              Release, Procs
<1>4. UNCHANGED <<ring, reader, cursor>>
  BY DEF PushDropNew, PushDropOld, PushTooLarge
<1> QED BY <1>2, <1>3, <1>4, RingUntouched

LEMMA PushDrops ==
  ASSUME RecordsFit, RingInv, NEW p \in Producers, PushDropFirst(p)
  PROVE  RingInv'
<1>1. need \in RecordSizes
  BY LoopNeed DEF PushDropFirst
<1>2. count # 0
  <2>1. GetBeginVptr # GetEndVptr
    BY <1>1, Room DEF PushDropFirst, RingInv, Core
  <2> QED BY <2>1 DEF RingInv, Core, RecordsWhole, Chained
<1>3. dropFirstRecord /\ UNCHANGED <<policy, reader, mutex, need, pc, cursor, history, gauge, seen>>
  BY DEF PushDropFirst
<1>4. /\ Core'
      /\ GetBeginVptr' = GetBeginVptr + getFirstRecord.size
      /\ GetEndVptr' = GetEndVptr
      /\ Starts(contents)' = Starts(contents) \ {GetBeginVptr}
  BY <1>2, <1>3, CoreFree DEF dropFirstRecord, RingInv
<1>5. /\ getFirstRecord.size \in Nat /\ getFirstRecord.size > 0
      /\ GetBeginVptr \in Nat
  BY <1>2, FirstRecord, EndsAligned DEF RingInv
<1>6. OtherTypes'
  BY <1>3, <1>5 DEF RingInv, OtherTypes, dropFirstRecord, CountDrop, policy, history
<1>7. LoopHoldsMutex'
  BY <1>3 DEF RingInv, LoopHoldsMutex
<1>8. GetBeginVptr' > GetBeginVptr
  BY <1>4, <1>5
<1>9. PositionsAligned'
  BY <1>3, <1>4, <1>8, PositionsKept
<1> QED BY <1>4, <1>6, <1>7, <1>9 DEF RingInv

LEMMA PopStep ==
  ASSUME RingInv, NEW p \in Consumers, NEW m \in MaxSizes, NEW d \in BOOLEAN, Pop(p, m, d)
  PROVE  RingInv'
<1>1. /\ OtherTypes'
      /\ LoopHoldsMutex'
  BY UsersAssumption DEF RingInv, OtherTypes, LoopHoldsMutex, Pop, Leave, drops, policy, history, Procs
<1>2. CASE count # 0 /\ free_head(getFirstRecord.size) /\ count' = count - 1
  <2>1. /\ Core'
        /\ GetBeginVptr' = GetBeginVptr + getFirstRecord.size
        /\ GetEndVptr' = GetEndVptr
        /\ Starts(contents)' = Starts(contents) \ {GetBeginVptr}
    BY <1>2, CoreFree DEF Pop, Leave, RingInv
  <2>2. GetBeginVptr' > GetBeginVptr
    BY <1>2, <2>1, FirstRecord, EndsAligned DEF RingInv
  <2>3. PositionsAligned'
    BY <2>1, <2>2, PositionsKept DEF Pop
  <2> QED BY <1>1, <2>1, <2>3 DEF RingInv
<1>3. CASE UNCHANGED <<head, head_offset, count>>
  BY <1>1, <1>3, RingUntouched DEF Pop, Leave, ring, places
<1> QED BY <1>2, <1>3 DEF Pop

(* Get(reader_index): the slot moves to the header after the one it reads. *)
LEMMA GetByIndexStep ==
  ASSUME RingInv, NEW p \in Followers, NEW i \in Readers, NEW m \in MaxSizes,
         GetByIndex(p, i, m)
  PROVE  RingInv'
<1> DEFINE old == reader[i].pos
           pos == CatchUp(reader[i].pos)
           rec == getRecord(pos)
           lost == LostUpTo(i)
<1>1. /\ Core /\ OtherTypes /\ PositionsAligned
      /\ old \in Nat /\ reader[i].lost \in Nat /\ Aligned(old)
      /\ seen[i].got \in Nat
  BY DEF RingInv, OtherTypes, PositionsAligned
<1>2. /\ pos \in Int /\ pos >= old /\ Aligned(pos)
      /\ pos >= GetBeginVptr /\ GetBeginVptr \in Nat
      /\ count # 0 /\ ~(pos > GetLastVptr) => pos \in Starts(contents)
  BY <1>1, CatchUpAligned, EndsAligned DEF CatchUp
<1>3. lost \in Nat /\ pos \in Nat
  <2>1. lost = reader[i].lost + (pos - old)
    BY DEF LostUpTo
  <2> QED BY <1>1, <1>2, <2>1
<1>4. UNCHANGED ring /\ UNCHANGED cursor
  BY DEF GetByIndex, Leave, ring, places
<1>5. /\ Core'
      /\ GetBeginVptr' = GetBeginVptr /\ GetEndVptr' = GetEndVptr
      /\ Starts(contents)' = Starts(contents)
  BY <1>1, <1>4, CoreSame
<1>6. LoopHoldsMutex'
  BY UsersAssumption DEF RingInv, OtherTypes, LoopHoldsMutex, GetByIndex, Leave, Procs
(* What becomes of the slot, case by case.                                 *)
<1>7. \E r \in [pos : Nat, lost : Nat], n \in [next : Nat, got : Nat] :
        /\ Aligned(r.pos)
        /\ reader' = reader \/ reader' = [reader EXCEPT ![i] = r]
        /\ seen' = seen \/ seen' = [seen EXCEPT ![i] = n]
  <2>1. CASE count = 0
    <3>1. UNCHANGED <<reader, seen>>
      BY <2>1 DEF GetByIndex
    <3>2. [pos |-> old, lost |-> 0] \in [pos : Nat, lost : Nat]
      BY <1>1
    <3>3. [next |-> 0, got |-> 0] \in [next : Nat, got : Nat]
      OBVIOUS
    <3> QED BY <3>1, <3>2, <3>3, <1>1
  <2>2. CASE count # 0 /\ pos > GetLastVptr
    <3>1. reader' = [reader EXCEPT ![i] = [pos |-> pos, lost |-> lost]] /\ UNCHANGED seen
      BY <2>2 DEF GetByIndex
    <3>2. [pos |-> pos, lost |-> lost] \in [pos : Nat, lost : Nat]
      BY <1>3
    <3>3. [next |-> 0, got |-> 0] \in [next : Nat, got : Nat]
      OBVIOUS
    <3> QED BY <3>1, <3>2, <3>3, <1>2
  <2>3. CASE count # 0 /\ ~(pos > GetLastVptr)
    <3> DEFINE fits == DataSize(rec) <= m
               r == [pos |-> GetNextVptr(pos), lost |-> IF fits THEN lost ELSE lost + DataSize(rec)]
               n == [next |-> rec.msg + 1,
                     got  |-> seen[i].got + IF fits THEN rec.size ELSE HeaderSize]
    <3>1. /\ reader' = [reader EXCEPT ![i] = r]
          /\ seen' = [seen EXCEPT ![i] = n]
      <4>1. seen' = [seen EXCEPT ![i] = [next |-> rec.msg + 1,
                                         got  |-> @.got + IF fits THEN rec.size ELSE HeaderSize]]
        BY <2>3 DEF GetByIndex
      <4> QED BY <4>1, <2>3 DEF GetByIndex
    <3>2. rec \in Bytes /\ rec.size \in Nat /\ rec.size >= HeaderSize
      BY <1>1, <1>2, <2>3, WholeRecord
    <3>3. DataSize(rec) \in Nat /\ rec.msg \in Nat /\ HeaderSize \in Nat
      BY <3>2, SizesAssumption DEF DataSize, Bytes
    <3>4. GetNextVptr(pos) \in Nat /\ Aligned(GetNextVptr(pos))
      BY <1>1, <1>2, NextAligned
    <3> HIDE DEF fits, rec, lost, pos
    <3>5. r \in [pos : Nat, lost : Nat] /\ n \in [next : Nat, got : Nat]
      BY <1>1, <1>3, <3>2, <3>3, <3>4
    <3>6. Aligned(r.pos)
      BY <3>4
    <3> HIDE DEF r, n
    <3> QED BY <3>1, <3>5, <3>6
  <2> QED BY <2>1, <2>2, <2>3
<1>8. PICK r \in [pos : Nat, lost : Nat], n \in [next : Nat, got : Nat] :
        /\ Aligned(r.pos)
        /\ reader' = reader \/ reader' = [reader EXCEPT ![i] = r]
        /\ seen' = seen \/ seen' = [seen EXCEPT ![i] = n]
  BY <1>7
<1>9. OtherTypes'
  <2>1. reader' \in [Readers -> [pos : Nat, lost : Nat]]
    BY <1>1, <1>8 DEF OtherTypes
  <2>2. seen' \in [Readers -> [next : Nat, got : Nat]]
    BY <1>1, <1>8 DEF OtherTypes
  <2>3. /\ UNCHANGED <<mutex, need, drops, tmp_count, tmp_volume, policy, history, gauge, cursor>>
        /\ pc' = [pc EXCEPT ![p] = "idle"]
    BY DEF GetByIndex, Leave
  <2> QED BY <1>1, <2>1, <2>2, <2>3 DEF OtherTypes, drops, policy, history
<1>10. PositionsAligned'
  <2>1. ASSUME NEW j \in Readers PROVE Aligned(reader[j].pos)'
    <3>1. reader'[j] = reader[j] \/ reader'[j] = r
      BY <1>1, <1>8 DEF OtherTypes
    <3>2. Aligned(reader'[j].pos)
      BY <1>1, <1>8, <3>1 DEF PositionsAligned
    <3> QED BY <1>5, <3>2 DEF Aligned
  <2>2. ASSUME NEW q \in Cursors PROVE Aligned(cursor[q])'
    BY <1>1, <1>4, <1>5 DEF PositionsAligned, Aligned
  <2> QED BY <2>1, <2>2 DEF PositionsAligned
<1> QED BY <1>5, <1>6, <1>9, <1>10 DEF RingInv

(* An operation of a cursor moves it along the chain or to one of its ends.*)
LEMMA CursorStep ==
  ASSUME RingInv, NEW p \in Cursors,
         \/ Seek(p)
         \/ \E m \in MaxSizes : GetLost(p, m)
         \/ \E m \in MaxSizes, direction \in {"none", "next", "prev"} : GetDirection(p, direction, m)
  PROVE  RingInv'
<1>1. /\ Core /\ OtherTypes /\ PositionsAligned
      /\ cursor[p] \in Int /\ Aligned(cursor[p])
  BY DEF RingInv, OtherTypes, PositionsAligned
<1>2. UNCHANGED ring /\ UNCHANGED reader
  BY DEF Seek, GetLost, GetDirection, Leave, ring, places
<1>3. /\ Core'
      /\ GetBeginVptr' = GetBeginVptr /\ GetEndVptr' = GetEndVptr
      /\ Starts(contents)' = Starts(contents)
  BY <1>1, <1>2, CoreSame
<1>4. LoopHoldsMutex'
  BY UsersAssumption DEF RingInv, OtherTypes, LoopHoldsMutex, Seek, GetLost, GetDirection, Leave, Procs
<1>5. PICK pos \in Int : Aligned(pos) /\ cursor' = [cursor EXCEPT ![p] = pos]
  <2>1. CASE Seek(p)
    <3>1. PICK pos \in {GetBeginVptr, GetLastVptr, GetEndVptr,
                        GetNextVptr(cursor[p]), GetPrevVptr(cursor[p])} :
            cursor' = [cursor EXCEPT ![p] = pos]
      BY <2>1 DEF Seek
    <3>2. pos \in Int /\ Aligned(pos)
      BY <1>1, <3>1, EndsAligned, NextAligned, PrevAligned
    <3> QED BY <3>1, <3>2
  <2>2. ASSUME NEW m \in MaxSizes, GetLost(p, m)
        PROVE  \E pos \in Int : Aligned(pos) /\ cursor' = [cursor EXCEPT ![p] = pos]
    <3> DEFINE pos == CatchUp(cursor[p])
               to == CASE count = 0         -> cursor[p]
                       [] pos > GetLastVptr -> pos
                       [] OTHER             -> GetNextVptr(pos)
    <3>1. cursor' = [cursor EXCEPT ![p] = CASE count = 0         -> @
                                            [] pos > GetLastVptr -> pos
                                            [] OTHER             -> GetNextVptr(pos)]
      BY <2>2 DEF GetLost
    <3>2. cursor' = [cursor EXCEPT ![p] = to]
      BY <3>1
    <3>3. pos \in Int /\ Aligned(pos)
      BY <1>1, CatchUpAligned DEF CatchUp
    <3>4. GetNextVptr(pos) \in Int /\ Aligned(GetNextVptr(pos))
      BY <1>1, <3>3, NextAligned
    <3> HIDE DEF pos
    <3>5. to = cursor[p] \/ to = pos \/ to = GetNextVptr(pos)
      OBVIOUS
    <3> QED BY <1>1, <3>2, <3>3, <3>4, <3>5
  <2>3. ASSUME NEW m \in MaxSizes,
               \E direction \in {"none", "next", "prev"} : GetDirection(p, direction, m)
        PROVE  \E pos \in Int : Aligned(pos) /\ cursor' = [cursor EXCEPT ![p] = pos]
    <3>1. PICK direction \in {"none", "next", "prev"} : GetDirection(p, direction, m)
      BY <2>3
    <3> DEFINE pos == cursor[p]
               away == \/ count = 0
                       \/ pos < GetBeginVptr
                       \/ pos > GetLastVptr
                       \/ getRecord(pos).size > m
               to == IF away THEN pos
                     ELSE CASE direction = "next" -> GetNextVptr(pos)
                            [] direction = "prev" -> GetPrevVptr(pos)
                            [] direction = "none" -> pos
    <3>2. cursor' = [cursor EXCEPT ![p] = to]
      BY <3>1 DEF GetDirection
    <3>3. /\ GetNextVptr(pos) \in Int /\ Aligned(GetNextVptr(pos))
          /\ GetPrevVptr(pos) \in Int /\ Aligned(GetPrevVptr(pos))
      BY <1>1, NextAligned, PrevAligned
    <3> HIDE DEF away, pos
    <3>4. to = pos \/ to = GetNextVptr(pos) \/ to = GetPrevVptr(pos)
      BY <3>1
    <3>5. pos \in Int /\ Aligned(pos)
      BY <1>1 DEF pos
    <3> QED BY <3>2, <3>3, <3>4, <3>5
  <2> QED BY <2>1, <2>2, <2>3
<1>6. OtherTypes'
  <2>1. cursor' \in [Cursors -> Int]
    BY <1>1, <1>5 DEF OtherTypes
  <2>2. /\ UNCHANGED <<mutex, need, drops, tmp_count, tmp_volume, policy, history, gauge, reader, seen>>
        /\ pc' = [pc EXCEPT ![p] = "idle"] \/ pc' = pc
    BY DEF Seek, GetLost, GetDirection, Leave
  <2> QED BY <1>1, <2>1, <2>2 DEF OtherTypes, drops, policy, history
<1>7. PositionsAligned'
  <2>1. ASSUME NEW q \in Cursors PROVE Aligned(cursor[q])'
    <3>1. cursor'[q] = cursor[q] \/ cursor'[q] = pos
      BY <1>1, <1>5 DEF OtherTypes
    <3>2. Aligned(cursor'[q])
      BY <1>1, <1>5, <3>1 DEF PositionsAligned
    <3> QED BY <1>3, <3>2 DEF Aligned
  <2>2. ASSUME NEW j \in Readers PROVE Aligned(reader[j].pos)'
    BY <1>1, <1>2, <1>3 DEF PositionsAligned, Aligned
  <2> QED BY <2>1, <2>2 DEF PositionsAligned
<1> QED BY <1>3, <1>4, <1>6, <1>7 DEF RingInv

LEMMA EnterStep ==
  ASSUME RingInv, NEW p \in Procs, NEW operation \in {"pop", "get", "get_lost", "get_direction"},
         Enter(p, operation)
  PROVE  RingInv'
<1>1. OtherTypes'
  BY DEF RingInv, OtherTypes, Enter, drops, policy, history
<1>2. LoopHoldsMutex'
  BY DEF RingInv, OtherTypes, LoopHoldsMutex, Enter
<1> QED BY <1>1, <1>2, RingUntouched DEF Enter

(* Publishing and transferring leave the ring alone.                       *)
LEMMA UpdateCountersStep ==
  ASSUME RingInv, NEW p \in Updaters, UpdateCounters(p)
  PROVE  RingInv'
<1>1. /\ count \in Nat /\ data_size \in Nat /\ capacity \in Nat
      /\ get_used_bp \in Nat
  <2>1. count \in Nat /\ head \in Nat /\ head < BufferSize /\ tail \in Nat
        /\ BufferSize \in Nat /\ BufferSize > 1
    BY SizesAssumption DEF RingInv, Core, RingTypes, Addresses
  <2>2. capacity \in Nat /\ capacity > 0 /\ data_size \in Nat
    BY <2>1 DEF capacity, data_size
  <2> QED BY <2>1, <2>2 DEF get_used_bp
<1>2. OtherTypes'
  <2>1. CASE Transfer(p)
    <3>1. \A h \in [count : Nat, volume : Nat], n \in Nat, v \in Nat :
            AddBatch(h, n, v) \in [count : Nat, volume : Nat]
      BY DEF AddBatch
    <3>2. /\ drop_history' \in [count : Nat, volume : Nat]
          /\ error_history' \in [count : Nat, volume : Nat]
          /\ message_history' \in [count : Nat, volume : Nat]
      BY <2>1, <3>1 DEF RingInv, OtherTypes, Transfer, TransferDrops
    <3> QED BY <2>1, <3>2 DEF RingInv, OtherTypes, Transfer, policy
  <2>2. ASSUME NEW from, NEW to \in {"used_bp", "used", "capacity", "transfer"},
               NEW name \in {"count", "used_bp", "used", "capacity"}, NEW value \in Nat,
               Publish(p, from, to, name, value)
        PROVE  OtherTypes'
    BY <2>2 DEF RingInv, OtherTypes, Publish, drops, policy, history
  <2> QED BY <1>1, <2>1, <2>2 DEF UpdateCounters
<1>3. LoopHoldsMutex'
  BY UsersAssumption DEF RingInv, OtherTypes, LoopHoldsMutex, UpdateCounters, Publish, Transfer, Procs
<1>4. UNCHANGED <<ring, reader, cursor>>
  BY DEF UpdateCounters, Publish, Transfer
<1> QED BY <1>2, <1>3, <1>4, RingUntouched

LEMMA SetOverflovBehaviorStep ==
  ASSUME RingInv, NEW behavior \in Behaviors, SetOverflovBehavior(behavior[1], behavior[2])
  PROVE  RingInv'
<1>1. behavior[1] \in Overflow /\ behavior[2] \in BOOLEAN
  BY UsersAssumption
<1>2. OtherTypes'
  BY <1>1 DEF RingInv, OtherTypes, SetOverflovBehavior, drops, history
<1>3. LoopHoldsMutex'
  BY DEF RingInv, LoopHoldsMutex, SetOverflovBehavior
<1> QED BY <1>2, <1>3, RingUntouched DEF SetOverflovBehavior

LEMMA Stutter ==
  ASSUME RingInv, UNCHANGED vars
  PROVE  RingInv'
<1>1. OtherTypes' /\ LoopHoldsMutex' /\ UNCHANGED <<ring, reader, cursor>>
  BY DEF RingInv, OtherTypes, LoopHoldsMutex, vars, drops, policy, history
<1> QED BY <1>1, RingUntouched

-----------------------------------------------------------------------------
(* The theorems.                                                           *)

LEMMA InitRing ==
  ASSUME Init
  PROVE  RingInv
<1>1. 0 \in Addresses /\ 0 \in 0 .. BufferSize /\ Blank \in Bytes /\ BufferSize \in Nat
  BY SizesAssumption DEF Addresses, Blank, Bytes
<1>2. RingTypes /\ OtherTypes
  <2>1. RingTypes
    BY <1>1 DEF Init, RingTypes
  <2>2. /\ reader \in [Readers -> [pos : Nat, lost : Nat]]
        /\ seen \in [Readers -> [next : Nat, got : Nat]]
        /\ cursor \in [Cursors -> Int]
        /\ message_history \in [count : Nat, volume : Nat]
        /\ drop_history \in [count : Nat, volume : Nat]
        /\ error_history \in [count : Nat, volume : Nat]
        /\ gauge \in [count : Nat, used_bp : Nat, used : Nat, capacity : Nat]
    BY DEF Init
  <2>3. on_overflow \in Overflow /\ drifted \in Int
    BY DEF Init, Overflow
  <2>4. drop_is_ok \in BOOLEAN
    BY Zenon DEF Init
  <2> QED BY <2>1, <2>2, <2>3, <2>4 DEF Init, OtherTypes
<1>3. GetBeginVptr = 0 /\ GetEndVptr = 0
  BY DEF Init, GetBeginVptr, GetEndVptr
<1>4. Placement
  BY <1>1, <1>3, SizesAssumption DEF Init, Placement, NeverOverfull, capacity
<1>5. Starts(contents) = {}
  BY <1>3 DEF Starts, contents, Live
<1>6. RecordsWhole /\ OldestFirst
  BY <1>3, <1>5 DEF Init, RecordsWhole, OldestFirst, Chained, Numbered
<1>7. LoopHoldsMutex
  BY UsersAssumption DEF Init, LoopHoldsMutex
<1>8. PositionsAligned
  BY <1>3 DEF Init, PositionsAligned, Aligned
<1>9. Core
  BY <1>2, <1>4, <1>6 DEF Init, Core
<1> QED BY <1>2, <1>7, <1>8, <1>9 DEF RingInv

LEMMA NextRing ==
  ASSUME RecordsFit, RingInv, [Next]_vars
  PROVE  RingInv'
<1>1. ASSUME NEW p \in Producers, Push(p)
      PROVE  RingInv'
  <2>1. CASE \/ \E s \in RecordSizes : PushFits(p, s)
             \/ PushAfterDrop(p)
    BY <2>1, PushStores
  <2>2. CASE \E s \in RecordSizes : PushDropNew(p, s) \/ PushDropOld(p, s)
    BY <2>2, PushGivesUp
  <2>3. CASE PushTooLarge(p)
    <3>1. need \in RecordSizes
      BY <2>3, LoopNeed DEF PushTooLarge
    <3> QED BY <2>3, <3>1, PushGivesUp
  <2>4. CASE \E s \in RecordSizes : PushRefused(p, s)
    BY <2>4, Stutter DEF PushRefused
  <2>5. CASE PushDropFirst(p)
    BY <2>5, PushDrops
  <2> QED BY <1>1, <2>1, <2>2, <2>3, <2>4, <2>5 DEF Push, dropFirstRecords
<1>2. ASSUME NEW p \in Procs, ReturnEmpty(p)
      PROVE  RingInv'
  BY <1>2, Stutter DEF ReturnEmpty
<1>3. ASSUME NEW p \in Procs, \/ Enter(p, "pop") \/ Enter(p, "get")
                              \/ Enter(p, "get_lost") \/ Enter(p, "get_direction")
      PROVE  RingInv'
  BY <1>3, EnterStep
<1>4. CASE \E p \in Consumers, m \in MaxSizes, d \in BOOLEAN : Pop(p, m, d)
  BY <1>4, PopStep
<1>5. CASE \E p \in Followers, i \in Readers, m \in MaxSizes : GetByIndex(p, i, m)
  BY <1>5, GetByIndexStep
<1>6. CASE \E p \in Cursors, m \in MaxSizes :
             \/ GetLost(p, m)
             \/ \E direction \in {"none", "next", "prev"} : GetDirection(p, direction, m)
  BY <1>6, CursorStep
<1>7. CASE \E p \in Cursors : Seek(p)
  BY <1>7, CursorStep
<1>8. CASE \E p \in Updaters : UpdateCounters(p)
  BY <1>8, UpdateCountersStep
<1>9. CASE \E b \in Behaviors : SetOverflovBehavior(b[1], b[2])
  BY <1>9, SetOverflovBehaviorStep
<1>10. CASE UNCHANGED vars
  BY <1>10, Stutter
<1> QED
  BY <1>1, <1>2, <1>3, <1>4, <1>5, <1>6, <1>7, <1>8, <1>9, <1>10 DEF Next, Procs

(* The invariant that the others rest on: every step of every process keeps*)
(* the records chained, whole and numbered, and the positions on headers.  *)
THEOREM RingInvariant == RecordsFit /\ Spec => []RingInv
<1> SUFFICES ASSUME RecordsFit PROVE Spec => []RingInv
  OBVIOUS
<1>1. Init => RingInv
  BY InitRing
<1>2. RingInv /\ [Next]_vars => RingInv'
  BY NextRing
<1> QED BY <1>1, <1>2, PTL DEF Spec

(* Type correctness: in particular head never leaves the ring, tail never  *)
(* passes its end, and no count, no reader's position and no lost falls    *)
(* below zero (in the code, where they are unsigned, wraps around).        *)
THEOREM TypesCorrect == RecordsFit /\ Spec => []TypeOK
<1>1. RingInv => TypeOK
  BY DEF RingInv, Core, RingTypes, OtherTypes, TypeOK
<1> QED BY <1>1, RingInvariant, PTL

(* The ring is never overfull, and its offsets are a turn apart at most.   *)
THEOREM PlacementHolds == RecordsFit /\ Spec => []Placement
<1>1. RingInv => Placement
  BY DEF RingInv, Core
<1> QED BY <1>1, RingInvariant, PTL

(* No push overwrites, cuts or unlinks a record that is in the queue.      *)
THEOREM RecordsStayWhole == RecordsFit /\ Spec => []RecordsWhole
<1>1. RingInv => RecordsWhole
  BY DEF RingInv, Core
<1> QED BY <1>1, RingInvariant, PTL

(* The queue holds the newest count messages, in the order of their pushes.*)
THEOREM OrderKept == RecordsFit /\ Spec => []OldestFirst
<1>1. RingInv => OldestFirst
  BY DEF RingInv, Core
<1> QED BY <1>1, RingInvariant, PTL

(* No Get ever reads a header out of the middle of a record.               *)
THEOREM ReadersOnHeaders == RecordsFit /\ Spec => []PositionsAligned
<1>1. RingInv => PositionsAligned
  BY DEF RingInv
<1> QED BY <1>1, RingInvariant, PTL

(* Only the owner of the lock is in the loop of a drop_old push.           *)
THEOREM LoopOwnsLock == RecordsFit /\ Spec => []LoopHoldsMutex
<1>1. RingInv => LoopHoldsMutex
  BY DEF RingInv
<1> QED BY <1>1, RingInvariant, PTL

(* Whoever takes a record, Pop or drop_old, takes the oldest one, whole.   *)
THEOREM OldestRecordLeaves == RecordsFit /\ Spec => OldestLeaves
<1> DEFINE Taken == GetBeginVptr' # GetBeginVptr =>
                      /\ count' = count - 1
                      /\ getFirstRecord.msg = total_count - count
                      /\ GetBeginVptr' = GetBeginVptr + getFirstRecord.size
<1> SUFFICES ASSUME RecordsFit PROVE Spec => OldestLeaves
  OBVIOUS
<1>1. ASSUME RingInv, [Next]_vars PROVE Taken
  <2>1. ASSUME count # 0, free_head(getFirstRecord.size), count' = count - 1,
               UNCHANGED <<mem, tail, tail_offset, last_record_size, total_count>>
        PROVE  Taken
    <3>1. GetBeginVptr' = GetBeginVptr + getFirstRecord.size
      BY <1>1, <2>1, CoreFree DEF RingInv
    <3>2. getFirstRecord.msg = total_count - count
      BY <1>1, <2>1, FirstRecord DEF RingInv, Core, OldestFirst, Numbered
    <3> QED BY <2>1, <3>1, <3>2
  <2>2. ASSUME UNCHANGED <<head, head_offset>> PROVE Taken
    BY <2>2 DEF GetBeginVptr
  <2>3. CASE \E p \in Producers : PushDropFirst(p)
    <3>1. PICK p \in Producers : PushDropFirst(p)
      BY <2>3
    <3>2. need \in RecordSizes
      BY <1>1, <3>1, LoopNeed DEF PushDropFirst
    <3>3. GetBeginVptr # GetEndVptr
      BY <1>1, <3>1, <3>2, Room DEF PushDropFirst, RingInv, Core
    <3>4. count # 0
      BY <1>1, <3>3 DEF RingInv, Core, RecordsWhole, Chained
    <3> QED BY <2>1, <3>1, <3>4 DEF PushDropFirst, dropFirstRecord
  <2>4. CASE \E p \in Consumers, m \in MaxSizes, d \in BOOLEAN : Pop(p, m, d)
    BY <2>1, <2>2, <2>4 DEF Pop, Leave
  <2>5. CASE \/ UNCHANGED vars
             \/ \E p \in Producers, s \in RecordSizes : PushRefused(p, s)
             \/ \E p \in Procs : ReturnEmpty(p)
    BY <2>2, <2>5 DEF PushRefused, ReturnEmpty, vars, ring, places
  <2>6. CASE \/ \E p \in Producers, s \in RecordSizes : PushFits(p, s)
             \/ \E p \in Producers : PushAfterDrop(p)
    BY <2>2, <2>6 DEF PushFits, PushAfterDrop, Store
  <2>7. CASE \/ \E p \in Producers, s \in RecordSizes : PushDropNew(p, s) \/ PushDropOld(p, s)
             \/ \E p \in Producers : PushTooLarge(p)
    BY <2>2, <2>7 DEF PushDropNew, PushDropOld, PushTooLarge, ring, places
  <2>8. CASE \/ \E p \in Procs : \/ Enter(p, "pop") \/ Enter(p, "get")
                                 \/ Enter(p, "get_lost") \/ Enter(p, "get_direction")
             \/ \E p \in Cursors : Seek(p)
             \/ \E p \in Updaters : UpdateCounters(p)
             \/ \E b \in Behaviors : SetOverflovBehavior(b[1], b[2])
    BY <2>2, <2>8 DEF Enter, Seek, UpdateCounters, Publish, Transfer, SetOverflovBehavior, ring, places
  <2>9. CASE \/ \E p \in Followers, i \in Readers, m \in MaxSizes : GetByIndex(p, i, m)
             \/ \E p \in Cursors, m \in MaxSizes :
                  \/ GetLost(p, m)
                  \/ \E direction \in {"none", "next", "prev"} : GetDirection(p, direction, m)
    BY <2>2, <2>9 DEF GetByIndex, GetLost, GetDirection, Leave, ring, places
  <2> QED
    BY <1>1, <2>3, <2>4, <2>5, <2>6, <2>7, <2>8, <2>9 DEF Next, Push, dropFirstRecords, Procs
<1>2. RingInv /\ [Next]_vars => [Taken]_vars
  BY <1>1
<1> QED BY <1>2, RingInvariant, PTL DEF Spec, OldestLeaves

-----------------------------------------------------------------------------
(* The accounts.                                                           *)

(* What a step can do, apart from locks, gauges and cursors.               *)

accounts == <<drops, tmp_count, tmp_volume, policy, history>>
slots    == <<reader, seen>>

Stored(s) == free_size >= s /\ Store(s) /\ UNCHANGED <<policy, history, slots>>

Freed == /\ count # 0
         /\ free_head(getFirstRecord.size)
         /\ count' = count - 1
         /\ UNCHANGED <<mem, tail, tail_offset, last_record_size, total_count, slots>>

Dropped == Freed /\ dropFirstRecord /\ UNCHANGED <<policy, history>>

Taken == Freed /\ UNCHANGED accounts

Refused(s) == CountDrop(s) /\ UNCHANGED <<ring, tmp_count, tmp_volume, policy, history, slots>>

Told(i) == /\ \E p \in Followers, m \in MaxSizes : GetByIndex(p, i, m)
           /\ UNCHANGED <<ring, accounts>>

Handed == (\E p \in Updaters : Transfer(p)) /\ UNCHANGED <<ring, slots>>

Behaves(b) == /\ drop_is_ok' = b[2]
              /\ drifted' = drifted + PendingErrors(b[2]) - PendingErrors(drop_is_ok)
              /\ UNCHANGED <<ring, drops, tmp_count, tmp_volume, history, slots>>

Nothing == UNCHANGED <<ring, accounts, slots>>

LEMMA Steps ==
  ASSUME RecordsFit, RingInv, [Next]_vars
  PROVE  \/ \E s \in RecordSizes : Stored(s) \/ Refused(s)
         \/ Dropped \/ Taken \/ Handed \/ Nothing
         \/ \E i \in Readers : Told(i)
         \/ \E b \in Behaviors : Behaves(b)
<1>1. ASSUME NEW p \in Producers, NEW s \in RecordSizes, PushFits(p, s) PROVE Stored(s)
  BY <1>1 DEF PushFits, Stored, slots
<1>2. ASSUME NEW p \in Producers, PushAfterDrop(p) PROVE \E s \in RecordSizes : Stored(s)
  <2>1. need \in RecordSizes
    BY <1>2, LoopNeed DEF PushAfterDrop
  <2> QED BY <1>2, <2>1 DEF PushAfterDrop, Stored, slots
<1>3. ASSUME NEW p \in Producers, NEW s \in RecordSizes, PushDropNew(p, s) PROVE Refused(s)
  BY <1>3 DEF PushDropNew, Refused, slots
<1>4. ASSUME NEW p \in Producers, PushDropFirst(p) PROVE Dropped
  <2>1. need \in RecordSizes
    BY <1>4, LoopNeed DEF PushDropFirst
  <2>2. GetBeginVptr # GetEndVptr
    BY <1>4, <2>1, Room DEF PushDropFirst, RingInv, Core
  <2>3. count # 0
    BY <2>2 DEF RingInv, Core, RecordsWhole, Chained
  <2> QED BY <1>4, <2>3 DEF PushDropFirst, dropFirstRecord, Dropped, Freed, slots
<1>5. CASE \/ UNCHANGED vars
           \/ \E p \in Producers, s \in RecordSizes : PushRefused(p, s) \/ PushDropOld(p, s)
           \/ \E p \in Producers : PushTooLarge(p)
           \/ \E p \in Procs : \/ ReturnEmpty(p)
                               \/ Enter(p, "pop") \/ Enter(p, "get")
                               \/ Enter(p, "get_lost") \/ Enter(p, "get_direction")
           \/ \E p \in Cursors : Seek(p)
  <2>1. UNCHANGED <<ring, drops, tmp_count, tmp_volume, policy, history, reader, seen>>
    BY <1>5 DEF PushRefused, PushDropOld, PushTooLarge, ReturnEmpty, Enter, Seek, vars
  <2> QED BY <2>1 DEF Nothing, accounts, slots
<1>6. ASSUME NEW p \in Consumers, NEW m \in MaxSizes, NEW d \in BOOLEAN, Pop(p, m, d)
      PROVE  Taken \/ Nothing
  BY <1>6 DEF Pop, Leave, Taken, Freed, Nothing, accounts, slots, ring, places
<1>7. ASSUME NEW p \in Followers, NEW i \in Readers, NEW m \in MaxSizes, GetByIndex(p, i, m)
      PROVE  Told(i)
  BY <1>7 DEF GetByIndex, Leave, Told, accounts, ring, places
<1>8. CASE \E p \in Cursors, m \in MaxSizes :
             \/ GetLost(p, m)
             \/ \E direction \in {"none", "next", "prev"} : GetDirection(p, direction, m)
  BY <1>8 DEF GetLost, GetDirection, Leave, Nothing, accounts, slots, ring, places
<1>9. ASSUME NEW p \in Updaters, UpdateCounters(p) PROVE Handed \/ Nothing
  BY <1>9 DEF UpdateCounters, Publish, Handed, Nothing, Transfer, accounts, slots
<1>10. ASSUME NEW b \in Behaviors, SetOverflovBehavior(b[1], b[2]) PROVE Behaves(b)
  BY <1>10 DEF SetOverflovBehavior, Behaves, slots
<1> QED
  BY <1>1, <1>2, <1>3, <1>4, <1>5, <1>6, <1>7, <1>8, <1>9, <1>10
     DEF Next, Push, dropFirstRecords, Procs

-----------------------------------------------------------------------------
(* The totals and the histories.                                           *)

LEMMA Numbers ==
  ASSUME OtherTypes
  PROVE  /\ tmp_count \in Nat /\ tmp_volume \in Nat
         /\ tmp_drop_count \in Nat /\ tmp_drop_volume \in Nat
         /\ total_drop_count \in Nat /\ total_error_count \in Nat
         /\ message_history.count \in Nat /\ message_history.volume \in Nat
         /\ drop_history.count \in Nat /\ error_history.count \in Nat
BY DEF OtherTypes

LEMMA HandedOver ==
  ASSUME OtherTypes, Handed
  PROVE  /\ message_history'.count = message_history.count + tmp_count
         /\ message_history'.volume = message_history.volume + tmp_volume
         /\ drop_history'.count = drop_history.count + tmp_drop_count
         /\ error_history'.count = error_history.count + IF drop_is_ok THEN 0 ELSE tmp_drop_count
         /\ tmp_count' = 0 /\ tmp_volume' = 0 /\ tmp_drop_count' = 0
         /\ total_drop_count' = total_drop_count /\ total_error_count' = total_error_count
         /\ drop_is_ok' = drop_is_ok /\ drifted' = drifted
<1>1. PICK p \in Updaters : Transfer(p)
  BY DEF Handed
<1>2. /\ drop_history' = AddBatch(drop_history, tmp_drop_count, tmp_drop_volume)
      /\ error_history' = IF drop_is_ok THEN error_history
                          ELSE AddBatch(error_history, tmp_drop_count, tmp_drop_volume)
      /\ message_history' = AddBatch(message_history, tmp_count, tmp_volume)
      /\ tmp_count' = 0 /\ tmp_volume' = 0 /\ tmp_drop_count' = 0
      /\ total_drop_count' = total_drop_count /\ total_error_count' = total_error_count
      /\ drop_is_ok' = drop_is_ok /\ drifted' = drifted
  BY <1>1 DEF Transfer, TransferDrops, policy
<1>3. \A h, n, v : /\ AddBatch(h, n, v).count = h.count + n
                   /\ AddBatch(h, n, v).volume = h.volume + v
  BY DEF AddBatch
<1>4. error_history'.count = error_history.count + IF drop_is_ok THEN 0 ELSE tmp_drop_count
  BY <1>2, <1>3, Numbers
<1> QED BY <1>2, <1>3, <1>4

LEMMA GivenUp ==
  ASSUME OtherTypes, NEW n, CountDrop(n), UNCHANGED history
  PROVE  /\ tmp_drop_count' = tmp_drop_count + 1
         /\ total_drop_count' = total_drop_count + 1
         /\ total_error_count' = total_error_count + IF drop_is_ok THEN 0 ELSE 1
         /\ message_history' = message_history /\ drop_history' = drop_history
         /\ error_history' = error_history
<1>1. total_error_count \in Nat
  BY Numbers
<1> QED BY <1>1 DEF CountDrop, history

LEMMA TransfersKept ==
  ASSUME RecordsFit, RingInv, [Next]_vars, TransfersExact
  PROVE  TransfersExact'
<1> USE DEF TransfersExact
<1>1. OtherTypes /\ Core /\ GetEndVptr \in Nat /\ total_count \in Nat
  BY EndsAligned DEF RingInv, Core
<1>2. ASSUME NEW s \in RecordSizes, Stored(s) PROVE TransfersExact'
  <2>1. GetEndVptr' = GetEndVptr + s /\ s \in Nat
    BY <1>1, <1>2, CoreStore, SizesAssumption DEF Stored
  <2>2. /\ tmp_count' = tmp_count + 1 /\ total_count' = total_count + 1
        /\ tmp_volume' = tmp_volume + s
        /\ total_drop_count' = total_drop_count /\ tmp_drop_count' = tmp_drop_count
        /\ message_history' = message_history /\ drop_history' = drop_history
        /\ error_history' = error_history
    BY <1>2 DEF Stored, Store, drops, history
  <2>3. message_history.volume + tmp_volume + s = GetEndVptr + s
    OBVIOUS
  <2>4. (message_history.volume + tmp_volume = GetEndVptr)'
    BY <1>1, <2>1, <2>2, <2>3, Numbers
  <2> QED BY <1>1, <2>2, <2>4, Numbers
<1>3. ASSUME NEW s \in RecordSizes, Refused(s) PROVE TransfersExact'
  <2>1. GetEndVptr' = GetEndVptr /\ total_count' = total_count
    BY <1>1, <1>3, CoreSame DEF Refused, ring
  <2>2. tmp_count' = tmp_count /\ tmp_volume' = tmp_volume
    BY <1>3 DEF Refused
  <2> QED BY <1>1, <1>3, <2>1, <2>2, Numbers, GivenUp DEF Refused
<1>4. ASSUME Freed PROVE GetEndVptr' = GetEndVptr /\ total_count' = total_count
  BY <1>1, <1>4, CoreFree DEF Freed
<1>5. CASE Dropped
  <2>1. /\ CountDrop(getFirstRecord.size) /\ UNCHANGED history
        /\ tmp_count' = tmp_count /\ tmp_volume' = tmp_volume
    BY <1>5 DEF Dropped, dropFirstRecord
  <2> QED BY <1>1, <1>4, <1>5, <2>1, Numbers, GivenUp DEF Dropped
<1>6. CASE Taken
  BY <1>1, <1>4, <1>6 DEF Taken, accounts, drops, history
<1>7. CASE Handed
  <2>1. GetEndVptr' = GetEndVptr /\ total_count' = total_count
    BY <1>1, <1>7, CoreSame DEF Handed, ring
  <2> QED BY <1>1, <1>7, <2>1, HandedOver, Numbers
<1>8. ASSUME UNCHANGED <<ring, drops, tmp_count, tmp_volume, history>> PROVE TransfersExact'
  <2>1. GetEndVptr' = GetEndVptr /\ total_count' = total_count
    BY <1>1, <1>8, CoreSame DEF ring
  <2> QED BY <1>8, <2>1 DEF drops, history
<1> QED
  BY <1>2, <1>3, <1>5, <1>6, <1>7, <1>8, Steps DEF Nothing, Told, Behaves, accounts

(* No message, dropped record or byte is counted twice or forgotten        *)
(* between the totals, the histories and what is still to be handed over.  *)
THEOREM TransfersAreExact == RecordsFit /\ Spec => []TransfersExact
<1> SUFFICES ASSUME RecordsFit PROVE Spec => []TransfersExact
  OBVIOUS
<1>1. Init => TransfersExact
  BY DEF Init, TransfersExact, GetEndVptr
<1>2. RingInv /\ [Next]_vars /\ TransfersExact => TransfersExact'
  BY TransfersKept
<1> QED BY <1>1, <1>2, RingInvariant, PTL DEF Spec

LEMMA ErrorsKept ==
  ASSUME RecordsFit, RingInv, [Next]_vars, ErrorsExact
  PROVE  ErrorsExact'
<1> USE DEF ErrorsExact, PendingErrors
<1>1. OtherTypes /\ drop_is_ok \in BOOLEAN /\ drifted \in Int
  BY DEF RingInv, OtherTypes
<1>2. CASE Dropped \/ \E s \in RecordSizes : Refused(s)
  <2>1. PICK n : CountDrop(n) /\ UNCHANGED <<history, policy>>
    BY <1>2 DEF Dropped, dropFirstRecord, Refused
  <2>2. drop_is_ok' = drop_is_ok /\ drifted' = drifted
    BY <2>1 DEF policy
  <2> QED BY <1>1, <2>1, <2>2, GivenUp, Numbers
<1>3. CASE Handed
  BY <1>1, <1>3, HandedOver, Numbers
<1>4. CASE \/ Taken \/ Nothing \/ \E i \in Readers : Told(i)
           \/ \E s \in RecordSizes : Stored(s)
  BY <1>4 DEF Taken, Nothing, Told, Stored, Store, accounts, drops, policy, history
<1>5. ASSUME NEW b \in Behaviors, Behaves(b) PROVE ErrorsExact'
  <2> HIDE DEF PendingErrors
  <2>1. /\ total_error_count' = total_error_count /\ error_history' = error_history
        /\ drifted' = drifted + PendingErrors(b[2]) - PendingErrors(drop_is_ok)
    BY <1>5 DEF Behaves, drops, history
  <2>2. PendingErrors(drop_is_ok)' = PendingErrors(b[2])
    BY <1>5 DEF Behaves, drops, PendingErrors
  <2>3. \A ok : PendingErrors(ok) \in Nat
    BY <1>1, Numbers DEF PendingErrors
  <2>4. PendingErrors(b[2]) \in Nat /\ PendingErrors(drop_is_ok) \in Nat
    BY <2>3
  <2> QED BY <1>1, <2>1, <2>2, <2>4, Numbers
<1> QED BY <1>2, <1>3, <1>4, <1>5, Steps

(* The total of errors and the history of errors count the same drops,     *)
(* whatever SetOverflovBehavior makes of them, except for those that were  *)
(* pending when drop_is_ok was changed.                                    *)
THEOREM ErrorsAreExact == RecordsFit /\ Spec => []ErrorsExact
<1> SUFFICES ASSUME RecordsFit PROVE Spec => []ErrorsExact
  OBVIOUS
<1>1. Init => ErrorsExact
  <2> SUFFICES ASSUME Init PROVE ErrorsExact
    OBVIOUS
  <2>1. total_error_count = 0 /\ drifted = 0 /\ error_history.count = 0 /\ tmp_drop_count = 0
    BY DEF Init
  <2>2. PendingErrors(drop_is_ok) = 0
    BY <2>1 DEF PendingErrors
  <2> QED BY <2>1, <2>2 DEF ErrorsExact
<1>2. RingInv /\ [Next]_vars /\ ErrorsExact => ErrorsExact'
  BY ErrorsKept
<1> QED BY <1>1, <1>2, RingInvariant, PTL DEF Spec

-----------------------------------------------------------------------------
(* What becomes of the records in the queue.                               *)

Message(q, v) == [number |-> q[v].msg, size |-> q[v].size]

(* All that these proofs need to know of the records in the queue.         *)
LEMMA Records ==
  ASSUME RingInv
  PROVE  /\ GetBeginVptr \in Nat /\ GetEndVptr \in Nat /\ GetBeginVptr <= GetEndVptr
         /\ count \in Nat /\ total_count \in Nat
         /\ Starts(contents) \subseteq GetBeginVptr .. GetEndVptr - 1
         /\ \A v \in Starts(contents) :
              /\ contents[v].size \in Nat /\ contents[v].size > 0
              /\ contents[v].msg \in Nat /\ contents[v].msg < total_count
              /\ getRecord(v) = contents[v]
              /\ v + contents[v].size = GetEndVptr => contents[v].msg = total_count - 1
              /\ v + contents[v].size # GetEndVptr =>
                   /\ v + contents[v].size \in Starts(contents)
                   /\ contents[v + contents[v].size].msg = contents[v].msg + 1
         /\ \A v, w \in Starts(contents) : v < w => contents[v].msg < contents[w].msg
         /\ count # 0 => /\ GetBeginVptr \in Starts(contents)
                         /\ contents[GetBeginVptr].msg = total_count - count
         /\ count = 0 => GetBeginVptr = GetEndVptr
<1>1. Core
  BY DEF RingInv
<1>2. /\ GetBeginVptr \in Nat /\ GetEndVptr \in Nat /\ GetBeginVptr <= GetEndVptr
      /\ count \in Nat /\ total_count \in Nat
      /\ contents \in [GetBeginVptr .. GetEndVptr - 1 -> Bytes]
  BY <1>1, Positions DEF Core
<1>3. Starts(contents) \subseteq GetBeginVptr .. GetEndVptr - 1
  BY <1>2 DEF Starts
<1>4. ASSUME NEW v \in Starts(contents)
      PROVE  /\ contents[v].size \in Nat /\ contents[v].size > 0
             /\ contents[v].msg \in Nat /\ contents[v].msg < total_count
             /\ getRecord(v) = contents[v]
             /\ v + contents[v].size = GetEndVptr => contents[v].msg = total_count - 1
             /\ v + contents[v].size # GetEndVptr =>
                  /\ v + contents[v].size \in Starts(contents)
                  /\ contents[v + contents[v].size].msg = contents[v].msg + 1
  <2>1. contents[v] \in Bytes /\ getRecord(v) = contents[v]
    BY <1>2, <1>3 DEF contents, Live
  <2>2. /\ contents[v].size \in Nat /\ contents[v].size > 0
        /\ v + contents[v].size <= GetEndVptr
        /\ v + contents[v].size = GetEndVptr \/ v + contents[v].size \in Starts(contents)
    BY <1>1, <2>1, WholeRecord
  <2>3. /\ contents[v].msg < total_count
        /\ v + contents[v].size = GetEndVptr => contents[v].msg = total_count - 1
    BY <1>1 DEF Core, OldestFirst, Numbered
  <2>4. v + contents[v].size < GetEndVptr =>
          contents[v + contents[v].size].msg = contents[v].msg + 1
    BY <1>1 DEF Core, RecordsWhole, Chained, WholeAt
  <2>5. v \in Nat
    BY <1>2, <1>3
  <2>6. contents[v].msg \in Nat
    BY <2>1 DEF Bytes
  <2> QED BY SMTT(30), <1>2, <2>1, <2>2, <2>3, <2>4, <2>5, <2>6
<1>5. /\ \A v, w \in Starts(contents) : v < w => contents[v].msg < contents[w].msg
      /\ count # 0 => /\ GetBeginVptr \in Starts(contents)
                      /\ contents[GetBeginVptr].msg = total_count - count
      /\ count = 0 => GetBeginVptr = GetEndVptr
  BY <1>1 DEF Core, OldestFirst, Numbered, RecordsWhole, Chained
<1> QED BY <1>2, <1>3, <1>4, <1>5

(* A push leaves the records there are, and adds one behind them.          *)
LEMMA StoredRecords ==
  ASSUME RecordsFit, RingInv, NEW s \in RecordSizes, Stored(s)
  PROVE  /\ GetBeginVptr' = GetBeginVptr /\ GetEndVptr' = GetEndVptr + s
         /\ s \in Nat /\ s > 0
         /\ count' = count + 1 /\ total_count' = total_count + 1
         /\ Starts(contents)' = Starts(contents) \union {GetEndVptr}
         /\ \A v \in Starts(contents) : contents'[v] = contents[v]
         /\ contents'[GetEndVptr].msg = total_count /\ contents'[GetEndVptr].size = s
         /\ UNCHANGED slots
<1>1. /\ GetBeginVptr' = GetBeginVptr /\ GetEndVptr' = GetEndVptr + s
      /\ Starts(contents)' = Starts(contents) \union {GetEndVptr}
  BY CoreStore DEF Stored, RingInv
<1>2. s \in Nat /\ s > 0
  BY SizesAssumption
<1>3. StoredBehind(contents, contents', GetBeginVptr, GetEndVptr,
                   IF count # 0 THEN last_record_size ELSE 0, total_count, s)
  <2>1. /\ RingTypes /\ Placement /\ last_record_size \in Nat /\ total_count \in Nat
        /\ GetEndVptr - GetBeginVptr + s <= capacity
    BY Room DEF Stored, RingInv, Core
  <2> QED BY <1>2, <2>1, StoreRing DEF Stored
<1>4. GetEndVptr \in Nat /\ Starts(contents) \subseteq GetBeginVptr .. GetEndVptr - 1
  BY Records
<1>5. \A v \in Starts(contents) : contents'[v] = contents[v]
  BY <1>3, <1>4 DEF StoredBehind
<1>6. contents'[GetEndVptr].msg = total_count /\ contents'[GetEndVptr].size = s
  <2>1. contents'[GetEndVptr + 0] = [msg |-> total_count, off |-> 0, size |-> s,
                                     prev |-> IF count # 0 THEN last_record_size ELSE 0]
    BY <1>2, <1>3 DEF StoredBehind
  <2> QED BY <1>4, <2>1
<1> QED BY <1>1, <1>2, <1>5, <1>6 DEF Stored, Store

(* Whoever takes the first record leaves the others.                       *)
LEMMA FreedRecords ==
  ASSUME RingInv, Freed
  PROVE  /\ GetBeginVptr \in Starts(contents)
         /\ GetBeginVptr' = GetBeginVptr + contents[GetBeginVptr].size
         /\ GetEndVptr' = GetEndVptr
         /\ count' = count - 1 /\ total_count' = total_count
         /\ Starts(contents)' = Starts(contents) \ {GetBeginVptr}
         /\ \A v \in Starts(contents)' : v >= GetBeginVptr' /\ contents'[v] = contents[v]
         /\ UNCHANGED slots
<1>1. Core /\ count # 0
  BY DEF RingInv, Freed
<1>2. /\ GetBeginVptr' = GetBeginVptr + getFirstRecord.size
      /\ GetEndVptr' = GetEndVptr
      /\ Starts(contents)' = Starts(contents) \ {GetBeginVptr}
      /\ Core'
  BY <1>1, CoreFree DEF Freed
<1>3. /\ getFirstRecord = contents[GetBeginVptr]
      /\ getFirstRecord.size \in Nat /\ getFirstRecord.size > 0
      /\ GetBeginVptr + getFirstRecord.size <= GetEndVptr
  BY <1>1, FirstRecord
<1>4. FreedBefore(contents, contents', GetBeginVptr, GetEndVptr, getFirstRecord.size)
  <2>1. RingTypes /\ Placement /\ GetBeginVptr \in Nat /\ GetEndVptr \in Nat
    BY <1>1, Records DEF Core
  <2>2. getFirstRecord.size <= GetEndVptr - GetBeginVptr
    BY <1>3, <2>1
  <2> QED BY <1>3, <2>1, <2>2, FreeHeadRing DEF Freed
<1>5. Starts(contents)' \subseteq GetBeginVptr' .. GetEndVptr' - 1
  <2>1. DOMAIN contents' = GetBeginVptr' .. GetEndVptr' - 1
    BY DEF contents, Live
  <2> QED BY <2>1 DEF Starts
<1>6. GetBeginVptr' \in Nat /\ GetEndVptr' \in Nat
  BY <1>2, <1>3, Records
<1>7. \A v \in Starts(contents)' : v >= GetBeginVptr' /\ contents'[v] = contents[v]
  BY <1>2, <1>4, <1>5, <1>6 DEF FreedBefore
<1> QED BY <1>1, <1>2, <1>3, <1>7, Records DEF Freed

LEMMA SameRecords ==
  ASSUME UNCHANGED ring
  PROVE  /\ GetBeginVptr' = GetBeginVptr /\ GetEndVptr' = GetEndVptr
         /\ contents' = contents /\ Starts(contents)' = Starts(contents)
         /\ count' = count /\ total_count' = total_count
<1>1. /\ mem' = mem /\ head' = head /\ tail' = tail
      /\ head_offset' = head_offset /\ tail_offset' = tail_offset
      /\ count' = count /\ total_count' = total_count
  BY DEF ring, places
<1>2. GetBeginVptr' = GetBeginVptr /\ GetEndVptr' = GetEndVptr
  BY <1>1 DEF GetBeginVptr, GetEndVptr
<1>3. contents' = contents
  BY <1>1, <1>2 DEF contents, Live, getRecord
<1> QED BY <1>1, <1>2, <1>3 DEF Starts

-----------------------------------------------------------------------------
(* The reader slots.                                                       *)

(* A slot that has not been overrun stands before the message after the    *)
(* last one it was past, one that has been has missed none that it saw.    *)
SlotInv(i) ==
  LET pos == reader[i].pos
  IN  /\ pos = seen[i].got + reader[i].lost
      /\ pos < GetBeginVptr => seen[i].next <= total_count - count
      /\ pos \in Starts(contents) => contents[pos].msg = seen[i].next
      /\ pos = GetEndVptr => seen[i].next = total_count

SlotsInv == \A i \in Readers : SlotInv(i)

(* A slot is given the record at v: the oldest that it has not been past;  *)
(* if messages were passed over, lost tells.                               *)
Given(i, v) ==
  /\ v \in Starts(contents)
  /\ reader'[i].pos = v + contents[v].size
  /\ reader'[i].pos = seen'[i].got + reader'[i].lost
  /\ seen'[i].next = contents[v].msg + 1
  /\ contents[v].msg >= seen[i].next
  /\ contents[v].msg > seen[i].next => reader'[i].lost > reader[i].lost
  /\ \A w \in Starts(contents) : contents[w].msg >= seen[i].next => w >= v
  /\ seen' = [seen EXCEPT ![i] = seen'[i]]

LEMMA SlotTypes ==
  ASSUME RingInv, NEW i \in Readers
  PROVE  /\ reader[i].pos \in Nat /\ reader[i].lost \in Nat
         /\ seen[i].next \in Nat /\ seen[i].got \in Nat
         /\ DOMAIN reader = Readers /\ DOMAIN seen = Readers
         /\ Aligned(reader[i].pos)
BY DEF RingInv, OtherTypes, PositionsAligned

LEMMA Telling ==
  ASSUME RingInv, NEW i \in Readers, Told(i), SlotInv(i)
  PROVE  /\ \A j \in Readers \ {i} : reader'[j] = reader[j] /\ seen'[j] = seen[j]
         /\ \/ reader'[i].pos = reader[i].pos /\ reader'[i].lost = reader[i].lost /\ seen' = seen
            \/ \E v : Given(i, v)
<1>1. PICK p \in Followers, m \in MaxSizes : GetByIndex(p, i, m)
  BY DEF Told
<1> DEFINE old == reader[i].pos
           pos == CatchUp(reader[i].pos)
           rec == getRecord(pos)
           fits == DataSize(rec) <= m
           lost == LostUpTo(i)
<1>2. /\ Core /\ Aligned(old) /\ old \in Nat /\ reader[i].lost \in Nat
      /\ seen[i].got \in Nat /\ seen[i].next \in Nat
      /\ DOMAIN reader = Readers /\ DOMAIN seen = Readers
  BY SlotTypes DEF RingInv
<1>3. /\ pos = IF old < GetBeginVptr THEN GetBeginVptr ELSE old
      /\ pos \in Nat /\ pos >= old
      /\ count # 0 /\ ~(pos > GetLastVptr) => pos \in Starts(contents)
  <2>1. pos = IF old < GetBeginVptr THEN GetBeginVptr ELSE old
    BY DEF CatchUp
  <2> QED BY <1>2, <2>1, CatchUpAligned, Records
<1>4. lost = reader[i].lost + (pos - old)
  BY DEF LostUpTo
<1> HIDE DEF pos, lost
<1>5. CASE count = 0
  <2>1. reader' = reader /\ seen' = seen
    BY <1>1, <1>5 DEF GetByIndex
  <2> QED BY <2>1
<1>6. CASE count # 0 /\ pos > GetLastVptr
  <2>1. reader' = [reader EXCEPT ![i] = [pos |-> pos, lost |-> lost]] /\ seen' = seen
    BY <1>1, <1>6 DEF GetByIndex, pos, lost
  <2>2. pos = old
    <3>1. GetLastVptr \in Starts(contents) /\ GetLastVptr \in Int
      BY <1>2, <1>6, EndsAligned
    <3>2. GetLastVptr >= GetBeginVptr
      BY <3>1, Records
    <3> QED BY <1>2, <1>3, <1>6, <3>1, <3>2, Records
  <2>3. reader'[i].pos = old /\ reader'[i].lost = reader[i].lost
    BY <1>2, <1>4, <2>1, <2>2
  <2> QED BY <1>2, <2>1, <2>3
<1>7. CASE count # 0 /\ ~(pos > GetLastVptr)
  <2>1. /\ pos \in Starts(contents) /\ rec = contents[pos]
        /\ contents[pos].size \in Nat /\ contents[pos].size > 0 /\ contents[pos].msg \in Nat
    BY <1>3, <1>7, Records
  <2>2. GetNextVptr(pos) = pos + contents[pos].size
    <3>1. ~(pos < GetBeginVptr) /\ ~(pos >= GetEndVptr)
      BY <2>1, <1>3, Records
    <3> QED BY <2>1, <3>1 DEF GetNextVptr
  <2>3. /\ reader' = [reader EXCEPT ![i] =
                       [pos |-> GetNextVptr(pos), lost |-> IF fits THEN lost ELSE lost + DataSize(rec)]]
        /\ seen' = [seen EXCEPT ![i] =
                     [next |-> rec.msg + 1,
                      got  |-> @.got + IF fits THEN rec.size ELSE HeaderSize]]
    BY <1>1, <1>7 DEF GetByIndex, pos, lost
  <2>4. /\ reader'[i].pos = pos + contents[pos].size
        /\ reader'[i].lost = IF fits THEN lost ELSE lost + (contents[pos].size - HeaderSize)
        /\ seen'[i].next = contents[pos].msg + 1
        /\ seen'[i].got = seen[i].got + IF fits THEN contents[pos].size ELSE HeaderSize
    BY <1>2, <2>1, <2>2, <2>3 DEF DataSize
  <2>5. /\ seen' = [seen EXCEPT ![i] = seen'[i]]
        /\ \A j \in Readers \ {i} : reader'[j] = reader[j] /\ seen'[j] = seen[j]
    BY <1>2, <2>3
  <2> HIDE DEF fits
  <2>6. HeaderSize \in Nat /\ contents[pos].size >= HeaderSize
    BY <1>2, <2>1, WholeRecord, SizesAssumption
  <2>7. old = seen[i].got + reader[i].lost
    BY DEF SlotInv
  <2>8. reader'[i].pos = seen'[i].got + reader'[i].lost
    <3>1. PICK n \in Nat : n = contents[pos].size
      BY <2>1
    <3>2. /\ pos + n = (seen[i].got + n) + lost
          /\ pos + n = (seen[i].got + HeaderSize) + (lost + (n - HeaderSize))
      BY <1>2, <1>3, <1>4, <2>6, <2>7
    <3>3. CASE fits
      BY <2>4, <3>1, <3>2, <3>3
    <3>4. CASE ~ fits
      BY <2>4, <3>1, <3>2, <3>4
    <3> QED BY <3>3, <3>4
  <2>9. CASE old < GetBeginVptr
    <3>1. pos = GetBeginVptr /\ contents[pos].msg = total_count - count
      BY <1>3, <1>7, <2>9, Records
    <3>2. seen[i].next <= total_count - count
      BY <2>9 DEF SlotInv
    <3>3. reader'[i].lost > reader[i].lost
      BY <1>2, <1>3, <1>4, <2>1, <2>4, <2>6, <2>9, <3>1
    <3>4. \A w \in Starts(contents) : w >= pos
      BY <3>1, Records
    <3> QED BY <1>2, <2>1, <2>4, <2>5, <2>8, <3>1, <3>2, <3>3, <3>4, Records DEF Given
  <2>10. CASE ~(old < GetBeginVptr)
    <3>1. pos = old /\ contents[pos].msg = seen[i].next
      BY <1>3, <2>1, <2>10 DEF SlotInv
    <3>2. ASSUME NEW w \in Starts(contents), contents[w].msg >= seen[i].next PROVE w >= pos
      BY <2>1, <3>1, <3>2, <1>3, Records
    <3> QED BY <1>2, <2>1, <2>4, <2>5, <2>8, <3>1, <3>2 DEF Given
  <2> QED BY <2>5, <2>9, <2>10
<1> QED BY <1>5, <1>6, <1>7

LEMMA SlotsKept ==
  ASSUME RecordsFit, RingInv, [Next]_vars, SlotsInv
  PROVE  SlotsInv'
<1> SUFFICES ASSUME NEW i \in Readers PROVE SlotInv(i)'
  BY DEF SlotsInv
<1>1. /\ SlotInv(i) /\ \A j \in Readers : SlotInv(j)
      /\ reader[i].pos \in Nat /\ Aligned(reader[i].pos) /\ seen[i].next \in Nat
  BY SlotTypes DEF SlotsInv
<1>2. \/ reader[i].pos < GetBeginVptr
      \/ reader[i].pos = GetEndVptr
      \/ reader[i].pos \in Starts(contents)
  BY <1>1 DEF Aligned
<1>3. ASSUME NEW s \in RecordSizes, Stored(s) PROVE SlotInv(i)'
  <2>1. reader'[i] = reader[i] /\ seen'[i] = seen[i]
    BY <1>3, StoredRecords DEF slots
  <2>2. GetEndVptr' # reader[i].pos
    BY <1>1, <1>2, <1>3, StoredRecords, Records
  <2> QED BY <1>1, <1>2, <1>3, <2>1, <2>2, StoredRecords, Records DEF SlotInv
<1>4. ASSUME Freed PROVE SlotInv(i)'
  <2>1. reader'[i] = reader[i] /\ seen'[i] = seen[i]
    BY <1>4, FreedRecords DEF slots
  <2>2. reader[i].pos < GetBeginVptr' => seen[i].next <= total_count' - count'
    <3>1. count # 0
      BY <1>4 DEF Freed
    <3>2. CASE reader[i].pos < GetBeginVptr
      BY <1>1, <1>4, <3>2, FreedRecords, Records DEF SlotInv
    <3>3. CASE reader[i].pos = GetBeginVptr
      BY <1>1, <1>4, <3>1, <3>3, FreedRecords, Records DEF SlotInv
    <3>4. CASE reader[i].pos > GetBeginVptr /\ reader[i].pos \in Starts(contents)
      <4>1. reader[i].pos \in Starts(contents)'
        BY <1>4, <3>4, FreedRecords, Records
      <4>2. reader[i].pos >= GetBeginVptr' /\ GetBeginVptr' \in Nat
        BY <1>4, <4>1, FreedRecords, Records
      <4> QED BY <1>1, <4>2
    <3>5. CASE reader[i].pos > GetBeginVptr /\ reader[i].pos = GetEndVptr
      <4>1. /\ GetBeginVptr' = GetBeginVptr + contents[GetBeginVptr].size
            /\ GetBeginVptr \in Starts(contents)
        BY <1>4, FreedRecords
      <4>2. GetBeginVptr' <= GetEndVptr
        BY <4>1, Records
      <4>3. GetBeginVptr' \in Nat
        BY <4>1, Records
      <4> QED BY <1>1, <3>5, <4>2, <4>3
    <3> QED BY <1>1, <1>2, <3>2, <3>3, <3>4, <3>5, Records
  <2> QED BY <1>1, <1>4, <2>1, <2>2, FreedRecords DEF SlotInv
<1>5. CASE UNCHANGED <<ring, slots>>
  <2>1. reader'[i] = reader[i] /\ seen'[i] = seen[i]
    BY <1>5 DEF slots
  <2> QED BY <1>1, <1>5, <2>1, SameRecords DEF SlotInv
<1>6. ASSUME NEW j \in Readers, Told(j) PROVE SlotInv(i)'
  <2>1. /\ GetBeginVptr' = GetBeginVptr /\ GetEndVptr' = GetEndVptr
        /\ contents' = contents /\ Starts(contents)' = Starts(contents)
        /\ count' = count /\ total_count' = total_count
    BY <1>6, SameRecords DEF Told
  <2>2. CASE j # i
    <3>1. reader'[i] = reader[i] /\ seen'[i] = seen[i]
      BY <1>1, <1>6, <2>2, Telling
    <3> QED BY <1>1, <2>1, <3>1 DEF SlotInv
  <2>3. CASE j = i /\ reader'[i].pos = reader[i].pos /\ reader'[i].lost = reader[i].lost /\ seen' = seen
    BY <1>1, <2>1, <2>3 DEF SlotInv
  <2>4. CASE j = i /\ \E v : Given(i, v)
    <3>1. PICK v : Given(i, v)
      BY <2>4
    <3>2. /\ v \in Starts(contents)
          /\ reader'[i].pos = v + contents[v].size
          /\ reader'[i].pos = seen'[i].got + reader'[i].lost
          /\ seen'[i].next = contents[v].msg + 1
      BY <3>1 DEF Given
    <3>3. CASE v + contents[v].size = GetEndVptr
      <4>1. ~(GetEndVptr < GetBeginVptr) /\ GetEndVptr \notin Starts(contents)
        BY Records
      <4>2. contents[v].msg + 1 = total_count
        BY <3>2, <3>3, Records
      <4> QED BY <2>1, <3>2, <3>3, <4>1, <4>2 DEF SlotInv
    <3>4. CASE v + contents[v].size # GetEndVptr
      <4>1. /\ v + contents[v].size \in Starts(contents)
            /\ contents[v + contents[v].size].msg = contents[v].msg + 1
        BY <3>2, <3>4, Records
      <4>2. ~(v + contents[v].size < GetBeginVptr)
        BY <4>1, Records
      <4> QED BY <2>1, <3>2, <3>4, <4>1, <4>2 DEF SlotInv
    <3> QED BY <3>3, <3>4
  <2> QED BY <1>1, <1>6, <2>2, <2>3, <2>4, Telling
<1>7. CASE Dropped \/ Taken
  BY <1>4, <1>7 DEF Dropped, Taken
<1>8. CASE \/ Handed \/ Nothing \/ (\E s \in RecordSizes : Refused(s))
           \/ (\E b \in Behaviors : Behaves(b))
  BY <1>5, <1>8 DEF Handed, Nothing, Refused, Behaves
<1> QED BY <1>3, <1>6, <1>7, <1>8, Steps

LEMMA SlotsInit ==
  ASSUME Init
  PROVE  SlotsInv
<1>1. GetBeginVptr = 0 /\ GetEndVptr = 0
  BY DEF Init, GetBeginVptr, GetEndVptr
<1>2. Starts(contents) = {}
  BY <1>1 DEF Starts, contents, Live
<1> QED BY <1>1, <1>2 DEF Init, SlotsInv, SlotInv

LEMMA SlotsInvariant == RecordsFit /\ Spec => [](RingInv /\ SlotsInv)
<1> SUFFICES ASSUME RecordsFit PROVE Spec => [](RingInv /\ SlotsInv)
  OBVIOUS
<1>1. Init => SlotsInv
  BY SlotsInit
<1>2. RingInv /\ [Next]_vars /\ SlotsInv => SlotsInv'
  BY SlotsKept
<1> QED BY <1>1, <1>2, RingInvariant, PTL DEF Spec

(* The position of a slot is what it was given plus what it lost.          *)
THEOREM LossesAreAccounted == RecordsFit /\ Spec => []LossesAccounted
<1>1. SlotsInv => LossesAccounted
  BY DEF SlotsInv, SlotInv, LossesAccounted
<1> QED BY <1>1, SlotsInvariant, PTL

(* A slot is given every message once and in order, and passes over some   *)
(* only if lost says so.                                                   *)
THEOREM GapsAreTold == RecordsFit /\ Spec => NoSilentGap
<1> SUFFICES ASSUME RecordsFit PROVE Spec => NoSilentGap
  OBVIOUS
<1> DEFINE NoGap(i) == seen'[i].next # seen[i].next =>
                         /\ seen'[i].next > seen[i].next
                         /\ seen'[i].next > seen[i].next + 1 => reader'[i].lost > reader[i].lost
<1>1. ASSUME RingInv, SlotsInv, [Next]_vars, NEW i \in Readers PROVE NoGap(i)
  <2>1. CASE \E j \in Readers : Told(j)
    <3>1. PICK j \in Readers : Told(j)
      BY <2>1
    <3>2. SlotInv(j) /\ seen[i].next \in Nat
      BY <1>1, SlotTypes DEF SlotsInv
    <3>3. CASE seen'[i] = seen[i]
      BY <3>3
    <3>4. CASE j = i /\ \E v : Given(i, v)
      <4>1. PICK v : Given(i, v)
        BY <3>4
      <4>2. contents[v].msg \in Nat
        BY <1>1, <4>1, Records DEF Given
      <4> QED BY <3>2, <4>1, <4>2 DEF Given
    <3> QED BY <1>1, <3>1, <3>2, <3>3, <3>4, Telling
  <2>2. CASE seen' = seen
    BY <2>2
  <2> QED
    BY <1>1, <2>1, <2>2, Steps DEF Stored, Refused, Dropped, Freed, Taken, Handed, Nothing, Behaves, slots
<1>2. RingInv /\ SlotsInv /\ [Next]_vars => [\A i \in Readers : NoGap(i)]_vars
  BY <1>1
<1> QED BY <1>2, SlotsInvariant, PTL DEF Spec, NoSilentGap

-----------------------------------------------------------------------------
(* The ring implements the queue of messages.                              *)

(* Adding a record to the chain adds its message ...                       *)
LEMMA MessagesStored ==
  ASSUME RecordsFit, RingInv, NEW s \in RecordSizes, Stored(s)
  PROVE  Queue!Store(s)
<1>1. /\ Starts(contents)' = Starts(contents) \union {GetEndVptr}
      /\ \A v \in Starts(contents) : contents'[v] = contents[v]
      /\ contents'[GetEndVptr].msg = total_count /\ contents'[GetEndVptr].size = s
      /\ total_count' = total_count + 1
      /\ seen' = seen
  BY StoredRecords DEF slots
<1>2. MessagesOf(contents)' = MessagesOf(contents) \union {[number |-> total_count, size |-> s]}
  <2> DEFINE new == [number |-> total_count, size |-> s]
  <2>1. ASSUME NEW r \in MessagesOf(contents)'
        PROVE  r \in MessagesOf(contents) \union {new}
    <3>1. PICK v \in Starts(contents)' : r = [number |-> contents'[v].msg, size |-> contents'[v].size]
      BY <2>1 DEF MessagesOf
    <3> QED BY <3>1, <1>1 DEF MessagesOf
  <2>2. ASSUME NEW r \in MessagesOf(contents) PROVE r \in MessagesOf(contents)'
    <3>1. PICK v \in Starts(contents) : r = [number |-> contents[v].msg, size |-> contents[v].size]
      BY <2>2 DEF MessagesOf
    <3> QED BY <3>1, <1>1 DEF MessagesOf
  <2>3. new \in MessagesOf(contents)'
    BY <1>1 DEF MessagesOf
  <2> QED BY <2>1, <2>2, <2>3
<1> QED BY <1>1, <1>2 DEF Queue!Store

(* ... and taking the first one off takes the oldest.                      *)
LEMMA MessagesFreed ==
  ASSUME RingInv, Freed
  PROVE  \E r \in MessagesOf(contents) : Queue!Leave(r)
<1> DEFINE b == GetBeginVptr
           r == [number |-> contents[b].msg, size |-> contents[b].size]
<1>1. /\ b \in Starts(contents)
      /\ Starts(contents)' = Starts(contents) \ {b}
      /\ \A v \in Starts(contents)' : contents'[v] = contents[v]
      /\ total_count' = total_count /\ seen' = seen
  BY FreedRecords DEF slots
<1>2. \A v \in Starts(contents) : v # b => contents[b].msg < contents[v].msg
  BY <1>1, Records
<1>3. \A v \in Starts(contents) : contents[v].msg \in Nat
  BY Records
<1> HIDE DEF b
<1>4. MessagesOf(contents)' = MessagesOf(contents) \ {r}
  <2>1. ASSUME NEW x \in MessagesOf(contents)' PROVE x \in MessagesOf(contents) \ {r}
    <3>1. PICK v \in Starts(contents)' : x = [number |-> contents'[v].msg, size |-> contents'[v].size]
      BY <2>1 DEF MessagesOf
    <3>2. v \in Starts(contents) /\ v # b /\ contents'[v] = contents[v]
      BY <1>1, <3>1
    <3>3. x.number # r.number
      BY <1>1, <1>2, <1>3, <3>1, <3>2
    <3> QED BY <3>1, <3>2, <3>3 DEF MessagesOf
  <2>2. ASSUME NEW x \in MessagesOf(contents) \ {r} PROVE x \in MessagesOf(contents)'
    <3>1. PICK v \in Starts(contents) : x = [number |-> contents[v].msg, size |-> contents[v].size]
      BY <2>2 DEF MessagesOf
    <3>2. v # b
      BY <2>2, <3>1
    <3> QED BY <1>1, <3>1, <3>2 DEF MessagesOf
  <2> QED BY <2>1, <2>2
<1>5. r \in MessagesOf(contents)
  BY <1>1 DEF MessagesOf
<1>6. \A other \in MessagesOf(contents) : r.number <= other.number
  <2> TAKE other \in MessagesOf(contents)
  <2>1. PICK v \in Starts(contents) : other = [number |-> contents[v].msg, size |-> contents[v].size]
    BY DEF MessagesOf
  <2> QED BY <1>1, <1>2, <1>3, <2>1
<1>7. [i \in Readers |-> seen[i].next]' = [i \in Readers |-> seen[i].next]
  BY <1>1
<1> QED BY <1>1, <1>4, <1>5, <1>6, <1>7 DEF Queue!Leave

(* A slot that is given a record reads a message.                          *)
LEMMA MessageGiven ==
  ASSUME RingInv, UNCHANGED ring, NEW i \in Readers, NEW v, Given(i, v)
  PROVE  \E r \in MessagesOf(contents) : Queue!Read(i, r)
<1> DEFINE r == [number |-> contents[v].msg, size |-> contents[v].size]
<1>1. /\ v \in Starts(contents) /\ seen'[i].next = contents[v].msg + 1
      /\ contents[v].msg >= seen[i].next
      /\ \A w \in Starts(contents) : contents[w].msg >= seen[i].next => w >= v
      /\ seen' = [seen EXCEPT ![i] = seen'[i]]
  BY DEF Given
<1>2. r \in MessagesOf(contents)
  BY <1>1 DEF MessagesOf
<1>3. contents' = contents /\ MessagesOf(contents)' = MessagesOf(contents) /\ total_count' = total_count
  BY SameRecords DEF MessagesOf
<1>4. \A other \in MessagesOf(contents) : other.number >= seen[i].next => r.number <= other.number
  <2> TAKE other \in MessagesOf(contents)
  <2> HAVE other.number >= seen[i].next
  <2>1. PICK w \in Starts(contents) : other = [number |-> contents[w].msg, size |-> contents[w].size]
    BY DEF MessagesOf
  <2>2. w >= v
    BY <1>1, <2>1
  <2>3. contents[v].msg \in Nat /\ contents[w].msg \in Nat /\ v \in Nat /\ w \in Nat
    BY <1>1, Records
  <2>4. w > v => contents[v].msg < contents[w].msg
    BY <1>1, Records
  <2> QED BY <2>1, <2>2, <2>3, <2>4
<1>5. DOMAIN seen = Readers
  BY SlotTypes
<1>6. [j \in Readers |-> seen[j].next]'
        = [[j \in Readers |-> seen[j].next] EXCEPT ![i] = r.number + 1]
  <2>1. \A j \in Readers : seen'[j].next = IF j = i THEN r.number + 1 ELSE seen[j].next
    BY <1>1, <1>5
  <2> QED BY <2>1
<1> QED BY <1>1, <1>2, <1>3, <1>4, <1>6 DEF Queue!Read

LEMMA StepsOfTheQueue ==
  ASSUME RecordsFit, RingInv, SlotsInv, [Next]_vars
  PROVE  [Queue!Next]_<<MessagesOf(contents), total_count, [i \in Readers |-> seen[i].next]>>
<1>1. ASSUME NEW s \in RecordSizes, Stored(s) PROVE Queue!Next
  BY <1>1, MessagesStored DEF Queue!Next
<1>2. CASE Dropped \/ Taken
  BY <1>2, MessagesFreed DEF Dropped, Taken, Queue!Next
<1>3. ASSUME UNCHANGED ring, seen' = seen
      PROVE  UNCHANGED <<MessagesOf(contents), total_count, [i \in Readers |-> seen[i].next]>>
  <2>1. MessagesOf(contents)' = MessagesOf(contents) /\ total_count' = total_count
    BY <1>3, SameRecords DEF MessagesOf
  <2> QED BY <1>3, <2>1
<1>4. ASSUME NEW i \in Readers, Told(i)
      PROVE  Queue!Next \/ (UNCHANGED ring /\ seen' = seen)
  <2>1. UNCHANGED ring /\ SlotInv(i)
    BY <1>4 DEF Told, SlotsInv
  <2>2. CASE seen' = seen
    BY <2>1, <2>2
  <2>3. CASE \E v : Given(i, v)
    <3>1. PICK v : Given(i, v)
      BY <2>3
    <3>2. \E r \in MessagesOf(contents) : Queue!Read(i, r)
      BY <2>1, <3>1, MessageGiven
    <3> QED BY <3>2 DEF Queue!Next
  <2> QED BY <1>4, <2>1, <2>2, <2>3, Telling
<1>5. CASE \/ Handed \/ Nothing \/ (\E s \in RecordSizes : Refused(s))
           \/ (\E b \in Behaviors : Behaves(b))
  BY <1>3, <1>5 DEF Handed, Nothing, Refused, Behaves, slots
<1> QED BY <1>1, <1>2, <1>3, <1>4, <1>5, Steps

(* What is pushed, popped, dropped and read of the ring, by whatever       *)
(* processes, is a queue of messages, each read in order and none cut.     *)
THEOREM RingIsAMessageQueue == RecordsFit /\ Spec => ImplementsQueue
<1> SUFFICES ASSUME RecordsFit PROVE Spec => ImplementsQueue
  OBVIOUS
<1>1. Init => Queue!Init
  <2> SUFFICES ASSUME Init PROVE Queue!Init
    OBVIOUS
  <2>1. GetBeginVptr = 0 /\ GetEndVptr = 0
    BY DEF Init, GetBeginVptr, GetEndVptr
  <2>2. MessagesOf(contents) = {}
    BY <2>1 DEF MessagesOf, Starts, contents, Live
  <2> QED BY <2>2 DEF Init, Queue!Init
<1>2. RingInv /\ SlotsInv /\ [Next]_vars
        => [Queue!Next]_<<MessagesOf(contents), total_count, [i \in Readers |-> seen[i].next]>>
  BY StepsOfTheQueue
<1> QED BY <1>1, <1>2, SlotsInvariant, PTL DEF Spec, ImplementsQueue, Queue!Spec

(* An empty queue looks empty to who compares head and tail between two    *)
(* operations, unless its tail was left standing at the seam.              *)
THEOREM EmptyUnlessAtSeam ==
  RecordsFit /\ Spec => [](count = 0 => is_empty \/ (head = 0 /\ tail = BufferSize))
<1>1. ASSUME RingInv PROVE count = 0 => is_empty \/ (head = 0 /\ tail = BufferSize)
  <2>1. /\ head \in Nat /\ tail \in Nat /\ head < BufferSize /\ tail <= BufferSize
        /\ head_offset \in Nat /\ tail_offset \in Nat /\ BufferSize \in Nat
    BY <1>1, SizesAssumption DEF RingInv, Core, RingTypes, Addresses
  <2>2. count = 0 => head + head_offset = tail + tail_offset
    BY <1>1, Records DEF GetBeginVptr, GetEndVptr
  <2>3. Placement
    BY <1>1 DEF RingInv, Core
  <2> QED BY <2>1, <2>2, <2>3 DEF Placement, is_empty
<1>2. RingInv => (count = 0 => is_empty \/ (head = 0 /\ tail = BufferSize))
  BY <1>1
<1> QED BY <1>2, RingInvariant, PTL

=============================================================================
