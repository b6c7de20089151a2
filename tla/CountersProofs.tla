--------------------------- MODULE CountersProofs ---------------------------
(***************************************************************************)
(* A dictionary whose users all take the lock (the counters and the        *)
(* history counters; not the log's) gives every name one id for good, for  *)
(* any number of processes, names and ids.                                 *)
(*                                                                         *)
(* Add makes five stores under the lock, and the dictionary is in order    *)
(* before them and after them only.  What is in order between them is the  *)
(* dictionary without the entry that is being made: settled, entry.        *)
(***************************************************************************)
EXTENDS Counters, TLAPS

(* The dictionary is not the log's: all who add to it take the lock.       *)
OnlyLocked == "Add" \notin calls

Storing == {"memmove", "id", "offset", "count", "memcpy"}

(* The entries there are but for the new one, as a sequence.               *)
Gap == IF lock # Nobody /\ pc[lock] \in {"id", "offset", "count", "memcpy"} THEN pos[lock] ELSE SIZE

settled == IF lock # Nobody /\ pc[lock] = "memcpy" THEN count - 1 ELSE count

Entries(ix, c, gap) == [j \in 0 .. c - 1 |-> IF j < gap THEN ix[j] ELSE ix[j + 1]]

(* c entries e in order: sorted by name, each id once, offsets that agree; *)
(* the names lie one behind the other, and nothing lies behind them.       *)
Sorted(e, c, si, ns) ==
  \A j, k \in 0 .. c - 1 : j < k => ns[si[e[j].id]] < ns[si[e[k].id]]

EachIdOnce(e, c) ==
  /\ \A j \in 0 .. c - 1 : e[j].id \in 0 .. c - 1
  /\ \A i \in 0 .. c - 1 : \E j \in 0 .. c - 1 : e[j].id = i

Offset(e, c, si) == \A j \in 0 .. c - 1 : e[j].name_offset = si[e[j].id]

Laid(c, si, ns, nu) ==
  /\ \A i \in 0 .. c - 1 :
       /\ ns[si[i]] \in Names
       /\ si[i] < nu
       /\ si[i] + Len[ns[si[i]]] + 1 = IF i + 1 < c THEN si[i + 1] ELSE nu
  /\ \A o \in Offsets : o >= nu => ns[o] = Empty

InOrder(e, c, si, ns, nu) ==
  Sorted(e, c, si, ns) /\ EachIdOnce(e, c) /\ Offset(e, c, si) /\ Laid(c, si, ns, nu)

Told(c, si, ns, d) == \A n \in Names : \A i \in d[n] : i \in 0 .. c - 1 /\ ns[si[i]] = n

Shaped(si, ns) == si \in [Ids -> Offsets] /\ ns \in [Offsets -> Names \cup {Empty}]

(* The place that the new name has between them.                           *)
Between(e, c, si, ns, k, n) ==
  /\ k \in 0 .. c
  /\ \A j \in 0 .. c - 1 : IF j < k THEN ns[si[e[j].id]] < n ELSE n < ns[si[e[j].id]]

Settled == InOrder(Entries(index, settled, Gap), settled, str_index, names_storage, names_used)

Pending ==
  lock # Nobody =>
    /\ settled < SIZE
    /\ names_used + Len[name[lock]] + 1 <= NAMES_STORAGE_SIZE
    /\ Between(Entries(index, settled, Gap), settled, str_index, names_storage, pos[lock], name[lock])
    /\ pc[lock] = "memmove" => pos[lock] < count
    /\ pc[lock] \in {"offset", "count", "memcpy"} => index[pos[lock]].id = settled
    /\ pc[lock] \in {"count", "memcpy"} => /\ index[pos[lock]].name_offset = names_used
                                          /\ str_index[settled] = names_used

Locked ==
  /\ OnlyLocked
  /\ \A p \in Procs : pc[p] \in Storing <=> lock = p

DictInv ==
  /\ TypeOK
  /\ Locked
  /\ Settled
  /\ Pending
  /\ Told(settled, str_index, names_storage, ids)

-----------------------------------------------------------------------------

LEMMA Sizes ==
  /\ SIZE \in Nat /\ SIZE > 0 /\ NAMES_STORAGE_SIZE \in Nat /\ NAMES_STORAGE_SIZE > 0
  /\ Names \subseteq Nat /\ Empty \notin Names /\ Empty = 0
  /\ \A n \in Names : Len[n] \in Nat /\ Len[n] > 0 /\ n > 0
  /\ Nobody \notin Procs
BY CountersAssumption DEF Empty

(* An entry for n is made at k, but for its name, and is not counted yet.  *)
Ready(ix, c, si, ns, nu, n, k) ==
  /\ c \in Nat /\ c < SIZE /\ nu \in Nat /\ n \in Names /\ k \in Nat /\ k <= c
  /\ nu + Len[n] + 1 <= NAMES_STORAGE_SIZE
  /\ Shaped(si, ns)
  /\ InOrder(Entries(ix, c, k), c, si, ns, nu)
  /\ Between(Entries(ix, c, k), c, si, ns, k, n)
  /\ ix[k].id = c /\ ix[k].name_offset = nu /\ si[c] = nu

Inserted(ix, c, si, ns, nu, n, ns2) ==
  /\ InOrder(Entries(ix, c + 1, SIZE), c + 1, si, ns2, nu + Len[n] + 1)
  /\ \A i \in 0 .. c - 1 : ns2[si[i]] = ns[si[i]]
  /\ ns2[si[c]] = n

(* Inserting an entry for a new name at its place keeps everything in      *)
(* order: the one step that changes what is settled.                       *)
LEMMA Insertion ==
  ASSUME NEW ix, NEW c, NEW si, NEW ns, NEW nu, NEW n, NEW k, Ready(ix, c, si, ns, nu, n, k)
  PROVE  Inserted(ix, c, si, ns, nu, n, [ns EXCEPT ![nu] = n])
<1> DEFINE e == Entries(ix, c, k)
           e2 == Entries(ix, c + 1, SIZE)
           ns2 == [ns EXCEPT ![nu] = n]
<1>e. e = Entries(ix, c, k) /\ e2 = Entries(ix, c + 1, SIZE) /\ ns2 = [ns EXCEPT ![nu] = n]
  OBVIOUS
<1>in. InOrder(e, c, si, ns, nu) /\ Between(e, c, si, ns, k, n) /\ Shaped(si, ns)
  BY DEF Ready
<1>r. /\ c \in Nat /\ c < SIZE /\ nu \in Nat /\ n \in Names /\ k \in Nat /\ k <= c
      /\ nu + Len[n] + 1 <= NAMES_STORAGE_SIZE
      /\ ix[k].id = c /\ ix[k].name_offset = nu /\ si[c] = nu
  BY DEF Ready
<1> HIDE DEF e, e2, ns2
<1> USE <1>r
<1>s. /\ si \in [Ids -> Offsets] /\ ns \in [Offsets -> Names \cup {Empty}]
      /\ ns2 = [ns EXCEPT ![nu] = n]
  BY <1>in, <1>e DEF Shaped
<1>0. /\ SIZE \in Nat /\ NAMES_STORAGE_SIZE \in Nat /\ n \in Nat /\ Len[n] \in Nat
      /\ nu \in Offsets /\ c \in Ids /\ c + 1 \in Nat /\ k \in 0 .. c
      /\ \A m \in Names : m \in Nat
  <2>1. /\ SIZE \in Nat /\ NAMES_STORAGE_SIZE \in Nat /\ n \in Nat /\ Len[n] \in Nat
        /\ \A m \in Names : m \in Nat
    BY Sizes
  <2>2. nu < NAMES_STORAGE_SIZE
    BY <2>1
  <2>3. nu \in Offsets /\ c \in Ids /\ c + 1 \in Nat /\ k \in 0 .. c
    BY <2>1, <2>2 DEF Ids, Offsets
  <2> QED BY <2>1, <2>3
<1>1. /\ \A j \in 0 .. c - 1 : e[j] = IF j < k THEN ix[j] ELSE ix[j + 1]
      /\ \A j \in 0 .. c : e2[j] = ix[j]
  <2>1. \A j \in 0 .. c - 1 : e[j] = IF j < k THEN ix[j] ELSE ix[j + 1]
    BY <1>e DEF Entries
  <2>2. \A j \in 0 .. (c + 1) - 1 : e2[j] = IF j < SIZE THEN ix[j] ELSE ix[j + 1]
    BY <1>e DEF Entries
  <2>3. \A j \in 0 .. c : j \in 0 .. (c + 1) - 1 /\ j < SIZE
    BY <1>0
  <2> QED BY <2>1, <2>2, <2>3
<1>2. ASSUME NEW j \in 0 .. c
      PROVE  /\ j < k => j \in 0 .. c - 1 /\ e2[j] = e[j]
             /\ j > k => j - 1 \in 0 .. c - 1 /\ e2[j] = e[j - 1] /\ ~(j - 1 < k)
             /\ j = k => e2[j].id = c /\ e2[j].name_offset = nu
  <2>1. CASE j < k
    BY <2>1, <1>0, <1>1
  <2>2. CASE j > k
    <3>1. j - 1 \in 0 .. c - 1 /\ ~(j - 1 < k) /\ j - 1 + 1 = j
      BY <2>2, <1>0
    <3>2. e[j - 1] = ix[j - 1 + 1]
      BY <3>1, <1>1
    <3> QED BY <2>2, <3>1, <3>2, <1>0, <1>1
  <2>3. CASE j = k
    BY <2>3, <1>0, <1>1
  <2> QED BY <2>1, <2>2, <2>3, <1>0
<1>3. ASSUME NEW i \in 0 .. c - 1
      PROVE  /\ i \in Ids /\ si[i] \in Offsets /\ si[i] < nu
             /\ ns2[si[i]] = ns[si[i]] /\ ns[si[i]] \in Names
  <2>1. i \in Ids /\ si[i] \in Offsets
    BY <1>s, <1>0 DEF Ids
  <2>2. si[i] < nu /\ ns[si[i]] \in Names
    BY <1>in DEF InOrder, Laid
  <2>3. si[i] # nu
    BY <2>1, <2>2 DEF Offsets
  <2> QED BY <1>s, <2>1, <2>2, <2>3
<1>4. ns2[si[c]] = n
  BY <1>s, <1>0
<1>5. \A j \in 0 .. c - 1 : e[j].id \in 0 .. c - 1
  BY <1>in DEF InOrder, EachIdOnce
<1> DEFINE u == [j \in 0 .. c - 1 |-> ns[si[e[j].id]]]
           t == [j \in 0 .. c |-> ns2[si[e2[j].id]]]
<1>6. \A j \in 0 .. c - 1 : /\ u[j] = ns[si[e[j].id]]
                            /\ u[j] = ns2[si[e[j].id]]
                            /\ u[j] \in Nat
                            /\ IF j < k THEN u[j] < n ELSE n < u[j]
  <2> TAKE j \in 0 .. c - 1
  <2>1. u[j] = ns[si[e[j].id]]
    OBVIOUS
  <2>2. e[j].id \in 0 .. c - 1
    BY <1>5
  <2>3. IF j < k THEN ns[si[e[j].id]] < n ELSE n < ns[si[e[j].id]]
    BY <1>in DEF Between
  <2> HIDE DEF u
  <2> QED BY <2>1, <2>2, <2>3, <1>0, <1>3
<1>7. ASSUME NEW j \in 0 .. c - 1, NEW l \in 0 .. c - 1, j < l PROVE u[j] < u[l]
  BY <1>in, <1>7, <1>6 DEF InOrder, Sorted
<1>8. \A j \in 0 .. c : t[j] = ns2[si[e2[j].id]]
  OBVIOUS
<1> HIDE DEF u, t
<1>9. ASSUME NEW j \in 0 .. c
      PROVE  /\ j < k => t[j] = u[j] /\ j \in 0 .. c - 1
             /\ j > k => t[j] = u[j - 1] /\ j - 1 \in 0 .. c - 1 /\ ~(j - 1 < k)
             /\ j = k => t[j] = n
  <2>1. CASE j < k
    BY <2>1, <1>2, <1>6, <1>8, <1>0
  <2>2. CASE j > k
    BY <2>2, <1>2, <1>6, <1>8, <1>0
  <2>3. CASE j = k
    BY <2>3, <1>2, <1>4, <1>8, <1>0
  <2> QED BY <2>1, <2>2, <2>3, <1>0
<1>10. Sorted(e2, c + 1, si, ns2)
  <2>1. ASSUME NEW j \in 0 .. c, NEW l \in 0 .. c, j < l PROVE t[j] < t[l]
    <3>1. CASE l < k
      <4>1. j < k
        BY <2>1, <3>1, <1>0
      <4>2. u[j] < u[l]
        BY <2>1, <3>1, <4>1, <1>7, <1>9
      <4> QED BY <3>1, <4>1, <4>2, <1>9
    <3>2. CASE j > k
      <4>1. l > k /\ j - 1 < l - 1
        BY <2>1, <3>2, <1>0
      <4>2. u[j - 1] < u[l - 1]
        BY <3>2, <4>1, <1>7, <1>9
      <4> QED BY <3>2, <4>1, <4>2, <1>9
    <3>3. CASE j <= k /\ k <= l
      <4>1. CASE j = k
        <5>1. l > k
          BY <4>1, <2>1
        <5>2. n < u[l - 1]
          BY <5>1, <1>6, <1>9
        <5> QED BY <4>1, <5>1, <5>2, <1>9
      <4>2. CASE j < k /\ l = k
        <5>1. u[j] < n
          BY <4>2, <1>6, <1>9
        <5> QED BY <4>2, <5>1, <1>9
      <4>3. CASE j < k /\ l > k
        <5>1. u[j] < n /\ n < u[l - 1] /\ u[j] \in Nat /\ u[l - 1] \in Nat
          BY <4>3, <1>6, <1>9
        <5> QED BY <4>3, <5>1, <1>9, <1>0
      <4> QED BY <3>3, <4>1, <4>2, <4>3, <1>0
    <3> QED BY <2>1, <3>1, <3>2, <3>3, <1>0
  <2>2. (c + 1) - 1 = c
    OBVIOUS
  <2> QED BY <2>1, <2>2, <1>8 DEF Sorted
<1>11. EachIdOnce(e2, c + 1)
  <2>1. ASSUME NEW j \in 0 .. c PROVE e2[j].id \in 0 .. c
    <3>1. CASE j = k
      BY <3>1, <1>2
    <3>2. CASE j < k
      <4>1. j \in 0 .. c - 1 /\ e2[j] = e[j]
        BY <3>2, <1>2
      <4> QED BY <4>1, <1>5
    <3>3. CASE j > k
      <4>1. j - 1 \in 0 .. c - 1 /\ e2[j] = e[j - 1]
        BY <3>3, <1>2
      <4> QED BY <4>1, <1>5
    <3> QED BY <3>1, <3>2, <3>3, <1>0
  <2>2. ASSUME NEW i \in 0 .. c PROVE \E j \in 0 .. c : e2[j].id = i
    <3>1. CASE i = c
      BY <3>1, <1>0, <1>2
    <3>2. CASE i # c
      <4>0. i \in 0 .. c - 1
        BY <3>2
      <4>1. PICK j \in 0 .. c - 1 : e[j].id = i
        BY <1>in, <4>0 DEF InOrder, EachIdOnce
      <4>2. CASE j < k
        <5>1. j \in 0 .. c
          OBVIOUS
        <5> QED BY <4>1, <4>2, <5>1, <1>2
      <4>3. CASE ~(j < k)
        <5>1. j + 1 \in 0 .. c /\ j + 1 > k /\ (j + 1) - 1 = j
          BY <4>3, <1>0
        <5>2. e2[j + 1] = e[(j + 1) - 1]
          BY <5>1, <1>2
        <5> QED BY <4>1, <5>1, <5>2
      <4> QED BY <4>2, <4>3
    <3> QED BY <3>1, <3>2
  <2>3. (c + 1) - 1 = c
    OBVIOUS
  <2> QED BY <2>1, <2>2, <2>3 DEF EachIdOnce
<1>12. Offset(e2, c + 1, si)
  <2>1. \A j \in 0 .. c - 1 : e[j].name_offset = si[e[j].id]
    BY <1>in DEF InOrder, Offset
  <2>2. ASSUME NEW j \in 0 .. c PROVE e2[j].name_offset = si[e2[j].id]
    <3>1. CASE j = k
      BY <3>1, <1>2
    <3>2. CASE j < k
      BY <3>2, <2>1, <1>2
    <3>3. CASE j > k
      BY <3>3, <2>1, <1>2
    <3> QED BY <3>1, <3>2, <3>3, <1>0
  <2>3. (c + 1) - 1 = c
    OBVIOUS
  <2> QED BY <2>2, <2>3 DEF Offset
<1>13. Laid(c + 1, si, ns2, nu + Len[n] + 1)
  <2>1. ASSUME NEW i \in 0 .. c
        PROVE  /\ ns2[si[i]] \in Names
               /\ si[i] < nu + Len[n] + 1
               /\ si[i] + Len[ns2[si[i]]] + 1 = IF i + 1 < c + 1 THEN si[i + 1] ELSE nu + Len[n] + 1
    <3>1. CASE i = c
      BY <3>1, <1>4, <1>0
    <3>2. CASE i # c
      <4>0. i \in 0 .. c - 1
        BY <3>2
      <4>1. si[i] + Len[ns[si[i]]] + 1 = IF i + 1 < c THEN si[i + 1] ELSE nu
        BY <1>in, <4>0 DEF InOrder, Laid
      <4>2. i + 1 < c + 1 /\ (~(i + 1 < c) => i + 1 = c)
        BY <4>0
      <4>3. si[i] + Len[ns[si[i]]] + 1 = si[i + 1]
        BY <4>1, <4>2
      <4>4. si[i] < nu + Len[n] + 1
        BY <4>0, <1>3, <1>0 DEF Offsets
      <4> QED BY <4>0, <4>2, <4>3, <4>4, <1>3
    <3> QED BY <3>1, <3>2
  <2>2. ASSUME NEW o \in Offsets, o >= nu + Len[n] + 1 PROVE ns2[o] = Empty
    <3>1. o >= nu /\ o # nu
      BY <2>2, <1>0 DEF Offsets
    <3>2. ns[o] = Empty
      BY <1>in, <3>1 DEF InOrder, Laid
    <3> QED BY <1>s, <3>1, <3>2, <1>0
  <2>3. (c + 1) - 1 = c
    OBVIOUS
  <2> QED BY <2>1, <2>2, <2>3 DEF Laid
<1> QED BY <1>e, <1>3, <1>4, <1>10, <1>11, <1>12, <1>13 DEF InOrder, Inserted, ns2

(* What is read of a dictionary in order, by someone who holds the lock:   *)
(* the entry of the name, or the place for it.                             *)
LEMMA Place ==
  ASSUME TypeOK, NEW n \in Names, NEW k \in lower_bound(n),
         NEW e, e = Entries(index, count, SIZE),
         InOrder(e, count, str_index, names_storage, names_used)
  PROVE  /\ k \in 0 .. count
         /\ Matches(k, n) => index[k].id \in 0 .. count - 1 /\ Text(index[k].id) = n
         /\ ~Matches(k, n) => Between(e, count, str_index, names_storage, k, n)
<1>0. /\ SIZE \in Nat /\ count \in Nat /\ count <= SIZE /\ k \in 0 .. count /\ n \in Nat
      /\ k > 0 => Text(index[k - 1].id) < n
      /\ k < count => Text(index[k].id) >= n
  BY Sizes DEF TypeOK, lower_bound
<1>1. \A j \in 0 .. count - 1 : e[j] = index[j]
  BY <1>0 DEF Entries
<1> DEFINE u == [j \in 0 .. count - 1 |-> names_storage[str_index[e[j].id]]]
<1>2. \A j \in 0 .. count - 1 : /\ u[j] = names_storage[str_index[e[j].id]]
                                /\ u[j] = Text(index[j].id)
  BY <1>1 DEF Text
<1>3. \A j \in 0 .. count - 1 : e[j].id \in 0 .. count - 1 /\ e[j].name_offset = str_index[e[j].id]
  BY DEF InOrder, EachIdOnce, Offset
<1> HIDE DEF u
<1>4. ASSUME NEW j \in 0 .. count - 1 PROVE u[j] \in Nat
  <2>1. names_storage[str_index[e[j].id]] \in Names
    BY <1>3 DEF InOrder, Laid
  <2> QED BY <2>1, <1>2, Sizes
<1>5. ASSUME NEW j \in 0 .. count - 1, NEW l \in 0 .. count - 1, j < l PROVE u[j] < u[l]
  BY <1>5, <1>2 DEF InOrder, Sorted
<1>6. ASSUME Matches(k, n) PROVE index[k].id \in 0 .. count - 1 /\ Text(index[k].id) = n
  <2>1. k \in 0 .. count - 1 /\ names_storage[index[k].name_offset] = n
    BY <1>0, <1>6 DEF Matches
  <2> QED BY <2>1, <1>1, <1>3 DEF Text
<1>7. ASSUME ~Matches(k, n), NEW j \in 0 .. count - 1
      PROVE  IF j < k THEN u[j] < n ELSE n < u[j]
  <2>1. CASE j < k
    <3>1. k - 1 \in 0 .. count - 1 /\ u[k - 1] < n
      BY <2>1, <1>0, <1>2
    <3>2. j = k - 1 \/ u[j] < u[k - 1]
      <4>1. j = k - 1 \/ j < k - 1
        BY <2>1, <1>0
      <4> QED BY <4>1, <3>1, <1>5
    <3> QED BY <2>1, <3>1, <3>2, <1>0, <1>4
  <2>2. CASE ~(j < k)
    <3>1. k \in 0 .. count - 1 /\ u[k] >= n
      BY <2>2, <1>0, <1>2
    <3>2. u[k] # n
      <4>1. names_storage[index[k].name_offset] # n
        <5>1. k < count
          BY <3>1, <1>0
        <5> QED BY <5>1, <1>7 DEF Matches
      <4> QED BY <4>1, <3>1, <1>1, <1>2, <1>3
    <3>3. j = k \/ u[k] < u[j]
      BY <2>2, <3>1, <1>5
    <3> QED BY <2>2, <3>1, <3>2, <3>3, <1>0, <1>4
  <2> QED BY <2>1, <2>2
<1>8. ASSUME ~Matches(k, n) PROVE Between(e, count, str_index, names_storage, k, n)
  BY <1>8, <1>7, <1>0, <1>2 DEF Between
<1> QED BY <1>0, <1>6, <1>8

(* Nobody has an id for a name that has no entry.                          *)
LEMMA Absent ==
  ASSUME NEW e, NEW c \in Nat, NEW si, NEW ns, NEW k, NEW n \in Names, NEW d,
         EachIdOnce(e, c), Between(e, c, si, ns, k, n), Told(c, si, ns, d)
  PROVE  d[n] = {}
<1> SUFFICES ASSUME NEW i \in d[n] PROVE FALSE
  OBVIOUS
<1>1. i \in 0 .. c - 1 /\ ns[si[i]] = n
  BY DEF Told
<1>2. PICK j \in 0 .. c - 1 : e[j].id = i
  BY <1>1 DEF EachIdOnce
<1>3. n \in Nat
  BY Sizes
<1> QED BY <1>1, <1>2, <1>3 DEF Between

(* Two ids that lead to the same name are the same id.                     *)
LEMMA OneId ==
  ASSUME NEW e, NEW c \in Nat, NEW si, NEW ns, NEW nu, NEW n \in Names,
         InOrder(e, c, si, ns, nu), NEW i \in 0 .. c - 1, NEW j \in 0 .. c - 1,
         ns[si[i]] = n, ns[si[j]] = n
  PROVE  i = j
<1>1. PICK k \in 0 .. c - 1 : e[k].id = i
  BY DEF InOrder, EachIdOnce
<1>2. PICK l \in 0 .. c - 1 : e[l].id = j
  BY DEF InOrder, EachIdOnce
<1>3. n \in Nat
  BY Sizes
<1>4. CASE k < l
  BY <1>1, <1>2, <1>3, <1>4 DEF InOrder, Sorted
<1>5. CASE l < k
  BY <1>1, <1>2, <1>3, <1>5 DEF InOrder, Sorted
<1> QED BY <1>1, <1>2, <1>4, <1>5

-----------------------------------------------------------------------------

LEMMA InitInv == Init /\ OnlyLocked => DictInv
<1> SUFFICES ASSUME Init, OnlyLocked PROVE DictInv
  OBVIOUS
<1>1. /\ SIZE \in Nat /\ SIZE > 0 /\ NAMES_STORAGE_SIZE \in Nat /\ NAMES_STORAGE_SIZE > 0
      /\ Nobody \notin Procs /\ 0 \in Ids /\ 0 \in Offsets
  BY Sizes DEF Ids, Offsets
<1>2. (CHOOSE n \in Names : TRUE) \in Names
  BY CountersAssumption
<1>3. TypeOK
  BY <1>1, <1>2 DEF TypeOK, Init
<1>4. Locked
  BY <1>1 DEF Locked, Init, Storing
<1>5. count = 0 /\ settled = 0 /\ lock = Nobody
  BY DEF Init, settled
<1>6. Settled
  <2> DEFINE e == Entries(index, settled, Gap)
  <2>1. \A j \in 0 .. 0 - 1 : FALSE
    OBVIOUS
  <2>2. Sorted(e, 0, str_index, names_storage) /\ EachIdOnce(e, 0) /\ Offset(e, 0, str_index)
    BY <2>1 DEF Sorted, EachIdOnce, Offset
  <2>3. Laid(0, str_index, names_storage, names_used)
    BY <2>1 DEF Laid, Init
  <2> QED BY <2>2, <2>3, <1>5 DEF Settled, InOrder
<1>7. Pending
  BY <1>5 DEF Pending
<1>8. Told(settled, str_index, names_storage, ids)
  BY DEF Told, Init
<1> QED BY <1>3, <1>4, <1>6, <1>7, <1>8 DEF DictInv

(* A step of someone who is not making an entry leaves it as it is.        *)
LEMMA Aside ==
  ASSUME DictInv, shared' = shared, lock' = lock, pos' = pos, calls' = calls,
         lock # Nobody => pc'[lock] = pc[lock] /\ name'[lock] = name[lock],
         Told(settled, str_index, names_storage, ids')
  PROVE  Settled' /\ Pending' /\ Told(settled, str_index, names_storage, ids)'
<1>1. settled' = settled /\ Gap' = Gap
  BY DEF settled, Gap, shared
<1>2. Settled'
  BY <1>1 DEF DictInv, Settled, shared
<1>3. Pending'
  BY <1>1 DEF DictInv, Pending, shared
<1>4. Told(settled, str_index, names_storage, ids)'
  BY <1>1 DEF shared
<1> QED BY <1>2, <1>3, <1>4

LEMMA CallInv ==
  ASSUME DictInv, NEW p \in Procs, Call(p), UNCHANGED calls
  PROVE  DictInv'
<1>1. PICK c \in calls \ {"Dump"}, n \in Names :
        /\ call' = [call EXCEPT ![p] = c]
        /\ name' = [name EXCEPT ![p] = n]
        /\ pc' = [pc EXCEPT ![p] = FirstStep(c)]
  BY DEF Call
<1>2. FirstStep(c) \in {"lookup", "lookup_add", "add"}
  <2>1. c \in {"GetCounterIndex", "LookupIndex", "HistoryIndex", "HistoryPtr", "Add"}
    BY CountersAssumption DEF DictInv, TypeOK
  <2> QED BY <2>1 DEF FirstStep
<1>3. TypeOK'
  BY <1>1, <1>2 DEF DictInv, TypeOK, Call, shared
<1>4. Locked'
  BY <1>1, <1>2 DEF DictInv, Locked, TypeOK, Storing, Call, OnlyLocked
<1>5. lock # Nobody => lock \in Procs /\ lock # p
  BY DEF DictInv, TypeOK, Locked, Storing, Call
<1>6. lock # Nobody => pc'[lock] = pc[lock] /\ name'[lock] = name[lock]
  BY <1>1, <1>5 DEF DictInv, TypeOK
<1>7. Told(settled, str_index, names_storage, ids')
  BY DEF DictInv, Call
<1>8. Settled' /\ Pending' /\ Told(settled, str_index, names_storage, ids)'
  BY <1>6, <1>7, Aside DEF Call
<1> QED BY <1>3, <1>4, <1>8 DEF DictInv

LEMMA ListInv ==
  ASSUME DictInv, NEW p \in Procs, GetCategory(p) \/ DumpNext(p), UNCHANGED calls
  PROVE  DictInv'
<1>1. /\ pc[p] \in {"idle", "print"}
      /\ \E s \in {"idle", "print", "dead"} : pc' = [pc EXCEPT ![p] = s]
      /\ UNCHANGED <<shared, lock, call, name, pos, answer, ids>>
  BY DEF GetCategory, DumpNext, Goto
<1>2. listing' \in [Procs -> SUBSET Ids]
  <2>0. /\ SIZE \in Nat /\ count \in Nat /\ count <= SIZE
        /\ index \in [Ids -> [id : Ids, name_offset : Offsets]]
        /\ listing \in [Procs -> SUBSET Ids]
    BY Sizes DEF DictInv, TypeOK
  <2>1. ASSUME NEW l \in Nat, NEW m \in Int, m <= count PROVE {index[k].id : k \in l .. m - 1} \subseteq Ids
    BY <2>0, <2>1 DEF Ids
  <2>2. CASE GetCategory(p)
    <3>1. PICK prefix \in Prefixes :
            IF prefix.from = Empty
            THEN listing' = [listing EXCEPT ![p] = {index[k].id : k \in 0 .. count - 1}]
            ELSE \/ UNCHANGED listing
                 \/ \E p1 \in lower_bound(prefix.from), p2 \in lower_bound(prefix.to) :
                      listing' = [listing EXCEPT ![p] = {index[k].id : k \in p1 .. p2 - 1}]
      BY <2>2 DEF GetCategory
    <3>2. CASE prefix.from = Empty
      <4>1. {index[k].id : k \in 0 .. count - 1} \subseteq Ids
        BY <2>0, <2>1
      <4> QED BY <2>0, <3>1, <3>2, <4>1
    <3>3. CASE UNCHANGED listing
      BY <2>0, <3>3
    <3>4. ASSUME NEW p1 \in lower_bound(prefix.from), NEW p2 \in lower_bound(prefix.to),
                 listing' = [listing EXCEPT ![p] = {index[k].id : k \in p1 .. p2 - 1}]
          PROVE  listing' \in [Procs -> SUBSET Ids]
      <4>1. p1 \in Nat /\ p2 \in Nat /\ p2 <= count
        BY <2>0 DEF lower_bound
      <4>2. {index[k].id : k \in p1 .. p2 - 1} \subseteq Ids
        BY <2>1, <4>1
      <4> QED BY <2>0, <3>4, <4>2
    <3> QED BY <3>1, <3>2, <3>3, <3>4
  <2>3. CASE DumpNext(p)
    BY <2>0, <2>3 DEF DumpNext
  <2> QED BY <2>2, <2>3
<1>3. TypeOK'
  BY <1>1, <1>2 DEF DictInv, TypeOK, shared
<1>4. Locked'
  BY <1>1 DEF DictInv, Locked, TypeOK, Storing, OnlyLocked
<1>5. lock # Nobody => lock \in Procs /\ lock # p
  BY <1>1 DEF DictInv, TypeOK, Locked, Storing
<1>6. lock # Nobody => pc'[lock] = pc[lock] /\ name'[lock] = name[lock]
  BY <1>1, <1>5 DEF DictInv, TypeOK
<1>7. Told(settled, str_index, names_storage, ids')
  BY <1>1 DEF DictInv
<1>8. Settled' /\ Pending' /\ Told(settled, str_index, names_storage, ids)'
  BY <1>1, <1>6, <1>7, Aside
<1> QED BY <1>3, <1>4, <1>8 DEF DictInv

(* With the lock free the dictionary is in order as it stands.             *)
LEMMA AtRest ==
  ASSUME DictInv, lock = Nobody
  PROVE  /\ settled = count /\ count \in Nat /\ count <= SIZE
         /\ InOrder(Entries(index, count, SIZE), count, str_index, names_storage, names_used)
         /\ Told(count, str_index, names_storage, ids)
BY Sizes DEF DictInv, TypeOK, Settled, settled, Gap

(* A call that returns without a store.                                    *)
LEMMA ReturnInv ==
  ASSUME DictInv, NEW p \in Procs, lock = Nobody, NEW id \in Ids \cup {DICTIONARY_INVALID_INDEX},
         id # DICTIONARY_INVALID_INDEX => id \in 0 .. count - 1 /\ Text(id) = name[p],
         Return(p, id), UNCHANGED <<shared, pos, calls>>
  PROVE  DictInv'
<1>1. lock' = Nobody /\ Nobody \notin Procs
  BY Sizes DEF Return
<1>2. TypeOK'
  BY <1>1 DEF DictInv, TypeOK, shared, Return
<1>3. Locked'
  BY <1>1 DEF DictInv, Locked, TypeOK, Storing, Return, OnlyLocked
<1>4. Told(settled, str_index, names_storage, ids')
  <2>1. ASSUME NEW n \in Names, NEW i \in ids'[n] PROVE i \in 0 .. count - 1 /\ names_storage[str_index[i]] = n
    <3>1. CASE i \in ids[n]
      BY <3>1, AtRest DEF Told
    <3>2. CASE i \notin ids[n]
      <4>1. i = id /\ n = name[p] /\ id # DICTIONARY_INVALID_INDEX
        BY <3>2 DEF Return, DictInv, TypeOK
      <4> QED BY <4>1 DEF Text
    <3> QED BY <3>1, <3>2
  <2> QED BY <2>1, AtRest DEF Told
<1>5. Settled' /\ Pending' /\ Told(settled, str_index, names_storage, ids)'
  BY <1>1, <1>4, Aside
<1> QED BY <1>2, <1>3, <1>5 DEF DictInv

(* What Lookup(name) may answer, with the lock free.                       *)
LEMMA Answers ==
  ASSUME DictInv, lock = Nobody, NEW n \in Names, NEW id \in Lookup(n)
  PROVE  /\ id \in Ids \cup {DICTIONARY_INVALID_INDEX}
         /\ id # DICTIONARY_INVALID_INDEX => id \in 0 .. count - 1 /\ Text(id) = n
         /\ id = DICTIONARY_INVALID_INDEX => ids[n] = {}
<1>1. PICK k \in lower_bound(n) : id = IF Matches(k, n) THEN index[k].id ELSE DICTIONARY_INVALID_INDEX
  BY DEF Lookup
<1>2. /\ SIZE \in Nat /\ count \in Nat /\ count <= SIZE
      /\ InOrder(Entries(index, count, SIZE), count, str_index, names_storage, names_used)
      /\ Told(count, str_index, names_storage, ids)
  BY Sizes, AtRest
<1>3. TypeOK
  BY DEF DictInv
<1>4. CASE Matches(k, n)
  <2>1. index[k].id \in 0 .. count - 1 /\ Text(index[k].id) = n
    BY <1>2, <1>3, <1>4, Place
  <2> QED BY <1>1, <1>2, <1>4, <2>1 DEF Ids, DICTIONARY_INVALID_INDEX
<1>5. CASE ~Matches(k, n)
  <2>1. Between(Entries(index, count, SIZE), count, str_index, names_storage, k, n)
    BY <1>2, <1>3, <1>5, Place
  <2>2. EachIdOnce(Entries(index, count, SIZE), count)
    BY <1>2 DEF InOrder
  <2>3. ids[n] = {}
    BY <1>2, <2>1, <2>2, Absent
  <2> QED BY <1>1, <1>5, <2>3
<1> QED BY <1>4, <1>5

LEMMA EnterFree ==
  ASSUME DictInv, NEW p \in Procs, pc[p] \in {"lookup", "lookup_add", "add"}, MayEnter(p)
  PROVE  lock = Nobody /\ call[p] # "Add" /\ name[p] \in Names
BY DEF DictInv, TypeOK, Locked, OnlyLocked, MayEnter

LEMMA LookupOnlyInv ==
  ASSUME DictInv, NEW p \in Procs, LookupOnly(p), UNCHANGED calls
  PROVE  DictInv'
<1>1. lock = Nobody /\ name[p] \in Names /\ pc[p] = "lookup"
  BY EnterFree DEF LookupOnly
<1>2. PICK id \in Lookup(name[p]) :
        IF call[p] = "GetCounterIndex" /\ id = DICTIONARY_INVALID_INDEX
        THEN /\ pc' = [pc EXCEPT ![p] = "lookup_add"]
             /\ UNCHANGED <<lock, call, name, listing, answer, ids>>
        ELSE Return(p, id)
  BY DEF LookupOnly
<1>3. CASE Return(p, id)
  BY <1>1, <1>3, Answers, ReturnInv DEF LookupOnly
<1>4. CASE /\ pc' = [pc EXCEPT ![p] = "lookup_add"]
           /\ UNCHANGED <<lock, call, name, listing, answer, ids>>
  <2>0. UNCHANGED <<shared, pos>>
    BY DEF LookupOnly
  <2>1. TypeOK'
    BY <1>4, <2>0 DEF DictInv, TypeOK, shared
  <2>2. Locked'
    BY <1>1, <1>4 DEF DictInv, Locked, TypeOK, Storing, OnlyLocked
  <2>3. Told(settled, str_index, names_storage, ids')
    BY <1>4 DEF DictInv
  <2>4. Settled' /\ Pending' /\ Told(settled, str_index, names_storage, ids)'
    BY <1>1, <1>4, <2>0, <2>3, Aside
  <2> QED BY <2>1, <2>2, <2>4 DEF DictInv
<1> QED BY <1>2, <1>3, <1>4

(* Add up to its first store: it answers, or it has the lock and a place.  *)
LEMMA AddToInv ==
  ASSUME DictInv, NEW p \in Procs, pc[p] \in {"lookup_add", "add"}, MayEnter(p),
         AddTo(p), UNCHANGED <<shared, calls>>
  PROVE  DictInv'
<1>1. lock = Nobody /\ call[p] # "Add" /\ name[p] \in Names /\ Nobody \notin Procs
  BY EnterFree, Sizes
<1>2. /\ SIZE \in Nat /\ SIZE > 0 /\ count \in Nat /\ count <= SIZE
      /\ settled = count
      /\ InOrder(Entries(index, count, SIZE), count, str_index, names_storage, names_used)
      /\ Told(count, str_index, names_storage, ids)
      /\ TypeOK
  <2>1. TypeOK /\ SIZE \in Nat /\ SIZE > 0
    BY Sizes DEF DictInv
  <2> QED BY <1>1, <2>1, AtRest
<1>3. CASE Full(name[p])
  <2>1. Return(p, DICTIONARY_INVALID_INDEX) /\ UNCHANGED pos
    BY <1>3 DEF AddTo
  <2> QED BY <1>1, <2>1, ReturnInv
<1>4. CASE ~Full(name[p])
  <2>1. PICK k \in lower_bound(name[p]) :
          IF Matches(k, name[p])
          THEN Return(p, index[k].id) /\ UNCHANGED pos
          ELSE /\ pos' = [pos EXCEPT ![p] = k]
               /\ pc' = [pc EXCEPT ![p] = IF k < count THEN "memmove" ELSE "id"]
               /\ lock' = IF call[p] = "Add" THEN lock ELSE p
               /\ UNCHANGED <<call, name, listing, answer, ids>>
    BY <1>4 DEF AddTo
  <2>2. CASE Matches(k, name[p])
    <3>1. index[k].id \in 0 .. count - 1 /\ Text(index[k].id) = name[p]
      BY <1>1, <1>2, <2>2, Place
    <3>2. index[k].id \in Ids
      BY <1>2, <3>1 DEF Ids
    <3>3. Return(p, index[k].id) /\ UNCHANGED pos
      BY <2>1, <2>2
    <3> QED BY <1>1, <3>1, <3>2, <3>3, ReturnInv
  <2>3. CASE ~Matches(k, name[p])
    <3>1. /\ pos' = [pos EXCEPT ![p] = k]
          /\ pc' = [pc EXCEPT ![p] = IF k < count THEN "memmove" ELSE "id"]
          /\ lock' = p
          /\ UNCHANGED <<call, name, listing, answer, ids>>
      BY <1>1, <2>1, <2>3
    <3>2. /\ k \in 0 .. count
          /\ Between(Entries(index, count, SIZE), count, str_index, names_storage, k, name[p])
      BY <1>1, <1>2, <2>3, Place
    <3>3. count < SIZE /\ names_used + Len[name[p]] + 1 <= NAMES_STORAGE_SIZE
      <4>1. ~(names_used + Len[name[p]] + 1 > NAMES_STORAGE_SIZE) /\ ~(count >= SIZE)
        BY <1>4 DEF Full
      <4>2. names_used \in Nat /\ NAMES_STORAGE_SIZE \in Nat /\ Len[name[p]] \in Nat
        <5>1. NAMES_STORAGE_SIZE \in Nat /\ Len[name[p]] \in Nat
          BY <1>1, Sizes
        <5> QED BY <1>2, <5>1 DEF TypeOK
      <4> QED BY <1>2, <4>1, <4>2
    <3>4. k \in Ids
      BY <1>2, <3>2, <3>3 DEF Ids
    <3>5. /\ pos'[p] = k /\ lock'[p] = lock'[p]
          /\ pc'[p] = IF k < count THEN "memmove" ELSE "id"
      BY <1>2, <3>1 DEF TypeOK
    <3>6. TypeOK'
      BY <1>2, <3>1, <3>4 DEF TypeOK, shared
    <3>7. Locked'
      BY <1>1, <1>2, <3>1, <3>5 DEF DictInv, Locked, TypeOK, Storing, OnlyLocked
    <3>8. settled' = count /\ Gap' = IF k < count THEN SIZE ELSE k
      BY <1>1, <3>1, <3>5 DEF settled, Gap, shared
    <3>9. Entries(index', count, Gap') = Entries(index, count, SIZE)
      <4>1. index' = index /\ Gap' \in Nat /\ \A j \in 0 .. count - 1 : j < Gap' /\ j < SIZE
        BY <1>2, <3>2, <3>8 DEF shared
      <4> QED BY <4>1 DEF Entries
    <3>10. Settled'
      BY <1>2, <3>8, <3>9 DEF Settled, shared
    <3>11. Pending'
      <4>1. pc'[p] = "memmove" => k < count
        BY <3>5
      <4>2. Between(Entries(index', settled', Gap'), settled', str_index', names_storage', pos'[lock'], name'[lock'])
        BY <3>1, <3>2, <3>5, <3>8, <3>9 DEF shared
      <4> QED BY <3>1, <3>3, <3>5, <3>8, <4>1, <4>2 DEF Pending, shared
    <3>12. Told(settled, str_index, names_storage, ids)'
      BY <1>2, <3>1, <3>8 DEF shared
    <3> QED BY <3>6, <3>7, <3>10, <3>11, <3>12 DEF DictInv
  <2> QED BY <2>2, <2>3
<1> QED BY <1>3, <1>4

LEMMA AddInv ==
  ASSUME DictInv, NEW p \in Procs, Add(p), UNCHANGED calls
  PROVE  DictInv'
BY AddToInv DEF Add

LEMMA LookupAddInv ==
  ASSUME DictInv, NEW p \in Procs, LookupAdd(p), UNCHANGED calls
  PROVE  DictInv'
<1>1. lock = Nobody /\ name[p] \in Names /\ pc[p] = "lookup_add" /\ MayEnter(p)
  BY EnterFree DEF LookupAdd
<1>2. PICK id \in Lookup(name[p]) :
        IF id # DICTIONARY_INVALID_INDEX THEN Return(p, id) /\ UNCHANGED pos ELSE AddTo(p)
  BY DEF LookupAdd
<1>3. CASE id # DICTIONARY_INVALID_INDEX
  BY <1>1, <1>2, <1>3, Answers, ReturnInv DEF LookupAdd
<1>4. CASE id = DICTIONARY_INVALID_INDEX
  BY <1>1, <1>2, <1>4, AddToInv DEF LookupAdd
<1> QED BY <1>3, <1>4

-----------------------------------------------------------------------------
(* The five stores.                                                        *)

LEMMA Maker ==
  ASSUME DictInv, NEW p \in Procs, pc[p] \in Storing
  PROVE  /\ lock = p /\ lock # Nobody
         /\ SIZE \in Nat /\ NAMES_STORAGE_SIZE \in Nat
         /\ settled \in Nat /\ settled < SIZE /\ count \in Nat
         /\ count = IF pc[p] = "memcpy" THEN settled + 1 ELSE settled
         /\ Gap = IF pc[p] = "memmove" THEN SIZE ELSE pos[p]
         /\ pos[p] \in 0 .. settled /\ pos[p] \in Ids /\ settled \in Ids
         /\ name[p] \in Names /\ Len[name[p]] \in Nat
         /\ names_used \in Nat /\ names_used + Len[name[p]] + 1 <= NAMES_STORAGE_SIZE
         /\ names_used \in Offsets
<1>1. lock = p /\ lock # Nobody
  BY Sizes DEF DictInv, Locked
<1>2. SIZE \in Nat /\ NAMES_STORAGE_SIZE \in Nat
  BY Sizes
<1>3. name[p] \in Names /\ count \in Nat /\ names_used \in Nat /\ pos[p] \in Ids
  BY <1>2 DEF DictInv, TypeOK
<1>4. Len[name[p]] \in Nat
  BY <1>3, Sizes
<1>5. /\ settled < SIZE
      /\ names_used + Len[name[p]] + 1 <= NAMES_STORAGE_SIZE
      /\ pos[p] \in 0 .. settled
  BY <1>1 DEF DictInv, Pending, Between
<1>6. /\ settled = IF pc[p] = "memcpy" THEN count - 1 ELSE count
      /\ Gap = IF pc[p] = "memmove" THEN SIZE ELSE pos[p]
  BY <1>1 DEF settled, Gap, Storing
<1>7. settled \in Nat
  BY <1>3, <1>5, <1>6
<1>8. settled \in Ids /\ names_used \in Offsets
  BY <1>2, <1>3, <1>4, <1>5, <1>7 DEF Ids, Offsets
<1> QED BY <1>1, <1>2, <1>3, <1>4, <1>5, <1>6, <1>7, <1>8

(* A store that leaves what is settled alone, and whoever makes it in the  *)
(* middle of his call.                                                     *)
LEMMA StoreInv ==
  ASSUME DictInv, NEW p \in Procs, pc[p] \in Storing, NEW s \in Storing,
         pc' = [pc EXCEPT ![p] = s], UNCHANGED <<Locals, calls, names_used, names_storage>>,
         settled' = settled,
         Entries(index', settled, Gap') = Entries(index, settled, Gap),
         \A i \in 0 .. settled - 1 : str_index'[i] = str_index[i],
         s # "memmove",
         s \in {"offset", "count", "memcpy"} => index'[pos[p]].id = settled,
         s \in {"count", "memcpy"} => /\ index'[pos[p]].name_offset = names_used
                                      /\ str_index'[settled] = names_used
  PROVE  Locked' /\ Settled' /\ Pending' /\ Told(settled, str_index, names_storage, ids)'
<1>1. /\ lock = p /\ lock # Nobody /\ settled \in Nat
  BY Maker
<1>2. /\ lock' = p /\ pos' = pos /\ name' = name /\ ids' = ids /\ pc'[p] = s
  BY <1>1 DEF Locals, DictInv, TypeOK
<1>3. Locked'
  BY <1>1, <1>2 DEF DictInv, Locked, TypeOK, OnlyLocked
<1> DEFINE e == Entries(index, settled, Gap)
<1>4. /\ InOrder(e, settled, str_index, names_storage, names_used)
      /\ Between(e, settled, str_index, names_storage, pos[p], name[p])
      /\ Told(settled, str_index, names_storage, ids)
      /\ settled < SIZE
      /\ names_used + Len[name[p]] + 1 <= NAMES_STORAGE_SIZE
  BY <1>1 DEF DictInv, Settled, Pending
<1> HIDE DEF e
<1>5. \A j \in 0 .. settled - 1 : /\ e[j].id \in 0 .. settled - 1
                                  /\ str_index'[e[j].id] = str_index[e[j].id]
  BY <1>4 DEF InOrder, EachIdOnce
<1>6. InOrder(e, settled, str_index', names_storage, names_used)
  <2>1. Sorted(e, settled, str_index', names_storage) /\ EachIdOnce(e, settled)
    BY <1>4, <1>5 DEF InOrder, Sorted
  <2>2. Offset(e, settled, str_index')
    BY <1>4, <1>5 DEF InOrder, Offset
  <2>3. Laid(settled, str_index', names_storage, names_used)
    <3>1. ASSUME NEW i \in 0 .. settled - 1
          PROVE  /\ names_storage[str_index'[i]] \in Names
                 /\ str_index'[i] < names_used
                 /\ str_index'[i] + Len[names_storage[str_index'[i]]] + 1
                      = IF i + 1 < settled THEN str_index'[i + 1] ELSE names_used
      <4>1. /\ names_storage[str_index[i]] \in Names
            /\ str_index[i] < names_used
            /\ str_index[i] + Len[names_storage[str_index[i]]] + 1
                 = IF i + 1 < settled THEN str_index[i + 1] ELSE names_used
        BY <1>4 DEF InOrder, Laid
      <4>2. i + 1 < settled => i + 1 \in 0 .. settled - 1
        BY <1>1
      <4> QED BY <4>1, <4>2
    <3> QED BY <3>1, <1>4 DEF InOrder, Laid
  <2> QED BY <2>1, <2>2, <2>3 DEF InOrder
<1>7. Between(e, settled, str_index', names_storage, pos[p], name[p])
  BY <1>4, <1>5 DEF Between
<1>8. Told(settled, str_index', names_storage, ids)
  BY <1>4 DEF Told
<1>9. Entries(index', settled, Gap') = e
  BY DEF e
<1>10. Settled'
  BY <1>6, <1>9 DEF Settled
<1>11. Pending'
  BY <1>1, <1>2, <1>4, <1>7, <1>9 DEF Pending
<1>12. Told(settled, str_index, names_storage, ids)'
  BY <1>2, <1>8
<1> QED BY <1>3, <1>10, <1>11, <1>12

(* Where a store leaves the one who makes it.                              *)
LEMMA AfterStore ==
  ASSUME DictInv, NEW p \in Procs, pc[p] \in Storing, NEW s \in Storing,
         pc' = [pc EXCEPT ![p] = s], UNCHANGED <<lock, pos>>
  PROVE  /\ settled' = IF s = "memcpy" THEN count' - 1 ELSE count'
         /\ Gap' = IF s = "memmove" THEN SIZE ELSE pos[p]
<1>1. lock = p /\ lock' = p /\ lock # Nobody
  BY Maker
<1>2. pc'[lock'] = s /\ pos'[lock'] = pos[p]
  BY <1>1 DEF DictInv, TypeOK
<1>3. settled' = IF s = "memcpy" THEN count' - 1 ELSE count'
  BY <1>1, <1>2 DEF settled
<1>4. Gap' = IF s = "memmove" THEN SIZE ELSE pos[p]
  BY <1>1, <1>2 DEF Gap, Storing
<1> QED BY <1>3, <1>4

LEMMA MemmoveInv ==
  ASSUME DictInv, NEW p \in Procs, Memmove(p), UNCHANGED calls
  PROVE  DictInv'
<1>1. /\ pc[p] \in Storing /\ pc[p] = "memmove" /\ pc' = [pc EXCEPT ![p] = "id"] /\ "id" \in Storing
      /\ UNCHANGED <<count, names_used, names_storage, str_index, Locals>>
      /\ index' = [k \in Ids |-> IF k \in pos[p] + 1 .. count THEN index[k - 1] ELSE index[k]]
  BY DEF Memmove, Goto, Storing
<1>2. /\ SIZE \in Nat /\ settled \in Nat /\ settled < SIZE /\ count = settled /\ Gap = SIZE
      /\ pos[p] \in 0 .. settled /\ pos[p] \in Nat
  BY <1>1, Maker
<1>3. settled' = settled /\ Gap' = pos[p]
  BY <1>1, <1>2, AfterStore DEF Locals
<1>4. ASSUME NEW j \in 0 .. settled - 1
      PROVE  (IF j < pos[p] THEN index'[j] ELSE index'[j + 1]) = (IF j < SIZE THEN index[j] ELSE index[j + 1])
  <2>1. j \in Ids /\ j + 1 \in Ids /\ j < SIZE /\ (j + 1) - 1 = j
    BY <1>2 DEF Ids
  <2>2. CASE j < pos[p]
    BY <1>1, <1>2, <2>1, <2>2
  <2>3. CASE ~(j < pos[p])
    <3>1. j + 1 \in pos[p] + 1 .. count
      BY <1>2, <2>3
    <3>2. index'[j + 1] = index[(j + 1) - 1]
      BY <1>1, <2>1, <3>1
    <3> QED BY <2>1, <2>3, <3>2
  <2> QED BY <2>2, <2>3
<1>5. Entries(index', settled, Gap') = Entries(index, settled, Gap)
  BY <1>2, <1>3, <1>4 DEF Entries
<1>6. TypeOK'
  <2>1. ASSUME NEW k \in pos[p] + 1 .. count PROVE k - 1 \in Ids
    BY <1>2 DEF Ids
  <2>2. index' \in [Ids -> [id : Ids, name_offset : Offsets]]
    BY <1>1, <2>1 DEF DictInv, TypeOK
  <2> QED BY <1>1, <2>2 DEF DictInv, TypeOK, Locals
<1>7. Locked' /\ Settled' /\ Pending' /\ Told(settled, str_index, names_storage, ids)'
  BY <1>1, <1>3, <1>5, StoreInv
<1> QED BY <1>6, <1>7 DEF DictInv

LEMMA SetIdInv ==
  ASSUME DictInv, NEW p \in Procs, SetId(p), UNCHANGED calls
  PROVE  DictInv'
<1>1. /\ pc[p] \in Storing /\ pc[p] = "id" /\ pc' = [pc EXCEPT ![p] = "offset"] /\ "offset" \in Storing
      /\ UNCHANGED <<count, names_used, names_storage, str_index, Locals>>
      /\ index' = [index EXCEPT ![pos[p]].id = count]
  BY DEF SetId, Goto, Storing
<1>2. /\ SIZE \in Nat /\ settled \in Nat /\ settled < SIZE /\ count = settled /\ Gap = pos[p]
      /\ pos[p] \in 0 .. settled /\ pos[p] \in Nat /\ pos[p] \in Ids /\ settled \in Ids
  BY <1>1, Maker
<1>3. settled' = settled /\ Gap' = pos[p]
  BY <1>1, <1>2, AfterStore DEF Locals
<1>4. index \in [Ids -> [id : Ids, name_offset : Offsets]]
  BY DEF DictInv, TypeOK
<1>5. /\ index'[pos[p]].id = settled
      /\ \A j \in Ids : j # pos[p] => index'[j] = index[j]
      /\ index' \in [Ids -> [id : Ids, name_offset : Offsets]]
  BY <1>1, <1>2, <1>4
<1>6. ASSUME NEW j \in 0 .. settled - 1
      PROVE  (IF j < pos[p] THEN index'[j] ELSE index'[j + 1]) = (IF j < pos[p] THEN index[j] ELSE index[j + 1])
  <2>1. j \in Ids /\ j + 1 \in Ids /\ (j < pos[p] => j # pos[p]) /\ (~(j < pos[p]) => j + 1 # pos[p])
    BY <1>2 DEF Ids
  <2> QED BY <1>5, <2>1
<1>7. Entries(index', settled, Gap') = Entries(index, settled, Gap)
  BY <1>2, <1>3, <1>6 DEF Entries
<1>8. TypeOK'
  BY <1>1, <1>5 DEF DictInv, TypeOK, Locals
<1>9. Locked' /\ Settled' /\ Pending' /\ Told(settled, str_index, names_storage, ids)'
  BY <1>1, <1>3, <1>5, <1>7, StoreInv
<1> QED BY <1>8, <1>9 DEF DictInv

LEMMA SetOffsetInv ==
  ASSUME DictInv, NEW p \in Procs, SetOffset(p), UNCHANGED calls
  PROVE  DictInv'
<1>1. /\ pc[p] \in Storing /\ pc[p] = "offset" /\ pc' = [pc EXCEPT ![p] = "count"] /\ "count" \in Storing
      /\ UNCHANGED <<count, names_used, names_storage, Locals>>
      /\ str_index' = [str_index EXCEPT ![count] = names_used]
      /\ index' = [index EXCEPT ![pos[p]].name_offset = names_used]
  BY DEF SetOffset, Goto, Storing
<1>2. /\ SIZE \in Nat /\ settled \in Nat /\ settled < SIZE /\ count = settled /\ Gap = pos[p]
      /\ pos[p] \in 0 .. settled /\ pos[p] \in Nat /\ pos[p] \in Ids /\ settled \in Ids
      /\ names_used \in Offsets /\ lock = p /\ lock # Nobody
  BY <1>1, Maker
<1>3. settled' = settled /\ Gap' = pos[p]
  BY <1>1, <1>2, AfterStore DEF Locals
<1>4. index \in [Ids -> [id : Ids, name_offset : Offsets]] /\ str_index \in [Ids -> Offsets]
  BY DEF DictInv, TypeOK
<1>5. /\ index'[pos[p]].name_offset = names_used
      /\ index'[pos[p]].id = index[pos[p]].id
      /\ \A j \in Ids : j # pos[p] => index'[j] = index[j]
      /\ index' \in [Ids -> [id : Ids, name_offset : Offsets]]
  BY <1>1, <1>2, <1>4
<1>6. /\ str_index' \in [Ids -> Offsets]
      /\ str_index'[settled] = names_used
      /\ \A i \in 0 .. settled - 1 : str_index'[i] = str_index[i]
  BY <1>1, <1>2, <1>4 DEF Ids
<1>7. index[pos[p]].id = settled
  BY <1>1, <1>2 DEF DictInv, Pending
<1>8. ASSUME NEW j \in 0 .. settled - 1
      PROVE  (IF j < pos[p] THEN index'[j] ELSE index'[j + 1]) = (IF j < pos[p] THEN index[j] ELSE index[j + 1])
  <2>1. j \in Ids /\ j + 1 \in Ids /\ (j < pos[p] => j # pos[p]) /\ (~(j < pos[p]) => j + 1 # pos[p])
    BY <1>2 DEF Ids
  <2> QED BY <1>5, <2>1
<1>9. Entries(index', settled, Gap') = Entries(index, settled, Gap)
  BY <1>2, <1>3, <1>8 DEF Entries
<1>10. TypeOK'
  BY <1>1, <1>5, <1>6 DEF DictInv, TypeOK, Locals
<1>11. Locked' /\ Settled' /\ Pending' /\ Told(settled, str_index, names_storage, ids)'
  BY <1>1, <1>3, <1>5, <1>6, <1>7, <1>9, StoreInv
<1> QED BY <1>10, <1>11 DEF DictInv

LEMMA SetCountInv ==
  ASSUME DictInv, NEW p \in Procs, SetCount(p), UNCHANGED calls
  PROVE  DictInv'
<1>1. /\ pc[p] \in Storing /\ pc[p] = "count" /\ pc' = [pc EXCEPT ![p] = "memcpy"] /\ "memcpy" \in Storing
      /\ UNCHANGED <<index, names_used, names_storage, str_index, Locals>>
      /\ count' = count + 1
  BY DEF SetCount, Goto, Storing
<1>2. /\ SIZE \in Nat /\ settled \in Nat /\ settled < SIZE /\ count = settled /\ Gap = pos[p]
      /\ lock = p /\ lock # Nobody
  BY <1>1, Maker
<1>3. settled' = settled /\ Gap' = pos[p]
  <2>1. settled' = count' - 1 /\ Gap' = pos[p]
    BY <1>1, AfterStore DEF Locals
  <2> QED BY <1>1, <1>2, <2>1
<1>4. /\ index[pos[p]].id = settled
      /\ index[pos[p]].name_offset = names_used /\ str_index[settled] = names_used
  BY <1>1, <1>2 DEF DictInv, Pending
<1>5. Entries(index', settled, Gap') = Entries(index, settled, Gap)
  BY <1>1, <1>2, <1>3
<1>6. count' \in 0 .. SIZE
  BY <1>1, <1>2
<1>7. TypeOK'
  BY <1>1, <1>6 DEF DictInv, TypeOK, Locals
<1>8. Locked' /\ Settled' /\ Pending' /\ Told(settled, str_index, names_storage, ids)'
  BY <1>1, <1>3, <1>4, <1>5, StoreInv
<1> QED BY <1>7, <1>8 DEF DictInv

(* The last store makes the entry part of what is settled.                 *)
LEMMA MemcpyInv ==
  ASSUME DictInv, NEW p \in Procs, Memcpy(p), UNCHANGED calls
  PROVE  DictInv'
<1> DEFINE n == name[p]
           c == settled
           e == Entries(index, settled, pos[p])
           e2 == Entries(index, settled + 1, SIZE)
<1>1. /\ pc[p] \in Storing /\ pc[p] = "memcpy"
      /\ names_storage' = [names_storage EXCEPT ![names_used] = name[p]]
      /\ names_used' = names_used + Len[name[p]] + 1
      /\ Return(p, index[pos[p]].id)
      /\ UNCHANGED <<count, index, str_index, pos>>
  BY DEF Memcpy, Storing
<1>2. /\ lock = p /\ lock # Nobody /\ SIZE \in Nat /\ SIZE \in Int /\ SIZE >= SIZE
      /\ NAMES_STORAGE_SIZE \in Nat
      /\ c \in Nat /\ c < SIZE /\ count = c + 1 /\ Gap = pos[p] /\ c \in Ids
      /\ pos[p] \in Nat /\ pos[p] <= c /\ pos[p] \in Ids
      /\ n \in Names /\ Len[n] \in Nat
      /\ names_used \in Nat /\ names_used + Len[n] + 1 <= NAMES_STORAGE_SIZE
  BY <1>1, Maker
<1>3. /\ index \in [Ids -> [id : Ids, name_offset : Offsets]] /\ str_index \in [Ids -> Offsets]
      /\ names_storage \in [Offsets -> Names \cup {Empty}]
  BY DEF DictInv, TypeOK
<1>4. /\ index[pos[p]].id = c
      /\ index[pos[p]].name_offset = names_used /\ str_index[c] = names_used
      /\ Between(e, c, str_index, names_storage, pos[p], n)
  BY <1>1, <1>2 DEF DictInv, Pending
<1>5. InOrder(e, c, str_index, names_storage, names_used) /\ Told(c, str_index, names_storage, ids)
  BY <1>2 DEF DictInv, Settled
<1> HIDE DEF n, c, e, e2
<1>6. /\ InOrder(e2, c + 1, str_index, names_storage', names_used + Len[n] + 1)
      /\ \A i \in 0 .. c - 1 : names_storage'[str_index[i]] = names_storage[str_index[i]]
      /\ names_storage'[str_index[c]] = n
  <2>1. names_storage' = [names_storage EXCEPT ![names_used] = n]
    BY <1>1 DEF n
  <2>2. e = Entries(index, c, pos[p]) /\ e2 = Entries(index, c + 1, SIZE)
    BY DEF e, e2, c
  <2>3. /\ c \in Nat /\ c < SIZE /\ pos[p] \in Nat /\ pos[p] <= c
        /\ n \in Names /\ names_used \in Nat /\ names_used + Len[n] + 1 <= NAMES_STORAGE_SIZE
    BY <1>2
  <2>4. Shaped(str_index, names_storage)
    BY <1>3 DEF Shaped
  <2>5. Ready(index, c, str_index, names_storage, names_used, n, pos[p])
    BY <1>4, <1>5, <2>2, <2>3, <2>4 DEF Ready
  <2>6. Inserted(index, c, str_index, names_storage, names_used, n, names_storage')
    BY <2>1, <2>5, Insertion
  <2> QED BY <2>2, <2>6 DEF Inserted
<1>7. /\ lock' = Nobody
      /\ pc' = [pc EXCEPT ![p] = "idle"]
      /\ answer' = [answer EXCEPT ![p] = c]
      /\ ids' = [ids EXCEPT ![n] = @ \cup {c}]
      /\ UNCHANGED <<call, name, listing>>
  <2>1. c # DICTIONARY_INVALID_INDEX
    BY <1>2 DEF DICTIONARY_INVALID_INDEX
  <2> QED BY <1>1, <1>2, <1>4, <2>1 DEF Return, n
<1>8. TypeOK'
  <2>1. names_used' \in 0 .. NAMES_STORAGE_SIZE
    BY <1>1, <1>2 DEF n
  <2>2. names_storage' \in [Offsets -> Names \cup {Empty}]
    BY <1>1, <1>2, <1>3 DEF n
  <2>3. ids' \in [Names -> SUBSET Ids]
    BY <1>2, <1>7 DEF DictInv, TypeOK
  <2> QED BY <1>1, <1>2, <1>7, <2>1, <2>2, <2>3 DEF DictInv, TypeOK
<1>9. Locked'
  <2>1. Nobody \notin Procs
    BY Sizes
  <2> QED BY <1>2, <1>7, <2>1 DEF DictInv, Locked, TypeOK, Storing, OnlyLocked
<1>10. settled' = c + 1 /\ Gap' = SIZE
  BY <1>1, <1>2, <1>7 DEF settled, Gap
<1>11. Settled'
  BY <1>1, <1>6, <1>10 DEF Settled, e2, c, n
<1>12. Pending'
  BY <1>7 DEF Pending
<1>13. Told(settled, str_index, names_storage, ids)'
  <2>1. ASSUME NEW m \in Names, NEW i \in ids'[m]
        PROVE  i \in 0 .. c /\ names_storage'[str_index[i]] = m
    <3>1. CASE i \in ids[m]
      <4>1. i \in 0 .. c - 1 /\ names_storage[str_index[i]] = m
        BY <1>5, <3>1 DEF Told
      <4> QED BY <4>1, <1>2, <1>6
    <3>2. CASE i \notin ids[m]
      <4>1. i = c /\ m = n
        BY <1>2, <1>7, <3>2 DEF DictInv, TypeOK
      <4> QED BY <4>1, <1>2, <1>6
    <3> QED BY <3>1, <3>2
  <2>2. (c + 1) - 1 = c
    BY <1>2
  <2> QED BY <1>1, <1>10, <2>1, <2>2 DEF Told
<1> QED BY <1>8, <1>9, <1>11, <1>12, <1>13 DEF DictInv

LEMMA NextInv ==
  ASSUME DictInv, [Next]_vars PROVE DictInv'
<1>1. CASE UNCHANGED vars
  <2>1. settled' = settled /\ Gap' = Gap
    BY <1>1 DEF vars, shared, settled, Gap
  <2>2. TypeOK' /\ Locked'
    BY <1>1 DEF vars, shared, DictInv, TypeOK, Locked, OnlyLocked
  <2>3. Settled' /\ Pending' /\ Told(settled, str_index, names_storage, ids)'
    BY <1>1, <2>1 DEF vars, shared, DictInv, Settled, Pending
  <2> QED BY <2>2, <2>3 DEF DictInv
<1>2. ASSUME NEW p \in Procs, Step(p), UNCHANGED calls PROVE DictInv'
  BY <1>2, CallInv, LookupOnlyInv, LookupAddInv, AddInv, MemmoveInv, SetIdInv, SetOffsetInv,
     SetCountInv, MemcpyInv, ListInv DEF Step
<1> QED BY <1>1, <1>2 DEF Next

LEMMA Invariance == OnlyLocked /\ Spec => []DictInv
<1>1. Init /\ OnlyLocked => DictInv
  BY InitInv
<1>2. DictInv /\ [Next]_vars => DictInv'
  BY NextInv
<1> QED BY <1>1, <1>2, PTL DEF Spec

-----------------------------------------------------------------------------
(* What the invariant gives.                                               *)

(* Stores stay within the arrays of the dictionary whatever the order of   *)
(* calls: Add refuses in time.                                             *)
THEOREM TypesCorrect == OnlyLocked /\ Spec => []TypeOK
<1>1. DictInv => TypeOK
  BY DEF DictInv
<1> QED BY <1>1, Invariance, PTL

(* Every process gets the same id for a name, and the id leads back to it. *)
THEOREM OneIdForAName == OnlyLocked /\ Spec => []IdsAgree
<1>1. ASSUME DictInv PROVE IdsAgree
  <2>1. settled \in Nat /\ settled <= count
    <3>1. lock # Nobody => lock \in Procs
      BY <1>1 DEF DictInv, TypeOK
    <3>2. CASE lock # Nobody /\ pc[lock] \in Storing
      <4>1. settled \in Nat /\ count \in Nat /\ (count = settled + 1 \/ count = settled)
        BY <1>1, <3>1, <3>2, Maker
      <4> QED BY <4>1
    <3>3. CASE ~(lock # Nobody /\ pc[lock] \in Storing)
      BY <1>1, <3>3, Sizes DEF DictInv, TypeOK, settled, Storing
    <3> QED BY <3>2, <3>3
  <2>2. Told(settled, str_index, names_storage, ids)
    BY <1>1 DEF DictInv
  <2> DEFINE e == Entries(index, settled, Gap)
  <2>3. InOrder(e, settled, str_index, names_storage, names_used)
    BY <1>1 DEF DictInv, Settled
  <2> HIDE DEF e
  <2>4. ASSUME NEW n \in Names, NEW i \in ids[n]
        PROVE  i \in 0 .. settled - 1 /\ names_storage[str_index[i]] = n
    BY <2>2 DEF Told
  <2>5. ASSUME NEW n \in Names, NEW i \in ids[n], NEW j \in ids[n] PROVE i = j
    <3>1. /\ i \in 0 .. settled - 1 /\ names_storage[str_index[i]] = n
          /\ j \in 0 .. settled - 1 /\ names_storage[str_index[j]] = n
      BY <2>4
    <3>2. settled \in Nat
      BY <2>1
    <3> HIDE DEF settled
    <3> QED BY <2>3, <3>1, <3>2, OneId
  <2>6. count \in Nat
    BY <1>1 DEF DictInv, TypeOK
  <2>7. ASSUME NEW n \in Names, NEW i \in ids[n] PROVE i < count /\ Text(i) = n
    BY <2>1, <2>4, <2>6 DEF Text
  <2> QED BY <2>5, <2>7 DEF IdsAgree
<1> QED BY <1>1, Invariance, PTL

(* Whoever takes the lock finds a sorted index that agrees with str_index, *)
(* every id in it once, and names that lie one behind the other.           *)
THEOREM IndexInOrder == OnlyLocked /\ Spec => []IndexSound
<1>1. ASSUME DictInv, lock = Nobody PROVE IndexSound
  <2> DEFINE e == Entries(index, count, SIZE)
  <2>1. count \in Nat /\ count <= SIZE /\ SIZE \in Nat
        /\ InOrder(e, count, str_index, names_storage, names_used)
    BY <1>1, AtRest, Sizes
  <2>2. \A j \in 0 .. count - 1 : e[j] = index[j]
    BY <2>1 DEF Entries
  <2> HIDE DEF e
  <2>3. \A j, k \in 0 .. count - 1 : j < k => Text(index[j].id) < Text(index[k].id)
    BY <2>1, <2>2 DEF InOrder, Sorted, Text
  <2>4. {index[k].id : k \in 0 .. count - 1} = 0 .. count - 1
    BY <2>1, <2>2 DEF InOrder, EachIdOnce
  <2>5. \A k \in 0 .. count - 1 : index[k].name_offset = str_index[index[k].id]
    BY <2>1, <2>2 DEF InOrder, Offset
  <2>6. \A i \in 0 .. count - 1 :
          str_index[i] + Len[Text(i)] + 1 = IF i + 1 < count THEN str_index[i + 1] ELSE names_used
    BY <2>1 DEF InOrder, Laid, Text
  <2> QED BY <2>3, <2>4, <2>5, <2>6 DEF IndexSound
<1>2. DictInv => IndexSound
  BY <1>1 DEF IndexSound
<1> QED BY <1>2, Invariance, PTL

(* A call that looks before it adds says that there is no such counter     *)
(* only to those for whose name nobody has an id.                          *)
THEOREM RefusedIsUnknown == OnlyLocked /\ Spec => InvalidMeansAbsent
<1> DEFINE Answered(p) == /\ pc[p] \in {"lookup", "lookup_add"} /\ pc'[p] = "idle"
                          /\ answer'[p] = DICTIONARY_INVALID_INDEX
<1>1. ASSUME DictInv, Next, NEW p \in Procs, Answered(p) PROVE ~Known(name[p])
  <2>1. PICK q \in Procs : Step(q)
    BY <1>1 DEF Next
  <2>2. p = q
    <3>1. \E s : pc' = [pc EXCEPT ![q] = s]
      BY <2>1 DEF Step, Call, LookupOnly, LookupAdd, Add, AddTo, Return, Goto, Memmove, SetId,
                  SetOffset, SetCount, Memcpy, GetCategory, DumpNext
    <3> QED BY <1>1, <3>1 DEF DictInv, TypeOK
  <2>3. LookupOnly(p) \/ LookupAdd(p)
    BY <1>1, <2>1, <2>2 DEF Step, Call, Add, Memmove, SetId, SetOffset, SetCount, Memcpy,
                            GetCategory, DumpNext
  <2>4. lock = Nobody /\ name[p] \in Names
    BY <1>1, <2>3, EnterFree DEF LookupOnly, LookupAdd
  <2>5. answer \in [Procs -> Ids \cup {DICTIONARY_INVALID_INDEX}] /\ pc'[p] = "idle"
    BY <1>1 DEF DictInv, TypeOK
  <2>6. ASSUME NEW id, Return(p, id) PROVE id = DICTIONARY_INVALID_INDEX
    BY <1>1, <2>5, <2>6 DEF Return
  <2>7. CASE LookupOnly(p)
    <3>1. PICK id \in Lookup(name[p]) : Return(p, id) \/ pc' = [pc EXCEPT ![p] = "lookup_add"]
      BY <2>7 DEF LookupOnly
    <3>2. Return(p, id)
      BY <1>1, <3>1 DEF DictInv, TypeOK
    <3> QED BY <1>1, <2>4, <2>6, <3>2, Answers DEF Known
  <2>8. CASE LookupAdd(p)
    <3>1. PICK id \in Lookup(name[p]) : id # DICTIONARY_INVALID_INDEX => Return(p, id)
      BY <2>8 DEF LookupAdd
    <3>2. id = DICTIONARY_INVALID_INDEX
      BY <2>6, <3>1
    <3> QED BY <1>1, <2>4, <3>2, Answers DEF Known
  <2> QED BY <2>3, <2>7, <2>8
<1>2. DictInv /\ [Next]_vars =>
        [\A p \in Procs : pc[p] \in {"lookup", "lookup_add"} /\ pc'[p] = "idle"
           /\ answer'[p] = DICTIONARY_INVALID_INDEX => ~Known(name[p])]_vars
  BY <1>1
<1> QED BY <1>2, Invariance, PTL DEF Spec, InvalidMeansAbsent

(* A name once readable at an id stays there, for readers without the lock *)
(* too.                                                                    *)
THEOREM NamesStay == OnlyLocked /\ Spec => NamesForGood
<1>1. ASSUME DictInv, Next, NEW i \in 0 .. count - 1, Text(i) # Empty PROVE Text(i)' = Text(i)
  <2>1. PICK p \in Procs : Step(p)
    BY <1>1 DEF Next
  <2>2. CASE UNCHANGED <<names_storage, str_index>>
    BY <2>2 DEF Text
  <2>3. CASE SetOffset(p)
    <3>1. /\ count \in Nat /\ str_index' = [str_index EXCEPT ![count] = names_used]
          /\ names_storage' = names_storage /\ str_index \in [Ids -> Offsets]
          /\ SIZE \in Nat /\ count <= SIZE
      BY <1>1, <2>3, Sizes DEF DictInv, TypeOK, SetOffset
    <3>2. i # count /\ i \in Ids
      BY <3>1 DEF Ids
    <3> QED BY <3>1, <3>2 DEF Text
  <2>4. CASE Memcpy(p)
    <3>1. /\ str_index' = str_index /\ names_storage' = [names_storage EXCEPT ![names_used] = name[p]]
          /\ pc[p] = "memcpy" /\ pc[p] \in Storing
      BY <2>4 DEF Memcpy, Storing
    <3>2. /\ settled \in Nat /\ settled < SIZE /\ SIZE \in Nat /\ count = settled + 1 /\ lock = p
          /\ lock # Nobody /\ names_used \in Offsets /\ names_used \in Nat
      BY <1>1, <3>1, Maker
    <3>3. Laid(settled, str_index, names_storage, names_used)
      BY <1>1 DEF DictInv, Settled, InOrder
    <3>4. /\ names_storage \in [Offsets -> Names \cup {Empty}] /\ str_index \in [Ids -> Offsets]
          /\ i \in Ids
      BY <1>1, <3>2 DEF DictInv, TypeOK, Ids
    <3>5. str_index[i] # names_used
      <4>1. CASE i = settled
        <5>1. str_index[i] = names_used
          BY <1>1, <3>1, <3>2, <4>1 DEF DictInv, Pending
        <5>2. names_storage[names_used] = Empty
          BY <3>2, <3>3 DEF Laid
        <5> QED BY <1>1, <5>1, <5>2 DEF Text
      <4>2. CASE i # settled
        <5>1. i \in 0 .. settled - 1
          BY <3>2, <4>2
        <5>2. str_index[i] < names_used
          BY <3>3, <5>1 DEF Laid
        <5> QED BY <3>2, <3>4, <5>2 DEF Offsets
      <4> QED BY <4>1, <4>2
    <3> QED BY <3>1, <3>4, <3>5 DEF Text
  <2> QED
    BY <2>1, <2>2, <2>3, <2>4 DEF Step, Call, LookupOnly, LookupAdd, Add, Memmove, SetId, SetCount,
                                  GetCategory, DumpNext, shared
<1>2. DictInv /\ [Next]_vars =>
        [\A i \in 0 .. count - 1 : Text(i) # Empty => Text(i)' = Text(i)]_vars
  BY <1>1
<1> QED BY <1>2, Invariance, PTL DEF Spec, NamesForGood

=============================================================================
