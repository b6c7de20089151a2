---------------------------- MODULE ShmBufferEx ----------------------------
(***************************************************************************)
(* The shared-memory record queue: ShmBufferExData (the ring that lives in *)
(* the mapped file) and the wrappers of ShmBufferEx that lock it.          *)
(*                                                                         *)
(* Records lie in a ring of BufferSize bytes, each behind a header that    *)
(* holds its size and the size of the record before it.  The ring is mapped*)
(* twice in a row (ShmBase::OpenMirror), so a record may run across the    *)
(* seam.  head and tail are offsets in the ring; head + head_offset and    *)
(* tail + tail_offset are the virtual positions (vptr) which readers keep. *)
(*                                                                         *)
(* A byte of the ring is modelled by the record it was written for: the    *)
(* number of the message, the byte's offset in the record, and the two     *)
(* header fields.  What the payload says is left out.                      *)
(*                                                                         *)
(* Every operation runs under the mutex of the header, and is one action,  *)
(* with two exceptions that other processes can see: the test of count that*)
(* Pop and Get make before they lock, and the loop of a drop_old push,     *)
(* which changes count once per dropped record.                            *)
(***************************************************************************)
EXTENDS Integers

CONSTANTS
  BufferSize,    (* Bytes in the ring.                                      *)
  HeaderSize,    (* sizeof(ShmBufferRecord).                                *)
  RecordSizes,   (* Sizes of the records pushed, header included.           *)
  MaxSizes,      (* max_size arguments: room in the caller's buffer.        *)
  SizeModulus,   (* Number of values of a size_t.                           *)
  Producers,     (* Processes that Push.                                    *)
  Consumers,     (* Processes that Pop.                                     *)
  Followers,     (* Processes that call Get(reader_index, ...).             *)
  Cursors,       (* Processes that hold a position of their own.            *)
  Updaters,      (* Processes that call UpdateCounters.                     *)
  Readers,       (* Indices of the reader[] slots, 0 .. MaxReaderCount - 1. *)
  Behaviors,     (* (on_overflow, drop_is_ok) pairs a process may set.      *)
  Nobody,        (* Owner of the mutex when it is free.                     *)
  MaxMessages,   (* Bound on the records ever stored.                       *)
  MaxDrops       (* Bound on the records ever dropped.                      *)

Overflow == {"return_error", "drop_new", "drop_old"}

Procs == Producers \union Consumers \union Followers \union Cursors \union Updaters

ASSUME SizesAssumption ==
  /\ BufferSize \in Nat \ {0, 1}
  /\ HeaderSize \in Nat \ {0}
  /\ RecordSizes \subseteq Nat
  /\ \A s \in RecordSizes : s >= HeaderSize
  /\ MaxSizes \subseteq Nat
  /\ SizeModulus \in Nat
  /\ SizeModulus > 2 * BufferSize
  /\ \A s \in RecordSizes : s + BufferSize < SizeModulus

ASSUME UsersAssumption ==
  /\ Nobody \notin Procs
  /\ Behaviors \subseteq Overflow \X BOOLEAN
  /\ MaxMessages \in Nat
  /\ MaxDrops \in Nat

VARIABLES
  mem,                (* circular_data                                       *)
  head, tail,         (* offsets in the ring                                 *)
  head_offset, tail_offset,
  last_record_size,   (* size of the newest record                           *)
  count,              (* records in the queue                                *)
  total_count,        (* records ever stored: the number of the next one     *)
  total_drop_count, total_error_count,
  tmp_count, tmp_volume,            (* stored since the last UpdateCounters  *)
  tmp_drop_count, tmp_drop_volume,  (* dropped since the last UpdateCounters *)
  on_overflow, drop_is_ok,
  drifted,            (* history variable: errors that the history is told   *)
                      (* of and total_error_count is not, less those that    *)
                      (* total_error_count has and the history never gets    *)
  reader,             (* reader[]: position and bytes lost of each slot      *)
  mutex,              (* owner of the lock between the steps of a push       *)
  need,               (* rec_size of the push that owns the lock             *)
  pc,                 (* per process: which operation it is in               *)
  cursor,             (* position held by each of the Cursors                *)
  message_history, drop_history, error_history,  (* totals handed to         *)
                      (* the history counters "message", "drop", "error"     *)
  gauge,              (* counters "count", "used_bp", "used", "capacity"     *)
  seen                (* history variable: per reader slot, the number of    *)
                      (* the message after the last one it was past, and the *)
                      (* bytes it received                                   *)

places   == <<head, tail, head_offset, tail_offset>>
ring     == <<mem, places, last_record_size, count, total_count>>
drops    == <<total_drop_count, total_error_count, tmp_drop_count, tmp_drop_volume>>
policy   == <<on_overflow, drop_is_ok, drifted>>
history  == <<message_history, drop_history, error_history>>
vars     == <<ring, drops, tmp_count, tmp_volume, policy, reader, mutex, need, pc,
              cursor, history, gauge, seen>>

-----------------------------------------------------------------------------
(* Layout of the ring.                                                     *)

Addresses == 0 .. BufferSize - 1

(* The mirror: address a of the double mapping is a byte of the ring.      *)
Mirror(a) == IF a < BufferSize THEN a ELSE a - BufferSize

Bytes == [msg : Nat, off : Nat, size : Nat, prev : Nat]

Blank == [msg |-> 0, off |-> 0, size |-> 0, prev |-> 0]

\* Mutant: the byte that tells a full ring from an empty one is used.
capacity_Full == BufferSize

capacity == BufferSize - 1

data_size == IF head <= tail THEN tail - head ELSE BufferSize - (head - tail)

(* capacity() - data_size() in size_t: below zero it wraps around.         *)
free_size ==
  IF data_size <= capacity THEN capacity - data_size
                           ELSE SizeModulus + capacity - data_size

get_used_bp == (data_size * 10000) \div capacity

is_empty == head = tail

GetBeginVptr == head + head_offset
GetEndVptr   == tail + tail_offset
GetLastVptr  == tail + tail_offset - last_record_size

(* The byte at a virtual position, reached as getRecord reaches it.        *)
getRecord(vptr) == mem[Mirror(vptr - head_offset)]

getFirstRecord == mem[Mirror(head)]

\* Mutant: the header is forgotten.
GetNextVptr_NoHeader(pos) ==
  CASE pos < GetBeginVptr -> GetBeginVptr
    [] pos >= GetEndVptr  -> GetEndVptr
    [] OTHER              -> pos + getRecord(pos).size - HeaderSize

GetNextVptr(pos) ==
  CASE pos < GetBeginVptr -> GetBeginVptr
    [] pos >= GetEndVptr  -> GetEndVptr
    [] OTHER              -> pos + getRecord(pos).size

\* Mutant: steps back by the record's own size.
GetPrevVptr_OwnSize(pos) ==
  IF pos <= GetBeginVptr THEN -1
  ELSE CASE pos > GetEndVptr -> GetEndVptr
         [] pos = GetEndVptr -> pos - last_record_size
         [] OTHER            -> pos - getRecord(pos).size

GetPrevVptr(pos) ==
  IF pos <= GetBeginVptr THEN -1
  ELSE CASE pos > GetEndVptr -> GetEndVptr
         [] pos = GetEndVptr -> pos - last_record_size
         [] OTHER            -> pos - getRecord(pos).prev

\* Mutant: the head wraps when the tail does.
free_head_Late(n) ==
  IF head + n > BufferSize
  THEN /\ head' = head + n - BufferSize
       /\ head_offset' = head_offset + BufferSize
  ELSE /\ head' = head + n
       /\ UNCHANGED head_offset

(* free_head: the head wraps as soon as it reaches the end of the ring ... *)
free_head(n) ==
  IF head + n >= BufferSize
  THEN /\ head' = head + n - BufferSize
       /\ head_offset' = head_offset + BufferSize
  ELSE /\ head' = head + n
       /\ UNCHANGED head_offset

\* Mutant: a turn of the ring is not added to the offset.
commit_NoOffset(n) ==
  /\ tail' = IF BufferSize < tail + n THEN tail + n - BufferSize ELSE tail + n
  /\ UNCHANGED tail_offset

(* ... but commit lets the tail stand at BufferSize.                       *)
commit(n) ==
  IF BufferSize < tail + n
  THEN /\ tail' = tail + n - BufferSize
       /\ tail_offset' = tail_offset + BufferSize
  ELSE /\ tail' = tail + n
       /\ UNCHANGED tail_offset

-----------------------------------------------------------------------------
(* Push.  Wrapper and body, from taking the lock to releasing it.          *)

(* How far address a lies behind the tail.                                 *)
FromTail(a) == IF a >= tail THEN a - tail ELSE a + BufferSize - tail

(* The new record is written at the tail and committed; count and the      *)
(* counters of stored records follow.                                      *)
Store(s) ==
  /\ total_count < MaxMessages
  /\ mem' = [a \in Addresses |->
               IF FromTail(a) < s
               THEN [msg |-> total_count, off |-> FromTail(a), size |-> s,
                     prev |-> IF count # 0 THEN last_record_size ELSE 0]
               ELSE mem[a]]
  /\ last_record_size' = s
  /\ commit(s)
  /\ count' = count + 1
  /\ total_count' = total_count + 1
  /\ tmp_count' = tmp_count + 1
  /\ tmp_volume' = tmp_volume + s
  /\ UNCHANGED <<head, head_offset, drops>>

(* A record of n bytes is given up: by drop_new the one being pushed, by   *)
(* drop_old the oldest.                                                    *)
CountDrop(n) ==
  /\ tmp_drop_count' = tmp_drop_count + 1
  /\ tmp_drop_volume' = tmp_drop_volume + n
  /\ total_drop_count' = total_drop_count + 1
  /\ total_error_count' = IF drop_is_ok THEN total_error_count ELSE total_error_count + 1

\* Mutant: the record is counted as dropped and stays where it is.
dropFirstRecord_HeadStays ==
  /\ CountDrop(getFirstRecord.size)
  /\ count' = count - 1
  /\ UNCHANGED <<mem, places, last_record_size, total_count, tmp_count, tmp_volume>>

dropFirstRecord ==
  /\ CountDrop(getFirstRecord.size)
  /\ count' = count - 1
  /\ free_head(getFirstRecord.size)
  /\ UNCHANGED <<mem, tail, tail_offset, last_record_size, total_count, tmp_count, tmp_volume>>

\* There is room at once.
PushFits(p, s) ==
  /\ mutex = Nobody
  /\ pc[p] = "idle"
  /\ free_size >= s
  /\ Store(s)
  /\ UNCHANGED <<policy, reader, mutex, need, pc, cursor, history, gauge, seen>>

\* No room, return_error: the caller is told and nothing changes.
PushRefused(p, s) ==
  /\ mutex = Nobody
  /\ pc[p] = "idle"
  /\ free_size < s
  /\ on_overflow = "return_error"
  /\ UNCHANGED vars

\* No room, drop_new: the push is said to succeed and the record is dropped.
PushDropNew(p, s) ==
  /\ mutex = Nobody
  /\ pc[p] = "idle"
  /\ free_size < s
  /\ on_overflow = "drop_new"
  /\ total_drop_count < MaxDrops
  /\ CountDrop(s)
  /\ UNCHANGED <<ring, tmp_count, tmp_volume, policy, reader, mutex, need, pc,
                 cursor, history, gauge, seen>>

\* No room, drop_old: the loop of dropFirstRecords begins, under the lock.
PushDropOld(p, s) ==
  /\ mutex = Nobody
  /\ pc[p] = "idle"
  /\ free_size < s
  /\ on_overflow = "drop_old"
  /\ total_drop_count + count <= MaxDrops
  /\ total_count < MaxMessages
  /\ mutex' = p
  /\ need' = s
  /\ pc' = [pc EXCEPT ![p] = "dropping"]
  /\ UNCHANGED <<ring, drops, tmp_count, tmp_volume, policy, reader, cursor,
                 history, gauge, seen>>

\* One turn of the loop.
PushDropFirst(p) ==
  /\ pc[p] = "dropping"
  /\ free_size < need
  /\ ~is_empty
  /\ dropFirstRecord
  /\ UNCHANGED <<policy, reader, mutex, need, pc, cursor, history, gauge, seen>>

\* Mutant: an early return without the unlock.
Release_KeepsLock(p) ==
  /\ need' = 0
  /\ pc' = [pc EXCEPT ![p] = "idle"]
  /\ UNCHANGED mutex

Release(p) ==
  /\ mutex' = Nobody
  /\ need' = 0
  /\ pc' = [pc EXCEPT ![p] = "idle"]

\* The loop made room.
PushAfterDrop(p) ==
  /\ pc[p] = "dropping"
  /\ free_size >= need
  /\ Store(need)
  /\ Release(p)
  /\ UNCHANGED <<policy, reader, cursor, history, gauge, seen>>

\* Mutant: the loop goes on when there is nothing left to drop.
PushTooLarge_Spins(p) ==
  /\ pc[p] = "dropping"
  /\ free_size < need
  /\ is_empty
  /\ UNCHANGED vars

\* The loop emptied the queue and there is still no room: Push returns false.
PushTooLarge(p) ==
  /\ pc[p] = "dropping"
  /\ free_size < need
  /\ is_empty
  /\ Release(p)
  /\ UNCHANGED <<ring, drops, tmp_count, tmp_volume, policy, reader, cursor,
                 history, gauge, seen>>

dropFirstRecords(p) == PushDropFirst(p) \/ PushAfterDrop(p) \/ PushTooLarge(p)

Push(p) ==
  \/ \E s \in RecordSizes : \/ PushFits(p, s)
                            \/ PushRefused(p, s)
                            \/ PushDropNew(p, s)
                            \/ PushDropOld(p, s)
  \/ dropFirstRecords(p)

-----------------------------------------------------------------------------
(* Pop and the three Gets.  Each reads count without the lock; zero is     *)
(* answered at once and changes nothing.                                   *)

Enter(p, operation) ==
  /\ pc[p] = "idle"
  /\ count # 0
  /\ pc' = [pc EXCEPT ![p] = operation]
  /\ UNCHANGED <<ring, drops, tmp_count, tmp_volume, policy, reader, mutex, need,
                 cursor, history, gauge, seen>>

Leave(p, operation) ==
  /\ mutex = Nobody
  /\ pc[p] = operation
  /\ pc' = [pc EXCEPT ![p] = "idle"]
  /\ UNCHANGED <<mutex, need, mem, tail, tail_offset, last_record_size, total_count,
                 drops, tmp_count, tmp_volume, policy, history, gauge>>

(* The answer to the unlocked test when count is zero: false, at once.      *)
ReturnEmpty(p) ==
  /\ pc[p] = "idle"
  /\ count = 0
  /\ UNCHANGED vars

DataSize(r) == r.size - HeaderSize

\* Mutant: the unlocked test of count is trusted.
Pop_Trusting(p, max_size, delete_record) ==
  /\ Leave(p, "pop")
  /\ IF DataSize(getFirstRecord) <= max_size /\ delete_record
     THEN /\ free_head(getFirstRecord.size)
          /\ count' = count - 1
     ELSE UNCHANGED <<head, head_offset, count>>
  /\ UNCHANGED <<reader, cursor, seen>>

\* Under the lock: the queue may be empty by now, or the caller's room too
\* small; otherwise the oldest record is copied, and taken if asked to.
Pop(p, max_size, delete_record) ==
  /\ Leave(p, "pop")
  /\ IF count # 0 /\ DataSize(getFirstRecord) <= max_size /\ delete_record
     THEN /\ free_head(getFirstRecord.size)
          /\ count' = count - 1
     ELSE UNCHANGED <<head, head_offset, count>>
  /\ UNCHANGED <<reader, cursor, seen>>

\* Mutant: an overrun reader is moved to the newest record.
CatchUp_Newest(pos) == IF pos < GetBeginVptr THEN GetLastVptr ELSE pos

(* Where a position that may have been overrun is moved to ...             *)
CatchUp(pos) == IF pos < GetBeginVptr THEN GetBeginVptr ELSE pos

\* Mutant: the move is not counted.
LostUpTo_Silent(i) == reader[i].lost

(* ... and the slot's lost bytes when they count what the move passed over.*)
LostUpTo(i) == reader[i].lost + (CatchUp(reader[i].pos) - reader[i].pos)

\* Get(reader_index): a slot of the ring moves by one record, delivered if
\* it fits in max_size and counted as lost otherwise.
GetByIndex(p, i, max_size) ==
  LET pos  == CatchUp(reader[i].pos)
      rec  == getRecord(pos)
      fits == DataSize(rec) <= max_size
      lost == LostUpTo(i)
  IN  /\ Leave(p, "get")
      /\ IF count = 0
         THEN UNCHANGED <<reader, seen>>
         ELSE IF pos > GetLastVptr
         THEN /\ reader' = [reader EXCEPT ![i] = [pos |-> pos, lost |-> lost]]
              /\ UNCHANGED seen
         ELSE /\ reader' = [reader EXCEPT ![i] =
                              [pos  |-> GetNextVptr(pos),
                               lost |-> IF fits THEN lost ELSE lost + DataSize(rec)]]
              /\ seen' = [seen EXCEPT ![i] =
                            [next |-> rec.msg + 1,
                             got  |-> @.got + IF fits THEN rec.size ELSE HeaderSize]]
      /\ UNCHANGED <<head, head_offset, count, cursor>>

\* Get(pos, lost): the same with a position of the caller's.
GetLost(p, max_size) ==
  LET pos == CatchUp(cursor[p])
  IN  /\ Leave(p, "get_lost")
      /\ cursor' = [cursor EXCEPT ![p] =
                      CASE count = 0         -> @
                        [] pos > GetLastVptr -> pos
                        [] OTHER             -> GetNextVptr(pos)]
      /\ UNCHANGED <<head, head_offset, count, reader, seen>>

\* Get(pos, dir): no catching up, the whole record size is held against
\* max_size, and the position moves either way or stays.
GetDirection(p, direction, max_size) ==
  LET pos == cursor[p]
  IN  /\ Leave(p, "get_direction")
      /\ cursor' = [cursor EXCEPT ![p] =
                      IF \/ count = 0
                         \/ pos < GetBeginVptr
                         \/ pos > GetLastVptr
                         \/ getRecord(pos).size > max_size
                      THEN @
                      ELSE CASE direction = "next" -> GetNextVptr(pos)
                             [] direction = "prev" -> GetPrevVptr(pos)
                             [] direction = "none" -> pos]
      /\ UNCHANGED <<head, head_offset, count, reader, seen>>

\* A caller takes a position from the public getters (each of them locks).
Seek(p) ==
  /\ mutex = Nobody
  /\ pc[p] = "idle"
  /\ \E pos \in {GetBeginVptr, GetLastVptr, GetEndVptr,
                 GetNextVptr(cursor[p]), GetPrevVptr(cursor[p])} :
       cursor' = [cursor EXCEPT ![p] = pos]
  /\ UNCHANGED <<ring, drops, tmp_count, tmp_volume, policy, reader, mutex, need, pc,
                 history, gauge, seen>>

-----------------------------------------------------------------------------
(* UpdateCounters and SetOverflovBehavior.                                 *)

\* The four gauges are read and published one after the other: count
\* without the lock, the others each under a lock of its own.
Publish(p, from, to, name, value) ==
  /\ pc[p] = from
  /\ pc' = [pc EXCEPT ![p] = to]
  /\ gauge' = [gauge EXCEPT ![name] = value]
  /\ UNCHANGED <<ring, drops, tmp_count, tmp_volume, policy, reader, mutex, need,
                 cursor, history, seen>>

\* Mutant: a batch replaces what was there.
AddBatch_Replace(history_counter, n, volume) == [count |-> n, volume |-> volume]

AddBatch(history_counter, n, volume) ==
  [count |-> history_counter.count + n, volume |-> history_counter.volume + volume]

\* Mutant: the drops are handed on as errors whatever drop_is_ok says.
TransferDrops_AllErrors ==
  /\ drop_history' = AddBatch(drop_history, tmp_drop_count, tmp_drop_volume)
  /\ error_history' = AddBatch(error_history, tmp_drop_count, tmp_drop_volume)

TransferDrops ==
  /\ drop_history' = AddBatch(drop_history, tmp_drop_count, tmp_drop_volume)
  /\ error_history' = IF drop_is_ok THEN error_history
                      ELSE AddBatch(error_history, tmp_drop_count, tmp_drop_volume)

\* TransferDrops and TransferMsg, under one lock.
Transfer(p) ==
  /\ mutex = Nobody
  /\ pc[p] = "transfer"
  /\ pc' = [pc EXCEPT ![p] = "idle"]
  /\ TransferDrops
  /\ message_history' = AddBatch(message_history, tmp_count, tmp_volume)
  /\ tmp_drop_count' = 0
  /\ tmp_drop_volume' = 0
  /\ tmp_count' = 0
  /\ tmp_volume' = 0
  /\ UNCHANGED <<ring, total_drop_count, total_error_count, policy, reader, mutex,
                 need, cursor, gauge, seen>>

UpdateCounters(p) ==
  \/ Publish(p, "idle", "used_bp", "count", count)
  \/ mutex = Nobody /\ Publish(p, "used_bp", "used", "used_bp", get_used_bp)
  \/ mutex = Nobody /\ Publish(p, "used", "capacity", "used", data_size)
  \/ mutex = Nobody /\ Publish(p, "capacity", "transfer", "capacity", capacity)
  \/ Transfer(p)

(* The drops that the next Transfer hands on as errors.                    *)
PendingErrors(ok) == IF ok THEN 0 ELSE tmp_drop_count

SetOverflovBehavior(d, ok) ==
  /\ mutex = Nobody
  /\ on_overflow' = d
  /\ drop_is_ok' = ok
  /\ drifted' = drifted + PendingErrors(ok) - PendingErrors(drop_is_ok)
  /\ UNCHANGED <<ring, drops, tmp_count, tmp_volume, reader, mutex, need, pc, cursor,
                 history, gauge, seen>>

-----------------------------------------------------------------------------
(* ShmBufferExData::Init in a file that ftruncate filled with zeros (which *)
(* is where drop_is_ok comes from).                                        *)
Init ==
  /\ mem = [a \in Addresses |-> Blank]
  /\ head = 0 /\ tail = 0 /\ head_offset = 0 /\ tail_offset = 0
  /\ last_record_size = 0
  /\ count = 0 /\ total_count = 0
  /\ total_drop_count = 0 /\ total_error_count = 0
  /\ tmp_count = 0 /\ tmp_volume = 0
  /\ tmp_drop_count = 0 /\ tmp_drop_volume = 0
  /\ on_overflow = "return_error" /\ drop_is_ok = FALSE /\ drifted = 0
  /\ reader = [i \in Readers |-> [pos |-> 0, lost |-> 0]]
  /\ mutex = Nobody /\ need = 0
  /\ pc = [p \in Procs |-> "idle"]
  /\ cursor = [p \in Cursors |-> 0]
  /\ message_history = [count |-> 0, volume |-> 0]
  /\ drop_history = [count |-> 0, volume |-> 0]
  /\ error_history = [count |-> 0, volume |-> 0]
  /\ gauge = [count |-> 0, used_bp |-> 0, used |-> 0, capacity |-> 0]
  /\ seen = [i \in Readers |-> [next |-> 0, got |-> 0]]

Next ==
  \/ \E p \in Producers : Push(p)
  \/ \E p \in Consumers \union Followers \union Cursors : ReturnEmpty(p)
  \/ \E p \in Consumers : Enter(p, "pop")
  \/ \E p \in Consumers, m \in MaxSizes, d \in BOOLEAN : Pop(p, m, d)
  \/ \E p \in Followers : Enter(p, "get")
  \/ \E p \in Followers, i \in Readers, m \in MaxSizes : GetByIndex(p, i, m)
  \/ \E p \in Cursors : Enter(p, "get_lost") \/ Enter(p, "get_direction") \/ Seek(p)
  \/ \E p \in Cursors, m \in MaxSizes :
       \/ GetLost(p, m)
       \/ \E direction \in {"none", "next", "prev"} : GetDirection(p, direction, m)
  \/ \E p \in Updaters : UpdateCounters(p)
  \/ \E b \in Behaviors : SetOverflovBehavior(b[1], b[2])

Spec == Init /\ [][Next]_vars

(* A process that holds the lock is scheduled again some time: it neither  *)
(* crashes nor waits for anything inside the loop.                         *)
FairSpec == Spec /\ \A p \in Producers : WF_vars(dropFirstRecords(p))

-----------------------------------------------------------------------------
(* Properties.                                                             *)

(* Every variable has its type: head stays inside the ring, tail may stand *)
(* at its end, positions and counters are integers of the right sign.      *)
TypeOK ==
  /\ mem \in [Addresses -> Bytes]
  /\ head \in Addresses
  /\ tail \in 0 .. BufferSize
  /\ head_offset \in Nat /\ tail_offset \in Nat
  /\ last_record_size \in Nat
  /\ count \in Nat /\ total_count \in Nat
  /\ total_drop_count \in Nat /\ total_error_count \in Nat
  /\ tmp_count \in Nat /\ tmp_volume \in Nat
  /\ tmp_drop_count \in Nat /\ tmp_drop_volume \in Nat
  /\ on_overflow \in Overflow /\ drop_is_ok \in BOOLEAN /\ drifted \in Int
  /\ reader \in [Readers -> [pos : Nat, lost : Nat]]
  /\ mutex \in Procs \union {Nobody}
  /\ need \in RecordSizes \union {0}
  /\ pc \in [Procs -> {"idle", "dropping", "pop", "get", "get_lost", "get_direction",
                       "used_bp", "used", "capacity", "transfer"}]
  /\ cursor \in [Cursors -> Int]
  /\ message_history \in [count : Nat, volume : Nat]
  /\ drop_history \in [count : Nat, volume : Nat]
  /\ error_history \in [count : Nat, volume : Nat]
  /\ gauge \in [count : Nat, used_bp : Nat, used : Nat, capacity : Nat]
  /\ seen \in [Readers -> [next : Nat, got : Nat]]

(* The process in the loop of a drop_old push is the owner of the lock, and*)
(* has a record to store.                                                  *)
LoopHoldsMutex ==
  /\ \A p \in Procs : pc[p] = "dropping" <=> mutex = p
  /\ mutex # Nobody => need \in RecordSizes

(* What a caller must keep to: every record fits in the empty queue.       *)
RecordsFit == \A s \in RecordSizes : s <= capacity

(* What the queue holds, by virtual position, and where records begin.     *)
Live == GetBeginVptr .. GetEndVptr - 1
contents == [v \in Live |-> getRecord(v)]
Starts(q) == {v \in DOMAIN q : q[v].off = 0}

(* The ring never holds more than capacity() bytes.                        *)
NeverOverfull == GetEndVptr - GetBeginVptr <= capacity

(* head and tail are at most one turn of the ring apart.  The one state in *)
(* which the offsets run the other way is the drained queue whose tail was *)
(* left standing at the seam.                                              *)
Placement ==
  /\ GetBeginVptr <= GetEndVptr
  /\ NeverOverfull
  /\ \/ tail_offset = head_offset
     \/ tail_offset = head_offset + BufferSize
     \/ /\ tail_offset = head_offset - BufferSize
        /\ head = 0
        /\ tail = BufferSize

(* In the bytes q between the positions b and e, the record at v is whole  *)
(* and linked both ways: its bytes follow its header in order, behind them *)
(* is the end or the header of the next message, and prev_record_size      *)
(* leads back to the header before.                                        *)
WholeAt(q, b, e, v) ==
  LET r == q[v]
  IN  /\ r.size \in RecordSizes
      /\ v + r.size <= e
      /\ \A k \in 0 .. r.size - 1 :
           q[v + k] = [msg |-> r.msg, off |-> k, size |-> r.size, prev |-> r.prev]
      /\ v + r.size < e => /\ q[v + r.size].off = 0
                           /\ q[v + r.size].msg = r.msg + 1
      /\ v > b => /\ v - r.prev \in Starts(q)
                  /\ q[v - r.prev].size = r.prev

(* n records are chained from b to e; the last one has size l and begins l *)
(* before the end.                                                         *)
Chained(q, b, e, n, l) ==
  /\ n = 0 <=> b = e
  /\ n # 0 => /\ b \in Starts(q)
              /\ e - l \in Starts(q)
              /\ q[e - l].size = l
  /\ \A v \in Starts(q) : WholeAt(q, b, e, v)

(* The records from b to e are the last n of the t messages stored, in     *)
(* order.                                                                  *)
Numbered(q, b, e, n, t) ==
  /\ n # 0 => q[b].msg = t - n
  /\ \A v \in Starts(q) :
       /\ q[v].msg < t
       /\ v + q[v].size = e => q[v].msg = t - 1
  /\ \A v, w \in Starts(q) : v < w => q[v].msg < q[w].msg

(* No record in the queue is overwritten in part, cut, or cut off from its *)
(* neighbours, and GetLastVptr is the newest one.                          *)
RecordsWhole == Chained(contents, GetBeginVptr, GetEndVptr, count, last_record_size)

(* The queue holds the newest count messages, the oldest first.            *)
OldestFirst == Numbered(contents, GetBeginVptr, GetEndVptr, count, total_count)

(* A reader or a cursor that has not been overrun stands on a header or at *)
(* the end: no Get ever reads a header out of the middle of a record.      *)
Aligned(pos) == pos < GetBeginVptr \/ pos = GetEndVptr \/ pos \in Starts(contents)

PositionsAligned ==
  /\ \A i \in Readers : Aligned(reader[i].pos)
  /\ \A p \in Cursors : Aligned(cursor[p])

(* A slot's position is what was delivered plus what was counted as lost.  *)
LossesAccounted ==
  \A i \in Readers : reader[i].pos = seen[i].got + reader[i].lost

(* A slot never delivers a message twice or out of order, and passes over  *)
(* messages only when lost says so.                                        *)
NoSilentGap ==
  [][\A i \in Readers : seen'[i].next # seen[i].next =>
       /\ seen'[i].next > seen[i].next
       /\ seen'[i].next > seen[i].next + 1 => reader'[i].lost > reader[i].lost]_vars

(* Whatever leaves the queue, by Pop or by drop_old, is the oldest record, *)
(* as a whole.                                                             *)
OldestLeaves ==
  [][GetBeginVptr' # GetBeginVptr =>
       /\ count' = count - 1
       /\ getFirstRecord.msg = total_count - count
       /\ GetBeginVptr' = GetBeginVptr + getFirstRecord.size]_vars

(* Between the totals, the histories and what is still to be handed over,  *)
(* no message, dropped record or byte is counted twice or forgotten.  The  *)
(* bytes stored are the position of the end of the queue.                  *)
TransfersExact ==
  /\ message_history.count + tmp_count = total_count
  /\ message_history.volume + tmp_volume = GetEndVptr
  /\ drop_history.count + tmp_drop_count = total_drop_count
  /\ error_history.count <= drop_history.count

(* total_error_count and the error history count the same drops, with      *)
(* drop_is_ok set or not, except for those that were counted under one     *)
(* drop_is_ok and still to be handed over when it was changed: these are on*)
(* one side only for good, and no others are.                              *)
ErrorsExact ==
  total_error_count + drifted = error_history.count + PendingErrors(drop_is_ok)

(* An unlocked look between two operations sees an empty ring when there is*)
(* no record in it.                                                        *)
DrainedIsEmpty == mutex = Nobody /\ count = 0 => is_empty /\ data_size = 0

(* A push that drops old records returns and gives the lock back, even when*)
(* the record will not fit when all of them are gone.                      *)
PushReturns == \A p \in Producers : pc[p] = "dropping" ~> mutex = Nobody

(* The ring implements the message queue: whatever is stored, popped,      *)
(* dropped and read, in whatever order processes take the lock.            *)
MessagesOf(q) == {[number |-> q[v].msg, size |-> q[v].size] : v \in Starts(q)}

Queue == INSTANCE MessageQueue
           WITH Sizes <- RecordSizes, Slots <- Readers,
                records <- MessagesOf(contents),
                next    <- total_count,
                at      <- [i \in Readers |-> seen[i].next]

ImplementsQueue == Queue!Spec

=============================================================================
