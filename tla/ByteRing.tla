------------------------------ MODULE ByteRing ------------------------------
(***************************************************************************)
(* The ring of bytes (ShmBuffer): memory shared by one that writes and one *)
(* that reads, mapped twice in a row so that no copy needs to turn.        *)
(*                                                                         *)
(* Every operation takes the lock of the object and is one step, but       *)
(* IsEmpty: it compares head and tail without the lock.                    *)
(***************************************************************************)
EXTENDS Integers, Sequences

CONSTANTS
  Size,     (* Bytes of the ring: ShmBufferData::size.  The sizes written   *)
            (* are those up to Size + 1, the sizes read or freed up to Size.*)
  Byte

ASSUME SizeAssumption == Size \in Nat /\ Size >= 2

VARIABLES
  circular_data, head, tail,
  told,      (* what the last Write or Read returned                        *)
  overrun,   (* a Write has run out of the two mappings                     *)
  ask,       (* a call of IsEmpty: who asks, what it has loaded and what of *)
             (* this, and its answer                                        *)
  was        (* history variable: whether, at some moment of this call, the *)
             (* ring was empty, and whether it was not                      *)

ring == <<circular_data, head, tail>>
vars == <<ring, told, overrun, ask, was>>

-----------------------------------------------------------------------------

capacity == Size - 1

data_size == IF head <= tail THEN tail - head ELSE Size - (head - tail)

\* Mutant: the last byte may be filled too.
NoRoomFor_LastByteToo(n) == LET free_size == Size - data_size IN free_size >= 0 /\ free_size < n

(* free_size() < n.  It is a size_t: below zero it is larger than any n.   *)
NoRoomFor(n) ==
  LET free_size == capacity - data_size
  IN  free_size >= 0 /\ free_size < n

(* The mirror.                                                             *)
At(i) == circular_data[IF i < Size THEN i ELSE i - Size]

free(n) == head' = IF head + n >= Size THEN head + n - Size ELSE head + n

(* How far a byte of the ring is from the tail.                            *)
Behind(i) == IF i >= tail THEN i - tail ELSE i + Size - tail

Wrote(n) == [wrote |-> n, got |-> <<>>]
Got(s)   == [wrote |-> 0, got |-> s]

(* Writers and readers that do not wait for an IsEmpty of their own, while *)
(* the lock can be had.                                                    *)
Writing == ask.by # "writer" /\ ~ overrun
Reading == ask.by # "reader" /\ ~ overrun

WriteRefused(d) ==
  /\ Writing
  /\ NoRoomFor(Len(d))
  /\ told' = Wrote(0)
  /\ UNCHANGED <<ring, overrun, ask>>

(* Copied behind the tail, through the mirror where it turns.              *)
WriteCopied(d) ==
  /\ Writing
  /\ ~ NoRoomFor(Len(d))
  /\ tail + Len(d) <= 2 * Size
  /\ circular_data' = [i \in 0 .. Size - 1 |->
       IF Behind(i) < Len(d) THEN d[Behind(i) + 1] ELSE circular_data[i]]
  /\ tail' = IF Size < tail + Len(d) THEN tail + Len(d) - Size ELSE tail + Len(d)
  /\ told' = Wrote(Len(d))
  /\ UNCHANGED <<head, overrun, ask>>

(* The copy runs past the mirror.  The writer dies of it and the lock stays*)
(* taken; if something else is mapped there, that is overwritten, and what *)
(* follows is nothing that this code says.                                 *)
WriteOverruns(d) ==
  /\ Writing
  /\ ~ NoRoomFor(Len(d))
  /\ tail + Len(d) > 2 * Size
  /\ overrun' = TRUE
  /\ UNCHANGED <<ring, told, ask>>

Write(d) == WriteRefused(d) \/ WriteCopied(d) \/ WriteOverruns(d)

(* Read: as many as there are.                                             *)
Read(n) ==
  LET read_size == IF n < data_size THEN n ELSE data_size
  IN  /\ Reading
      /\ told' = Got([k \in 1 .. read_size |-> At(head + k - 1)])
      /\ free(read_size)
      /\ UNCHANGED <<circular_data, tail, overrun, ask>>

(* Free: as many as it is told, there or not.                              *)
Free(n) ==
  /\ Reading
  /\ free(n)
  /\ UNCHANGED <<circular_data, tail, told, overrun, ask>>

-----------------------------------------------------------------------------
(* IsEmpty: two loads, in either order.                                    *)

NotAsked == [by |-> "nobody", loaded |-> "nothing", value |-> 0, answer |-> FALSE]

IsEmpty(p) ==
  /\ ask.by = "nobody"
  /\ overrun => p = "reader"
  /\ \E what \in {"head", "tail"} :
       ask' = [by |-> p, loaded |-> what, value |-> IF what = "head" THEN head ELSE tail,
               answer |-> FALSE]
  /\ UNCHANGED <<ring, told, overrun>>

\* Mutant: the head has caught up with the tail.
Compare_CaughtUp ==
  /\ ask.loaded \in {"head", "tail"}
  /\ ask' = [ask EXCEPT !.loaded = "both",
                        !.answer = IF ask.loaded = "head" THEN ask.value >= tail ELSE head >= ask.value]
  /\ UNCHANGED <<ring, told, overrun>>

Compare ==
  /\ ask.loaded \in {"head", "tail"}
  /\ ask' = [ask EXCEPT !.loaded = "both",
                        !.answer = ask.value = IF ask.loaded = "head" THEN tail ELSE head]
  /\ UNCHANGED <<ring, told, overrun>>

Return ==
  /\ ask.loaded = "both"
  /\ ask' = NotAsked
  /\ UNCHANGED <<ring, told, overrun>>

-----------------------------------------------------------------------------

(* Nothing was left at the seam: the tail stands behind the last byte, and *)
(* the head before the first.                                              *)
DrainedAtSeam == head = 0 /\ tail = Size

Empty == head = tail \/ DrainedAtSeam

Notes ==
  was' = LET from == IF ask.by = "nobody" THEN {} ELSE was
         IN  IF ask'.by = "nobody" THEN {}
             ELSE from \cup (IF Empty' THEN {"empty"} ELSE {"filled"})
                       \cup (IF DrainedAtSeam' THEN {"seam"} ELSE {})

Init ==
  /\ circular_data \in [0 .. Size - 1 -> Byte]
  /\ head = 0 /\ tail = 0
  /\ told = Wrote(0) /\ overrun = FALSE
  /\ ask = NotAsked /\ was = {}

Next ==
  /\ \/ \E n \in 0 .. Size + 1 : \E d \in [1 .. n -> Byte] : Write(d)
     \/ \E n \in 0 .. Size : Read(n) \/ Free(n)
     \/ \E p \in {"reader", "writer"} : IsEmpty(p)
     \/ Compare \/ Return
  /\ Notes

Spec == Init /\ [][Next]_vars

-----------------------------------------------------------------------------
(* Properties.                                                             *)

TypeOK ==
  /\ circular_data \in [0 .. Size - 1 -> Byte]
  /\ head \in 0 .. Size - 1
  /\ tail \in 0 .. Size
  /\ overrun \in BOOLEAN

Content ==
  IF DrainedAtSeam THEN <<>> ELSE [k \in 1 .. data_size |-> At(head + k - 1)]

Queue == INSTANCE ByteQueue WITH content <- Content

(* What no queue does, of a ring that was drained at the seam: it gives the*)
(* last Size bytes once more, and it accepts a write of any size.          *)
SeamMistake ==
  DrainedAtSeam /\ (head' # head \/ told'.got # <<>> \/ told'.wrote >= Size \/ overrun')

FreesTooMuch == \E n \in data_size + 1 .. Size : Free(n)

(* The ring is a queue of bytes: nothing is lost, doubled or out of order, *)
(* across the seam as anywhere, and it takes whatever fits and refuses the *)
(* rest.  There are two ways only to get something else of it: a ring that *)
(* was drained at the seam, and a Free of more bytes than there are.       *)
ActsAsByteQueue ==
  /\ Queue!Init
  /\ [][(Queue!Next /\ UNCHANGED overrun) \/ SeamMistake \/ FreesTooMuch]_<<Content, told, overrun>>

(* Who reads alone, or writes alone, can rely on IsEmpty: what it answers  *)
(* was so at some moment of the call, in whichever order it loads the two; *)
(* but of a ring drained at the seam it says that it is not empty.         *)
EmptyWasTrue ==
  ask.loaded = "both" =>
    IF ask.answer THEN "empty" \in was ELSE was \cap {"filled", "seam"} # {}

=============================================================================
