--------------------------- MODULE HistoryCounter ---------------------------
(***************************************************************************)
(* One history counter in shared memory (HistoryCounterData): totals since *)
(* the last Clear, and a ring of one slot per second from which it answers *)
(* for the last whole second and for the last HistorySize seconds.         *)
(*                                                                         *)
(* No timer turns the ring.  Every call but the totals and GetInfo first   *)
(* brings it up to the clock (update), under the counter's own lock; the   *)
(* dumps take that lock once for each number that they print.              *)
(***************************************************************************)
EXTENDS Integers, Folds

CONSTANTS
  HistorySize, (* Seconds the interval goes back.                           *)
  Batches,     (* What a call may add, [count, summ].                       *)
  Dumpers,     (* Processes that dump the counter.                          *)
  Clears,      (* Whether anybody calls Clear.                              *)
  MaxGap,      (* Longest time, in seconds, between two updates.            *)
  MaxTime,     (* Bound on the clock.                                       *)
  MaxCount     (* Bound on the events counted.                              *)

Sums == [count : Nat, summ : Nat]

ASSUME HistoryAssumption ==
  /\ HistorySize \in Nat \ {0}
  /\ Batches \subseteq Sums
  /\ Clears \in BOOLEAN
  /\ MaxGap \in Nat \ {0} /\ MaxTime \in Nat /\ MaxCount \in Nat

VARIABLES
  clock,        (* getClockMs() / 1000                                      *)
  recs,         (* a slot per second, current_rec % (HistorySize + 1)       *)
  current_rec,  (* the second that the ring stands at                       *)
  rec_index,    (* its slot                                                 *)
  interval,     (* interval_count, interval_summ                            *)
  total,        (* total_count, total_summ                                  *)
  dump,         (* per dumper: how many numbers it has read, those of the   *)
                (* interval and the total (not the last second), and        *)
                (* whether the counter was cleared meanwhile                *)
  added,        (* history variable: per second of the clock, what was      *)
                (* added since the last Clear                               *)
  abandoned     (* history variable: since the last Clear there was a time, *)
                (* longer than the interval, when nobody called             *)

vars == <<clock, recs, current_rec, rec_index, interval, total, dump, added, abandoned>>

Slots == 0 .. HistorySize
Zero  == [count |-> 0, summ |-> 0]

Plus(a, b)  == [count |-> a.count + b.count, summ |-> a.summ + b.summ]
Minus(a, b) == [count |-> a.count - b.count, summ |-> a.summ - b.summ]

(* The sum of f over the members of S.                                     *)
SumOver(f, S) ==
  MapThenFoldSet(Plus, Zero, LAMBDA x : f[x], LAMBDA T : CHOOSE x \in T : TRUE, S)

SlotOf(second) == second % (HistorySize + 1)

-----------------------------------------------------------------------------
(* update, as the state that it leads to.                                  *)

\* The last update was so long ago that nothing of the interval is left.
\* rec_index stays where it was.
updateLate ==
  [recs |-> [i \in Slots |-> Zero], interval |-> Zero,
   current_rec |-> clock, rec_index |-> rec_index]

\* Mutant: the seconds passed leave the interval and stay in their slots.
updateStep_KeepsSlots ==
  LET passed == {SlotOf(s) : s \in current_rec + 1 .. clock}
  IN  [recs        |-> recs,
       interval    |-> Minus(interval, SumOver(recs, passed)),
       current_rec |-> clock,
       rec_index   |-> SlotOf(clock)]

\* Mutant: the slots are cleared and stay in the interval.
updateStep_KeepsInterval ==
  LET passed == {SlotOf(s) : s \in current_rec + 1 .. clock}
  IN  [recs        |-> [i \in Slots |-> IF i \in passed THEN Zero ELSE recs[i]],
       interval    |-> interval,
       current_rec |-> clock,
       rec_index   |-> SlotOf(clock)]

(* Second by second: the slot is taken out of the interval and cleared.    *)
updateStep ==
  LET passed == {SlotOf(s) : s \in current_rec + 1 .. clock}
  IN  [recs        |-> [i \in Slots |-> IF i \in passed THEN Zero ELSE recs[i]],
       interval    |-> Minus(interval, SumOver(recs, passed)),
       current_rec |-> clock,
       rec_index   |-> IF clock = current_rec THEN rec_index ELSE SlotOf(clock)]

update == IF clock - current_rec > HistorySize THEN updateLate ELSE updateStep

\* Mutant: the slot of the second that is still running.
lastSlot_Current(index) == index

(* The slot of the second before.                                          *)
lastSlot(index) == IF index = 0 THEN HistorySize ELSE index - 1

(* What the getters answer.                                                *)
GetLast     == update.recs[lastSlot(update.rec_index)]
GetInterval == update.interval

(* What GetInfo tells of the ring: it does not update.                     *)
GetInfo == [last |-> recs[lastSlot(rec_index)], interval |-> interval]

-----------------------------------------------------------------------------
(* The calls.                                                              *)

Updated ==
  /\ recs' = update.recs
  /\ interval' = update.interval
  /\ current_rec' = update.current_rec
  /\ rec_index' = update.rec_index
  /\ abandoned' = (abandoned \/ clock - current_rec > HistorySize)

\* operator++, AddVolume and AddBatch.
AddBatch(b) ==
  /\ total.count + b.count <= MaxCount
  /\ recs' = [update.recs EXCEPT ![update.rec_index] = Plus(@, b)]
  /\ interval' = Plus(update.interval, b)
  /\ current_rec' = update.current_rec
  /\ rec_index' = update.rec_index
  /\ abandoned' = (abandoned \/ clock - current_rec > HistorySize)
  /\ total' = Plus(total, b)
  /\ added' = [added EXCEPT ![clock] = Plus(@, b)]
  /\ UNCHANGED <<clock, dump>>

\* GetLastCount, GetIntervalCount and the others that update.
Get ==
  /\ Updated
  /\ UNCHANGED <<clock, total, dump, added>>

Clear ==
  /\ Clears
  /\ recs' = [i \in Slots |-> Zero]
  /\ current_rec' = clock
  /\ rec_index' = SlotOf(clock)
  /\ total' = Zero
  /\ interval' = Zero
  /\ added' = [s \in DOMAIN added |-> Zero]
  /\ abandoned' = FALSE
  /\ dump' = [p \in Dumpers |-> [dump[p] EXCEPT !.cleared = dump[p].read > 0]]
  /\ UNCHANGED clock

Fields == {"interval", "total"} \X {"count", "summ"}

\* Mutant: the totals first.
DumpOrder_TotalFirst ==
  <<<<"total", "count">>, <<"total", "summ">>, <<"last", "count">>,
    <<"last", "summ">>, <<"interval", "count">>, <<"interval", "summ">>>>

(* DumpSimple and DumpTable of a counter of type HistoryVolume.            *)
DumpOrder ==
  <<<<"last", "count">>, <<"last", "summ">>, <<"interval", "count">>,
    <<"interval", "summ">>, <<"total", "count">>, <<"total", "summ">>>>

Answer(field) ==
  LET sums == CASE field[1] = "last"     -> GetLast
                [] field[1] = "interval" -> GetInterval
                [] field[1] = "total"    -> total
  IN  sums[field[2]]

\* The next number of a dump; the totals are read without an update.
DumpNext(p) ==
  LET field == DumpOrder[dump[p].read + 1]
  IN  /\ dump[p].read < 6
      /\ IF field[1] = "total" THEN UNCHANGED <<recs, interval, current_rec, rec_index, abandoned>>
                               ELSE Updated
      /\ dump' = [dump EXCEPT ![p].read = @ + 1,
                              ![p].value = IF field \in DOMAIN @
                                           THEN [@ EXCEPT ![field] = Answer(field)] ELSE @]
      /\ UNCHANGED <<clock, total, added>>

NotRead == [read |-> 0, value |-> [f \in Fields |-> 0], cleared |-> FALSE]

DumpDone(p) ==
  /\ dump[p].read = 6
  /\ dump' = [dump EXCEPT ![p] = NotRead]
  /\ UNCHANGED <<clock, recs, current_rec, rec_index, interval, total, added, abandoned>>

\* CLOCK_MONOTONIC goes on.
Tick ==
  /\ clock < MaxTime
  /\ clock - current_rec < MaxGap
  /\ clock' = clock + 1
  /\ UNCHANGED <<recs, current_rec, rec_index, interval, total, dump, added, abandoned>>

(* Init: Clear at any time after the boot.                                 *)
Init ==
  /\ clock \in Slots /\ clock <= MaxTime
  /\ recs = [i \in Slots |-> Zero]
  /\ current_rec = clock
  /\ rec_index = SlotOf(clock)
  /\ interval = Zero
  /\ total = Zero
  /\ dump = [p \in Dumpers |-> NotRead]
  /\ added = [s \in 0 .. MaxTime |-> Zero]
  /\ abandoned = FALSE

Next ==
  \/ \E b \in Batches : AddBatch(b)
  \/ Get
  \/ Clear
  \/ \E p \in Dumpers : DumpNext(p) \/ DumpDone(p)
  \/ Tick

Spec == Init /\ [][Next]_vars

-----------------------------------------------------------------------------
(* Properties.                                                             *)

TypeOK ==
  /\ clock \in Nat /\ current_rec \in 0 .. clock
  /\ rec_index \in Slots
  /\ recs \in [Slots -> Sums]
  /\ interval \in Sums /\ total \in Sums
  /\ dump \in [Dumpers -> [read : 0 .. 6, value : [Fields -> Nat], cleared : BOOLEAN]]
  /\ added \in [0 .. MaxTime -> Sums]
  /\ abandoned \in BOOLEAN

AddedIn(s) == IF s \in DOMAIN added THEN added[s] ELSE Zero

(* What was added in the HistorySize seconds before a second and in it.    *)
Window(second) == SumOver(added, {s \in DOMAIN added : s \in second - HistorySize .. second})

(* As long as somebody calls at least once per interval, whoever asks is   *)
(* told exactly what was added in the last HistorySize seconds, and in the *)
(* second before this one.                                                 *)
AnswersExact ==
  ~abandoned => /\ GetInterval = Window(clock)
                /\ GetLast = AddedIn(clock - 1)

(* GetInfo lags behind the clock, and not by a mixture: what it tells is   *)
(* exactly what was so in the second of the last call that updated.        *)
InfoOfLastUpdate ==
  ~abandoned => /\ GetInfo.interval = Window(current_rec)
                /\ GetInfo.last = AddedIn(current_rec - 1)

(* The interval is the sum of the slots, however long nobody called.       *)
IntervalIsSum == interval = SumOver(recs, Slots)

(* However long nobody called, no event is told of after its time, and none*)
(* is told of twice.                                                       *)
NothingOutlives ==
  /\ GetInterval.count <= Window(clock).count
  /\ GetInterval.summ <= Window(clock).summ

(* A dump that reads its numbers one by one while others add and the clock *)
(* goes on still never shows more in the interval than in total, unless    *)
(* somebody clears the counter meanwhile.                                  *)
DumpOrdered ==
  \A p \in Dumpers : dump[p].read = 6 /\ ~dump[p].cleared =>
    \A f \in {"count", "summ"} :
      dump[p].value[<<"interval", f>>] <= dump[p].value[<<"total", f>>]

=============================================================================
