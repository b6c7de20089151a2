# hilo_utils in TLA+

hilo_utils is a small C++ library for programs that run as many processes on one
machine and share what they know: message queues, counters and a log, all kept in
POSIX shared memory; with it comes `rrd-writer`, a program that hands the counters to
rrdcached. This directory holds TLA+ models of its parts with state, the TLC
configurations that check them on small instances, and proofs, checked by TLAPS, of
what matters most about them for every size and number of processes.

Paths below are relative to the repository; `src/src/` is its directory `src/`.

## The system

| part | state | operations | what makes it hard |
|---|---|---|---|
| record queue `ShmBufferEx` (`ShmBufferExData`, `ShmBufferRecord`, `ShmChunks`) | a ring of records mapped twice in a row, head and tail with the number of turns, counts of messages, drops and errors, reader slots | `Push` under three overflow behaviours, `Pop`, `Get` by slot, by position with `lost`, by position with a direction, `UpdateCounters`, `SetOverflovBehavior` | many producers and readers; readers hold positions while producers drop records under them; the test of `count` outside the lock; records across the seam; `size_t` |
| opening `ShmBase`, `ShmSimple` | the file, `init_state` in its header, descriptor and size in each process | `Open` (with a size, or as large as it is), `Close`, the wait for whoever initialises | several processes at once, each system call a step; crashes in between; the file removed and created again |
| history counter `HistoryCounterData` | totals, a slot per second, the sums of the interval, the second it stands at | `operator++`, `AddVolume`, `AddBatch`, getters, `Clear`, dumps | nobody turns the ring but the callers; long pauses; a dump takes the lock once per number |
| dictionaries `CDictionary` in `Counters`, `HistoryCounters` and the log | a sorted index, names, offsets | look up, add, list | two looks under two locks; listings and the log's `Add` without a lock; full ids, full text |
| log `LogBase`, `LogStorage`, `LogMonitor` | the level, counts per level, a flag against re-entry, the opened log | `log_write`, opening at first use, the timer that follows the level and hands the counts on | no lock at all; opening the log logs; a level set from outside |
| status `ShmBufferEx::CheckAllStatus`, `Uptime` | signs of life and gauges among the counters | `UptimeUpdate`, `UptimeCheckStatus`, `CheckAllStatus` | gauges published and read one by one, without a lock; queues made anew under one name; a full dictionary; processes that die |
| counter handles `Counter`, `LazyCounter` | a pointer, and the instance of the object it was found in | use | refused names share one cell |
| byte ring `ShmBuffer` | head, tail | `Write`, `Read`, `Free`, `IsEmpty` | the same seam as the record queue; `IsEmpty` without the lock |
| `rrd-writer` | its connection, the second of its last run, the last sample of the cpu, files | the timer: lists of names, a file and an update for each | one failure ends a list; the daemon goes and comes; one update per file and second |
| samplers `SysInfoCpu`, `SysInfoMemory`, `Rusage` | the last sample | difference to the last sample | `/proc` unreadable |
| options, signals, libev glue, formatting, `JsonDumper` | hardly any | | sequential |

They interact through shared memory only. Every shared object is opened by
`ShmSimple`, and carries a process-shared mutex in its header. A queue publishes
its gauges in the value counters and its history in history counters
(`UpdateCounters`); the log pushes its records into a queue and counts its sources
in a dictionary of its own; `LogMonitor` hands the counts of the levels to the
counters and takes the level from one; a watcher judges queues and processes by the
counters alone; `rrd-writer` lists them. Locks are taken in the order queue, log,
history counters, one counter.

## The modules

| module | models | actions and the code |
|---|---|---|
| `ShmBufferEx` | the record queue, `ShmBufferExData.h/.cpp` and the wrappers of `ShmBufferEx.h` | `PushFits`, `PushRefused`, `PushDropNew`, `PushDropOld` are the branches of `Push`; `PushDropFirst`, `PushAfterDrop`, `PushTooLarge` the loop of `dropFirstRecords`; `Enter` the test of `count` before the lock; `Pop`, `GetByIndex`, `GetLost`, `GetDirection`, `Seek`; `Publish` and `Transfer` the two halves of `UpdateCounters` |
| `MessageQueue` | what the queue promises, without a ring: numbered messages, the oldest leaves, a slot is given the oldest one it is not past | `Store`, `Leave`, `Read` |
| `ShmOpen` | `Open` by several processes | one action per system call or access to `init_state`: `Stat`, `ShmOpenExisting`/`New`/`Fails`, `Fstat`, `Ftruncate`, `Mmap`, `IsInitNeeded`, `AlreadyInitialized`, `WaitForInit`, `InitData`, `HeaderInitDone`; `Close`; `Crash` and `Remove` come from outside |
| `HistoryCounter` | one counter of `HistoryCounterData` | `AddBatch` (with `operator++` and `AddVolume`), `Get`, `Clear`, `DumpNext` (one number of a dump), `Tick` (the clock); `GetInfo` as what it tells |
| `Counters` | the dictionary and its callers | `LookupOnly`, `LookupAdd`, `Add` up to the first store, then `Memmove`, `SetId`, `SetOffset`, `SetCount`, `Memcpy`, the stores of `CDictionary::Add` in the order of the source; `GetCategory` and `DumpNext`, the listing |
| `Log` | the threads of one process that log | `log_write`, `log_write_str`, `Count`, `log_write_record`, `Enter`, `UseStatic`, `Open` (which succeeds or `FailsToOpen`), `Push`; `Periodic`, `SetLevel`, `Transfer`, `Reset` of `LogMonitor::periodic` |
| `Status` | who publishes, and the watcher | `Open`, `UpdateFind`, `UpdateStore`, `Transfer` (one batch after the other, each to its history), `Update` of a user of a queue; `UptimeUpdate`, `SetName`, `TakeTime`, `StoreTime`, `UptimeReset` of a process; `CheckAllStatus`, `ReadQueue`, `ReadHistory`, `ReadUsed`, `ReadCapacity` and `UptimeCheckStatus`, `ReadLastActive`, `Age` of the watcher, one action per counter that is read; `Gone`, `Die`, `Remove`, `Traffic`, `Tick` come from outside |
| `ByteRing` | the byte ring | `Write` of any size (`WriteRefused`, `WriteCopied`, `WriteOverruns`), `Read`, `Free` of as much as it is told, and `IsEmpty` in its two loads |
| `ByteQueue` | what it promises: bytes in order, at most its capacity of them | `Put`, `Refuse`, `Take`, `Drop` |
| `RrdWriter` | the program | `mainPeriodic`, `NextList` (a listing, exact or `Disturbed`), `rrd_create_file`, `Update`, `Nameless`, `rrd_update_memory`, `rrd_update_cpu`, `MeetsNull`; `AddBegins` and `AddEnds` (the first and the last store of `Add`), `DaemonGoes`, `DaemonComes`, `Restart`, `Tick` come from outside |
| `ShmBufferExProofs`, `ShmOpenProofs`, `HistoryCounterProofs`, `CountersProofs`, `LogProofs`, `StatusProofs`, `ByteRingProofs`, `RrdWriterProofs` | proofs | |
| `MCShmBufferEx`, `MCShmOpen`, `MCHistoryCounter`, `MCCounters`, `MCLog`, `MCStatus`, `MCRrdWriter` | instances for TLC | |
| `MCShmBufferCast` | the ring with a cast, chosen at the start: two that pop under all behaviours, or a follower and a position under `drop_old` | |
| `MCByteRing` | the calls that the tests of `ShmBuffer` make | |

How they are composed. Each module takes from its neighbours what they promise and
no more. `Status` takes the dictionaries as sets of names, where finding or adding one
is a step (what `Counters` shows of callers that hold the lock; that a listing may
miss a name while another is added is in `CheckAllStatus`; that `GetCounterPtr` of the
histories refuses even known names when their dictionary is full is in
`GetCounterPtr`), and the queue as its `capacity()`, `data_size()` and lock, with the
overfull value that finding 1 shows. `RrdWriter` takes a name as being added from the
first store of `Add` to the last; what a list read in between holds is left open
altogether, doubled, lost and foreign entries included, and an entry without its text
ends the program (`MeetsNull`) or goes to a file of nobody (`Nameless`). `Log`
pushes into a queue that takes it; `ShmBufferEx` and `ByteRing` begin where `ShmOpen`
ends.

How data is abstracted: a byte of the record ring is the number of the message it
belongs to, its offset in the record and the two header fields; payloads are left out. A
counter's name is its rank in the order of `strcasecmp`, with a length. Seconds are
whole. `size_t` in the record ring and in `ShmOpen` is a number modulo `SizeModulus`; in
`ByteRing` a `free_size` below zero refuses nothing. Of the clock `RrdWriter` keeps
which files have an update of the present second. What runs under a lock and cannot be
seen from outside is one action; what others can see (the loop of `drop_old`, `count`
before the lock, the stores of `Add`, each number of a dump, each gauge) is cut where
they can.

Scenarios. `ShmOpen`, `Log`, `Status`, `RrdWriter` and `Counters` have a variable that is
chosen in the initial state and never changes: who takes part, how often something may
happen from outside, which calls are made. One run then covers cases whose product
would be too large, each to its end. The bounds are in it: `files`, `deaths`,
`seconds`, `restarts`, `outages`, `crashes`, `writes`, `settings`.

An operator whose name ends in `_Something` and whose comment begins with `Mutant`
is a plausible mistake in the definition below it. It is used nowhere;
`PROJECT.json` says which property must fail when it takes the place of the
definition, which shows that the property can fail.

## The runs

Twelve runs; `PROJECT.json` has a sentence on each.

| run | instance | shows |
|---|---|---|
| `ring_records` | ring of 7 bytes, headers of 1, records of 2 and 3, one producer; either all overflow behaviours and two consumers, or `drop_old`, a follower with a slot and a process with a position | `TypeOK`, `Placement`, `RecordsWhole`, `OldestFirst`, `OldestLeaves`, `PositionsAligned`, `LossesAccounted`, `NoSilentGap`, and `ImplementsQueue`: the ring refines `MessageQueue` |
| `ring_updates` | records of 4 and 7 bytes, 7 fits nowhere; a consumer, an updater, and somebody who changes the behaviour, to `drop_old` with `drop_is_ok` among others, as the log's storage sets it | `TransfersExact`, `ErrorsExact`, `PushReturns` |
| `ring_drained_not_empty` | records of 3 and 4 | finding 1 |
| `open` | three openers of one size, two crashes, the file removed and made again; or two that live, with the sizes 0, 6, 8 | `TypeOK`, `OpenedReady`, `MappingBacked`, `OneInitializer`, `OpenReturns`, `InitializedForGood` |
| `open_zero_size` | two openers, 0 and 6 | finding 2 |
| `history` | 3 seconds of history, 8 of clock, pauses up to 6, a dumper, `Clear` | `AnswersExact`, `InfoOfLastUpdate`, `IntervalIsSum`, `NothingOutlives`, `DumpOrdered` |
| `counters` | two processes, four names of two lengths, 3 ids, 6 bytes of text; once with the calls of the counters, once with those of the history counters | `IdsAgree`, `IndexSound`, `InvalidMeansAbsent`, `NamesForGood` |
| `log` | one thread that finds nothing open, 2 messages per level, 3 settings; one that cannot open its dictionary, or its queue; or two threads, one message, one setting | `NothingDropped`, `CountedOnce` (of one thread), `GuardReleased`, `LevelFollows` |
| `status` | a queue with all its errors; one made anew by a user that may die; one that two open at once; two, one of them ignored; one place too few for the gauges; a dictionary of histories that the queue fills, and one too small for it; a process that may die; two with one place too few | `WellMeansWell`, `OkMeansActive`, `ReadsWhatIsPublished` |
| `rrd` | two lists with a name that can have no file, an outage and a restart; two lists of one dictionary; a prefix of history counters and a name of two dictionaries; in each a name that is added while the lists are read | `RefusedOnlyTwice`, `CalmRunWritesAll`, `WrittenAgainAndAgain` |
| `byte_ring` | 4 bytes, two values, writes of up to 5 bytes, one writer and one reader | `ActsAsByteQueue`, `EmptyWasTrue` |
| `byte_ring_drained` | the same ring, the calls of its tests | finding 3 |

Why the bounds are enough. In the ring, sizes 2 and 3 in 7 bytes reach every position of
a record relative to the seam, ends exactly at the seam included; 5 messages are two
turns; 7 is the first size that fits nowhere. The two bounds `MaxMessages` and
`MaxDrops` guard the actions that count; in `ring_updates` they are 3 each, which lets a
drop of each policy wait for its transfer while `drop_is_ok` is changed, twice over. In
`ShmOpen` three processes are the one that initialises, one that waits and one that
comes later, and two files let a name be used again. A history of 3 seconds has 4 slots;
a clock that may start at any slot and runs 8 seconds passes each slot twice, and pauses
of 3, 4 and more seconds are the two sides of the branch and what lies beyond. Three ids
and four names fill the dictionary by ids, and six bytes fill it by text before. Two
threads are what a flag without a lock needs. In `Status` the capacities 5 and 10 with
`capacity - 1` and `capacity + 1` in use give fills on both sides of 80 and 90 per cent,
80 itself included, and a file of each capacity after one of the other (where there are
two queues, both have 5); silences of up to four seconds pass both limits, which are 1
and 2 there instead of 3 and 10. `RrdWriter` needs three names: one before the failure,
the failing one and one behind it. In its second and third instance nothing is restarted
and no daemon goes, so that a doubled or lost entry is the only thing that can go wrong;
without their exceptions for such a list both safety properties are violated there. A
byte ring of 4 has pieces of every size up to its capacity at every place, drained at
the seam or not; a write of 4 is the first that fits in no ring, one of 5 at the seam
the first that leaves the two mappings.

Deadlock checking is off in `log` only: a process that has used what it could not open
is gone, and nothing follows.

Fairness. `ring_updates` assumes that the process in the loop of `drop_old` goes on (it
holds the lock, waits for nothing there and does not crash). `open` assumes that every
process that is in `Open` goes on; the wait in `is_init_needed` is a loop around
`usleep`. `OpenReturns` says nothing once somebody has died: after a crash between
`is_init_needed` and `header_init_done` the others wait for ever, and the code has no
way out of that. `log` assumes that threads run and that the timer fires again and
again, which libev does as long as its loop runs; `LevelFollows` speaks of a process
that lives. `rrd` assumes that the loop of libev calls the program's steps, that time
goes on and that whoever is in `Add` gets to its end; it assumes nothing of the daemon,
and `WrittenAgainAndAgain` speaks of behaviours in which it is there for good. `Status`
and `ByteRing` have safety properties only and no fairness.

## Findings

1. `ring_drained_not_empty`: the tail may stand at `buffer_size`, the head wraps
   there. After the last record, if it ended at the seam, `IsEmpty()` is false and
   `DataSize()` is the whole ring, one more than `Capacity()`; `free_size()` wraps
   around and the next push is accepted whatever its size. With records that fit in
   `capacity()` nothing is lost by it: this is why `Placement` has its third case,
   and the proofs assume `RecordsFit`.
2. `open_zero_size`: `Open(name, 0)` takes the size from `stat` before it opens. If
   the creator has not called `ftruncate` yet, and this process then wins the
   initialisation, it sets up a ring of size 0.
3. `byte_ring_drained`: the byte ring has the same seam. When every byte that was
   written has been read and the last one ended at `size`, the head is 0 and the tail
   `size`: `IsEmpty()` is false, a `Read` gives the whole ring once more, and `free_size()`
   wraps around, so that a write of any size is accepted and, if it is larger than what
   is mapped behind the tail, runs out of the mapping. Tests expect the ring to be empty
   after all was read (`src/tests/ShmBuffer_Test.cpp:103`) and a read of the empty ring
   to give 0 (`:153`); the one test that drains it at the seam, `ReadWriteCycle`, does not
   look, and its next write happens to put the tail right. The tests write up to
   `MEM_PAGE_SIZE + 1` bytes at once (`:112`, `:119`), more than `capacity()`, and expect
   a refusal. `ByteQueue` knows nothing of the seam: `ActsAsByteQueue` says that the ring
   is that queue but for two named exceptions, `SeamMistake` and a `Free` of more than
   there is, which the code does not check.

Other facts met on the way, for which the repository makes no promise that a run
could refute; most are notes of the hazards in `PROJECT.json`:

- two openers with different sizes may both succeed;
- after a pause longer than the interval `rec_index` of a history counter stays where it
  was, and what is added in that second is forgotten in the next one; `AnswersExact`
  keeps account of it in the history variable `abandoned`;
- a listing of counters without the lock may miss a name, and may meet an id without a
  text, which ends the process; the log's `Add` without the lock may give one id to two
  names; `GetCounterPtr` of the history counters refuses known names when the dictionary
  is full: a watcher is then told of no errors and says ok of a queue that fails
  (`WellMeansWell` speaks of errors only while there are places), and whoever opens a
  queue gets a NULL for its history, uses it, and is gone with the queue's lock taken;
- an error that was counted under one `drop_is_ok` and not handed over when it is
  changed is in `total_error_count` and not in the history, or the other way round;
  `ErrorsExact` counts these (`drifted`) and shows that there are no others;
- a log whose dictionary or queue cannot be opened is used all the same: the first
  message ends the process;
- with two threads the flag of `log_write_record` turns records away, and messages may
  be counted twice or not at all;
- a watcher that lists a queue which is being opened for the first time divides by zero;
  an alarm may be false, and no property says otherwise: a queue drained at the seam has
  a fill above 100 per cent and is reported as critical; a queue for whose capacity
  there was no place in the dictionary is not listed, and a process whose name was
  refused is reported as critical for ever; a silent process sets the status of the list
  back from critical to warning; `GetInfo` tells of errors as of the last update,
  however old that is (`InfoOfLastUpdate`);
- a list that `rrd-writer` reads while a name is being added may have an entry twice, of
  which the second update is refused and ends the list, may lose its last entry, or may
  have one whose text is not there yet;
- `rrd-writer` refuses itself a custom prefix of history counters in every second in
  which the list of all of them was written before; a name that stands behind an
  obstacle in its list, and comes meanwhile to another dictionary whose list the run has
  passed, is written by neither: `CalmRunWritesAll` speaks of each list and of what that
  list had when the run began.

## What is proved

TLAPS checks the theorems of the eight proof modules for every value of the constants
that satisfies the named assumptions of the modules they extend.

**The record queue**, for records that fit in the empty queue (`RecordsFit`):
`TypesCorrect`, `PlacementHolds`, `RecordsStayWhole`, `OrderKept`, `ReadersOnHeaders`,
`LoopOwnsLock`, and the action property `OldestRecordLeaves`, all from `RingInvariant`.
The inductive invariant `RingInv` is the conjunction of types, `Placement`,
`RecordsWhole`, `OldestFirst`, `LoopHoldsMutex` and `PositionsAligned`, and none of them
is inductive alone: that a push overwrites no record needs `Placement`; that dropping
the first record leaves a whole one in front needs `RecordsWhole`; that `GetPrevVptr`
finds a header needs the links between neighbours; that the tail's process may go on
after its loop needs the lock. The module has three parts. The first speaks of windows
of the ring without the state machine: what the bytes between two positions become when
a record is appended at the end or the first one taken away, across the seam or not; the
steps of `ShmBufferEx`, in the second part, are then instances of append and take. The
third stands on the invariant: what is counted (`TransfersAreExact`, and
`ErrorsAreExact` with `drop_is_ok` set or not and changed at any time), what a slot is
given and told to have lost (`LossesAreAccounted`, `GapsAreTold`, from a second
invariant about the slots), and `RingIsAMessageQueue`: the initial states of the ring
are initial states of `MessageQueue`, every step is one of its steps or a stutter.

**Opening**: `OpenTypes`, `InitializerAlone` and `ReadyForGood` for all sizes, crashes
and files, from the invariant `OpenInv` (types, files not created are clean, whoever
is past `openShm` has a file, `OneInitializer`). `AllFindItReady` and
`MappingStaysBacked` under `OneRequest`, all processes ask for one size that is not
0, from `SizeInv`, which ties the size of the file to what each process has
asked for. Finding 2 shows that the assumption is needed.

**The dictionary**, where every caller that adds takes the lock (`OnlyLocked`, which
excludes the log's call; TLC shows that it has to): `OneIdForAName`, `IndexInOrder`,
`RefusedIsUnknown`, `NamesStay`. The inductive invariant `DictInv` says what the
arrays look like at each store of `Add`: settled entries, the one that is being
inserted, and what each process was told.

**The log**: `FlagComesDown` for any number of threads; `AloneNothingDropped`, which
names a failed open as the only end of the process, and
`AloneCountedOnce` for the one thread that the code is written for, from an invariant
that follows each message from its level to its count through the nested messages of
the opening.

**Status**: `NothingHidden`, `PublishedInOrder`, `SilenceIsNoticed`. `NothingHidden` has the
full dictionary of histories as an exception: there the code hides errors.
The invariant has two layers. `Shared` is of those who publish: `GaugeInv`, that a
queue whose capacity has a name has a used too and that the capacity is 0 or that of
the file unless it was made anew, follows from the order of `UpdateCounters`; `SignInv`,
that a sign of life is a time which that process has taken, holds though refused
handles write too. `QueueInv` and `ProcessInv` are what the watcher knows between its
reads; lemma `Kept` shows once that no step of the others takes it away
(`Forward`: names, capacities, files and times only grow), so that only the watcher's own
steps remain.

**The history counter**, for every `HistorySize`, every set of batches and every number
of dumpers: `IntervalStaysSum`, `AnswersStayExact`, `InfoStaysExact`, `NothingToldLate`,
`DumpsOrdered`. The sums are folds over finite sets. The first part of
`HistoryCounterProofs` shows what they need: that a sum does not depend on the order,
splits over two parts, and grows with what is summed. The invariant `CounterInv` has
two statements about the ring. While somebody calls once per interval the slot of a
second has what was added in it (`ExactAt`), which gives the answers. After a longer pause
that is not so, for `rec_index` stays where it was; what remains true (`TimelyAt`) is
that each slot in use has a second of its own, has no more than was added in it, and
has its turn to be cleared within a lap of that second. That `lastSlot` and the slots of an
interval are what they should be is arithmetic modulo `HistorySize + 1`, shown
once. For the dumps, what was read of the interval is below the total as it is or as it
was read; without a `Clear` totals only grow.

**rrd-writer**, for all dictionaries, prefixes, outages and restarts: `NoOtherRefusal`,
`CalmRunsWriteAll`. `WriterInv` says that what is stamped in this second this run has
written (`StampInv`), that what is written some list has and has gone through, or it is
astray (`PlaceInv`), and that a calm run has written whatever its undisturbed lists have
gone through and reach (`CalmInv`). Of the list in hand `Reading` says that it was
undisturbed, and all of it in the dictionary, or that all of it is astray; a name
without its text can only be in one of the second kind (`InHand`). Names only grow, so
that an obstacle before a name stays one; what one list leaves behind its failure is, by
the definition of `Reaches`, not reached.

**The byte ring**, for any size: `RingIsAByteQueue`, that every step is one of `ByteQueue`
unless it is one of the two exceptions of finding 3, and
`EmptyAnswersAreTrue`: the asker's own offset stands still while it asks, so that when
it loads the other one the two say what is so at that moment.

With these every safety invariant and every action property that a passing run checks,
the refinement of `MessageQueue` and `ActsAsByteQueue` are theorems, under the
assumptions named above. The type invariants of `ShmOpen`, `ByteRing`, `HistoryCounter`
and the ring are too.

Out of the prover's reach, and left to TLC: liveness under fairness (`PushReturns`,
`OpenReturns`, `LevelFollows`, `WrittenAgainAndAgain`) and anything with `ENABLED`. The
induction theorems of the library take an operator as a parameter, which the installed
provers cannot instantiate; where the proofs need induction it is done with sets
instead (`Smallest`, `Counting`, `FiniteByAdding` in `HistoryCounterProofs`): the set of
those for which a fact holds has 0 and the successors of its members, since a set of numbers
that is not empty has a smallest one (`WFMin` of `WellFoundedInduction`). No module
declares a recursive operator.

## What is not modelled

- The figures of the samplers and of `Rusage`, the values of counters: single stores
  and subtractions.
- `CountersClear` and `HistoryCountersClear`, which tests call, and with them the test of
  the instance in `LazyCounter::Init` and the pointer that a `HistoryCounter` keeps.
- Options, signals, libev glue, formatting, `JsonDumper`, file helpers and the layout of
  listings: they keep no state that others see.
- A process that dies while it holds a lock leaves it locked for ever (the mutex is
  process-shared and recursive, not robust): nothing recovers from it, so there is
  nothing to check beyond `ShmOpen`'s crashes, and a user in `Status` that is gone in the
  midst of its batches. There whoever dies does so between two calls of the dictionary.
- A wall clock that is set back: it can make a dead process look active, since the
  status takes the absolute difference.
- Reads and writes of one machine word that tear: each is one atomic step.

Of the lines of the repository nine in ten are vendored googletest, which is not part
of the program; the definitions here stand for a good part of the six thousand that are,
and the rest of these is tests, layout and parsing.
