-------------------------------- MODULE Log --------------------------------
(***************************************************************************)
(* The log of one process: its threads call log_write, which counts the    *)
(* message and pushes a record into the log's queue (log_write_record);    *)
(* the timer of LogMonitor, in the main thread, takes the level from a     *)
(* counter that others may set and hands the counts to shared counters.    *)
(*                                                                         *)
(* None of this takes a lock.  log_write_record keeps a flag against being *)
(* entered again; the first use of the log's dictionary and queue opens    *)
(* them, with the level set to DISABLED for that time (ScopedLogLevel).    *)
(* Formatting, the console and syslog are left out.                        *)
(***************************************************************************)
EXTENDS Integers

CONSTANTS
  Threads,      (* Threads that log.                                        *)
  Main,         (* The one with the timer.                                  *)
  Levels,       (* Levels of the messages.                                  *)
  Scenarios     (* Which of the threads run, what main has opened before    *)
                (* they start, what cannot be opened, and two bounds: the   *)
                (* messages of a level, and how often the level is set from *)
                (* outside.                                                 *)

LOG_LEVEL_DISABLED == 0
LOG_LEVEL_NOTICE   == 5
LOG_LEVEL_INFO     == 6

\* The two that are opened by their first use.
Statics == {"LogCounters", "LogStorage"}

ASSUME LogAssumption ==
  /\ Main \in Threads
  /\ Levels \subseteq Nat \ {LOG_LEVEL_DISABLED}
  /\ {LOG_LEVEL_NOTICE, LOG_LEVEL_INFO} \subseteq Levels
  /\ Scenarios \subseteq [threads : SUBSET Threads, opened : SUBSET Statics,
                          fails : SUBSET Statics, writes : Nat, settings : Nat]
  /\ \A c \in Scenarios : Main \in c.threads

VARIABLES
  opt_log_level,
  in_log_write,     (* the flag of log_write_record                         *)
  log_counters,     (* messages of each level, not yet handed on            *)
  setting,          (* counter settings.log.<program>.level                 *)
  totals,           (* counters log.<program>.level.<level>                 *)
  opened,           (* of each static: "no", "opening", "yes", "failed"     *)
  pc, level,        (* per thread: where it is, and its message             *)
  back,             (* per thread: where it goes on after log_write         *)
  loaded,           (* per thread: the number it is incrementing            *)
  prev_log_level,   (* per thread: what its ScopedLogLevel restores         *)
  wanted, todo,     (* main: the level to be set, the counts to hand on     *)
  settings,         (* how often the setting was changed                    *)
  written, dropped, (* history variables: messages counted of each level,   *)
                    (* records that the flag has turned away                *)
  scenario          (* one of Scenarios, for good                           *)

counts == <<log_counters, totals, written>>
timer  == <<wanted, todo>>
vars   == <<opt_log_level, in_log_write, counts, setting, opened, pc, level, back,
            loaded, prev_log_level, timer, settings, dropped, scenario>>

is_log_enabled(l) == l <= opt_log_level

Goto(t, step) == pc' = [pc EXCEPT ![t] = step]

-----------------------------------------------------------------------------
(* log_write and what it calls.                                            *)

\* log_write(l, ...), to return to step b.
StartWrite(t, l, b) ==
  /\ level' = [level EXCEPT ![t] = l]
  /\ back' = [back EXCEPT ![t] = b]
  /\ Goto(t, "log_write_str")

log_write(t) ==
  /\ pc[t] = "idle"
  /\ \E l \in Levels : /\ is_log_enabled(l)
                       /\ written[l] < scenario.writes
                       /\ StartWrite(t, l, "idle")
  /\ UNCHANGED <<opt_log_level, in_log_write, counts, setting, opened, loaded,
                 prev_log_level, timer, settings, dropped>>

\* log_write_str asks again, and counts: a load ...
log_write_str(t) ==
  /\ pc[t] = "log_write_str"
  /\ IF is_log_enabled(level[t])
     THEN /\ loaded' = [loaded EXCEPT ![t] = log_counters[level[t]]]
          /\ Goto(t, "count")
     ELSE Goto(t, back[t]) /\ UNCHANGED loaded
  /\ UNCHANGED <<opt_log_level, in_log_write, counts, setting, opened, level, back,
                 prev_log_level, timer, settings, dropped>>

\* ... and a store.
Count(t) ==
  /\ pc[t] = "count" /\ Goto(t, "log_write_record")
  /\ log_counters' = [log_counters EXCEPT ![level[t]] = loaded[t] + 1]
  /\ written' = [written EXCEPT ![level[t]] = @ + 1]
  /\ UNCHANGED <<opt_log_level, in_log_write, setting, totals, opened, level, back, loaded,
                 prev_log_level, timer, settings, dropped>>

log_write_record(t) ==
  /\ pc[t] = "log_write_record"
  /\ IF in_log_write
     THEN Goto(t, back[t]) /\ dropped' = dropped + 1
     ELSE Goto(t, "enter") /\ UNCHANGED dropped
  /\ UNCHANGED <<opt_log_level, in_log_write, counts, setting, opened, level, back, loaded,
                 prev_log_level, timer, settings>>

Enter(t) ==
  /\ pc[t] = "enter" /\ Goto(t, "LogCounters")
  /\ in_log_write' = TRUE
  /\ UNCHANGED <<opt_log_level, counts, setting, opened, level, back, loaded,
                 prev_log_level, timer, settings, dropped>>

\* Where the code calls which static, and where it goes on.
UsesOf(step) == IF step = "LogCounters" THEN "LogCounters" ELSE "LogStorage"
AfterUse(step) ==
  CASE step = "LogCounters"    -> "LogStorage"
    [] step = "LogStorage"     -> "Push"
    [] step = "UpdateCounters" -> "idle"

\* Mutant: the level is left as it is while something is opened.
DuringOpen_Unscoped(l) == l

(* ScopedLogLevel ll(LOG_LEVEL_DISABLED).                                  *)
DuringOpen(l) == IF l = LOG_LEVEL_DISABLED THEN l ELSE LOG_LEVEL_DISABLED

(* The static pointer is set before Open: who comes between has an object  *)
(* without memory.                                                         *)
UseStatic(t) ==
  /\ pc[t] \in {"LogCounters", "LogStorage", "UpdateCounters"}
  /\ LET s == UsesOf(pc[t])
     IN  \/ /\ opened[s] = "yes"
            /\ Goto(t, AfterUse(pc[t]))
            /\ UNCHANGED <<opened, prev_log_level, opt_log_level, back>>
         \/ /\ opened[s] = "opening"
            /\ Goto(t, "dead")
            /\ UNCHANGED <<opened, prev_log_level, opt_log_level, back>>
         \/ /\ opened[s] = "no"
            /\ opened' = [opened EXCEPT ![s] = "opening"]
            /\ prev_log_level' = [prev_log_level EXCEPT ![t] = opt_log_level]
            /\ opt_log_level' = DuringOpen(opt_log_level)
            /\ Goto(t, IF pc[t] = "UpdateCounters" THEN "open_for_timer"
                       ELSE IF s = "LogCounters" THEN "open_counters" ELSE "open_storage")
            /\ UNCHANGED back
  /\ UNCHANGED <<in_log_write, counts, setting, level, loaded, timer, settings, dropped>>

OpenedHere(step) == IF step = "open_counters" THEN "LogCounters" ELSE "LogStorage"
AfterOpen(step) ==
  CASE step = "open_counters"  -> "LogStorage"
    [] step = "open_storage"   -> "Push"
    [] step = "open_for_timer" -> "idle"

(* Open writes a message of its own, "Init shm data", if it is enabled: the*)
(* flag turns its record away, and outside of log_write_record there is no *)
(* flag and it goes to the queue that is being opened.                     *)
Opens(t) ==
  /\ OpenedHere(pc[t]) \notin scenario.fails
  /\ opened' = [opened EXCEPT ![OpenedHere(pc[t])] = "yes"]
  /\ IF is_log_enabled(LOG_LEVEL_INFO)
     THEN /\ log_counters' = [log_counters EXCEPT ![LOG_LEVEL_INFO] = @ + 1]
          /\ written' = [written EXCEPT ![LOG_LEVEL_INFO] = @ + 1]
          /\ IF in_log_write
             THEN dropped' = dropped + 1 /\ Goto(t, AfterOpen(pc[t]))
             ELSE UNCHANGED dropped /\ Goto(t, "dead")
     ELSE UNCHANGED <<log_counters, written, dropped>> /\ Goto(t, AfterOpen(pc[t]))

(* What could not be opened is used all the same: LogStorage has set its   *)
(* pointer to NULL again and returns what it points to, LogCounters leaves *)
(* an object without memory.                                               *)
FailsToOpen(t) ==
  /\ OpenedHere(pc[t]) \in scenario.fails
  /\ opened' = [opened EXCEPT ![OpenedHere(pc[t])] = "failed"]
  /\ Goto(t, "dead")
  /\ UNCHANGED <<log_counters, written, dropped>>

Open(t) ==
  /\ pc[t] \in {"open_counters", "open_storage", "open_for_timer"}
  /\ Opens(t) \/ FailsToOpen(t)
  /\ opt_log_level' = prev_log_level[t]
  /\ UNCHANGED <<in_log_write, totals, setting, level, back, loaded, prev_log_level, timer,
                 settings>>

\* Mutant: a record that does not fit is an early return.
Push_EarlyReturn(t) ==
  /\ pc[t] = "Push" /\ Goto(t, back[t])
  /\ in_log_write' \in BOOLEAN
  /\ UNCHANGED <<opt_log_level, counts, setting, opened, level, back, loaded, prev_log_level, timer,
                 settings, dropped>>

(* The queue is ShmBufferEx; whether it takes the record makes no          *)
(* difference here.                                                        *)
Push(t) ==
  /\ pc[t] = "Push" /\ Goto(t, back[t])
  /\ in_log_write' = FALSE
  /\ UNCHANGED <<opt_log_level, counts, setting, opened, level, back, loaded, prev_log_level, timer,
                 settings, dropped>>

-----------------------------------------------------------------------------
(* LogMonitor::periodic.                                                   *)

\* Mutant: the level is changed only if the change can be logged.
Periodic_IfLogged ==
  /\ pc[Main] = "idle"
  /\ wanted' = setting /\ todo' = Levels
  /\ IF opt_log_level # setting /\ is_log_enabled(LOG_LEVEL_NOTICE)
     THEN StartWrite(Main, LOG_LEVEL_NOTICE, "set_level")
     ELSE Goto(Main, "transfer") /\ UNCHANGED <<level, back>>
  /\ UNCHANGED <<opt_log_level, in_log_write, counts, setting, opened, loaded,
                 prev_log_level, settings, dropped>>

Periodic ==
  /\ pc[Main] = "idle"
  /\ wanted' = setting /\ todo' = Levels
  /\ IF opt_log_level # setting
     THEN IF is_log_enabled(LOG_LEVEL_NOTICE) THEN StartWrite(Main, LOG_LEVEL_NOTICE, "set_level")
          ELSE Goto(Main, "set_level") /\ UNCHANGED <<level, back>>
     ELSE Goto(Main, "transfer") /\ UNCHANGED <<level, back>>
  /\ UNCHANGED <<opt_log_level, in_log_write, counts, setting, opened, loaded,
                 prev_log_level, settings, dropped>>

SetLevel ==
  /\ pc[Main] = "set_level" /\ Goto(Main, "transfer")
  /\ opt_log_level' = wanted
  /\ UNCHANGED <<in_log_write, counts, setting, opened, level, back, loaded,
                 prev_log_level, timer, settings, dropped>>

(* Level by level: the count is added to the shared counter ...            *)
Transfer ==
  /\ pc[Main] = "transfer"
  /\ IF todo = {}
     THEN Goto(Main, "UpdateCounters") /\ UNCHANGED <<totals, level>>
     ELSE \E l \in todo : /\ totals' = [totals EXCEPT ![l] = @ + log_counters[l]]
                          /\ level' = [level EXCEPT ![Main] = l]
                          /\ Goto(Main, "reset")
  /\ UNCHANGED <<opt_log_level, in_log_write, log_counters, written, setting, opened, back,
                 loaded, prev_log_level, timer, settings, dropped>>

\* Mutant: the count stays.
Reset_Kept ==
  /\ pc[Main] = "reset" /\ Goto(Main, "transfer")
  /\ todo' = todo \ {level[Main]}
  /\ UNCHANGED <<opt_log_level, in_log_write, counts, setting, opened, level, back, loaded,
                 prev_log_level, wanted, settings, dropped>>

\* ... and set to zero.
Reset ==
  /\ pc[Main] = "reset" /\ Goto(Main, "transfer")
  /\ log_counters' = [log_counters EXCEPT ![level[Main]] = 0]
  /\ todo' = todo \ {level[Main]}
  /\ UNCHANGED <<opt_log_level, in_log_write, totals, written, setting, opened, level,
                 back, loaded, prev_log_level, wanted, settings, dropped>>

\* An operator, or another process of the same program that starts.
ChangeSetting ==
  /\ settings < scenario.settings
  /\ \E l \in Levels \cup {LOG_LEVEL_DISABLED} : setting' = l
  /\ settings' = settings + 1
  /\ UNCHANGED <<opt_log_level, in_log_write, counts, opened, pc, level, back, loaded,
                 prev_log_level, timer, dropped>>

-----------------------------------------------------------------------------

(* initCounters has set the counter to the process's own level, which the  *)
(* command line sets.                                                      *)
Init ==
  /\ opt_log_level \in Levels \cup {LOG_LEVEL_DISABLED}
  /\ setting = opt_log_level
  /\ in_log_write = FALSE
  /\ log_counters = [l \in Levels |-> 0]
  /\ totals = [l \in Levels |-> 0]
  /\ written = [l \in Levels |-> 0]
  /\ scenario \in Scenarios
  /\ opened = [s \in Statics |-> IF s \in scenario.opened THEN "yes" ELSE "no"]
  /\ pc = [t \in Threads |-> "idle"]
  /\ level = [t \in Threads |-> LOG_LEVEL_INFO]
  /\ back = [t \in Threads |-> "idle"]
  /\ loaded = [t \in Threads |-> 0]
  /\ prev_log_level = [t \in Threads |-> LOG_LEVEL_DISABLED]
  /\ wanted = LOG_LEVEL_INFO /\ todo = {}
  /\ settings = 0 /\ dropped = 0

\* NULL was used: the process is gone.
Alive == \A t \in Threads : pc[t] # "dead"

Continue(t) ==
  \/ log_write_str(t) \/ Count(t) \/ log_write_record(t) \/ Enter(t)
  \/ UseStatic(t) \/ Open(t) \/ Push(t)

Timer == Periodic \/ SetLevel \/ Transfer \/ Reset

Next ==
  /\ Alive /\ UNCHANGED scenario
  /\ \/ \E t \in scenario.threads : log_write(t) \/ Continue(t)
     \/ Timer
     \/ ChangeSetting

Spec == Init /\ [][Next]_vars

(* The scheduler runs every thread, and the timer fires again and again.   *)
FairSpec ==
  /\ Spec
  /\ \A t \in Threads : WF_vars(Alive /\ UNCHANGED scenario /\ Continue(t))
  /\ WF_vars(Alive /\ UNCHANGED scenario /\ Periodic)
  /\ WF_vars(Alive /\ UNCHANGED scenario /\ (SetLevel \/ Transfer \/ Reset))

-----------------------------------------------------------------------------
(* Properties.                                                             *)

Inside == {t \in Threads : pc[t] \in {"LogCounters", "LogStorage", "Push", "open_counters", "open_storage"}}

(* The flag is up only while somebody is inside, whatever the order in     *)
(* which threads test and set it and whatever becomes of the records: the  *)
(* log does not fall silent.                                               *)
GuardReleased == in_log_write /\ Alive => Inside # {}

(* A process with one thread, which may use the log before anything of it  *)
(* is open.                                                                *)
OneThread == scenario.threads = {Main}

(* With one thread, no record is turned away by the flag, and the process  *)
(* never uses what it is still opening: only a file that cannot be opened  *)
(* brings it down.                                                         *)
NothingDropped ==
  OneThread => dropped = 0 /\ (Alive \/ \E s \in Statics : opened[s] = "failed")

(* With one thread, between two runs of the timer every message is counted,*)
(* once.                                                                   *)
CountedOnce ==
  OneThread /\ pc[Main] = "idle" =>
    \A l \in Levels : totals[l] + log_counters[l] = written[l]

(* Once nobody sets the level any more, a process that lives takes it over *)
(* for good.                                                               *)
LevelFollows ==
  \A l \in Levels \cup {LOG_LEVEL_DISABLED} :
    <>[](Alive /\ setting = l) => <>[](opt_log_level = l)

=============================================================================
