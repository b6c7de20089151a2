----------------------------- MODULE LogProofs -----------------------------
(***************************************************************************)
(* The flag against re-entry never stays up, for any number of threads and *)
(* whatever is open when they start; and in a process with one thread no   *)
(* record is turned away, no message is counted twice or not at all, and   *)
(* nothing is used while it is being opened: the process comes to an end   *)
(* only if a file of the log cannot be opened.                             *)
(***************************************************************************)
EXTENDS Log, TLAPS

InsideSteps == {"LogCounters", "LogStorage", "Push", "open_counters", "open_storage"}

Steps == InsideSteps \cup {"idle", "log_write_str", "count", "log_write_record", "enter",
                           "UpdateCounters", "open_for_timer", "set_level", "transfer", "reset", "dead"}

Types ==
  /\ scenario \in Scenarios
  /\ pc \in [Threads -> Steps]
  /\ level \in [Threads -> Levels]
  /\ back \in [Threads -> {"idle", "set_level"}]
  /\ loaded \in [Threads -> Nat]
  /\ log_counters \in [Levels -> Nat]
  /\ totals \in [Levels -> Nat]
  /\ written \in [Levels -> Nat]
  /\ opened \in [Statics -> {"no", "opening", "yes", "failed"}]
  /\ todo \subseteq Levels
  /\ in_log_write \in BOOLEAN

Facts == /\ Main \in Threads
         /\ Levels \subseteq Nat /\ LOG_LEVEL_INFO \in Levels /\ LOG_LEVEL_NOTICE \in Levels
         /\ \A c \in Scenarios : c.threads \subseteq Threads

LEMMA FactsHold == Facts
BY LogAssumption DEF Facts

LEMMA TypesInit == Init => Types
<1> SUFFICES ASSUME Init PROVE Types
  OBVIOUS
<1>1. /\ pc \in [Threads -> Steps] /\ back \in [Threads -> {"idle", "set_level"}]
      /\ level \in [Threads -> Levels] /\ loaded \in [Threads -> Nat]
  BY FactsHold DEF Facts, Init, Steps
<1>2. /\ log_counters \in [Levels -> Nat] /\ totals \in [Levels -> Nat] /\ written \in [Levels -> Nat]
  BY DEF Init
<1>3. opened \in [Statics -> {"no", "opening", "yes", "failed"}]
  BY DEF Init
<1> QED BY <1>1, <1>2, <1>3 DEF Init, Types

-----------------------------------------------------------------------------
(* One step, as it is for every proof.                                     *)

LEMMA OneStep ==
  ASSUME [Next]_vars, Types
  PROVE  \/ \E t \in scenario.threads : t \in Threads /\ (log_write(t) \/ Continue(t))
                                          /\ Alive /\ scenario' = scenario
         \/ Timer /\ Alive /\ scenario' = scenario
         \/ ChangeSetting /\ Alive /\ scenario' = scenario
         \/ UNCHANGED vars
BY FactsHold DEF Facts, Types, Next

LEMMA TypesOfThread ==
  ASSUME Types, NEW t \in Threads, scenario' = scenario, log_write(t) \/ Continue(t)
  PROVE  Types'
<1> USE FactsHold DEF Facts
<1>1. CASE log_write(t)
  BY <1>1 DEF Types, log_write, StartWrite, Goto, counts, timer, Steps, InsideSteps
<1>2. CASE log_write_str(t)
  <2>1. pc' \in [Threads -> Steps] /\ UNCHANGED <<level, back, counts, prev_log_level, timer, opened>>
    BY <1>2 DEF Types, log_write_str, Goto, Steps, InsideSteps
  <2>2. loaded' \in [Threads -> Nat]
    BY <1>2 DEF Types, log_write_str
  <2> QED BY <1>2, <2>1, <2>2 DEF Types, log_write_str, counts, timer
<1>3. CASE Count(t)
  <2>1. pc' \in [Threads -> Steps]
    BY <1>3 DEF Types, Count, Goto, Steps
  <2>2. level[t] \in Levels /\ loaded[t] + 1 \in Nat
    BY DEF Types
  <2>3. log_counters' \in [Levels -> Nat]
    BY <1>3, <2>2 DEF Types, Count
  <2>4. written' = [written EXCEPT ![level[t]] = written[level[t]] + 1]
    BY <1>3 DEF Count
  <2>5. written \in [Levels -> Nat] /\ written[level[t]] \in Nat
    BY <2>2 DEF Types
  <2>6. written' \in [Levels -> Nat]
    BY <2>2, <2>4, <2>5
  <2> QED BY <1>3, <2>1, <2>3, <2>6 DEF Types, Count, timer
<1>4. CASE log_write_record(t) \/ Enter(t)
  <2>1. pc' \in [Threads -> Steps]
    BY <1>4 DEF Types, log_write_record, Enter, Goto, Steps, InsideSteps
  <2> QED BY <1>4, <2>1 DEF Types, log_write_record, Enter, counts, timer
<1>5. CASE UseStatic(t)
  BY <1>5 DEF Types, UseStatic, AfterUse, UsesOf, Goto, counts, timer, Steps, InsideSteps, Statics
<1>6. CASE Open(t)
  <2>1. /\ opened' \in [Statics -> {"no", "opening", "yes", "failed"}]
        /\ pc' \in [Threads -> Steps]
    BY <1>6 DEF Types, Open, Opens, FailsToOpen, OpenedHere, AfterOpen, Goto, Steps, InsideSteps, Statics
  <2>2. log_counters' \in [Levels -> Nat] /\ written' \in [Levels -> Nat]
    BY <1>6 DEF Types, Open, Opens, FailsToOpen
  <2> QED BY <1>6, <2>1, <2>2 DEF Types, Open, timer
<1>7. CASE Push(t)
  BY <1>7 DEF Types, Push, Goto, counts, timer, Steps, InsideSteps
<1> QED BY <1>1, <1>2, <1>3, <1>4, <1>5, <1>6, <1>7 DEF Continue

LEMMA TypesOfTimer ==
  ASSUME Types, scenario' = scenario, Timer
  PROVE  Types'
<1> USE FactsHold DEF Facts
<1>1. CASE Periodic
  BY <1>1 DEF Types, Periodic, StartWrite, Goto, counts, Steps, InsideSteps
<1>2. CASE SetLevel
  BY <1>2 DEF Types, SetLevel, Goto, counts, timer, Steps, InsideSteps
<1>3. CASE Transfer
  BY <1>3 DEF Types, Transfer, Goto, timer, Steps, InsideSteps
<1>4. CASE Reset
  BY <1>4 DEF Types, Reset, Goto, Steps, InsideSteps
<1> QED BY <1>1, <1>2, <1>3, <1>4 DEF Timer

LEMMA TypesKept ==
  ASSUME Types, [Next]_vars
  PROVE  Types'
<1>1. CASE ChangeSetting /\ scenario' = scenario
  BY <1>1 DEF Types, ChangeSetting, counts, timer
<1>2. CASE UNCHANGED vars
  BY <1>2 DEF Types, vars, counts, timer
<1> QED BY <1>1, <1>2, OneStep, TypesOfThread, TypesOfTimer

-----------------------------------------------------------------------------
(* The flag.                                                               *)

LEMMA GuardKept ==
  ASSUME Types, Types', [Next]_vars, GuardReleased
  PROVE  GuardReleased'
<1> USE FactsHold DEF Facts
<1>1. ASSUME NEW t \in Threads, pc' = [pc EXCEPT ![t] = pc'[t]],
             in_log_write' => in_log_write /\ (pc[t] \in InsideSteps => pc'[t] \in InsideSteps \cup {"dead"}),
             Alive
      PROVE  GuardReleased'
  <2> SUFFICES ASSUME in_log_write', Alive' PROVE Inside' # {}
    BY DEF GuardReleased
  <2>1. PICK u \in Threads : pc[u] \in InsideSteps
    BY <1>1 DEF GuardReleased, Inside, InsideSteps
  <2>2. pc'[u] \in InsideSteps
    BY <1>1, <2>1 DEF Alive, Types
  <2> QED BY <2>2 DEF Inside, InsideSteps
<1>2. ASSUME NEW t \in Threads, Alive, log_write(t) \/ log_write_str(t) \/ Count(t) \/ log_write_record(t)
      PROVE  GuardReleased'
  <2>1. pc' = [pc EXCEPT ![t] = pc'[t]] /\ in_log_write' = in_log_write /\ pc[t] \notin InsideSteps
    BY <1>2 DEF Types, log_write, log_write_str, Count, log_write_record, StartWrite, Goto, InsideSteps
  <2> QED BY <1>1, <1>2, <2>1
<1>3. ASSUME NEW t \in Threads, Enter(t) PROVE GuardReleased'
  <2>1. pc'[t] = "LogCounters"
    BY <1>3 DEF Types, Enter, Goto
  <2> QED BY <2>1 DEF GuardReleased, Inside
<1>4. ASSUME NEW t \in Threads, Alive, UseStatic(t) PROVE GuardReleased'
  <2>1. pc' = [pc EXCEPT ![t] = pc'[t]] /\ in_log_write' = in_log_write
    BY <1>4 DEF Types, UseStatic, Goto
  <2>2. pc[t] \in InsideSteps => pc'[t] \in InsideSteps \cup {"dead"}
    BY <1>4 DEF Types, UseStatic, UsesOf, AfterUse, Goto, InsideSteps
  <2> QED BY <1>1, <1>4, <2>1, <2>2
<1>5. ASSUME NEW t \in Threads, Alive, Open(t) PROVE GuardReleased'
  <2>1. pc' = [pc EXCEPT ![t] = pc'[t]] /\ in_log_write' = in_log_write
    BY <1>5 DEF Types, Open, Opens, FailsToOpen, Goto
  <2>2. pc[t] \in InsideSteps => pc'[t] \in InsideSteps \cup {"dead"}
    BY <1>5 DEF Types, Open, Opens, FailsToOpen, AfterOpen, Goto, InsideSteps
  <2> QED BY <1>1, <1>5, <2>1, <2>2
<1>6. ASSUME NEW t \in Threads, Push(t) PROVE GuardReleased'
  BY <1>6 DEF Push, GuardReleased
<1>7. CASE Timer /\ Alive
  <2>1. pc' = [pc EXCEPT ![Main] = pc'[Main]] /\ in_log_write' = in_log_write /\ pc[Main] \notin InsideSteps
    BY <1>7 DEF Types, Timer, Periodic, SetLevel, Transfer, Reset, StartWrite, Goto, InsideSteps
  <2> QED BY <1>1, <1>7, <2>1
<1>8. CASE ChangeSetting \/ UNCHANGED vars
  BY <1>8 DEF ChangeSetting, vars, GuardReleased, Inside, Alive
<1> QED BY <1>2, <1>3, <1>4, <1>5, <1>6, <1>7, <1>8, OneStep DEF Continue

(* In whatever order threads test and set the flag, it is up only while    *)
(* somebody is inside: the log of a living process does not fall silent.   *)
THEOREM FlagComesDown == Spec => []GuardReleased
<1>1. Init => Types /\ GuardReleased
  BY TypesInit DEF Init, GuardReleased
<1>2. Types /\ GuardReleased /\ [Next]_vars => (Types /\ GuardReleased)'
  BY TypesKept, GuardKept
<1> QED BY <1>1, <1>2, PTL DEF Spec

-----------------------------------------------------------------------------
(* A process with one thread.                                              *)

Opening == {"open_counters", "open_storage", "open_for_timer"}

(* What is left of the count of a level: nothing once it has been handed   *)
(* on.                                                                     *)
Left(l) == IF pc[Main] = "reset" /\ level[Main] = l THEN 0 ELSE log_counters[l]

(* The process is gone exactly if an Open has failed.  The flag is up      *)
(* exactly inside, so that it is down when a record comes; an Open is under*)
(* way exactly while the thread is in it, with the level DISABLED, so that *)
(* its own message is not logged.                                          *)
Alone ==
  /\ \A t \in Threads \ {Main} : pc[t] = "idle"
  /\ pc[Main] = "dead" <=> opened["LogCounters"] = "failed" \/ opened["LogStorage"] = "failed"
  /\ dropped = 0
  /\ pc[Main] # "dead" => (in_log_write <=> pc[Main] \in InsideSteps)
  /\ opened["LogCounters"] = "opening" => pc[Main] = "open_counters"
  /\ opened["LogStorage"] = "opening" => pc[Main] \in {"open_storage", "open_for_timer"}
  /\ pc[Main] \in Opening => opt_log_level = LOG_LEVEL_DISABLED
  /\ pc[Main] = "count" => loaded[Main] = log_counters[level[Main]]
  /\ \A l \in Levels : totals[l] + Left(l) = written[l]

LEMMA AloneInit ==
  ASSUME Init
  PROVE  Alone
<1>1. /\ pc = [t \in Threads |-> "idle"] /\ Main \in Threads
      /\ dropped = 0 /\ in_log_write = FALSE
      /\ log_counters = [l \in Levels |-> 0] /\ totals = [l \in Levels |-> 0]
      /\ written = [l \in Levels |-> 0]
  BY FactsHold DEF Facts, Init
<1>2. \A s \in Statics : opened[s] \notin {"opening", "failed"}
  BY DEF Init
<1>3. \A s \in {"LogCounters", "LogStorage"} : opened[s] \notin {"opening", "failed"}
  BY <1>2 DEF Statics
<1>4. pc[Main] = "idle"
  BY <1>1
<1>5. \A l \in Levels : totals[l] + Left(l) = written[l]
  BY <1>1, <1>4 DEF Left
<1> QED BY <1>1, <1>3, <1>4, <1>5 DEF Alone, InsideSteps, Opening

(* A step that counts nothing.                                             *)
LEMMA NotCounted ==
  ASSUME Types, Alone, UNCHANGED <<log_counters, totals, written>>,
         pc[Main] # "reset", pc'[Main] # "reset"
  PROVE  \A l \in Levels : totals'[l] + Left(l)' = written'[l]
BY DEF Alone, Left

LEMMA AloneWrites ==
  ASSUME Types, Types', Alone, log_write(Main) \/ log_write_str(Main) \/ log_write_record(Main) \/ Enter(Main)
  PROVE  Alone'
<1> USE FactsHold DEF Facts
<1>1. /\ pc' = [pc EXCEPT ![Main] = pc'[Main]]
      /\ UNCHANGED <<log_counters, totals, written, opened, opt_log_level, dropped>>
      /\ pc[Main] \notin InsideSteps \cup Opening \cup {"reset"}
      /\ pc'[Main] \notin {"dead", "reset"} \cup Opening
      /\ in_log_write' <=> pc'[Main] \in InsideSteps
      /\ pc'[Main] = "count" => loaded'[Main] = log_counters[level'[Main]]
  <2>1. CASE log_write(Main)
    BY <2>1 DEF log_write, StartWrite, Goto, counts, Types, Alone, InsideSteps, Opening
  <2>2. CASE log_write_str(Main)
    BY <2>2 DEF log_write_str, Goto, counts, Types, Alone, InsideSteps, Opening
  <2>3. CASE log_write_record(Main)
    BY <2>3 DEF log_write_record, Goto, counts, Types, Alone, InsideSteps, Opening
  <2>4. CASE Enter(Main)
    BY <2>4 DEF Enter, Goto, counts, Types, Alone, InsideSteps, Opening
  <2> QED BY <2>1, <2>2, <2>3, <2>4
<1>2. \A t \in Threads \ {Main} : pc'[t] = "idle"
  BY <1>1 DEF Alone, Types
<1>3. \A l \in Levels : totals'[l] + Left(l)' = written'[l]
  BY <1>1, NotCounted
<1>4. pc[Main] # "dead"
  BY DEF log_write, log_write_str, log_write_record, Enter
<1> QED BY <1>1, <1>2, <1>3, <1>4 DEF Alone, Opening

LEMMA AloneCounts ==
  ASSUME Types, Types', Alone, Count(Main)
  PROVE  Alone'
<1> USE FactsHold DEF Facts
<1>1. /\ pc[Main] = "count" /\ pc' = [pc EXCEPT ![Main] = "log_write_record"]
      /\ log_counters' = [log_counters EXCEPT ![level[Main]] = loaded[Main] + 1]
      /\ written' = [written EXCEPT ![level[Main]] = @ + 1]
      /\ UNCHANGED <<opt_log_level, in_log_write, totals, opened, level, dropped>>
      /\ level[Main] \in Levels
  BY DEF Count, Goto, Types
<1>2. pc'[Main] = "log_write_record" /\ \A t \in Threads \ {Main} : pc'[t] = "idle"
  BY <1>1 DEF Alone, Types
<1>3. ASSUME NEW l \in Levels PROVE totals'[l] + Left(l)' = written'[l]
  <2>1. totals[l] + log_counters[l] = written[l] /\ loaded[Main] = log_counters[level[Main]]
    BY <1>1 DEF Alone, Left
  <2>2. totals[l] \in Nat /\ log_counters[l] \in Nat /\ written[l] \in Nat
    BY DEF Types
  <2>3. log_counters'[l] = IF l = level[Main] THEN log_counters[l] + 1 ELSE log_counters[l]
    BY <1>1, <2>1 DEF Types
  <2>4. written'[l] = IF l = level[Main] THEN written[l] + 1 ELSE written[l]
    BY <1>1 DEF Types
  <2>5. Left(l)' = log_counters'[l]
    BY <1>2 DEF Left
  <2> QED BY <1>1, <2>1, <2>2, <2>3, <2>4, <2>5
<1> QED BY <1>1, <1>2, <1>3 DEF Alone, InsideSteps, Opening

LEMMA AloneOpens ==
  ASSUME Types, Types', Alone, UseStatic(Main) \/ Open(Main) \/ Push(Main)
  PROVE  Alone'
<1> USE FactsHold DEF Facts
<1>1. CASE UseStatic(Main)
  <2> DEFINE s == UsesOf(pc[Main])
  <2>1. /\ pc[Main] \in {"LogCounters", "LogStorage", "UpdateCounters"}
        /\ UNCHANGED <<in_log_write, log_counters, totals, written, level, loaded, dropped>>
        /\ pc' = [pc EXCEPT ![Main] = pc'[Main]]
    BY <1>1 DEF UseStatic, counts, Goto, Types
  <2>2. s \in Statics /\ opened[s] \notin {"opening", "failed"}
    BY <2>1 DEF UsesOf, Statics, Alone
  <2>3. CASE opened[s] = "yes"
    <3>1. pc'[Main] = AfterUse(pc[Main]) /\ UNCHANGED <<opened, opt_log_level>>
      BY <1>1, <2>3 DEF UseStatic, Goto, Types
    <3>2. pc'[Main] = CASE pc[Main] = "LogCounters"    -> "LogStorage"
                        [] pc[Main] = "LogStorage"     -> "Push"
                        [] pc[Main] = "UpdateCounters" -> "idle"
      BY <3>1 DEF AfterUse
    <3>3. \A l \in Levels : totals'[l] + Left(l)' = written'[l]
      BY <2>1, <3>2, NotCounted
    <3> QED BY <2>1, <3>1, <3>2, <3>3 DEF Alone, Types, InsideSteps, Opening
  <2>4. CASE opened[s] = "no"
    <3>1. /\ opened' = [opened EXCEPT ![s] = "opening"]
          /\ opt_log_level' = DuringOpen(opt_log_level)
          /\ pc'[Main] = IF pc[Main] = "UpdateCounters" THEN "open_for_timer"
                         ELSE IF s = "LogCounters" THEN "open_counters" ELSE "open_storage"
      BY <1>1, <2>4 DEF UseStatic, Goto, Types
    <3>2. opt_log_level' = LOG_LEVEL_DISABLED
      BY <3>1 DEF DuringOpen
    <3>3. \A l \in Levels : totals'[l] + Left(l)' = written'[l]
      BY <2>1, <3>1, NotCounted
    <3>4. /\ opened'["LogCounters"] = "opening" => pc'[Main] = "open_counters"
          /\ opened'["LogStorage"] = "opening" => pc'[Main] \in {"open_storage", "open_for_timer"}
      BY <2>1, <2>2, <3>1 DEF Alone, Types, UsesOf, Statics
    <3> QED BY <2>1, <3>1, <3>2, <3>3, <3>4 DEF Alone, Types, InsideSteps, UsesOf
  <2>5. opened[s] \in {"no", "opening", "yes", "failed"}
    BY <2>2 DEF Types
  <2> QED BY <2>2, <2>3, <2>4, <2>5
<1>2. CASE Open(Main)
  <2>1. /\ pc[Main] \in Opening /\ opt_log_level = LOG_LEVEL_DISABLED
        /\ ~ is_log_enabled(LOG_LEVEL_INFO)
    BY <1>2 DEF Open, Alone, Opening, is_log_enabled, LOG_LEVEL_INFO, LOG_LEVEL_DISABLED
  <2>0. CASE FailsToOpen(Main)
    <3>1. /\ opened' = [opened EXCEPT ![OpenedHere(pc[Main])] = "failed"]
          /\ pc' = [pc EXCEPT ![Main] = "dead"]
          /\ UNCHANGED <<log_counters, written, dropped, in_log_write, totals, level, loaded>>
      BY <1>2, <2>0 DEF Open, FailsToOpen, Goto
    <3>2. pc'[Main] = "dead" /\ OpenedHere(pc[Main]) \in {"LogCounters", "LogStorage"}
      BY <3>1 DEF Types, OpenedHere
    <3>3. opened'["LogCounters"] = "failed" \/ opened'["LogStorage"] = "failed"
      BY <3>1, <3>2 DEF Types, Statics
    <3>4. opened'["LogCounters"] # "opening" /\ opened'["LogStorage"] # "opening"
      BY <2>1, <3>1 DEF Alone, Types, OpenedHere, Statics, Opening
    <3>5. \A l \in Levels : totals'[l] + Left(l)' = written'[l]
      BY <2>1, <3>1, <3>2, NotCounted DEF Opening
    <3> QED BY <3>1, <3>2, <3>3, <3>4, <3>5 DEF Alone, Types, Opening
  <2> SUFFICES ASSUME Opens(Main) PROVE Alone'
    BY <1>2, <2>0 DEF Open
  <2>2. /\ opened' = [opened EXCEPT ![OpenedHere(pc[Main])] = "yes"]
        /\ UNCHANGED <<log_counters, written, dropped, in_log_write, totals, level, loaded>>
        /\ pc' = [pc EXCEPT ![Main] = AfterOpen(pc[Main])]
    BY <1>2, <2>1 DEF Open, Opens, Goto
  <2>3. pc'[Main] = CASE pc[Main] = "open_counters"  -> "LogStorage"
                      [] pc[Main] = "open_storage"   -> "Push"
                      [] pc[Main] = "open_for_timer" -> "idle"
    BY <2>2 DEF Types, AfterOpen
  <2>4. \A s \in {"LogCounters", "LogStorage"} : opened'[s] \notin {"opening", "failed"}
    BY <2>1, <2>2 DEF Alone, Types, OpenedHere, Statics, Opening
  <2>5. \A l \in Levels : totals'[l] + Left(l)' = written'[l]
    BY <2>1, <2>2, <2>3, NotCounted DEF Opening
  <2> QED BY <2>1, <2>2, <2>3, <2>4, <2>5 DEF Alone, Types, InsideSteps, Opening
<1>3. CASE Push(Main)
  <2>1. /\ pc[Main] = "Push" /\ pc' = [pc EXCEPT ![Main] = back[Main]]
        /\ in_log_write' = FALSE /\ back[Main] \in {"idle", "set_level"}
        /\ UNCHANGED <<opt_log_level, log_counters, totals, written, opened, level, loaded, dropped>>
    BY <1>3 DEF Push, Goto, counts, Types
  <2>2. \A l \in Levels : totals'[l] + Left(l)' = written'[l]
    BY <2>1, NotCounted DEF Types
  <2> QED BY <2>1, <2>2 DEF Alone, Types, InsideSteps, Opening
<1> QED BY <1>1, <1>2, <1>3

LEMMA AloneTimer ==
  ASSUME Types, Types', Alone, Timer
  PROVE  Alone'
<1> USE FactsHold DEF Facts
<1>1. CASE Periodic \/ SetLevel
  <2>1. /\ pc' = [pc EXCEPT ![Main] = pc'[Main]]
        /\ pc[Main] \in {"idle", "set_level"}
        /\ pc'[Main] \in {"log_write_str", "set_level", "transfer"}
        /\ UNCHANGED <<in_log_write, log_counters, totals, written, opened, loaded, dropped>>
    BY <1>1 DEF Periodic, SetLevel, StartWrite, Goto, counts, Types
  <2>2. \A l \in Levels : totals'[l] + Left(l)' = written'[l]
    BY <2>1, NotCounted
  <2> QED BY <2>1, <2>2 DEF Alone, Types, InsideSteps, Opening
<1>2. CASE Transfer
  <2>1. CASE todo = {}
    <3>1. /\ pc[Main] = "transfer" /\ pc' = [pc EXCEPT ![Main] = "UpdateCounters"]
          /\ UNCHANGED <<opt_log_level, in_log_write, log_counters, totals, written, opened, loaded, dropped>>
      BY <1>2, <2>1 DEF Transfer, Goto
    <3>2. \A l \in Levels : totals'[l] + Left(l)' = written'[l]
      BY <3>1, NotCounted DEF Types
    <3> QED BY <3>1, <3>2 DEF Alone, Types, InsideSteps, Opening
  <2>2. CASE todo # {}
    <3>1. PICK k \in todo :
            /\ pc[Main] = "transfer" /\ pc' = [pc EXCEPT ![Main] = "reset"]
            /\ totals' = [totals EXCEPT ![k] = @ + log_counters[k]]
            /\ level' = [level EXCEPT ![Main] = k]
            /\ UNCHANGED <<opt_log_level, in_log_write, log_counters, written, opened, loaded, dropped>>
      BY <1>2, <2>2 DEF Transfer, Goto
    <3>2. pc'[Main] = "reset" /\ level'[Main] = k
      BY <3>1 DEF Types
    <3>3. ASSUME NEW l \in Levels PROVE totals'[l] + Left(l)' = written'[l]
      <4>1. totals[l] + log_counters[l] = written[l]
        BY <3>1 DEF Alone, Left
      <4>2. totals'[l] = IF l = k THEN totals[l] + log_counters[l] ELSE totals[l]
        BY <3>1 DEF Types
      <4>3. Left(l)' = IF l = k THEN 0 ELSE log_counters[l]
        BY <3>1, <3>2 DEF Left
      <4> QED BY <3>1, <4>1, <4>2, <4>3 DEF Types
    <3> QED BY <3>1, <3>2, <3>3 DEF Alone, Types, InsideSteps, Opening
  <2> QED BY <2>1, <2>2
<1>3. CASE Reset
  <2>1. /\ pc[Main] = "reset" /\ pc' = [pc EXCEPT ![Main] = "transfer"]
        /\ log_counters' = [log_counters EXCEPT ![level[Main]] = 0]
        /\ UNCHANGED <<opt_log_level, in_log_write, totals, written, opened, level, loaded, dropped>>
    BY <1>3 DEF Reset, Goto
  <2>2. pc'[Main] = "transfer"
    BY <2>1 DEF Types
  <2>3. ASSUME NEW l \in Levels PROVE totals'[l] + Left(l)' = written'[l]
    <3>1. Left(l)' = IF l = level[Main] THEN 0 ELSE log_counters[l]
      BY <2>1, <2>2 DEF Left, Types
    <3>2. Left(l) = IF l = level[Main] THEN 0 ELSE log_counters[l]
      BY <2>1 DEF Left
    <3> QED BY <2>1, <3>1, <3>2 DEF Alone
  <2> QED BY <2>1, <2>2, <2>3 DEF Alone, Types, InsideSteps, Opening
<1> QED BY <1>1, <1>2, <1>3 DEF Timer

OneInv == Types /\ (OneThread => Alone)

LEMMA OneKept ==
  ASSUME OneInv, [Next]_vars
  PROVE  OneInv'
<1>1. Types /\ Types'
  BY TypesKept DEF OneInv
<1> SUFFICES ASSUME OneThread' PROVE Alone'
  BY <1>1 DEF OneInv
<1>2. scenario' = scenario
  BY DEF Next, vars
<1>3. Alone /\ scenario.threads = {Main}
  BY <1>2 DEF OneInv, OneThread
<1>4. CASE \E t \in scenario.threads : log_write(t) \/ Continue(t)
  BY <1>1, <1>3, <1>4, AloneWrites, AloneCounts, AloneOpens DEF Continue
<1>5. CASE Timer
  BY <1>1, <1>3, <1>5, AloneTimer
<1>6. CASE ChangeSetting
  BY <1>3, <1>6 DEF ChangeSetting, counts, Alone, Left
<1>7. CASE UNCHANGED vars
  BY <1>3, <1>7 DEF vars, counts, Alone, Left
<1> QED BY <1>1, <1>4, <1>5, <1>6, <1>7, OneStep

LEMMA OneInvariant == Spec => []OneInv
<1>1. Init => OneInv
  BY TypesInit, AloneInit DEF OneInv
<1>2. OneInv /\ [Next]_vars => OneInv'
  BY OneKept
<1> QED BY <1>1, <1>2, PTL DEF Spec

(* With one thread the flag turns no record away, and the process ends only*)
(* over a file that cannot be opened, whatever was open before the first   *)
(* message and whatever cannot be opened.                                  *)
THEOREM AloneNothingDropped == Spec => []NothingDropped
<1>1. OneInv => NothingDropped
  BY DEF OneInv, NothingDropped, Alone, Alive, Statics
<1> QED BY <1>1, OneInvariant, PTL

(* With one thread every message is counted, once.                         *)
THEOREM AloneCountedOnce == Spec => []CountedOnce
<1>1. OneInv => CountedOnce
  BY DEF OneInv, CountedOnce, Alone, Left
<1> QED BY <1>1, OneInvariant, PTL

=============================================================================
