------------------------------- MODULE Status -------------------------------
(***************************************************************************)
(* What a watcher is told of the queues and the processes of a machine.    *)
(*                                                                         *)
(* Whoever has a queue open publishes its state in the shared counters     *)
(* (ShmBufferEx::UpdateCounters), and every process its last sign of life  *)
(* (UptimeUpdate).  The watcher, a process of its own, opens no queue:     *)
(* CheckAllStatus and UptimeCheckStatus read those counters, one by one.   *)
(*                                                                         *)
(* The dictionaries are module Counters: here they are the names, of the   *)
(* counters with their values, and finding or adding a name is one step.   *)
(* The queue is module ShmBufferEx: here it is its capacity(), data_size() *)
(* and lock, and its drops are errors; how a file is opened is module      *)
(* ShmOpen, what a history tells is module HistoryCounter.                 *)
(***************************************************************************)
EXTENDS Integers, Sequences

CONSTANTS
  Queues,        (* Names of queues.                                        *)
  Users,         (* Processes that have a queue open and publish its state. *)
  Processes,     (* Processes that show that they live.                     *)
  Capacities,    (* Capacities that a queue may be made with.               *)
  WarnAfter,     (* Seconds of silence before a warning (3 in the code) ... *)
  CriticalAfter, (* ... and before it is critical (10).                     *)
  Scenarios      (* Who of them is there, whose fill the watcher ignores,   *)
                 (* how many places the dictionary of the counters and that *)
                 (* of the histories have left, what the histories of errors*)
                 (* may tell, with which of the capacities they are made,   *)
                 (* and bounds on how often a queue is made, on the deaths  *)
                 (* and on the seconds.                                     *)

ASSUME StatusAssumption ==
  /\ Queues # {}
  /\ Capacities \subseteq Nat \ {0}
  /\ WarnAfter \in Nat /\ CriticalAfter \in Nat /\ WarnAfter < CriticalAfter
  /\ Scenarios \subseteq [queues : SUBSET Queues, users : SUBSET Users,
                          processes : SUBSET Processes, ignore : SUBSET Queues, room : Nat,
                          places : Nat, errors : SUBSET {"none", "interval", "last"},
                          capacities : SUBSET Capacities,
                          files : Nat, deaths : Nat, seconds : Nat]
  /\ \A s \in Scenarios : "none" \in s.errors

status_ok == 0
status_warning == 1
status_critical == 2

INVALID_COUNTER_VALUE == -1

\* Mutant: the capacity is told before there is anything to compare with it.
Gauges_CapacityFirst == <<"capacity", "count", "used_bp", "used">>

(* What UpdateCounters publishes, in this order.                           *)
Gauges == <<"count", "used_bp", "used", "capacity">>

\* And the histories that it then adds its batches to; drops are errors here.
Batches == <<"drop", "error", "message">>

VARIABLES
  counter,   (* the value of each counter that is in the dictionary         *)
  room,      (* places left in the dictionary                               *)
  file,      (* per queue, what was made under its name, one after the other*)
  linked,    (* per queue, the one that the name stands for, or 0           *)
  history,   (* the names in the dictionary of the histories                *)
  places,    (* places left in it                                           *)
  errors,    (* per queue, what its error history tells: nothing, errors in *)
             (* the interval, or in the last second                         *)
  user,      (* per user: what it does, the queue and file it has open, the *)
             (* gauge or batch it is at, the handles that have found their  *)
             (* counter or their history                                    *)
  process,   (* per process: what it does, its two handles, its time        *)
  clock,     (* gettimeofday, in seconds                                    *)
  deaths,
  check,     (* the watcher: where it is, and its local variables           *)
  roomy, clean,
             (* history variables: the queues that had room, by their       *)
             (* counters, or were without errors at some moment of the check*)
  known,     (* history variable: the queues whose gauges were all published*)
  scenario   (* one of Scenarios, for good                                  *)

told      == <<roomy, clean>>
publish   == <<counter, room>>
queue     == <<file, linked>>
histories == <<history, places, errors>>
vars      == <<publish, queue, histories, user, process, clock, deaths, check, told, known, scenario>>

-----------------------------------------------------------------------------
(* Handles.                                                                *)

(* GetCounterIndex: a name that is not there is added, with the value 0, if*)
(* there is room.                                                          *)
FindOrAdd(n) ==
  IF n \in DOMAIN counter \/ room = 0
  THEN UNCHANGED publish
  ELSE /\ counter' = [m \in DOMAIN counter \cup {n} |-> IF m = n THEN 0 ELSE counter[m]]
       /\ room' = room - 1

(* A handle that was refused writes to def_value, which nobody reads here. *)
Write(found, n, value) ==
  counter' = IF found THEN [counter EXCEPT ![n] = value] ELSE counter

(* GetCounterPtr of the histories: Add, which in a full dictionary finds no *)
(* name, not even one that is there.                                       *)
GetCounterPtr(n) ==
  IF places = 0
  THEN UNCHANGED <<history, places>>
  ELSE /\ history' = history \cup {n}
       /\ places' = IF n \in history THEN places ELSE places - 1

GetCounterValue(n) == IF n \in DOMAIN counter THEN counter[n] ELSE INVALID_COUNTER_VALUE

-----------------------------------------------------------------------------
(* Those who have a queue open.                                            *)

Handles(pc, q, inode) ==
  [pc |-> pc, queue |-> q, inode |-> inode, gauge |-> 1, found |-> {}, bound |-> {}, value |-> 0]

Closed == Handles("closed", CHOOSE q \in Queues : TRUE, 0)

(* ShmBufferEx::Open: the file is made, or found; the handles get their    *)
(* names; and UpdateCounters.                                              *)
Open(u, q) ==
  /\ user[u].pc = "closed"
  /\ IF linked[q] # 0
     THEN UNCHANGED queue
     ELSE /\ Len(file[q]) < scenario.files
          /\ \E c \in scenario.capacities :
               file' = [file EXCEPT ![q] = Append(@, [capacity |-> c, used |-> 0, locked |-> FALSE])]
          /\ linked' = [linked EXCEPT ![q] = Len(file[q]) + 1]
  /\ user' = [user EXCEPT ![u] = Handles("find", q, linked'[q])]
  /\ UNCHANGED <<publish, histories, process, clock, deaths, check, known>>

(* The number is taken from the queue, and the handle looks for its        *)
(* counter: LazyCounter::Init, at every use until it has found it.  What   *)
(* count and used_bp say is left out.                                      *)
UpdateFind(u) ==
  LET name == <<user[u].queue, Gauges[user[u].gauge]>>
      data == file[user[u].queue][user[u].inode]
  IN  /\ user[u].pc = "find"
      /\ IF name[2] \in user[u].found THEN UNCHANGED publish ELSE FindOrAdd(name)
      /\ user' = [user EXCEPT
           ![u].pc = "store",
           ![u].found = IF name \in DOMAIN counter' THEN @ \cup {name[2]} ELSE @,
           ![u].value = CASE name[2] = "used"     -> data.used
                          [] name[2] = "capacity" -> data.capacity
                          [] OTHER                -> 0]
      /\ UNCHANGED <<queue, histories, process, clock, deaths, check, known>>

(* It is stored.                                                           *)
UpdateStore(u) ==
  LET name == <<user[u].queue, Gauges[user[u].gauge]>>
      last == user[u].gauge = Len(Gauges)
  IN  /\ user[u].pc = "store"
      /\ Write(name[2] \in user[u].found, name, user[u].value)
      /\ user' = [user EXCEPT ![u].pc = IF last THEN "transfer" ELSE "find",
                              ![u].gauge = IF last THEN 1 ELSE @ + 1,
                              ![u].value = 0]
      /\ known' = IF last THEN known \cup {user[u].queue} ELSE known
      /\ UNCHANGED <<room, queue, histories, process, clock, deaths, check>>

\* What GetInfo tells after a batch, of errors or of none, and some time.
AfterBatch(told_errors) ==
  scenario.errors \cap
    (IF told_errors = "none" THEN {"none", "interval"} ELSE {"none", "interval", "last"})

(* Under the lock of the queue, one batch after the other goes to its      *)
(* history, which its handle looks for until it has found it.  A handle    *)
(* that gets NULL uses it: the process is gone, and the lock with it.      *)
Transfer(u) ==
  LET q     == user[u].queue
      batch == Batches[user[u].gauge]
      last  == user[u].gauge = Len(Batches)
      null  == batch \notin user[u].bound /\ places = 0
      bound == [user[u] EXCEPT !.pc = IF last THEN "open" ELSE "transfer",
                               !.gauge = IF last THEN 1 ELSE @ + 1,
                               !.bound = @ \cup {batch}]
  IN  /\ user[u].pc = "transfer"
      /\ user[u].gauge = 1 => ~file[q][user[u].inode].locked
      /\ file' = [file EXCEPT ![q][user[u].inode].locked = null \/ ~last]
      /\ IF batch \in user[u].bound THEN UNCHANGED <<history, places>> ELSE GetCounterPtr(<<q, batch>>)
      /\ user' = [user EXCEPT ![u] = IF null THEN Closed ELSE bound]
      /\ IF batch = "error" /\ ~null
         THEN \E e \in AfterBatch(errors[q]) : errors' = [errors EXCEPT ![q] = e]
         ELSE UNCHANGED errors
      /\ UNCHANGED <<publish, linked, process, clock, deaths, check, known>>

\* UpdateCounters of a queue that is open, by its user or for its CheckStatus.
Update(u) ==
  /\ user[u].pc = "open"
  /\ user' = [user EXCEPT ![u].pc = "find"]
  /\ UNCHANGED <<publish, queue, histories, process, clock, deaths, check, known>>

\* It closes the queue, or dies, wherever it is.
Gone(u) ==
  /\ user[u].pc # "closed"
  /\ deaths < scenario.deaths
  /\ deaths' = deaths + 1
  /\ user' = [user EXCEPT ![u] = Closed]
  /\ UNCHANGED <<publish, queue, histories, process, clock, check, known>>

(* Pushes and pops: the queue is some four fifths full, or drained at the  *)
(* seam, when data_size says one byte more than the capacity.              *)
Fills(c) == {c - 1, c + 1}

Traffic(q) ==
  /\ \E u \in Users :
       /\ user[u].pc # "closed" /\ user[u].queue = q
       /\ ~file[q][user[u].inode].locked
       /\ \E n \in Fills(file[q][user[u].inode].capacity) :
            file' = [file EXCEPT ![q][user[u].inode].used = n]
  /\ UNCHANGED <<publish, linked, histories, user, process, clock, deaths, check, known>>

\* Somebody removes the file under the name.
Remove(q) ==
  /\ linked[q] # 0
  /\ Len(file[q]) < scenario.files
  /\ linked' = [linked EXCEPT ![q] = 0]
  /\ UNCHANGED <<publish, file, histories, user, process, clock, deaths, check, known>>

-----------------------------------------------------------------------------
(* Processes that show that they live.                                     *)

(* It has no handles, and has last taken the time at now.                  *)
Unnamed(now) ==
  [pc |-> "idle", already_init |-> FALSE, last_active |-> FALSE, uptime |-> FALSE, now |-> now]

Goto(p, step) == process' = [process EXCEPT ![p].pc = step]

(* UptimeUpdate: the names are looked up once ...                          *)
UptimeUpdate(p) ==
  /\ process[p].pc = "idle"
  /\ Goto(p, IF process[p].already_init THEN "now" ELSE "last_active")
  /\ UNCHANGED <<publish, queue, histories, user, clock, deaths, check, known>>

(* ... Counter::SetName, refused for good if there is no room ...          *)
SetName(p) ==
  /\ process[p].pc \in {"last_active", "uptime"}
  /\ LET name == <<p, process[p].pc>>
     IN  /\ FindOrAdd(name)
         /\ process' = [process EXCEPT
              ![p].pc           = IF @ = "last_active" THEN "uptime" ELSE "now",
              ![p].already_init = name[2] = "uptime",
              ![p].last_active  = IF name[2] = "last_active" THEN name \in DOMAIN counter' ELSE @,
              ![p].uptime       = IF name[2] = "uptime" THEN name \in DOMAIN counter' ELSE @]
  /\ UNCHANGED <<queue, histories, user, clock, deaths, check, known>>

(* ... then the time is taken ...                                          *)
TakeTime(p) ==
  /\ process[p].pc = "now"
  /\ process' = [process EXCEPT ![p].pc = "store", ![p].now = clock]
  /\ UNCHANGED <<publish, queue, histories, user, clock, deaths, check, known>>

(* ... and written.  What uptime says is left out.                         *)
StoreTime(p) ==
  /\ process[p].pc = "store"
  /\ Write(process[p].last_active, <<p, "last_active">>, process[p].now)
  /\ Goto(p, "idle")
  /\ UNCHANGED <<room, queue, histories, user, clock, deaths, check, known>>

UptimeReset(p) ==
  /\ process[p].pc = "idle" /\ process[p].already_init
  /\ process' = [process EXCEPT ![p] = Unnamed(@.now)]
  /\ UNCHANGED <<publish, queue, histories, user, clock, deaths, check, known>>

\* It dies, and may come back.
Die(p) ==
  /\ process[p].pc # "idle" \/ process[p].already_init
  /\ deaths < scenario.deaths
  /\ deaths' = deaths + 1
  /\ process' = [process EXCEPT ![p] = Unnamed(@.now)]
  /\ UNCHANGED <<publish, queue, histories, user, clock, check, known>>

Start == CriticalAfter + 1

Tick ==
  /\ clock < Start + scenario.seconds
  /\ clock' = clock + 1
  /\ UNCHANGED <<publish, queue, histories, user, process, deaths, check, known>>

-----------------------------------------------------------------------------
(* The watcher.                                                            *)

Idle == [pc |-> "idle", kind |-> "none", todo |-> {}, listed |-> {}, status |-> status_ok,
         name |-> "none", errors |-> "none", used |-> 0, last_active |-> 0,
         began |-> 0]

Watch(next) ==
  /\ check' = next
  /\ UNCHANGED <<publish, queue, histories, user, process, clock, deaths, known>>

(* CheckAllStatus: the queues are those whose capacity has a name.  The    *)
(* listing takes no lock, and while a name is being added it may miss one  *)
(* (module Counters).                                                      *)
Inserting ==
  \/ \E u \in Users : user[u].pc = "find" /\ Gauges[user[u].gauge] \notin user[u].found
  \/ \E p \in Processes : process[p].pc \in {"last_active", "uptime"}

CheckAllStatus ==
  /\ check.pc = "idle"
  /\ LET all == {q \in Queues : <<q, "capacity">> \in DOMAIN counter}
     IN  \E listed \in {all} \cup {all \ {q} : q \in IF Inserting THEN all ELSE {}} :
           Watch([Idle EXCEPT !.pc = "queue", !.kind = "queues", !.listed = listed, !.todo = listed])

\* A queue whose file is gone is passed over ...
ReadQueue ==
  /\ check.pc = "queue"
  /\ \E q \in check.todo :
       Watch(IF linked[q] = 0
             THEN [check EXCEPT !.todo = @ \ {q}]
             ELSE [check EXCEPT !.pc = "message", !.todo = @ \ {q}, !.name = q])

(* ... of another one the histories are read, in this order.  One that is  *)
(* not there takes a place; without a pointer the numbers are all zero.    *)
ReadHistory ==
  /\ check.pc \in {"message", "drop", "error"}
  /\ GetCounterPtr(<<check.name, check.pc>>)
  /\ check' = [check EXCEPT
       !.pc     = CASE @ = "message" -> "drop" [] @ = "drop" -> "error" [] @ = "error" -> "used",
       !.errors = IF check.pc = "error" /\ places # 0 THEN errors[check.name] ELSE "none"]
  /\ UNCHANGED <<publish, queue, errors, user, process, clock, deaths, known>>

(* ... then used ...                                                       *)
ReadUsed ==
  /\ check.pc = "used"
  /\ Watch([check EXCEPT !.pc = "capacity", !.used = GetCounterValue(<<check.name, "used">>)])

(* data_size * 100 / capacity, in size_t: INT64_MIN, which stands for no   *)
(* counter, times 100 is 0 in 64 bits.                                     *)
Full(used, capacity) == IF used = INVALID_COUNTER_VALUE THEN 0 ELSE (used * 100) \div capacity

Larger(s, t) == IF s > t THEN s ELSE t

\* Mutant: the fill is judged, and the errors only if it is not alarming.
CheckStatus_ElseErrors(full, told_errors) ==
  IF full > 90 THEN status_critical
  ELSE IF full > 80 THEN status_ok
  ELSE CASE told_errors = "last" -> status_critical
         [] told_errors = "interval" -> status_warning
         [] OTHER -> status_ok

(* CheckStatus of what was read.                                           *)
CheckStatus(full, told_errors) ==
  Larger(CASE full > 90                -> status_critical
           [] full > 80 /\ full <= 90  -> status_warning
           [] OTHER                    -> status_ok,
         CASE told_errors = "last"     -> status_critical
           [] told_errors = "interval" -> status_warning
           [] OTHER                    -> status_ok)

(* ... and capacity, and the queue is judged, unless the division by zero  *)
(* ends the watcher.  The worst of all queues is the answer.               *)
ReadCapacity ==
  /\ check.pc = "capacity"
  /\ LET capacity == GetCounterValue(<<check.name, "capacity">>)
         ignored  == check.name \in scenario.ignore
     IN  Watch(IF capacity = 0 /\ ~ignored
               THEN [check EXCEPT !.pc = "dead"]
               ELSE [check EXCEPT
                      !.pc = "queue",
                      !.status = Larger(@, CheckStatus(IF ignored THEN 0 ELSE Full(check.used, capacity),
                                                       check.errors))])

(* UptimeCheckStatus, of the processes that it is given, in any order.     *)
UptimeCheckStatus ==
  /\ check.pc = "idle"
  /\ Watch([Idle EXCEPT !.pc = "process", !.kind = "processes", !.listed = scenario.processes,
                        !.todo = scenario.processes, !.began = clock])

ReadLastActive ==
  /\ check.pc = "process"
  /\ \E p \in check.todo :
       LET value == GetCounterValue(<<p, "last_active">>)
       IN  Watch(IF value = INVALID_COUNTER_VALUE
                 THEN [check EXCEPT !.todo = @ \ {p}, !.status = status_critical]
                 ELSE [check EXCEPT !.todo = @ \ {p}, !.pc = "age", !.name = p, !.last_active = value])

Abs(n) == IF n < 0 THEN -n ELSE n

\* Mutant: the last process is the answer.
Judged_LastCounts(not_active, status) ==
  CASE not_active > CriticalAfter                              -> status_critical
    [] not_active > WarnAfter /\ not_active <= CriticalAfter   -> status_warning
    [] OTHER                                                   -> status_ok

(* A warning takes the place of what was said before, also of something    *)
(* critical.                                                               *)
Judged(not_active, status) ==
  CASE not_active > CriticalAfter                              -> status_critical
    [] not_active > WarnAfter /\ not_active <= CriticalAfter   -> status_warning
    [] OTHER                                                   -> status

Age ==
  /\ check.pc = "age"
  /\ Watch([check EXCEPT !.pc = "process",
                         !.status = Judged(Abs(clock - check.last_active), @)])

Answer ==
  /\ check.pc \in {"queue", "process"}
  /\ check.todo = {}
  /\ Watch([check EXCEPT !.pc = "answered"])

Forget ==
  /\ check.pc \in {"answered", "dead"}
  /\ Watch(Idle)

-----------------------------------------------------------------------------

Init ==
  /\ scenario \in Scenarios
  /\ counter = <<>>
  /\ room = scenario.room
  /\ file = [q \in Queues |-> <<>>]
  /\ linked = [q \in Queues |-> 0]
  /\ history = {} /\ places = scenario.places
  /\ errors = [q \in Queues |-> "none"]
  /\ user = [u \in Users |-> Closed]
  /\ process = [p \in Processes |-> Unnamed(0)]
  /\ clock = Start
  /\ deaths = 0
  /\ check = Idle
  /\ roomy = {} /\ clean = {}
  /\ known = {}

(* What the counters of a queue say at this moment.                        *)
Percent(q) ==
  LET capacity == GetCounterValue(<<q, "capacity">>)
  IN  IF capacity <= 0 THEN 0 ELSE Full(GetCounterValue(<<q, "used">>), capacity)

Passed(q) == linked[q] = 0 \/ q \in scenario.ignore

Notes ==
  LET from(s) == IF check.pc = "idle" THEN {} ELSE s
      q0      == IF check'.kind = "queues" THEN scenario.queues ELSE {}
  IN  /\ roomy' = from(roomy) \cup {q \in q0 : (Passed(q) \/ Percent(q) <= 80)'}
      /\ clean' = from(clean) \cup {q \in q0 : (linked[q] = 0 \/ errors[q] = "none")'}

Next ==
  /\ UNCHANGED scenario
  /\ \/ \E u \in scenario.users, q \in scenario.queues : Open(u, q)
     \/ \E u \in scenario.users : UpdateFind(u) \/ UpdateStore(u) \/ Transfer(u) \/ Update(u) \/ Gone(u)
     \/ \E q \in scenario.queues : Traffic(q) \/ Remove(q)
     \/ \E p \in scenario.processes :
          UptimeUpdate(p) \/ SetName(p) \/ TakeTime(p) \/ StoreTime(p) \/ UptimeReset(p) \/ Die(p)
     \/ Tick
     \/ CheckAllStatus \/ ReadQueue \/ ReadHistory \/ ReadUsed \/ ReadCapacity
     \/ UptimeCheckStatus \/ ReadLastActive \/ Age \/ Answer \/ Forget
  /\ Notes

Spec == Init /\ [][Next]_vars

-----------------------------------------------------------------------------
(* Properties.                                                             *)

Answered(kind) == check.pc = "answered" /\ check.kind = kind

(* The watcher is told that the queues are well only if each that it was   *)
(* shown had room, and was without errors, at some moment of the check, by *)
(* the counters: neither a queue that comes later nor what is published    *)
(* while it reads hides a full one.  But once the dictionary of the        *)
(* histories is full it finds no errors at all, and of a queue that was    *)
(* made anew it may compare the used of one file with the capacity of      *)
(* another.                                                                *)
WellMeansWell ==
  Answered("queues") /\ check.status = status_ok =>
    /\ check.listed \subseteq clean \/ places = 0
    /\ \A q \in check.listed : q \in roomy \/ Len(file[q]) > 1

(* The watcher never meets a queue without a used, and dies of a queue     *)
(* without a capacity only if nobody has ever published it to the end.     *)
ReadsWhatIsPublished ==
  [][/\ check'.pc = "capacity" => check'.used # INVALID_COUNTER_VALUE
     /\ check.pc # "dead" /\ check'.pc = "dead" => check.name \notin known]_vars

(* Processes are told to be well only if each of them has taken the time   *)
(* in WarnAfter seconds before the check began, or since: whatever becomes *)
(* of their names, and whoever comes after a silent one.                   *)
OkMeansActive ==
  Answered("processes") /\ check.status = status_ok =>
    \A p \in check.listed : process[p].now >= check.began - WarnAfter

=============================================================================
