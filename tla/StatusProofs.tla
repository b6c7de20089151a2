---------------------------- MODULE StatusProofs ----------------------------
(***************************************************************************)
(* What the watcher is told, for any number of queues, users and processes,*)
(* any scenario and any interleaving.                                      *)
(*                                                                         *)
(* The watcher reads two numbers at two moments.  That they belong together*)
(* follows from the order in which UpdateCounters publishes them (GaugeInv)*)
(* and from what has been read so far (QueueInv).  Of a process the watcher*)
(* knows a time that the process had already taken (SignInv).              *)
(***************************************************************************)
EXTENDS Status, TLAPS

Cap(q)  == <<q, "capacity">>
Used(q) == <<q, "used">>
Sign(p) == <<p, "last_active">>

CapacityOf(q) == file[q][1].capacity

Data == [capacity : Capacities, used : Nat, locked : BOOLEAN]

DataTypes ==
  /\ counter \in [DOMAIN counter -> Nat] /\ room \in Nat
  /\ file \in [Queues -> Seq(Data)]
  /\ linked \in [Queues -> Nat]
  /\ errors \in [Queues -> {"none", "interval", "last"}] /\ places \in Nat
  /\ clock \in Nat
  /\ known \subseteq Queues
  /\ scenario \in Scenarios

UserType == [pc : {"closed", "find", "store", "transfer", "open"}, queue : Queues, inode : Nat,
             gauge : 1 .. 4, found : SUBSET {"count", "used_bp", "used", "capacity"},
             bound : SUBSET {"drop", "error", "message"}, value : Nat]

ProcessType == [pc : {"idle", "last_active", "uptime", "now", "store"}, already_init : BOOLEAN,
                last_active : BOOLEAN, uptime : BOOLEAN, now : Nat]

CheckType == [pc : {"idle", "queue", "message", "drop", "error", "used", "capacity",
                    "process", "age", "answered", "dead"},
              kind : {"none", "queues", "processes"},
              todo : SUBSET (Queues \cup Processes), listed : SUBSET (Queues \cup Processes),
              status : {0, 1, 2}, name : Queues \cup Processes \cup {"none"},
              errors : {"none", "interval", "last"}, used : Nat \cup {-1}, last_active : Nat,
              began : Nat]

Types ==
  /\ DataTypes
  /\ user \in [Users -> UserType]
  /\ process \in [Processes -> ProcessType]
  /\ check \in CheckType

(* What a user has open, and how far it is in publishing it.               *)
UserOK(u) ==
  user[u].pc # "closed" =>
    LET q == user[u].queue
        n == <<q, Gauges[user[u].gauge]>>
    IN  /\ q \in scenario.queues /\ user[u].inode \in 1 .. Len(file[q])
        /\ user[u].pc = "transfer" => user[u].gauge \in 1 .. 3
        /\ \A g \in user[u].found : <<q, g>> \in DOMAIN counter
        /\ user[u].gauge = 4 \/ (user[u].gauge = 3 /\ user[u].pc = "store") =>
             Used(q) \in DOMAIN counter \/ room = 0
        /\ user[u].pc = "store" =>
             /\ n[2] \in user[u].found \/ (n \notin DOMAIN counter /\ room = 0)
             /\ user[u].gauge = 4 => user[u].value = file[q][user[u].inode].capacity

UserInv ==
  /\ \A q \in Queues : linked[q] <= Len(file[q])
  /\ \A u \in Users : UserOK(u)

(* What is in the dictionary of a queue.                                   *)
GaugeInv ==
  /\ \A q \in Queues : Cap(q) \in DOMAIN counter =>
       /\ q \in scenario.queues /\ Used(q) \in DOMAIN counter
       /\ Len(file[q]) > 0
       /\ Len(file[q]) > 1 \/ counter[Cap(q)] \in {0, CapacityOf(q)}
  /\ \A q \in known :
       IF Cap(q) \in DOMAIN counter THEN counter[Cap(q)] > 0 ELSE room = 0

(* A sign of life is of a time that the process has taken.                 *)
SignInv ==
  \A p \in Processes :
    /\ process[p].now <= clock
    /\ Sign(p) \in DOMAIN counter => counter[Sign(p)] <= process[p].now

Shared == Types /\ UserInv /\ GaugeInv /\ SignInv

(* What the others may do to what the watcher has read.                    *)
Forward ==
  /\ DOMAIN counter \subseteq DOMAIN counter'
  /\ known \subseteq known'
  /\ clock <= clock'
  /\ places = 0 => places' = 0
  /\ \A p \in Processes : process[p].now <= process'[p].now
  /\ \A q \in Queues :
       /\ Len(file[q]) <= Len(file'[q])
       /\ Len(file[q]) = 1 /\ Len(file'[q]) = 1 => file'[q][1].capacity = file[q][1].capacity
       /\ Cap(q) \in DOMAIN counter /\ counter[Cap(q)] > 0 => counter'[Cap(q)] > 0

Reading == {"message", "drop", "error", "used", "capacity", "age"}

(* The queues or processes that the watcher is done with.                  *)
Done == (check.listed \ check.todo) \ (IF check.pc \in Reading THEN {check.name} ELSE {})

PhaseInv ==
  /\ check.kind = "none"      => check.pc = "idle"
  /\ check.kind = "queues"    => check.pc \in {"queue", "message", "drop", "error", "used", "capacity",
                                              "answered", "dead"}
  /\ check.kind = "processes" => check.pc \in {"process", "age", "answered"}
  /\ check.pc \in Reading => check.name \in check.listed \ check.todo
  /\ check.pc = "answered" => check.todo = {}

Remade(q) == Len(file[q]) > 1

QueueInv ==
  check.kind = "queues" =>
    /\ check.listed \subseteq Queues /\ check.todo \subseteq check.listed
    /\ \A q \in check.listed : Cap(q) \in DOMAIN counter
    /\ check.status = status_ok /\ check.pc # "dead" =>
         \A q \in Done : (q \in clean \/ places = 0) /\ (q \in roomy \/ Remade(q))
    /\ check.pc \in {"used", "capacity"} /\ check.errors = "none" => check.name \in clean \/ places = 0
    /\ check.pc = "capacity" =>
         /\ check.used # INVALID_COUNTER_VALUE
         /\ \/ check.name \in scenario.ignore \cup roomy
            \/ Remade(check.name)
            \/ /\ counter[Cap(check.name)] = CapacityOf(check.name)
               /\ Full(check.used, CapacityOf(check.name)) > 80
         /\ check.name \in scenario.ignore => check.name \in roomy

ProcessInv ==
  check.kind = "processes" =>
    /\ check.listed \subseteq Processes /\ check.todo \subseteq check.listed
    /\ check.began <= clock
    /\ check.pc = "age" => check.last_active <= process[check.name].now
    /\ check.status = status_ok =>
         \A p \in Done : process[p].now >= check.began - WarnAfter

IInv == Shared /\ PhaseInv /\ QueueInv /\ ProcessInv

-----------------------------------------------------------------------------

LEMMA Facts ==
  /\ Queues # {} /\ Capacities \subseteq Nat \ {0}
  /\ WarnAfter \in Nat /\ CriticalAfter \in Nat /\ WarnAfter < CriticalAfter
  /\ \A s \in Scenarios : /\ s.queues \subseteq Queues /\ s.users \subseteq Users
                          /\ s.processes \subseteq Processes
                          /\ s.room \in Nat /\ s.places \in Nat
                          /\ s.errors \subseteq {"none", "interval", "last"}
                          /\ s.capacities \subseteq Capacities
BY StatusAssumption

LEMMA GaugeNames ==
  /\ Len(Gauges) = 4
  /\ \A g \in 1 .. 4 : /\ Gauges[g] \in {"count", "used_bp", "used", "capacity"}
                       /\ Gauges[g] = "capacity" <=> g = 4
                       /\ Gauges[g] = "used" <=> g = 3
BY DEF Gauges

LEMMA BatchNames ==
  Len(Batches) = 3 /\ \A g \in 1 .. 3 : Batches[g] \in {"drop", "error", "message"}
BY DEF Batches

LEMMA HandlesType ==
  ASSUME NEW pc \in {"closed", "find", "store", "transfer", "open"}, NEW q \in Queues, NEW inode \in Nat
  PROVE  Handles(pc, q, inode) \in UserType
BY DEF Handles, UserType

LEMMA ClosedType == Closed \in UserType /\ Closed.pc = "closed"
<1>1. (CHOOSE q \in Queues : TRUE) \in Queues
  BY Facts
<1>2. Closed \in UserType
  BY <1>1, HandlesType DEF Closed
<1> QED BY <1>2 DEF Closed, Handles

LEMMA Found ==
  ASSUME Types, NEW n, FindOrAdd(n)
  PROVE  /\ counter' \in [DOMAIN counter' -> Nat] /\ room' \in Nat
         /\ DOMAIN counter \subseteq DOMAIN counter'
         /\ DOMAIN counter' \subseteq DOMAIN counter \cup {n}
         /\ \A m \in DOMAIN counter : counter'[m] = counter[m]
         /\ room = 0 => counter' = counter /\ room' = 0
         /\ n \notin DOMAIN counter' => room = 0
         /\ n \in DOMAIN counter' /\ n \notin DOMAIN counter => counter'[n] = 0
<1>1. CASE n \in DOMAIN counter \/ room = 0
  BY <1>1 DEF FindOrAdd, publish, Types, DataTypes, histories
<1>2. CASE ~(n \in DOMAIN counter \/ room = 0)
  BY <1>2 DEF FindOrAdd, Types, DataTypes
<1> QED BY <1>1, <1>2

LEMMA Written ==
  ASSUME Types, NEW found \in BOOLEAN, NEW n, NEW value \in Nat, Write(found, n, value)
  PROVE  /\ counter' \in [DOMAIN counter' -> Nat] /\ DOMAIN counter' = DOMAIN counter
         /\ \A m \in DOMAIN counter : m # n => counter'[m] = counter[m]
         /\ n \in DOMAIN counter => counter'[n] = IF found THEN value ELSE counter[n]
BY DEF Write, Types, DataTypes

LEMMA Pointed ==
  ASSUME places \in Nat, NEW n, GetCounterPtr(n)
  PROVE  places' \in Nat /\ (places = 0 => places' = 0)
BY DEF GetCounterPtr

(* A queue's file, as it grows: what was made stays.                       *)
LEMMA OpenInv ==
  ASSUME Shared, NEW u \in Users, NEW q \in scenario.queues, Open(u, q), scenario' = scenario
  PROVE  Shared' /\ Forward
<1> USE DEF Shared
<1>0. q \in Queues /\ u \in Users /\ \A x \in Queues : Len(file[x]) \in Nat
  BY Facts DEF Types, DataTypes
<1>1. /\ UNCHANGED <<counter, room, errors, places, process, clock, check, known>>
      /\ user' = [user EXCEPT ![u] = Handles("find", q, linked'[q])]
  BY DEF Open, publish, histories
<1>2. /\ file' \in [Queues -> Seq(Data)] /\ linked' \in [Queues -> Nat]
      /\ linked'[q] \in 1 .. Len(file'[q])
      /\ \A x \in Queues : linked'[x] <= Len(file'[x])
      /\ \A x \in Queues : Len(file[x]) <= Len(file'[x])
                           /\ \A i \in 1 .. Len(file[x]) : file'[x][i] = file[x][i]
  <2>1. CASE linked[q] # 0
    BY <2>1, <1>0 DEF Open, queue, Types, DataTypes, UserInv, histories
  <2>2. CASE linked[q] = 0
    <3>1. PICK c \in Capacities : file' = [file EXCEPT ![q] = Append(@, [capacity |-> c, used |-> 0, locked |-> FALSE])]
      <4>1. scenario.capacities \subseteq Capacities
        BY Facts DEF Types, DataTypes
      <4> QED BY <2>2, <4>1 DEF Open
    <3>2. linked' = [linked EXCEPT ![q] = Len(file[q]) + 1]
      BY <2>2 DEF Open
    <3>3. [capacity |-> c, used |-> 0, locked |-> FALSE] \in Data
      BY DEF Data
    <3>4. file[q] \in Seq(Data)
      BY <1>0 DEF Types, DataTypes
    <3>5. /\ Append(file[q], [capacity |-> c, used |-> 0, locked |-> FALSE]) \in Seq(Data)
          /\ Len(Append(file[q], [capacity |-> c, used |-> 0, locked |-> FALSE])) = Len(file[q]) + 1
          /\ \A i \in 1 .. Len(file[q]) : Append(file[q], [capacity |-> c, used |-> 0, locked |-> FALSE])[i] = file[q][i]
      BY <3>3, <3>4
    <3>6. /\ file' \in [Queues -> Seq(Data)] /\ linked' \in [Queues -> Nat]
      BY <1>0, <3>1, <3>2, <3>5 DEF Types, DataTypes
    <3>7. /\ file'[q] = Append(file[q], [capacity |-> c, used |-> 0, locked |-> FALSE]) /\ linked'[q] = Len(file[q]) + 1
          /\ \A x \in Queues : x # q => file'[x] = file[x] /\ linked'[x] = linked[x]
      BY <1>0, <3>1, <3>2 DEF Types, DataTypes
    <3>8. ASSUME NEW x \in Queues
          PROVE  /\ linked'[x] <= Len(file'[x]) /\ Len(file[x]) <= Len(file'[x])
                 /\ \A i \in 1 .. Len(file[x]) : file'[x][i] = file[x][i]
      <4>1. CASE x = q
        BY <4>1, <1>0, <3>5, <3>7
      <4>2. CASE x # q
        BY <4>2, <1>0, <3>7 DEF UserInv
      <4> QED BY <4>1, <4>2
    <3>9. linked'[q] \in 1 .. Len(file'[q])
      BY <1>0, <3>5, <3>7
    <3> QED BY <3>6, <3>8, <3>9
  <2> QED BY <2>1, <2>2
<1>3. Types'
  <2>1. Handles("find", q, linked'[q]) \in UserType
    BY <1>0, <1>2, HandlesType
  <2>2. user' \in [Users -> UserType]
    BY <1>1, <2>1 DEF Types
  <2>3. DataTypes'
    BY <1>1, <1>2 DEF Types, DataTypes
  <2> QED BY <1>1, <2>2, <2>3 DEF Types
<1>4. UserInv'
  <2>1. ASSUME NEW v \in Users PROVE UserOK(v)'
    <3>1. CASE v = u
      <4>1. user'[u] = Handles("find", q, linked'[q])
        BY <1>1 DEF Types, DataTypes
      <4> QED BY <3>1, <4>1, <1>2 DEF UserOK, Handles
    <3>2. CASE v # u
      <4>1. user'[v] = user[v] /\ user[v].queue \in Queues /\ user[v].inode \in Nat
        BY <1>1, <3>2 DEF Types, UserType
      <4>2. UserOK(v)
        BY DEF UserInv
      <4> DEFINE x == user[v].queue
      <4>3. x \in Queues /\ Len(file[x]) \in Nat /\ Len(file'[x]) \in Nat /\ Len(file[x]) <= Len(file'[x])
            /\ \A i \in 1 .. Len(file[x]) : file'[x][i] = file[x][i]
        BY <1>0, <1>2, <4>1
      <4>4. user[v].pc # "closed" => user[v].inode \in 1 .. Len(file'[x])
                                     /\ file'[x][user[v].inode] = file[x][user[v].inode]
        BY <4>2, <4>3 DEF UserOK
      <4> QED BY <1>1, <4>1, <4>2, <4>4 DEF UserOK, Used
    <3> QED BY <3>1, <3>2
  <2> QED BY <1>2, <2>1 DEF UserInv
<1>5. \A x \in Queues : /\ Len(file[x]) <= Len(file'[x]) /\ Len(file[x]) \in Nat /\ Len(file'[x]) \in Nat
                        /\ Len(file[x]) > 0 => file'[x][1] = file[x][1]
  BY <1>0, <1>2
<1>6. GaugeInv'
  BY <1>1, <1>5 DEF GaugeInv, CapacityOf, Types, DataTypes
<1>7. SignInv'
  BY <1>1 DEF SignInv
<1>8. Forward
  <2>1. \A p \in Processes : process[p].now <= process[p].now
    BY DEF Types, ProcessType
  <2>2. clock <= clock
    BY DEF Types, DataTypes
  <2>3. ASSUME NEW x \in Queues, Len(file[x]) = 1, Len(file'[x]) = 1
        PROVE  file'[x][1].capacity = file[x][1].capacity
    BY <1>5, <2>3
  <2> QED BY <1>1, <1>5, <2>1, <2>2, <2>3 DEF Forward
<1> QED BY <1>3, <1>4, <1>6, <1>7, <1>8

LEMMA UpdateFindInv ==
  ASSUME Shared, NEW u \in Users, UpdateFind(u), scenario' = scenario
  PROVE  Shared' /\ Forward
<1> DEFINE q == user[u].queue
           g == user[u].gauge
           n == <<q, Gauges[g]>>
<1>1. /\ user[u] \in UserType /\ user[u].pc = "find" /\ UserOK(u)
      /\ q \in Queues /\ g \in 1 .. 4 /\ q \in scenario.queues
      /\ user[u].inode \in 1 .. Len(file[q])
      /\ Gauges[g] \in {"count", "used_bp", "used", "capacity"}
      /\ user[u].found \subseteq {"count", "used_bp", "used", "capacity"}
      /\ \A h \in user[u].found : <<q, h>> \in DOMAIN counter
  <2>1. user[u] \in UserType /\ user[u].pc = "find" /\ UserOK(u)
    BY DEF Shared, Types, UserInv, UpdateFind
  <2>2. q \in Queues /\ g \in 1 .. 4 /\ user[u].found \subseteq {"count", "used_bp", "used", "capacity"}
    BY <2>1 DEF UserType
  <2> QED BY <2>1, <2>2, GaugeNames DEF UserOK
<1>2. /\ counter' \in [DOMAIN counter' -> Nat] /\ room' \in Nat
      /\ DOMAIN counter \subseteq DOMAIN counter'
      /\ DOMAIN counter' \subseteq DOMAIN counter \cup {n}
      /\ \A m \in DOMAIN counter : counter'[m] = counter[m]
      /\ room = 0 => counter' = counter /\ room' = 0
      /\ n \notin DOMAIN counter' => room = 0
      /\ n \in DOMAIN counter' /\ n \notin DOMAIN counter => counter'[n] = 0
  <2>1. CASE n[2] \in user[u].found
    <3>1. UNCHANGED publish
      BY <2>1 DEF UpdateFind
    <3>2. n \in DOMAIN counter
      BY <1>1, <2>1
    <3> QED BY <3>1, <3>2 DEF Shared, Types, DataTypes, publish, histories
  <2>2. CASE n[2] \notin user[u].found
    <3>1. FindOrAdd(n)
      BY <2>2 DEF UpdateFind
    <3> QED BY <3>1, Found DEF Shared
  <2> QED BY <2>1, <2>2
<1>3. /\ UNCHANGED <<file, linked, errors, places, process, clock, check, known>>
      /\ user' = [user EXCEPT
           ![u].pc = "store",
           ![u].found = IF n \in DOMAIN counter' THEN @ \cup {n[2]} ELSE @,
           ![u].value = CASE n[2] = "used"     -> file[q][user[u].inode].used
                          [] n[2] = "capacity" -> file[q][user[u].inode].capacity
                          [] OTHER             -> 0]
  BY DEF UpdateFind, queue, histories
<1> HIDE DEF q, g, n
<1>4. /\ file[q][user[u].inode].used \in Nat /\ file[q][user[u].inode].capacity \in Nat
  <2>1. file[q] \in Seq(Data)
    BY <1>1 DEF Shared, Types, DataTypes
  <2>2. file[q][user[u].inode] \in Data
    BY <1>1, <2>1
  <2>3. \A c \in Capacities : c \in Nat
    BY Facts
  <2> QED BY <2>2, <2>3 DEF Data
<1>5. /\ user' \in [Users -> UserType]
      /\ user'[u].pc = "store" /\ user'[u].queue = q /\ user'[u].gauge = g
      /\ user'[u].inode = user[u].inode
      /\ user'[u].found = IF n \in DOMAIN counter' THEN user[u].found \cup {n[2]} ELSE user[u].found
      /\ n[2] = "capacity" => user'[u].value = file[q][user[u].inode].capacity
      /\ \A v \in Users : v # u => user'[v] = user[v]
  <2> DEFINE f == IF n \in DOMAIN counter' THEN user[u].found \cup {n[2]} ELSE user[u].found
             w == CASE n[2] = "used"     -> file[q][user[u].inode].used
                    [] n[2] = "capacity" -> file[q][user[u].inode].capacity
                    [] OTHER             -> 0
  <2>1. w \in Nat /\ (n[2] = "capacity" => w = file[q][user[u].inode].capacity)
    BY <1>4
  <2>2. f \in SUBSET {"count", "used_bp", "used", "capacity"}
    BY <1>1 DEF n
  <2>3. user' = [user EXCEPT ![u] = [user[u] EXCEPT !.pc = "store", !.found = f, !.value = w]]
    BY <1>1, <1>3 DEF Shared, Types, UserType
  <2> HIDE DEF f, w
  <2>4. [user[u] EXCEPT !.pc = "store", !.found = f, !.value = w] \in UserType
    BY <1>1, <2>1, <2>2 DEF UserType
  <2>5. user'[u] = [user[u] EXCEPT !.pc = "store", !.found = f, !.value = w]
    BY <2>3 DEF Shared, Types
  <2>6. user' \in [Users -> UserType] /\ \A v \in Users : v # u => user'[v] = user[v]
    BY <2>3, <2>4 DEF Shared, Types
  <2>7. /\ user'[u].pc = "store" /\ user'[u].queue = user[u].queue /\ user'[u].gauge = user[u].gauge
        /\ user'[u].inode = user[u].inode /\ user'[u].found = f /\ user'[u].value = w
    BY <1>1, <2>5 DEF UserType
  <2> QED BY <2>1, <2>6, <2>7 DEF q, g, f
<1>6. Types'
  <2>1. DataTypes'
    BY <1>2, <1>3 DEF Shared, Types, DataTypes
  <2> QED BY <2>1, <1>3, <1>5 DEF Shared, Types
<1>7. n = <<q, Gauges[g]>> /\ n[2] = Gauges[g]
  BY DEF n
<1>8. UserOK(u)'
  <2>1. \A h \in user'[u].found : <<q, h>> \in DOMAIN counter'
    BY SMTT(30), <1>1, <1>2, <1>5, <1>7
  <2>2. Gauges[g] \in user'[u].found \/ (n \notin DOMAIN counter' /\ room' = 0)
    BY <1>2, <1>5, <1>7
  <2>3. g = 4 => Used(q) \in DOMAIN counter' \/ room' = 0
    BY <1>1, <1>2 DEF UserOK, q, g
  <2>4. g = 3 => Used(q) \in DOMAIN counter' \/ room' = 0
    BY <1>1, <1>2, <1>7, GaugeNames DEF Used
  <2>5. g = 4 => user'[u].value = file[q][user[u].inode].capacity
    BY <1>1, <1>5, <1>7, GaugeNames
  <2>6. q \in scenario'.queues /\ user'[u].inode \in 1 .. Len(file'[q])
    BY <1>1, <1>3, <1>5 DEF Shared
  <2>7. <<q, Gauges[g]>>[2] = Gauges[g]
    OBVIOUS
  <2> HIDE DEF q, g, n
  <2>8. user'[u].queue = q /\ user'[u].gauge = g /\ n = <<q, Gauges[g]>> /\ file' = file
    BY <1>3, <1>5, <1>7
  <2>9. /\ g = 4 \/ (g = 3 /\ user'[u].pc = "store") => Used(q) \in DOMAIN counter' \/ room' = 0
        /\ Gauges[g] \in user'[u].found \/ (<<q, Gauges[g]>> \notin DOMAIN counter' /\ room' = 0)
        /\ g = 4 => user'[u].value = file'[q][user'[u].inode].capacity
    BY <2>2, <2>3, <2>4, <2>5, <2>8, <1>5
  <2>10. user'[u].pc = "store"
    BY <1>5
  <2> QED BY ONLY <2>1, <2>6, <2>7, <2>8, <2>9, <2>10 DEF UserOK
<1>9. ASSUME NEW v \in Users, v # u PROVE UserOK(v)'
  <2>1. user'[v] = user[v] /\ UserOK(v)
    BY <1>5, <1>9 DEF Shared, UserInv
  <2> QED BY <1>2, <1>3, <2>1 DEF UserOK
<1>10. UserInv'
  BY <1>3, <1>8, <1>9 DEF Shared, UserInv
<1>11. GaugeInv'
  <2>1. ASSUME NEW x \in Queues, Cap(x) \in DOMAIN counter'
        PROVE  /\ x \in scenario.queues /\ Used(x) \in DOMAIN counter' /\ Len(file[x]) > 0
               /\ Len(file[x]) > 1 \/ counter'[Cap(x)] \in {0, CapacityOf(x)}
    <3>1. CASE Cap(x) \in DOMAIN counter
      BY <3>1, <1>2 DEF Shared, GaugeInv
    <3>2. CASE Cap(x) \notin DOMAIN counter
      <4>1. n = Cap(x) /\ room # 0
        BY <1>2, <2>1, <3>2
      <4>2. x = q /\ g = 4
        BY <1>1, <1>7, <4>1, GaugeNames DEF Cap
      <4>3. Used(x) \in DOMAIN counter
        BY <1>1, <4>1, <4>2 DEF UserOK, q, g
      <4>4. counter'[Cap(x)] = 0
        BY <1>2, <2>1, <3>2, <4>1
      <4>5. Len(file[x]) \in Nat
        BY DEF Shared, Types, DataTypes
      <4> QED BY <1>1, <1>2, <4>2, <4>3, <4>4, <4>5
    <3> QED BY <3>1, <3>2
  <2>2. ASSUME NEW x \in known
        PROVE  IF Cap(x) \in DOMAIN counter' THEN counter'[Cap(x)] > 0 ELSE room' = 0
    BY <1>2 DEF Shared, GaugeInv
  <2> QED BY <1>3, <2>1, <2>2 DEF GaugeInv, CapacityOf
<1>12. SignInv'
  <2>1. ASSUME NEW p \in Processes, Sign(p) \in DOMAIN counter' PROVE counter'[Sign(p)] <= process[p].now
    <3>1. Sign(p) # n
      BY <1>1, <1>7 DEF Sign
    <3> QED BY <1>2, <2>1, <3>1 DEF Shared, SignInv
  <2> QED BY <1>3, <2>1 DEF Shared, SignInv
<1>13. Forward
  BY <1>2, <1>3 DEF Forward, Shared, Types, DataTypes, ProcessType
<1> QED BY <1>6, <1>10, <1>11, <1>12, <1>13 DEF Shared

LEMMA UpdateStoreInv ==
  ASSUME Shared, NEW u \in Users, UpdateStore(u), scenario' = scenario
  PROVE  Shared' /\ Forward
<1> DEFINE q == user[u].queue
           g == user[u].gauge
           n == <<q, Gauges[g]>>
           last == g = Len(Gauges)
<1>1. /\ user[u] \in UserType /\ user[u].pc = "store" /\ UserOK(u)
      /\ q \in Queues /\ g \in 1 .. 4 /\ q \in scenario.queues
      /\ user[u].inode \in 1 .. Len(file[q]) /\ user[u].value \in Nat
      /\ Gauges[g] \in {"count", "used_bp", "used", "capacity"}
      /\ user[u].found \subseteq {"count", "used_bp", "used", "capacity"}
      /\ \A h \in user[u].found : <<q, h>> \in DOMAIN counter
      /\ n[2] \in user[u].found \/ (n \notin DOMAIN counter /\ room = 0)
  <2>1. user[u] \in UserType /\ user[u].pc = "store" /\ UserOK(u)
    BY DEF Shared, Types, UserInv, UpdateStore
  <2>2. /\ q \in Queues /\ g \in 1 .. 4 /\ user[u].value \in Nat
        /\ user[u].found \subseteq {"count", "used_bp", "used", "capacity"}
    BY <2>1 DEF UserType
  <2> QED BY <2>1, <2>2, GaugeNames DEF UserOK
<1>2. /\ counter' \in [DOMAIN counter' -> Nat] /\ DOMAIN counter' = DOMAIN counter
      /\ \A m \in DOMAIN counter : m # n => counter'[m] = counter[m]
      /\ n \in DOMAIN counter => counter'[n] = user[u].value
  <2>1. Write(n[2] \in user[u].found, n, user[u].value)
    BY DEF UpdateStore
  <2> HIDE DEF n
  <2> DEFINE found == n[2] \in user[u].found
  <2>2. found \in BOOLEAN
    OBVIOUS
  <2>3. Write(found, n, user[u].value)
    BY <2>1
  <2>4. n \in DOMAIN counter => found
    BY <1>1
  <2> HIDE DEF found
  <2> QED BY <1>1, <2>2, <2>3, <2>4, Written DEF Shared
<1>3. /\ UNCHANGED <<room, file, linked, errors, places, process, clock, check>>
      /\ user' = [user EXCEPT ![u].pc = IF last THEN "transfer" ELSE "find",
                              ![u].gauge = IF last THEN 1 ELSE @ + 1,
                              ![u].value = 0]
      /\ known' = IF last THEN known \cup {q} ELSE known
  BY DEF UpdateStore, queue, histories
<1>4. last <=> g = 4
  BY GaugeNames
<1> HIDE DEF q, g, n, last
<1>5. /\ user' \in [Users -> UserType]
      /\ user'[u].pc \in {"transfer", "find"} /\ user'[u].queue = q
      /\ user'[u].gauge = (IF last THEN 1 ELSE g + 1)
      /\ (user'[u].pc = "transfer" => user'[u].gauge = 1)
      /\ user'[u].inode = user[u].inode /\ user'[u].found = user[u].found
      /\ \A v \in Users : v # u => user'[v] = user[v]
  <2> DEFINE pc1 == IF last THEN "transfer" ELSE "find"
             g1 == IF last THEN 1 ELSE g + 1
  <2>1. pc1 \in {"transfer", "find"} /\ g1 \in 1 .. 4
    BY <1>1, <1>4
  <2>2. user' = [user EXCEPT ![u] = [user[u] EXCEPT !.pc = pc1, !.gauge = g1, !.value = 0]]
    BY <1>1, <1>3 DEF Shared, Types, UserType, g
  <2>3. g1 = (IF last THEN 1 ELSE g + 1) /\ (pc1 = "transfer" => g1 = 1)
    OBVIOUS
  <2> HIDE DEF pc1, g1
  <2>4. [user[u] EXCEPT !.pc = pc1, !.gauge = g1, !.value = 0] \in UserType
    BY <1>1, <2>1 DEF UserType
  <2>5. user'[u] = [user[u] EXCEPT !.pc = pc1, !.gauge = g1, !.value = 0]
    BY <2>2 DEF Shared, Types
  <2>6. user' \in [Users -> UserType] /\ \A v \in Users : v # u => user'[v] = user[v]
    BY <2>2, <2>4 DEF Shared, Types
  <2>7. /\ user'[u].pc = pc1 /\ user'[u].queue = user[u].queue /\ user'[u].gauge = g1
        /\ user'[u].inode = user[u].inode /\ user'[u].found = user[u].found
    BY <1>1, <2>5 DEF UserType
  <2> QED BY <2>1, <2>3, <2>6, <2>7 DEF q
<1>6. Types'
  <2>1. known' \subseteq Queues
    BY <1>1, <1>3 DEF Shared, Types, DataTypes
  <2>2. DataTypes'
    BY <1>2, <1>3, <2>1 DEF Shared, Types, DataTypes
  <2> QED BY <2>2, <1>3, <1>5 DEF Shared, Types
<1>7. n = <<q, Gauges[g]>> /\ n[2] = Gauges[g]
  BY DEF n
<1>8. UserOK(u)'
  <2>1. \A h \in user'[u].found : <<q, h>> \in DOMAIN counter'
    BY <1>1, <1>2, <1>5
  <2>2. user'[u].gauge = 4 => Used(q) \in DOMAIN counter' \/ room' = 0
    BY <1>1, <1>2, <1>3, <1>4, <1>5 DEF UserOK, q, g
  <2> QED BY <1>1, <1>3, <1>5, <2>1, <2>2 DEF UserOK
<1>9. ASSUME NEW v \in Users, v # u PROVE UserOK(v)'
  <2>1. user'[v] = user[v] /\ UserOK(v)
    BY <1>5, <1>9 DEF Shared, UserInv
  <2> QED BY <1>2, <1>3, <2>1 DEF UserOK
<1>10. UserInv'
  BY <1>3, <1>8, <1>9 DEF Shared, UserInv
<1>11. n = Cap(q) /\ n \in DOMAIN counter =>
         /\ counter'[n] = file[q][user[u].inode].capacity
         /\ counter'[n] > 0
         /\ Len(file[q]) > 1 \/ counter'[n] = CapacityOf(q)
  <2>1. ASSUME n = Cap(q), n \in DOMAIN counter PROVE g = 4
    BY <1>1, <1>7, <2>1, GaugeNames DEF Cap
  <2>2. ASSUME n = Cap(q), n \in DOMAIN counter PROVE user[u].value = file[q][user[u].inode].capacity
    BY <1>1, <2>1, <2>2 DEF UserOK, q, g
  <2>3. file[q] \in Seq(Data) /\ Len(file[q]) \in Nat
    BY <1>1 DEF Shared, Types, DataTypes
  <2>4. file[q][user[u].inode] \in Data
    BY <1>1, <2>3
  <2>5. file[q][user[u].inode].capacity \in Capacities
    BY <2>4 DEF Data
  <2>6. file[q][user[u].inode].capacity \in Nat /\ file[q][user[u].inode].capacity > 0
    <3>1. \A c \in Capacities : c \in Nat /\ c > 0
      BY Facts
    <3> QED BY <2>5, <3>1
  <2>7. Len(file[q]) > 1 \/ user[u].inode = 1
    BY <1>1, <2>3
  <2> QED BY <1>2, <2>2, <2>6, <2>7 DEF CapacityOf
<1>12. \A x : Cap(x) = n => x = q
  BY <1>7 DEF Cap
<1>13. GaugeInv'
  <2>1. ASSUME NEW x \in Queues, Cap(x) \in DOMAIN counter'
        PROVE  /\ x \in scenario.queues /\ Used(x) \in DOMAIN counter' /\ Len(file[x]) > 0
               /\ Len(file[x]) > 1 \/ counter'[Cap(x)] \in {0, CapacityOf(x)}
    <3>1. /\ x \in scenario.queues /\ Used(x) \in DOMAIN counter /\ Len(file[x]) > 0
          /\ Len(file[x]) > 1 \/ counter[Cap(x)] \in {0, CapacityOf(x)}
      BY <1>2, <2>1 DEF Shared, GaugeInv
    <3>2. CASE Cap(x) = n
      BY <1>2, <1>11, <1>12, <2>1, <3>1, <3>2
    <3>3. CASE Cap(x) # n
      BY <1>2, <2>1, <3>1, <3>3
    <3> QED BY <3>2, <3>3
  <2>2. ASSUME NEW x \in known'
        PROVE  IF Cap(x) \in DOMAIN counter' THEN counter'[Cap(x)] > 0 ELSE room = 0
    <3>1. CASE Cap(x) = n
      <4>1. x = q
        BY <1>12, <3>1
      <4>2. CASE n \in DOMAIN counter
        BY <1>2, <1>11, <3>1, <4>1, <4>2
      <4>3. CASE n \notin DOMAIN counter
        <5>1. n[2] \notin user[u].found
          BY <1>1, <1>7, <4>3
        <5> QED BY <1>1, <1>2, <3>1, <4>3, <5>1
      <4> QED BY <4>2, <4>3
    <3>2. CASE Cap(x) # n
      <4>1. x \in known
        <5>1. last => n = Cap(q)
          BY <1>4, <1>7, GaugeNames DEF Cap
        <5> QED BY <1>3, <2>2, <3>2, <5>1
      <4> QED BY <1>2, <3>2, <4>1 DEF Shared, GaugeInv
    <3> QED BY <3>1, <3>2
  <2> QED BY <1>3, <2>1, <2>2 DEF GaugeInv, CapacityOf
<1>14. SignInv'
  <2>1. ASSUME NEW p \in Processes, Sign(p) \in DOMAIN counter' PROVE counter'[Sign(p)] <= process[p].now
    <3>1. Sign(p) # n
      BY <1>1, <1>7 DEF Sign
    <3> QED BY <1>2, <2>1, <3>1 DEF Shared, SignInv
  <2> QED BY <1>3, <2>1 DEF Shared, SignInv
<1>15. Forward
  <2>1. \A p \in Processes : process[p].now <= process[p].now
    BY DEF Shared, Types, ProcessType
  <2>2. clock <= clock /\ \A x \in Queues : Len(file[x]) <= Len(file[x])
    BY DEF Shared, Types, DataTypes
  <2>3. ASSUME NEW x \in Queues, Cap(x) \in DOMAIN counter, counter[Cap(x)] > 0
        PROVE  counter'[Cap(x)] > 0
    <3>1. CASE Cap(x) = n
      BY <1>11, <1>12, <2>3, <3>1
    <3>2. CASE Cap(x) # n
      BY <1>2, <2>3, <3>2
    <3> QED BY <3>1, <3>2
  <2> QED BY <1>2, <1>3, <2>1, <2>2, <2>3 DEF Forward
<1> QED BY <1>6, <1>10, <1>13, <1>14, <1>15 DEF Shared

(* Steps that leave the dictionary and the files alone.                    *)
LEMMA UserInvKept ==
  ASSUME Shared, NEW u \in Users, Update(u) \/ Gone(u), scenario' = scenario
  PROVE  Shared' /\ Forward
<1>1. /\ UNCHANGED <<publish, queue, errors, places, process, clock, check, known>>
      /\ \/ user[u].pc = "open" /\ user' = [user EXCEPT ![u].pc = "find"]
         \/ user' = [user EXCEPT ![u] = Closed]
  BY DEF Update, Gone, histories
<1>2. /\ user' \in [Users -> UserType]
      /\ \A v \in Users : UserOK(v)'
  <2>1. CASE user[u].pc = "open" /\ user' = [user EXCEPT ![u].pc = "find"]
    <3>1. /\ user' \in [Users -> UserType]
          /\ \A v \in Users : v # u => user'[v] = user[v]
          /\ user'[u].pc = "find" /\ user'[u].queue = user[u].queue /\ user'[u].gauge = user[u].gauge
          /\ user'[u].inode = user[u].inode /\ user'[u].found = user[u].found
      BY <2>1 DEF Shared, Types, UserType
    <3>2. UserOK(u) /\ \A v \in Users : UserOK(v)
      BY DEF Shared, UserInv
    <3>3. UserOK(u)'
      BY <1>1, <2>1, <3>1, <3>2 DEF UserOK, publish, queue, Used, histories
    <3>4. ASSUME NEW v \in Users, v # u PROVE UserOK(v)'
      <4>1. user'[v] = user[v] /\ UserOK(v)
        BY <3>1, <3>2, <3>4
      <4> QED BY <1>1, <4>1 DEF UserOK, publish, queue, Used, histories
    <3> QED BY <3>1, <3>3, <3>4
  <2>2. CASE user' = [user EXCEPT ![u] = Closed]
    <3>1. Closed \in UserType /\ Closed.pc = "closed"
      BY ClosedType
    <3>2. user' \in [Users -> UserType] /\ user'[u] = Closed /\ \A v \in Users : v # u => user'[v] = user[v]
      BY <2>2, <3>1 DEF Shared, Types
    <3>3. UserOK(u)'
      BY <3>1, <3>2 DEF UserOK
    <3>4. ASSUME NEW v \in Users, v # u PROVE UserOK(v)'
      <4>1. user'[v] = user[v] /\ UserOK(v)
        BY <3>2, <3>4 DEF Shared, UserInv
      <4> QED BY <1>1, <4>1 DEF UserOK, publish, queue, Used, histories
    <3> QED BY <3>2, <3>3, <3>4
  <2> QED BY <1>1, <2>1, <2>2
<1>3. Types'
  BY <1>1, <1>2 DEF Shared, Types, DataTypes, publish, queue, histories
<1>4. UserInv' /\ GaugeInv' /\ SignInv'
  BY <1>1, <1>2 DEF Shared, UserInv, GaugeInv, SignInv, CapacityOf, publish, queue, histories
<1>5. Forward
  BY <1>1 DEF Forward, Shared, Types, DataTypes, ProcessType, publish, queue, histories
<1> QED BY <1>3, <1>4, <1>5 DEF Shared

LEMMA TrafficInv ==
  ASSUME Shared, NEW q \in scenario.queues, Traffic(q), scenario' = scenario
  PROVE  Shared' /\ Forward
<1>1. UNCHANGED <<counter, room, linked, errors, places, user, process, clock, check, known>>
  BY DEF Traffic, publish, histories
<1>u. PICK u \in Users :
        /\ user[u].pc # "closed" /\ user[u].queue = q
        /\ \E n \in Fills(file[q][user[u].inode].capacity) :
             file' = [file EXCEPT ![q][user[u].inode].used = n]
  BY DEF Traffic
<1>2. PICK n \in Fills(file[q][user[u].inode].capacity) :
        file' = [file EXCEPT ![q][user[u].inode].used = n]
  BY <1>u
<1> DEFINE i == user[u].inode
<1>3. q \in Queues /\ file[q] \in Seq(Data) /\ i \in 1 .. Len(file[q])
  BY <1>u, Facts DEF Shared, Types, DataTypes, UserInv, UserOK
<1> HIDE DEF i
<1>4. file[q][i] \in Data /\ n \in Nat
  <2>1. file[q][i] \in Data
    BY <1>3
  <2>2. \A c \in Capacities : c \in Nat /\ c > 0
    BY Facts
  <2> QED BY <1>2, <2>1, <2>2 DEF Data, Fills, i
<1>5. file' = [file EXCEPT ![q] = [file[q] EXCEPT ![i] = [file[q][i] EXCEPT !.used = n]]]
  BY <1>2, <1>3, <1>4 DEF i, Shared, Types, DataTypes
<1>6. /\ [file[q][i] EXCEPT !.used = n] \in Data
      /\ [file[q][i] EXCEPT !.used = n].capacity = file[q][i].capacity
  BY <1>4 DEF Data
<1>7. /\ file'[q] = [file[q] EXCEPT ![i] = [file[q][i] EXCEPT !.used = n]]
      /\ \A x \in Queues : x # q => file'[x] = file[x]
  BY <1>3, <1>5 DEF Shared, Types, DataTypes
<1>8. /\ file'[q] \in Seq(Data) /\ Len(file'[q]) = Len(file[q])
      /\ \A j \in 1 .. Len(file[q]) : file'[q][j].capacity = file[q][j].capacity
  BY <1>3, <1>6, <1>7
<1>9. file' \in [Queues -> Seq(Data)]
  BY <1>3, <1>5, <1>7, <1>8 DEF Shared, Types, DataTypes
<1>10. \A x \in Queues : /\ Len(file'[x]) = Len(file[x]) /\ Len(file[x]) \in Nat
                         /\ \A j \in 1 .. Len(file[x]) : file'[x][j].capacity = file[x][j].capacity
  <2> TAKE x \in Queues
  <2>1. Len(file[x]) \in Nat
    BY DEF Shared, Types, DataTypes
  <2>2. CASE x = q
    BY <2>1, <2>2, <1>8
  <2>3. CASE x # q
    BY <2>1, <2>3, <1>7
  <2> QED BY <2>2, <2>3
<1>11. Types'
  BY <1>1, <1>9 DEF Shared, Types, DataTypes
<1>12. ASSUME NEW v \in Users PROVE UserOK(v)'
  <2>1. UserOK(v) /\ user'[v] = user[v] /\ user[v].queue \in Queues
    BY <1>1 DEF Shared, Types, UserInv, UserType
  <2> QED BY <1>1, <1>10, <2>1 DEF UserOK, Used
<1>13. UserInv'
  BY <1>1, <1>10, <1>12 DEF Shared, UserInv
<1>14. GaugeInv'
  <2>1. \A x \in Queues : Len(file[x]) > 0 => CapacityOf(x)' = CapacityOf(x)
    BY <1>10 DEF CapacityOf
  <2> QED BY <1>1, <1>10, <2>1 DEF Shared, GaugeInv
<1>15. SignInv'
  BY <1>1 DEF Shared, SignInv
<1>16. Forward
  <2>1. \A p \in Processes : process[p].now <= process[p].now
    BY DEF Shared, Types, ProcessType
  <2>2. clock <= clock /\ \A x \in Queues : Len(file[x]) <= Len(file'[x])
    BY <1>10 DEF Shared, Types, DataTypes
  <2> QED BY <1>1, <1>10, <2>1, <2>2 DEF Forward
<1> QED BY <1>11, <1>13, <1>14, <1>15, <1>16 DEF Shared

(* The batches go to the histories: of the files only a lock changes, and  *)
(* of the user what it has open stays, unless it dies of it.               *)
LEMMA TransferInv ==
  ASSUME Shared, NEW u \in Users, Transfer(u), scenario' = scenario
  PROVE  Shared' /\ Forward
<1> DEFINE q == user[u].queue
           i == user[u].inode
           g == user[u].gauge
           batch == Batches[g]
           last == g = Len(Batches)
           null == batch \notin user[u].bound /\ places = 0
           held == null \/ ~last
           bound == [user[u] EXCEPT !.pc = IF last THEN "open" ELSE "transfer",
                                    !.gauge = IF last THEN 1 ELSE @ + 1,
                                    !.bound = @ \cup {batch}]
<1>1. /\ UNCHANGED <<counter, room, linked, process, clock, check, known>>
      /\ file' = [file EXCEPT ![q][i].locked = held]
      /\ user' = [user EXCEPT ![u] = IF null THEN Closed ELSE bound]
  BY DEF Transfer, publish
<1>2. /\ user[u] \in UserType /\ user[u].pc = "transfer" /\ UserOK(u)
      /\ q \in Queues /\ file[q] \in Seq(Data) /\ i \in 1 .. Len(file[q])
      /\ g \in 1 .. 3 /\ batch \in {"drop", "error", "message"} /\ (last <=> g = 3)
      /\ user[u].bound \subseteq {"drop", "error", "message"}
  <2>1. user[u] \in UserType /\ user[u].pc = "transfer" /\ UserOK(u)
    BY DEF Shared, Types, UserInv, Transfer
  <2>2. q \in Queues /\ user[u].bound \subseteq {"drop", "error", "message"}
    BY <2>1 DEF UserType
  <2>3. file[q] \in Seq(Data)
    BY <2>2 DEF Shared, Types, DataTypes
  <2> QED BY <2>1, <2>2, <2>3, BatchNames DEF UserOK
<1>3. places' \in Nat /\ (places = 0 => places' = 0)
  <2>1. places \in Nat
    BY DEF Shared, Types, DataTypes
  <2> QED BY <2>1, Pointed DEF Transfer
<1>4. errors' \in [Queues -> {"none", "interval", "last"}]
  <2>1. errors \in [Queues -> {"none", "interval", "last"}]
    BY DEF Shared, Types, DataTypes
  <2>2. CASE \E e \in AfterBatch(errors[q]) : errors' = [errors EXCEPT ![q] = e]
    <3>1. AfterBatch(errors[q]) \subseteq {"none", "interval", "last"}
      BY DEF AfterBatch
    <3> QED BY <1>2, <2>1, <2>2, <3>1
  <2>3. CASE UNCHANGED errors
    BY <2>1, <2>3
  <2> QED BY <2>2, <2>3 DEF Transfer
<1>5. held \in BOOLEAN
  OBVIOUS
<1>6. /\ user' \in [Users -> UserType]
      /\ \A v \in Users : v # u => user'[v] = user[v]
      /\ \/ user'[u].pc = "closed"
         \/ /\ user'[u].queue = q /\ user'[u].inode = i /\ user'[u].found = user[u].found
            /\ user'[u].gauge \in 1 .. 3
            /\ user'[u].pc \in {"open", "transfer"}
            /\ user'[u].gauge = 3 => user'[u].pc = "transfer"
  <2>1. CASE null
    <3>1. user' = [user EXCEPT ![u] = Closed]
      BY <1>1, <2>1
    <3> QED BY <3>1, ClosedType DEF Shared, Types
  <2>2. CASE ~null
    <3> DEFINE pc1 == IF last THEN "open" ELSE "transfer"
               g1 == IF last THEN 1 ELSE g + 1
               b1 == user[u].bound \cup {batch}
    <3>1. pc1 \in {"open", "transfer"} /\ g1 \in 1 .. 3 /\ g1 \in 1 .. 4
          /\ b1 \in SUBSET {"drop", "error", "message"} /\ (g1 = 3 => pc1 = "transfer")
      BY <1>2
    <3>2. user' = [user EXCEPT ![u] = [user[u] EXCEPT !.pc = pc1, !.gauge = g1, !.bound = b1]]
      <4>1. user' = [user EXCEPT ![u] = bound]
        BY <1>1, <2>2
      <4>2. bound = [user[u] EXCEPT !.pc = pc1, !.gauge = g1, !.bound = b1]
        BY <1>2 DEF UserType
      <4> QED BY <4>1, <4>2
    <3> HIDE DEF pc1, g1, b1
    <3>a. [user[u] EXCEPT !.pc = pc1, !.gauge = g1, !.bound = b1] \in UserType
      BY <1>2, <3>1 DEF UserType
    <3>3. /\ [user[u] EXCEPT !.pc = pc1, !.gauge = g1, !.bound = b1].pc = pc1
          /\ [user[u] EXCEPT !.pc = pc1, !.gauge = g1, !.bound = b1].gauge = g1
          /\ [user[u] EXCEPT !.pc = pc1, !.gauge = g1, !.bound = b1].queue = q
          /\ [user[u] EXCEPT !.pc = pc1, !.gauge = g1, !.bound = b1].inode = i
          /\ [user[u] EXCEPT !.pc = pc1, !.gauge = g1, !.bound = b1].found = user[u].found
      BY <1>2, <3>1 DEF UserType
    <3>4. /\ user' \in [Users -> UserType]
          /\ user'[u] = [user[u] EXCEPT !.pc = pc1, !.gauge = g1, !.bound = b1]
          /\ \A v \in Users : v # u => user'[v] = user[v]
      BY <3>2, <3>a DEF Shared, Types
    <3> QED BY <3>1, <3>3, <3>4
  <2> QED BY <2>1, <2>2
<1> HIDE DEF q, i, g, batch, last, null, held, bound
<1>7. file' = [file EXCEPT ![q] = [file[q] EXCEPT ![i] = [file[q][i] EXCEPT !.locked = held]]]
  BY <1>1, <1>2 DEF Shared, Types, DataTypes
<1>8. file[q][i] \in Data
  BY <1>2
<1>9. /\ [file[q][i] EXCEPT !.locked = held] \in Data
      /\ [file[q][i] EXCEPT !.locked = held].capacity = file[q][i].capacity
  BY <1>5, <1>8 DEF Data
<1>10. /\ file'[q] = [file[q] EXCEPT ![i] = [file[q][i] EXCEPT !.locked = held]]
       /\ \A x \in Queues : x # q => file'[x] = file[x]
  BY <1>2, <1>7 DEF Shared, Types, DataTypes
<1>11. /\ file'[q] \in Seq(Data) /\ Len(file'[q]) = Len(file[q])
       /\ \A j \in 1 .. Len(file[q]) : file'[q][j].capacity = file[q][j].capacity
  BY <1>2, <1>9, <1>10
<1>12. file' \in [Queues -> Seq(Data)]
  BY <1>2, <1>7, <1>10, <1>11 DEF Shared, Types, DataTypes
<1>13. \A x \in Queues : /\ Len(file'[x]) = Len(file[x]) /\ Len(file[x]) \in Nat
                         /\ \A j \in 1 .. Len(file[x]) : file'[x][j].capacity = file[x][j].capacity
  <2> TAKE x \in Queues
  <2>1. Len(file[x]) \in Nat
    BY DEF Shared, Types, DataTypes
  <2>2. CASE x = q
    BY <2>1, <2>2, <1>11
  <2>3. CASE x # q
    BY <2>1, <2>3, <1>10
  <2> QED BY <2>2, <2>3
<1>14. Types'
  BY <1>1, <1>3, <1>4, <1>6, <1>12 DEF Shared, Types, DataTypes
<1>15. ASSUME NEW v \in Users PROVE UserOK(v)'
  <2>1. CASE v # u
    <3>1. UserOK(v) /\ user'[v] = user[v] /\ user[v].queue \in Queues
      BY <1>6, <2>1 DEF Shared, Types, UserInv, UserType
    <3> QED BY <1>1, <1>13, <3>1 DEF UserOK, Used
  <2>2. CASE v = u /\ user'[u].pc = "closed"
    BY <2>2 DEF UserOK
  <2>3. CASE v = u /\ user'[u].pc # "closed"
    <3>1. /\ user'[u].queue = q /\ user'[u].inode = i /\ user'[u].found = user[u].found
          /\ user'[u].gauge \in 1 .. 3 /\ user'[u].pc \in {"open", "transfer"}
          /\ user'[u].gauge # 4 /\ user'[u].pc # "store"
      BY <1>6, <2>3
    <3>2. q \in scenario.queues /\ \A h \in user[u].found : <<q, h>> \in DOMAIN counter
      BY <1>2 DEF UserOK, q
    <3>3. i \in 1 .. Len(file'[q])
      BY <1>2, <1>11
    <3> QED BY <1>1, <2>3, <3>1, <3>2, <3>3 DEF UserOK
  <2> QED BY <2>1, <2>2, <2>3
<1>16. UserInv'
  BY <1>1, <1>13, <1>15 DEF Shared, UserInv
<1>17. GaugeInv'
  <2>1. \A x \in Queues : Len(file[x]) > 0 => CapacityOf(x)' = CapacityOf(x)
    BY <1>13 DEF CapacityOf
  <2> QED BY <1>1, <1>13, <2>1 DEF Shared, GaugeInv
<1>18. SignInv'
  BY <1>1 DEF Shared, SignInv
<1>19. Forward
  <2>1. \A p \in Processes : process[p].now <= process[p].now
    BY DEF Shared, Types, ProcessType
  <2>2. clock <= clock /\ \A x \in Queues : Len(file[x]) <= Len(file'[x])
    BY <1>13 DEF Shared, Types, DataTypes
  <2> QED BY <1>1, <1>3, <1>13, <2>1, <2>2 DEF Forward
<1> QED BY <1>14, <1>16, <1>17, <1>18, <1>19 DEF Shared

LEMMA OutsideInv ==
  ASSUME Shared, Tick \/ \E q \in scenario.queues : Remove(q), scenario' = scenario
  PROVE  Shared' /\ Forward
<1>1. /\ UNCHANGED <<counter, room, file, errors, places, user, process, check, known>>
      /\ clock' \in Nat /\ clock <= clock'
      /\ linked' \in [Queues -> Nat] /\ \A q \in Queues : linked'[q] <= Len(file[q])
  <2>1. CASE Tick
    BY <2>1 DEF Tick, publish, queue, Shared, Types, DataTypes, UserInv, histories
  <2>3. ASSUME NEW q \in scenario.queues, Remove(q)
        PROVE  /\ UNCHANGED <<publish, file, errors, places, user, process, clock, check, known>>
               /\ linked' \in [Queues -> Nat] /\ \A x \in Queues : linked'[x] <= Len(file[x])
    <3>1. \A x \in Queues : Len(file[x]) \in Nat
      BY DEF Shared, Types, DataTypes
    <3>2. linked' = [linked EXCEPT ![q] = 0] /\ linked \in [Queues -> Nat]
      BY <2>3 DEF Remove, Shared, Types, DataTypes
    <3>3. ASSUME NEW x \in Queues PROVE linked'[x] <= Len(file[x])
      <4>1. linked[x] <= Len(file[x])
        BY DEF Shared, UserInv
      <4>2. linked'[x] = linked[x] \/ linked'[x] = 0
        BY <3>2
      <4> QED BY <3>1, <4>1, <4>2
    <3>4. UNCHANGED <<publish, file, errors, places, user, process, clock, check, known>>
      BY <2>3 DEF Remove, histories
    <3>5. linked' \in [Queues -> Nat]
      BY <3>2
    <3> QED BY <3>3, <3>4, <3>5
  <2>4. clock \in Nat /\ clock <= clock /\ \A x \in Queues : linked[x] <= Len(file[x])
    BY DEF Shared, Types, DataTypes, UserInv
  <2> QED BY <2>1, <2>3, <2>4 DEF publish, queue, Shared, Types, DataTypes, histories
<1>2. Types'
  BY <1>1 DEF Shared, Types, DataTypes
<1>3. UserInv' /\ GaugeInv'
  BY <1>1 DEF Shared, UserInv, UserOK, GaugeInv, CapacityOf
<1>4. SignInv'
  BY <1>1 DEF Shared, SignInv, Types, DataTypes, ProcessType
<1>5. Forward
  <2>1. \A p \in Processes : process[p].now <= process[p].now
    BY DEF Shared, Types, ProcessType
  <2>2. \A x \in Queues : Len(file[x]) <= Len(file[x])
    BY DEF Shared, Types, DataTypes
  <2> QED BY <1>1, <2>1, <2>2 DEF Forward
<1> QED BY <1>2, <1>3, <1>4, <1>5 DEF Shared

(* Steps of a process: what is found, written or taken is of that process. *)
LEMMA ProcessStepInv ==
  ASSUME Shared, NEW p \in Processes, scenario' = scenario,
         \/ UptimeUpdate(p) \/ SetName(p) \/ TakeTime(p) \/ StoreTime(p) \/ UptimeReset(p) \/ Die(p)
  PROVE  Shared' /\ Forward
<1>0. /\ process[p] \in ProcessType /\ process[p].now \in Nat /\ process[p].now <= clock /\ clock \in Nat
  BY DEF Shared, Types, DataTypes, ProcessType, SignInv
<1>1. UNCHANGED <<file, linked, errors, places, user, clock, check, known>>
  BY DEF UptimeUpdate, SetName, TakeTime, StoreTime, UptimeReset, Die, queue, Goto, histories
<1>2. /\ process' \in [Processes -> ProcessType]
      /\ process[p].now <= process'[p].now /\ process'[p].now <= clock
      /\ \A x \in Processes : x # p => process'[x] = process[x]
  <2>1. CASE UptimeUpdate(p) \/ StoreTime(p)
    <3>1. \E step \in {"now", "last_active", "idle"} : process' = [process EXCEPT ![p].pc = step]
      BY <2>1 DEF UptimeUpdate, StoreTime, Goto
    <3> QED BY <1>0, <3>1 DEF Shared, Types, ProcessType
  <2>2. CASE SetName(p)
    <3> DEFINE n == <<p, process[p].pc>>
               d == IF process[p].pc = "last_active" THEN "uptime" ELSE "now"
               a == n[2] = "uptime"
               b == IF n[2] = "last_active" THEN n \in DOMAIN counter' ELSE process[p].last_active
               c == IF n[2] = "uptime" THEN n \in DOMAIN counter' ELSE process[p].uptime
    <3>1. process' = [process EXCEPT ![p] = [process[p] EXCEPT !.pc = d, !.already_init = a,
                                                               !.last_active = b, !.uptime = c]]
      BY <2>2, <1>0 DEF SetName, Shared, Types, ProcessType
    <3>2. d \in {"uptime", "now"} /\ a \in BOOLEAN
      OBVIOUS
    <3>3. process[p].last_active \in BOOLEAN /\ process[p].uptime \in BOOLEAN
      BY <1>0 DEF ProcessType
    <3>. DEFINE there == n \in DOMAIN counter'
    <3>a. there \in BOOLEAN
      OBVIOUS
    <3> HIDE DEF there
    <3>4. b = (IF n[2] = "last_active" THEN there ELSE process[p].last_active)
      BY DEF there
    <3>5. c = (IF n[2] = "uptime" THEN there ELSE process[p].uptime)
      BY DEF there
    <3>b. b \in BOOLEAN
      BY <3>3, <3>4, <3>a, Zenon
    <3>c. c \in BOOLEAN
      BY <3>3, <3>5, <3>a, Zenon
    <3> HIDE DEF a, b, c, d, n
    <3>6. /\ [process[p] EXCEPT !.pc = d, !.already_init = a, !.last_active = b, !.uptime = c] \in ProcessType
          /\ [process[p] EXCEPT !.pc = d, !.already_init = a, !.last_active = b, !.uptime = c].now = process[p].now
      BY <1>0, <3>2, <3>b, <3>c DEF ProcessType
    <3> QED BY <1>0, <3>1, <3>6 DEF Shared, Types
  <2>3. CASE TakeTime(p)
    <3>1. process' = [process EXCEPT ![p] = [process[p] EXCEPT !.pc = "store", !.now = clock]]
      BY <2>3, <1>0 DEF TakeTime, Shared, Types, ProcessType
    <3>2. /\ [process[p] EXCEPT !.pc = "store", !.now = clock] \in ProcessType
          /\ [process[p] EXCEPT !.pc = "store", !.now = clock].now = clock
      BY <1>0 DEF ProcessType
    <3> QED BY <1>0, <3>1, <3>2 DEF Shared, Types
  <2>4. CASE UptimeReset(p) \/ Die(p)
    <3>1. process' = [process EXCEPT ![p] = Unnamed(process[p].now)]
      BY <2>4, <1>0 DEF UptimeReset, Die, Shared, Types, ProcessType
    <3>2. Unnamed(process[p].now) \in ProcessType /\ Unnamed(process[p].now).now = process[p].now
      BY <1>0 DEF Unnamed, ProcessType
    <3> QED BY <1>0, <3>1, <3>2 DEF Shared, Types
  <2> QED BY <2>1, <2>2, <2>3, <2>4
<1>3. /\ counter' \in [DOMAIN counter' -> Nat] /\ room' \in Nat
      /\ DOMAIN counter \subseteq DOMAIN counter'
      /\ room = 0 => DOMAIN counter' = DOMAIN counter /\ room' = 0
      /\ \A m \in DOMAIN counter' :
           \/ m \in DOMAIN counter /\ counter'[m] = counter[m]
           \/ \E f \in {"last_active", "uptime"} : m = <<p, f>>
              /\ (f = "last_active" => counter'[m] <= process'[p].now)
  <2>1. CASE SetName(p)
    <3> DEFINE n == <<p, process[p].pc>>
    <3>1. FindOrAdd(n) /\ process[p].pc \in {"last_active", "uptime"}
      BY <2>1 DEF SetName
    <3>2. 0 <= process'[p].now
      BY <1>0, <1>2 DEF ProcessType
    <3> HIDE DEF n
    <3>3. /\ counter' \in [DOMAIN counter' -> Nat] /\ room' \in Nat
          /\ DOMAIN counter \subseteq DOMAIN counter'
          /\ DOMAIN counter' \subseteq DOMAIN counter \cup {n}
          /\ \A m \in DOMAIN counter : counter'[m] = counter[m]
          /\ room = 0 => counter' = counter /\ room' = 0
          /\ n \in DOMAIN counter' /\ n \notin DOMAIN counter => counter'[n] = 0
      BY <3>1, Found DEF Shared
    <3> QED BY <3>1, <3>2, <3>3 DEF n
  <2>2. CASE StoreTime(p)
    <3>1. Write(process[p].last_active, Sign(p), process[p].now) /\ room' = room
      BY <2>2 DEF StoreTime, Sign
    <3>2. process[p].last_active \in BOOLEAN
      BY <1>0 DEF ProcessType
    <3>3. /\ counter' \in [DOMAIN counter' -> Nat] /\ DOMAIN counter' = DOMAIN counter
          /\ \A m \in DOMAIN counter : m # Sign(p) => counter'[m] = counter[m]
          /\ Sign(p) \in DOMAIN counter =>
               counter'[Sign(p)] = IF process[p].last_active THEN process[p].now ELSE counter[Sign(p)]
      BY <1>0, <3>1, <3>2, Written DEF Shared
    <3>4. Sign(p) \in DOMAIN counter => counter'[Sign(p)] \in Nat /\ counter'[Sign(p)] <= process[p].now
      BY <1>0, <3>3 DEF Shared, SignInv
    <3>5. process'[p].now \in Nat
      BY <1>2 DEF ProcessType
    <3>6. Sign(p) \in DOMAIN counter => counter'[Sign(p)] <= process'[p].now
      BY <1>0, <1>2, <3>4, <3>5
    <3>7. room' \in Nat /\ room' = room
      BY <3>1 DEF Shared, Types, DataTypes
    <3>8. ASSUME NEW m \in DOMAIN counter'
          PROVE  \/ m \in DOMAIN counter /\ counter'[m] = counter[m]
                 \/ m = <<p, "last_active">> /\ counter'[m] <= process'[p].now
      <4>1. CASE m = Sign(p)
        BY <3>3, <3>6, <4>1 DEF Sign
      <4>2. CASE m # Sign(p)
        BY <3>3, <4>2
      <4> QED BY <4>1, <4>2
    <3>9. ASSUME NEW m \in DOMAIN counter'
          PROVE  \/ m \in DOMAIN counter /\ counter'[m] = counter[m]
                 \/ \E f \in {"last_active", "uptime"} : m = <<p, f>>
                    /\ (f = "last_active" => counter'[m] <= process'[p].now)
      BY <3>8
    <3> QED BY <3>3, <3>7, <3>9
  <2>3. CASE UNCHANGED publish
    BY <2>3 DEF publish, Shared, Types, DataTypes, histories
  <2> QED BY <2>1, <2>2, <2>3 DEF UptimeUpdate, TakeTime, UptimeReset, Die
<1>4. \A q, g : g \in {"count", "used_bp", "used", "capacity"} =>
        /\ <<q, g>> \in DOMAIN counter' <=> <<q, g>> \in DOMAIN counter
        /\ <<q, g>> \in DOMAIN counter => counter'[<<q, g>>] = counter[<<q, g>>]
  BY <1>3
<1>5. \A q : /\ Cap(q) \in DOMAIN counter' <=> Cap(q) \in DOMAIN counter
             /\ Used(q) \in DOMAIN counter' <=> Used(q) \in DOMAIN counter
             /\ Cap(q) \in DOMAIN counter => counter'[Cap(q)] = counter[Cap(q)]
  BY <1>4 DEF Cap, Used
<1>6. room = 0 => room' = 0
  BY <1>3
<1>7. Types'
  BY <1>1, <1>2, <1>3 DEF Shared, Types, DataTypes
<1>8. ASSUME NEW v \in Users PROVE UserOK(v)'
  <2>1. UserOK(v) /\ user[v] \in UserType
    BY DEF Shared, Types, UserInv
  <2>2. Gauges[user[v].gauge] \in {"count", "used_bp", "used", "capacity"}
    BY <2>1, GaugeNames DEF UserType
  <2>3. \A g \in user[v].found : g \in {"count", "used_bp", "used", "capacity"}
    BY <2>1 DEF UserType
  <2> QED BY <1>1, <1>3, <1>4, <1>5, <1>6, <2>1, <2>2, <2>3 DEF UserOK
<1>9. UserInv'
  BY <1>1, <1>8 DEF Shared, UserInv
<1>10. GaugeInv'
  BY <1>1, <1>5, <1>6 DEF Shared, GaugeInv, CapacityOf
<1>11. SignInv'
  <2>1. ASSUME NEW x \in Processes
        PROVE  /\ process'[x].now <= clock'
               /\ Sign(x) \in DOMAIN counter' => counter'[Sign(x)] <= process'[x].now
    <3>1. CASE x = p
      <4>1. CASE Sign(p) \in DOMAIN counter /\ counter'[Sign(p)] = counter[Sign(p)]
        <5>1. counter[Sign(p)] <= process[p].now /\ counter[Sign(p)] \in Nat /\ process'[p].now \in Nat
          BY <4>1, <1>2 DEF Shared, Types, DataTypes, SignInv, ProcessType
        <5> QED BY <1>0, <1>1, <1>2, <3>1, <4>1, <5>1
      <4>2. CASE ~(Sign(p) \in DOMAIN counter /\ counter'[Sign(p)] = counter[Sign(p)])
        BY <1>1, <1>2, <1>3, <3>1, <4>2 DEF Sign
      <4> QED BY <4>1, <4>2
    <3>2. CASE x # p
      <4>1. Sign(x) \in DOMAIN counter' => Sign(x) \in DOMAIN counter /\ counter'[Sign(x)] = counter[Sign(x)]
        BY <1>3, <3>2 DEF Sign
      <4> QED BY <1>1, <1>2, <3>2, <4>1 DEF Shared, SignInv
    <3> QED BY <3>1, <3>2
  <2> QED BY <2>1 DEF SignInv
<1>12. Forward
  <2>1. \A x \in Processes : process[x].now <= process'[x].now
    BY <1>2 DEF Shared, Types, ProcessType
  <2>2. clock <= clock /\ \A x \in Queues : Len(file[x]) <= Len(file[x])
    BY DEF Shared, Types, DataTypes
  <2> QED BY <1>1, <1>3, <1>5, <2>1, <2>2 DEF Forward
<1> QED BY <1>7, <1>9, <1>10, <1>11, <1>12 DEF Shared

-----------------------------------------------------------------------------
(* The watcher between two of its steps.                                   *)

LEMMA Noted ==
  ASSUME Notes
  PROVE  /\ check.pc # "idle" => roomy \subseteq roomy' /\ clean \subseteq clean'
         /\ check'.kind = "queues" =>
              \A q \in scenario.queues :
                /\ linked'[q] = 0 \/ q \in scenario'.ignore \/ Percent(q)' <= 80 => q \in roomy'
                /\ linked'[q] = 0 \/ errors'[q] = "none" => q \in clean'
<1> DEFINE from(s) == IF check.pc = "idle" THEN {} ELSE s
           q0 == IF check'.kind = "queues" THEN scenario.queues ELSE {}
<1>1. /\ roomy' = from(roomy) \cup {q \in q0 : (Passed(q) \/ Percent(q) <= 80)'}
      /\ clean' = from(clean) \cup {q \in q0 : (linked[q] = 0 \/ errors[q] = "none")'}
  BY DEF Notes
<1> QED BY <1>1 DEF Passed

LEMMA Kept ==
  ASSUME Shared, Shared', Forward, Notes, PhaseInv, QueueInv, ProcessInv,
         check' = check, scenario' = scenario
  PROVE  PhaseInv' /\ QueueInv' /\ ProcessInv'
<1>1. PhaseInv' /\ Done' = Done
  BY DEF PhaseInv, Done, Reading
<1>2. ProcessInv'
  <2>1. /\ clock \in Nat /\ clock' \in Nat /\ clock <= clock' /\ check.began \in Nat
        /\ check.last_active \in Nat /\ check.began - WarnAfter \in Int
    BY Facts DEF Shared, Types, DataTypes, CheckType, Forward
  <2>2. ASSUME NEW p \in Processes
        PROVE  process[p].now \in Nat /\ process'[p].now \in Nat /\ process[p].now <= process'[p].now
    BY DEF Shared, Types, ProcessType, Forward
  <2> SUFFICES ASSUME check.kind = "processes" PROVE ProcessInv'
    BY DEF ProcessInv
  <2>3. /\ check.listed \subseteq Processes /\ check.todo \subseteq check.listed /\ check.began <= clock
        /\ check.pc = "age" => check.last_active <= process[check.name].now
        /\ check.status = status_ok => \A p \in Done : process[p].now >= check.began - WarnAfter
    BY DEF ProcessInv
  <2>4. check.pc = "age" => check.last_active <= process'[check.name].now
    <3> SUFFICES ASSUME check.pc = "age" PROVE check.last_active <= process'[check.name].now
      OBVIOUS
    <3>1. check.name \in Processes
      BY <2>3 DEF PhaseInv, Reading
    <3> QED BY <2>1, <2>2, <2>3, <3>1
  <2>5. check.status = status_ok => \A p \in Done : process'[p].now >= check.began - WarnAfter
    <3> SUFFICES ASSUME check.status = status_ok, NEW p \in Done
                 PROVE  process'[p].now >= check.began - WarnAfter
      OBVIOUS
    <3>1. p \in Processes
      BY <2>3 DEF Done, Reading
    <3> QED BY <2>1, <2>2, <2>3, <3>1
  <2>6. check.began <= clock'
    BY <2>1, <2>3
  <2> QED BY <1>1, <2>3, <2>4, <2>5, <2>6 DEF ProcessInv
<1>3. QueueInv'
  <2> SUFFICES ASSUME check.kind = "queues" PROVE QueueInv'
    BY DEF QueueInv
  <2>1. roomy \subseteq roomy' /\ clean \subseteq clean' /\ (places = 0 => places' = 0)
    BY Noted DEF PhaseInv, Forward
  <2>2. \A q \in Queues : /\ Len(file[q]) \in Nat /\ Len(file'[q]) \in Nat /\ Len(file[q]) <= Len(file'[q])
                          /\ Remade(q) => Remade(q)'
    BY DEF Shared, Types, DataTypes, Forward, Remade
  <2>3. /\ check.listed \subseteq Queues /\ check.todo \subseteq check.listed
        /\ \A q \in check.listed : Cap(q) \in DOMAIN counter
    BY DEF QueueInv
  <2>4. \A q \in check.listed : Cap(q) \in DOMAIN counter'
    BY <2>3 DEF Forward
  <2>5. check.status = status_ok /\ check.pc # "dead" =>
          \A q \in Done : (q \in clean' \/ places' = 0) /\ (q \in roomy' \/ Remade(q)')
    <3> SUFFICES ASSUME check.status = status_ok, check.pc # "dead", NEW q \in Done
                 PROVE  (q \in clean' \/ places' = 0) /\ (q \in roomy' \/ Remade(q)')
      OBVIOUS
    <3>1. q \in Queues
      BY <2>3 DEF Done
    <3> QED BY <2>1, <2>2, <3>1 DEF QueueInv
  <2>6. check.pc \in {"used", "capacity"} /\ check.errors = "none" => check.name \in clean' \/ places' = 0
    BY <2>1 DEF QueueInv
  <2>7. ASSUME check.pc = "capacity"
        PROVE  /\ check.used # INVALID_COUNTER_VALUE
               /\ \/ check.name \in scenario.ignore \cup roomy'
                  \/ Remade(check.name)'
                  \/ /\ counter'[Cap(check.name)] = CapacityOf(check.name)'
                     /\ Full(check.used, CapacityOf(check.name)') > 80
               /\ check.name \in scenario.ignore => check.name \in roomy'
    <3>q. PICK q : q = check.name
      OBVIOUS
    <3>1. q \in check.listed /\ q \in Queues /\ Cap(q) \in DOMAIN counter /\ Cap(q) \in DOMAIN counter'
      BY <2>3, <2>4, <2>7, <3>q DEF PhaseInv, Reading
    <3>2. /\ check.used # INVALID_COUNTER_VALUE
          /\ \/ q \in scenario.ignore \cup roomy
             \/ Remade(q)
             \/ counter[Cap(q)] = CapacityOf(q) /\ Full(check.used, CapacityOf(q)) > 80
          /\ q \in scenario.ignore => q \in roomy
      BY <2>7, <3>q DEF QueueInv
    <3>3. CASE q \in scenario.ignore \cup roomy \/ Remade(q)
      BY <2>1, <2>2, <3>1, <3>2, <3>3, <3>q
    <3>4. CASE Remade(q)'
      BY <2>1, <3>2, <3>4, <3>q
    <3>5. CASE ~(q \in scenario.ignore \cup roomy \/ Remade(q)) /\ ~Remade(q)'
      <4>a. Len(file[q]) > 0 /\ (Len(file'[q]) > 1 \/ counter'[Cap(q)] \in {0, CapacityOf(q)'})
        BY <3>1 DEF Shared, GaugeInv
      <4>b. Len(file'[q]) <= 1
        BY <2>2, <3>1, <3>5 DEF Remade
      <4>1. Len(file[q]) = 1 /\ Len(file'[q]) = 1
        <5>1. Len(file[q]) \in Nat /\ Len(file'[q]) \in Nat /\ Len(file[q]) <= Len(file'[q])
          BY <2>2, <3>1
        <5>2. PICK before \in Nat, after \in Nat : before = Len(file[q]) /\ after = Len(file'[q])
          BY <5>1
        <5>3. before > 0 /\ before <= after /\ after <= 1
          BY <4>a, <4>b, <5>1, <5>2
        <5>4. before = 1 /\ after = 1
          BY <5>3
        <5> QED BY <5>2, <5>4
      <4>2. CapacityOf(q)' = CapacityOf(q)
        BY <3>1, <4>1 DEF Forward, CapacityOf
      <4>3. CapacityOf(q) \in Nat /\ CapacityOf(q) > 0
        <5>1. file[q] \in Seq(Data)
          BY <3>1 DEF Shared, Types, DataTypes
        <5>2. file[q][1] \in Data
          BY <4>1, <5>1
        <5>3. \A c \in Capacities : c \in Nat /\ c > 0
          BY Facts
        <5> QED BY <5>2, <5>3 DEF Data, CapacityOf
      <4>4. counter'[Cap(q)] = CapacityOf(q)'
        <5>1. counter[Cap(q)] = CapacityOf(q)
          BY <3>2, <3>5
        <5>2. counter'[Cap(q)] > 0
          BY <3>1, <4>3, <5>1 DEF Forward
        <5>3. counter'[Cap(q)] \in {0, CapacityOf(q)'}
          BY <4>1, <4>a
        <5> QED BY <5>2, <5>3
      <4>5. Full(check.used, CapacityOf(q)') > 80
        BY <3>2, <3>5, <4>2
      <4> QED BY <2>1, <3>2, <4>4, <4>5, <3>q
    <3> QED BY <3>3, <3>4, <3>5
  <2> QED BY <1>1, <2>3, <2>4, <2>5, <2>6, <2>7 DEF QueueInv
<1> QED BY <1>1, <1>2, <1>3

-----------------------------------------------------------------------------
(* The watcher's own steps.                                                *)

LEMMA InitInv == Init => IInv
<1> SUFFICES ASSUME Init PROVE IInv
  OBVIOUS
<1>1. /\ counter = <<>> /\ DOMAIN counter = {} /\ known = {} /\ check = Idle
      /\ file = [q \in Queues |-> <<>>] /\ linked = [q \in Queues |-> 0]
      /\ errors = [q \in Queues |-> "none"] /\ user = [u \in Users |-> Closed]
      /\ process = [p \in Processes |-> Unnamed(0)]
      /\ scenario \in Scenarios /\ room = scenario.room /\ places = scenario.places /\ clock = Start
  BY DEF Init
<1>2. DataTypes
  <2>1. room \in Nat /\ places \in Nat /\ clock \in Nat
    BY <1>1, Facts DEF Start
  <2>2. <<>> \in Seq(Data)
    OBVIOUS
  <2>3. counter \in [DOMAIN counter -> Nat]
    BY <1>1
  <2> QED BY <1>1, <2>1, <2>2, <2>3 DEF DataTypes
<1>3. user \in [Users -> UserType] /\ \A u \in Users : user[u].pc = "closed"
  BY <1>1, ClosedType
<1>4. process \in [Processes -> ProcessType] /\ \A p \in Processes : process[p].now = 0
  BY <1>1 DEF Unnamed, ProcessType
<1>5. check \in CheckType /\ check.kind = "none" /\ check.pc = "idle"
  BY <1>1 DEF Idle, CheckType, status_ok
<1>6. Shared
  <2>1. UserInv
    BY <1>1, <1>3 DEF UserInv, UserOK
  <2>2. GaugeInv
    BY <1>1 DEF GaugeInv
  <2>3. SignInv
    BY <1>1, <1>2, <1>4 DEF SignInv, DataTypes
  <2> QED BY <1>2, <1>3, <1>4, <1>5, <2>1, <2>2, <2>3 DEF Shared, Types
<1> QED BY <1>5, <1>6 DEF IInv, PhaseInv, Reading, QueueInv, ProcessInv

LEMMA CheckShared ==
  ASSUME Shared, NEW next \in CheckType, check' = next, scenario' = scenario, places' \in Nat,
         UNCHANGED <<counter, room, file, linked, errors, user, process, clock, known>>
  PROVE  Shared'
<1>1. Types'
  BY DEF Shared, Types, DataTypes
<1>2. UserInv' /\ GaugeInv' /\ SignInv'
  BY DEF Shared, UserInv, UserOK, GaugeInv, CapacityOf, SignInv
<1> QED BY <1>1, <1>2 DEF Shared

LEMMA WatchShared ==
  ASSUME Shared, NEW next \in CheckType, Watch(next), scenario' = scenario
  PROVE  /\ Shared' /\ check' = next
         /\ UNCHANGED <<counter, file, linked, errors, places, process, clock, known>>
<1>1. check' = next /\ UNCHANGED <<counter, room, file, linked, errors, places, user, process, clock, known>>
  BY DEF Watch, publish, queue, histories
<1>2. places \in Nat
  BY DEF Shared, Types, DataTypes
<1> QED BY <1>1, <1>2, CheckShared

LEMMA FullInt ==
  ASSUME NEW used \in Nat \cup {-1}, NEW capacity \in Nat, capacity > 0
  PROVE  Full(used, capacity) \in Int
<1>1. CASE used = -1
  BY <1>1 DEF Full, INVALID_COUNTER_VALUE
<1>2. CASE used \in Nat
  <2>1. used * 100 \in Int
    BY <1>2
  <2> QED BY <2>1 DEF Full, INVALID_COUNTER_VALUE
<1> QED BY <1>1, <1>2

(* What is known of a queue that the watcher was shown.                    *)
LEMMA Listed ==
  ASSUME Shared, QueueInv, check.kind = "queues", NEW q \in check.listed
  PROVE  /\ q \in Queues /\ q \in scenario.queues
         /\ Cap(q) \in DOMAIN counter /\ Used(q) \in DOMAIN counter
         /\ counter[Cap(q)] \in Nat /\ counter[Used(q)] \in Nat
         /\ CapacityOf(q) \in Nat /\ CapacityOf(q) > 0
         /\ Remade(q) \/ counter[Cap(q)] \in {0, CapacityOf(q)}
         /\ q \in known => counter[Cap(q)] > 0
<1>1. q \in Queues /\ Cap(q) \in DOMAIN counter
  BY DEF QueueInv
<1>2. /\ q \in scenario.queues /\ Used(q) \in DOMAIN counter /\ Len(file[q]) > 0
      /\ Remade(q) \/ counter[Cap(q)] \in {0, CapacityOf(q)}
      /\ q \in known => counter[Cap(q)] > 0
  BY <1>1 DEF Shared, GaugeInv, Remade
<1>3. counter[Cap(q)] \in Nat /\ counter[Used(q)] \in Nat
  BY <1>1, <1>2 DEF Shared, Types, DataTypes
<1>4. CapacityOf(q) \in Nat /\ CapacityOf(q) > 0
  <2>1. file[q] \in Seq(Data)
    BY <1>1 DEF Shared, Types, DataTypes
  <2>2. file[q][1] \in Data
    BY <1>2, <2>1
  <2>3. \A c \in Capacities : c \in Nat /\ c > 0
    BY Facts
  <2> QED BY <2>2, <2>3 DEF Data, CapacityOf
<1> QED BY <1>1, <1>2, <1>3, <1>4

LEMMA CheckAllStatusInv ==
  ASSUME IInv, CheckAllStatus, Notes, scenario' = scenario
  PROVE  IInv'
<1>1. PICK listed : /\ listed \subseteq {q \in Queues : Cap(q) \in DOMAIN counter}
                    /\ Watch([Idle EXCEPT !.pc = "queue", !.kind = "queues", !.listed = listed,
                                          !.todo = listed])
  <2> DEFINE all == {q \in Queues : <<q, "capacity">> \in DOMAIN counter}
  <2>1. PICK listed \in {all} \cup {all \ {q} : q \in IF Inserting THEN all ELSE {}} :
          Watch([Idle EXCEPT !.pc = "queue", !.kind = "queues", !.listed = listed, !.todo = listed])
    BY DEF CheckAllStatus
  <2>2. listed \subseteq all
    BY <2>1
  <2> QED BY <2>1, <2>2 DEF Cap
<1> DEFINE next == [Idle EXCEPT !.pc = "queue", !.kind = "queues", !.listed = listed,
                                !.todo = listed]
<1>3. /\ next \in CheckType /\ next.pc = "queue" /\ next.kind = "queues" /\ next.listed = listed
      /\ next.todo = listed /\ next.status = status_ok
  BY <1>1 DEF Idle, CheckType, status_ok
<1> HIDE DEF next
<1>4. /\ Shared' /\ check' = next
      /\ UNCHANGED <<counter, file, linked, errors, places, process, clock, known>>
  BY <1>1, <1>3, WatchShared DEF IInv, next
<1>5. PhaseInv' /\ ProcessInv'
  BY <1>3, <1>4 DEF PhaseInv, Reading, ProcessInv
<1>6. QueueInv'
  BY <1>1, <1>3, <1>4 DEF QueueInv, Done, Reading
<1> QED BY <1>4, <1>5, <1>6 DEF IInv


LEMMA ReadQueueInv ==
  ASSUME IInv, ReadQueue, Notes, scenario' = scenario
  PROVE  IInv'
<1>1. PICK q \in check.todo :
        Watch(IF linked[q] = 0
              THEN [check EXCEPT !.todo = @ \ {q}]
              ELSE [check EXCEPT !.pc = "message", !.todo = @ \ {q}, !.name = q])
  BY DEF ReadQueue
<1>2. /\ check \in CheckType /\ check.pc = "queue" /\ check.kind = "queues"
      /\ q \in check.listed /\ q \in Queues /\ q \in scenario.queues
  <2>1. check \in CheckType /\ check.pc = "queue"
    BY DEF IInv, Shared, Types, ReadQueue
  <2>2. check.kind = "queues"
    BY <2>1 DEF IInv, PhaseInv, CheckType
  <2>3. q \in check.listed
    BY <2>2 DEF IInv, QueueInv
  <2> QED BY <2>1, <2>2, <2>3, Listed DEF IInv
<1> DEFINE next == IF linked[q] = 0
                   THEN [check EXCEPT !.todo = @ \ {q}]
                   ELSE [check EXCEPT !.pc = "message", !.todo = @ \ {q}, !.name = q]
<1>4. /\ next \in CheckType
      /\ next.kind = "queues" /\ next.listed = check.listed /\ next.todo = check.todo \ {q}
      /\ next.status = check.status
      /\ linked[q] = 0 => next.pc = "queue"
      /\ linked[q] # 0 => next.pc = "message" /\ next.name = q
  <2>1. CASE linked[q] = 0
    BY <1>2, <2>1 DEF CheckType
  <2>2. CASE linked[q] # 0
    BY <1>2, <2>2 DEF CheckType
  <2> QED BY <2>1, <2>2
<1> HIDE DEF next
<1>5. /\ Shared' /\ check' = next
      /\ UNCHANGED <<counter, file, linked, errors, places, process, clock, known>>
  BY <1>1, <1>4, WatchShared DEF IInv, next
<1>6. PhaseInv' /\ ProcessInv'
  BY <1>2, <1>4, <1>5 DEF PhaseInv, ProcessInv, Reading
<1>7. /\ roomy \subseteq roomy' /\ clean \subseteq clean'
      /\ linked[q] = 0 => q \in roomy' /\ q \in clean'
  BY <1>2, <1>4, <1>5, Noted DEF IInv
<1>8. QueueInv'
  <2>1. /\ check.listed \subseteq Queues /\ check.todo \subseteq check.listed
        /\ \A x \in check.listed : Cap(x) \in DOMAIN counter
        /\ check.status = status_ok =>
             \A x \in Done : (x \in clean \/ places = 0) /\ (x \in roomy \/ Remade(x))
    BY <1>2 DEF IInv, QueueInv
  <2>2. \A x \in Done' : x \in Done \/ (x = q /\ linked[q] = 0)
    BY <1>2, <1>4, <1>5 DEF Done, Reading
  <2>3. \A x : Remade(x)' <=> Remade(x)
    BY <1>5 DEF Remade
  <2>4. check.status = status_ok =>
          \A x \in Done' : (x \in clean' \/ places' = 0) /\ (x \in roomy' \/ Remade(x)')
    BY <1>5, <1>7, <2>1, <2>2, <2>3
  <2> QED BY <1>4, <1>5, <2>1, <2>4 DEF QueueInv
<1> QED BY <1>5, <1>6, <1>8 DEF IInv

LEMMA ReadHistoryInv ==
  ASSUME IInv, ReadHistory, Notes, scenario' = scenario
  PROVE  IInv'
<1>1. PICK q : q = check.name
  OBVIOUS
<1>2. /\ check \in CheckType /\ check.pc \in {"message", "drop", "error"} /\ check.kind = "queues"
      /\ q \in check.listed /\ q \in Queues /\ q \in scenario.queues
  <2>1. check \in CheckType /\ check.pc \in {"message", "drop", "error"}
    BY DEF IInv, Shared, Types, ReadHistory
  <2>2. check.kind = "queues"
    BY <2>1 DEF IInv, PhaseInv, CheckType
  <2>3. q \in check.listed
    BY <1>1, <2>1 DEF IInv, PhaseInv, Reading
  <2> QED BY <2>1, <2>2, <2>3, Listed DEF IInv
<1>3. PICK said \in {"none", "interval", "last"} :
        said = IF check.pc = "error" /\ places # 0 THEN errors[check.name] ELSE "none"
  BY <1>1, <1>2 DEF IInv, Shared, Types, DataTypes
<1>4. PICK pc \in {"drop", "error", "used"} :
        /\ pc = CASE check.pc = "message" -> "drop" [] check.pc = "drop" -> "error" [] check.pc = "error" -> "used"
        /\ pc = "used" <=> check.pc = "error"
  <2>1. CASE check.pc = "message"
    BY <2>1
  <2>2. CASE check.pc = "drop"
    BY <2>2
  <2>3. CASE check.pc = "error"
    BY <2>3
  <2> QED BY <1>2, <2>1, <2>2, <2>3
<1> DEFINE next == [check EXCEPT !.pc = pc, !.errors = said]
<1>5. check' = next /\ UNCHANGED <<counter, room, file, linked, errors, user, process, clock, known>>
  BY <1>2, <1>3, <1>4 DEF ReadHistory, publish, queue, CheckType
<1>6. /\ next \in CheckType /\ next.pc = pc /\ next.errors = said
      /\ next.kind = "queues" /\ next.listed = check.listed /\ next.todo = check.todo /\ next.name = q
      /\ next.status = check.status
  BY <1>1, <1>2 DEF CheckType
<1> HIDE DEF next
<1>7. places' \in Nat /\ (places = 0 => places' = 0)
  BY Pointed DEF ReadHistory, IInv, Shared, Types, DataTypes
<1>8. Shared'
  BY <1>5, <1>6, <1>7, CheckShared DEF IInv
<1>9. PhaseInv' /\ ProcessInv' /\ Done' = Done
  BY <1>1, <1>2, <1>5, <1>6 DEF IInv, PhaseInv, ProcessInv, Done, Reading
<1>10. /\ roomy \subseteq roomy' /\ clean \subseteq clean'
       /\ errors[q] = "none" => q \in clean'
  BY <1>2, <1>5, <1>6, Noted DEF IInv
<1>11. QueueInv'
  <2>1. /\ check.listed \subseteq Queues /\ check.todo \subseteq check.listed
        /\ \A x \in check.listed : Cap(x) \in DOMAIN counter
        /\ check.status = status_ok =>
             \A x \in Done : (x \in clean \/ places = 0) /\ (x \in roomy \/ Remade(x))
    BY <1>2 DEF IInv, QueueInv
  <2>2. \A x : Remade(x)' <=> Remade(x)
    BY <1>5 DEF Remade
  <2>3. check.status = status_ok =>
          \A x \in Done : (x \in clean' \/ places' = 0) /\ (x \in roomy' \/ Remade(x)')
    BY <1>7, <1>10, <2>1, <2>2
  <2>4. pc = "used" /\ said = "none" => q \in clean' \/ places' = 0
    BY <1>1, <1>3, <1>4, <1>7, <1>10
  <2> QED BY <1>5, <1>6, <1>9, <2>1, <2>3, <2>4 DEF QueueInv
<1> QED BY <1>8, <1>9, <1>11 DEF IInv

LEMMA ReadUsedInv ==
  ASSUME IInv, ReadUsed, Notes, scenario' = scenario
  PROVE  IInv'
<1>1. PICK q : q = check.name
  OBVIOUS
<1>2. /\ check \in CheckType /\ check.pc = "used" /\ check.kind = "queues"
      /\ q \in check.listed /\ q \in Queues /\ q \in scenario.queues
      /\ Cap(q) \in DOMAIN counter /\ Used(q) \in DOMAIN counter
      /\ counter[Cap(q)] \in Nat /\ counter[Used(q)] \in Nat
      /\ CapacityOf(q) \in Nat /\ CapacityOf(q) > 0
      /\ Remade(q) \/ counter[Cap(q)] \in {0, CapacityOf(q)}
      /\ q \in known => counter[Cap(q)] > 0
  <2>1. check \in CheckType /\ check.pc = "used"
    BY DEF IInv, Shared, Types, ReadUsed
  <2>2. check.kind = "queues"
    BY <2>1 DEF IInv, PhaseInv, Reading, CheckType
  <2>3. q \in check.listed
    BY <1>1, <2>1 DEF IInv, PhaseInv, Reading
  <2> QED BY <2>1, <2>2, <2>3, Listed DEF IInv
<1>3. PICK used \in Nat : used = counter[Used(q)]
  BY <1>2
<1>4. PICK capacity \in Nat : capacity = counter[Cap(q)]
  BY <1>2
<1>5. Watch([check EXCEPT !.pc = "capacity", !.used = used])
  BY <1>1, <1>2, <1>3 DEF ReadUsed, GetCounterValue, Used
<1> DEFINE next == [check EXCEPT !.pc = "capacity", !.used = used]
<1>6. /\ next \in CheckType /\ next.pc = "capacity" /\ next.used = used
      /\ next.kind = "queues" /\ next.listed = check.listed /\ next.todo = check.todo /\ next.name = q
      /\ next.status = check.status /\ next.errors = check.errors
  BY <1>1, <1>2 DEF CheckType
<1> HIDE DEF next
<1>7. /\ Shared' /\ check' = next
      /\ UNCHANGED <<counter, file, linked, errors, places, process, clock, known>>
  BY <1>5, <1>6, WatchShared DEF IInv, next
<1>8. PhaseInv' /\ ProcessInv' /\ Done' = Done
  BY <1>1, <1>2, <1>6, <1>7 DEF IInv, PhaseInv, Reading, ProcessInv, Done, Reading
<1>9. /\ roomy \subseteq roomy' /\ clean \subseteq clean'
      /\ q \in scenario'.ignore \/ Percent(q)' <= 80 => q \in roomy'
  BY <1>2, <1>6, <1>7, Noted DEF IInv
<1>10. Percent(q)' = IF capacity = 0 THEN 0 ELSE Full(used, capacity)
  BY <1>2, <1>3, <1>4, <1>7 DEF Percent, GetCounterValue, Cap, Used
<1>11. \/ q \in scenario.ignore \cup roomy'
       \/ Remade(q)
       \/ capacity = CapacityOf(q) /\ Full(used, CapacityOf(q)) > 80
  <2> SUFFICES ASSUME ~Remade(q)
               PROVE  q \in roomy' \/ (capacity = CapacityOf(q) /\ Full(used, CapacityOf(q)) > 80)
    OBVIOUS
  <2>1. PICK full \in Int : full = Full(used, CapacityOf(q))
    BY <1>2, FullInt
  <2>2. capacity = 0 \/ capacity = CapacityOf(q)
    BY <1>2, <1>4
  <2>3. CASE capacity = 0
    BY <1>9, <1>10, <2>3
  <2>4. CASE capacity # 0
    <3>1. Percent(q)' = full /\ capacity = CapacityOf(q)
      BY <1>10, <2>1, <2>2, <2>4
    <3>2. full > 80 \/ full <= 80
      BY <2>1
    <3> QED BY <1>9, <2>1, <3>1, <3>2
  <2> QED BY <2>3, <2>4
<1>12. QueueInv'
  <2>1. /\ check.listed \subseteq Queues /\ check.todo \subseteq check.listed
        /\ \A x \in check.listed : Cap(x) \in DOMAIN counter
        /\ check.status = status_ok =>
             \A x \in Done : (x \in clean \/ places = 0) /\ (x \in roomy \/ Remade(x))
        /\ check.errors = "none" => check.name \in clean \/ places = 0
    BY <1>2 DEF IInv, QueueInv
  <2>2. \A x : Remade(x)' <=> Remade(x)
    BY <1>7 DEF Remade
  <2>3. check.status = status_ok =>
          \A x \in Done : (x \in clean' \/ places' = 0) /\ (x \in roomy' \/ Remade(x)')
    BY <1>7, <1>9, <2>1, <2>2
  <2>4. check.errors = "none" => q \in clean' \/ places' = 0
    BY <1>1, <1>7, <1>9, <2>1
  <2>5. used # INVALID_COUNTER_VALUE
    BY DEF INVALID_COUNTER_VALUE
  <2>6. /\ counter'[Cap(q)] = capacity /\ CapacityOf(q)' = CapacityOf(q)
        /\ q \in scenario.ignore => q \in roomy'
    BY <1>4, <1>7, <1>9 DEF CapacityOf
  <2>7. \/ q \in scenario.ignore \cup roomy'
        \/ Remade(q)'
        \/ counter'[Cap(q)] = CapacityOf(q)' /\ Full(used, CapacityOf(q)') > 80
    BY <1>11, <2>2, <2>6
  <2>8. /\ check'.pc = "capacity" /\ check'.kind = "queues" /\ check'.name = q /\ check'.used = used
        /\ check'.status = check.status /\ check'.errors = check.errors
        /\ check'.listed = check.listed /\ check'.todo = check.todo
    BY <1>6, <1>7
  <2> QED BY <1>7, <1>8, <2>1, <2>3, <2>4, <2>5, <2>6, <2>7, <2>8 DEF QueueInv
<1> QED BY <1>7, <1>8, <1>12 DEF IInv


LEMMA CheckStatusBounds ==
  ASSUME NEW full \in Int, NEW e \in {"none", "interval", "last"}, NEW s \in {0, 1, 2}
  PROVE  /\ Larger(s, CheckStatus(full, e)) \in {0, 1, 2}
         /\ Larger(s, CheckStatus(full, e)) = 0 <=> s = 0 /\ full <= 80 /\ e = "none"
BY DEF Larger, CheckStatus, status_ok, status_warning, status_critical

LEMMA ReadCapacityInv ==
  ASSUME IInv, ReadCapacity, Notes, scenario' = scenario
  PROVE  IInv'
<1>1. PICK q : q = check.name
  OBVIOUS
<1>2. /\ check \in CheckType /\ check.pc = "capacity" /\ check.kind = "queues"
      /\ q \in check.listed /\ q \in Queues /\ q \in scenario.queues
      /\ Cap(q) \in DOMAIN counter
      /\ counter[Cap(q)] \in Nat
      /\ CapacityOf(q) \in Nat /\ CapacityOf(q) > 0
      /\ Remade(q) \/ counter[Cap(q)] \in {0, CapacityOf(q)}
  <2>1. check \in CheckType /\ check.pc = "capacity"
    BY DEF IInv, Shared, Types, ReadCapacity
  <2>2. check.kind = "queues"
    BY <2>1 DEF IInv, PhaseInv, Reading, CheckType
  <2>3. q \in check.listed
    BY <1>1, <2>1 DEF IInv, PhaseInv, Reading
  <2> QED BY <2>1, <2>2, <2>3, Listed DEF IInv
<1>3. PICK capacity \in Nat : capacity = counter[Cap(q)]
  BY <1>2
<1>4. /\ check.used \in Nat \cup {-1} /\ check.errors \in {"none", "interval", "last"}
      /\ check.status \in {0, 1, 2}
  BY <1>2 DEF CheckType
<1>5. /\ check.listed \subseteq Queues /\ check.todo \subseteq check.listed
      /\ \A x \in check.listed : Cap(x) \in DOMAIN counter
      /\ check.status = status_ok =>
           \A x \in Done : (x \in clean \/ places = 0) /\ (x \in roomy \/ Remade(x))
      /\ check.errors = "none" => q \in clean \/ places = 0
      /\ \/ q \in scenario.ignore \cup roomy
         \/ Remade(q)
         \/ capacity = CapacityOf(q) /\ Full(check.used, CapacityOf(q)) > 80
      /\ q \in scenario.ignore => q \in roomy
  BY <1>1, <1>2, <1>3 DEF IInv, QueueInv
<1>6. CASE capacity = 0 /\ q \notin scenario.ignore
  <2> DEFINE next == [check EXCEPT !.pc = "dead"]
  <2>1. Watch(next)
    BY <1>1, <1>2, <1>3, <1>6 DEF ReadCapacity, GetCounterValue, Cap
  <2>2. /\ next \in CheckType /\ next.pc = "dead"
        /\ next.kind = "queues" /\ next.listed = check.listed /\ next.todo = check.todo
        /\ next.status = check.status
    BY <1>2 DEF CheckType
  <2> HIDE DEF next
  <2>3. /\ Shared' /\ check' = next
        /\ UNCHANGED <<counter, file, linked, errors, places, process, clock, known>>
    BY <2>1, <2>2, WatchShared DEF IInv
  <2>4. PhaseInv' /\ ProcessInv'
    BY <1>2, <2>2, <2>3 DEF PhaseInv, Reading, ProcessInv
  <2>6. QueueInv'
    BY <1>5, <2>2, <2>3 DEF QueueInv
  <2> QED BY <2>3, <2>4, <2>6 DEF IInv
<1>7. CASE ~(capacity = 0 /\ q \notin scenario.ignore)
  <2>1. PICK full \in Int : full = IF q \in scenario.ignore THEN 0 ELSE Full(check.used, capacity)
    BY <1>3, <1>4, <1>7, FullInt
  <2>2. PICK status \in {0, 1, 2} : /\ status = Larger(check.status, CheckStatus(full, check.errors))
                                    /\ status = 0 <=> check.status = 0 /\ full <= 80 /\ check.errors = "none"
    BY <1>4, <2>1, CheckStatusBounds
  <2> DEFINE next == [check EXCEPT !.pc = "queue", !.status = status]
  <2>3. Watch([check EXCEPT
                 !.pc = "queue",
                 !.status = Larger(@, CheckStatus(IF q \in scenario.ignore THEN 0 ELSE Full(check.used, capacity),
                                                  check.errors))])
    BY <1>1, <1>2, <1>3, <1>7 DEF ReadCapacity, GetCounterValue, Cap
  <2>4. Watch(next)
    BY <1>2, <2>1, <2>2, <2>3 DEF CheckType
  <2>5. /\ next \in CheckType /\ next.pc = "queue" /\ next.status = status
        /\ next.kind = "queues" /\ next.listed = check.listed /\ next.todo = check.todo
       
    BY <1>2, <2>2 DEF CheckType
  <2> HIDE DEF next
  <2>6. /\ Shared' /\ check' = next
        /\ UNCHANGED <<counter, file, linked, errors, places, process, clock, known>>
    BY <2>4, <2>5, WatchShared DEF IInv
  <2>7. PhaseInv' /\ ProcessInv'
    BY <1>2, <2>5, <2>6 DEF PhaseInv, Reading, ProcessInv
  <2>8. /\ roomy \subseteq roomy' /\ clean \subseteq clean'
        /\ \A x : Remade(x)' <=> Remade(x)
    BY <1>2, <2>6, Noted DEF IInv, Remade
  <2>9. \A x \in Done' : x \in Done \/ x = q
    BY <1>1, <1>2, <2>5, <2>6 DEF Done, Reading
  <2>10. ASSUME status = 0 PROVE (q \in clean \/ places = 0) /\ (q \in roomy \/ Remade(q))
    <3>1. full <= 80 /\ check.errors = "none"
      BY <2>2, <2>10
    <3>2. CASE q \in scenario.ignore \/ Remade(q)
      BY <1>5, <3>1, <3>2
    <3>3. CASE ~(q \in scenario.ignore \/ Remade(q))
      <4>1. q \in roomy \/ (capacity = CapacityOf(q) /\ Full(check.used, CapacityOf(q)) > 80)
        BY <1>5, <3>3
      <4>2. full = Full(check.used, capacity)
        BY <2>1, <3>3
      <4> QED BY <1>5, <3>1, <4>1, <4>2
    <3> QED BY <3>2, <3>3
  <2>12. QueueInv'
    <3>1. status = 0 => \A x \in Done' : (x \in clean' \/ places' = 0) /\ (x \in roomy' \/ Remade(x)')
      BY <1>5, <2>2, <2>6, <2>8, <2>9, <2>10 DEF status_ok
    <3> QED BY <1>5, <2>5, <2>6, <3>1 DEF QueueInv, status_ok
  <2> QED BY <2>6, <2>7, <2>12 DEF IInv
<1> QED BY <1>6, <1>7


(* A step of the watcher that says nothing of queues.                      *)
LEMMA OtherWatchInv ==
  ASSUME IInv, NEW next \in CheckType, Watch(next), Notes, scenario' = scenario, next.kind # "queues",
         PhaseInv', ProcessInv'
  PROVE  IInv'
<1>1. Shared' /\ check' = next
  BY WatchShared DEF IInv
<1> QED BY <1>1 DEF IInv, QueueInv

LEMMA UptimeCheckStatusInv ==
  ASSUME IInv, UptimeCheckStatus, Notes, scenario' = scenario
  PROVE  IInv'
<1> DEFINE next == [Idle EXCEPT !.pc = "process", !.kind = "processes", !.listed = scenario.processes,
                                !.todo = scenario.processes, !.began = clock]
<1>1. Watch(next) /\ scenario.processes \subseteq Processes /\ clock \in Nat
  BY Facts DEF UptimeCheckStatus, IInv, Shared, Types, DataTypes
<1>2. /\ next \in CheckType /\ next.pc = "process" /\ next.kind = "processes"
      /\ next.listed = scenario.processes /\ next.todo = scenario.processes /\ next.began = clock
  BY <1>1 DEF Idle, CheckType, status_ok
<1> HIDE DEF next
<1>3. Shared' /\ check' = next /\ UNCHANGED <<process, clock>>
  BY <1>1, <1>2, WatchShared DEF IInv
<1>4. PhaseInv'
  BY <1>2, <1>3 DEF PhaseInv, Reading
<1>5. ProcessInv'
  BY <1>1, <1>2, <1>3 DEF ProcessInv, Done, Reading
<1> QED BY <1>1, <1>2, <1>4, <1>5, OtherWatchInv

LEMMA ReadLastActiveInv ==
  ASSUME IInv, ReadLastActive, Notes, scenario' = scenario
  PROVE  IInv'
<1>1. PICK p \in check.todo :
        LET value == GetCounterValue(<<p, "last_active">>)
        IN  Watch(IF value = INVALID_COUNTER_VALUE
                  THEN [check EXCEPT !.todo = @ \ {p}, !.status = status_critical]
                  ELSE [check EXCEPT !.todo = @ \ {p}, !.pc = "age", !.name = p, !.last_active = value])
  BY DEF ReadLastActive
<1>2. /\ check \in CheckType /\ check.pc = "process" /\ check.kind = "processes"
      /\ check.listed \subseteq Processes /\ check.todo \subseteq check.listed
      /\ p \in check.listed /\ p \in Processes /\ check.began <= clock
      /\ check.status = status_ok => \A x \in Done : process[x].now >= check.began - WarnAfter
  <2>1. check \in CheckType /\ check.pc = "process"
    BY DEF IInv, Shared, Types, ReadLastActive
  <2>2. check.kind = "processes"
    BY <2>1 DEF IInv, PhaseInv, Reading, CheckType
  <2> QED BY <2>1, <2>2 DEF IInv, ProcessInv
<1>3. CASE Sign(p) \notin DOMAIN counter
  <2> DEFINE next == [check EXCEPT !.todo = @ \ {p}, !.status = 2]
  <2>1. Watch(next)
    BY <1>1, <1>3 DEF GetCounterValue, Sign, status_critical
  <2>2. /\ next \in CheckType /\ next.pc = "process" /\ next.kind = "processes"
        /\ next.listed = check.listed /\ next.todo = check.todo \ {p} /\ next.began = check.began
        /\ next.status # status_ok
    <3>1. next \in CheckType
      BY <1>2 DEF CheckType
    <3>2. next.status = 2
      BY <1>2 DEF CheckType
    <3>3. /\ next.pc = "process" /\ next.kind = "processes"
          /\ next.listed = check.listed /\ next.todo = check.todo \ {p} /\ next.began = check.began
      BY <1>2 DEF CheckType
    <3> QED BY <3>1, <3>2, <3>3 DEF status_ok
  <2> HIDE DEF next
  <2>3. Shared' /\ check' = next /\ UNCHANGED <<process, clock>>
    BY <2>1, <2>2, WatchShared DEF IInv
  <2>4. PhaseInv'
    BY <2>2, <2>3 DEF PhaseInv, Reading
  <2>5. ProcessInv'
    BY <1>2, <2>2, <2>3 DEF ProcessInv
  <2> QED BY <2>1, <2>2, <2>4, <2>5, OtherWatchInv
<1>4. CASE Sign(p) \in DOMAIN counter
  <2>1. PICK value \in Nat : value = counter[Sign(p)]
    BY <1>4 DEF IInv, Shared, Types, DataTypes
  <2>2. value <= process[p].now
    BY <1>2, <1>4, <2>1 DEF IInv, Shared, SignInv
  <2> DEFINE next == [check EXCEPT !.todo = @ \ {p}, !.pc = "age", !.name = p, !.last_active = value]
  <2>3. Watch(next)
    BY <1>1, <1>4, <2>1 DEF GetCounterValue, Sign, INVALID_COUNTER_VALUE
  <2>4. /\ next \in CheckType /\ next.pc = "age" /\ next.kind = "processes" /\ next.name = p
        /\ next.listed = check.listed /\ next.todo = check.todo \ {p} /\ next.began = check.began
        /\ next.status = check.status /\ next.last_active = value
    BY <1>2 DEF CheckType
  <2> HIDE DEF next
  <2>5. Shared' /\ check' = next /\ UNCHANGED <<process, clock>>
    BY <2>3, <2>4, WatchShared DEF IInv
  <2>6. PhaseInv'
    BY <1>2, <2>4, <2>5 DEF PhaseInv, Reading
  <2>7. Done' = Done
    BY <1>2, <2>4, <2>5 DEF Done, Reading
  <2>8. ProcessInv'
    BY <1>2, <2>2, <2>4, <2>5, <2>7 DEF ProcessInv
  <2> QED BY <2>3, <2>4, <2>6, <2>8, OtherWatchInv
<1> QED BY <1>3, <1>4

LEMMA AgeInv ==
  ASSUME IInv, Age, Notes, scenario' = scenario
  PROVE  IInv'
<1>1. PICK p : p = check.name
  OBVIOUS
<1>2. /\ check \in CheckType /\ check.pc = "age" /\ check.kind = "processes"
      /\ check.listed \subseteq Processes /\ check.todo \subseteq check.listed
      /\ p \in check.listed /\ p \in Processes /\ check.began <= clock
      /\ check.last_active <= process[p].now
      /\ check.status = status_ok => \A x \in Done : process[x].now >= check.began - WarnAfter
  <2>1. check \in CheckType /\ check.pc = "age"
    BY DEF IInv, Shared, Types, Age
  <2>2. check.kind = "processes"
    BY <2>1 DEF IInv, PhaseInv, Reading, CheckType
  <2>3. p \in check.listed
    BY <1>1, <2>1 DEF IInv, PhaseInv, Reading
  <2> QED BY <1>1, <2>1, <2>2, <2>3 DEF IInv, ProcessInv
<1>3. /\ check.last_active \in Nat /\ check.began \in Nat /\ clock \in Nat /\ process[p].now \in Nat
      /\ check.status \in {0, 1, 2} /\ WarnAfter \in Nat /\ CriticalAfter \in Nat
  BY <1>2, Facts DEF CheckType, IInv, Shared, Types, DataTypes, ProcessType
<1>4. PICK gap \in Int : gap = clock - check.last_active
  BY <1>3
<1>5. PICK age \in Nat : age = Abs(gap) /\ gap <= age
  <2>1. Abs(gap) \in Nat /\ gap <= Abs(gap)
    BY <1>4 DEF Abs
  <2> QED BY <2>1
<1>6. PICK status \in {0, 1, 2} : /\ status = Judged(age, check.status)
                                  /\ status = 0 => age <= WarnAfter /\ check.status = 0
  <2>1. /\ Judged(age, check.status) \in {0, 1, 2}
        /\ Judged(age, check.status) = 0 => age <= WarnAfter /\ check.status = 0
    BY <1>3 DEF Judged, status_ok, status_warning, status_critical
  <2> QED BY <2>1
<1> DEFINE next == [check EXCEPT !.pc = "process", !.status = status]
<1>7. Watch([check EXCEPT !.pc = "process", !.status = Judged(Abs(clock - check.last_active), @)])
  BY DEF Age
<1>8. Watch(next)
  BY <1>2, <1>4, <1>5, <1>6, <1>7 DEF CheckType
<1>9. /\ next \in CheckType /\ next.pc = "process" /\ next.kind = "processes"
      /\ next.listed = check.listed /\ next.todo = check.todo /\ next.began = check.began
      /\ next.status = status
  BY <1>2 DEF CheckType
<1> HIDE DEF next
<1>10. Shared' /\ check' = next /\ UNCHANGED <<process, clock>>
  BY <1>8, <1>9, WatchShared DEF IInv
<1>11. PhaseInv'
  BY <1>9, <1>10 DEF PhaseInv, Reading
<1>12. \A x \in Done' : x \in Done \/ x = p
  BY <1>1, <1>2, <1>9, <1>10 DEF Done, Reading
<1>13. status = 0 => process[p].now >= check.began - WarnAfter
  <2> SUFFICES ASSUME status = 0 PROVE process[p].now >= check.began - WarnAfter
    OBVIOUS
  <2>1. clock - check.last_active <= WarnAfter
    BY <1>3, <1>4, <1>5, <1>6
  <2>2. check.last_active >= check.began - WarnAfter
    BY <1>2, <1>3, <2>1
  <2> QED BY <1>2, <1>3, <2>2
<1>14. ProcessInv'
  <2>1. status = 0 => \A x \in Done' : process[x].now >= check.began - WarnAfter
    BY <1>2, <1>6, <1>12, <1>13 DEF status_ok
  <2> QED BY <1>2, <1>9, <1>10, <2>1 DEF ProcessInv, status_ok
<1> QED BY <1>8, <1>9, <1>11, <1>14, OtherWatchInv

LEMMA AnswerInv ==
  ASSUME IInv, Answer, Notes, scenario' = scenario
  PROVE  IInv'
<1> DEFINE next == [check EXCEPT !.pc = "answered"]
<1>1. /\ check \in CheckType /\ check.pc \in {"queue", "process"} /\ check.todo = {} /\ Watch(next)
  BY DEF IInv, Shared, Types, Answer
<1>2. /\ next \in CheckType /\ next.pc = "answered" /\ next.kind = check.kind
      /\ next.listed = check.listed /\ next.todo = check.todo /\ next.began = check.began
      /\ next.status = check.status
  BY <1>1 DEF CheckType
<1> HIDE DEF next
<1>3. /\ Shared' /\ check' = next
      /\ UNCHANGED <<counter, file, linked, errors, places, process, clock, known>>
  BY <1>1, <1>2, WatchShared DEF IInv
<1>4. PhaseInv' /\ Done' = Done /\ check.kind # "none"
  BY <1>1, <1>2, <1>3 DEF IInv, PhaseInv, Done, Reading
<1>5. ProcessInv'
  BY <1>2, <1>3, <1>4 DEF IInv, ProcessInv
<1>6. QueueInv'
  <2>1. roomy \subseteq roomy' /\ clean \subseteq clean' /\ \A x : Remade(x)' <=> Remade(x)
    BY <1>1, <1>3, Noted DEF Remade
  <2> SUFFICES ASSUME check.kind = "queues" PROVE QueueInv'
    BY <1>2, <1>3 DEF QueueInv
  <2>2. /\ check.listed \subseteq Queues /\ check.todo \subseteq check.listed
        /\ \A x \in check.listed : Cap(x) \in DOMAIN counter
        /\ check.status = status_ok =>
             \A x \in Done : (x \in clean \/ places = 0) /\ (x \in roomy \/ Remade(x))
    BY <1>1 DEF IInv, QueueInv
  <2> QED BY <1>2, <1>3, <1>4, <2>1, <2>2 DEF QueueInv
<1> QED BY <1>3, <1>4, <1>5, <1>6 DEF IInv

LEMMA ForgetInv ==
  ASSUME IInv, Forget, Notes, scenario' = scenario
  PROVE  IInv'
<1>1. Idle \in CheckType /\ Idle.kind = "none" /\ Idle.pc = "idle"
  BY DEF Idle, CheckType, status_ok
<1>2. Watch(Idle)
  BY DEF Forget
<1>3. check' = Idle
  BY <1>2 DEF Watch
<1>4. PhaseInv' /\ ProcessInv'
  BY <1>1, <1>3 DEF PhaseInv, Reading, ProcessInv
<1> QED BY <1>1, <1>2, <1>4, OtherWatchInv


-----------------------------------------------------------------------------

LEMMA NextInv == IInv /\ [Next]_vars => IInv'
<1> SUFFICES ASSUME IInv, [Next]_vars PROVE IInv'
  OBVIOUS
<1>1. CASE Next
  <2>1. scenario' = scenario /\ Notes
    BY <1>1 DEF Next
  <2>2. /\ Shared /\ scenario.queues \subseteq Queues /\ scenario.users \subseteq Users
        /\ scenario.processes \subseteq Processes
    BY Facts DEF IInv, Shared, Types, DataTypes
  <2>3. ASSUME Shared' /\ Forward, check' = check PROVE IInv'
    BY <2>1, <2>3, Kept DEF IInv
  <2>4. ASSUME NEW u \in scenario.users, NEW q \in scenario.queues, Open(u, q) PROVE IInv'
    <3>1. check' = check
      BY <2>4 DEF Open
    <3> QED BY <2>1, <2>2, <2>3, <2>4, <3>1, OpenInv
  <2>5. ASSUME NEW u \in scenario.users, \/ UpdateFind(u) \/ UpdateStore(u) \/ Transfer(u)
                                              \/ Update(u) \/ Gone(u)
        PROVE  IInv'
    <3>1. check' = check
      BY <2>5 DEF UpdateFind, UpdateStore, Transfer, Update, Gone
    <3>2. Shared' /\ Forward
      BY <2>1, <2>2, <2>5, UpdateFindInv, UpdateStoreInv, TransferInv, UserInvKept
    <3> QED BY <2>3, <3>1, <3>2
  <2>6. ASSUME NEW q \in scenario.queues, Traffic(q) PROVE IInv'
    <3>1. check' = check
      BY <2>6 DEF Traffic
    <3> QED BY <2>1, <2>2, <2>3, <2>6, <3>1, TrafficInv
  <2>7. ASSUME Tick \/ \E q \in scenario.queues : Remove(q) PROVE IInv'
    <3>1. check' = check
      BY <2>7 DEF Tick, Remove
    <3> QED BY <2>1, <2>2, <2>3, <2>7, <3>1, OutsideInv
  <2>8. ASSUME NEW p \in scenario.processes,
               \/ UptimeUpdate(p) \/ SetName(p) \/ TakeTime(p) \/ StoreTime(p) \/ UptimeReset(p) \/ Die(p)
        PROVE  IInv'
    <3>1. check' = check
      BY <2>8 DEF UptimeUpdate, SetName, TakeTime, StoreTime, UptimeReset, Die
    <3>2. Shared' /\ Forward
      BY <2>1, <2>2, <2>8, ProcessStepInv
    <3> QED BY <2>3, <3>1, <3>2
  <2>9. ASSUME \/ CheckAllStatus \/ ReadQueue \/ ReadHistory \/ ReadUsed \/ ReadCapacity
               \/ UptimeCheckStatus \/ ReadLastActive \/ Age \/ Answer \/ Forget
        PROVE  IInv'
    BY <2>1, <2>9, CheckAllStatusInv, ReadQueueInv, ReadHistoryInv, ReadUsedInv, ReadCapacityInv,
       UptimeCheckStatusInv, ReadLastActiveInv, AgeInv, AnswerInv, ForgetInv
  <2> QED BY <1>1, <2>4, <2>5, <2>6, <2>7, <2>8, <2>9 DEF Next
<1>2. CASE UNCHANGED vars
  BY <1>2 DEF vars, publish, queue, histories, told, IInv, Shared, Types, DataTypes, UserInv, UserOK, GaugeInv,
              CapacityOf, SignInv, PhaseInv, Reading, QueueInv, ProcessInv, Done, Reading, Remade
<1> QED BY <1>1, <1>2

(* The invariant that the theorems rest on.                                *)
THEOREM Invariance == Spec => []IInv
BY InitInv, NextInv, PTL DEF Spec

(* A machine is told to be well only if every queue that the watcher was   *)
(* shown had room and was without errors during its check.                 *)
THEOREM NothingHidden == Spec => []WellMeansWell
<1>1. IInv => WellMeansWell
  BY DEF IInv, QueueInv, WellMeansWell, Answered, Done, PhaseInv, Reading, Remade
<1> QED BY <1>1, Invariance, PTL

(* The order of UpdateCounters is enough: a watcher that finds a queue     *)
(* finds its used too, and divides by zero only before the queue was ever  *)
(* opened to the end.                                                      *)
THEOREM PublishedInOrder == Spec => ReadsWhatIsPublished
<1>1. IInv /\ IInv' /\ [Next]_vars =>
        [/\ check'.pc = "capacity" => check'.used # INVALID_COUNTER_VALUE
         /\ check.pc # "dead" /\ check'.pc = "dead" => check.name \notin known]_vars
  <2> SUFFICES ASSUME IInv, IInv', Next
               PROVE  /\ check'.pc = "capacity" => check'.used # INVALID_COUNTER_VALUE
                      /\ check.pc # "dead" /\ check'.pc = "dead" => check.name \notin known
    OBVIOUS
  <2>1. check'.pc = "capacity" => check'.used # INVALID_COUNTER_VALUE
    <3>1. check' \in CheckType
      BY DEF IInv, Shared, Types
    <3> QED BY <3>1 DEF IInv, PhaseInv, Reading, QueueInv, CheckType
  <2>2. ASSUME check.pc # "dead", check'.pc = "dead" PROVE check.name \notin known
    <3>1. check \in CheckType
      BY DEF IInv, Shared, Types
    <3>2. ReadCapacity
      <4>1. check' # check
        BY <2>2
      <4>2. \/ CheckAllStatus \/ ReadQueue \/ ReadHistory \/ ReadUsed \/ ReadCapacity
            \/ UptimeCheckStatus \/ ReadLastActive \/ Age \/ Answer \/ Forget
        BY <4>1 DEF Next, Open, UpdateFind, UpdateStore, Transfer, Update, Gone, Traffic, Remove, Tick,
                    UptimeUpdate, SetName, TakeTime, StoreTime, UptimeReset, Die
      <4>3. CASE CheckAllStatus
        BY <2>2, <4>3 DEF CheckAllStatus, Watch, Idle
      <4>4. CASE ReadQueue
        BY <2>2, <3>1, <4>4 DEF ReadQueue, Watch, CheckType
      <4>11. CASE ReadHistory
        BY <2>2, <3>1, <4>11 DEF ReadHistory, CheckType
      <4>5. CASE ReadUsed
        BY <2>2, <3>1, <4>5 DEF ReadUsed, Watch, CheckType
      <4>7. CASE UptimeCheckStatus
        <5>1. check'.pc = "process"
          BY <4>7 DEF UptimeCheckStatus, Watch, Idle
        <5> QED BY <2>2, <5>1
      <4>10. CASE Forget
        BY <2>2, <4>10 DEF Forget, Watch, Idle
      <4>8. CASE Age
        BY <2>2, <3>1, <4>8 DEF Age, Watch, CheckType
      <4>9. CASE Answer
        BY <2>2, <3>1, <4>9 DEF Answer, Watch, CheckType
      <4>6. CASE ReadLastActive
        BY <2>2, <3>1, <4>6 DEF ReadLastActive, Watch, CheckType
      <4> QED BY <4>2, <4>3, <4>4, <4>5, <4>6, <4>7, <4>8, <4>9, <4>10, <4>11
    <3>3. check.kind = "queues" /\ check.name \in check.listed
      BY <3>1, <3>2 DEF IInv, PhaseInv, Reading, CheckType, ReadCapacity
    <3>4. /\ Cap(check.name) \in DOMAIN counter /\ counter[Cap(check.name)] \in Nat
          /\ check.name \in known => counter[Cap(check.name)] > 0
      BY <3>3, Listed DEF IInv
    <3>5. counter[Cap(check.name)] = 0
      <4> SUFFICES ASSUME counter[Cap(check.name)] # 0 PROVE FALSE
        OBVIOUS
      <4>1. check'.pc = "queue"
        BY <3>1, <3>2, <3>4 DEF ReadCapacity, GetCounterValue, Cap, Watch, CheckType
      <4> QED BY <2>2, <4>1
    <3> QED BY <3>4, <3>5
  <2> QED BY <2>1, <2>2
<1> QED BY <1>1, Invariance, PTL DEF Spec, ReadsWhatIsPublished

(* A process that is said to be well took the time not long before.        *)
THEOREM SilenceIsNoticed == Spec => []OkMeansActive
<1>1. IInv => OkMeansActive
  BY DEF IInv, ProcessInv, OkMeansActive, Answered, Done, PhaseInv, Reading
<1> QED BY <1>1, Invariance, PTL


=============================================================================
