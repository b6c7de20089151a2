----------------------------- MODULE RrdWriter ------------------------------
(***************************************************************************)
(* The program rrd-writer, which hands the counters of a machine to        *)
(* rrdcached once a second.                                                *)
(*                                                                         *)
(* A timer calls mainPeriodic.  It goes through lists of names: the figures*)
(* of the system, each a list of one, all history counters, and one list   *)
(* for each prefix of the command line; every name has a file.  A list ends*)
(* with its first failure.  The daemon may go away and come back, the      *)
(* program may be restarted, names are added to the dictionaries meanwhile.*)
(*                                                                         *)
(* An update carries the second in which it was made, and the daemon takes *)
(* only one that is later than the last of the file.  Of the clock only    *)
(* this is kept: which files have an update of the present second.  The    *)
(* time is read and the update sent in one step: nobody else updates these *)
(* files, so a second that ends in between changes nothing.                *)
(*                                                                         *)
(* A list is read without the lock of its dictionary.  How Add stores a    *)
(* name and what a reader meets between its stores is module Counters: here*)
(* a name is being added from Add's first store to its last, and of a list *)
(* that is read in between nothing is certain.                             *)
(***************************************************************************)
EXTENDS Naturals, Sequences

CONSTANTS
  Names,        (* Names of counters.                                       *)
  Order,        (* The place that each of them has in a listing.            *)
  Scenarios     (* The custom prefixes of the command line, the names that  *)
                (* each dictionary has and those that come later, the names *)
                (* of which no file can be made, and bounds on the restarts *)
                (* and the outages.                                         *)

Dictionaries == {"history", "value", "incremented"}

(* The figures of the system, in the order of mainPeriodic.                *)
System == <<"cpu", "memory", "load">>

Files == {System[i] : i \in DOMAIN System} \cup Names

ASSUME RrdAssumption ==
  /\ Order \in [Names -> Nat]
  /\ \A m, n \in Names : Order[m] = Order[n] => m = n
  /\ Names \cap {System[i] : i \in DOMAIN System} = {}
  /\ \A s \in Scenarios :
       /\ s.custom \in Seq([type : Dictionaries, prefix : SUBSET Names])
       /\ s.known \in [Dictionaries -> SUBSET Names]
       /\ s.later \in [Dictionaries -> SUBSET Names]
       /\ s.bad \subseteq Names
       /\ s.restarts \in Nat /\ s.outages \in Nat

VARIABLES
  names,        (* the names in each dictionary                             *)
  adding,       (* the name that is being added to each, if any             *)
  file,         (* the names that have a file                               *)
  stamped,      (* those whose last update is of the present second         *)
  daemon,       (* rrdcached runs                                           *)
  connection,   (* to it: none, good, or to one that is gone                *)
  pc,           (* where mainPeriodic is                                    *)
  list, todo,   (* its list, and what is left of it                         *)
  twice,        (* the names of todo that stand in it twice                 *)
  prev_run_end, (* the last run ended in the present second                 *)
  prev_stat,    (* there is a sample of the cpu to compare with             *)
  restarts, outages,
  written,      (* history variable: the names written in this run          *)
  refused,      (* history variable: those refused for their time in it     *)
  fresh,        (* history variable: the program came up in this second     *)
  calm,         (* history variable: this run has met no failure of the     *)
                (* daemon or of a sample, and no update of before a restart *)
  due,          (* history variable: the dictionaries as they were when it  *)
                (* began                                                    *)
  disturbed,    (* history variable: its lists that were read while a name  *)
                (* was being added ...                                      *)
  astray,       (* ... and the names that stood in one of them              *)
  scenario      (* one of Scenarios, for good                               *)

external == <<names, adding, daemon, restarts, outages, scenario>>
local    == <<pc, list, todo, twice, prev_run_end, prev_stat>>
unsure   == <<disturbed, astray>>
vars     == <<external, local, unsure, file, stamped, connection, written, refused, fresh, calm, due>>

-----------------------------------------------------------------------------
(* The lists of a run.                                                     *)

Lists ==
  [i \in 1 .. Len(System) |-> [type |-> "system", prefix |-> {System[i]}]]
    \o << [type |-> "history", prefix |-> Names] >>
    \o scenario.custom

(* GetCategory: the names that a list has of given dictionaries.           *)
NamesOf(l, dictionaries) ==
  LET a == Lists[l]
  IN  IF a.type = "system" THEN a.prefix ELSE a.prefix \cap dictionaries[a.type]

(* The names that it has now.                                              *)
Listing(l) == NamesOf(l, names)

(* What its dictionary has in the making, and all that it could give.      *)
Incomplete(l)  == IF Lists[l].type = "system" THEN {} ELSE adding[Lists[l].type]
Dictionary(l)  == IF Lists[l].type = "system" THEN {} ELSE names[Lists[l].type] \cup Incomplete(l)

(* Which of some names comes first.                                        *)
First(some) == CHOOSE n \in some : \A m \in some \ {n} : Order[n] < Order[m]

\* Mutant: the answer of rrdc_is_connected is taken the other way round.
Connected_Inverted == IF connection = "none" THEN "none" ELSE IF daemon THEN "good" ELSE "none"

(* rrd_check_connect, at the head of each run, creation and update: what   *)
(* the connection is after it.  That the daemon at its other end has gone  *)
(* is not seen here.                                                       *)
Connected == IF connection = "none" /\ daemon THEN "good" ELSE connection

(* A request to the daemon: one that fails closes the connection.          *)
Request(success) ==
  connection' = IF success THEN "good" ELSE "none"

-----------------------------------------------------------------------------
(* mainPeriodic.                                                           *)

\* Mutant: a run is not told from the one before it in the same second.
mainPeriodic_EveryTime ==
  /\ pc = "idle"
  /\ connection' = Connected
  /\ connection' # "none"
  /\ pc' = "list" /\ list' = 1 /\ todo' = {}
  /\ written' = {} /\ refused' = {} /\ calm' = TRUE
  /\ due' = names /\ disturbed' = {} /\ astray' = {}
  /\ UNCHANGED <<external, file, stamped, twice, prev_run_end, prev_stat, fresh>>

(* The timer: without a connection, or in the second in which the last run *)
(* ended, there is no run.                                                 *)
mainPeriodic ==
  /\ pc = "idle"
  /\ connection' = Connected
  /\ IF connection' = "none" \/ prev_run_end
     THEN UNCHANGED <<pc, list, todo, written, refused, calm, due, unsure>>
     ELSE /\ pc' = "list" /\ list' = 1 /\ todo' = {}
          /\ written' = {} /\ refused' = {} /\ calm' = TRUE
          /\ due' = names /\ disturbed' = {} /\ astray' = {}
  /\ UNCHANGED <<external, file, stamped, twice, prev_run_end, prev_stat, fresh>>

(* While the entries of the index are being moved, GetCategory may double, *)
(* lose or mistake some, the new one among them, also for a name of another*)
(* prefix: what it gives then may be anything.                             *)
Disturbed ==
  /\ Incomplete(list) # {}
  /\ todo' \in SUBSET Dictionary(list)
  /\ twice' \in SUBSET todo'
  /\ disturbed' = disturbed \cup {list}
  /\ astray' = astray \cup todo'

NextList ==
  /\ pc = "list"
  /\ IF list <= Len(Lists)
     THEN /\ pc' = "update"
          /\ \/ todo' = Listing(list) /\ UNCHANGED <<twice, unsure>>
             \/ Disturbed
          /\ UNCHANGED <<list, prev_run_end>>
     ELSE pc' = "idle" /\ list' = 0 /\ prev_run_end' = TRUE /\ UNCHANGED <<todo, twice, unsure>>
  /\ UNCHANGED <<external, file, stamped, connection, prev_stat, written, refused, fresh, calm, due>>

\* Mutant: the first failure ends the run.
Continue_EndsRun(success) ==
  LET n    == First(todo)
      rest == IF n \in twice THEN todo ELSE todo \ {n}
  IN  IF success /\ rest # {}
      THEN todo' = rest /\ twice' = twice \ {n} /\ UNCHANGED <<pc, list>>
      ELSE /\ todo' = {} /\ twice' = {}
           /\ pc' = "list" /\ list' = IF success THEN list + 1 ELSE Len(Lists) + 1

(* The list goes on, or ends.                                              *)
Continue(success) ==
  LET n    == First(todo)
      rest == IF n \in twice THEN todo ELSE todo \ {n}
  IN  IF success /\ rest # {}
      THEN todo' = rest /\ twice' = twice \ {n} /\ UNCHANGED <<pc, list>>
      ELSE todo' = {} /\ twice' = {} /\ pc' = "list" /\ list' = list + 1

Nothing ==
  /\ pc = "update" /\ todo = {}
  /\ pc' = "list" /\ list' = list + 1
  /\ UNCHANGED <<external, todo, twice, unsure, file, stamped, connection, prev_run_end, prev_stat,
                 written, refused, fresh, calm, due>>

(* The next entry has its name.                                            *)
Named == pc = "update" /\ todo # {} /\ First(todo) \notin Incomplete(list)

(* It has none yet, and its text is what was in the storage before: a file *)
(* of nobody is made or updated.                                           *)
Nameless ==
  /\ pc = "update" /\ todo # {} /\ ~ Named
  /\ Request(Connected = "good")
  /\ \E success \in BOOLEAN : (success => Connected = "good") /\ Continue(success)
  /\ calm' = (calm /\ Connected = "good")
  /\ UNCHANGED <<external, unsure, file, stamped, prev_run_end, prev_stat, written, refused, fresh, due>>

(* A name without a file gets one, stamped ten seconds back, and the daemon*)
(* is told of it.  What is made before the daemon fails to answer stays.   *)
rrd_create_file ==
  LET n    == First(todo)
      made == Connected # "none" /\ n \notin scenario.bad
      told == made /\ Connected = "good"
  IN  /\ Named /\ n \notin file
      /\ file' = IF made THEN file \cup {n} ELSE file
      /\ IF made THEN Request(told) ELSE connection' = Connected
      /\ IF told THEN UNCHANGED <<pc, list, todo, twice>> ELSE Continue(FALSE)
      /\ calm' = (calm /\ Connected = "good")
      /\ UNCHANGED <<external, unsure, stamped, prev_run_end, prev_stat, written, refused, fresh, due>>

(* The update is sent; the daemon takes it, or refuses it for its time, or *)
(* is not there.  The list of the cpu is never told (rrd_update_cpu).      *)
rrd_update(n) ==
  LET taken == Connected = "good" /\ n \notin stamped
  IN  /\ Request(Connected = "good")
      /\ stamped' = IF taken THEN stamped \cup {n} ELSE stamped
      /\ written' = IF taken THEN written \cup {n} ELSE written
      /\ refused' = IF Connected = "good" /\ ~ taken /\ ~ fresh THEN refused \cup {n} ELSE refused
      /\ calm' = (calm /\ Connected = "good" /\ (taken \/ ~ fresh))
      /\ Continue(taken)

(* rrd_update_counter, rrd_update_history_counter, rrd_update_load.        *)
Update ==
  /\ Named
  /\ First(todo) \in file \ {"cpu", "memory"}
  /\ rrd_update(First(todo))
  /\ UNCHANGED <<external, unsure, file, prev_run_end, prev_stat, fresh, due>>

(* /proc may be unreadable.                                                *)
Unreadable ==
  /\ Continue(FALSE)
  /\ calm' = FALSE
  /\ UNCHANGED <<stamped, connection, written, refused>>

rrd_update_memory ==
  /\ pc = "update" /\ todo = {"memory"}
  /\ "memory" \in file
  /\ rrd_update("memory") \/ Unreadable
  /\ UNCHANGED <<external, unsure, file, prev_run_end, prev_stat, fresh, due>>

(* There is an update only if there is an earlier sample, and time has     *)
(* passed since.                                                           *)
rrd_update_cpu ==
  /\ pc = "update" /\ todo = {"cpu"}
  /\ "cpu" \in file
  /\ \/ /\ prev_stat
        /\ rrd_update("cpu")
        /\ UNCHANGED prev_stat
     \/ /\ prev_stat' = TRUE
        /\ Continue(TRUE)
        /\ UNCHANGED <<stamped, connection, written, refused, calm>>
     \/ Unreadable /\ UNCHANGED prev_stat
  /\ UNCHANGED <<external, unsure, file, prev_run_end, fresh, due>>

-----------------------------------------------------------------------------
(* What happens around it.                                                 *)

(* The second ends.                                                        *)
Tick ==
  /\ stamped' = {}
  /\ prev_run_end' = FALSE
  /\ fresh' = FALSE
  /\ UNCHANGED <<external, unsure, pc, list, todo, twice, prev_stat, file, connection,
                 written, refused, calm, due>>

(* Add, under the lock of the dictionary, from its first store ...         *)
AddBegins(d, n) ==
  /\ adding[d] = {} /\ n \in scenario.later[d] \ names[d]
  /\ adding' = [adding EXCEPT ![d] = {n}]
  /\ UNCHANGED <<names, daemon, restarts, outages, scenario, local, unsure, file, stamped, connection,
                 written, refused, fresh, calm, due>>

(* ... to its last.                                                        *)
AddEnds(d) ==
  /\ adding[d] # {}
  /\ names' = [names EXCEPT ![d] = @ \cup adding[d]]
  /\ adding' = [adding EXCEPT ![d] = {}]
  /\ UNCHANGED <<daemon, restarts, outages, scenario, local, unsure, file, stamped, connection,
                 written, refused, fresh, calm, due>>

DaemonGoes ==
  /\ daemon /\ outages < scenario.outages
  /\ outages' = outages + 1
  /\ daemon' = FALSE
  /\ connection' = IF connection = "good" THEN "gone" ELSE connection
  /\ UNCHANGED <<names, adding, restarts, scenario, local, unsure, file, stamped, written, refused, fresh, calm, due>>

DaemonComes ==
  /\ ~ daemon
  /\ daemon' = TRUE
  /\ UNCHANGED <<names, adding, restarts, outages, scenario, local, unsure, file, stamped, connection,
                 written, refused, fresh, calm, due>>

ComesUpAnew ==
  /\ pc' = "idle" /\ list' = 0 /\ todo' = {} /\ twice' = {}
  /\ prev_run_end' = FALSE /\ prev_stat' = FALSE
  /\ connection' = "none"
  /\ written' = {} /\ refused' = {} /\ due' = [d \in Dictionaries |-> {}] /\ calm' = TRUE /\ fresh' = TRUE
  /\ disturbed' = {} /\ astray' = {}
  /\ UNCHANGED <<names, adding, daemon, outages, scenario, file, stamped>>

Restart ==
  /\ restarts < scenario.restarts
  /\ restarts' = restarts + 1
  /\ ComesUpAnew

(* An entry whose id is not counted yet has no text at all: the comparison *)
(* of GetCategory, or the name of the file, takes a NULL, and the program  *)
(* ends.  It is started again.                                             *)
MeetsNull ==
  /\ \/ pc = "list" /\ list <= Len(Lists) /\ Incomplete(list) # {}
     \/ pc = "update" /\ todo # {} /\ ~ Named
  /\ UNCHANGED restarts
  /\ ComesUpAnew

-----------------------------------------------------------------------------

Init ==
  /\ scenario \in Scenarios
  /\ names = scenario.known /\ adding = [d \in Dictionaries |-> {}]
  /\ file = {} /\ stamped = {}
  /\ daemon \in BOOLEAN
  /\ connection = "none"
  /\ pc = "idle" /\ list = 0 /\ todo = {} /\ twice = {}
  /\ disturbed = {} /\ astray = {}
  /\ prev_run_end = FALSE /\ prev_stat = FALSE
  /\ restarts = 0 /\ outages = 0
  /\ written = {} /\ refused = {} /\ due = [d \in Dictionaries |-> {}]
  /\ fresh = TRUE /\ calm = TRUE

Writer ==
  \/ mainPeriodic \/ NextList \/ Nothing \/ Nameless
  \/ rrd_create_file \/ Update \/ rrd_update_memory \/ rrd_update_cpu

Next ==
  \/ Writer
  \/ Tick
  \/ \E d \in Dictionaries, n \in Names : AddBegins(d, n)
  \/ \E d \in Dictionaries : AddEnds(d)
  \/ DaemonGoes \/ DaemonComes
  \/ Restart \/ MeetsNull

(* The loop of libev calls the timer again and again, time goes on, and who*)
(* adds a name gets to the end.                                            *)
Fairness ==
  /\ WF_vars(Writer) /\ WF_vars(Tick)
  /\ \A d \in Dictionaries : WF_vars(AddEnds(d))

Spec == Init /\ [][Next]_vars /\ Fairness

-----------------------------------------------------------------------------
(* Properties.                                                             *)

(* A list reaches a name if, up to it, every name can have a file and is in*)
(* no list before.                                                         *)
UpTo(l, n) == {m \in Listing(l) : m = n \/ Order[m] < Order[n]}

Reaches(l, n) ==
  /\ n \in Listing(l)
  /\ \A m \in UpTo(l, n) : m \notin scenario.bad /\ \A k \in 1 .. l - 1 : m \notin Listing(k)

InReach(n) == \E l \in DOMAIN Lists : Reaches(l, n)

(* An update is refused for its time only because two lists of the command *)
(* line have the name, or because a list that was read while a name was    *)
(* being added had it, twice or although it has another prefix: no two runs*)
(* write into one second, a file that is new can be written in the second  *)
(* in which it was made, and only a restart forgets when the last run was. *)
RefusedOnlyTwice ==
  \A n \in refused \ astray : \E k, l \in DOMAIN Lists : k # l /\ n \in Listing(k) \cap Listing(l)

(* A run that met no failure of the daemon has written every name that a   *)
(* list had when it began and that the list reaches: what one list leaves  *)
(* out behind a failure does not hinder the others, nor does a name that   *)
(* comes while the run goes on.  Only a list that was read while its       *)
(* dictionary was being written may leave out any name, and the names that *)
(* it had may end another list.  (The cpu is left out: the first sample is *)
(* only there to compare with.)                                            *)
CalmRunWritesAll ==
  pc = "list" /\ list > Len(Lists) /\ calm =>
    \A l \in DOMAIN Lists \ disturbed : \A n \in NamesOf(l, due) \ {"cpu"} :
      Reaches(l, n) /\ UpTo(l, n) \cap astray = {} => n \in written

(* When the daemon is there for good, every name that a list reaches is    *)
(* written again and again, whatever was lost before: outages, restarts,   *)
(* files that were made but of which the daemon was not told, lists that   *)
(* were read while a name was being added.                                 *)
WrittenAgainAndAgain ==
  \A n \in Names :
    <>[](daemon /\ InReach(n)) => []<>(n \in written) /\ []<>(n \notin written)

=============================================================================
