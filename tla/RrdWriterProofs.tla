--------------------------- MODULE RrdWriterProofs --------------------------
(***************************************************************************)
(* What rrd-writer writes in a run and what is refused, for every set of   *)
(* names, every command line and any number of outages and restarts.       *)
(*                                                                         *)
(* What keeps the lists apart: a name that is written stands in a list that*)
(* the run is through with, and what has an update of the present second   *)
(* was written in this run.  Of a list that was read while a name was being*)
(* added only this is known: what is left of it is astray.                 *)
(***************************************************************************)
EXTENDS RrdWriter, SequenceTheorems, WellFoundedInduction, TLAPS

-----------------------------------------------------------------------------
(* The lists.                                                              *)

(* Every set of natural numbers that is not empty has a smallest one.      *)
LEMMA Smallest ==
  ASSUME NEW T, T \subseteq Nat, T # {}
  PROVE  \E x \in T : \A y \in T : x <= y
<1> DEFINE R == {p \in Nat \X Nat : p[1] < p[2]}
<1>1. IsWellFoundedOn(R, Nat)
  BY NatLessThanWellFounded DEF OpToRel
<1> HIDE DEF R
<1>2. PICK x \in T : \A y \in T : ~ (<<y, x>> \in R)
  BY <1>1, WFMin
<1>3. ASSUME NEW y \in T PROVE x <= y
  <2>1. x \in Nat /\ y \in Nat
    OBVIOUS
  <2>2. ~ (<<y, x>> \in R)
    BY <1>2
  <2> QED BY <2>1, <2>2 DEF R
<1> QED BY <1>3

Figures == {[type |-> "system", prefix |-> {x}] : x \in Files}
Custom  == [type : Dictionaries, prefix : SUBSET Names]

LEMMA FunctionIsSeq ==
  ASSUME NEW T, NEW n \in Nat, NEW f \in [1 .. n -> T]
  PROVE  f \in Seq(T)
OBVIOUS

LEMMA ListsAre ==
  ASSUME scenario \in Scenarios
  PROVE  /\ Len(Lists) \in Nat /\ DOMAIN Lists = 1 .. Len(Lists)
         /\ \A l \in DOMAIN Lists : Lists[l] \in Figures \cup Custom
<1> DEFINE T == Figures \cup Custom
           a == [i \in 1 .. Len(System) |-> [type |-> "system", prefix |-> {System[i]}]]
           b == << [type |-> "history", prefix |-> Names] >>
<1>1. a \in Seq(T)
  <2>1. Len(System) = 3 /\ \A i \in 1 .. 3 : System[i] \in Files
    BY DEF System, Files
  <2>2. \A i \in 1 .. 3 : [type |-> "system", prefix |-> {System[i]}] \in T
    BY <2>1 DEF Figures
  <2>3. a \in [1 .. 3 -> T]
    BY <2>1, <2>2
  <2> HIDE DEF T, a
  <2> QED BY <2>3, FunctionIsSeq
<1>2. b \in Seq(T)
  <2>1. [type |-> "history", prefix |-> Names] \in T
    BY DEF Custom, Dictionaries
  <2> HIDE DEF T
  <2> QED BY <2>1
<1>3. scenario.custom \in Seq(T)
  <2>1. scenario.custom \in Seq(Custom)
    BY RrdAssumption DEF Custom
  <2>2. Custom \subseteq T
    OBVIOUS
  <2> HIDE DEF T
  <2> QED BY <2>1, <2>2
<1>4. Lists = a \o b \o scenario.custom
  BY DEF Lists
<1> HIDE DEF a, b, T
<1>5. Lists \in Seq(T)
  BY <1>1, <1>2, <1>3, <1>4, ConcatProperties
<1>6. Len(Lists) \in Nat /\ DOMAIN Lists = 1 .. Len(Lists) /\ \A l \in 1 .. Len(Lists) : Lists[l] \in T
  BY <1>5, ElementOfSeq, LenProperties
<1> QED BY <1>6 DEF T

LEMMA OneOrNames ==
  ASSUME scenario \in Scenarios, NEW l \in DOMAIN Lists
  PROVE  \/ Lists[l].type = "system" /\ \E x : Lists[l].prefix = {x}
         \/ Lists[l].type \in Dictionaries /\ Lists[l].type # "system" /\ Lists[l].prefix \subseteq Names
BY ListsAre DEF Figures, Custom, Dictionaries

(* With the dictionaries the lists grow.                                   *)
LEMMA ListsGrow ==
  ASSUME scenario \in Scenarios, NEW l \in DOMAIN Lists, NEW old, NEW new,
         \A d \in Dictionaries : old[d] \subseteq new[d]
  PROVE  NamesOf(l, old) \subseteq NamesOf(l, new)
BY OneOrNames DEF NamesOf

LEMMA FirstComesFirst ==
  ASSUME NEW some, some # {}, some \subseteq Names \/ \E x : some \subseteq {x}
  PROVE  /\ First(some) \in some
         /\ \A m \in some : m = First(some) \/ Order[First(some)] < Order[m]
<1>1. \E n \in some : \A m \in some \ {n} : Order[n] < Order[m]
  <2>1. CASE \E x : some \subseteq {x}
    BY <2>1
  <2>2. CASE some \subseteq Names
    <3>1. Order \in [Names -> Nat]
      BY RrdAssumption
    <3> DEFINE places == {Order[n] : n \in some}
    <3>2. places \subseteq Nat /\ places # {}
      BY <2>2, <3>1
    <3>3. PICK least \in places : \A x \in places : least <= x
      <4> HIDE DEF places
      <4> QED BY <3>2, Smallest
    <3>4. PICK n \in some : Order[n] = least
      OBVIOUS
    <3>5. ASSUME NEW m \in some, m # n PROVE Order[n] < Order[m]
      <4>1. Order[m] # Order[n] /\ Order[m] \in Nat /\ Order[n] \in Nat
        BY <2>2, <3>1, <3>5, RrdAssumption
      <4>2. Order[n] <= Order[m]
        BY <3>3, <3>4
      <4> QED BY <4>1, <4>2
    <3> QED BY <3>5
  <2> QED BY <2>1, <2>2
<1> QED BY <1>1 DEF First

-----------------------------------------------------------------------------
(* The invariant.                                                          *)

(* What is left of the list in hand.                                       *)
Reading ==
  \/ list \notin disturbed /\ todo \subseteq Listing(list) /\ twice = {}
  \/ list \in disturbed /\ todo \subseteq Names \cap astray /\ twice \subseteq todo

WriterTypes ==
  /\ scenario \in Scenarios
  /\ names \in [Dictionaries -> SUBSET Names] /\ adding \in [Dictionaries -> SUBSET Names]
  /\ due \in [Dictionaries -> SUBSET Names]
  /\ \A d \in Dictionaries : due[d] \subseteq names[d] /\ adding[d] \cap names[d] = {}
  /\ pc \in {"idle", "list", "update"} /\ list \in Nat
  /\ pc = "list" => list >= 1
  /\ IF pc = "update" THEN list \in DOMAIN Lists /\ Reading ELSE twice = {}
  /\ disturbed \subseteq Nat
  /\ pc # "idle" => \A k \in disturbed : k < list \/ (k = list /\ pc = "update")
  /\ fresh \in BOOLEAN /\ calm \in BOOLEAN /\ prev_run_end \in BOOLEAN

(* The run is through with this name of this list.                         *)
Through(l, n) == l < list \/ (l = list /\ pc = "update" /\ n \notin todo)

StampInv ==
  ~ fresh => /\ pc # "idle" => stamped \subseteq written
             /\ pc = "idle" /\ ~ prev_run_end => stamped = {}

PlaceInv ==
  pc # "idle" =>
    \A n \in written \ astray : \E l \in DOMAIN Lists : n \in Listing(l) /\ Through(l, n)

CalmInv ==
  pc # "idle" /\ calm =>
    \A l \in DOMAIN Lists \ disturbed : \A n \in NamesOf(l, due) \ {"cpu"} :
      Through(l, n) /\ Reaches(l, n) /\ UpTo(l, n) \cap astray = {} => n \in written

WriterInv == WriterTypes /\ StampInv /\ PlaceInv /\ CalmInv /\ RefusedOnlyTwice

-----------------------------------------------------------------------------
(* One name of a list: it is written, or it ends the list.                 *)

LEMMA SameLists ==
  ASSUME UNCHANGED <<scenario, names>>
  PROVE  /\ Lists' = Lists /\ \A l : Listing(l)' = Listing(l)
         /\ \A l, n : Reaches(l, n)' = Reaches(l, n) /\ UpTo(l, n)' = UpTo(l, n)
BY DEF Lists, Listing, NamesOf, Reaches, UpTo

(* Who stands behind an obstacle is not reached.                           *)
LEMMA Obstacle ==
  ASSUME NEW l \in Nat, NEW n \in Listing(l), NEW m,
         m = n \/ Order[n] < Order[m],
         n \in scenario.bad \/ \E k \in 1 .. l - 1 : n \in Listing(k)
  PROVE  ~ Reaches(l, m)
BY DEF Reaches, UpTo

(* The list in hand has a first name; it has its name in the dictionary    *)
(* unless the list was read while a name was being added.                  *)
LEMMA InHand ==
  ASSUME WriterTypes, pc = "update", todo # {}
  PROVE  /\ First(todo) \in todo
         /\ \A m \in todo : m = First(todo) \/ Order[First(todo)] < Order[m]
         /\ list \notin disturbed => First(todo) \in Listing(list) /\ Named
         /\ list \in disturbed => First(todo) \in astray
<1>1. /\ scenario \in Scenarios /\ list \in DOMAIN Lists
      /\ \/ list \notin disturbed /\ todo \subseteq Listing(list)
         \/ list \in disturbed /\ todo \subseteq Names \cap astray
  BY DEF WriterTypes, Reading
<1>2. Listing(list) \subseteq Names \/ \E x : Listing(list) \subseteq {x}
  BY <1>1, OneOrNames DEF Listing, NamesOf
<1>3. todo \subseteq Names \/ \E x : todo \subseteq {x}
  BY <1>1, <1>2
<1>4. First(todo) \in todo /\ \A m \in todo : m = First(todo) \/ Order[First(todo)] < Order[m]
  BY <1>3, FirstComesFirst
<1>5. Listing(list) \cap Incomplete(list) = {}
  <2>1. \A d \in Dictionaries : adding[d] \cap names[d] = {}
    BY DEF WriterTypes
  <2> QED BY <1>1, <2>1, OneOrNames DEF Listing, NamesOf, Incomplete
<1>6. list \notin disturbed => First(todo) \in Listing(list) /\ Named
  BY <1>1, <1>4, <1>5 DEF Named
<1> QED BY <1>1, <1>4, <1>6

LEMMA ContinueMoves ==
  ASSUME WriterTypes, pc = "update", todo # {}, NEW s, s \in BOOLEAN, Continue(s)
  PROVE  LET f == First(todo)
         IN  /\ pc' \in {"list", "update"} /\ list' \in Nat
             /\ pc' = "list" => list' = list + 1 /\ twice' = {}
             /\ pc' = "update" => list' = list /\ todo' \subseteq todo /\ twice' \subseteq twice
             /\ pc' = "update" /\ twice \subseteq todo => twice' \subseteq todo'
             /\ \A l \in Nat : \A n :
                  Through(l, n) \/ (l = list /\ n = f /\ twice = {}) => Through(l, n)'
             /\ \A l \in Nat : \A n : Through(l, n)' =>
                  Through(l, n) \/ (l = list /\ n = f) \/ (l = list /\ n \in todo /\ ~ s)
<1> DEFINE f    == First(todo)
           rest == IF f \in twice THEN todo ELSE todo \ {f}
<1>1. list \in Nat /\ list + 1 \in Nat
  BY DEF WriterTypes
<1>2. rest \subseteq todo /\ todo \subseteq rest \cup {f} /\ (twice = {} => rest = todo \ {f})
  OBVIOUS
<1>3. CASE s /\ rest # {}
  <2>1. todo' = rest /\ twice' = twice \ {f} /\ pc' = pc /\ list' = list
    BY <1>3 DEF Continue
  <2> HIDE DEF f, rest
  <2> QED BY <1>1, <1>2, <2>1 DEF Through, f
<1>4. CASE ~ (s /\ rest # {})
  <2>1. todo' = {} /\ twice' = {} /\ pc' = "list" /\ list' = list + 1
    BY <1>4 DEF Continue
  <2>2. s => todo \subseteq {f}
    BY <1>2, <1>4
  <2> HIDE DEF f, rest
  <2>3. \A l \in Nat : l < list' <=> l < list \/ l = list
    BY <1>1, <2>1
  <2> QED BY <1>1, <2>1, <2>2, <2>3 DEF Through, f
<1> QED BY <1>3, <1>4

(* What the step says of the name counts only for a list of which something*)
(* is certain.                                                             *)
LEMMA TryKeepsInv ==
  ASSUME WriterInv, pc = "update", todo # {}, NEW s, s \in BOOLEAN, Continue(s),
         UNCHANGED <<scenario, names, adding, due, prev_run_end, fresh, disturbed, astray>>,
         \/ UNCHANGED <<written, stamped>>
         \/ written' = written \cup {First(todo)} /\ stamped' = stamped \cup {First(todo)},
         \/ refused' = refused
         \/ refused' = refused \cup {First(todo)} /\ First(todo) \in stamped /\ ~ fresh,
         calm' \in BOOLEAN, calm' => calm,
         s /\ list \notin disturbed => First(todo) \in written' \cup {"cpu"},
         ~ s /\ calm' /\ list \notin disturbed =>
            First(todo) \in scenario.bad \/ (First(todo) \in stamped /\ ~ fresh)
  PROVE  WriterInv'
<1> DEFINE f == First(todo)
<1>1. /\ WriterTypes /\ StampInv /\ PlaceInv /\ CalmInv /\ RefusedOnlyTwice
      /\ list \in DOMAIN Lists /\ Reading /\ list \in Nat
      /\ scenario \in Scenarios /\ pc # "idle"
  BY DEF WriterInv, WriterTypes
<1>2. Lists' = Lists /\ (\A l : Listing(l)' = Listing(l)) /\ (\A l, n : Reaches(l, n)' = Reaches(l, n) /\ UpTo(l, n)' = UpTo(l, n))
  BY SameLists
<1>3. DOMAIN Lists = 1 .. Len(Lists) /\ Len(Lists) \in Nat /\ \A l \in DOMAIN Lists : l \in Nat
  BY <1>1, ListsAre
<1>4. /\ f \in todo /\ \A m \in todo : m = f \/ Order[f] < Order[m]
      /\ list \notin disturbed => f \in Listing(list) /\ twice = {}
      /\ list \in disturbed => f \in astray
  BY <1>1, InHand DEF Reading
<1>5. /\ pc' \in {"list", "update"} /\ list' \in Nat
      /\ pc' = "list" => list' = list + 1 /\ twice' = {}
      /\ pc' = "update" => list' = list /\ todo' \subseteq todo /\ twice' \subseteq twice
      /\ pc' = "update" /\ twice \subseteq todo => twice' \subseteq todo'
      /\ \A l \in Nat : \A n :
           Through(l, n) \/ (l = list /\ n = f /\ twice = {}) => Through(l, n)'
      /\ \A l \in Nat : \A n : Through(l, n)' =>
           Through(l, n) \/ (l = list /\ n = f) \/ (l = list /\ n \in todo /\ ~ s)
  BY <1>1, ContinueMoves
<1>6. f \in stamped \ astray /\ ~ fresh => \E k \in DOMAIN Lists : k \in 1 .. list - 1 /\ f \in Listing(k)
  <2> SUFFICES ASSUME f \in stamped, f \notin astray, ~ fresh
               PROVE  \E k \in DOMAIN Lists : k \in 1 .. list - 1 /\ f \in Listing(k)
    OBVIOUS
  <2>1. f \in written
    BY <1>1 DEF StampInv
  <2>2. PICK k \in DOMAIN Lists : f \in Listing(k) /\ Through(k, f)
    BY <1>1, <2>1 DEF PlaceInv
  <2>3. k < list
    BY <1>4, <2>2 DEF Through
  <2> QED BY <1>1, <1>3, <2>2, <2>3
<1> HIDE DEF f
<1>7. WriterTypes'
  <2>1. pc' = "update" => list' \in DOMAIN Lists' /\ Reading'
    BY <1>1, <1>2, <1>5 DEF Reading
  <2>2. \A k \in disturbed : k < list' \/ (k = list' /\ pc' = "update")
    <3>1. \A k \in disturbed : k \in Nat /\ (k < list \/ k = list)
      BY <1>1 DEF WriterTypes
    <3> QED BY <1>1, <1>5, <3>1
  <2>3. pc' = "list" => list' >= 1
    BY <1>1, <1>5
  <2> QED BY <1>1, <1>5, <2>1, <2>2, <2>3 DEF WriterTypes
<1>8. StampInv'
  BY <1>1, <1>5 DEF StampInv, f
<1>9. PlaceInv'
  <2> SUFFICES ASSUME NEW n \in written' \ astray PROVE \E l \in DOMAIN Lists : n \in Listing(l) /\ Through(l, n)'
    BY <1>2 DEF PlaceInv
  <2>1. CASE n \in written
    BY <1>1, <1>3, <1>5, <2>1 DEF PlaceInv
  <2>2. CASE n = f
    <3>1. f \in Listing(list) /\ twice = {}
      BY <1>4, <2>2
    <3> QED BY <1>1, <1>5, <2>2, <3>1
  <2> QED BY <2>1, <2>2 DEF f
<1>10. CalmInv'
  <2> SUFFICES ASSUME calm', NEW l \in DOMAIN Lists \ disturbed, NEW n \in NamesOf(l, due)' \ {"cpu"},
                      Through(l, n)', Reaches(l, n)', UpTo(l, n)' \cap astray = {}
               PROVE  n \in written'
    BY <1>2 DEF CalmInv
  <2>1. /\ Reaches(l, n) /\ l \in Nat /\ n \in NamesOf(l, due) \ {"cpu"} /\ calm
        /\ UpTo(l, n) \cap astray = {}
    BY <1>2, <1>3 DEF NamesOf
  <2>2. CASE Through(l, n)
    BY <1>1, <2>1, <2>2 DEF CalmInv
  <2>3. CASE l = list /\ n = f /\ s
    BY <2>1, <2>3 DEF f
  <2>4. CASE l = list /\ (n = f \/ n \in todo) /\ ~ s
    <3>1. n = f \/ Order[f] < Order[n]
      BY <1>4, <2>4
    <3>2. f \in UpTo(list, n) /\ f \notin astray
      BY <1>4, <2>1, <2>4, <3>1 DEF UpTo
    <3>3. f \in scenario.bad \/ \E k \in 1 .. list - 1 : f \in Listing(k)
      BY <1>6, <2>4, <3>2 DEF f
    <3>4. ~ Reaches(list, n)
      BY <1>1, <1>4, <2>4, <3>1, <3>3, Obstacle
    <3> QED BY <2>1, <2>4, <3>4
  <2> QED BY <1>5, <2>1, <2>2, <2>3, <2>4
<1>11. RefusedOnlyTwice'
  <2> SUFFICES ASSUME NEW n \in refused' \ astray
               PROVE  \E k, l \in DOMAIN Lists : k # l /\ n \in Listing(k) \cap Listing(l)
    BY <1>2 DEF RefusedOnlyTwice
  <2>1. CASE n \in refused
    BY <1>1, <2>1 DEF RefusedOnlyTwice
  <2>2. CASE n = f /\ f \in stamped /\ ~ fresh
    <3>1. PICK k \in DOMAIN Lists : k \in 1 .. list - 1 /\ f \in Listing(k)
      BY <1>6, <2>2
    <3>2. k # list
      BY <1>1, <3>1
    <3>3. f \in Listing(list)
      BY <1>4, <2>2
    <3> QED BY <1>1, <2>2, <3>1, <3>2, <3>3
  <2> QED BY <2>1, <2>2 DEF f
<1> QED BY <1>7, <1>8, <1>9, <1>10, <1>11 DEF WriterInv

-----------------------------------------------------------------------------
(* The steps of the program.                                               *)

LEMMA UpdateKeepsInv ==
  ASSUME WriterInv, pc = "update", todo # {}, rrd_update(First(todo)),
         UNCHANGED <<external, unsure, prev_run_end, fresh, due>>
  PROVE  WriterInv'
<1> DEFINE f     == First(todo)
           taken == Connected = "good" /\ f \notin stamped
<1>1. /\ Continue(taken) /\ taken \in BOOLEAN
      /\ stamped' = IF taken THEN stamped \cup {f} ELSE stamped
      /\ written' = IF taken THEN written \cup {f} ELSE written
      /\ refused' = IF Connected = "good" /\ ~ taken /\ ~ fresh THEN refused \cup {f} ELSE refused
      /\ calm' = (calm /\ Connected = "good" /\ (taken \/ ~ fresh))
  BY DEF rrd_update
<1>2. taken <=> Connected = "good" /\ f \notin stamped
  OBVIOUS
<1>3. UNCHANGED <<scenario, names, adding, due, prev_run_end, fresh, disturbed, astray>> /\ calm \in BOOLEAN
  BY DEF external, unsure, WriterInv, WriterTypes
<1> HIDE DEF taken
<1>4. \/ UNCHANGED <<written, stamped>>
      \/ written' = written \cup {f} /\ stamped' = stamped \cup {f}
  BY <1>1
<1>5. refused' = refused \/ (refused' = refused \cup {f} /\ f \in stamped /\ ~ fresh)
  BY <1>1, <1>2
<1>6. calm' \in BOOLEAN /\ (calm' => calm) /\ (taken => f \in written' \cup {"cpu"})
      /\ (~ taken /\ calm' => f \in stamped /\ ~ fresh)
  BY <1>1, <1>2, <1>3
<1> HIDE DEF f
<1> QED BY <1>1, <1>3, <1>4, <1>5, <1>6, TryKeepsInv DEF f

LEMMA UnreadableKeepsInv ==
  ASSUME WriterInv, pc = "update", todo # {}, Unreadable,
         UNCHANGED <<external, unsure, prev_run_end, fresh, due>>
  PROVE  WriterInv'
<1>1. /\ Continue(FALSE) /\ calm' = FALSE /\ UNCHANGED <<written, stamped, refused>>
      /\ UNCHANGED <<scenario, names, adding, due, prev_run_end, fresh, disturbed, astray>>
  BY DEF Unreadable, external, unsure
<1> QED BY <1>1, TryKeepsInv

LEMMA CpuKeepsInv ==
  ASSUME WriterInv, rrd_update_cpu
  PROVE  WriterInv'
<1>1. /\ pc = "update" /\ todo = {"cpu"} /\ UNCHANGED <<external, unsure, prev_run_end, fresh, due>>
      /\ First(todo) = "cpu"
  BY DEF rrd_update_cpu, First
<1>2. CASE rrd_update("cpu")
  BY <1>1, <1>2, UpdateKeepsInv
<1>3. CASE Continue(TRUE) /\ UNCHANGED <<stamped, connection, written, refused, calm>>
  <2>1. /\ calm' \in BOOLEAN
        /\ UNCHANGED <<scenario, names, adding, due, prev_run_end, fresh, disturbed, astray>>
    BY <1>1, <1>3 DEF WriterInv, WriterTypes, external, unsure
  <2> QED BY <1>1, <1>3, <2>1, TryKeepsInv
<1>4. CASE Unreadable
  BY <1>1, <1>4, UnreadableKeepsInv
<1> QED BY <1>2, <1>3, <1>4 DEF rrd_update_cpu

(* An update of nobody: only a list that was read while a name was being   *)
(* added has an entry without its name.                                    *)
LEMMA NamelessKeepsInv ==
  ASSUME WriterInv, Nameless
  PROVE  WriterInv'
<1>1. PICK s \in BOOLEAN : Continue(s)
  BY DEF Nameless
<1>2. /\ pc = "update" /\ todo # {} /\ ~ Named /\ calm' = (calm /\ Connected = "good")
      /\ UNCHANGED <<scenario, names, adding, due, prev_run_end, fresh, disturbed, astray>>
      /\ UNCHANGED <<written, stamped, refused>>
  BY DEF Nameless, external, unsure
<1>3. WriterTypes /\ calm' \in BOOLEAN /\ (calm' => calm)
  BY <1>2 DEF WriterInv, WriterTypes
<1>4. list \in disturbed
  BY <1>2, <1>3, InHand
<1> QED BY <1>1, <1>2, <1>3, <1>4, TryKeepsInv

(* What only touches files, the connection or the sample.                  *)
LEMMA AsideKeepsInv ==
  ASSUME WriterInv,
         UNCHANGED <<scenario, names, adding, due, pc, list, todo, twice, disturbed, astray>>,
         UNCHANGED <<prev_run_end, stamped, written, refused, fresh>>,
         calm' \in BOOLEAN, calm' => calm
  PROVE  WriterInv'
<1>1. Lists' = Lists /\ (\A l : Listing(l)' = Listing(l)) /\ (\A l, n : Reaches(l, n)' = Reaches(l, n) /\ UpTo(l, n)' = UpTo(l, n))
  BY SameLists
<1>2. \A l, n : Through(l, n)' = Through(l, n) /\ NamesOf(l, due)' = NamesOf(l, due)
  BY <1>1 DEF Through, NamesOf
<1>3. WriterTypes' /\ StampInv'
  BY <1>1 DEF WriterInv, WriterTypes, Reading, StampInv
<1>4. PlaceInv'
  BY <1>1, <1>2 DEF WriterInv, PlaceInv
<1>5. CalmInv'
  BY <1>1, <1>2 DEF WriterInv, CalmInv
<1>6. RefusedOnlyTwice'
  BY <1>1 DEF WriterInv, RefusedOnlyTwice
<1> QED BY <1>3, <1>4, <1>5, <1>6 DEF WriterInv

LEMMA CreateKeepsInv ==
  ASSUME WriterInv, rrd_create_file
  PROVE  WriterInv'
<1> DEFINE f    == First(todo)
           made == Connected # "none" /\ f \notin scenario.bad
           told == made /\ Connected = "good"
<1>1. /\ pc = "update" /\ todo # {} /\ calm' = (calm /\ Connected = "good")
      /\ IF told THEN UNCHANGED <<pc, list, todo, twice>> ELSE Continue(FALSE)
      /\ UNCHANGED <<scenario, names, adding, due, prev_run_end, fresh, disturbed, astray>>
      /\ UNCHANGED <<stamped, written, refused>>
  BY DEF rrd_create_file, Named, external, unsure
<1>2. calm' \in BOOLEAN /\ (calm' => calm)
  BY <1>1 DEF WriterInv, WriterTypes
<1>3. CASE told
  BY <1>1, <1>2, <1>3, AsideKeepsInv
<1>4. CASE ~ told
  <2>1. calm' => f \in scenario.bad
    BY <1>1, <1>4
  <2> HIDE DEF f
  <2> QED BY <1>1, <1>2, <1>4, <2>1, TryKeepsInv DEF f
<1> QED BY <1>3, <1>4

(* A run begins, or does not.                                              *)
LEMMA TimerKeepsInv ==
  ASSUME WriterInv, mainPeriodic
  PROVE  WriterInv'
<1>1. UNCHANGED <<scenario, names, adding, twice, stamped, prev_run_end, fresh>> /\ pc = "idle"
  BY DEF mainPeriodic, external
<1>2. CASE UNCHANGED <<pc, list, todo, written, refused, calm, due, unsure>>
  <2>1. calm' \in BOOLEAN
    BY <1>2 DEF WriterInv, WriterTypes
  <2> QED BY <1>1, <1>2, <2>1, AsideKeepsInv DEF unsure
<1>3. CASE ~ UNCHANGED <<pc, list, todo, written, refused, calm, due, unsure>>
  <2>1. /\ ~ prev_run_end /\ pc' = "list" /\ list' = 1 /\ written' = {} /\ refused' = {}
        /\ calm' = TRUE /\ due' = names /\ disturbed' = {} /\ astray' = {}
    BY <1>3 DEF mainPeriodic
  <2>2. Lists' = Lists /\ scenario \in Scenarios
    BY <1>1, SameLists DEF WriterInv, WriterTypes
  <2>3. WriterTypes'
    BY <1>1, <2>1 DEF WriterInv, WriterTypes
  <2>4. StampInv'
    BY <1>1, <2>1 DEF WriterInv, StampInv
  <2>5. PlaceInv' /\ RefusedOnlyTwice'
    BY <2>1 DEF PlaceInv, RefusedOnlyTwice
  <2>6. CalmInv'
    <3>1. \A l \in DOMAIN Lists : \A n : ~ Through(l, n)'
      BY <2>1, <2>2, ListsAre DEF Through
    <3> QED BY <2>2, <3>1 DEF CalmInv
  <2> QED BY <2>3, <2>4, <2>5, <2>6 DEF WriterInv
<1> QED BY <1>2, <1>3

(* The next list begins, or the run ends.                                  *)
LEMMA NextListKeepsInv ==
  ASSUME WriterInv, NextList
  PROVE  WriterInv'
<1>1. UNCHANGED <<scenario, names, adding, due, stamped, written, refused, fresh, calm>> /\ pc = "list"
  BY DEF NextList, external
<1>2. /\ WriterTypes /\ scenario \in Scenarios /\ list \in Nat /\ list >= 1
      /\ StampInv /\ PlaceInv /\ CalmInv /\ RefusedOnlyTwice
  BY <1>1 DEF WriterInv, WriterTypes
<1>3. DOMAIN Lists = 1 .. Len(Lists) /\ Len(Lists) \in Nat
  BY <1>2, ListsAre
<1>4. Lists' = Lists /\ (\A l : Listing(l)' = Listing(l)) /\ (\A l, n : Reaches(l, n)' = Reaches(l, n) /\ UpTo(l, n)' = UpTo(l, n))
  BY <1>1, SameLists
<1>5. \A k \in disturbed : k \in Nat /\ k < list
  BY <1>1, <1>2 DEF WriterTypes
<1>6. CASE list <= Len(Lists)
  <2>1. /\ pc' = "update" /\ list' = list /\ prev_run_end' = prev_run_end
        /\ \/ todo' = Listing(list) /\ UNCHANGED <<twice, disturbed, astray>>
           \/ Disturbed
    BY <1>6 DEF NextList, unsure
  <2>2. list \in DOMAIN Lists /\ list \notin disturbed /\ twice = {}
    BY <1>1, <1>2, <1>3, <1>5, <1>6 DEF WriterTypes
  <2>3. disturbed' \subseteq disturbed \cup {list} /\ disturbed \subseteq disturbed' /\ astray \subseteq astray'
    BY <2>1 DEF Disturbed
  <2>4. Reading'
    <3>1. CASE todo' = Listing(list) /\ UNCHANGED <<twice, disturbed, astray>>
      BY <1>4, <2>1, <2>2, <3>1 DEF Reading
    <3>2. CASE Disturbed
      <4>1. Dictionary(list) \subseteq Names
        BY <1>2, <2>2, OneOrNames DEF Dictionary, Incomplete, WriterTypes
      <4> QED BY <2>1, <3>2, <4>1 DEF Disturbed, Reading
    <3> QED BY <2>1, <3>1, <3>2
  <2>5. WriterTypes'
    <3>1. disturbed' \subseteq Nat /\ \A k \in disturbed' : k < list' \/ (k = list' /\ pc' = "update")
      BY <1>2, <1>5, <2>1, <2>3
    <3> QED BY <1>1, <1>2, <1>4, <2>1, <2>2, <2>4, <3>1 DEF WriterTypes
  <2>6. StampInv'
    BY <1>1, <1>2, <2>1 DEF StampInv
  <2>7. \A l, n : Through(l, n) => Through(l, n)'
    BY <1>1, <2>1 DEF Through
  <2>8. PlaceInv'
    BY <1>1, <1>2, <1>4, <2>3, <2>7 DEF PlaceInv
  <2>9. CalmInv'
    <3> SUFFICES ASSUME calm, NEW l \in DOMAIN Lists \ disturbed', NEW n \in NamesOf(l, due)' \ {"cpu"},
                        Through(l, n)', Reaches(l, n), UpTo(l, n) \cap astray' = {}
                 PROVE  n \in written'
      BY <1>1, <1>4 DEF CalmInv
    <3>1. n \in NamesOf(l, due) \ {"cpu"} /\ n \in Listing(l)
      BY <1>1, <1>4 DEF NamesOf, Reaches
    <3>2. l < list \/ (l = list /\ n \notin todo')
      BY <2>1 DEF Through
    <3>3. ~ (l = list /\ n \notin todo')
      BY <2>1, <3>1 DEF Disturbed
    <3>4. Through(l, n) /\ l \notin disturbed /\ UpTo(l, n) \cap astray = {}
      BY <2>3, <3>2, <3>3 DEF Through
    <3> QED BY <1>1, <1>2, <3>1, <3>4 DEF CalmInv
  <2>10. RefusedOnlyTwice'
    BY <1>1, <1>2, <1>4, <2>3 DEF RefusedOnlyTwice
  <2> QED BY <2>5, <2>6, <2>8, <2>9, <2>10 DEF WriterInv
<1>7. CASE ~ (list <= Len(Lists))
  <2>1. /\ pc' = "idle" /\ list' = 0 /\ prev_run_end' = TRUE
        /\ UNCHANGED <<twice, disturbed, astray>>
    BY <1>7 DEF NextList, unsure
  <2>2. WriterTypes'
    BY <1>1, <1>2, <2>1 DEF WriterTypes
  <2>3. RefusedOnlyTwice'
    BY <1>1, <1>2, <1>4, <2>1 DEF RefusedOnlyTwice
  <2> QED BY <2>1, <2>2, <2>3 DEF WriterInv, StampInv, PlaceInv, CalmInv
<1> QED BY <1>6, <1>7

LEMMA NothingKeepsInv ==
  ASSUME WriterInv, Nothing
  PROVE  WriterInv'
<1>1. /\ pc = "update" /\ todo = {} /\ pc' = "list" /\ list' = list + 1
      /\ UNCHANGED <<scenario, names, adding, due, twice, disturbed, astray>>
      /\ UNCHANGED <<stamped, written, refused, fresh, calm, prev_run_end>>
  BY DEF Nothing, external, unsure
<1>2. /\ WriterTypes /\ scenario \in Scenarios /\ list \in Nat
      /\ StampInv /\ PlaceInv /\ CalmInv /\ RefusedOnlyTwice
  BY DEF WriterInv, WriterTypes
<1>3. \A l \in DOMAIN Lists : l \in Nat
  BY <1>2, ListsAre
<1>4. Lists' = Lists /\ (\A l : Listing(l)' = Listing(l)) /\ (\A l, n : Reaches(l, n)' = Reaches(l, n) /\ UpTo(l, n)' = UpTo(l, n))
  BY <1>1, SameLists
<1>5. \A l \in DOMAIN Lists : \A n : Through(l, n)' <=> Through(l, n)
  BY <1>1, <1>2, <1>3 DEF Through
<1>6. \A l : NamesOf(l, due)' = NamesOf(l, due)
  BY <1>1, <1>4 DEF NamesOf
<1>7. WriterTypes' /\ StampInv'
  <2>1. twice = {} /\ \A k \in disturbed : k \in Nat /\ (k < list \/ k = list)
    BY <1>1, <1>2 DEF WriterTypes, Reading
  <2>2. \A k \in disturbed : k < list'
    BY <1>1, <1>2, <2>1
  <2> QED BY <1>1, <1>2, <2>1, <2>2 DEF WriterTypes, StampInv
<1>8. PlaceInv' /\ RefusedOnlyTwice'
  BY <1>1, <1>2, <1>4, <1>5 DEF PlaceInv, RefusedOnlyTwice
<1>9. CalmInv'
  BY <1>1, <1>2, <1>4, <1>5, <1>6 DEF CalmInv
<1> QED BY <1>7, <1>8, <1>9 DEF WriterInv

-----------------------------------------------------------------------------
(* The steps around it.                                                    *)

(* The second ends.                                                        *)
LEMMA TickKeepsInv ==
  ASSUME WriterInv, Tick
  PROVE  WriterInv'
<1>1. /\ UNCHANGED <<scenario, names, adding, due, pc, list, todo, twice, written, refused, calm>>
      /\ UNCHANGED <<disturbed, astray>>
      /\ stamped' = {} /\ prev_run_end' = FALSE /\ fresh' = FALSE
  BY DEF Tick, external, unsure
<1>2. Lists' = Lists /\ (\A l : Listing(l)' = Listing(l)) /\ (\A l, n : Reaches(l, n)' = Reaches(l, n) /\ UpTo(l, n)' = UpTo(l, n))
  BY <1>1, SameLists
<1>3. \A l, n : Through(l, n)' = Through(l, n) /\ NamesOf(l, due)' = NamesOf(l, due)
  BY <1>1, <1>2 DEF Through, NamesOf
<1>4. WriterTypes'
  BY <1>1, <1>2 DEF WriterInv, WriterTypes, Reading
<1>5. StampInv'
  BY <1>1 DEF StampInv
<1>6. PlaceInv' /\ RefusedOnlyTwice'
  BY <1>1, <1>2, <1>3 DEF WriterInv, PlaceInv, RefusedOnlyTwice
<1>7. CalmInv'
  BY <1>1, <1>2, <1>3 DEF WriterInv, CalmInv
<1> QED BY <1>4, <1>5, <1>6, <1>7 DEF WriterInv

(* A name that comes later can only be an obstacle.                        *)
LEMMA NewNamesKeepInv ==
  ASSUME WriterInv,
         names' \in [Dictionaries -> SUBSET Names], adding' \in [Dictionaries -> SUBSET Names],
         \A d \in Dictionaries : names[d] \subseteq names'[d] /\ adding'[d] \cap names'[d] = {},
         UNCHANGED <<scenario, local, unsure, due, stamped, written, refused, fresh, calm>>
  PROVE  WriterInv'
<1>1. /\ UNCHANGED <<scenario, due, pc, list, todo, twice, disturbed, astray>>
      /\ UNCHANGED <<prev_run_end, stamped, written, refused, fresh, calm>>
  BY DEF local, unsure
<1>2. /\ WriterTypes /\ scenario \in Scenarios /\ names \in [Dictionaries -> SUBSET Names]
      /\ StampInv /\ PlaceInv /\ CalmInv /\ RefusedOnlyTwice
  BY DEF WriterInv, WriterTypes
<1>4. Lists' = Lists /\ DOMAIN Lists = 1 .. Len(Lists) /\ Len(Lists) \in Nat
  BY <1>1, <1>2, ListsAre DEF Lists
<1>5. \A l \in DOMAIN Lists : Listing(l) \subseteq Listing(l)'
  <2>1. \A l \in DOMAIN Lists : NamesOf(l, names) \subseteq NamesOf(l, names')
    BY <1>2, ListsGrow
  <2> QED BY <1>4, <2>1 DEF Listing, NamesOf
<1>6. ASSUME NEW l \in DOMAIN Lists, NEW m \in Listing(l), Reaches(l, m)'
      PROVE  Reaches(l, m) /\ UpTo(l, m) \subseteq UpTo(l, m)'
  <2>1. UpTo(l, m) \subseteq UpTo(l, m)'
    BY <1>5 DEF UpTo
  <2>2. \A k \in 1 .. l - 1 : k \in DOMAIN Lists
    BY <1>4
  <2> QED BY <1>1, <1>5, <1>6, <2>1, <2>2 DEF Reaches
<1>7. \A l, m : Through(l, m)' = Through(l, m) /\ NamesOf(l, due)' = NamesOf(l, due)
  BY <1>1, <1>4 DEF Through, NamesOf
<1>8. WriterTypes'
  <2>1. pc' = "update" => list' \in DOMAIN Lists' /\ Reading'
    BY <1>1, <1>2, <1>4, <1>5 DEF WriterTypes, Reading
  <2>2. \A e \in Dictionaries : due'[e] \subseteq names'[e]
    BY <1>1, <1>2 DEF WriterTypes
  <2> QED BY <1>1, <1>2, <2>1, <2>2 DEF WriterTypes
<1>9. StampInv'
  BY <1>1, <1>2 DEF StampInv
<1>10. PlaceInv'
  BY <1>1, <1>2, <1>4, <1>5, <1>7 DEF PlaceInv
<1>11. RefusedOnlyTwice'
  BY <1>1, <1>2, <1>4, <1>5 DEF RefusedOnlyTwice
<1>12. CalmInv'
  <2> SUFFICES ASSUME pc # "idle", calm, NEW l \in DOMAIN Lists \ disturbed,
                      NEW m \in NamesOf(l, due) \ {"cpu"},
                      Through(l, m), Reaches(l, m)', UpTo(l, m)' \cap astray = {}
               PROVE  m \in written
    BY <1>1, <1>4, <1>7 DEF CalmInv
  <2>1. m \in Listing(l)
    BY <1>2, ListsGrow DEF Listing, WriterTypes
  <2>2. Reaches(l, m) /\ UpTo(l, m) \cap astray = {}
    BY <1>6, <2>1
  <2> QED BY <1>2, <2>2 DEF CalmInv
<1> QED BY <1>8, <1>9, <1>10, <1>11, <1>12 DEF WriterInv

LEMMA AddBeginsKeepsInv ==
  ASSUME WriterInv, NEW d \in Dictionaries, NEW n \in Names, AddBegins(d, n)
  PROVE  WriterInv'
<1>1. /\ UNCHANGED <<names, scenario, local, unsure, due, stamped, written, refused, fresh, calm>>
      /\ adding' = [adding EXCEPT ![d] = {n}] /\ n \notin names[d]
  BY DEF AddBegins
<1>2. /\ names \in [Dictionaries -> SUBSET Names] /\ adding \in [Dictionaries -> SUBSET Names]
      /\ \A e \in Dictionaries : adding[e] \cap names[e] = {}
  BY DEF WriterInv, WriterTypes
<1> QED BY <1>1, <1>2, NewNamesKeepInv

LEMMA AddEndsKeepsInv ==
  ASSUME WriterInv, NEW d \in Dictionaries, AddEnds(d)
  PROVE  WriterInv'
<1>1. /\ UNCHANGED <<scenario, local, unsure, due, stamped, written, refused, fresh, calm>>
      /\ names' = [names EXCEPT ![d] = @ \cup adding[d]]
      /\ adding' = [adding EXCEPT ![d] = {}]
  BY DEF AddEnds
<1>2. /\ names \in [Dictionaries -> SUBSET Names] /\ adding \in [Dictionaries -> SUBSET Names]
      /\ \A e \in Dictionaries : adding[e] \cap names[e] = {}
  BY DEF WriterInv, WriterTypes
<1> QED BY <1>1, <1>2, NewNamesKeepInv

(* The program is started again, after it was killed or met a NULL.        *)
LEMMA ComesUpKeepsInv ==
  ASSUME WriterInv, ComesUpAnew
  PROVE  WriterInv'
<1>1. /\ UNCHANGED <<scenario, names, adding, stamped>>
      /\ pc' = "idle" /\ list' = 0 /\ twice' = {} /\ prev_run_end' = FALSE
      /\ written' = {} /\ refused' = {} /\ due' = [d \in Dictionaries |-> {}]
      /\ calm' = TRUE /\ fresh' = TRUE /\ disturbed' = {}
  BY DEF ComesUpAnew
<1>2. WriterTypes'
  BY <1>1 DEF WriterInv, WriterTypes
<1> QED BY <1>1, <1>2 DEF WriterInv, StampInv, PlaceInv, CalmInv, RefusedOnlyTwice

LEMMA WriterStep == WriterInv /\ [Next]_vars => WriterInv'
<1> SUFFICES ASSUME WriterInv, [Next]_vars PROVE WriterInv'
  OBVIOUS
<1>1. CASE mainPeriodic
  BY <1>1, TimerKeepsInv
<1>2. CASE NextList
  BY <1>2, NextListKeepsInv
<1>3. CASE Nothing
  BY <1>3, NothingKeepsInv
<1>4. CASE rrd_create_file
  BY <1>4, CreateKeepsInv
<1>5. CASE Update
  BY <1>5, UpdateKeepsInv DEF Update, Named
<1>6. CASE rrd_update_memory
  <2>1. /\ pc = "update" /\ todo = {"memory"} /\ UNCHANGED <<external, unsure, prev_run_end, fresh, due>>
        /\ First(todo) = "memory"
    BY <1>6 DEF rrd_update_memory, First
  <2> QED BY <1>6, <2>1, UpdateKeepsInv, UnreadableKeepsInv DEF rrd_update_memory
<1>7. CASE rrd_update_cpu
  BY <1>7, CpuKeepsInv
<1>8. CASE Tick
  BY <1>8, TickKeepsInv
<1>9. ASSUME NEW d \in Dictionaries, NEW n \in Names, AddBegins(d, n) PROVE WriterInv'
  BY <1>9, AddBeginsKeepsInv
<1>10. CASE DaemonGoes \/ DaemonComes \/ UNCHANGED vars
  <2>1. /\ UNCHANGED <<scenario, names, adding, due, pc, list, todo, twice, disturbed, astray>>
        /\ UNCHANGED <<prev_run_end, stamped, written, refused, fresh, calm>>
    BY <1>10 DEF DaemonGoes, DaemonComes, local, unsure, vars, external
  <2>2. calm' \in BOOLEAN
    BY <2>1 DEF WriterInv, WriterTypes
  <2> QED BY <2>1, <2>2, AsideKeepsInv
<1>11. CASE Restart \/ MeetsNull
  BY <1>11, ComesUpKeepsInv DEF Restart, MeetsNull
<1>12. CASE Nameless
  BY <1>12, NamelessKeepsInv
<1>13. ASSUME NEW d \in Dictionaries, AddEnds(d) PROVE WriterInv'
  BY <1>13, AddEndsKeepsInv
<1> QED BY <1>1, <1>2, <1>3, <1>4, <1>5, <1>6, <1>7, <1>8, <1>9, <1>10, <1>11, <1>12, <1>13 DEF Next, Writer

LEMMA WriterInit == Init => WriterInv
<1> SUFFICES ASSUME Init PROVE WriterInv
  OBVIOUS
<1>1. scenario \in Scenarios /\ names = scenario.known /\ names \in [Dictionaries -> SUBSET Names]
  BY RrdAssumption DEF Init
<1> QED BY <1>1 DEF Init, WriterInv, WriterTypes, StampInv, PlaceInv, CalmInv, RefusedOnlyTwice

(* The strengthened invariant holds in every state.                        *)
THEOREM InvariantHolds == Spec => []WriterInv
BY WriterInit, WriterStep, PTL DEF Spec

(* An update is refused for its time only because two lists have the name, *)
(* or a list that was read while a name was being added had it.            *)
THEOREM NoOtherRefusal == Spec => []RefusedOnlyTwice
<1>1. WriterInv => RefusedOnlyTwice
  BY DEF WriterInv
<1> QED BY <1>1, InvariantHolds, PTL

(* A run without a failure of the daemon writes every name that a list had *)
(* from the beginning and that the list reaches, but for a list that was   *)
(* read while a name was being added and what stood in such a list.        *)
THEOREM CalmRunsWriteAll == Spec => []CalmRunWritesAll
<1>1. WriterInv => CalmRunWritesAll
  <2> SUFFICES ASSUME WriterInv, pc = "list", list > Len(Lists), calm,
                      NEW l \in DOMAIN Lists \ disturbed, NEW n \in NamesOf(l, due) \ {"cpu"},
                      Reaches(l, n), UpTo(l, n) \cap astray = {}
               PROVE  n \in written
    BY DEF CalmRunWritesAll
  <2>1. l < list
    BY ListsAre DEF WriterInv, WriterTypes
  <2> QED BY <2>1 DEF WriterInv, CalmInv, Through
<1> QED BY <1>1, InvariantHolds, PTL

=============================================================================
