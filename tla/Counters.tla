------------------------------ MODULE Counters ------------------------------
(***************************************************************************)
(* The dictionary of counter names in shared memory (CDictionary) and the  *)
(* calls that reach it: Counters, HistoryCounters and the source names of  *)
(* the log.  A name gets the next id; index is sorted by name, and name    *)
(* and place of an id are found through str_index and names_storage.       *)
(*                                                                         *)
(* Those who look a name up by its text take the lock.  Those who list a   *)
(* category (Dump, DumpHtml, CheckAllStatus, rrd-writer) and the log's Add *)
(* take none.  Add is therefore cut at its stores, in the order that the   *)
(* build makes them; what it reads under the lock is one step with taking  *)
(* it.                                                                     *)
(*                                                                         *)
(* A name is its rank in the order of strcasecmp.  Empty is the text of    *)
(* memory nobody has written, and stands for the prefixes of a name that   *)
(* memcpy has not finished.                                                *)
(***************************************************************************)
EXTENDS Integers

CONSTANTS
  Procs,      (* Processes.                                                 *)
  Nobody,     (* The holder of a free lock.                                 *)
  Names,      (* Names that may be asked for.                               *)
  Len,        (* Length of each.                                            *)
  Prefixes,   (* What may be listed: [from, to), and from = Empty for all.  *)
  Objects,    (* The calls that are made of a dictionary, for each that is. *)
  SIZE,       (* Ids there are.                                             *)
  NAMES_STORAGE_SIZE

Empty == 0

ASSUME CountersAssumption ==
  /\ Nobody \notin Procs
  /\ Names \subseteq Nat \ {Empty} /\ Names # {}
  /\ Len \in [Names -> Nat \ {0}]
  /\ Prefixes \subseteq [from : Nat, to : Nat]
  /\ \A calls \in Objects :
       calls \subseteq {"GetCounterIndex", "LookupIndex", "HistoryIndex", "HistoryPtr", "Add", "Dump"}
  /\ SIZE \in Nat \ {0} /\ NAMES_STORAGE_SIZE \in Nat \ {0}

VARIABLES
  calls,          (* Which calls are made of this one.                      *)
  count, index,   (* index_info: the entries [id, name_offset] by name      *)
  names_used, names_storage, str_index,
  lock,           (* Who holds the mutex of the header.                     *)
  pc, call, name, (* Per process: where it is, in which call, for what.     *)
  pos,            (* Per process: lower_bound's p, in Add.                  *)
  listing,        (* Per process: the ids that Dump has still to print.     *)
  answer,         (* Per process: what the last call returned.              *)
  ids             (* History variable: every id returned for a name.        *)

shared == <<count, index, names_used, names_storage, str_index>>
vars == <<calls, shared, lock, pc, call, name, pos, listing, answer, ids>>

DICTIONARY_INVALID_INDEX == -1

Ids     == 0 .. SIZE - 1
Offsets == 0 .. NAMES_STORAGE_SIZE - 1

-----------------------------------------------------------------------------
(* Reading.                                                                *)

\* Lookup(index): NULL (not in the domain) from count on.
Text(i) == names_storage[str_index[i]]

\* compare meets NULL, and strcasecmp ends the process.
NullEntry == \E k \in 0 .. count - 1 : index[k].id >= count

(* Where std::lower_bound may stop: it has found the entry before smaller, *)
(* and this one not.  One place in a sorted index; anything may happen to  *)
(* a reader without the lock.                                              *)
lower_bound(n) ==
  {k \in 0 .. count : /\ k > 0 => Text(index[k - 1].id) < n
                      /\ k < count => Text(index[k].id) >= n}

Matches(k, n) == k < count /\ names_storage[index[k].name_offset] = n

\* Lookup(name), for each place that lower_bound may find.
Lookup(n) == {IF Matches(k, n) THEN index[k].id ELSE DICTIONARY_INVALID_INDEX : k \in lower_bound(n)}

Full(n) == names_used + Len[n] + 1 > NAMES_STORAGE_SIZE \/ count >= SIZE

-----------------------------------------------------------------------------
(* The calls.                                                              *)

\* GetCounterIndex looks first and adds under a second lock.
FirstStep(c) ==
  CASE c \in {"GetCounterIndex", "LookupIndex"} -> "lookup"
    [] c = "HistoryIndex"                       -> "lookup_add"
    [] c \in {"HistoryPtr", "Add"}              -> "add"

Call(p) ==
  /\ pc[p] = "idle"
  /\ \E c \in calls \ {"Dump"}, n \in Names :
       /\ call' = [call EXCEPT ![p] = c]
       /\ name' = [name EXCEPT ![p] = n]
       /\ pc' = [pc EXCEPT ![p] = FirstStep(c)]
  /\ UNCHANGED <<shared, lock, pos, listing, answer, ids>>

\* Mutant: no call takes the lock.
MayEnter_Free(p) == name[p] \in Names

(* The log's Add takes no lock.                                            *)
MayEnter(p) == call[p] = "Add" \/ lock = Nobody

\* Return, which unlocks.
Return(p, id) ==
  /\ pc' = [pc EXCEPT ![p] = "idle"]
  /\ lock' = IF lock = p THEN Nobody ELSE lock
  /\ answer' = [answer EXCEPT ![p] = id]
  /\ ids' = IF id = DICTIONARY_INVALID_INDEX THEN ids ELSE [ids EXCEPT ![name[p]] = @ \cup {id}]
  /\ UNCHANGED <<call, name, listing>>

LookupOnly(p) ==
  /\ pc[p] = "lookup" /\ MayEnter(p)
  /\ \E id \in Lookup(name[p]) :
       IF call[p] = "GetCounterIndex" /\ id = DICTIONARY_INVALID_INDEX
       THEN /\ pc' = [pc EXCEPT ![p] = "lookup_add"]
            /\ UNCHANGED <<lock, call, name, listing, answer, ids>>
       ELSE Return(p, id)
  /\ UNCHANGED <<shared, pos>>

(* Add, up to its first store.                                             *)
AddTo(p) ==
  IF Full(name[p])
  THEN Return(p, DICTIONARY_INVALID_INDEX) /\ UNCHANGED pos
  ELSE \E k \in lower_bound(name[p]) :
         IF Matches(k, name[p])
         THEN Return(p, index[k].id) /\ UNCHANGED pos
         ELSE /\ pos' = [pos EXCEPT ![p] = k]
              /\ pc' = [pc EXCEPT ![p] = IF k < count THEN "memmove" ELSE "id"]
              /\ lock' = IF call[p] = "Add" THEN lock ELSE p
              /\ UNCHANGED <<call, name, listing, answer, ids>>

Add(p) ==
  /\ pc[p] = "add" /\ MayEnter(p)
  /\ AddTo(p)
  /\ UNCHANGED shared

\* Mutant: no second look under the second lock.
LookupAdd_Once(p) ==
  /\ pc[p] = "lookup_add" /\ MayEnter(p)
  /\ AddTo(p)
  /\ UNCHANGED shared

LookupAdd(p) ==
  /\ pc[p] = "lookup_add" /\ MayEnter(p)
  /\ \E id \in Lookup(name[p]) :
       IF id # DICTIONARY_INVALID_INDEX THEN Return(p, id) /\ UNCHANGED pos ELSE AddTo(p)
  /\ UNCHANGED shared

Goto(p, step) == pc' = [pc EXCEPT ![p] = step]
Locals == <<lock, call, name, pos, listing, answer, ids>>

\* Mutant: one entry less is moved.
Memmove_OneLess(p) ==
  /\ pc[p] = "memmove" /\ Goto(p, "id")
  /\ index' = [k \in Ids |-> IF k \in pos[p] + 1 .. count - 1 THEN index[k - 1] ELSE index[k]]
  /\ UNCHANGED <<count, names_used, names_storage, str_index, Locals>>

Memmove(p) ==
  /\ pc[p] = "memmove" /\ Goto(p, "id")
  /\ index' = [k \in Ids |-> IF k \in pos[p] + 1 .. count THEN index[k - 1] ELSE index[k]]
  /\ UNCHANGED <<count, names_used, names_storage, str_index, Locals>>

SetId(p) ==
  /\ pc[p] = "id" /\ Goto(p, "offset")
  /\ index' = [index EXCEPT ![pos[p]].id = count]
  /\ UNCHANGED <<count, names_used, names_storage, str_index, Locals>>

SetOffset(p) ==
  /\ pc[p] = "offset" /\ Goto(p, "count")
  /\ str_index' = [str_index EXCEPT ![count] = names_used]
  /\ index' = [index EXCEPT ![pos[p]].name_offset = names_used]
  /\ UNCHANGED <<count, names_used, names_storage, Locals>>

SetCount(p) ==
  /\ pc[p] = "count" /\ Goto(p, "memcpy")
  /\ count' = count + 1
  /\ UNCHANGED <<index, names_used, names_storage, str_index, Locals>>

\* Mutant: names_used stays.
Memcpy_NoAdvance(p) ==
  /\ pc[p] = "memcpy"
  /\ names_storage' = [names_storage EXCEPT ![names_used] = name[p]]
  /\ Return(p, index[pos[p]].id)
  /\ UNCHANGED <<count, index, names_used, str_index, pos>>

\* The name, names_used and the return.
Memcpy(p) ==
  /\ pc[p] = "memcpy"
  /\ names_storage' = [names_storage EXCEPT ![names_used] = name[p]]
  /\ names_used' = names_used + Len[name[p]] + 1
  /\ Return(p, index[pos[p]].id)
  /\ UNCHANGED <<count, index, str_index, pos>>

(* Dump: GetCategory, without a lock ...                                   *)
GetCategory(p) ==
  /\ pc[p] = "idle" /\ "Dump" \in calls
  /\ \E prefix \in Prefixes :
       IF prefix.from = Empty
       THEN /\ listing' = [listing EXCEPT ![p] = {index[k].id : k \in 0 .. count - 1}]
            /\ Goto(p, "print")
       ELSE \/ /\ NullEntry
               /\ Goto(p, "dead")
               /\ UNCHANGED listing
            \/ \E p1 \in lower_bound(prefix.from), p2 \in lower_bound(prefix.to) :
                 /\ listing' = [listing EXCEPT ![p] = {index[k].id : k \in p1 .. p2 - 1}]
                 /\ Goto(p, "print")
  /\ UNCHANGED <<shared, lock, call, name, pos, answer, ids>>

\* ... and Lookup of each id: strlen(NULL) ends the process.
DumpNext(p) ==
  /\ pc[p] = "print"
  /\ IF listing[p] = {}
     THEN Goto(p, "idle") /\ UNCHANGED listing
     ELSE \E i \in listing[p] :
            /\ Goto(p, IF i >= count THEN "dead" ELSE "print")
            /\ listing' = [listing EXCEPT ![p] = @ \ {i}]
  /\ UNCHANGED <<shared, lock, call, name, pos, answer, ids>>

-----------------------------------------------------------------------------

(* A new object: zeros, and Clear.                                         *)
Init ==
  /\ calls \in Objects
  /\ count = 0 /\ names_used = 0
  /\ index = [k \in Ids |-> [id |-> 0, name_offset |-> 0]]
  /\ str_index = [i \in Ids |-> 0]
  /\ names_storage = [o \in Offsets |-> Empty]
  /\ lock = Nobody
  /\ pc = [p \in Procs |-> "idle"]
  /\ call = [p \in Procs |-> "LookupIndex"]
  /\ name \in [Procs -> {CHOOSE n \in Names : TRUE}]
  /\ pos = [p \in Procs |-> 0]
  /\ listing = [p \in Procs |-> {}]
  /\ answer = [p \in Procs |-> DICTIONARY_INVALID_INDEX]
  /\ ids = [n \in Names |-> {}]

Step(p) ==
  \/ Call(p) \/ LookupOnly(p) \/ LookupAdd(p) \/ Add(p)
  \/ Memmove(p) \/ SetId(p) \/ SetOffset(p) \/ SetCount(p) \/ Memcpy(p)
  \/ GetCategory(p) \/ DumpNext(p)

Next == (\E p \in Procs : Step(p)) /\ UNCHANGED calls

Spec == Init /\ [][Next]_vars

-----------------------------------------------------------------------------
(* Properties.                                                             *)

TypeOK ==
  /\ calls \in Objects
  /\ count \in 0 .. SIZE
  /\ names_used \in 0 .. NAMES_STORAGE_SIZE
  /\ index \in [Ids -> [id : Ids, name_offset : Offsets]]
  /\ str_index \in [Ids -> Offsets]
  /\ names_storage \in [Offsets -> Names \cup {Empty}]
  /\ lock \in Procs \cup {Nobody}
  /\ pc \in [Procs -> {"idle", "lookup", "lookup_add", "add", "memmove", "id", "offset", "count",
                       "memcpy", "print", "dead"}]
  /\ call \in [Procs -> calls \cup {"LookupIndex"}]
  /\ name \in [Procs -> Names]
  /\ pos \in [Procs -> Ids]
  /\ listing \in [Procs -> SUBSET Ids]
  /\ answer \in [Procs -> Ids \cup {DICTIONARY_INVALID_INDEX}]
  /\ ids \in [Names -> SUBSET Ids]

Known(n) == ids[n] # {}

(* Whoever asks for a name gets the same id, and the id leads back to the  *)
(* name: nobody counts into the counter of another name.                   *)
IdsAgree ==
  \A n \in Names :
    /\ \A i, j \in ids[n] : i = j
    /\ \A i \in ids[n] : i < count /\ Text(i) = n

(* Without the lock in somebody's hands the index is sorted, has every id  *)
(* once, and agrees with str_index; the names do not overlap.              *)
IndexSound ==
  lock = Nobody =>
    /\ \A j, k \in 0 .. count - 1 : j < k => Text(index[j].id) < Text(index[k].id)
    /\ {index[k].id : k \in 0 .. count - 1} = 0 .. count - 1
    /\ \A k \in 0 .. count - 1 : index[k].name_offset = str_index[index[k].id]
    /\ \A i \in 0 .. count - 1 :
         LET end == str_index[i] + Len[Text(i)] + 1
         IN  end = IF i + 1 < count THEN str_index[i + 1] ELSE names_used

(* A call that looks before it adds says that there is no such counter     *)
(* only if there is none, and in particular no process has it: also when   *)
(* another one has just taken the last place.  (GetCounterPtr of the       *)
(* history counters adds without a look, and Add refuses every name, the   *)
(* known ones too, once the dictionary is full.)                           *)
InvalidMeansAbsent ==
  [][\A p \in Procs :
       pc[p] \in {"lookup", "lookup_add"} /\ pc'[p] = "idle"
         /\ answer'[p] = DICTIONARY_INVALID_INDEX => ~Known(name[p])]_vars

(* Lookup(id) never changes its answer: a listing without the lock finds   *)
(* an id without a text for a moment, and never with another one's text.   *)
NamesForGood ==
  [][\A i \in 0 .. count - 1 : Text(i) # Empty => Text(i)' = Text(i)]_vars

=============================================================================
