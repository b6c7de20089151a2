------------------------------ MODULE ShmOpen ------------------------------
(***************************************************************************)
(* How processes open one shared memory object and agree which of them     *)
(* initialises it: ShmSimple::Open and OpenMirror over ShmBase::openShm,   *)
(* is_init_needed and header_init_done.                                    *)
(*                                                                         *)
(* Every system call, and every access to init_state, is a step of its own.*)
(* An object that is removed while it is open lives on for those who have  *)
(* it; the next open under the name creates another.                       *)
(***************************************************************************)
EXTENDS Integers

CONSTANTS
  Openers,     (* Processes, one object of class ShmSimple each.            *)
  Scenarios,   (* Who may open, with which size arguments (0 is "as large   *)
               (* as it is"), and how many may crash.                       *)
  HeaderSize,  (* sizeof(T): what Init takes off the size.                  *)
  SizeModulus, (* Number of values of a size_t.                             *)
  MaxFiles     (* Bound on the objects ever created.                        *)

ASSUME OpenAssumption ==
  /\ Scenarios \subseteq [openers : SUBSET Openers, requests : SUBSET Nat, crashes : Nat]
  /\ HeaderSize \in Nat \ {0}
  /\ SizeModulus \in Nat
  /\ HeaderSize < SizeModulus
  /\ \A c \in Scenarios : \A s \in c.requests : s < SizeModulus /\ (s # 0 => s > HeaderSize)
  /\ MaxFiles \in Nat

Inodes == 1 .. MaxFiles
None   == 0

VARIABLES
  file,     (* per inode: st_size, header.init_state, whether header_init   *)
            (* ran, and the buffer size that T::Init wrote                  *)
  created,  (* inodes in use                                                *)
  linked,   (* the inode that the name stands for, or None                  *)
  pc,       (* per process: the next step of its Open                       *)
  want,     (* the local variable size of ShmSimple::Open                   *)
  fd,       (* the inode behind the descriptor, or None                     *)
  size,     (* the member size of ShmBase                                   *)
  crashes,
  scenario  (* one of Scenarios, for good                                   *)

vars == <<file, created, linked, pc, want, fd, size, crashes, scenario>>

New == [st_size |-> 0, init_state |-> "clean", locks |-> FALSE, buffer_size |-> 0]

Goto(p, label) == pc' = [pc EXCEPT ![p] = label]

(* ShmBase::Close before anything is mapped, and the members cleared: the  *)
(* descriptor is forgotten (it is not closed), the caller gets false.      *)
Fail(p) ==
  /\ Goto(p, "idle")
  /\ fd' = [fd EXCEPT ![p] = None]
  /\ size' = [size EXCEPT ![p] = 0]

-----------------------------------------------------------------------------
(* Open, step by step.                                                     *)

Open(p, s) ==
  /\ pc[p] = "idle"
  /\ want' = [want EXCEPT ![p] = s]
  /\ Goto(p, IF s = 0 THEN "stat" ELSE "shm_open")
  /\ UNCHANGED <<file, created, linked, fd, size, crashes>>

(* Without a size of its own the caller takes the one of the file.         *)
Stat(p) ==
  /\ pc[p] = "stat"
  /\ IF linked = None
     THEN Goto(p, "idle") /\ UNCHANGED want
     ELSE Goto(p, "shm_open") /\ want' = [want EXCEPT ![p] = file[linked].st_size]
  /\ UNCHANGED <<file, created, linked, fd, size, crashes>>

\* The object is there.
ShmOpenExisting(p) ==
  /\ pc[p] = "shm_open"
  /\ linked # None
  /\ fd' = [fd EXCEPT ![p] = linked]
  /\ Goto(p, "fstat")
  /\ UNCHANGED <<file, created, linked, want, size, crashes>>

\* It is not, and O_CREAT makes it; only a size of 0 asks for no creation.
ShmOpenNew(p) ==
  /\ pc[p] = "shm_open"
  /\ linked = None
  /\ want[p] # 0
  /\ created < MaxFiles
  /\ created' = created + 1
  /\ linked' = created + 1
  /\ file' = [file EXCEPT ![created + 1] = New]
  /\ fd' = [fd EXCEPT ![p] = created + 1]
  /\ Goto(p, "fstat")
  /\ UNCHANGED <<want, size, crashes>>

ShmOpenFails(p) ==
  /\ pc[p] = "shm_open"
  /\ linked = None
  /\ want[p] = 0
  /\ Fail(p)
  /\ UNCHANGED <<file, created, linked, want, crashes>>

\* Mutant: a file of another size is taken as it is.
Fstat_AnySize(p) ==
  /\ pc[p] = "fstat"
  /\ size' = [size EXCEPT ![p] = IF want[p] = 0 THEN file[fd[p]].st_size ELSE want[p]]
  /\ Goto(p, "mmap")
  /\ UNCHANGED <<file, created, linked, want, fd, crashes>>

(* fstat: take the size of the file, refuse a file of another size, or go  *)
(* on to ftruncate.                                                        *)
Fstat(p) ==
  /\ pc[p] = "fstat"
  /\ LET st_size == file[fd[p]].st_size
     IN  CASE want[p] = 0 ->
                /\ size' = [size EXCEPT ![p] = st_size]
                /\ Goto(p, "mmap")
                /\ UNCHANGED fd
           [] want[p] # 0 /\ st_size # 0 /\ st_size # want[p] ->
                Fail(p)
           [] OTHER ->
                /\ Goto(p, "ftruncate")
                /\ UNCHANGED <<fd, size>>
  /\ UNCHANGED <<file, created, linked, want, crashes>>

Ftruncate(p) ==
  /\ pc[p] = "ftruncate"
  /\ file' = [file EXCEPT ![fd[p]].st_size = want[p]]
  /\ size' = [size EXCEPT ![p] = want[p]]
  /\ Goto(p, "mmap")
  /\ UNCHANGED <<created, linked, want, fd, crashes>>

(* mmap refuses a length of 0.                                             *)
Mmap(p) ==
  /\ pc[p] = "mmap"
  /\ IF size[p] = 0
     THEN Fail(p)
     ELSE Goto(p, "check") /\ UNCHANGED <<fd, size>>
  /\ UNCHANGED <<file, created, linked, want, crashes>>

\* Mutant: the state is tested and set, but not in one step with the test.
IsInitNeeded_NoCAS(p) ==
  /\ pc[p] = "check"
  /\ file[fd[p]].init_state # "initialized"
  /\ file' = [file EXCEPT ![fd[p]].init_state = "initializing"]
  /\ Goto(p, "init")
  /\ UNCHANGED <<created, linked, want, fd, size, crashes>>

\* Mutant: an object that is ready is begun again.
IsInitNeeded_Always(p) ==
  /\ pc[p] = "check"
  /\ file[fd[p]].init_state # "initializing"
  /\ file' = [file EXCEPT ![fd[p]].init_state = "initializing"]
  /\ Goto(p, "init")
  /\ UNCHANGED <<created, linked, want, fd, size, crashes>>

\* is_init_needed: the compare-and-swap won.  The others wait for the winner.
IsInitNeeded(p) ==
  /\ pc[p] = "check"
  /\ file[fd[p]].init_state = "clean"
  /\ file' = [file EXCEPT ![fd[p]].init_state = "initializing"]
  /\ Goto(p, "init")
  /\ UNCHANGED <<created, linked, want, fd, size, crashes>>

\* Mutant: it is enough that somebody has begun.
AlreadyInitialized_Begun(p) ==
  /\ pc[p] = "check"
  /\ file[fd[p]].init_state # "clean"
  /\ Goto(p, "opened")
  /\ UNCHANGED <<file, created, linked, want, fd, size, crashes>>

AlreadyInitialized(p) ==
  /\ pc[p] = "check"
  /\ file[fd[p]].init_state = "initialized"
  /\ Goto(p, "opened")
  /\ UNCHANGED <<file, created, linked, want, fd, size, crashes>>

\* Somebody else has begun: look again after a while.
WaitForInit(p) ==
  /\ pc[p] = "check"
  /\ file[fd[p]].init_state = "initializing"
  /\ UNCHANGED vars

\* Mutant: the size is taken off in a signed type.
BufferSizeOf_Signed(s) == s - HeaderSize

(* In size_t: below zero it wraps around.                                  *)
BufferSizeOf(s) ==
  IF s >= HeaderSize THEN s - HeaderSize ELSE SizeModulus + s - HeaderSize

(* header_init and T::Init(size), with the local size, not the member.     *)
InitData(p) ==
  /\ pc[p] = "init"
  /\ file' = [file EXCEPT ![fd[p]].locks = TRUE,
                          ![fd[p]].buffer_size = BufferSizeOf(want[p])]
  /\ Goto(p, "done")
  /\ UNCHANGED <<created, linked, want, fd, size, crashes>>

\* Mutant: the flag stays as it was.
HeaderInitDone_Forgotten(p) ==
  /\ pc[p] = "done"
  /\ Goto(p, "opened")
  /\ UNCHANGED <<file, created, linked, want, fd, size, crashes>>

(* header_init_done: the process exits if the state is not its own.        *)
HeaderInitDone(p) ==
  /\ pc[p] = "done"
  /\ IF file[fd[p]].init_state = "initializing"
     THEN /\ file' = [file EXCEPT ![fd[p]].init_state = "initialized"]
          /\ Goto(p, "opened")
          /\ UNCHANGED <<fd, size>>
     ELSE Fail(p) /\ UNCHANGED file
  /\ UNCHANGED <<created, linked, want, crashes>>

-----------------------------------------------------------------------------
(* openShm of an object that is open already.                              *)
AlreadyOpened(p) ==
  /\ pc[p] = "opened"
  /\ UNCHANGED vars

Close(p) ==
  /\ pc[p] = "opened"
  /\ Fail(p)
  /\ UNCHANGED <<file, created, linked, want, crashes>>

(* A process dies, anywhere; the kernel closes its descriptor.             *)
Crash(p) ==
  /\ pc[p] # "idle"
  /\ crashes < scenario.crashes
  /\ crashes' = crashes + 1
  /\ Fail(p)
  /\ UNCHANGED <<file, created, linked, want>>

(* Somebody removes the file under the name.                               *)
Remove ==
  /\ linked # None
  /\ created < MaxFiles
  /\ linked' = None
  /\ UNCHANGED <<file, created, pc, want, fd, size, crashes>>

Step(p) ==
  \/ Stat(p)
  \/ ShmOpenExisting(p)
  \/ ShmOpenNew(p)
  \/ ShmOpenFails(p)
  \/ Fstat(p)
  \/ Ftruncate(p)
  \/ Mmap(p)
  \/ IsInitNeeded(p)
  \/ AlreadyInitialized(p)
  \/ WaitForInit(p)
  \/ InitData(p)
  \/ HeaderInitDone(p)

Init ==
  /\ file = [i \in Inodes |-> New]
  /\ created = 0
  /\ linked = None
  /\ pc = [p \in Openers |-> "idle"]
  /\ want = [p \in Openers |-> 0]
  /\ fd = [p \in Openers |-> None]
  /\ size = [p \in Openers |-> 0]
  /\ crashes = 0
  /\ scenario \in Scenarios

Next ==
  /\ UNCHANGED scenario
  /\ \/ \E p \in scenario.openers, s \in scenario.requests : Open(p, s)
     \/ \E p \in scenario.openers : Step(p) \/ AlreadyOpened(p) \/ Close(p) \/ Crash(p)
     \/ Remove

Spec == Init /\ [][Next]_vars

(* Every process runs; the wait in is_init_needed is a loop around usleep. *)
FairSpec == Spec /\ \A p \in Openers : WF_vars(UNCHANGED scenario /\ Step(p))

-----------------------------------------------------------------------------
(* Properties.                                                             *)

TypeOK ==
  /\ file \in [Inodes -> [st_size : 0 .. SizeModulus - 1,
                          init_state : {"clean", "initializing", "initialized"},
                          locks : BOOLEAN,
                          buffer_size : 0 .. SizeModulus - 1]]
  /\ created \in 0 .. MaxFiles
  /\ linked \in 0 .. created
  /\ pc \in [Openers -> {"idle", "stat", "shm_open", "fstat", "ftruncate", "mmap",
                         "check", "init", "done", "opened"}]
  /\ want \in [Openers -> 0 .. SizeModulus - 1]
  /\ fd \in [Openers -> 0 .. created]
  /\ size \in [Openers -> 0 .. SizeModulus - 1]
  /\ crashes \in Nat
  /\ scenario \in Scenarios

(* What callers must keep to for OpenedReady and MappingBacked: they all   *)
(* ask for one size.                                                       *)
OneRequest == \E s \in scenario.requests \ {0} : scenario.requests = {s}

(* Who is past is_init_needed finds a lock and a ring that were set up, of *)
(* the size that it has mapped.                                            *)
FoundReady ==
  \A p \in Openers : pc[p] = "opened" =>
    /\ file[fd[p]].init_state = "initialized"
    /\ file[fd[p]].locks
    /\ file[fd[p]].buffer_size = size[p] - HeaderSize

(* Callers that all ask for one size find the object set up for it, however*)
(* their steps interleave and wherever some of them die.                   *)
OpenedReady == OneRequest => FoundReady

(* With one size for all, what a process has mapped is there: no access of *)
(* its own ends beyond the end of the file.                                *)
MappingBacked ==
  OneRequest =>
    \A p \in Openers : pc[p] \in {"check", "init", "done", "opened"} =>
      file[fd[p]].st_size = size[p]

(* At most one process initialises an object, none while another one uses  *)
(* it, and header_init_done finds the state that it expects.               *)
OneInitializer ==
  \A p, q \in Openers : pc[p] \in {"init", "done"} =>
    /\ file[fd[p]].init_state = "initializing"
    /\ p # q /\ fd[p] = fd[q] => pc[q] \notin {"init", "done", "opened"}

(* Once initialised, an object is never initialised again: neither its lock*)
(* nor its ring is reset under those who use it.                           *)
InitializedForGood ==
  [][\A i \in Inodes : file[i].init_state = "initialized" =>
       /\ file'[i].init_state = "initialized"
       /\ file'[i].buffer_size = file[i].buffer_size]_vars

(* Nobody waits for ever in Open, as long as nobody dies in it.            *)
OpenReturns ==
  \A p \in Openers : pc[p] # "idle" ~> pc[p] \in {"idle", "opened"} \/ crashes # 0

=============================================================================
