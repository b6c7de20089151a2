--------------------------- MODULE ShmOpenProofs ---------------------------
(***************************************************************************)
(* However many processes open an object, with whatever sizes, and wherever*)
(* they die: at most one of them initialises it, and never again.  If they *)
(* all ask for the same size, all find it ready and as large as they have  *)
(* mapped it.                                                              *)
(***************************************************************************)
EXTENDS ShmOpen, TLAPS

HasFile == {"fstat", "ftruncate", "mmap", "check", "init", "done", "opened"}

(* The inductive invariant.  Objects that do not exist yet are clean, a    *)
(* process that is past shm_open has one that does, and the process that   *)
(* initialises an object is alone with it until it says so.                *)
NotCreatedYet == \A i \in Inodes : i > created => file[i] = New

FilesHeld ==
  \A p \in Openers : /\ pc[p] \in HasFile => fd[p] # None
                     /\ pc[p] = "opened" => file[fd[p]].init_state = "initialized"

OpenInv ==
  /\ TypeOK
  /\ NotCreatedYet
  /\ FilesHeld
  /\ OneInitializer

LEMMA OpenInit == Init => OpenInv
<1> SUFFICES ASSUME Init PROVE OpenInv
  OBVIOUS
<1>1. New \in [st_size : 0 .. SizeModulus - 1,
               init_state : {"clean", "initializing", "initialized"},
               locks : BOOLEAN,
               buffer_size : 0 .. SizeModulus - 1]
  BY OpenAssumption DEF New
<1>2. TypeOK
  BY <1>1, OpenAssumption DEF Init, TypeOK, None
<1> QED BY <1>2 DEF Init, OpenInv, OneInitializer, HasFile, NotCreatedYet, FilesHeld

(* A step outside of the initialisation: one process goes elsewhere, the   *)
(* objects that exist keep their init_state.                               *)
Outside(p, label, f) ==
  /\ pc' = [pc EXCEPT ![p] = label]
  /\ label \notin {"init", "done", "opened"}
  /\ fd' = [fd EXCEPT ![p] = f]
  /\ label \in HasFile => f # None
  /\ \A i \in 1 .. created : file'[i].init_state = file[i].init_state

LEMMA OutsideKeeps ==
  ASSUME OpenInv, NEW p \in Openers, NEW label, NEW f, Outside(p, label, f)
  PROVE  FilesHeld' /\ OneInitializer'
<1>1. ASSUME NEW q \in Openers
      PROVE  /\ pc[q] \in HasFile => fd[q] # None
             /\ fd[q] \in 0 .. created /\ created \in Nat
             /\ q = p => pc'[q] = label /\ fd'[q] = f
             /\ q # p => pc'[q] = pc[q] /\ fd'[q] = fd[q]
             /\ pc[q] \in HasFile => file'[fd[q]].init_state = file[fd[q]].init_state
  BY OpenAssumption DEF OpenInv, TypeOK, FilesHeld, Outside, None
<1>2. ASSUME NEW q \in Openers
      PROVE  /\ pc'[q] \in HasFile => fd'[q] # None
             /\ pc'[q] = "opened" => file'[fd'[q]].init_state = "initialized"
  <2>1. CASE q = p
    BY <2>1, <1>1 DEF Outside
  <2>2. CASE q # p
    BY <2>2, <1>1 DEF OpenInv, FilesHeld, HasFile
  <2> QED BY <2>1, <2>2
<1>3. ASSUME NEW q \in Openers, NEW r \in Openers, pc'[q] \in {"init", "done"}
      PROVE  /\ file'[fd'[q]].init_state = "initializing"
             /\ q # r /\ fd'[q] = fd'[r] => pc'[r] \notin {"init", "done", "opened"}
  <2>1. q # p
    BY <1>1, <1>3 DEF Outside
  <2>2. pc[q] \in {"init", "done"} /\ fd'[q] = fd[q] /\ pc[q] \in HasFile
    BY <1>1, <1>3, <2>1 DEF HasFile
  <2>3. file'[fd'[q]].init_state = "initializing"
    BY <1>1, <2>2 DEF OpenInv, OneInitializer
  <2>4. CASE r = p
    BY <1>1, <2>3, <2>4 DEF Outside
  <2>5. CASE r # p
    BY <1>1, <2>2, <2>3, <2>5 DEF OpenInv, OneInitializer
  <2> QED BY <2>3, <2>4, <2>5
<1> QED BY <1>2, <1>3 DEF FilesHeld, OneInitializer

(* A step of the initialisation of the object of p, or past it.            *)
Inside(p, label, state) ==
  /\ pc' = [pc EXCEPT ![p] = label]
  /\ UNCHANGED <<fd, created>>
  /\ pc[p] \in {"check", "init", "done"}
  /\ file' \in [Inodes -> [st_size : 0 .. SizeModulus - 1,
                           init_state : {"clean", "initializing", "initialized"},
                           locks : BOOLEAN,
                           buffer_size : 0 .. SizeModulus - 1]]
  /\ \A i \in Inodes \ {fd[p]} : file'[i] = file[i]
  /\ file'[fd[p]].init_state = state
  /\ \/ label = "init" /\ state = "initializing" /\ file[fd[p]].init_state = "clean"
     \/ label = "done" /\ state = "initializing" /\ pc[p] = "init"
     \/ label = "opened" /\ state = "initialized" /\ pc[p] = "done"
     \/ label = "opened" /\ state = "initialized" /\ file[fd[p]].init_state = "initialized"

LEMMA InsideKeeps ==
  ASSUME OpenInv, NEW p \in Openers, NEW label, NEW state, Inside(p, label, state)
  PROVE  NotCreatedYet' /\ FilesHeld' /\ OneInitializer'
<1>1. ASSUME NEW q \in Openers
      PROVE  /\ pc[q] \in HasFile => fd[q] \in Inodes
             /\ fd[q] \in 0 .. created /\ created \in Nat /\ created' = created
             /\ fd'[q] = fd[q]
             /\ q = p => pc'[q] = label
             /\ q # p => pc'[q] = pc[q]
             /\ pc[q] \in HasFile /\ fd[q] # fd[p] => file'[fd[q]] = file[fd[q]]
  <2>1. /\ pc[q] \in HasFile => fd[q] # 0
        /\ fd[q] \in 0 .. created /\ created \in 0 .. MaxFiles
        /\ MaxFiles \in Nat
    BY OpenAssumption DEF OpenInv, TypeOK, FilesHeld, None
  <2>2. pc[q] \in HasFile => fd[q] \in Inodes
    BY <2>1 DEF Inodes
  <2>3. /\ created' = created
        /\ fd'[q] = fd[q]
        /\ q = p => pc'[q] = label
        /\ q # p => pc'[q] = pc[q]
    BY DEF OpenInv, TypeOK, Inside
  <2> QED BY <2>1, <2>2, <2>3 DEF Inside
<1>2. pc[p] \in HasFile /\ fd[p] \in Inodes
  BY <1>1 DEF Inside, HasFile
(* Whoever else has the object when this step is taken.                    *)
<1>3. ASSUME NEW q \in Openers, q # p, fd[q] = fd[p]
      PROVE  /\ pc[q] \notin {"init", "done"}
             /\ label \in {"init", "done"} => pc[q] # "opened"
  BY <1>3 DEF OpenInv, OneInitializer, FilesHeld, Inside
<1>4. NotCreatedYet'
  <2>1. ASSUME NEW i \in Inodes, i > created PROVE file'[i] = New
    <3>1. i # fd[p]
      BY <1>1, <2>1 DEF Inodes
    <3> QED BY <2>1, <3>1 DEF Inside, OpenInv, NotCreatedYet
  <2> QED BY <1>1, <2>1 DEF NotCreatedYet
<1>5. ASSUME NEW q \in Openers
      PROVE  /\ pc'[q] \in HasFile => fd'[q] # None
             /\ pc'[q] = "opened" => file'[fd'[q]].init_state = "initialized"
  <2>1. CASE q = p
    BY <2>1, <1>1, <1>2 DEF Inside, OpenInv, FilesHeld
  <2>2. CASE q # p /\ fd[q] = fd[p]
    BY <2>2, <1>1, <1>2, <1>3 DEF Inside, OpenInv, FilesHeld
  <2>3. CASE q # p /\ fd[q] # fd[p]
    BY <2>3, <1>1 DEF OpenInv, FilesHeld, HasFile
  <2> QED BY <2>1, <2>2, <2>3
<1>6. ASSUME NEW q \in Openers, NEW r \in Openers, pc'[q] \in {"init", "done"}
      PROVE  /\ file'[fd'[q]].init_state = "initializing"
             /\ q # r /\ fd'[q] = fd'[r] => pc'[r] \notin {"init", "done", "opened"}
  <2>1. CASE q = p
    BY <2>1, <1>1, <1>3, <1>6 DEF Inside
  <2>2. CASE q # p
    <3>1. pc[q] \in {"init", "done"} /\ pc[q] \in HasFile
      BY <2>2, <1>1, <1>6 DEF HasFile
    <3>2. fd[q] # fd[p]
      BY <2>2, <3>1, <1>3
    <3>3. file'[fd'[q]].init_state = "initializing"
      BY <3>1, <3>2, <1>1 DEF OpenInv, OneInitializer
    <3> QED BY <2>2, <3>1, <3>2, <3>3, <1>1 DEF OpenInv, OneInitializer
  <2> QED BY <2>1, <2>2
<1> QED BY <1>4, <1>5, <1>6 DEF FilesHeld, OneInitializer

-----------------------------------------------------------------------------
LEMMA ScenarioTypes ==
  ASSUME scenario \in Scenarios
  PROVE  /\ scenario.openers \subseteq Openers
         /\ \A s \in scenario.requests : s \in 0 .. SizeModulus - 1 /\ (s # 0 => s > HeaderSize)
<1>1. scenario \in [openers : SUBSET Openers, requests : SUBSET Nat, crashes : Nat]
  BY OpenAssumption
<1> QED BY <1>1, OpenAssumption

(* One lemma for the steps around the initialisation, one for those in it. *)

LEMMA AroundStep ==
  ASSUME OpenInv, NEW p \in Openers, UNCHANGED scenario,
         \/ \E s \in scenario.requests : Open(p, s)
         \/ Stat(p) \/ ShmOpenExisting(p) \/ ShmOpenNew(p) \/ ShmOpenFails(p)
         \/ Fstat(p) \/ Ftruncate(p) \/ Mmap(p) \/ Close(p) \/ Crash(p)
  PROVE  OpenInv'
<1> USE DEF Goto, Fail, None
<1>1. /\ fd[p] \in 0 .. created /\ created \in 0 .. MaxFiles /\ linked \in 0 .. created
      /\ pc[p] \in HasFile => fd[p] # 0
      /\ pc \in [Openers -> {"idle", "stat", "shm_open", "fstat", "ftruncate", "mmap",
                             "check", "init", "done", "opened"}]
      /\ fd = [fd EXCEPT ![p] = fd[p]]
  BY DEF OpenInv, FilesHeld, TypeOK
<1>2. \E label, f : Outside(p, label, f)
  <2>1. CASE \E s \in scenario.requests : Open(p, s)
    <3>1. Outside(p, "stat", fd[p]) \/ Outside(p, "shm_open", fd[p])
      BY <1>1, <2>1 DEF Open, Outside, HasFile
    <3> QED BY <3>1
  <2>2. CASE Stat(p)
    <3>1. Outside(p, "idle", fd[p]) \/ Outside(p, "shm_open", fd[p])
      BY <1>1, <2>2 DEF Stat, Outside, HasFile
    <3> QED BY <3>1
  <2>3. CASE ShmOpenExisting(p)
    <3>1. Outside(p, "fstat", linked)
      BY <1>1, <2>3 DEF ShmOpenExisting, Outside, HasFile
    <3> QED BY <3>1
  <2>4. CASE ShmOpenNew(p)
    <3>1. \A i \in 1 .. created : file'[i] = file[i]
      BY <1>1, <2>4 DEF ShmOpenNew, OpenInv, TypeOK, Inodes
    <3>2. Outside(p, "fstat", created + 1)
      BY <1>1, <2>4, <3>1 DEF ShmOpenNew, Outside, HasFile
    <3> QED BY <3>2
  <2>5. CASE ShmOpenFails(p) \/ Close(p) \/ Crash(p)
    <3>1. Outside(p, "idle", 0)
      BY <1>1, <2>5 DEF ShmOpenFails, Close, Crash, Outside, HasFile
    <3> QED BY <3>1
  <2>6. CASE Fstat(p)
    <3>1. \/ Outside(p, "mmap", fd[p])
          \/ Outside(p, "idle", 0)
          \/ Outside(p, "ftruncate", fd[p])
      BY <1>1, <2>6 DEF Fstat, Outside, HasFile
    <3> QED BY <3>1
  <2>7. CASE Ftruncate(p)
    <3>1. \A i \in 1 .. created : file'[i].init_state = file[i].init_state
      BY <1>1, <2>7 DEF Ftruncate, OpenInv, TypeOK, Inodes
    <3>2. Outside(p, "mmap", fd[p])
      BY <1>1, <2>7, <3>1 DEF Ftruncate, Outside, HasFile
    <3> QED BY <3>2
  <2>8. CASE Mmap(p)
    <3>1. Outside(p, "check", fd[p]) \/ Outside(p, "idle", 0)
      BY <1>1, <2>8 DEF Mmap, Outside, HasFile
    <3> QED BY <3>1
  <2> QED BY <2>1, <2>2, <2>3, <2>4, <2>5, <2>6, <2>7, <2>8
<1>3. FilesHeld' /\ OneInitializer'
  BY <1>2, OutsideKeeps
<1>4. \A i \in 0 .. MaxFiles : i # 0 => i \in Inodes /\ file[i].st_size \in 0 .. SizeModulus - 1
  <2>1. \A i \in 0 .. MaxFiles : i # 0 => i \in Inodes
    BY OpenAssumption DEF Inodes
  <2> QED BY <2>1 DEF OpenInv, TypeOK
<1>5. pc[p] \in HasFile => fd[p] \in 0 .. MaxFiles /\ fd[p] \in Inodes
  BY <1>1, OpenAssumption DEF Inodes
<1>6. 0 \in 0 .. SizeModulus - 1 /\ scenario.requests \subseteq 0 .. SizeModulus - 1
  BY OpenAssumption, ScenarioTypes DEF OpenInv, TypeOK
<1>7. TypeOK' /\ NotCreatedYet'
  <2>1. CASE \E s \in scenario.requests : Open(p, s)
    BY <1>6, <2>1 DEF Open, OpenInv, TypeOK, NotCreatedYet
  <2>2. CASE Stat(p)
    <3>1. linked # 0 => file[linked].st_size \in 0 .. SizeModulus - 1
      BY <1>1, <1>4, OpenAssumption
    <3>2. want' \in [Openers -> 0 .. SizeModulus - 1] /\ pc' \in [Openers -> {"idle", "stat",
            "shm_open", "fstat", "ftruncate", "mmap", "check", "init", "done", "opened"}]
      BY <2>2, <3>1 DEF Stat, OpenInv, TypeOK
    <3> QED BY <2>2, <3>2 DEF Stat, OpenInv, TypeOK, NotCreatedYet
  <2>3. CASE ShmOpenExisting(p)
    BY <1>1, <2>3 DEF ShmOpenExisting, OpenInv, TypeOK, NotCreatedYet
  <2>4. CASE ShmOpenNew(p)
    <3>1. created + 1 \in 0 .. MaxFiles /\ created + 1 \in 0 .. created + 1 /\ created \in Nat
      BY <1>1, <2>4, OpenAssumption DEF ShmOpenNew
    <3>2. New \in [st_size : 0 .. SizeModulus - 1,
                   init_state : {"clean", "initializing", "initialized"},
                   locks : BOOLEAN,
                   buffer_size : 0 .. SizeModulus - 1]
      BY <1>6 DEF New
    <3>3. fd' \in [Openers -> 0 .. created + 1]
      BY <2>4, <3>1 DEF ShmOpenNew, OpenInv, TypeOK
    <3>4. TypeOK'
      BY <2>4, <3>1, <3>2, <3>3 DEF ShmOpenNew, OpenInv, TypeOK
    <3>5. NotCreatedYet'
      BY SMTT(30), <2>4, <3>1 DEF ShmOpenNew, OpenInv, TypeOK, NotCreatedYet, Inodes
    <3> QED BY <3>4, <3>5
  <2>5. CASE ShmOpenFails(p) \/ Close(p) \/ Crash(p)
    <3>1. 0 \in 0 .. created /\ crashes + 1 \in Nat
      BY <1>1, OpenAssumption DEF OpenInv, TypeOK
    <3>2. fd' \in [Openers -> 0 .. created] /\ size' \in [Openers -> 0 .. SizeModulus - 1]
      BY <1>6, <2>5, <3>1 DEF ShmOpenFails, Close, Crash, OpenInv, TypeOK
    <3> QED BY <2>5, <3>1, <3>2 DEF ShmOpenFails, Close, Crash, OpenInv, TypeOK, NotCreatedYet
  <2>6. CASE Fstat(p)
    <3>1. file[fd[p]].st_size \in 0 .. SizeModulus - 1 /\ 0 \in 0 .. created
      BY <1>1, <1>4, <1>5, <2>6 DEF Fstat, HasFile
    <3>2. fd' \in [Openers -> 0 .. created] /\ size' \in [Openers -> 0 .. SizeModulus - 1]
      BY <1>6, <2>6, <3>1 DEF Fstat, OpenInv, TypeOK
    <3>3. pc' \in [Openers -> {"idle", "stat", "shm_open", "fstat", "ftruncate", "mmap", "check",
                              "init", "done", "opened"}]
      BY <2>6 DEF Fstat, OpenInv, TypeOK
    <3> QED BY <2>6, <3>2, <3>3 DEF Fstat, OpenInv, TypeOK, NotCreatedYet
  <2>7. CASE Ftruncate(p)
    <3>1. fd[p] \in Inodes /\ fd[p] <= created
      BY <1>1, <1>5, <2>7, OpenAssumption DEF Ftruncate, HasFile
    <3>2. TypeOK'
      BY <2>7, <3>1 DEF Ftruncate, OpenInv, TypeOK
    <3>3. NotCreatedYet'
      BY <1>1, <2>7, <3>1 DEF Ftruncate, OpenInv, TypeOK, NotCreatedYet, Inodes
    <3> QED BY <3>2, <3>3
  <2>8. CASE Mmap(p)
    <3>1. 0 \in 0 .. created
      BY <1>1, OpenAssumption
    <3> QED BY <1>6, <2>8, <3>1 DEF Mmap, OpenInv, TypeOK, NotCreatedYet
  <2> QED BY <2>1, <2>2, <2>3, <2>4, <2>5, <2>6, <2>7, <2>8
<1> QED BY <1>3, <1>7 DEF OpenInv

LEMMA InitStep ==
  ASSUME OpenInv, NEW p \in Openers, UNCHANGED scenario,
         IsInitNeeded(p) \/ AlreadyInitialized(p) \/ InitData(p) \/ HeaderInitDone(p)
  PROVE  OpenInv'
<1> USE DEF Goto, None
<1>1. /\ pc[p] \in {"check", "init", "done"}
      /\ fd[p] \in Inodes
      /\ pc[p] \in {"init", "done"} => file[fd[p]].init_state = "initializing"
  <2>1. pc[p] \in {"check", "init", "done"}
    BY DEF IsInitNeeded, AlreadyInitialized, InitData, HeaderInitDone
  <2>2. fd[p] # 0 /\ fd[p] \in 0 .. created /\ created \in 0 .. MaxFiles
    BY <2>1 DEF OpenInv, FilesHeld, HasFile, TypeOK
  <2> QED BY <2>1, <2>2, OpenAssumption DEF Inodes, OpenInv, OneInitializer
<1>2. want[p] \in 0 .. SizeModulus - 1 /\ BufferSizeOf(want[p]) \in 0 .. SizeModulus - 1
  <2>1. want[p] \in 0 .. SizeModulus - 1
    BY DEF OpenInv, TypeOK
  <2> QED BY <2>1, OpenAssumption DEF BufferSizeOf
<1>3. /\ \E label, state : Inside(p, label, state)
      /\ pc' \in [Openers -> {"idle", "stat", "shm_open", "fstat", "ftruncate", "mmap", "check",
                              "init", "done", "opened"}]
      /\ UNCHANGED <<created, linked, want, fd, size, crashes>>
  <2>1. CASE IsInitNeeded(p)
    <3>1. Inside(p, "init", "initializing")
      BY <1>1, <2>1 DEF IsInitNeeded, Inside, OpenInv, TypeOK
    <3> QED BY <2>1, <3>1 DEF IsInitNeeded, OpenInv, TypeOK
  <2>2. CASE AlreadyInitialized(p)
    <3>1. Inside(p, "opened", "initialized")
      BY <1>1, <2>2 DEF AlreadyInitialized, Inside, OpenInv, TypeOK
    <3> QED BY <2>2, <3>1 DEF AlreadyInitialized, OpenInv, TypeOK
  <2>3. CASE InitData(p)
    <3> DEFINE record == [file[fd[p]] EXCEPT !.locks = TRUE,
                                             !.buffer_size = BufferSizeOf(want[p])]
               Records == [st_size : 0 .. SizeModulus - 1,
                           init_state : {"clean", "initializing", "initialized"},
                           locks : BOOLEAN,
                           buffer_size : 0 .. SizeModulus - 1]
    <3>0. file \in [Inodes -> Records] /\ file[fd[p]] \in Records
      BY <1>1 DEF OpenInv, TypeOK
    <3>1. record \in Records /\ record.init_state = file[fd[p]].init_state
      BY <3>0, <1>2
    <3>2. /\ pc[p] = "init" /\ pc' = [pc EXCEPT ![p] = "done"]
          /\ file' = [file EXCEPT ![fd[p]] = record]
          /\ UNCHANGED <<fd, created>>
      BY <2>3 DEF InitData
    <3>3. file' \in [Inodes -> Records] /\ file'[fd[p]].init_state = "initializing"
      <4> HIDE DEF record, Records
      <4> QED BY <3>0, <3>1, <3>2, <1>1
    <3>4. Inside(p, "done", "initializing")
      <4> HIDE DEF record
      <4> QED BY <3>0, <3>2, <3>3 DEF Inside
    <3> QED BY <2>3, <3>4 DEF InitData, OpenInv, TypeOK
  <2>4. CASE HeaderInitDone(p)
    <3>1. Inside(p, "opened", "initialized")
      BY <1>1, <2>4 DEF HeaderInitDone, Inside, OpenInv, TypeOK
    <3> QED BY <1>1, <2>4, <3>1 DEF HeaderInitDone, OpenInv, TypeOK
  <2> QED BY <2>1, <2>2, <2>3, <2>4
<1>4. NotCreatedYet' /\ FilesHeld' /\ OneInitializer'
  BY <1>3, InsideKeeps
<1>5. TypeOK'
  BY <1>3 DEF OpenInv, TypeOK, Inside
<1> QED BY <1>4, <1>5 DEF OpenInv

LEMMA OpenNext == OpenInv /\ [Next]_vars => OpenInv'
<1> SUFFICES ASSUME OpenInv, [Next]_vars PROVE OpenInv'
  OBVIOUS
<1>1. CASE UNCHANGED vars
  BY <1>1 DEF vars, OpenInv, TypeOK, NotCreatedYet, FilesHeld, OneInitializer
<1>2. CASE Remove /\ UNCHANGED scenario
  <2>1. 0 \in 0 .. created
    BY DEF OpenInv, TypeOK
  <2> QED BY <1>2, <2>1 DEF Remove, None, OpenInv, TypeOK, NotCreatedYet, FilesHeld, OneInitializer
<1>3. ASSUME NEW p \in Openers, UNCHANGED scenario,
             (\E s \in scenario.requests : Open(p, s)) \/ Step(p) \/ AlreadyOpened(p) \/ Close(p) \/ Crash(p)
      PROVE  OpenInv'
  BY <1>1, <1>3, AroundStep, InitStep DEF Step, WaitForInit, AlreadyOpened
<1>4. scenario.openers \subseteq Openers
  BY ScenarioTypes DEF OpenInv, TypeOK
<1> QED BY <1>1, <1>2, <1>3, <1>4 DEF Next

(* Types, and with them that no descriptor or name stands for an object    *)
(* that was never created.                                                 *)
THEOREM OpenTypes == Spec => []TypeOK
<1>1. OpenInv => TypeOK
  BY DEF OpenInv
<1> QED BY <1>1, OpenInit, OpenNext, PTL DEF Spec

(* At most one process initialises an object, and nobody uses it meanwhile.*)
THEOREM InitializerAlone == Spec => []OneInitializer
<1>1. OpenInv => OneInitializer
  BY DEF OpenInv
<1> QED BY <1>1, OpenInit, OpenNext, PTL DEF Spec

(* An object that is ready stays as it is.                                 *)
THEOREM ReadyForGood == Spec => InitializedForGood
<1> DEFINE Kept == \A i \in Inodes : file[i].init_state = "initialized" =>
                     /\ file'[i].init_state = "initialized"
                     /\ file'[i].buffer_size = file[i].buffer_size
<1>1. ASSUME OpenInv, [Next]_vars PROVE Kept
  <2>1. CASE UNCHANGED file
    BY <2>1
  <2>2. ASSUME NEW p \in Openers, ShmOpenNew(p) PROVE Kept
    <3>1. file[created + 1].init_state = "clean"
      BY <1>1, <2>2, OpenAssumption DEF ShmOpenNew, OpenInv, TypeOK, NotCreatedYet, Inodes, New
    <3> QED BY <1>1, <2>2, <3>1 DEF ShmOpenNew, OpenInv, TypeOK
  <2>3. ASSUME NEW p \in Openers, Ftruncate(p) PROVE Kept
    BY <1>1, <2>3 DEF Ftruncate, OpenInv, TypeOK
  <2>4. ASSUME NEW p \in Openers, IsInitNeeded(p) PROVE Kept
    BY <1>1, <2>4 DEF IsInitNeeded, OpenInv, TypeOK
  <2>5. ASSUME NEW p \in Openers, InitData(p) \/ HeaderInitDone(p) PROVE Kept
    <3>1. file[fd[p]].init_state = "initializing"
      BY <1>1, <2>5 DEF InitData, HeaderInitDone, OpenInv, OneInitializer
    <3> QED BY <1>1, <2>5, <3>1 DEF InitData, HeaderInitDone, OpenInv, TypeOK
  <2>6. ASSUME NEW p \in Openers,
               \/ \E s \in scenario.requests : Open(p, s)
               \/ Stat(p) \/ ShmOpenExisting(p) \/ ShmOpenFails(p) \/ Fstat(p) \/ Mmap(p)
               \/ AlreadyInitialized(p) \/ WaitForInit(p) \/ AlreadyOpened(p)
               \/ Close(p) \/ Crash(p)
        PROVE  UNCHANGED file
    BY <2>6 DEF Open, Stat, ShmOpenExisting, ShmOpenFails, Fstat, Mmap, AlreadyInitialized,
                WaitForInit, AlreadyOpened, Close, Crash, vars
  <2>7. Remove \/ UNCHANGED vars => UNCHANGED file
    BY DEF Remove, vars
  <2>8. scenario.openers \subseteq Openers
    BY <1>1, ScenarioTypes DEF OpenInv, TypeOK
  <2> HIDE DEF Kept
  <2> QED BY <1>1, <2>1, <2>2, <2>3, <2>4, <2>5, <2>6, <2>7, <2>8 DEF Next, Step
<1>2. OpenInv /\ [Next]_vars => [Kept]_vars
  BY <1>1
<1> QED BY <1>2, OpenInit, OpenNext, PTL DEF Spec, InitializedForGood

-----------------------------------------------------------------------------
(* With one size for all.                                                  *)

Mapped == {"mmap", "check", "init", "done", "opened"}

(* T::Init has set up the object with the size S.                          *)
Ready(S, f) == f.locks /\ f.buffer_size = S - HeaderSize

(* Every open works with the size S from its beginning to its end, and what*)
(* is initialised was initialised for S.                                   *)
SizedOpen(S, p) ==
  /\ pc[p] # "stat"
  /\ pc[p] # "idle" => want[p] = S
  /\ pc[p] \in Mapped => size[p] = S /\ file[fd[p]].st_size = S
  /\ pc[p] = "done" => Ready(S, file[fd[p]])

SizedFile(S, f) ==
  /\ f.st_size \in {0, S}
  /\ f.init_state = "initialized" => Ready(S, f)

SizeInv(S) ==
  /\ \A p \in Openers : SizedOpen(S, p)
  /\ \A i \in Inodes : SizedFile(S, file[i])

(* What a step may do to an object: only towards the size S.               *)
TowardsSize(S, f, g) ==
  /\ g.st_size = f.st_size \/ g.st_size = S
  /\ Ready(S, f) => Ready(S, g)
  /\ g.init_state = "initialized" => f.init_state = "initialized" \/ Ready(S, g)

LEMMA SizeStep ==
  ASSUME NEW S \in Nat \ {0}, NEW p \in Openers, OpenInv, SizeInv(S),
         \A q \in Openers \ {p} :
           /\ pc'[q] = pc[q] /\ want'[q] = want[q]
           /\ size'[q] = size[q] /\ fd'[q] = fd[q],
         \A i \in Inodes : TowardsSize(S, file[i], file'[i]),
         SizedOpen(S, p)'
  PROVE  SizeInv(S)'
<1>1. ASSUME NEW i \in Inodes PROVE SizedFile(S, file'[i])
  BY DEF SizeInv, SizedFile, TowardsSize
<1>2. ASSUME NEW q \in Openers, q # p PROVE SizedOpen(S, q)'
  <2>1. pc[q] \in Mapped => fd[q] \in Inodes
    <3>1. /\ pc[q] \in Mapped => fd[q] # 0
          /\ fd[q] \in 0 .. created /\ created \in 0 .. MaxFiles
      BY DEF OpenInv, TypeOK, FilesHeld, HasFile, Mapped, None
    <3> QED BY <3>1, OpenAssumption DEF Inodes
  <2>2. SizedOpen(S, q) /\ (pc[q] \in Mapped => TowardsSize(S, file[fd[q]], file'[fd[q]]))
    BY <2>1 DEF SizeInv
  <2> QED BY <1>2, <2>2 DEF SizedOpen, TowardsSize, Mapped
<1> QED BY <1>1, <1>2 DEF SizeInv

LEMMA SizeNext ==
  ASSUME NEW S \in Nat \ {0}, scenario.requests = {S}, OpenInv, SizeInv(S), [Next]_vars
  PROVE  SizeInv(S)'
<1> USE DEF Goto, Fail, None
<1>1. CASE UNCHANGED vars
  BY <1>1 DEF vars, SizeInv, SizedOpen, SizedFile
<1>2. CASE Remove
  BY <1>2 DEF Remove, SizeInv, SizedOpen, SizedFile
<1>3. S >= HeaderSize /\ BufferSizeOf(S) = S - HeaderSize
  BY OpenAssumption, ScenarioTypes DEF BufferSizeOf, OpenInv, TypeOK
<1>4. ASSUME NEW p \in Openers,
             \/ \E s \in scenario.requests : Open(p, s)
             \/ Step(p) \/ AlreadyOpened(p) \/ Close(p) \/ Crash(p)
      PROVE  SizeInv(S)'
  <2>1. /\ pc[p] \in HasFile => fd[p] \in Inodes /\ fd[p] <= created
        /\ file \in [Inodes -> [st_size : 0 .. SizeModulus - 1,
                                init_state : {"clean", "initializing", "initialized"},
                                locks : BOOLEAN,
                                buffer_size : 0 .. SizeModulus - 1]]
        /\ created \in Nat
    <3>1. /\ pc[p] \in HasFile => fd[p] # 0
          /\ fd[p] \in 0 .. created /\ created \in 0 .. MaxFiles
      BY DEF OpenInv, TypeOK, FilesHeld
    <3>2. pc[p] \in HasFile => fd[p] \in Inodes /\ fd[p] <= created
      BY <3>1, OpenAssumption DEF Inodes
    <3> QED BY <3>1, <3>2, OpenAssumption DEF OpenInv, TypeOK
  <2>2. /\ \A q \in Openers : pc'[q] = IF q = p THEN pc'[p] ELSE pc[q]
        /\ \A q \in Openers \ {p} : want'[q] = want[q] /\ size'[q] = size[q] /\ fd'[q] = fd[q]
    <3> USE DEF OpenInv, TypeOK
    <3>1. CASE (\E s \in scenario.requests : Open(p, s)) \/ Stat(p)
      BY <3>1 DEF Open, Stat
    <3>2. CASE ShmOpenExisting(p) \/ ShmOpenNew(p) \/ ShmOpenFails(p)
      BY <3>2 DEF ShmOpenExisting, ShmOpenNew, ShmOpenFails
    <3>3. CASE Fstat(p)
      BY <3>3 DEF Fstat
    <3>4. CASE Ftruncate(p) \/ Mmap(p)
      BY <3>4 DEF Ftruncate, Mmap
    <3>5. CASE IsInitNeeded(p) \/ AlreadyInitialized(p) \/ WaitForInit(p)
      BY <3>5 DEF IsInitNeeded, AlreadyInitialized, WaitForInit, vars
    <3>6. CASE InitData(p) \/ HeaderInitDone(p)
      BY <3>6 DEF InitData, HeaderInitDone
    <3>7. CASE AlreadyOpened(p) \/ Close(p) \/ Crash(p)
      BY <3>7 DEF AlreadyOpened, Close, Crash, vars
    <3> QED BY <1>4, <3>1, <3>2, <3>3, <3>4, <3>5, <3>6, <3>7 DEF Step
  <2>3. SizedOpen(S, p) /\ \A i \in Inodes : SizedFile(S, file[i])
    BY DEF SizeInv
(* The steps that leave every object alone.                                *)
  <2>4. ASSUME UNCHANGED file PROVE \A i \in Inodes : TowardsSize(S, file[i], file'[i])
    BY <2>4, <2>3 DEF TowardsSize, SizedFile
  <2>5. (\A i \in Inodes : TowardsSize(S, file[i], file'[i])) /\ SizedOpen(S, p)'
    <3> USE DEF SizedOpen, Mapped, HasFile
    <3>1. CASE \E s \in scenario.requests : Open(p, s)
      BY <2>1, <2>3, <2>4, <3>1 DEF Open, OpenInv, TypeOK
    <3>2. CASE Stat(p)
      BY <2>3, <3>2 DEF Stat
    <3>3. CASE ShmOpenExisting(p) \/ ShmOpenFails(p)
      BY <2>3, <2>4, <3>3 DEF ShmOpenExisting, ShmOpenFails, OpenInv, TypeOK
    <3>4. CASE ShmOpenNew(p)
      <4>1. \A i \in Inodes : file'[i] = file[i]
        BY <2>1, <3>4 DEF ShmOpenNew, OpenInv, NotCreatedYet, Inodes
      <4> QED BY <2>3, <3>4, <4>1 DEF ShmOpenNew, OpenInv, TypeOK, TowardsSize, SizedFile
    <3>5. CASE Fstat(p)
      BY <2>1, <2>3, <2>4, <3>5 DEF Fstat, OpenInv, TypeOK, SizedFile
    <3>6. CASE Ftruncate(p)
      BY <2>1, <2>3, <3>6 DEF Ftruncate, OpenInv, TypeOK, TowardsSize, SizedFile, Ready
    <3>7. CASE Mmap(p)
      BY <2>3, <2>4, <3>7 DEF Mmap, OpenInv, TypeOK
    <3>8. CASE IsInitNeeded(p)
      BY <2>1, <2>3, <3>8 DEF IsInitNeeded, OpenInv, TypeOK, TowardsSize, SizedFile, Ready
    <3>9. CASE AlreadyInitialized(p) \/ WaitForInit(p)
      BY <2>1, <2>3, <2>4, <3>9 DEF AlreadyInitialized, WaitForInit, vars, OpenInv, TypeOK
    <3>10. CASE InitData(p)
      BY <1>3, <2>1, <2>3, <3>10 DEF InitData, OpenInv, TypeOK, TowardsSize, SizedFile, Ready
    <3>11. CASE HeaderInitDone(p)
      BY <2>1, <2>3, <3>11 DEF HeaderInitDone, OpenInv, TypeOK, TowardsSize, SizedFile, Ready
    <3>12. CASE AlreadyOpened(p) \/ Close(p) \/ Crash(p)
      BY <2>1, <2>3, <2>4, <3>12 DEF AlreadyOpened, Close, Crash, vars, OpenInv, TypeOK
    <3> QED BY <1>4, <3>1, <3>2, <3>3, <3>4, <3>5, <3>6, <3>7, <3>8, <3>9, <3>10, <3>11, <3>12
            DEF Step
  <2> QED BY <2>2, <2>5, SizeStep
<1>5. scenario.openers \subseteq Openers
  BY ScenarioTypes DEF OpenInv, TypeOK
<1> QED BY <1>1, <1>2, <1>4, <1>5 DEF Next

AllSized == \A S \in Nat \ {0} : scenario.requests = {S} => SizeInv(S)

LEMMA SizeAlways == Spec => [](OpenInv /\ AllSized)
<1>1. Init => AllSized
  BY OpenAssumption DEF Init, AllSized, SizeInv, SizedOpen, SizedFile, New, Mapped
<1>2. OpenInv /\ AllSized /\ [Next]_vars => AllSized'
  <2> SUFFICES ASSUME OpenInv, AllSized, [Next]_vars,
                      NEW S \in Nat \ {0}, scenario'.requests = {S}
               PROVE  SizeInv(S)'
    BY DEF AllSized
  <2>1. scenario' = scenario
    BY DEF Next, vars
  <2> QED BY <2>1, SizeNext DEF AllSized
<1> QED BY OpenInit, OpenNext, <1>1, <1>2, PTL DEF Spec

LEMMA OneSize ==
  ASSUME OpenInv, OneRequest
  PROVE  \E S \in Nat \ {0} : scenario.requests = {S}
<1>1. scenario \in [openers : SUBSET Openers, requests : SUBSET Nat, crashes : Nat]
  BY OpenAssumption DEF OpenInv, TypeOK
<1> QED BY <1>1 DEF OneRequest

(* With one size for all, whoever is past Open finds the lock and the ring *)
(* set up, for the size that it has mapped.                                *)
THEOREM AllFindItReady == Spec => []OpenedReady
<1>1. OpenInv /\ AllSized => OpenedReady
  <2> SUFFICES ASSUME OpenInv, AllSized, OneRequest, NEW p \in Openers, pc[p] = "opened"
               PROVE  /\ file[fd[p]].init_state = "initialized"
                      /\ file[fd[p]].locks
                      /\ file[fd[p]].buffer_size = size[p] - HeaderSize
    BY DEF OpenedReady, FoundReady
  <2>1. PICK S \in Nat \ {0} : SizeInv(S)
    BY OneSize DEF AllSized
  <2>2. fd[p] # 0 /\ fd[p] \in 0 .. created /\ created \in 0 .. MaxFiles
    BY DEF OpenInv, TypeOK, FilesHeld, HasFile, None
  <2>3. fd[p] \in Inodes
    BY <2>2, OpenAssumption DEF Inodes
  <2> QED BY <2>1, <2>3 DEF OpenInv, FilesHeld, SizeInv, SizedOpen, SizedFile, Ready, Mapped
<1> QED BY <1>1, SizeAlways, PTL

(* With one size for all, nobody maps more than the file holds, at no point*)
(* of anybody's Open and wherever other processes die.                     *)
THEOREM MappingStaysBacked == Spec => []MappingBacked
<1>1. OpenInv /\ AllSized => MappingBacked
  <2> SUFFICES ASSUME OpenInv, AllSized, OneRequest PROVE MappingBacked
    BY DEF MappingBacked
  <2>1. PICK S \in Nat \ {0} : SizeInv(S)
    BY OneSize DEF AllSized
  <2> QED BY <2>1 DEF SizeInv, SizedOpen, Mapped, MappingBacked
<1> QED BY <1>1, SizeAlways, PTL

=============================================================================
