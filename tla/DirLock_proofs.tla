---------------------------- MODULE DirLock_proofs ----------------------------
(***************************************************************************)
(* Theorems about DirLock for any number of threads and processes.         *)
(***************************************************************************)
EXTENDS DirLock, TLAPS

(* The inductive invariant: the file lock belongs to exactly the thread that *)
(* is in a stage behind it, and a registry entry to exactly one thread of    *)
(* the process.                                                              *)
LockHeld == \A t \in Threads : pc[t] \in Locked <=> flock = t

EntryHeld ==
  /\ \A t \in Threads : pc[t] \in Registered => ProcOf[t] \in registry
  /\ \A p \in registry : \E t \in Threads : ProcOf[t] = p /\ pc[t] \in Registered
  /\ \A t, u \in Threads :
       pc[t] \in Registered /\ pc[u] \in Registered /\ ProcOf[t] = ProcOf[u] => t = u

Inv == TypeOK /\ LockHeld /\ EntryHeld

\* A step of one thread keeps the invariant.
LEMMA ThreadStep ==
  ASSUME Inv, NEW t \in Threads, Ask(t) \/ StopLux(t) \/ Proceed(t)
  PROVE  Inv'
<1> USE ProcOfAssumption, NoThreadAssumption
    DEF Inv, TypeOK, LockHeld, EntryHeld, Goto, Registered, Locked
<1>1. CASE Ask(t) \/ StopLux(t) \/ StartLux(t) \/ RejectSame(t)
  BY <1>1 DEF Ask, StopLux, StartLux, RejectSame
<1>2. CASE Register(t)
  BY <1>2 DEF Register
<1>3. CASE OpenFile(t)
  BY <1>3 DEF OpenFile
<1>4. CASE OpenFileFails(t)
  BY <1>4 DEF OpenFileFails
<1>5. CASE TryLock(t)
  BY <1>5 DEF TryLock
<1>6. CASE RejectOther(t)
  BY <1>6 DEF RejectOther
<1>7. CASE WritePid(t)
  BY <1>7 DEF WritePid
<1>8. CASE WritePidFails(t) \/ StartLuxFails(t)
  BY <1>8 DEF WritePidFails, StartLuxFails
<1>9. CASE CloseFile(t) \/ Unlock(t)
  BY <1>9 DEF CloseFile, Unlock
<1>10. CASE Unregister(t)
  BY <1>10 DEF Unregister
<1> QED BY <1>1, <1>2, <1>3, <1>4, <1>5, <1>6, <1>7, <1>8, <1>9, <1>10 DEF Proceed

\* So does the death of a process.
LEMMA CrashStep ==
  ASSUME Inv, NEW p \in Processes, Crash(p)
  PROVE  Inv'
<1> USE ProcOfAssumption, NoThreadAssumption DEF Inv, TypeOK, Registered, Locked, Crash
<1>1. TypeOK'
  OBVIOUS
<1>2. LockHeld'
  BY DEF LockHeld
<1>3. EntryHeld'
  BY DEF EntryHeld
<1> QED BY <1>1, <1>2, <1>3

\* The invariant holds in every reachable state.
THEOREM InvHolds == Spec => []Inv
<1>1. Init => Inv
  BY NoThreadAssumption DEF Init, Inv, TypeOK, LockHeld, EntryHeld, Registered, Locked
<1>2. Inv /\ [Next]_vars => Inv'
  <2> SUFFICES ASSUME Inv, [Next]_vars
               PROVE  Inv'
    OBVIOUS
  <2>1. CASE Next
    BY <2>1, ThreadStep, CrashStep DEF Next
  <2>2. CASE UNCHANGED vars
    BY <2>2 DEF vars, Inv, TypeOK, LockHeld, EntryHeld
  <2> QED BY <2>1, <2>2
<1> QED BY <1>1, <1>2, PTL DEF Spec

\* At most one Lux server ever uses the directory (LuxRedisStore::open and drop).
THEOREM OneLuxHolds == Spec => []OneLux
<1>1. Inv => OneLux
  BY DEF Inv, LockHeld, OneLux, Using, Locked
<1> QED BY <1>1, InvHolds, PTL

\* No error path and no crash leaks the registry entry or the file lock.
THEOREM NoLeakHolds == Spec => []NoLeak
<1>1. Inv => NoLeak
  BY DEF Inv, TypeOK, LockHeld, EntryHeld, NoLeak
<1> QED BY <1>1, InvHolds, PTL

\* An open is refused only while another thread is on its way with the directory.
THEOREM RefusalJustifiedHolds == Spec => RefusalJustified
<1>1. ASSUME Inv, NEW t \in Threads, RejectSame(t) \/ RejectOther(t)
      PROVE  \E u \in Threads \ {t} : pc[u] \notin {"idle", "asking"}
  <2>1. CASE RejectSame(t)
    BY <1>1, <2>1 DEF RejectSame, Goto, Inv, EntryHeld, Registered
  <2>2. CASE RejectOther(t)
    BY <1>1, <2>2 DEF RejectOther, Goto, Inv, TypeOK, LockHeld, Locked
  <2> QED BY <1>1, <2>1, <2>2
<1>2. Inv => [\A t \in Threads : RejectSame(t) \/ RejectOther(t)
               => \E u \in Threads \ {t} : pc[u] \notin {"idle", "asking"}]_vars
  BY <1>1
<1> QED BY <1>2, InvHolds, PTL DEF RefusalJustified

\* While a server runs, nobody else's pid is in the lock file: only the holder of
\* the file lock writes one (acquire_file_lock).
THEOREM PidFileHolds == Spec => []PidFileNotWrong
<1>1. Init => PidFileNotWrong
  BY DEF Init, PidFileNotWrong
<1>2. Inv /\ PidFileNotWrong /\ [Next]_vars => PidFileNotWrong'
  <2> SUFFICES ASSUME Inv, PidFileNotWrong, [Next]_vars, NEW t \in Threads,
                      pc'[t] \in {"starting", "running", "stopping"}
               PROVE  pidFile' \in {ProcOf[t], NoPid}
    BY DEF PidFileNotWrong, Using
  <2>1. ASSUME NEW u \in Threads, WritePid(u)
        PROVE  pidFile' = ProcOf[t]
    <3>1. t = u
      BY <2>1 DEF WritePid, Goto, Inv, TypeOK, LockHeld, Locked
    <3> QED BY <2>1, <3>1 DEF WritePid
  <2>2. ASSUME NEW u \in Threads, OpenFile(u)
        PROVE  pidFile' = NoPid
    BY <2>2 DEF OpenFile
  <2>3. ASSUME NEW u \in Threads, ~WritePid(u), ~OpenFile(u),
               Ask(u) \/ StopLux(u) \/ Proceed(u)
        PROVE  pidFile' = pidFile /\ pc[t] \in Using
    BY <2>3 DEF Ask, StopLux, Proceed, Register, RejectSame, OpenFileFails, TryLock,
         RejectOther, WritePidFails, StartLux, StartLuxFails, CloseFile, Unlock,
         Unregister, Goto, Inv, TypeOK, Using
  <2>4. ASSUME NEW p \in Processes, Crash(p)
        PROVE  pidFile' = pidFile /\ pc[t] \in Using
    BY <2>4 DEF Crash, Using
  <2>5. CASE UNCHANGED vars
    BY <2>5 DEF vars, PidFileNotWrong, Using
  <2> QED BY <2>1, <2>2, <2>3, <2>4, <2>5 DEF Next, PidFileNotWrong
<1> QED BY <1>1, <1>2, InvHolds, PTL DEF Spec

-----------------------------------------------------------------------------
(* The refinement of DirOwner.                                             *)

\* User is the one thread in a stage that uses the directory.
LEMMA UserIs ==
  ASSUME Inv
  PROVE  /\ \A t \in Threads : pc[t] \in Using => User = t
         /\ (\A t \in Threads : pc[t] \notin Using) => User = NoThread
         /\ User \in Threads => pc[User] \in Using
<1>1. OneLux
  BY DEF Inv, LockHeld, OneLux, Using, Locked
<1>2. ASSUME NEW t \in Threads, pc[t] \in Using
      PROVE  User = t
  <2>1. (CHOOSE u \in Threads : pc[u] \in Using) = t
    BY <1>1, <1>2 DEF OneLux
  <2> QED BY <1>2, <2>1 DEF User
<1>3. ASSUME \A t \in Threads : pc[t] \notin Using
      PROVE  User = NoThread
  BY <1>3 DEF User
<1>4. User \in Threads => pc[User] \in Using
  BY <1>2, <1>3, NoThreadAssumption
<1> QED BY <1>2, <1>3, <1>4

\* Every step is a step of the single owner or leaves it alone.
LEMMA StepRefines ==
  ASSUME Inv, Inv', [Next]_vars
  PROVE  [Owner!Next]_User
<1>1. /\ \A t \in Threads : pc'[t] \in Using => User' = t
      /\ (\A t \in Threads : pc'[t] \notin Using) => User' = NoThread
  <2>1. OneLux'
    BY DEF Inv, LockHeld, OneLux, Using, Locked
  <2>2. ASSUME NEW t \in Threads, pc'[t] \in Using
        PROVE  User' = t
    <3>1. (CHOOSE u \in Threads : pc'[u] \in Using) = t
      BY <2>1, <2>2 DEF OneLux
    <3> QED BY <2>2, <3>1 DEF User
  <2>3. ASSUME \A t \in Threads : pc'[t] \notin Using
        PROVE  User' = NoThread
    BY <2>3 DEF User
  <2> QED BY <2>2, <2>3
<1>2. ASSUME NEW t \in Threads, WritePid(t)
      PROVE  User = NoThread /\ User' = t
  <2>1. \A u \in Threads : pc[u] \notin Using
    BY <1>2 DEF WritePid, Goto, Inv, TypeOK, LockHeld, Locked, Using
  <2>2. pc'[t] \in Using
    BY <1>2 DEF WritePid, Goto, Inv, TypeOK, Using
  <2> QED BY <1>1, <2>1, <2>2, UserIs
<1>3. ASSUME NEW t \in Threads, StartLuxFails(t) \/ Unlock(t)
      PROVE  User = t /\ User' = NoThread
  <2>1. pc[t] \in Using
    BY <1>3 DEF StartLuxFails, Unlock, Goto, Using
  <2>2. \A u \in Threads : pc'[u] \notin Using
    BY <1>3, <2>1 DEF StartLuxFails, Unlock, Goto, Inv, TypeOK, LockHeld, Locked, Using
  <2> QED BY <1>1, <2>1, <2>2, UserIs
<1>4. ASSUME \A t \in Threads : pc'[t] \in Using <=> pc[t] \in Using
      PROVE  User' = User
  BY <1>1, <1>4, UserIs
<1>5. ASSUME NEW p \in Processes, Crash(p)
      PROVE  User' = User \/ (User # NoThread /\ User' = NoThread)
  <2>1. CASE \E t \in Threads : pc[t] \in Using /\ ProcOf[t] = p
    <3>1. PICK t \in Threads : pc[t] \in Using /\ ProcOf[t] = p
      BY <2>1
    <3>2. \A u \in Threads : pc[u] \in Using => u = t
      BY <3>1 DEF Inv, LockHeld, Using, Locked
    <3>3. \A u \in Threads : pc'[u] \notin Using
      BY <1>5, <3>1, <3>2 DEF Crash, Using
    <3> QED BY <1>1, <3>1, <3>3, UserIs, NoThreadAssumption
  <2>2. CASE \A t \in Threads : pc[t] \in Using => ProcOf[t] # p
    <3>1. \A t \in Threads : pc'[t] \in Using <=> pc[t] \in Using
      BY <1>5, <2>2 DEF Crash, Using
    <3> QED BY <1>4, <3>1
  <2> QED BY <2>1, <2>2
<1>6. ASSUME NEW t \in Threads,
             \/ Ask(t) \/ StopLux(t) \/ Register(t) \/ RejectSame(t) \/ OpenFile(t)
             \/ OpenFileFails(t) \/ TryLock(t) \/ RejectOther(t) \/ WritePidFails(t)
             \/ StartLux(t) \/ CloseFile(t) \/ Unregister(t)
      PROVE  \A u \in Threads : pc'[u] \in Using <=> pc[u] \in Using
  BY <1>6 DEF Ask, StopLux, Register, RejectSame, OpenFile, OpenFileFails, TryLock,
       RejectOther, WritePidFails, StartLux, CloseFile, Unregister, Goto, Inv, TypeOK,
       Using
<1>7. CASE UNCHANGED vars
  BY <1>4, <1>7 DEF vars
<1>8. CASE Next
  <2>1. ASSUME NEW t \in Threads, Ask(t) \/ StopLux(t) \/ Proceed(t)
        PROVE  [Owner!Next]_User
    BY <1>2, <1>3, <1>4, <1>6, <2>1, NoThreadAssumption
       DEF Proceed, Owner!Next, Owner!Open, Owner!Close
  <2>2. ASSUME NEW p \in Processes, Crash(p)
        PROVE  [Owner!Next]_User
    BY <1>5, <2>2 DEF Owner!Next, Owner!Close
  <2> QED BY <1>8, <2>1, <2>2 DEF Next
<1> QED BY <1>7, <1>8

\* The two locks implement a single owner of the directory.
THEOREM Refinement == Spec => ImplementsOwner
<1>1. Init => Owner!Init
  BY DEF Init, Owner!Init, User, Using
<1>2. Inv /\ Inv' /\ [Next]_vars => [Owner!Next]_User
  BY StepRefines
<1> QED BY <1>1, <1>2, InvHolds, PTL DEF Spec, ImplementsOwner, Owner!Spec
=============================================================================
