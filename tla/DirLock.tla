------------------------------- MODULE DirLock -------------------------------
(***************************************************************************)
(* Opening and closing one data directory (LuxRedisStore::open,            *)
(* acquire_file_lock, Drop of LuxRedisStore and of FileLockGuard) by       *)
(* threads of several processes.                                           *)
(*                                                                         *)
(* Two locks guard the directory: a registry of directories inside each    *)
(* process (locked_data_dirs) and an advisory lock on the file             *)
(* .my-sqweel.lock, which belongs to an open file, not to a process.       *)
(* Every system call may fail and a process may die at any step.           *)
(***************************************************************************)
CONSTANTS
  Threads,    \* threads that open and drop a store on the directory
  Processes,
  ProcOf,     \* the process of a thread
  NoThread,   \* the file is not locked
  NoPid       \* the lock file is empty

ASSUME ProcOfAssumption == ProcOf \in [Threads -> Processes]
ASSUME NoThreadAssumption == NoThread \notin Threads
ASSUME NoPidAssumption == NoPid \notin Processes

VARIABLES
  pc,         \* where each thread is
  registry,   \* processes whose registry holds the directory
  flock,      \* the thread whose open file holds the advisory lock
  pidFile     \* the process the lock file names

vars == <<pc, registry, flock, pidFile>>

(* "failed" is the way out of an open that got the file lock: the registry  *)
(* entry is gone, the file is not closed yet.                               *)
Registered == {"opening", "locking", "writing", "starting", "running", "stopping",
               "unlocked"}
Locked == {"writing", "starting", "running", "stopping", "failed"}
Using == {"starting", "running", "stopping"}  \* a Lux server may use the files

TypeOK ==
  /\ pc \in [Threads -> {"idle", "asking", "failed"} \cup Registered]
  /\ registry \subseteq Processes
  /\ flock \in Threads \cup {NoThread}
  /\ pidFile \in Processes \cup {NoPid}

Init ==
  /\ pc = [t \in Threads |-> "idle"]
  /\ registry = {} /\ flock = NoThread /\ pidFile = NoPid

Goto(t, from, to) == pc[t] = from /\ pc' = [pc EXCEPT ![t] = to]

-----------------------------------------------------------------------------
(* acquire_file_lock                                                       *)

Ask(t) == Goto(t, "idle", "asking") /\ UNCHANGED <<registry, flock, pidFile>>

Register(t) ==
  /\ Goto(t, "asking", "opening") /\ ProcOf[t] \notin registry
  /\ registry' = registry \cup {ProcOf[t]}
  /\ UNCHANGED <<flock, pidFile>>

\* "data directory is already open by this process"
RejectSame(t) ==
  /\ Goto(t, "asking", "idle") /\ ProcOf[t] \in registry
  /\ UNCHANGED <<registry, flock, pidFile>>

\* Mutant: the pid is written when the file is opened.
OpenFileWritesPid(t) ==
  /\ Goto(t, "opening", "locking") /\ pidFile' = ProcOf[t]
  /\ UNCHANGED <<registry, flock>>

\* The file is opened with truncate before the lock is tried.
OpenFile(t) ==
  /\ Goto(t, "opening", "locking") /\ pidFile' = NoPid
  /\ UNCHANGED <<registry, flock>>

\* with_cleanup: the registry entry is removed when the open fails.
OpenFileFails(t) ==
  /\ Goto(t, "opening", "idle") /\ registry' = registry \ {ProcOf[t]}
  /\ UNCHANGED <<flock, pidFile>>

\* Mutant: the lock's result is not looked at.
TryLockUnchecked(t) ==
  /\ Goto(t, "locking", "writing") /\ flock' = t
  /\ UNCHANGED <<registry, pidFile>>

TryLock(t) ==
  /\ Goto(t, "locking", "writing") /\ flock = NoThread /\ flock' = t
  /\ UNCHANGED <<registry, pidFile>>

\* Mutant: the registry entry stays when the lock is refused.
RejectOtherLeaks(t) ==
  /\ Goto(t, "locking", "idle") /\ flock # NoThread
  /\ UNCHANGED <<registry, flock, pidFile>>

\* Mutant: the lock is waited for.
RejectOtherNever(t) == FALSE

\* "data directory is already open"
RejectOther(t) ==
  /\ Goto(t, "locking", "idle") /\ flock # NoThread
  /\ registry' = registry \ {ProcOf[t]}
  /\ UNCHANGED <<flock, pidFile>>

WritePid(t) ==
  /\ Goto(t, "writing", "starting") /\ pidFile' = ProcOf[t]
  /\ UNCHANGED <<registry, flock>>

WritePidFails(t) ==
  /\ Goto(t, "writing", "failed") /\ registry' = registry \ {ProcOf[t]}
  /\ UNCHANGED <<flock, pidFile>>

-----------------------------------------------------------------------------
(* The rest of LuxRedisStore::open, and the drops                          *)

StartLux(t) == Goto(t, "starting", "running") /\ UNCHANGED <<registry, flock, pidFile>>

\* Mutant: the guard's drop does not clear the registry.
StartLuxFailsLeaks(t) ==
  /\ Goto(t, "starting", "failed") /\ UNCHANGED <<registry, flock, pidFile>>

\* run_with_config fails: the guard is dropped, registry entry first.
StartLuxFails(t) ==
  /\ Goto(t, "starting", "failed") /\ registry' = registry \ {ProcOf[t]}
  /\ UNCHANGED <<flock, pidFile>>

\* The guard's file is closed, which gives the lock back.
CloseFile(t) ==
  /\ Goto(t, "failed", "idle") /\ flock' = NoThread
  /\ UNCHANGED <<registry, pidFile>>

\* Mutant: the file is unlocked when the shutdown begins.
StopLuxUnlocks(t) ==
  /\ Goto(t, "running", "stopping") /\ flock' = NoThread
  /\ UNCHANGED <<registry, pidFile>>

\* Drop of the store: SAVE, then the server is shut down and waited for.
StopLux(t) == Goto(t, "running", "stopping") /\ UNCHANGED <<registry, flock, pidFile>>

Unlock(t) ==
  /\ Goto(t, "stopping", "unlocked") /\ flock' = NoThread
  /\ UNCHANGED <<registry, pidFile>>

\* Drop of the guard.
Unregister(t) ==
  /\ Goto(t, "unlocked", "idle") /\ registry' = registry \ {ProcOf[t]}
  /\ UNCHANGED <<flock, pidFile>>

\* The process dies; the system closes its files, the lock file stays.
Crash(p) ==
  /\ pc' = [t \in Threads |-> IF ProcOf[t] = p THEN "idle" ELSE pc[t]]
  /\ registry' = registry \ {p}
  /\ flock' = IF flock # NoThread /\ ProcOf[flock] = p THEN NoThread ELSE flock
  /\ UNCHANGED pidFile

\* Steps a thread takes once it has begun to open or to drop.
Proceed(t) ==
  \/ Register(t) \/ RejectSame(t)
  \/ OpenFile(t) \/ OpenFileFails(t) \/ TryLock(t) \/ RejectOther(t)
  \/ WritePid(t) \/ WritePidFails(t) \/ StartLux(t) \/ StartLuxFails(t)
  \/ CloseFile(t) \/ Unlock(t) \/ Unregister(t)

Next ==
  \/ \E t \in Threads : Ask(t) \/ StopLux(t) \/ Proceed(t)
  \/ \E p \in Processes : Crash(p)

Spec == Init /\ [][Next]_vars

\* No call here waits for another thread's progress (try_lock, not lock), so a
\* thread that has begun goes on.
FairSpec == Spec /\ \A t \in Threads : WF_vars(Proceed(t))

-----------------------------------------------------------------------------
(* Properties                                                              *)

\* At most one Lux server uses the directory, across threads and processes,
\* from its start to the end of its shutdown.
OneLux == \A t, u \in Threads : pc[t] \in Using /\ pc[u] \in Using => t = u

\* Neither lock outlives its holder on any error path: a held registry entry or
\* file lock always belongs to a thread that is still on its way.
NoLeak ==
  /\ \A p \in registry : \E t \in Threads : ProcOf[t] = p /\ pc[t] \in Registered
  /\ flock # NoThread => pc[flock] \in Locked

\* While a server runs, the lock file names its process or is empty (another
\* opener has truncated it); it never names anyone else.
PidFileNotWrong ==
  \A t \in Threads : pc[t] \in Using => pidFile \in {ProcOf[t], NoPid}

\* An open is refused only while another thread is opening, using or closing
\* the directory: a dropped store or a crash never blocks the next open.
RefusalJustified ==
  [][\A t \in Threads : RejectSame(t) \/ RejectOther(t)
       => \E u \in Threads \ {t} : pc[u] \notin {"idle", "asking"}]_vars

\* Opening and dropping always come to an end.
Settles == \A t \in Threads : []<>(pc[t] \in {"idle", "running"})

\* The thread that uses the directory, for the refinement of DirOwner.
User == IF \E t \in Threads : pc[t] \in Using
          THEN CHOOSE t \in Threads : pc[t] \in Using
          ELSE NoThread

Owner == INSTANCE DirOwner WITH owner <- User

\* Every behaviour of the two locks is one of a single owner.
ImplementsOwner == Owner!Spec
=============================================================================
