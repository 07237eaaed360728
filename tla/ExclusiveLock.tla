----------------------------- MODULE ExclusiveLock -----------------------------
(***************************************************************************)
(* The lock between processes of packages/core/src/internal/               *)
(* exclusive-lock.ts, as withExclusiveLock retries it: a file under a      *)
(* name, hard-linked there from a staging file that already records its    *)
(* owner.  A lock whose owner is provably dead is replaced under a guard,  *)
(* which is a lock of the same kind under the next name, so a dead guard   *)
(* is replaced under a guard of its own, and so on to MAX_RECLAIM_DEPTH.   *)
(*                                                                         *)
(* Level 0 is the lock, level n + 1 the guard of level n.  A process is    *)
(* one attempt at a time; a crash is for good, and a restarted process is  *)
(* another process.  The verdict of diagnose() is exact for an owner that  *)
(* can be probed, and "not gone" for one that cannot (Unprovable: another  *)
(* machine, no process evidence).  An abort takes the path of a refusal.   *)
(***************************************************************************)
EXTENDS Naturals, FiniteSets

CONSTANTS
  Procs,        \* processes that want the lock
  Unprovable,   \* processes whose death cannot be proven
  Inodes,       \* the file system's inode numbers
  MaxDepth,     \* MAX_RECLAIM_DEPTH
  MaxCrashes,   \* bound: processes that die
  MaxFailures,  \* bound: publications whose staging name cannot be removed
  Reuse,        \* a freed inode number may be given out while somebody remembers it
  None

ASSUME LockAssumption ==
  /\ Unprovable \subseteq Procs
  /\ Inodes \subseteq Nat
  /\ MaxDepth \in Nat
  /\ MaxCrashes \in Nat
  /\ MaxFailures \in Nat
  /\ Reuse \in BOOLEAN
  /\ None \notin Inodes
  /\ None \notin Procs

VARIABLES
  alive,     \* the processes that run
  lockPc,    \* where each process is in its attempt
  level,     \* the name it is working on
  own,       \* the file it created for each level and holds open
  name,      \* the file under each name
  recorded,  \* the owner a file records
  staged,    \* the files that still have their staging name
  seen,      \* the file and the owner read under the guard
  failures

lockVars ==
  <<alive, lockPc, level, own, name, recorded, staged, seen, failures>>

Levels == 0..MaxDepth
Files == Inodes \cup {None}
NothingSeen == [file |-> None, by |-> None]

LockPCs ==
  {"idle", "stage", "link", "publish", "read", "reread", "judge", "compare",
   "remove", "sweep", "letgo", "held", "dead"}

LockTypeOK ==
  /\ alive \subseteq Procs
  /\ lockPc \in [Procs -> LockPCs]
  /\ level \in [Procs -> Levels]
  /\ own \in [Procs -> [Levels -> Files]]
  /\ name \in [Levels -> Files]
  /\ recorded \in [Inodes -> Procs \cup {None}]
  /\ staged \subseteq Inodes
  /\ seen \in [Procs -> [file : Files, by : Procs \cup {None}]]
  /\ failures \in 0..MaxFailures

LockInit ==
  /\ alive = Procs
  /\ lockPc = [p \in Procs |-> "idle"]
  /\ level = [p \in Procs |-> 0]
  /\ own = [p \in Procs |-> [n \in Levels |-> None]]
  /\ name = [n \in Levels |-> None]
  /\ recorded = [i \in Inodes |-> None]
  /\ staged = {}
  /\ seen = [p \in Procs |-> NothingSeen]
  /\ failures = 0

-------------------------------------------------------------------------------
\* An owner that is on this machine and whose recorded lifetime is over.
Gone(p) == p \in Procs \ alive /\ p \notin Unprovable

\* The process works under the guard of its level.
Guarded(p) == level[p] < MaxDepth /\ own[p][level[p] + 1] # None

\* No name, no staging name and no descriptor: the number may be given out.
Free(i) ==
  /\ i \notin staged
  /\ \A n \in Levels : name[n] # i /\ \A p \in Procs : own[p][n] # i
  /\ Reuse \/ \A p \in Procs : seen[p].file # i

Goes(p, here, there) ==
  lockPc[p] = here /\ lockPc' = [lockPc EXCEPT ![p] = there]

\* What follows the success of a level: the lock is held, or the guard is, and
\* the level below is read again under it.
Acquired(p) ==
  IF level[p] = 0
    THEN /\ lockPc' = [lockPc EXCEPT ![p] = "held"]
         /\ UNCHANGED level
    ELSE /\ lockPc' = [lockPc EXCEPT ![p] = "reread"]
         /\ level' = [level EXCEPT ![p] = @ - 1]

\* What follows a refusal: the guard is let go if there is one, and the whole
\* attempt is refused.
Refused(p) ==
  /\ lockPc' = [lockPc EXCEPT ![p] = IF Guarded(p) THEN "letgo" ELSE "idle"]
  /\ UNCHANGED level

-------------------------------------------------------------------------------
\* withExclusiveLock asks again.
Begin(p) ==
  /\ Goes(p, "idle", "stage")
  /\ level' = [level EXCEPT ![p] = 0]
  /\ UNCHANGED <<alive, own, name, recorded, staged, seen, failures>>

\* The owner is written to a staging file of its own.
Stage(p) ==
  /\ Goes(p, "stage", "link")
  /\ \E i \in Inodes :
       /\ Free(i)
       /\ \A j \in Inodes : Free(j) => i <= j
       /\ own' = [own EXCEPT ![p][level[p]] = i]
       /\ recorded' = [recorded EXCEPT ![i] = p]
       /\ staged' = staged \cup {i}
  /\ UNCHANGED <<alive, level, name, seen, failures>>

\* The hard link: one caller gets the name.
Link(p) ==
  /\ lockPc[p] = "link"
  /\ name[level[p]] = None
  /\ name' = [name EXCEPT ![level[p]] = own[p][level[p]]]
  /\ lockPc' = [lockPc EXCEPT ![p] = "publish"]
  /\ UNCHANGED <<alive, level, own, recorded, staged, seen, failures>>

\* EEXIST: the staging file is removed; a first attempt goes on to read the
\* owner, one under a guard is refused.
LinkRefused(p) ==
  /\ lockPc[p] = "link"
  /\ name[level[p]] # None
  /\ staged' = staged \ {own[p][level[p]]}
  /\ own' = [own EXCEPT ![p][level[p]] = None]
  /\ IF Guarded(p)
       THEN Refused(p)
       ELSE lockPc' = [lockPc EXCEPT ![p] = "read"] /\ UNCHANGED level
  /\ UNCHANGED <<alive, name, recorded, seen, failures>>

\* The staging name goes: the lock has one name and is held.
Publish(p) ==
  /\ lockPc[p] = "publish"
  /\ staged' = staged \ {own[p][level[p]]}
  /\ IF Guarded(p)
       THEN lockPc' = [lockPc EXCEPT ![p] = "letgo"] /\ UNCHANGED level
       ELSE Acquired(p)
  /\ UNCHANGED <<alive, own, name, recorded, seen, failures>>

\* The staging name cannot be removed: the lock is taken down, not held.
PublishFails(p) ==
  /\ lockPc[p] = "publish"
  /\ failures < MaxFailures
  /\ failures' = failures + 1
  /\ name' = [name EXCEPT ![level[p]] = IF @ = own[p][level[p]] THEN None ELSE @]
  /\ own' = [own EXCEPT ![p][level[p]] = None]
  /\ staged' \in {staged, staged \ {own[p][level[p]]}}
  /\ Refused(p)
  /\ UNCHANGED <<alive, recorded, seen>>

\* The first reading: only an owner provably gone leads on, to the guard.
Read_DeadGuardRefused(p) ==
  /\ lockPc[p] = "read"
  /\ LET file == name[level[p]] IN
     IF file # None /\ level[p] = 0 /\ Gone(recorded[file])
       THEN /\ lockPc' = [lockPc EXCEPT ![p] = "stage"]
            /\ level' = [level EXCEPT ![p] = @ + 1]
       ELSE Refused(p)
  /\ UNCHANGED <<alive, own, name, recorded, staged, seen, failures>>
Read(p) ==
  /\ lockPc[p] = "read"
  /\ LET file == name[level[p]] IN
     IF file # None /\ level[p] < MaxDepth /\ Gone(recorded[file])
       THEN /\ lockPc' = [lockPc EXCEPT ![p] = "stage"]
            /\ level' = [level EXCEPT ![p] = @ + 1]
       ELSE Refused(p)
  /\ UNCHANGED <<alive, own, name, recorded, staged, seen, failures>>

\* The reading under the guard, whose result is used from here on.
Reread(p) ==
  /\ lockPc[p] = "reread"
  /\ LET file == name[level[p]] IN
     IF file = None
       THEN /\ lockPc' = [lockPc EXCEPT ![p] = "sweep"]
            /\ UNCHANGED seen
       ELSE /\ lockPc' = [lockPc EXCEPT ![p] = "judge"]
            /\ seen' = [seen EXCEPT ![p] = [file |-> file, by |-> recorded[file]]]
  /\ UNCHANGED <<alive, level, own, name, recorded, staged, failures>>

\* The verdict on the owner that was read under the guard.
StillGone_FirstVerdict(p) == TRUE
StillGone(p) == Gone(seen[p].by)

\* That owner is probed; the staging name of a dead one goes.
Judge(p) ==
  /\ lockPc[p] = "judge"
  /\ IF StillGone(p)
       THEN /\ lockPc' = [lockPc EXCEPT ![p] = "compare"]
            /\ staged' = {i \in staged : i # seen[p].file \/ recorded[i] # seen[p].by}
            /\ UNCHANGED <<level, seen>>
       ELSE /\ Refused(p)
            /\ seen' = [seen EXCEPT ![p] = NothingSeen]
            /\ UNCHANGED staged
  /\ UNCHANGED <<alive, own, name, recorded, failures>>

\* The name still leads to the inode number that was read, and to nothing else.
SameFile(p) == name[level[p]] = seen[p].file /\ seen[p].file \notin staged

\* unlinkIfSame under the guard: lstat ...
Compare(p) ==
  /\ lockPc[p] = "compare"
  /\ lockPc' = [lockPc EXCEPT ![p] = IF SameFile(p) THEN "remove" ELSE "sweep"]
  /\ seen' = [seen EXCEPT ![p] = NothingSeen]
  /\ UNCHANGED <<alive, level, own, name, recorded, staged, failures>>

\* ... then unlink, by name.
Remove(p) ==
  /\ Goes(p, "remove", "sweep")
  /\ name' = [name EXCEPT ![level[p]] = None]
  /\ UNCHANGED <<alive, level, own, recorded, staged, seen, failures>>

\* The staging files of dead owners go, and the level is created under the guard.
Sweep(p) ==
  /\ Goes(p, "sweep", "stage")
  /\ staged' = {i \in staged : ~Gone(recorded[i])}
  /\ UNCHANGED <<alive, level, own, name, recorded, seen, failures>>

-------------------------------------------------------------------------------
\* The name a process is about to give up: its guard, or the lock itself.
Slot(p) == IF lockPc[p] = "letgo" THEN level[p] + 1 ELSE 0

\* A guard is given up when the level under it was created, or was refused.
AfterRelease(p) ==
  IF lockPc[p] = "letgo" /\ own[p][level[p]] # None
    THEN Acquired(p)
    ELSE lockPc' = [lockPc EXCEPT ![p] = "idle"] /\ UNCHANGED level

\* release(): the name is unlinked while it still leads to the file held open,
\* and the descriptor is closed after that.  The comparison and the unlink are
\* one step: nobody else unlinks the file of a live owner, or
\* HolderOwnsTheName is broken before the comparison.
Release(p) ==
  /\ lockPc[p] \in {"letgo", "held"}
  /\ name' = [name EXCEPT ![Slot(p)] = IF @ = own[p][Slot(p)] THEN None ELSE @]
  /\ own' = [own EXCEPT ![p][Slot(p)] = None]
  /\ AfterRelease(p)
  /\ UNCHANGED <<alive, recorded, staged, seen, failures>>

\* A process dies where it is: its descriptors close, its files stay.
Crash(p) ==
  /\ p \in alive
  /\ Cardinality(Procs \ alive) < MaxCrashes
  /\ alive' = alive \ {p}
  /\ lockPc' = [lockPc EXCEPT ![p] = "dead"]
  /\ own' = [own EXCEPT ![p] = [n \in Levels |-> None]]
  /\ seen' = [seen EXCEPT ![p] = NothingSeen]
  /\ UNCHANGED <<level, name, recorded, staged, failures>>

-------------------------------------------------------------------------------
Attempt(p) ==
  \/ Begin(p) \/ Stage(p) \/ Link(p) \/ LinkRefused(p) \/ Publish(p)
  \/ Read(p) \/ Reread(p) \/ Judge(p) \/ Compare(p) \/ Remove(p) \/ Sweep(p)
  \/ Release(p)

LockNext == \E p \in Procs : Attempt(p) \/ PublishFails(p) \/ Crash(p)

LockSpec == LockInit /\ [][LockNext]_lockVars

\* Every process that runs keeps going, and asks again after a refusal.
FairLockSpec == LockSpec /\ \A p \in Procs : WF_lockVars(Attempt(p))

-------------------------------------------------------------------------------
\* A live process stands on a name it has acquired.
Stands(p, n) ==
  \/ n = 0 /\ lockPc[p] = "held"
  \/ /\ n > 0
     /\ n = level[p] + 1
     /\ own[p][n] # None

\* Whoever runs its work under the lock, or a reclaim under a guard, is the
\* owner of the file under that name: nobody else has been let in.
HolderOwnsTheName ==
  \A p \in Procs, n \in Levels : Stands(p, n) => name[n] = own[p][n]

\* A lock its owner left behind when it died is taken by somebody else, unless
\* what stands in the way was left by an owner whose death cannot be proven.
Abandoned == name[0] # None /\ Gone(recorded[name[0]])
AbandonedIsTaken == Abandoned ~> (~Abandoned \/ Unprovable \ alive # {})
===============================================================================
