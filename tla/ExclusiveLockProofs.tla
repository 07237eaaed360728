-------------------------- MODULE ExclusiveLockProofs --------------------------
(***************************************************************************)
(* Theorems about ExclusiveLock, for any number of processes, any depth of *)
(* guards and any number of deaths: on a file system that does not give    *)
(* out an inode number somebody remembers, a lock has one holder.          *)
(***************************************************************************)
EXTENDS ExclusiveLock, TLAPS

\* A file a process holds open is at the level it works on, or is the guard of
\* that level; what the process does next says which of the two it has.
Working  == {"link", "publish", "letgo", "held"}
Guarding == {"reread", "judge", "compare", "remove", "sweep", "letgo"}

ShapedAt(p) ==
  /\ p \in alive <=> lockPc[p] # "dead"
  /\ lockPc[p] \in {"link", "publish", "held"} => own[p][level[p]] # None
  /\ lockPc[p] \in Guarding => Guarded(p)
  /\ lockPc[p] = "held" => level[p] = 0
  /\ \A n \in Levels :
       own[p][n] # None =>
         \/ n = level[p] /\ lockPc[p] \in Working
         \/ n = level[p] + 1 /\ lockPc[p] \in Guarding \cup {"stage", "link", "publish"}
Shaped == \A p \in Procs : ShapedAt(p)

\* A file held open records the process that holds it.
Signed ==
  \A p \in Procs, n \in Levels : own[p][n] # None => recorded[own[p][n]] = p

\* A file held open has the name, from its link on.
Named ==
  \A p \in Procs, n \in Levels :
    own[p][n] # None => name[n] = own[p][n] \/ (lockPc[p] = "link" /\ n = level[p])

\* What a reclaim has read stays so, and what it is about to unlink is the file
\* of an owner that is gone.
Judged ==
  \A p \in Procs :
    /\ lockPc[p] \in {"judge", "compare"} =>
         seen[p].file \in Inodes /\ recorded[seen[p].file] = seen[p].by
    /\ lockPc[p] = "compare" => Gone(seen[p].by)
    /\ lockPc[p] = "remove" =>
         name[level[p]] \in Inodes /\ Gone(recorded[name[level[p]]])

LInv == LockTypeOK /\ Shaped /\ Signed /\ Named /\ Judged

-------------------------------------------------------------------------------
\* Every step of an attempt, of a death or of a failure keeps the types.
LEMMA TypeStep == LockTypeOK /\ [LockNext]_lockVars => LockTypeOK'
<1> SUFFICES ASSUME LockTypeOK, [LockNext]_lockVars PROVE LockTypeOK'
  OBVIOUS
<1> USE LockAssumption DEF LockTypeOK, LockPCs, Files, Levels, NothingSeen
<1>a. ASSUME NEW p \in Procs, Refused(p) PROVE lockPc' \in [Procs -> LockPCs] /\ level' = level
  BY <1>a DEF Refused
<1>b. ASSUME NEW p \in Procs, Acquired(p)
      PROVE  lockPc' \in [Procs -> LockPCs] /\ level' \in [Procs -> Levels]
  <2>1. CASE level[p] = 0
    BY <1>b, <2>1 DEF Acquired
  <2>2. CASE level[p] # 0
    <3>1. level[p] - 1 \in Levels
      BY <2>2
    <3>2. level' = [level EXCEPT ![p] = level[p] - 1]
      BY <1>b, <2>2 DEF Acquired
    <3>3. lockPc' = [lockPc EXCEPT ![p] = "reread"]
      BY <1>b, <2>2 DEF Acquired
    <3> QED
      BY <3>1, <3>2, <3>3
  <2> QED
    BY <2>1, <2>2
<1>c. ASSUME NEW p \in Procs, NEW n, own' = [own EXCEPT ![p][n] = None]
      PROVE  own' \in [Procs -> [Levels -> Files]]
  BY <1>c
<1>d. ASSUME NEW n, NEW q \in Procs,
             name' = [name EXCEPT ![n] = IF @ = own[q][n] THEN None ELSE @]
      PROVE  name' \in [Levels -> Files]
  BY <1>d
<1>1. ASSUME NEW p \in Procs, Begin(p) PROVE LockTypeOK'
  BY <1>1 DEF Begin, Goes
<1>2. ASSUME NEW p \in Procs, Stage(p) PROVE LockTypeOK'
  BY <1>2 DEF Stage, Goes
<1>3. ASSUME NEW p \in Procs, Link(p) PROVE LockTypeOK'
  BY <1>3 DEF Link
<1>4. ASSUME NEW p \in Procs, LinkRefused(p) PROVE LockTypeOK'
  BY <1>4, <1>a, <1>c DEF LinkRefused
<1>5. ASSUME NEW p \in Procs, Publish(p) PROVE LockTypeOK'
  <2>1. lockPc' \in [Procs -> LockPCs] /\ level' \in [Procs -> Levels]
    BY <1>5, <1>b DEF Publish
  <2> QED
    BY <1>5, <2>1 DEF Publish
<1>6. ASSUME NEW p \in Procs, PublishFails(p) PROVE LockTypeOK'
  BY <1>6, <1>a, <1>c, <1>d DEF PublishFails
<1>7. ASSUME NEW p \in Procs, Read(p) PROVE LockTypeOK'
  <2>1. lockPc' \in [Procs -> LockPCs] /\ level' \in [Procs -> Levels]
    <3>1. CASE Refused(p)
      BY <3>1, <1>a
    <3>2. CASE /\ level[p] < MaxDepth
               /\ lockPc' = [lockPc EXCEPT ![p] = "stage"]
               /\ level' = [level EXCEPT ![p] = @ + 1]
      BY <3>2
    <3> QED
      BY <1>7, <3>1, <3>2 DEF Read
  <2> QED
    BY <1>7, <2>1 DEF Read
<1>8. ASSUME NEW p \in Procs, Reread(p) PROVE LockTypeOK'
  <2>1. name[level[p]] \in Inodes \/ name[level[p]] = None
    OBVIOUS
  <2>2. CASE name[level[p]] = None
    BY <1>8, <2>2 DEF Reread
  <2>3. CASE name[level[p]] \in Inodes
    <3>1. recorded[name[level[p]]] \in Procs \cup {None}
      BY <2>3
    <3>2. seen' = [seen EXCEPT ![p] = [file |-> name[level[p]],
                                       by |-> recorded[name[level[p]]]]]
      BY <1>8, <2>3 DEF Reread
    <3>3. lockPc' = [lockPc EXCEPT ![p] = "judge"]
      BY <1>8, <2>3 DEF Reread
    <3> QED
      BY <1>8, <2>3, <3>1, <3>2, <3>3 DEF Reread
  <2> QED
    BY <2>1, <2>2, <2>3
<1>9. ASSUME NEW p \in Procs, Judge(p) PROVE LockTypeOK'
  <2>1. CASE StillGone(p)
    BY <1>9, <2>1 DEF Judge
  <2>2. CASE ~StillGone(p)
    <3>1. seen' = [seen EXCEPT ![p] = NothingSeen] /\ staged' = staged
      BY <1>9, <2>2 DEF Judge
    <3>2. lockPc' \in [Procs -> LockPCs] /\ level' = level
      BY <1>9, <2>2, <1>a DEF Judge
    <3> QED
      BY <1>9, <3>1, <3>2 DEF Judge
  <2> QED
    BY <2>1, <2>2
<1>10. ASSUME NEW p \in Procs, Compare(p) PROVE LockTypeOK'
  BY <1>10 DEF Compare
<1>11. ASSUME NEW p \in Procs, Remove(p) PROVE LockTypeOK'
  BY <1>11 DEF Remove, Goes
<1>12. ASSUME NEW p \in Procs, Sweep(p) PROVE LockTypeOK'
  BY <1>12 DEF Sweep, Goes
<1>13. ASSUME NEW p \in Procs, Release(p) PROVE LockTypeOK'
  <2>1. lockPc' \in [Procs -> LockPCs] /\ level' \in [Procs -> Levels]
    BY <1>13, <1>b DEF Release, AfterRelease
  <2>2. own' \in [Procs -> [Levels -> Files]] /\ name' \in [Levels -> Files]
    BY <1>13, <1>c, <1>d DEF Release
  <2> QED
    BY <1>13, <2>1, <2>2 DEF Release
<1>14. ASSUME NEW p \in Procs, Crash(p) PROVE LockTypeOK'
  BY <1>14 DEF Crash
<1>15. CASE UNCHANGED lockVars
  BY <1>15 DEF lockVars
<1> QED
  BY <1>1, <1>2, <1>3, <1>4, <1>5, <1>6, <1>7, <1>8, <1>9, <1>10, <1>11, <1>12, <1>13,
     <1>14, <1>15 DEF LockNext, Attempt

-------------------------------------------------------------------------------
Step(p) == Attempt(p) \/ PublishFails(p) \/ Crash(p)

\* A step of one process leaves where the others are, and what they hold and read.
Local(p) ==
  \A q \in Procs \ {p} :
    /\ lockPc'[q] = lockPc[q] /\ level'[q] = level[q]
    /\ own'[q] = own[q] /\ seen'[q] = seen[q]
    /\ q \in alive' <=> q \in alive

LEMMA StepIsLocal ==
  ASSUME LockTypeOK, NEW p \in Procs, Step(p)
  PROVE  Local(p)
<1> USE DEF LockTypeOK, Local
<1>1. ASSUME Refused(p)
      PROVE  \A q \in Procs \ {p} : lockPc'[q] = lockPc[q] /\ level'[q] = level[q]
  BY <1>1 DEF Refused
<1>2. ASSUME Acquired(p)
      PROVE  \A q \in Procs \ {p} : lockPc'[q] = lockPc[q] /\ level'[q] = level[q]
  BY <1>2 DEF Acquired
<1>3. CASE Begin(p) \/ Stage(p) \/ Link(p) \/ Remove(p) \/ Sweep(p) \/ Compare(p)
  BY <1>3 DEF Begin, Stage, Link, Remove, Sweep, Compare, Goes
<1>4. CASE LinkRefused(p) \/ PublishFails(p)
  BY <1>4, <1>1 DEF LinkRefused, PublishFails
<1>5. CASE Publish(p) \/ Release(p)
  BY <1>5, <1>2 DEF Publish, Release, AfterRelease
<1>6. CASE Read(p)
  BY <1>6, <1>1 DEF Read
<1>7. CASE Reread(p)
  BY <1>7 DEF Reread
<1>8. CASE Judge(p)
  BY <1>8, <1>1 DEF Judge
<1>9. CASE Crash(p)
  BY <1>9 DEF Crash
<1> QED
  BY <1>3, <1>4, <1>5, <1>6, <1>7, <1>8, <1>9 DEF Step, Attempt

\* What a process holds open after a step, it held before, or has just staged.
LEMMA ShapedStep ==
  ASSUME LockTypeOK, LockTypeOK', Shaped, NEW p \in Procs, Step(p)
  PROVE  Shaped'
<1>1. ASSUME NEW q \in Procs \ {p} PROVE ShapedAt(q)'
  BY <1>1, StepIsLocal DEF Local, Shaped, ShapedAt, Guarded
<1>2. ShapedAt(p)'
  <2> USE LockAssumption DEF LockTypeOK, Levels, LockPCs, ShapedAt, Guarded, Working, Guarding
  <2>0. ShapedAt(p)
    BY DEF Shaped
  <2>1. CASE Begin(p)
    BY <2>0, <2>1 DEF Begin, Goes
  <2>2. CASE Stage(p)
    BY <2>0, <2>2 DEF Stage, Goes
  <2>3. CASE Link(p)
    BY <2>0, <2>3 DEF Link
  <2>4. CASE LinkRefused(p)
    BY <2>0, <2>4 DEF LinkRefused, Refused
  <2>5. CASE Publish(p)
    BY <2>0, <2>5 DEF Publish, Acquired
  <2>6. CASE PublishFails(p)
    BY <2>0, <2>6 DEF PublishFails, Refused
  <2>7. CASE Read(p)
    BY <2>0, <2>7 DEF Read, Refused
  <2>8. CASE Reread(p)
    BY <2>0, <2>8 DEF Reread
  <2>9. CASE Judge(p)
    BY <2>0, <2>9 DEF Judge, Refused
  <2>10. CASE Compare(p)
    BY <2>0, <2>10 DEF Compare
  <2>11. CASE Remove(p)
    BY <2>0, <2>11 DEF Remove, Goes
  <2>12. CASE Sweep(p)
    BY <2>0, <2>12 DEF Sweep, Goes
  <2>13. CASE Release(p)
    BY <2>0, <2>13 DEF Release, AfterRelease, Acquired, Slot
  <2>14. CASE Crash(p)
    BY <2>0, <2>14 DEF Crash
  <2> QED
    BY <2>1, <2>2, <2>3, <2>4, <2>5, <2>6, <2>7, <2>8, <2>9, <2>10, <2>11, <2>12,
       <2>13, <2>14 DEF Step, Attempt
<1> QED
  BY <1>1, <1>2 DEF Shaped

-------------------------------------------------------------------------------
\* What a step of p does to the files: a new file is one nobody holds, names or
\* remembers; every other step leaves the records and takes from what p holds.
Fresh(i) ==
  \A q \in Procs, n \in Levels : own[q][n] # i /\ name[n] # i /\ seen[q].file # i

LEMMA FileStep ==
  ASSUME LockTypeOK, ~Reuse, NEW p \in Procs, Step(p)
  PROVE  \/ /\ UNCHANGED recorded
            /\ \A n \in Levels : own'[p][n] \in {own[p][n], None}
         \/ /\ UNCHANGED <<name, seen, alive>> /\ lockPc[p] = "stage" /\ lockPc'[p] = "link"
            /\ level'[p] = level[p]
            /\ \E i \in Inodes :
                 /\ Fresh(i)
                 /\ recorded' = [recorded EXCEPT ![i] = p]
                 /\ own' = [own EXCEPT ![p][level[p]] = i]
<1> USE DEF LockTypeOK
<1>1. CASE Stage(p)
  BY <1>1 DEF Stage, Goes, Free, Fresh
<1>2. CASE Begin(p) \/ Link(p) \/ Remove(p) \/ Sweep(p) \/ Compare(p)
  BY <1>2 DEF Begin, Link, Remove, Sweep, Compare
<1>3. CASE LinkRefused(p) \/ PublishFails(p)
  BY <1>3 DEF LinkRefused, PublishFails
<1>4. CASE Publish(p) \/ Read(p) \/ Reread(p) \/ Judge(p)
  BY <1>4 DEF Publish, Read, Reread, Judge
<1>5. CASE Release(p)
  BY <1>5 DEF Release
<1>6. CASE Crash(p)
  BY <1>6 DEF Crash
<1> QED
  BY <1>1, <1>2, <1>3, <1>4, <1>5, <1>6 DEF Step, Attempt

LEMMA SignedStep ==
  ASSUME LockTypeOK, ~Reuse, Signed, NEW p \in Procs, Step(p)
  PROVE  Signed'
<1> USE DEF LockTypeOK
<1>0. ASSUME NEW q \in Procs \ {p} PROVE own'[q] = own[q]
  BY StepIsLocal DEF Local
<1>1. CASE UNCHANGED recorded /\ \A n \in Levels : own'[p][n] \in {own[p][n], None}
  BY <1>0, <1>1 DEF Signed
<1>2. ASSUME NEW i \in Inodes, Fresh(i), recorded' = [recorded EXCEPT ![i] = p],
             own' = [own EXCEPT ![p][level[p]] = i]
      PROVE  Signed'
  BY <1>2, LockAssumption DEF Signed, Fresh, Files
<1> QED
  BY <1>1, <1>2, FileStep

\* A name that changes is given by its link, given up by the holder of its file,
\* or unlinked by a reclaim.
LEMMA NameStep ==
  ASSUME LockTypeOK, Shaped, NEW p \in Procs, Step(p), NEW n \in Levels, name'[n] # name[n]
  PROVE  \/ Link(p) /\ n = level[p] /\ name[n] = None /\ name'[n] = own[p][n]
         \/ /\ name[n] = own[p][n] /\ name'[n] = None /\ own'[p][n] = None
            /\ name[n] # None /\ p \in alive
         \/ Remove(p) /\ n = level[p] /\ name'[n] = None
<1> USE LockAssumption DEF LockTypeOK, Levels
<1>1. CASE Link(p)
  BY <1>1 DEF Link
<1>2. CASE Remove(p)
  BY <1>2 DEF Remove
<1>3. CASE PublishFails(p)
  BY <1>3 DEF PublishFails, Shaped, ShapedAt
<1>4. CASE Release(p)
  BY <1>4 DEF Release, Slot, Shaped, ShapedAt
<1> QED
  BY <1>1, <1>2, <1>3, <1>4
     DEF Step, Attempt, Begin, Stage, LinkRefused, Publish, Read, Reread, Judge, Compare, Sweep,
         Crash

LEMMA GoneStays ==
  ASSUME LockTypeOK, NEW p \in Procs, Step(p), NEW o, Gone(o)
  PROVE  Gone(o)'
<1>1. alive' \subseteq alive
  BY DEF Step, Attempt, Begin, Stage, Link, LinkRefused, Publish, PublishFails, Read, Reread,
         Judge, Compare, Remove, Sweep, Release, Crash
<1> QED
  BY <1>1 DEF Gone

\* Nobody holds an open file of somebody that is gone.
LEMMA GoneHoldNothing ==
  ASSUME LockTypeOK, Shaped, Signed, NEW q \in Procs, NEW n \in Levels, own[q][n] # None
  PROVE  q \in alive /\ ~Gone(recorded[own[q][n]])
<1>1. lockPc[q] # "dead"
  BY DEF Shaped, ShapedAt, Working, Guarding
<1>2. q \in alive
  BY <1>1 DEF Shaped, ShapedAt
<1> QED
  BY <1>2 DEF Signed, Gone

LEMMA NamedStep ==
  ASSUME LInv, ~Reuse, NEW p \in Procs, Step(p)
  PROVE  Named'
<1> SUFFICES ASSUME NEW q \in Procs, NEW n \in Levels, own'[q][n] # None
             PROVE  name'[n] = own'[q][n] \/ (lockPc'[q] = "link" /\ n = level'[q])
  BY DEF Named, Levels
<1> USE DEF LInv
<1>a. ASSUME q # p
      PROVE  own'[q] = own[q] /\ lockPc'[q] = lockPc[q] /\ level'[q] = level[q]
  BY <1>a, StepIsLocal DEF Local
<1>1. ASSUME NEW i \in Inodes, UNCHANGED name, lockPc[p] = "stage", lockPc'[p] = "link",
             level'[p] = level[p], own' = [own EXCEPT ![p][level[p]] = i]
      PROVE  name'[n] = own'[q][n] \/ (lockPc'[q] = "link" /\ n = level'[q])
  <2>1. CASE q = p /\ n = level[p]
    BY <1>1, <2>1
  <2>2. CASE ~(q = p /\ n = level[p])
    <3>1. own'[q][n] = own[q][n]
      BY <1>1, <2>2 DEF LockTypeOK
    <3> QED
      BY <1>a, <1>1, <3>1 DEF Named
  <2> QED
    BY <2>1, <2>2
<1>2. CASE UNCHANGED recorded /\ \A m \in Levels : own'[p][m] \in {own[p][m], None}
  <2>1. own'[q][n] = own[q][n]
    BY <1>a, <1>2
  <2>2. name[n] = own[q][n] \/ (lockPc[q] = "link" /\ n = level[q])
    BY <2>1 DEF Named
  <2>3. CASE name'[n] = name[n]
    <3>1. CASE q = p /\ lockPc[p] = "link" /\ n = level[p]
      <4>1. Link(p) \/ LinkRefused(p) \/ Crash(p)
        BY <3>1 DEF Step, Attempt, Begin, Stage, Publish, PublishFails, Read, Reread, Judge,
                    Compare, Remove, Sweep, Release, Goes
      <4>2. ~LinkRefused(p) /\ ~Crash(p)
        BY <2>1, <3>1 DEF LinkRefused, Crash, LockTypeOK
      <4>3. name'[n] = own[p][n]
        BY <3>1, <4>1, <4>2 DEF Link, LockTypeOK
      <4> QED
        BY <2>1, <3>1, <4>3
    <3>2. CASE name[n] = own[q][n]
      BY <2>1, <2>3, <3>2
    <3>3. CASE q # p
      BY <1>a, <2>1, <2>2, <2>3, <3>3
    <3> QED
      BY <2>2, <3>1, <3>2, <3>3
  <2>4. CASE name'[n] # name[n]
    <3>1. CASE Link(p) /\ n = level[p] /\ name[n] = None /\ name'[n] = own[p][n]
      BY <1>a, <2>1, <2>2, <3>1
    <3>2. CASE /\ name[n] = own[p][n] /\ name'[n] = None /\ own'[p][n] = None
               /\ name[n] # None /\ p \in alive
      BY <1>a, <2>1, <2>2, <3>2 DEF Signed
    <3>3. CASE Remove(p) /\ n = level[p] /\ name'[n] = None
      <4>1. lockPc[p] = "remove" /\ Gone(recorded[name[n]])
        BY <3>3 DEF Remove, Goes, Judged
      <4>2. name[n] # own[q][n]
        BY <2>1, <4>1, GoneHoldNothing
      <4> QED
        BY <1>a, <2>1, <2>2, <4>1, <4>2
    <3> QED
      BY <2>4, <3>1, <3>2, <3>3, NameStep
  <2> QED
    BY <2>3, <2>4
<1> QED
  BY <1>1, <1>2, FileStep

\* A guard has one holder: of two that work under it, each owns the file of its name.
LEMMA OneGuard ==
  ASSUME LInv, NEW p \in Procs, NEW q \in Procs, lockPc[p] = "remove", lockPc[q] = "remove",
         level[p] = level[q]
  PROVE  p = q
<1> DEFINE n == level[p] + 1
<1>1. n \in Levels /\ own[p][n] # None /\ own[q][n] # None
  BY LockAssumption DEF LInv, LockTypeOK, Shaped, ShapedAt, Guarding, Guarded, Levels
<1> HIDE DEF n
<1>2. name[n] = own[p][n] /\ name[n] = own[q][n]
  BY <1>1 DEF LInv, Named
<1> QED
  BY <1>1, <1>2 DEF LInv, Signed

LEMMA JudgedStep ==
  ASSUME LInv, ~Reuse, NEW p \in Procs, Step(p)
  PROVE  Judged'
<1> SUFFICES ASSUME NEW q \in Procs
             PROVE  /\ lockPc'[q] \in {"judge", "compare"} =>
                         seen'[q].file \in Inodes /\ recorded'[seen'[q].file] = seen'[q].by
                    /\ lockPc'[q] = "compare" => Gone(seen[q].by)'
                    /\ lockPc'[q] = "remove" =>
                         name'[level'[q]] \in Inodes /\ Gone(recorded[name[level[q]]])'
  BY DEF Judged
<1> USE DEF LInv
<1>1. CASE q # p
  <2>1. /\ lockPc'[q] = lockPc[q] /\ level'[q] = level[q] /\ seen'[q] = seen[q]
        /\ level[q] \in Levels
    BY <1>1, StepIsLocal DEF Local, LockTypeOK
  <2>2. ASSUME NEW i \in Inodes, \A n \in Levels : name[n] # i /\ seen[q].file # i
        PROVE  /\ name[level[q]] # i /\ seen[q].file # i
               /\ \A r : recorded' = [recorded EXCEPT ![i] = r] =>
                    \A j \in Inodes : j # i => recorded'[j] = recorded[j]
    BY <2>1, <2>2 DEF LockTypeOK
  <2>3. /\ seen[q].file \in Inodes => recorded'[seen[q].file] = recorded[seen[q].file]
        /\ name[level[q]] \in Inodes => recorded'[name[level[q]]] = recorded[name[level[q]]]
    BY <2>1, <2>2, FileStep DEF Fresh, LockTypeOK
  <2>4. CASE lockPc[q] = "remove"
    <3>1. name[level[q]] \in Inodes /\ Gone(recorded[name[level[q]]])
      BY <2>4 DEF Judged
    <3>2. name'[level[q]] = name[level[q]]
      <4>1. SUFFICES ASSUME name'[level[q]] # name[level[q]] PROVE FALSE
        OBVIOUS
      <4>2. CASE name[level[q]] = None
        BY <3>1, <4>2, LockAssumption
      <4>3. CASE name[level[q]] = own[p][level[q]] /\ name[level[q]] # None
        BY <2>1, <3>1, <4>3, GoneHoldNothing
      <4>4. CASE Remove(p) /\ level[q] = level[p]
        BY <1>1, <2>4, <4>4, OneGuard DEF Remove, Goes
      <4> QED
        BY <2>1, <4>1, <4>2, <4>3, <4>4, NameStep
    <3>3. Gone(recorded[name[level[q]]])'
      BY <2>1, <2>3, <3>1, <3>2, GoneStays
    <3> QED
      BY <2>1, <2>4, <3>1, <3>2, <3>3
  <2>5. CASE lockPc[q] \in {"judge", "compare"}
    BY <2>1, <2>3, <2>5, GoneStays DEF Judged
  <2> QED
    BY <2>1, <2>4, <2>5
<1>2. CASE q = p
  <2>1. CASE Reread(p)
    BY <1>2, <2>1, LockAssumption DEF Reread, LockTypeOK, Files
  <2>2. CASE Judge(p)
    BY <1>2, <2>2 DEF Judge, StillGone, Gone, Refused, Judged, LockTypeOK
  <2>3. CASE Compare(p)
    BY <1>2, <2>3 DEF Compare, SameFile, Gone, Judged, LockTypeOK
  <2>4. CASE ~Reread(p) /\ ~Judge(p) /\ ~Compare(p)
    <3>1. lockPc'[p] \notin {"judge", "compare", "remove"}
      BY <2>4 DEF Step, Attempt, Begin, Stage, Link, LinkRefused, Publish, PublishFails, Read,
                  Remove, Sweep, Release, AfterRelease, Crash, Goes, Acquired, Refused, LockTypeOK
    <3> QED
      BY <1>2, <3>1
  <2> QED
    BY <2>1, <2>2, <2>3, <2>4
<1> QED
  BY <1>1, <1>2

-------------------------------------------------------------------------------
LEMMA LockInvariantHolds ==
  ASSUME ~Reuse
  PROVE  LockSpec => []LInv
<1>1. LockInit => LInv
  BY LockAssumption
     DEF LockInit, LInv, LockTypeOK, LockPCs, Levels, Files, NothingSeen, Shaped, ShapedAt,
         Guarding, Working, Signed, Named, Judged
<1>2. LInv /\ [LockNext]_lockVars => LInv'
  <2> SUFFICES ASSUME LInv, [LockNext]_lockVars PROVE LInv'
    OBVIOUS
  <2>1. ASSUME NEW p \in Procs, Step(p) PROVE LInv'
    BY <2>1, TypeStep, ShapedStep, SignedStep, NamedStep, JudgedStep DEF LInv
  <2>2. CASE UNCHANGED lockVars
    BY <2>2 DEF lockVars, LInv, LockTypeOK, Shaped, ShapedAt, Guarded, Signed, Named, Judged, Gone
  <2> QED
    BY <2>1, <2>2 DEF LockNext, Step
<1> QED
  BY <1>1, <1>2, PTL DEF LockSpec

\* Types, for any bounds (createOwned, attemptExclusiveLock).
THEOREM LockTypes == LockSpec => []LockTypeOK
<1>1. LockInit => LockTypeOK
  BY LockAssumption DEF LockInit, LockTypeOK, LockPCs, Levels, Files, NothingSeen
<1> QED
  BY <1>1, TypeStep, PTL DEF LockSpec

\* Where inode numbers are not given out while somebody remembers them, whoever runs its
\* work under the lock, or a reclaim under a guard, owns the file under that name
\* (attemptExclusiveLock, reclaimUnderGuard).
THEOREM HolderOwns ==
  ASSUME ~Reuse
  PROVE  LockSpec => []HolderOwnsTheName
<1>1. LInv => HolderOwnsTheName
  BY LockAssumption
     DEF LInv, LockTypeOK, HolderOwnsTheName, Stands, Shaped, ShapedAt, Named, Levels, Working
<1> QED
  BY <1>1, LockInvariantHolds, PTL

\* ... so nobody else holds it: a dead owner is replaced by one contender.
THEOREM OneHolder ==
  ASSUME ~Reuse
  PROVE  LockSpec => [](\A p, q \in Procs : lockPc[p] = "held" /\ lockPc[q] = "held" => p = q)
<1>1. LInv => \A p, q \in Procs : lockPc[p] = "held" /\ lockPc[q] = "held" => p = q
  <2> SUFFICES ASSUME LInv, NEW p \in Procs, NEW q \in Procs,
                      lockPc[p] = "held", lockPc[q] = "held"
               PROVE  p = q
    OBVIOUS
  <2>1. 0 \in Levels /\ own[p][0] # None /\ own[q][0] # None
    BY LockAssumption DEF LInv, Shaped, ShapedAt, Levels
  <2>2. name[0] = own[p][0] /\ name[0] = own[q][0]
    BY <2>1 DEF LInv, Named
  <2> QED
    BY <2>1, <2>2 DEF LInv, Signed
<1> QED
  BY <1>1, LockInvariantHolds, PTL

===============================================================================
