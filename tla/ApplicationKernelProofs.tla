---------------------- MODULE ApplicationKernelProofs ----------------------
(***************************************************************************)
(* What holds whatever the resources and the callers do, for every graph   *)
(* of resources: after a shutdown was requested admission is shut for      *)
(* good, and the graceful path drains and closes only when no operation    *)
(* is in flight.                                                           *)
(*                                                                         *)
(* And through any number of restarts: one generation of a resource is     *)
(* open at a time, the kernel knows of it, and what is ready uses what is  *)
(* open.  These three are about restarts that begin after start() settled. *)
(***************************************************************************)
EXTENDS ApplicationKernel, FiniteSetTheorems, WellFoundedInduction, TLAPS

\* The shutdown only moves once it was requested, ...
Requested == down.pc # "idle" => shutdownRequested
\* ... and a request shuts admission.
Shut == shutdownRequested => ~accepting

\* OperationsDrainFirst is inductive only together with these: what keeps
\* `pending` at zero behind waitForPending() is that nobody is admitted.
KInv == pending \in Nat /\ Requested /\ Shut /\ OperationsDrainFirst

\* What most steps leave alone: the shutdown and the operations in flight.
Quiet == UNCHANGED <<down, forced, gracefulFailed, shutdownRequested, pending>>

\* The initial states satisfy the invariant.
LEMMA InitKInv == Init => KInv
BY DEF Init, KInv, Requested, Shut, OperationsDrainFirst

\* A quiet step that does not open admission after a shutdown was requested
\* preserves the invariant.
LEMMA QuietKInv == KInv /\ Quiet /\ (shutdownRequested => ~accepting') => KInv'
BY DEF KInv, Requested, Shut, OperationsDrainFirst, Abandoned, Quiet

\* A start chain, and the restart that runs the same code, touches no resource
\* once it is interrupted, and only the start that was not opens admission.
LEMMA ChainStep ==
  ASSUME KInv, NEW c \in Chains,
         \/ Interrupt(c) \/ StartBlocked(c) \/ CallStart(c) \/ AllStarted(c)
         \/ SkipActivation(c) \/ CallActivate(c) \/ AllActivated(c) \/ StartSettles(c)
  PROVE  KInv' /\ StaysShut
<1> USE DEF StaysShut, KInv, Quiet, Shut, kernelVars, recordVars, restartVars, downVars, worldVars
<1>1. CASE Interrupt(c)
  BY <1>1, QuietKInv DEF Interrupt
<1>2. CASE StartBlocked(c)
  BY <1>2, QuietKInv DEF StartBlocked
<1>3. CASE CallStart(c)
  BY <1>3, QuietKInv DEF CallStart, Interrupted
<1>4. CASE AllStarted(c)
  BY <1>4, QuietKInv DEF AllStarted
<1>5. CASE SkipActivation(c)
  BY <1>5, QuietKInv DEF SkipActivation
<1>6. CASE CallActivate(c)
  BY <1>6, QuietKInv DEF CallActivate
<1>7. CASE AllActivated(c)
  BY <1>7, QuietKInv DEF AllActivated
<1>8. CASE StartResolves(c)
  BY <1>8, QuietKInv DEF StartResolves
<1>9. CASE ReadyResolves(c)
  BY <1>9, QuietKInv DEF ReadyResolves
<1>10. CASE StartRejects(c)
  BY <1>10, QuietKInv DEF StartRejects
<1>11. CASE ActivateResolves(c)
  BY <1>11, QuietKInv DEF ActivateResolves, Interrupted
<1>12. CASE ActivateRejects(c)
  BY <1>12, QuietKInv DEF ActivateRejects
<1> QED
  BY <1>1, <1>2, <1>3, <1>4, <1>5, <1>6, <1>7, <1>8, <1>9, <1>10, <1>11, <1>12 DEF StartSettles

\* The rollback of a failed start only closes.
LEMMA RollbackStep ==
  ASSUME KInv, StartFails \/ RollbackNext \/ RollbackCloses \/ RollbackFails \/ RolledBack
  PROVE  KInv' /\ StaysShut
<1> USE DEF StaysShut, KInv, Quiet, Shut, kernelVars, recordVars, restartVars, downVars, worldVars
<1>1. CASE StartFails
  BY <1>1, QuietKInv DEF StartFails
<1>2. CASE RollbackNext
  BY <1>2, QuietKInv DEF RollbackNext
<1>3. CASE RollbackCloses
  BY <1>3, QuietKInv DEF RollbackCloses
<1>4. CASE RollbackFails
  BY <1>4, QuietKInv DEF RollbackFails
<1>5. CASE RolledBack
  BY <1>5, QuietKInv DEF RolledBack
<1> QED
  BY <1>1, <1>2, <1>3, <1>4, <1>5

\* A restart never admits, and what it erases was attempted before.
LEMMA RestartStep ==
  ASSUME KInv,
         \/ Refuse \/ RunRestart \/ CloseOne \/ Closed \/ RestartFails
         \/ PhaseResolves \/ CloseResolves \/ PhaseFails \/ RestartTimeout
         \/ \E r \in Resources : Restart(r)
  PROVE  KInv' /\ StaysShut
<1> USE DEF StaysShut, KInv, Quiet, Shut, kernelVars, recordVars, restartVars, downVars, worldVars
<1>1. CASE Refuse
  BY <1>1, QuietKInv DEF Refuse
<1>2. CASE RunRestart
  BY <1>2, QuietKInv DEF RunRestart
<1>3. CASE CloseOne
  BY <1>3, QuietKInv DEF CloseOne, Erase
<1>4. CASE Closed
  BY <1>4, QuietKInv DEF Closed
<1>5. CASE RestartFails
  BY <1>5, QuietKInv DEF RestartFails
<1>6. CASE PhaseResolves
  BY <1>6, QuietKInv DEF PhaseResolves
<1>7. CASE CloseResolves
  BY <1>7, QuietKInv DEF CloseResolves, Erase
<1>8. CASE PhaseFails
  BY <1>8, QuietKInv DEF PhaseFails
<1>9. CASE RestartTimeout
  BY <1>9, QuietKInv DEF RestartTimeout
<1>10. ASSUME NEW r \in Resources, Restart(r)
       PROVE  KInv' /\ StaysShut
  BY <1>10, QuietKInv DEF Restart
<1> QED
  BY <1>1, <1>2, <1>3, <1>4, <1>5, <1>6, <1>7, <1>8, <1>9, <1>10

\* Callers and resources: a lease is granted only before the shutdown, and
\* neither a report nor a late completion reopens admission after it.
LEMMA OutsideStep ==
  ASSUME KInv,
         \/ Start \/ Acquire \/ Release
         \/ \E r \in Resources : LateCompletion(r) \/ ReportHealth(r)
  PROVE  KInv' /\ StaysShut
<1> USE DEF StaysShut, KInv, kernelVars, recordVars, restartVars, downVars, worldVars
<1>1. CASE Start
  BY <1>1, QuietKInv DEF Start, Quiet, Shut
<1>2. CASE Acquire
  <2>1. ~shutdownRequested /\ down.pc = "idle"
    BY <1>2 DEF Acquire, Shut, Requested
  <2> QED
    BY <1>2, <2>1 DEF Acquire, Requested, Shut, OperationsDrainFirst
<1>3. CASE Release
  <2>1. pending' = pending - 1 /\ pending' \in Nat /\ pending # 0
    BY <1>3 DEF Release
  <2> QED
    BY <1>3, <2>1 DEF Release, Requested, Shut, OperationsDrainFirst, Abandoned
<1>4. ASSUME NEW r \in Resources, LateCompletion(r)
      PROVE  KInv' /\ StaysShut
  <2>1. Quiet
    BY <1>4 DEF LateCompletion, Quiet
  <2>2. UNCHANGED <<attempted, activated>>
    BY <1>4 DEF LateCompletion
  <2>3. shutdownRequested => UNCHANGED accepting
    BY <1>4 DEF LateCompletion
  <2>4. KInv'
    BY <2>1, <2>3, QuietKInv DEF Shut
  <2> QED
    BY <2>1, <2>2, <2>3, <2>4 DEF Quiet, Shut
<1>5. ASSUME NEW r \in Resources, ReportHealth(r)
      PROVE  KInv' /\ StaysShut
  <2>1. Quiet /\ UNCHANGED <<attempted, activated>>
    BY <1>5 DEF ReportHealth, Quiet
  <2>2. PICK now : accepting' = Opens(state, now)
    BY <1>5 DEF ReportHealth
  <2>3. shutdownRequested => ~accepting'
    BY <2>2, Zenon DEF Opens
  <2>4. KInv'
    BY <2>1, <2>3, QuietKInv
  <2> QED
    BY <2>1, <2>3, <2>4 DEF Quiet
<1> QED
  BY <1>1, <1>2, <1>3, <1>4, <1>5

\* The shutdown itself: it passes waitForPending() only when nothing is in
\* flight, or has abandoned the graceful path.
LEMMA DownStep ==
  ASSUME KInv,
         \/ Shutdown \/ StartAwaited \/ ForceNow \/ SweepCalls \/ HookResolves \/ HookRejects
         \/ SweepEnds \/ PendingOver \/ Clean \/ ForceSweep \/ ForceFails \/ ForceEnds
         \/ \E r \in Resources : ForceResolves(r)
  PROVE  KInv' /\ StaysShut
<1> USE DEF StaysShut, KInv, Requested, Shut, OperationsDrainFirst, Abandoned, DownGoes, DownAt,
            kernelVars, recordVars, restartVars, downVars, worldVars
<1>1. CASE Shutdown
  BY <1>1 DEF Shutdown
<1>2. CASE StartAwaited
  BY <1>2 DEF StartAwaited
<1>3. CASE ForceNow
  BY <1>3 DEF ForceNow
<1>4. CASE SweepCalls
  BY <1>4 DEF SweepCalls, Stops
<1>5. CASE HookResolves
  BY <1>5 DEF HookResolves, Hooks, LoopOf
<1>6. CASE HookRejects
  BY <1>6 DEF HookRejects, Hooks
<1>7. CASE SweepEnds
  BY <1>7 DEF SweepEnds
<1>8. CASE PendingOver
  BY <1>8 DEF PendingOver
<1>9. CASE Clean
  BY <1>9 DEF Clean, Returns
<1>10. CASE ForceSweep
  BY <1>10 DEF ForceSweep
<1>11. CASE ForceFails
  BY <1>11 DEF ForceFails
<1>12. CASE ForceEnds
  BY <1>12 DEF ForceEnds, Returns
<1>13. ASSUME NEW r \in Resources, ForceResolves(r)
       PROVE  KInv' /\ StaysShut
  BY <1>13 DEF ForceResolves
<1> QED
  BY <1>1, <1>2, <1>3, <1>4, <1>5, <1>6, <1>7, <1>8, <1>9, <1>10, <1>11, <1>12, <1>13

\* Every step preserves the invariant and keeps admission shut.
LEMMA NextKInv == ASSUME KInv, Next PROVE KInv' /\ StaysShut
<1>1. CASE Callback
  BY <1>1, ChainStep, RollbackStep, RestartStep, DownStep DEF Callback
<1>2. CASE Settles
  BY <1>2, ChainStep, RollbackStep, RestartStep, DownStep DEF Settles
<1>3. CASE Outside
  BY <1>3, OutsideStep, RestartStep, DownStep DEF Outside
<1>4. CASE Resumes
  BY <1>4, RestartStep, DownStep DEF Resumes
<1> QED
  BY <1>1, <1>2, <1>3, <1>4 DEF Next

\* The inductive invariant holds in every reachable state.
THEOREM KernelInvariant == Spec => []KInv
<1>1. KInv /\ UNCHANGED vars => KInv'
  BY DEF vars, kernelVars, downVars, KInv, Requested, Shut, OperationsDrainFirst, Abandoned
<1>2. KInv /\ [Next]_vars => KInv'
  BY <1>1, NextKInv
<1> QED
  BY InitKInv, <1>2, PTL DEF Spec

\* A graceful shutdown drains and closes the resources only after every
\* admitted operation has released its lease (kernel-shutdown.ts, between the
\* two sweeps).
THEOREM DrainsFirst == Spec => []OperationsDrainFirst
<1>1. KInv => OperationsDrainFirst
  BY DEF KInv
<1> QED
  BY <1>1, KernelInvariant, PTL

\* After shutdown() no report, completion, start or restart reopens admission,
\* admits an operation or brings a resource up.
THEOREM ShutForGood == Spec => AdmissionStaysShut
<1>1. KInv /\ [Next]_vars => [StaysShut]_vars
  BY NextKInv
<1> QED
  BY <1>1, KernelInvariant, PTL DEF Spec, AdmissionStaysShut

-----------------------------------------------------------------------------
(* The orders the kernel walks its resources in *)

\* Dependants come before what they depend on.
Downward(s) == \A i, j \in DOMAIN s : s[i] \in DependsOn[s[j]] => j < i

\* The elements of a sequence by their places.
LEMMA ElementIs ==
  ASSUME NEW S, NEW s \in Seq(S)
  PROVE  /\ Len(s) \in Nat /\ DOMAIN s = 1 .. Len(s)
         /\ \A i \in 1 .. Len(s) : s[i] \in S
         /\ \A e : e \in ToSet(s) <=> \E i \in 1 .. Len(s) : s[i] = e
         /\ ToSet(s) \subseteq S
BY DEF ToSet

\* What is left of a walk after its head.
LEMMA Popped ==
  ASSUME NEW s \in Seq(Resources), s # <<>>
  PROVE  /\ Head(s) \in Resources /\ Tail(s) \in Seq(Resources)
         /\ ToSet(s) = ToSet(Tail(s)) \cup {Head(s)}
         /\ IsInjective(s) => IsInjective(Tail(s)) /\ Head(s) \notin ToSet(Tail(s))
         /\ Downward(s) => Downward(Tail(s)) /\ \A r \in ToSet(s) : Head(s) \notin DependsOn[r]
<1> DEFINE t == Tail(s)
           n == Len(s)
<1>1. n \in Nat /\ n > 0 /\ DOMAIN s = 1 .. n /\ \A i \in 1 .. n : s[i] \in Resources
  OBVIOUS
<1>2. /\ t \in Seq(Resources) /\ Len(t) = n - 1 /\ DOMAIN t = 1 .. n - 1
      /\ \A i \in 1 .. n - 1 : t[i] = s[i + 1]
      /\ Head(s) = s[1]
  OBVIOUS
<1>3. /\ \A e : e \in ToSet(s) <=> \E i \in 1 .. n : s[i] = e
      /\ \A e : e \in ToSet(t) <=> \E i \in 1 .. n - 1 : t[i] = e
  <2> HIDE DEF t
  <2> QED
    BY <1>1, <1>2 DEF ToSet
<1> HIDE DEF t, n
<1>4. ToSet(s) = ToSet(t) \cup {s[1]}
  <2>1. ASSUME NEW e \in ToSet(s), e # s[1] PROVE e \in ToSet(t)
    <3>1. PICK i \in 1 .. n : s[i] = e
      BY <1>3
    <3>2. i - 1 \in 1 .. n - 1 /\ t[i - 1] = e
      BY <1>1, <1>2, <2>1, <3>1
    <3> QED
      BY <1>3, <3>2
  <2>2. ASSUME NEW e \in ToSet(t) PROVE e \in ToSet(s)
    <3>1. PICK i \in 1 .. n - 1 : t[i] = e
      BY <1>3
    <3>2. i + 1 \in 1 .. n /\ s[i + 1] = e
      BY <1>1, <1>2, <3>1
    <3> QED
      BY <1>3, <3>2
  <2>3. s[1] \in ToSet(s)
    BY <1>1, <1>3
  <2> QED
    BY <2>1, <2>2, <2>3
<1>5. ASSUME IsInjective(s) PROVE IsInjective(t) /\ s[1] \notin ToSet(t)
  <2>1. \A i, j \in 1 .. n : s[i] = s[j] => i = j
    BY <1>1, <1>5 DEF IsInjective
  <2>2. \A i, j \in 1 .. n - 1 : t[i] = t[j] => i = j
    BY <1>1, <1>2, <2>1
  <2>3. ASSUME NEW i \in 1 .. n - 1, t[i] = s[1] PROVE FALSE
    BY <1>1, <1>2, <2>1, <2>3
  <2> QED
    BY <1>2, <1>3, <2>2, <2>3 DEF IsInjective
<1>6. ASSUME Downward(s)
      PROVE  Downward(t) /\ \A r \in ToSet(s) : s[1] \notin DependsOn[r]
  <2>1. \A i, j \in 1 .. n : s[i] \in DependsOn[s[j]] => j < i
    BY <1>1, <1>6 DEF Downward
  <2>2. ASSUME NEW i \in 1 .. n - 1, NEW j \in 1 .. n - 1, t[i] \in DependsOn[t[j]]
        PROVE  j < i
    <3>1. i + 1 \in 1 .. n /\ j + 1 \in 1 .. n /\ t[i] = s[i + 1] /\ t[j] = s[j + 1]
      BY <1>1, <1>2
    <3>2. j + 1 < i + 1
      BY <2>1, <2>2, <3>1
    <3> QED
      BY <3>2
  <2>3. Downward(t)
    BY <1>2, <2>2 DEF Downward
  <2>4. ASSUME NEW r \in ToSet(s), s[1] \in DependsOn[r] PROVE FALSE
    <3>1. PICK j \in 1 .. n : s[j] = r
      BY <1>3
    <3>2. j < 1
      BY <1>1, <2>1, <2>4, <3>1
    <3> QED
      BY <3>1, <3>2
  <2> QED
    BY <2>3, <2>4
<1> QED
  BY <1>1, <1>2, <1>4, <1>5, <1>6 DEF t

\* A walk backwards meets the same resources, each once, dependants first.
LEMMA Reversed ==
  ASSUME NEW s \in Seq(Resources)
  PROVE  /\ Reverse(s) \in Seq(Resources) /\ ToSet(Reverse(s)) = ToSet(s)
         /\ IsInjective(s) => IsInjective(Reverse(s))
         /\ (\A i, j \in DOMAIN s : s[i] \in DependsOn[s[j]] => i < j) => Downward(Reverse(s))
<1> DEFINE t == Reverse(s)
           n == Len(s)
<1>1. n \in Nat /\ DOMAIN s = 1 .. n /\ \A i \in 1 .. n : s[i] \in Resources
  OBVIOUS
<1>2. /\ t \in Seq(Resources) /\ Len(t) = n /\ DOMAIN t = 1 .. n
      /\ \A i \in 1 .. n : t[i] = s[n - i + 1]
  BY <1>1 DEF Reverse
<1>3. /\ \A e : e \in ToSet(s) <=> \E i \in 1 .. n : s[i] = e
      /\ \A e : e \in ToSet(t) <=> \E i \in 1 .. n : t[i] = e
  BY <1>2, ElementIs
<1> HIDE DEF t, n
<1>4. \A i \in 1 .. n : n - i + 1 \in 1 .. n /\ n - (n - i + 1) + 1 = i
  BY <1>1
<1>5. ToSet(t) = ToSet(s)
  <2>1. \A i \in 1 .. n : t[n - i + 1] = s[i]
    BY <1>2, <1>4
  <2> QED
    BY <1>2, <1>3, <1>4, <2>1
<1>6. ASSUME IsInjective(s) PROVE IsInjective(t)
  <2>1. \A i, j \in 1 .. n : s[i] = s[j] => i = j
    BY <1>1, <1>6 DEF IsInjective
  <2>2. ASSUME NEW i \in 1 .. n, NEW j \in 1 .. n, t[i] = t[j] PROVE n - i + 1 = n - j + 1
    <3>1. s[n - i + 1] = s[n - j + 1]
      BY <1>2, <2>2
    <3>2. n - i + 1 \in 1 .. n /\ n - j + 1 \in 1 .. n
      BY <1>4
    <3> QED
      BY <2>1, <3>1, <3>2
  <2>3. \A i, j \in 1 .. n : n - i + 1 = n - j + 1 => i = j
    BY <1>1
  <2>4. \A i, j \in 1 .. n : t[i] = t[j] => i = j
    BY <2>2, <2>3
  <2>5. DOMAIN t = 1 .. n
    BY <1>2
  <2> QED
    BY <2>4, <2>5 DEF IsInjective
<1>7. ASSUME \A i, j \in DOMAIN s : s[i] \in DependsOn[s[j]] => i < j PROVE Downward(t)
  <2>1. \A i, j \in 1 .. n : t[i] \in DependsOn[t[j]] => n - i + 1 < n - j + 1
    BY <1>1, <1>2, <1>4, <1>7
  <2> QED
    BY <1>1, <1>2, <2>1 DEF Downward
<1> QED
  BY <1>2, <1>5, <1>6, <1>7 DEF t

\* The start order, and the same backwards.
LEMMA OrderIs ==
  /\ Order \in Seq(Resources) /\ IsInjective(Order) /\ ToSet(Order) = Resources
  /\ \A i, j \in DOMAIN Order : Order[i] \in DependsOn[Order[j]] => i < j
  /\ Reverse(Order) \in Seq(Resources) /\ IsInjective(Reverse(Order))
  /\ ToSet(Reverse(Order)) = Resources /\ Downward(Reverse(Order))
<1>1. Order \in Seq(Resources) /\ IsInjective(Order) /\ ToSet(Order) = Resources
  BY KernelAssumption DEF Resources
<1>2. ASSUME NEW i \in DOMAIN Order, NEW j \in DOMAIN Order, Order[i] \in DependsOn[Order[j]]
      PROVE  i < j
  <2>1. PICK k \in 1 .. j - 1 : Order[i] = Order[k]
    BY <1>2, KernelAssumption
  <2>2. Len(Order) \in Nat /\ DOMAIN Order = 1 .. Len(Order)
    BY <1>1, ElementIs
  <2>3. k \in DOMAIN Order /\ k < j
    BY <2>1, <2>2
  <2> QED
    BY <1>1, <2>1, <2>3 DEF IsInjective
<1> QED
  BY <1>1, <1>2, Reversed

LEMMA ResourcesAreFinite == IsFiniteSet(Resources)
<1>1. Len(Order) \in Nat /\ DOMAIN Order = 1 .. Len(Order)
  BY OrderIs, ElementIs
<1>2. Order \in Surjection(1 .. Len(Order), Resources)
  BY <1>1, OrderIs, ElementIs DEF Surjection
<1>3. IsFiniteSet(1 .. Len(Order))
  BY <1>1, FS_Interval
<1> QED
  BY <1>2, <1>3, FS_Surjection

\* What a restart replaces: the resource and all its dependants, in start order.
LEMMA SubtreeIs ==
  ASSUME NEW r \in Resources, NEW s \in SetToSeqs(Dependants(r)), InStartOrder(s)
  PROVE  /\ s \in Seq(Resources) /\ IsInjective(s)
         /\ Reverse(s) \in Seq(Resources) /\ IsInjective(Reverse(s))
         /\ ToSet(Reverse(s)) = ToSet(s) /\ Downward(Reverse(s))
         /\ WithDependants(ToSet(s))
<1> DEFINE D == Dependants(r)
           c == Cardinality(D)
<1>1. D \subseteq Resources /\ WithDependants(D)
  <2>1. ASSUME NEW x \in Resources, DependsOn[x] \cap D # {},
               NEW rs \in SUBSET Resources, r \in rs, WithDependants(rs)
        PROVE  x \in rs
    <3>1. D \subseteq rs
      BY <2>1 DEF Dependants
    <3> QED
      BY <2>1, <3>1 DEF WithDependants
  <2> QED
    BY <2>1 DEF WithDependants, Dependants
<1>2. IsFiniteSet(D) /\ c \in Nat
  BY <1>1, ResourcesAreFinite, FS_Subset, FS_CardinalityType
<1>3. s \in [1 .. c -> D] /\ \A i, j \in 1 .. c : i # j => s[i] # s[j]
  BY DEF SetToSeqs
<1> HIDE DEF D, c
<1>4. s \in Seq(Resources) /\ DOMAIN s = 1 .. c /\ IsInjective(s)
  BY <1>1, <1>2, <1>3 DEF IsInjective
<1>5. ToSet(s) = D
  <2>1. s \in Injection(1 .. c, D)
    BY <1>3 DEF Injection, IsInjective
  <2>2. Cardinality(1 .. c) = c /\ IsFiniteSet(1 .. c)
    BY <1>2, FS_Interval
  <2>3. s \in Surjection(1 .. c, D)
    BY <1>2, <2>1, <2>2, FS_Injection DEF c
  <2> QED
    BY <1>3, <2>3 DEF Surjection, ToSet
<1>6. ASSUME NEW i \in DOMAIN s, NEW j \in DOMAIN s, s[i] \in DependsOn[s[j]]
      PROVE  i < j
  <2>1. i \in Nat /\ j \in Nat
    BY <1>2, <1>4
  <2>2. CASE j < i
    <3>1. PICK k \in DOMAIN Order, l \in DOMAIN Order :
            k < l /\ Order[k] = s[j] /\ Order[l] = s[i]
      BY <2>2 DEF InStartOrder
    <3>2. l < k
      BY <1>6, <3>1, OrderIs
    <3> QED
      BY <3>1, <3>2, OrderIs, ElementIs
  <2>3. CASE i = j
    <3>1. PICK k \in DOMAIN Order : Order[k] = s[i]
      <4>1. s[i] \in ToSet(Order)
        BY <1>1, <1>3, <1>4, OrderIs
      <4> QED
        BY <4>1 DEF ToSet
    <3>2. k < k
      BY <1>6, <2>3, <3>1, OrderIs
    <3> QED
      BY <3>1, <3>2, OrderIs, ElementIs
  <2> QED
    BY <2>1, <2>2, <2>3
<1> QED
  BY <1>1, <1>4, <1>5, <1>6, Reversed

-----------------------------------------------------------------------------
(* The types, with what a program that waits is waiting for *)

Awaits == {"start", "ready", "activate", "stopAdmission", "drain", "close", "rollbackClose"}

ChainsTyped ==
  /\ chain \in [Chains -> [pc : ChainPCs, todo : Seq(Resources)]]
  /\ \A c \in Chains : chain[c].pc \in Awaits => chain[c].todo # <<>>
DownTyped ==
  /\ down \in [pc : DownPCs, todo : Seq(Resources)]
  /\ down.pc \in Hooks => down.todo # <<>>
QueueTyped ==
  /\ subtree \in Seq(Resources) /\ queue \in Seq(Resources)
  /\ turn = "restart" /\ At("restart", "idle") => queue # <<>>
RecordsTyped ==
  /\ state \in [Resources -> States] /\ published \in [Resources -> Nat]
WorldTyped ==
  /\ gen \in [Resources -> Nat] /\ handle \in [Resources -> [Resources -> Nat]]
  /\ live \in [Resources -> SUBSET Nat] /\ closing \in [Resources -> SUBSET Nat]
Typed == ChainsTyped /\ DownTyped /\ QueueTyped /\ RecordsTyped /\ WorldTyped

LEMMA InitTyped == Init => Typed
<1> SUFFICES ASSUME Init PROVE Typed
  OBVIOUS
<1> QED
  BY DEF Init, Typed, ChainsTyped, DownTyped, QueueTyped, RecordsTyped, WorldTyped, Awaits, Hooks,
         ChainPCs, DownPCs, States, NoHandle, At, Chains

\* Where a chain goes, the other chain does not.
LEMMA Goto ==
  ASSUME ChainsTyped, NEW c \in Chains, NEW pc \in ChainPCs, NEW todo \in Seq(Resources),
         pc \in Awaits => todo # <<>>, Goes(c, pc, todo)
  PROVE  /\ ChainsTyped' /\ chain'[c].pc = pc /\ chain'[c].todo = todo
         /\ \A d \in Chains : d # c => chain'[d] = chain[d]
BY DEF ChainsTyped, Goes

\* What a chain has left to do.
LEMMA TodoIs ==
  ASSUME ChainsTyped, NEW c \in Chains
  PROVE  /\ chain[c].todo \in Seq(Resources) /\ chain[c].pc \in ChainPCs
         /\ chain[c].pc \in Awaits => chain[c].todo # <<>>
         /\ chain[c].todo # <<>> => Current(c) \in Resources /\ Left(c) \in Seq(Resources)
<1>1. chain[c].todo \in Seq(Resources) /\ chain[c].pc \in ChainPCs
  BY DEF ChainsTyped
<1> QED
  BY <1>1, Popped DEF ChainsTyped, Current, Left

\* What a step leaves alone keeps its type.
LEMMA SameTyped ==
  /\ ChainsTyped /\ UNCHANGED chain => ChainsTyped'
  /\ DownTyped /\ UNCHANGED down => DownTyped'
  /\ QueueTyped /\ UNCHANGED <<subtree, queue>>
       /\ (turn' = "restart" /\ At("restart", "idle")' => turn = "restart" /\ At("restart", "idle"))
     => QueueTyped'
  /\ RecordsTyped /\ UNCHANGED <<state, published>> => RecordsTyped'
  /\ WorldTyped /\ UNCHANGED <<gen, handle, live, closing>> => WorldTyped'
BY DEF ChainsTyped, DownTyped, QueueTyped, RecordsTyped, WorldTyped, At

LEMMA AskTyped ==
  ASSUME WorldTyped, NEW rs, AskToClose(rs), UNCHANGED <<gen, handle, live>>
  PROVE  WorldTyped'
BY DEF WorldTyped, AskToClose

LEMMA ClosedTyped ==
  ASSUME WorldTyped, NEW r \in Resources, HasClosed(r), UNCHANGED <<gen, handle>>
  PROVE  WorldTyped'
BY DEF WorldTyped, HasClosed

LEMMA MarkTyped ==
  ASSUME RecordsTyped, NEW r, MarkFailed(r), UNCHANGED published
  PROVE  RecordsTyped'
BY DEF RecordsTyped, MarkFailed, States

LEMMA EraseTyped ==
  ASSUME RecordsTyped, NEW r, Erase(r)
  PROVE  RecordsTyped'
BY DEF RecordsTyped, Erase, States

\* A chain that is in the middle of something, and whose turn a step gives to
\* nobody else, leaves the queue alone.
LEMMA BusyTyped ==
  ASSUME QueueTyped, ChainsTyped, NEW c \in Chains, NEW pc, NEW todo,
         pc # "idle", Goes(c, pc, todo), UNCHANGED <<subtree, queue>>,
         turn' \in {c, "none", turn}
  PROVE  QueueTyped'
<1>1. chain'[c].pc = pc /\ \A d \in Chains : d # c => chain'[d] = chain[d]
  BY DEF ChainsTyped, Goes
<1>2. turn' = "restart" /\ At("restart", "idle")' => turn = "restart" /\ At("restart", "idle")
  BY <1>1 DEF At, Chains
<1> QED
  BY <1>2 DEF QueueTyped

\* The steps of a start and of its activations.
LEMMA ChainTyped ==
  ASSUME Typed, NEW c \in Chains,
         \/ Interrupt(c) \/ StartBlocked(c) \/ CallStart(c) \/ AllStarted(c)
         \/ SkipActivation(c) \/ CallActivate(c) \/ AllActivated(c) \/ StartSettles(c)
  PROVE  Typed'
<1>0. /\ ChainsTyped /\ DownTyped /\ QueueTyped /\ RecordsTyped /\ WorldTyped
      /\ chain[c].todo \in Seq(Resources)
      /\ chain[c].todo # <<>> => Current(c) \in Resources /\ Left(c) \in Seq(Resources)
      /\ \A pc \in Awaits : At(c, pc) => chain[c].todo # <<>>
  BY TodoIs DEF Typed, At
<1>00. /\ {"idle", "starting", "start", "ready", "activating", "activate", "failed", "done"}
            \subseteq ChainPCs
       /\ {"start", "ready", "activate"} \subseteq Awaits
       /\ {"idle", "starting", "activating", "failed", "done"} \cap Awaits = {}
       /\ <<>> \in Seq(Resources)
  BY DEF ChainPCs, Awaits
<1> USE <1>0, <1>00 DEF Typed, kernelVars, recordVars, restartVars, downVars, worldVars
<1>1. CASE Interrupt(c)
  <2>1. Goes(c, "failed", <<>>)
    BY <1>1 DEF Interrupt
  <2>2. ChainsTyped' /\ QueueTyped'
    BY <1>1, <2>1, Goto, BusyTyped DEF Interrupt
  <2> QED
    BY <1>1, <2>2, SameTyped DEF Interrupt
<1>2. CASE StartBlocked(c)
  <2>1. PICK pc \in {"failed", "starting"}, todo \in {<<>>, Left(c)} : Goes(c, pc, todo)
    BY <1>2 DEF StartBlocked
  <2>2. ChainsTyped' /\ QueueTyped'
    BY <1>2, <2>1, Goto, BusyTyped DEF StartBlocked
  <2> QED
    BY <1>2, <2>2, SameTyped, MarkTyped DEF StartBlocked
<1>3. CASE CallStart(c)
  <2>1. Goes(c, "start", chain[c].todo) /\ chain[c].todo # <<>>
    BY <1>3 DEF CallStart
  <2>2. ChainsTyped' /\ QueueTyped'
    BY <1>3, <2>1, Goto, BusyTyped DEF CallStart
  <2>3. RecordsTyped'
    BY <1>3 DEF CallStart, RecordsTyped, States
  <2>4. /\ gen' = [gen EXCEPT ![Current(c)] = @ + 1]
        /\ handle' = [handle EXCEPT ![Current(c)] =
               [d \in Resources |-> IF d \in DependsOn[Current(c)] THEN published[d] ELSE 0]]
        /\ UNCHANGED <<live, closing>> /\ Current(c) \in Resources
    BY <1>3 DEF CallStart
  <2>5. gen' \in [Resources -> Nat]
    BY <2>4 DEF WorldTyped
  <2>6. handle' \in [Resources -> [Resources -> Nat]]
    BY <2>4 DEF WorldTyped, RecordsTyped
  <2>7. WorldTyped'
    BY <2>4, <2>5, <2>6 DEF WorldTyped
  <2> QED
    BY <1>3, <2>2, <2>3, <2>7, SameTyped DEF CallStart
<1>4. CASE AllStarted(c)
  <2>1. Goes(c, "activating", Entries(c)) /\ Entries(c) \in Seq(Resources)
    BY <1>4, OrderIs DEF AllStarted, Entries, QueueTyped
  <2>2. ChainsTyped' /\ QueueTyped'
    BY <1>4, <2>1, Goto, BusyTyped DEF AllStarted
  <2> QED
    BY <1>4, <2>2, SameTyped DEF AllStarted
<1>5. CASE SkipActivation(c)
  <2>1. PICK pc \in {"failed", "activating"}, todo \in {<<>>, Left(c)} : Goes(c, pc, todo)
    BY <1>5 DEF SkipActivation
  <2>2. ChainsTyped' /\ QueueTyped'
    BY <1>5, <2>1, Goto, BusyTyped DEF SkipActivation
  <2>3. RecordsTyped'
    BY <1>5, SameTyped, MarkTyped DEF SkipActivation
  <2> QED
    BY <1>5, <2>2, <2>3, SameTyped DEF SkipActivation
<1>6. CASE CallActivate(c)
  <2>1. Goes(c, "activate", chain[c].todo) /\ chain[c].todo # <<>>
    BY <1>6 DEF CallActivate
  <2>2. ChainsTyped' /\ QueueTyped'
    BY <1>6, <2>1, Goto, BusyTyped DEF CallActivate
  <2> QED
    BY <1>6, <2>2, SameTyped DEF CallActivate
<1>7. CASE AllActivated(c)
  <2>1. PICK pc \in {"done", "failed", "idle"} : Goes(c, pc, <<>>)
    BY <1>7 DEF AllActivated
  <2>2. ChainsTyped'
    BY <2>1, Goto
  <2>3. /\ UNCHANGED queue /\ subtree' \in {subtree, <<>>}
        /\ turn' = "restart" => chain'["restart"].pc # "idle" \/ turn' = NextTurn(queue)
    BY <1>7, <2>1, Goto DEF AllActivated, Chains
  <2>4. QueueTyped'
    BY <2>3 DEF QueueTyped, NextTurn, At
  <2> QED
    BY <1>7, <2>2, <2>4, SameTyped DEF AllActivated
<1>8. CASE StartResolves(c)
  <2>0. At(c, "start") /\ Current(c) \in Resources /\ Left(c) \in Seq(Resources)
    BY <1>8 DEF StartResolves
  <2>1. PICK pc \in {"failed", "ready", "starting"}, todo \in {<<>>, chain[c].todo, Left(c)} :
          Goes(c, pc, todo) /\ (pc = "ready" => todo = chain[c].todo)
    BY <1>8 DEF StartResolves, BecomesReady
  <2>2. turn' \in {turn, c} /\ UNCHANGED <<subtree, queue>>
    BY <1>8 DEF StartResolves
  <2>3. ChainsTyped' /\ QueueTyped'
    BY <2>0, <2>1, <2>2, Goto, BusyTyped
  <2>4. RecordsTyped'
    <3>1. /\ state' \in {state, [state EXCEPT ![Current(c)] = "ready"]}
          /\ published' \in {published, [published EXCEPT ![Current(c)] = gen[Current(c)]]}
      BY <1>8 DEF StartResolves, BecomesReady
    <3> QED
      BY <2>0, <3>1 DEF RecordsTyped, WorldTyped, States
  <2>5. WorldTyped'
    <3>1. /\ live' = [live EXCEPT ![Current(c)] = @ \cup {gen[Current(c)]}]
          /\ UNCHANGED <<gen, handle, closing>>
      BY <1>8 DEF StartResolves
    <3> QED
      BY <2>0, <3>1 DEF WorldTyped
  <2> QED
    BY <1>8, <2>3, <2>4, <2>5, SameTyped DEF StartResolves
<1>9. CASE ReadyResolves(c)
  <2>0. At(c, "ready") /\ Current(c) \in Resources /\ Left(c) \in Seq(Resources)
    BY <1>9 DEF ReadyResolves
  <2>1. PICK pc \in {"failed", "starting"}, todo \in {<<>>, Left(c)} : Goes(c, pc, todo)
    BY <1>9 DEF ReadyResolves, BecomesReady
  <2>2. ChainsTyped' /\ QueueTyped'
    BY <1>9, <2>0, <2>1, Goto, BusyTyped DEF ReadyResolves
  <2>3. RecordsTyped'
    BY <1>9 DEF ReadyResolves, BecomesReady, RecordsTyped, States
  <2> QED
    BY <1>9, <2>2, <2>3, SameTyped DEF ReadyResolves
<1>10. CASE StartRejects(c)
  <2>0. chain[c].todo # <<>> /\ Current(c) \in Resources /\ Left(c) \in Seq(Resources)
    BY <1>10 DEF StartRejects, At
  <2>1. PICK pc \in {"failed", "starting"}, todo \in {<<>>, Left(c)} : Goes(c, pc, todo)
    BY <1>10 DEF StartRejects
  <2>2. ChainsTyped' /\ QueueTyped'
    BY <1>10, <2>0, <2>1, Goto, BusyTyped DEF StartRejects
  <2>3. RecordsTyped'
    BY <1>10, MarkTyped DEF StartRejects
  <2>4. WorldTyped'
    <3>1. /\ live' = [live EXCEPT ![Current(c)] = @ \cup {gen[Current(c)]}]
          /\ UNCHANGED <<gen, handle, closing>>
      BY <1>10 DEF StartRejects
    <3> QED
      BY <2>0, <3>1 DEF WorldTyped
  <2> QED
    BY <1>10, <2>2, <2>3, <2>4, SameTyped DEF StartRejects
<1>11. CASE ActivateResolves(c)
  <2>0. At(c, "activate") /\ Current(c) \in Resources /\ Left(c) \in Seq(Resources)
    BY <1>11 DEF ActivateResolves
  <2>1. PICK pc \in {"failed", "activating"}, todo \in {<<>>, Left(c)} : Goes(c, pc, todo)
    BY <1>11 DEF ActivateResolves
  <2>2. ChainsTyped' /\ QueueTyped'
    BY <1>11, <2>0, <2>1, Goto, BusyTyped DEF ActivateResolves
  <2>3. RecordsTyped'
    BY <1>11, SameTyped, MarkTyped DEF ActivateResolves
  <2> QED
    BY <1>11, <2>2, <2>3, SameTyped DEF ActivateResolves
<1>12. CASE ActivateRejects(c)
  <2>0. At(c, "activate") /\ Current(c) \in Resources /\ Left(c) \in Seq(Resources)
    BY <1>12 DEF ActivateRejects
  <2>1. PICK pc \in {"failed", "activating"}, todo \in {<<>>, Left(c)} : Goes(c, pc, todo)
    BY <1>12 DEF ActivateRejects
  <2>2. ChainsTyped' /\ QueueTyped'
    BY <1>12, <2>0, <2>1, Goto, BusyTyped DEF ActivateRejects
  <2> QED
    BY <1>12, <2>2, SameTyped, MarkTyped DEF ActivateRejects
<1> QED
  BY <1>1, <1>2, <1>3, <1>4, <1>5, <1>6, <1>7, <1>8, <1>9, <1>10, <1>11, <1>12 DEF StartSettles

\* The steps of a rollback.
LEMMA RollbackTyped ==
  ASSUME Typed, StartFails \/ RollbackNext \/ RollbackCloses \/ RollbackFails \/ RolledBack
  PROVE  Typed'
<1>0. /\ ChainsTyped /\ DownTyped /\ QueueTyped /\ RecordsTyped /\ WorldTyped
      /\ chain["start"].todo \in Seq(Resources) /\ "start" \in Chains
      /\ chain["start"].todo # <<>> =>
           Current("start") \in Resources /\ Left("start") \in Seq(Resources)
      /\ At("start", "rollbackClose") => chain["start"].todo # <<>>
  BY TodoIs DEF Typed, At, Chains, Awaits
<1>00. /\ {"rollback", "rollbackClose", "done"} \subseteq ChainPCs
       /\ {"rollback", "done"} \cap Awaits = {}
       /\ <<>> \in Seq(Resources) /\ Reverse(Order) \in Seq(Resources)
  BY OrderIs DEF ChainPCs, Awaits
<1> USE <1>0, <1>00 DEF Typed, kernelVars, recordVars, restartVars, downVars, worldVars
<1>1. CASE StartFails
  <2>1. PICK pc \in {"done", "rollback"}, todo \in {<<>>, Reverse(Order)} : Goes("start", pc, todo)
    BY <1>1 DEF StartFails
  <2>2. ChainsTyped' /\ QueueTyped'
    BY <1>1, <2>1, Goto, BusyTyped DEF StartFails
  <2> QED
    BY <1>1, <2>2, SameTyped DEF StartFails
<1>2. CASE RollbackNext
  <2>1. PICK pc \in {"rollback", "rollbackClose"}, todo \in {chain["start"].todo, Left("start")} :
          Goes("start", pc, todo) /\ (pc = "rollbackClose" => todo = chain["start"].todo)
    BY <1>2 DEF RollbackNext
  <2>2. chain["start"].todo # <<>> /\ turn' \in {"none", turn} /\ UNCHANGED <<subtree, queue>>
    BY <1>2 DEF RollbackNext
  <2>3. ChainsTyped' /\ QueueTyped'
    BY <2>1, <2>2, Goto, BusyTyped
  <2>4. RecordsTyped'
    BY <1>2 DEF RollbackNext, RecordsTyped, States
  <2>5. WorldTyped'
    BY <1>2, AskTyped, SameTyped DEF RollbackNext
  <2> QED
    BY <1>2, <2>3, <2>4, <2>5, SameTyped DEF RollbackNext
<1>3. CASE RollbackCloses
  <2>1. Goes("start", "rollback", Left("start"))
    BY <1>3 DEF RollbackCloses
  <2>2. ChainsTyped' /\ QueueTyped'
    BY <1>3, <2>1, Goto, BusyTyped DEF RollbackCloses
  <2>3. RecordsTyped'
    BY <1>3 DEF RollbackCloses, RecordsTyped, States
  <2>4. WorldTyped'
    BY <1>3, ClosedTyped DEF RollbackCloses
  <2> QED
    BY <1>3, <2>2, <2>3, <2>4, SameTyped DEF RollbackCloses
<1>4. CASE RollbackFails
  <2>1. PICK rest \in {Left("start"), <<>>} : Goes("start", "rollback", rest)
    BY <1>4 DEF RollbackFails
  <2>2. ChainsTyped' /\ QueueTyped'
    BY <1>4, <2>1, Goto, BusyTyped DEF RollbackFails
  <2>3. RecordsTyped'
    BY <1>4 DEF RollbackFails, RecordsTyped, States
  <2> QED
    BY <1>4, <2>2, <2>3, SameTyped DEF RollbackFails
<1>5. CASE RolledBack
  <2>1. Goes("start", "done", <<>>)
    BY <1>5 DEF RolledBack
  <2>2. ChainsTyped' /\ QueueTyped'
    BY <1>5, <2>1, Goto, BusyTyped DEF RolledBack
  <2> QED
    BY <1>5, <2>2, SameTyped DEF RolledBack
<1> QED
  BY <1>1, <1>2, <1>3, <1>4, <1>5

\* The steps of restarts.
LEMMA RestartTyped ==
  ASSUME Typed,
         \/ Refuse \/ RunRestart \/ CloseOne \/ Closed \/ RestartFails
         \/ PhaseResolves \/ CloseResolves \/ PhaseFails \/ RestartTimeout
         \/ \E r \in Resources : Restart(r)
  PROVE  Typed'
<1>0. /\ ChainsTyped /\ DownTyped /\ QueueTyped /\ RecordsTyped /\ WorldTyped
      /\ chain["restart"].todo \in Seq(Resources) /\ "restart" \in Chains
      /\ chain["restart"].todo # <<>> =>
           Current("restart") \in Resources /\ Left("restart") \in Seq(Resources)
      /\ \A pc \in Awaits : At("restart", pc) => chain["restart"].todo # <<>>
  BY TodoIs DEF Typed, At, Chains
<1>00. /\ {"idle", "starting", "closing", "stopAdmission", "drain", "close", "failed"}
            \subseteq ChainPCs
       /\ {"stopAdmission", "drain", "close"} \subseteq Awaits
       /\ {"idle", "starting", "closing", "failed"} \cap Awaits = {}
       /\ <<>> \in Seq(Resources)
  BY DEF ChainPCs, Awaits
<1> USE <1>0, <1>00 DEF Typed, kernelVars, recordVars, restartVars, downVars, worldVars
<1>1. CASE Refuse
  <2>1. queue # <<>> /\ queue' = Tail(queue) /\ turn' = NextTurn(queue')
    BY <1>1 DEF Refuse, QueueTyped
  <2>2. queue' \in Seq(Resources) /\ UNCHANGED subtree
    BY <1>1, <2>1 DEF Refuse, QueueTyped
  <2>3. QueueTyped'
    BY <2>1, <2>2 DEF QueueTyped, NextTurn
  <2> QED
    BY <1>1, <2>3, SameTyped DEF Refuse
<1>2. CASE RunRestart
  <2>1. queue # <<>> /\ queue' = Tail(queue) /\ turn' = turn
    BY <1>2 DEF RunRestart, QueueTyped
  <2>2. queue' \in Seq(Resources) /\ Head(queue) \in Resources
    BY <2>1 DEF QueueTyped
  <2>3. PICK s \in SetToSeqs(Dependants(Head(queue))) :
          InStartOrder(s) /\ subtree' = s /\ Goes("restart", "closing", Reverse(s))
    BY <1>2 DEF RunRestart
  <2>4. subtree' \in Seq(Resources) /\ Reverse(s) \in Seq(Resources)
    BY <2>2, <2>3, SubtreeIs
  <2>5. ChainsTyped' /\ ~At("restart", "idle")'
    BY <2>3, <2>4, Goto DEF At
  <2>6. QueueTyped'
    BY <2>2, <2>4, <2>5 DEF QueueTyped
  <2> QED
    BY <1>2, <2>5, <2>6, SameTyped DEF RunRestart
<1>3. CASE CloseOne
  <2>1. PICK pc \in {"stopAdmission", "closing"}, todo \in {chain["restart"].todo, Left("restart")} :
          Goes("restart", pc, todo) /\ (pc = "stopAdmission" => todo = chain["restart"].todo)
    BY <1>3 DEF CloseOne
  <2>2. chain["restart"].todo # <<>> /\ turn' \in {"none", turn} /\ UNCHANGED <<subtree, queue>>
    BY <1>3 DEF CloseOne
  <2>3. ChainsTyped' /\ QueueTyped'
    BY <2>1, <2>2, Goto, BusyTyped
  <2>4. RecordsTyped'
    BY <1>3, SameTyped, EraseTyped DEF CloseOne
  <2> QED
    BY <1>3, <2>3, <2>4, SameTyped DEF CloseOne
<1>4. CASE Closed
  <2>1. Goes("restart", "starting", subtree) /\ subtree \in Seq(Resources)
    BY <1>4 DEF Closed, QueueTyped
  <2>2. ChainsTyped' /\ QueueTyped'
    BY <1>4, <2>1, Goto, BusyTyped DEF Closed
  <2> QED
    BY <1>4, <2>2, SameTyped DEF Closed
<1>5. CASE RestartFails
  <2>1. Goes("restart", "idle", <<>>)
    BY <1>5 DEF RestartFails
  <2>2. QueueTyped'
    BY <1>5 DEF RestartFails, QueueTyped, NextTurn
  <2>3. ChainsTyped'
    BY <2>1, Goto
  <2> QED
    BY <1>5, <2>2, <2>3, SameTyped DEF RestartFails
<1>6. CASE PhaseResolves
  <2>1. PICK pc \in {"close", "drain"} : Goes("restart", pc, chain["restart"].todo)
    BY <1>6 DEF PhaseResolves
  <2>2. chain["restart"].todo # <<>>
    BY <1>6 DEF PhaseResolves, At
  <2>3. ChainsTyped' /\ QueueTyped'
    BY <1>6, <2>1, <2>2, Goto, BusyTyped DEF PhaseResolves
  <2>4. WorldTyped'
    BY <1>6, AskTyped, SameTyped DEF PhaseResolves
  <2> QED
    BY <1>6, <2>3, <2>4, SameTyped DEF PhaseResolves
<1>7. CASE CloseResolves
  <2>1. Goes("restart", "closing", Left("restart")) /\ Current("restart") \in Resources
        /\ Left("restart") \in Seq(Resources)
    BY <1>7 DEF CloseResolves
  <2>2. ChainsTyped' /\ QueueTyped'
    BY <1>7, <2>1, Goto, BusyTyped DEF CloseResolves
  <2>3. RecordsTyped'
    BY <1>7, EraseTyped DEF CloseResolves
  <2>4. WorldTyped'
    BY <1>7, <2>1, ClosedTyped DEF CloseResolves
  <2> QED
    BY <1>7, <2>2, <2>3, <2>4, SameTyped DEF CloseResolves
<1>8. CASE PhaseFails
  <2>1. Goes("restart", "failed", <<>>)
    BY <1>8 DEF PhaseFails
  <2>2. ChainsTyped' /\ QueueTyped'
    BY <1>8, <2>1, Goto, BusyTyped DEF PhaseFails
  <2> QED
    BY <1>8, <2>2, SameTyped DEF PhaseFails
<1>9. CASE RestartTimeout
  BY <1>9, SameTyped DEF RestartTimeout, At
<1>10. ASSUME NEW r \in Resources, Restart(r)
       PROVE  Typed'
  <2>1. queue' = Append(queue, r) /\ UNCHANGED subtree
    BY <1>10 DEF Restart
  <2>2. QueueTyped'
    BY <2>1 DEF QueueTyped
  <2> QED
    BY <1>10, <2>2, SameTyped DEF Restart
<1> QED
  BY <1>1, <1>2, <1>3, <1>4, <1>5, <1>6, <1>7, <1>8, <1>9, <1>10

-----------------------------------------------------------------------------
(* What a sweep has left *)

\* A set of numbers has a least one.
LEMMA MinIs ==
  ASSUME NEW S \in SUBSET Nat, IsFiniteSet(S), S # {}
  PROVE  Min(S) \in S /\ \A y \in S : Min(S) <= y
<1> DEFINE Below(x) == {y \in S : y < x}
           T == {Below(x) : x \in S}
           R == StrictSubsetOrdering(S)
<1>1. IsWellFoundedOn(R, SUBSET S)
  BY FS_StrictSubsetOrderingWellFounded, FS_FiniteSubsetsOfFinite
<1>2. T \subseteq SUBSET S /\ T # {}
  OBVIOUS
<1>3. PICK A \in T : \A B \in T : <<B, A>> \notin R
  <2> HIDE DEF T, R
  <2> QED
    BY <1>1, <1>2, WFMin
<1>4. PICK x \in S : A = Below(x)
  BY <1>3
<1>5. ASSUME NEW y \in S, y < x PROVE FALSE
  <2>1. y \in A /\ y \notin Below(y) /\ Below(y) \in T
    BY <1>4, <1>5
  <2>4. \A z \in S : z < y => z < x
    BY <1>5
  <2>5. Below(y) \subseteq A
    BY <1>4, <2>4
  <2>2. Below(y) \in SUBSET S /\ A \in SUBSET S
    BY <1>4
  <2> HIDE DEF Below, T
  <2>3. <<Below(y), A>> \in R
    BY <2>1, <2>2, <2>5 DEF StrictSubsetOrdering
  <2> QED
    BY <1>3, <2>1, <2>3
<1>6. \A y \in S : x <= y
  BY <1>5
<1> QED
  BY <1>6 DEF Min

\* A sweep goes on with the first resource it does not pass over.
LEMMA RemainingIs ==
  ASSUME down.todo \in Seq(Resources)
  PROVE  /\ Remaining \in Seq(Resources) /\ ToSet(Remaining) \subseteq ToSet(down.todo)
         /\ \A r \in ToSet(down.todo) : r \in ToSet(Remaining) \/ Passes(r)
         /\ Remaining # <<>> => ~Passes(Head(Remaining)) /\ Head(Remaining) \in ToSet(down.todo)
<1> DEFINE s == down.todo
           n == Len(s)
           I == {i \in 1 .. n : ~Passes(s[i])}
           k == Min(I)
           t == SubSeq(s, k, n)
<1>1. n \in Nat /\ \A e : e \in ToSet(s) <=> \E i \in 1 .. n : s[i] = e
  BY ElementIs
<1>2. Remaining = IF I = {} THEN <<>> ELSE IF k = 0 THEN <<>> ELSE t
  <2>1. SelectInSeq(s, LAMBDA r : ~Passes(r)) = IF I # {} THEN k ELSE 0
    BY DEF SelectInSeq
  <2> HIDE DEF I, k
  <2> QED
    BY <2>1 DEF Remaining, t
<1>3. CASE I = {}
  <2>1. Remaining = <<>>
    BY <1>2, <1>3
  <2>2. \A i \in 1 .. n : Passes(s[i])
    BY <1>3
  <2>3. ToSet(<<>>) = {}
    BY DEF ToSet
  <2> QED
    BY <1>1, <2>1, <2>2, <2>3
<1>4. CASE I # {}
  <2>1. IsFiniteSet(1 .. n) /\ I \subseteq 1 .. n /\ I \in SUBSET Nat
    BY <1>1, FS_Interval
  <2>2. IsFiniteSet(I)
    BY <2>1, FS_Subset
  <2>3. k \in I /\ \A y \in I : k <= y
    <3> HIDE DEF I
    <3> QED
      BY <1>4, <2>1, <2>2, MinIs
  <2>4. k \in 1 .. n /\ ~Passes(s[k]) /\ \A i \in 1 .. n : i < k => Passes(s[i])
    <3>1. \A i \in 1 .. n : i \notin I => Passes(s[i])
      OBVIOUS
    <3>2. k \in 1 .. n /\ ~Passes(s[k]) /\ \A i \in I : k <= i
      BY <2>3
    <3> HIDE DEF I, k
    <3> QED
      BY <1>1, <3>1, <3>2
  <2> HIDE DEF I, k
  <2>5. /\ t \in Seq(Resources) /\ Len(t) = n - k + 1 /\ \A i \in 1 .. n - k + 1 : t[i] = s[k + i - 1]
    BY <1>1, <2>4
  <2>6. \A e : e \in ToSet(t) <=> \E i \in 1 .. n - k + 1 : t[i] = e
    <3> HIDE DEF t, n
    <3> QED
      BY <2>5, ElementIs
  <2>7. Remaining = t /\ t # <<>> /\ Head(t) = s[k]
    <3>1. n - k + 1 > 0 /\ 1 \in 1 .. n - k + 1 /\ k + 1 - 1 = k
      BY <1>1, <2>4
    <3>2. k # 0
      BY <2>4
    <3> HIDE DEF n, t
    <3> QED
      BY <1>2, <1>4, <2>5, <3>1, <3>2
  <2> HIDE DEF t, n
  <2>8. ToSet(t) \subseteq ToSet(s)
    <3>1. \A i \in 1 .. n - k + 1 : k + i - 1 \in 1 .. n
      BY <1>1, <2>4
    <3> QED
      BY <1>1, <2>5, <2>6, <3>1
  <2>9. ASSUME NEW r \in ToSet(s), ~Passes(r) PROVE r \in ToSet(t)
    <3>1. PICK i \in 1 .. n : s[i] = r
      BY <1>1
    <3>2. ~(i < k)
      BY <2>4, <2>9, <3>1
    <3>3. i - k + 1 \in 1 .. n - k + 1 /\ k + (i - k + 1) - 1 = i
      BY <1>1, <2>4, <3>2
    <3> QED
      BY <2>5, <2>6, <3>1, <3>3
  <2> QED
    BY <1>1, <2>4, <2>5, <2>7, <2>8, <2>9
<1> QED
  BY <1>3, <1>4

-----------------------------------------------------------------------------
(* The types, continued *)

\* Callers and resources.
LEMMA OutsideTyped ==
  ASSUME Typed,
         \/ Start \/ Acquire \/ Release
         \/ \E r \in Resources : LateCompletion(r) \/ ReportHealth(r)
  PROVE  Typed'
<1> USE DEF Typed, kernelVars, recordVars, restartVars, downVars, worldVars
<1>1. CASE Start
  <2>1. Goes("start", "starting", Order) /\ Order \in Seq(Resources) /\ "start" \in Chains
        /\ "starting" \in ChainPCs \ Awaits
    BY <1>1, OrderIs DEF Start, Chains, ChainPCs, Awaits
  <2>2. ChainsTyped' /\ QueueTyped'
    BY <1>1, <2>1, Goto, BusyTyped DEF Start
  <2> QED
    BY <1>1, <2>2, SameTyped DEF Start
<1>2. CASE Acquire
  BY <1>2, SameTyped DEF Acquire, At
<1>3. CASE Release
  BY <1>3, SameTyped DEF Release, At
<1>4. ASSUME NEW r \in Resources, LateCompletion(r)
      PROVE  Typed'
  <2>1. RecordsTyped'
    BY <1>4, SameTyped, MarkTyped DEF LateCompletion
  <2> QED
    BY <1>4, <2>1, SameTyped DEF LateCompletion, At
<1>5. ASSUME NEW r \in Resources, ReportHealth(r)
      PROVE  Typed'
  BY <1>5, SameTyped DEF ReportHealth, At
<1> QED
  BY <1>1, <1>2, <1>3, <1>4, <1>5

\* Where the shutdown goes.
LEMMA DownGoto ==
  ASSUME NEW pc \in DownPCs, NEW todo \in Seq(Resources), pc \in Hooks => todo # <<>>,
         DownGoes(pc, todo)
  PROVE  DownTyped' /\ down'.pc = pc /\ down'.todo = todo
BY DEF DownTyped, DownGoes

\* The shutdown.
LEMMA ShutdownTyped ==
  ASSUME Typed,
         \/ Shutdown \/ StartAwaited \/ ForceNow \/ SweepCalls \/ HookResolves \/ HookRejects
         \/ SweepEnds \/ PendingOver \/ Clean \/ ForceSweep \/ ForceFails \/ ForceEnds
         \/ \E r \in Resources : ForceResolves(r)
  PROVE  Typed'
<1>0. /\ ChainsTyped /\ DownTyped /\ QueueTyped /\ RecordsTyped /\ WorldTyped
      /\ down.todo \in Seq(Resources) /\ (down.pc \in Hooks => down.todo # <<>>)
      /\ <<>> \in Seq(Resources) /\ Reverse(Order) \in Seq(Resources)
      /\ DownPCs \ Hooks = {"idle", "startPromise", "stopping", "pending", "draining", "closing",
                            "force", "done"}
      /\ Hooks \subseteq DownPCs
  BY OrderIs DEF Typed, DownTyped, DownPCs, Hooks
<1>00. down.todo # <<>> => NextDown \in Resources /\ Tail(down.todo) \in Seq(Resources)
  BY <1>0, Popped DEF NextDown
<1> USE <1>0 DEF Typed, kernelVars, recordVars, restartVars, downVars, worldVars
<1>1. CASE Shutdown
  <2>1. PICK pc \in {"stopping", "startPromise"}, todo \in {<<>>, Reverse(Order)} : DownGoes(pc, todo)
    BY <1>1 DEF Shutdown
  <2>2. DownTyped'
    BY <2>1, DownGoto
  <2> QED
    BY <1>1, <2>2, SameTyped DEF Shutdown, At
<1>2. CASE StartAwaited
  <2>1. DownTyped'
    BY <1>2, DownGoto DEF StartAwaited
  <2> QED
    BY <1>2, <2>1, SameTyped DEF StartAwaited, At
<1>3. CASE ForceNow
  <2>1. DownTyped'
    BY <1>3, DownGoto DEF ForceNow
  <2> QED
    BY <1>3, <2>1, SameTyped DEF ForceNow, At
<1>4. CASE SweepCalls
  <2>1. PICK pc \in Hooks : DownGoes(pc, Remaining)
    BY <1>4 DEF SweepCalls, Hooks
  <2>2. DownTyped'
    BY <1>4, <2>1, RemainingIs, DownGoto DEF SweepCalls
  <2>3. RecordsTyped'
    BY <1>4 DEF SweepCalls, RecordsTyped, States
  <2>4. WorldTyped'
    BY <1>4, AskTyped, SameTyped DEF SweepCalls
  <2> QED
    BY <1>4, <2>2, <2>3, <2>4, SameTyped DEF SweepCalls, At
<1>5. CASE HookResolves
  <2>1. DownGoes(LoopOf[down.pc], Tail(down.todo)) /\ down.todo # <<>> /\ down.pc \in Hooks
    BY <1>5 DEF HookResolves
  <2>2. LoopOf[down.pc] \in DownPCs \ Hooks
    BY <2>1 DEF LoopOf, Hooks, DownPCs
  <2>3. DownTyped'
    BY <1>00, <2>1, <2>2, DownGoto
  <2>4. RecordsTyped'
    BY <1>5 DEF HookResolves, RecordsTyped, States
  <2>5. WorldTyped'
    BY <1>00, <1>5, <2>1, ClosedTyped, SameTyped DEF HookResolves
  <2> QED
    BY <1>5, <2>3, <2>4, <2>5, SameTyped DEF HookResolves, At
<1>6. CASE HookRejects
  <2>1. DownGoes(LoopOf[down.pc], Tail(down.todo)) /\ down.todo # <<>> /\ down.pc \in Hooks
    BY <1>6 DEF HookRejects
  <2>2. LoopOf[down.pc] \in DownPCs \ Hooks
    BY <2>1 DEF LoopOf, Hooks, DownPCs
  <2>3. DownTyped'
    BY <1>00, <2>1, <2>2, DownGoto
  <2>4. RecordsTyped'
    BY <1>6 DEF HookRejects, RecordsTyped, States
  <2> QED
    BY <1>6, <2>3, <2>4, SameTyped DEF HookRejects, At
<1>7. CASE SweepEnds
  <2>1. PICK pc \in {"pending", "closing"}, todo \in {<<>>, Reverse(Order)} : DownGoes(pc, todo)
    BY <1>7 DEF SweepEnds
  <2>2. DownTyped'
    BY <2>1, DownGoto
  <2> QED
    BY <1>7, <2>2, SameTyped DEF SweepEnds, At
<1>8. CASE PendingOver
  <2>1. DownTyped'
    BY <1>8, DownGoto DEF PendingOver
  <2> QED
    BY <1>8, <2>1, SameTyped DEF PendingOver, At
<1>9. CASE Clean
  <2>1. DownTyped'
    BY <1>9, DownGoto DEF Clean, Returns
  <2> QED
    BY <1>9, <2>1, SameTyped DEF Clean, Returns, At
<1>10. CASE ForceSweep
  <2>1. DownTyped'
    BY <1>10, DownGoto DEF ForceSweep
  <2>2. WorldTyped'
    BY <1>10 DEF ForceSweep, AskToClose, WorldTyped
  <2> QED
    BY <1>10, <2>1, <2>2, SameTyped DEF ForceSweep, At
<1>11. CASE ForceFails
  BY <1>11, SameTyped DEF ForceFails, At
<1>12. CASE ForceEnds
  <2>1. DownTyped'
    BY <1>12, DownGoto DEF ForceEnds, Returns
  <2> QED
    BY <1>12, <2>1, SameTyped DEF ForceEnds, Returns, At
<1>13. ASSUME NEW r \in Resources, ForceResolves(r)
       PROVE  Typed'
  <2>1. RecordsTyped'
    BY <1>13 DEF ForceResolves, RecordsTyped, States
  <2>2. WorldTyped'
    BY <1>13, ClosedTyped DEF ForceResolves
  <2> QED
    BY <1>13, <2>1, <2>2, SameTyped DEF ForceResolves, At
<1> QED
  BY <1>1, <1>2, <1>3, <1>4, <1>5, <1>6, <1>7, <1>8, <1>9, <1>10, <1>11, <1>12, <1>13

\* Every step keeps the types.
LEMMA NextTyped == ASSUME Typed, [Next]_vars PROVE Typed'
<1>1. CASE Callback
  BY <1>1, ChainTyped, RollbackTyped, RestartTyped, ShutdownTyped DEF Callback
<1>2. CASE Settles
  BY <1>2, ChainTyped, RollbackTyped, RestartTyped, ShutdownTyped DEF Settles
<1>3. CASE Outside
  BY <1>3, OutsideTyped, RestartTyped, ShutdownTyped DEF Outside
<1>4. CASE Resumes
  BY <1>4, RestartTyped, ShutdownTyped DEF Resumes
<1>5. CASE UNCHANGED vars
  BY <1>5, SameTyped DEF vars, Typed, recordVars, restartVars, downVars, worldVars, At
<1> QED
  BY <1>1, <1>2, <1>3, <1>4, <1>5 DEF Next

-----------------------------------------------------------------------------
(* Which programs run beside which, when no restart is called before start() *)
(* has settled: the start, then restarts, then the shutdown.                 *)

\* No restart was overtaken by a shutdown, and the grace has not ended.
Calm == ~raced /\ ~forced

\* The three programs take turns: restarts wait for the start, the shutdown
\* waits for the start and, as long as all is calm, finds no restart in flight.
Programs ==
  /\ ~At("start", "done") => At("restart", "idle") /\ turn # "restart" /\ queue = <<>>
  /\ lifecycle = "created" => At("start", "idle") /\ ~shutdownRequested
  /\ shutdownRequested <=> ~DownAt("idle")
  /\ turn = "down" => ~DownAt("idle")
  /\ ~shutdownRequested => Calm /\ ~gracefulFailed
  /\ Calm /\ shutdownRequested => At("restart", "idle")
  /\ Calm /\ down.pc \notin {"idle", "startPromise"} => chain["start"].pc \in {"idle", "done"}

\* The two programs a step of the third finds at rest.
LEMMA Alone ==
  ASSUME Programs, Calm
  PROVE  /\ ~At("restart", "idle") => At("start", "done") /\ DownAt("idle") /\ ~shutdownRequested
         /\ chain["start"].pc \notin {"idle", "done"} =>
              At("restart", "idle") /\ down.pc \in {"idle", "startPromise"}
         /\ down.pc \notin {"idle", "startPromise"} =>
              At("restart", "idle") /\ chain["start"].pc \in {"idle", "done"}
BY DEF Programs, At, DownAt

LEMMA InitPrograms == Init => Programs
BY DEF Init, Programs, Calm, At, DownAt, Chains

\* A chain that is in the middle of something moves.
LEMMA MovePrograms ==
  ASSUME Typed, Programs, NEW c \in Chains, chain[c].pc \notin {"idle", "done"},
         NEW pc \in ChainPCs, NEW todo \in Seq(Resources), pc \in Awaits => todo # <<>>,
         Goes(c, pc, todo), turn' \in {c, "none", turn} \/ turn' = NextTurn(queue),
         lifecycle' = "created" => lifecycle = "created",
         UNCHANGED <<shutdownRequested, queue, down, forced, gracefulFailed, raced>>
  PROVE  Programs'
<1>1. \A d \in Chains : d # c => chain'[d] = chain[d]
  BY Goto DEF Typed
<1>2. turn' \in {"start", "restart", "none", turn}
  BY DEF Chains, NextTurn
<1>3. CASE c = "start"
  BY <1>1, <1>2, <1>3 DEF Programs, At, DownAt, Calm, Chains, NextTurn
<1>4. CASE c = "restart"
  BY <1>1, <1>2, <1>4 DEF Programs, At, DownAt, Calm, Chains
<1> QED
  BY <1>3, <1>4 DEF Chains

LEMMA ChainPrograms ==
  ASSUME Typed, Programs, NEW c \in Chains,
         \/ Interrupt(c) \/ StartBlocked(c) \/ CallStart(c) \/ AllStarted(c)
         \/ SkipActivation(c) \/ CallActivate(c) \/ AllActivated(c) \/ StartSettles(c)
  PROVE  Programs'
<1>0. /\ chain[c].todo \in Seq(Resources) /\ Entries(c) \in Seq(Resources)
      /\ chain[c].todo # <<>> => Left(c) \in Seq(Resources)
      /\ \A pc \in Awaits : At(c, pc) => chain[c].todo # <<>>
  BY TodoIs, OrderIs DEF Typed, At, Entries, QueueTyped
<1>00. /\ {"idle", "starting", "start", "ready", "activating", "activate", "failed", "done"}
            \subseteq ChainPCs
       /\ {"start", "ready", "activate"} \subseteq Awaits
       /\ {"idle", "starting", "activating", "failed", "done"} \cap Awaits = {}
       /\ <<>> \in Seq(Resources)
  BY DEF ChainPCs, Awaits
<1>1. /\ chain[c].pc \notin {"idle", "done"}
      /\ turn' \in {c, "none", turn} \/ turn' = NextTurn(queue)
      /\ lifecycle' = "created" => lifecycle = "created"
      /\ UNCHANGED <<shutdownRequested, queue, down, forced, gracefulFailed, raced>>
  BY DEF Interrupt, StartBlocked, CallStart, AllStarted, SkipActivation, CallActivate,
         AllActivated, StartSettles, StartResolves, ReadyResolves, StartRejects, ActivateResolves,
         ActivateRejects, At, kernelVars, restartVars, downVars
<1>2. PICK pc \in ChainPCs, todo \in Seq(Resources) :
        Goes(c, pc, todo) /\ (pc \in Awaits => todo # <<>>)
  <2> USE <1>0, <1>00
  <2>1. CASE Interrupt(c)
    BY <2>1 DEF Interrupt
  <2>2. CASE StartBlocked(c)
    BY <2>2 DEF StartBlocked
  <2>3. CASE CallStart(c)
    BY <2>3 DEF CallStart
  <2>4. CASE AllStarted(c)
    BY <2>4 DEF AllStarted
  <2>5. CASE SkipActivation(c)
    BY <2>5 DEF SkipActivation
  <2>6. CASE CallActivate(c)
    BY <2>6 DEF CallActivate
  <2>7. CASE AllActivated(c)
    BY <2>7 DEF AllActivated
  <2>8. CASE StartResolves(c)
    BY <2>8 DEF StartResolves, BecomesReady
  <2>9. CASE ReadyResolves(c)
    BY <2>9 DEF ReadyResolves, BecomesReady
  <2>10. CASE StartRejects(c)
    BY <2>10 DEF StartRejects, At
  <2>11. CASE ActivateResolves(c)
    BY <2>11 DEF ActivateResolves
  <2>12. CASE ActivateRejects(c)
    BY <2>12 DEF ActivateRejects
  <2> QED
    BY <2>1, <2>2, <2>3, <2>4, <2>5, <2>6, <2>7, <2>8, <2>9, <2>10, <2>11, <2>12 DEF StartSettles
<1> QED
  BY <1>1, <1>2, MovePrograms

LEMMA RollbackPrograms ==
  ASSUME Typed, Programs,
         StartFails \/ RollbackNext \/ RollbackCloses \/ RollbackFails \/ RolledBack
  PROVE  Programs'
<1>0. /\ chain["start"].todo \in Seq(Resources) /\ "start" \in Chains
      /\ chain["start"].todo # <<>> => Left("start") \in Seq(Resources)
      /\ At("start", "rollbackClose") => chain["start"].todo # <<>>
  BY TodoIs DEF Typed, At, Chains, Awaits
<1>00. /\ {"rollback", "rollbackClose", "done"} \subseteq ChainPCs
       /\ {"rollback", "done"} \cap Awaits = {}
       /\ <<>> \in Seq(Resources) /\ Reverse(Order) \in Seq(Resources)
  BY OrderIs DEF ChainPCs, Awaits
<1>1. /\ chain["start"].pc \notin {"idle", "done"} /\ turn' \in {"start", "none", turn}
      /\ lifecycle' = "created" => lifecycle = "created"
      /\ UNCHANGED <<shutdownRequested, queue, down, forced, gracefulFailed, raced>>
  BY DEF StartFails, RollbackNext, RollbackCloses, RollbackFails, RolledBack, At, kernelVars,
         restartVars, downVars
<1>2. PICK pc \in ChainPCs, todo \in Seq(Resources) :
        Goes("start", pc, todo) /\ (pc \in Awaits => todo # <<>>)
  <2> USE <1>0, <1>00
  <2>1. CASE StartFails
    BY <2>1 DEF StartFails
  <2>2. CASE RollbackNext
    BY <2>2 DEF RollbackNext
  <2>3. CASE RollbackCloses
    BY <2>3 DEF RollbackCloses
  <2>4. CASE RollbackFails
    BY <2>4 DEF RollbackFails
  <2>5. CASE RolledBack
    BY <2>5 DEF RolledBack
  <2> QED
    BY <2>1, <2>2, <2>3, <2>4, <2>5
<1> QED
  BY <1>0, <1>1, <1>2, MovePrograms

LEMMA RestartPrograms ==
  ASSUME ~EarlyRestarts, Typed, Programs,
         \/ Refuse \/ RunRestart \/ CloseOne \/ Closed \/ RestartFails
         \/ PhaseResolves \/ CloseResolves \/ PhaseFails \/ RestartTimeout
         \/ \E r \in Resources : Restart(r)
  PROVE  Programs'
<1> USE DEF kernelVars, restartVars, downVars
<1>1. CASE Refuse
  BY <1>1 DEF Refuse, NextTurn, Programs, Calm, At, DownAt
<1>2. CASE RunRestart
  <2>1. At("start", "done") /\ ~raced' /\ ~raced /\ ~shutdownRequested
    BY <1>2 DEF RunRestart, Programs, Calm
  <2>2. PICK todo : Goes("restart", "closing", todo)
    BY <1>2 DEF RunRestart
  <2>3. chain'["start"] = chain["start"]
    BY <2>2 DEF Goes, Typed, ChainsTyped, Chains
  <2> QED
    BY <1>2, <2>1, <2>3 DEF RunRestart, Programs, Calm, At, DownAt
<1>3. ASSUME CloseOne \/ Closed \/ RestartFails \/ PhaseResolves \/ CloseResolves \/ PhaseFails
      PROVE  Programs'
  <2>0. /\ chain["restart"].todo \in Seq(Resources) /\ subtree \in Seq(Resources)
        /\ chain["restart"].todo # <<>> => Left("restart") \in Seq(Resources)
        /\ \A pc \in Awaits : At("restart", pc) => chain["restart"].todo # <<>>
        /\ "restart" \in Chains
    BY TodoIs DEF Typed, QueueTyped, At, Chains
  <2>1. /\ {"idle", "starting", "closing", "stopAdmission", "drain", "close", "failed"}
             \subseteq ChainPCs
        /\ {"stopAdmission", "drain", "close"} \subseteq Awaits
        /\ {"idle", "starting", "closing", "failed"} \cap Awaits = {}
        /\ <<>> \in Seq(Resources)
    BY DEF ChainPCs, Awaits
  <2>2. /\ chain["restart"].pc \notin {"idle", "done"}
        /\ turn' \in {"restart", "none", turn} \/ turn' = NextTurn(queue)
        /\ UNCHANGED <<lifecycle, shutdownRequested, queue, down, forced, gracefulFailed, raced>>
    BY <1>3 DEF CloseOne, Closed, RestartFails, PhaseResolves, CloseResolves, PhaseFails, At
  <2>3. PICK pc \in ChainPCs, todo \in Seq(Resources) :
          Goes("restart", pc, todo) /\ (pc \in Awaits => todo # <<>>)
    <3> USE <2>0, <2>1
    <3>1. CASE CloseOne
      BY <3>1 DEF CloseOne
    <3>2. CASE Closed
      BY <3>2 DEF Closed
    <3>3. CASE RestartFails
      BY <3>3 DEF RestartFails
    <3>4. CASE PhaseResolves
      BY <3>4 DEF PhaseResolves, At
    <3>5. CASE CloseResolves
      BY <3>5 DEF CloseResolves
    <3>6. CASE PhaseFails
      BY <3>6 DEF PhaseFails
    <3> QED
      BY <1>3, <3>1, <3>2, <3>3, <3>4, <3>5, <3>6
  <2> QED
    BY <2>0, <2>2, <2>3, MovePrograms
<1>4. CASE RestartTimeout
  BY <1>4 DEF RestartTimeout, Programs, Calm, At, DownAt
<1>5. ASSUME NEW r \in Resources, Restart(r)
      PROVE  Programs'
  BY <1>5 DEF Restart, Programs, Calm, At, DownAt
<1> QED
  BY <1>1, <1>2, <1>3, <1>4, <1>5

LEMMA OutsidePrograms ==
  ASSUME Typed, Programs,
         \/ Start \/ Acquire \/ Release
         \/ \E r \in Resources : LateCompletion(r) \/ ReportHealth(r)
  PROVE  Programs'
<1> USE DEF Programs, Calm, At, DownAt, kernelVars, restartVars, downVars
<1>1. CASE Start
  <2>1. chain'["restart"] = chain["restart"]
    BY <1>1 DEF Start, Goes, Typed, ChainsTyped, Chains
  <2> QED
    BY <1>1, <2>1 DEF Start
<1>2. CASE Acquire
  BY <1>2 DEF Acquire
<1>3. CASE Release
  BY <1>3 DEF Release
<1>4. ASSUME NEW r \in Resources, LateCompletion(r)
      PROVE  Programs'
  BY <1>4 DEF LateCompletion
<1>5. ASSUME NEW r \in Resources, ReportHealth(r)
      PROVE  Programs'
  BY <1>5 DEF ReportHealth
<1> QED
  BY <1>1, <1>2, <1>3, <1>4, <1>5

LEMMA ShutdownPrograms ==
  ASSUME Typed, Programs,
         \/ Shutdown \/ StartAwaited \/ ForceNow \/ SweepCalls \/ HookResolves \/ HookRejects
         \/ SweepEnds \/ PendingOver \/ Clean \/ ForceSweep \/ ForceFails \/ ForceEnds
         \/ \E r \in Resources : ForceResolves(r)
  PROVE  Programs'
<1> USE DEF Programs, Calm, At, DownAt, DownGoes, kernelVars, restartVars, downVars
<1>1. CASE Shutdown
  <2>1. /\ shutdownRequested' = TRUE /\ lifecycle' # "created" /\ UNCHANGED <<chain, queue>>
        /\ ~raced' => chain["restart"].pc = "idle"
        /\ down'.pc \in {"stopping", "startPromise"} /\ turn' \in {turn, "down"}
        /\ down'.pc = "stopping" => chain["start"].pc = "idle"
    <3>1. /\ shutdownRequested' = TRUE /\ lifecycle' # "created" /\ UNCHANGED <<chain, queue>>
          /\ turn' \in {turn, "down"}
      BY <1>1 DEF Shutdown
    <3>2. ~raced' => chain["restart"].pc = "idle"
      BY <1>1, Zenon DEF Shutdown
    <3>3. \/ chain["start"].pc = "idle" /\ down' = [pc |-> "stopping", todo |-> Reverse(Order)]
          \/ down' = [pc |-> "startPromise", todo |-> <<>>]
      BY <1>1 DEF Shutdown
    <3> QED
      BY <3>1, <3>2, <3>3
  <2>2. turn' = "restart" => turn = "restart"
    BY <2>1
  <2>3. ~At("start", "done")' => At("restart", "idle")' /\ turn' # "restart" /\ queue' = <<>>
    BY <2>1, <2>2
  <2>4. lifecycle' # "created" /\ (shutdownRequested' <=> ~DownAt("idle")')
    BY <2>1
  <2>5. /\ Calm' => At("restart", "idle")'
        /\ down'.pc # "startPromise" => chain'["start"].pc = "idle"
    BY <2>1
  <2> QED
    BY <2>1, <2>3, <2>4, <2>5
<1>2. CASE StartAwaited
  BY <1>2 DEF StartAwaited
<1>3. CASE ForceNow
  BY <1>3 DEF ForceNow
<1>4. CASE SweepCalls
  BY <1>4 DEF SweepCalls, Stops
<1>5. CASE HookResolves
  BY <1>5 DEF HookResolves, Hooks, LoopOf
<1>6. CASE HookRejects
  BY <1>6 DEF HookRejects, Hooks, LoopOf
<1>7. CASE SweepEnds
  BY <1>7 DEF SweepEnds
<1>8. CASE PendingOver
  BY <1>8 DEF PendingOver
<1>9. CASE Clean
  BY <1>9 DEF Clean, Returns
<1>10. CASE ForceSweep
  BY <1>10 DEF ForceSweep
<1>11. CASE ForceFails
  BY <1>11 DEF ForceFails
<1>12. CASE ForceEnds
  BY <1>12 DEF ForceEnds, Returns
<1>13. ASSUME NEW r \in Resources, ForceResolves(r)
       PROVE  Programs'
  BY <1>13 DEF ForceResolves
<1> QED
  BY <1>1, <1>2, <1>3, <1>4, <1>5, <1>6, <1>7, <1>8, <1>9, <1>10, <1>11, <1>12, <1>13

LEMMA NextPrograms == ASSUME ~EarlyRestarts, Typed, Programs, [Next]_vars PROVE Programs'
<1>1. CASE Callback
  BY <1>1, ChainPrograms, RollbackPrograms, RestartPrograms, ShutdownPrograms DEF Callback
<1>2. CASE Settles
  BY <1>2, ChainPrograms, RollbackPrograms, RestartPrograms, ShutdownPrograms DEF Settles
<1>3. CASE Outside
  BY <1>3, OutsidePrograms, RestartPrograms, ShutdownPrograms DEF Outside
<1>4. CASE Resumes
  BY <1>4, RestartPrograms, ShutdownPrograms DEF Resumes
<1>5. CASE UNCHANGED vars
  BY <1>5 DEF vars, kernelVars, restartVars, downVars, Programs, Calm, At, DownAt
<1> QED
  BY <1>1, <1>2, <1>3, <1>4, <1>5 DEF Next

-----------------------------------------------------------------------------
(* The generations *)

\* Only the last generation of a resource is open, ...
LastOnly == \A r \in Resources : live[r] \subseteq {gen[r]}
\* ... and the value it has published, unless it counts as closed, is of that one.
PublishedIsOpen == \A r \in Resources : r \notin closed => published[r] \in live[r] \cup {0}
Known == \A r \in Resources : live[r] # {} => IsUp(r)

\* Nothing is open, and the resource does not count as closed.
Fresh(r) == live[r] = {} /\ r \notin closed

\* What is still to be started is fresh.
Begun == At("start", "idle") /\ ~shutdownRequested => \A r \in Resources : Fresh(r)
Begins(c) ==
  /\ chain[c].pc \in {"starting", "start", "ready"} => IsInjective(chain[c].todo)
  /\ At(c, "starting") => \A r \in ToSet(chain[c].todo) : Fresh(r)
  /\ chain[c].pc \in {"start", "ready"} => IsUp(Current(c)) /\ \A r \in ToSet(Left(c)) : Fresh(r)
  /\ At(c, "start") => live[Current(c)] = {}

\* A restart has closed and erased what it has dealt with, and a close() it
\* waits for was called with every open generation.
Closes == {"closing", "stopAdmission", "drain", "close"}
Replaces ==
  /\ chain["restart"].pc \in Closes =>
       /\ IsInjective(subtree)
       /\ \A r \in ToSet(subtree) \ ToSet(chain["restart"].todo) : Fresh(r)
  /\ At("restart", "close") => live[Current("restart")] \subseteq closing[Current("restart")]

\* So were those the rollback and the shutdown wait for.
RollsBack == At("start", "rollbackClose") => live[Current("start")] \subseteq closing[Current("start")]
ClosesAll ==
  /\ DownAt("close") => live[NextDown] \subseteq closing[NextDown]
  /\ DownAt("force") => \A r \in forcing : live[r] \subseteq closing[r]

GenerationsInv ==
  /\ LastOnly /\ PublishedIsOpen
  /\ Calm => /\ Known /\ Begun /\ \A c \in Chains : Begins(c)
             /\ Replaces /\ RollsBack /\ ClosesAll

LEMMA InitGenerations == Init => GenerationsInv
<1> SUFFICES ASSUME Init PROVE GenerationsInv
  OBVIOUS
<1>1. /\ \A r \in Resources : live[r] = {} /\ published[r] = 0
      /\ closed = {} /\ \A c \in Chains : chain[c].pc = "idle"
      /\ down.pc = "idle"
  BY DEF Init, NoHandle
<1> QED
  BY <1>1 DEF GenerationsInv, LastOnly, PublishedIsOpen, Known, Fresh, Begun, Begins, Closes, Replaces,
              RollsBack, ClosesAll, At, DownAt, Chains

\* The places that say something about generations.
Touching == {"starting", "start", "ready", "rollbackClose"} \cup Closes

\* A step that opens and closes nothing, and goes to no such place.
LEMMA StillGenerations ==
  ASSUME GenerationsInv, Calm' => Calm,
         UNCHANGED <<live, closing, closed, gen, published>>, attempted \subseteq attempted',
         forcing' \subseteq forcing,
         \A c \in Chains : chain'[c] = chain[c] \/ chain'[c].pc \notin Touching,
         UNCHANGED subtree \/ chain'["restart"].pc \notin Touching,
         At("start", "idle")' /\ ~shutdownRequested' => At("start", "idle") /\ ~shutdownRequested,
         UNCHANGED down \/ down'.pc \notin {"close", "force"}
  PROVE  GenerationsInv'
<1>1. LastOnly' /\ PublishedIsOpen'
  BY DEF GenerationsInv, LastOnly, PublishedIsOpen
<1>2. ASSUME Calm'
      PROVE  Known' /\ Begun' /\ (\A c \in Chains : Begins(c)') /\ Replaces' /\ RollsBack' /\ ClosesAll'
  <2>0. Known /\ Begun /\ (\A c \in Chains : Begins(c)) /\ Replaces /\ RollsBack /\ ClosesAll
    BY <1>2 DEF GenerationsInv
  <2>1. Known' /\ \A r : IsUp(r) => IsUp(r)'
    BY <2>0 DEF Known, IsUp
  <2>2. Begun'
    BY <2>0 DEF Begun, Fresh
  <2>3. ASSUME NEW c \in Chains PROVE Begins(c)'
    <3>1. CASE chain'[c] = chain[c]
      BY <2>0, <2>1, <3>1 DEF Begins, Fresh, At, Current, Left
    <3>2. CASE chain'[c].pc \notin Touching
      BY <3>2 DEF Begins, Touching, At
    <3> QED
      BY <3>1, <3>2
  <2>4. Replaces'
    <3>1. CASE chain'["restart"] = chain["restart"] /\ UNCHANGED subtree
      BY <2>0, <3>1 DEF Replaces, Fresh, At, Current
    <3>2. CASE chain'["restart"].pc \notin Touching
      BY <3>2 DEF Replaces, Touching, Closes, At
    <3> QED
      BY <3>1, <3>2 DEF Chains
  <2>5. RollsBack'
    BY <2>0 DEF RollsBack, Touching, At, Current, Chains
  <2>6. ClosesAll'
    BY <2>0 DEF ClosesAll, DownAt, NextDown
  <2> QED
    BY <2>1, <2>2, <2>3, <2>4, <2>5, <2>6
<1> QED
  BY <1>1, <1>2 DEF GenerationsInv

\* A step of a chain, while the other programs rest.
LEMMA MoveGenerations ==
  ASSUME NEW c \in Chains, LastOnly', PublishedIsOpen',
         Calm' => /\ Known' /\ Begins(c)' /\ (c = "restart" => Replaces') /\ (c = "start" => RollsBack')
                  /\ \A d \in Chains : d # c => chain'[d].pc \in {"idle", "done"}
                  /\ chain'["start"].pc # "idle" /\ down'.pc \in {"idle", "startPromise"}
  PROVE  GenerationsInv'
<1> SUFFICES ASSUME Calm'
             PROVE  Begun' /\ (\A d \in Chains : Begins(d)') /\ Replaces' /\ RollsBack' /\ ClosesAll'
  BY DEF GenerationsInv
<1>1. \A d \in Chains : d # c => Begins(d)'
  BY DEF Begins, At
<1>2. c # "restart" => Replaces'
  BY DEF Replaces, Closes, At, Chains
<1>3. c # "start" => RollsBack'
  BY DEF RollsBack, At, Chains
<1> QED
  BY <1>1, <1>2, <1>3 DEF Begun, ClosesAll, At, DownAt

\* The programs that rest while a chain moves.
LEMMA OthersRest ==
  ASSUME Typed, Programs, Calm, NEW c \in Chains, chain[c].pc \notin {"idle", "done"},
         NEW pc \in ChainPCs, NEW todo \in Seq(Resources), pc \in Awaits => todo # <<>>, pc # "idle",
         Goes(c, pc, todo), UNCHANGED down
  PROVE  /\ \A d \in Chains : d # c => chain'[d].pc \in {"idle", "done"}
         /\ chain'["start"].pc # "idle" /\ down'.pc \in {"idle", "startPromise"}
<1>1. /\ chain'[c].pc = pc
      /\ \A d \in Chains : d # c => chain'[d] = chain[d]
  BY Goto DEF Typed
<1>2. CASE c = "start"
  BY <1>1, <1>2, Alone DEF At, Chains
<1>3. CASE c = "restart"
  BY <1>1, <1>3, Alone DEF At, DownAt, Chains
<1> QED
  BY <1>2, <1>3 DEF Chains

\* The steps of a start and of its activations.
LEMMA ChainGenerations ==
  ASSUME Typed, Programs, GenerationsInv, NEW c \in Chains,
         \/ Interrupt(c) \/ StartBlocked(c) \/ CallStart(c) \/ AllStarted(c)
         \/ SkipActivation(c) \/ CallActivate(c) \/ AllActivated(c) \/ StartSettles(c)
  PROVE  GenerationsInv'
<1>a. PICK r, left : r = Current(c) /\ left = Left(c)
  OBVIOUS
<1>0. /\ ChainsTyped /\ WorldTyped /\ RecordsTyped
      /\ chain[c].todo \in Seq(Resources)
      /\ \A pc \in Awaits : At(c, pc) => chain[c].todo # <<>>
  BY TodoIs DEF Typed, At
<1>1. ASSUME chain[c].todo # <<>>
      PROVE  /\ r \in Resources /\ left \in Seq(Resources)
             /\ r \in ToSet(chain[c].todo) /\ ToSet(left) \subseteq ToSet(chain[c].todo)
             /\ ToSet(left) \subseteq Resources
             /\ IsInjective(chain[c].todo) => IsInjective(left) /\ r \notin ToSet(left)
  BY <1>a, <1>0, <1>1, Popped, ElementIs DEF Current, Left
<1>2. /\ {"starting", "start", "ready"} \subseteq ChainPCs /\ {"start", "ready"} \subseteq Awaits
      /\ "starting" \notin Awaits
      /\ {"failed", "activating", "activate", "idle", "done"} \cap Touching = {}
      /\ {"failed", "activating", "activate", "idle", "done"} \cap Awaits \subseteq {"activate"}
      /\ {"failed", "activating", "activate", "idle", "done"} \subseteq ChainPCs
      /\ <<>> \in Seq(Resources)
      /\ {"failed", "activating"} \cap Awaits = {}
  BY DEF ChainPCs, Awaits, Touching, Closes
<1>3. LastOnly /\ PublishedIsOpen /\ (Calm => Known /\ Begins(c))
  BY DEF GenerationsInv
<1>4. ASSUME UNCHANGED <<live, closing, closed, gen, published, subtree, down, forcing, raced,
                         forced, shutdownRequested>>,
             attempted \subseteq attempted', ~At(c, "idle"),
             NEW pc \in {"failed", "activating", "activate", "done"}, NEW todo \in Seq(Resources),
             pc \in Awaits => todo # <<>>, Goes(c, pc, todo)
      PROVE  GenerationsInv'
  <2>1. /\ chain'[c].pc = pc /\ \A d \in Chains : d # c => chain'[d] = chain[d]
    BY <1>0, <1>2, <1>4, Goto
  <2>2. \A d \in Chains : chain'[d] = chain[d] \/ chain'[d].pc \notin Touching
    BY <1>2, <2>1
  <2>3. At("start", "idle")' => At("start", "idle")
    BY <1>4, <2>1 DEF At, Chains
  <2> QED
    BY <1>4, <2>2, <2>3, StillGenerations DEF Calm
<1> USE <1>a DEF kernelVars, recordVars, restartVars, downVars, worldVars
\* The chain goes on to the next resource: what is left is fresh.
<1>5. ASSUME Calm, Begins(c), chain[c].pc \in {"starting", "start", "ready"}, chain[c].todo # <<>>,
             Goes(c, "starting", left), \A x \in Resources \ {r} : live'[x] = live[x],
             UNCHANGED closed
      PROVE  Begins(c)'
  <2>1. chain'[c].pc = "starting" /\ chain'[c].todo = left
    BY <1>0, <1>1, <1>2, <1>5, Goto
  <2>2. IsInjective(left) /\ r \notin ToSet(left)
    BY <1>1, <1>5 DEF Begins
  <2>3. \A x \in ToSet(left) : Fresh(x)
    BY <1>1, <1>5 DEF Begins, At
  <2>4. \A x \in ToSet(left) : Fresh(x)'
    BY <1>1, <1>5, <2>2, <2>3 DEF Fresh
  <2> QED
    BY <2>1, <2>2, <2>4 DEF Begins, At
<1>6. ASSUME Calm', Calm, chain[c].pc \in {"starting", "start", "ready"}, chain[c].todo # <<>>,
             NEW pc \in {"starting", "start", "ready"}, NEW todo \in Seq(Resources),
             pc # "starting" => todo # <<>>, Goes(c, pc, todo), UNCHANGED down
      PROVE  /\ c = "restart" => Replaces'
             /\ c = "start" => RollsBack'
             /\ \A d \in Chains : d # c => chain'[d].pc \in {"idle", "done"}
             /\ chain'["start"].pc # "idle" /\ down'.pc \in {"idle", "startPromise"}
  <2>1. chain'[c].pc = pc
    BY <1>0, <1>2, <1>6, Goto
  <2>2. (c = "restart" => Replaces') /\ (c = "start" => RollsBack')
    BY <2>1 DEF Replaces, RollsBack, Closes, At
  <2> QED
    BY <1>2, <1>6, <2>2, OthersRest
<1>11. CASE Interrupt(c)
  <2>1. Goes(c, "failed", <<>>) /\ ~At(c, "idle")
    BY <1>11 DEF Interrupt, At
  <2> QED
    BY <1>2, <1>4, <1>11, <2>1 DEF Interrupt
<1>12. CASE StartBlocked(c)
  <2>1. /\ At(c, "starting") /\ chain[c].todo # <<>>
        /\ UNCHANGED <<live, closing, closed, gen, published, subtree, down, forcing, raced, forced,
                       shutdownRequested, attempted>>
        /\ Goes(c, "failed", <<>>) \/ Goes(c, "starting", left)
    BY <1>12 DEF StartBlocked
  <2>2. CASE Goes(c, "failed", <<>>)
    BY <1>2, <1>4, <2>1, <2>2 DEF At
  <2>3. CASE Goes(c, "starting", left)
    <3>1. LastOnly' /\ PublishedIsOpen'
      BY <1>3, <2>1 DEF LastOnly, PublishedIsOpen
    <3>2. ASSUME Calm'
          PROVE  Calm /\ Known' /\ Begins(c)'
      BY <1>3, <1>5, <2>1, <2>3, <3>2 DEF Calm, Known, IsUp, At
    <3> QED
      BY <1>1, <1>6, <2>1, <2>3, <3>1, <3>2, MoveGenerations DEF At
  <2> QED
    BY <2>1, <2>2, <2>3
<1>13. CASE CallStart(c)
  <2>1. /\ At(c, "starting") /\ chain[c].todo # <<>> /\ Goes(c, "start", chain[c].todo)
        /\ UNCHANGED <<live, closing, closed, published, subtree, down, forcing, raced, forced,
                       shutdownRequested>>
        /\ ~shutdownRequested /\ attempted' = attempted \cup {r} /\ gen' = [gen EXCEPT ![r] = @ + 1]
    BY <1>13 DEF CallStart, Interrupted
  <2>2. Calm /\ Begins(c) /\ Known
    BY <1>3, <2>1 DEF Programs
  <2>3. /\ IsInjective(chain[c].todo) /\ Fresh(r)
        /\ \A x \in ToSet(left) : Fresh(x)
    BY <1>1, <2>1, <2>2 DEF Begins, At
  <2>4. LastOnly' /\ PublishedIsOpen'
    BY <1>0, <1>3, <2>1, <2>3 DEF LastOnly, PublishedIsOpen, Fresh, WorldTyped
  <2>5. Known'
    BY <2>1, <2>2 DEF Known, IsUp
  <2>6. chain'[c].pc = "start" /\ chain'[c].todo = chain[c].todo
    BY <1>0, <1>2, <2>1, Goto
  <2>7. Begins(c)'
    <3>1. Current(c)' = r /\ Left(c)' = left
      BY <2>6 DEF Current, Left
    <3>2. IsUp(r)' /\ live'[r] = {} /\ \A x \in ToSet(left) : Fresh(x)'
      BY <2>1, <2>3 DEF IsUp, Fresh
    <3> QED
      BY <2>3, <2>6, <3>1, <3>2 DEF Begins, At
  <2> QED
    BY <1>0, <1>6, <2>1, <2>2, <2>4, <2>5, <2>7, MoveGenerations DEF At
<1>14. CASE AllStarted(c)
  <2>1. Goes(c, "activating", Entries(c)) /\ ~At(c, "idle") /\ Entries(c) \in Seq(Resources)
    BY <1>14, OrderIs DEF AllStarted, At, Entries, Typed, QueueTyped
  <2> QED
    BY <1>2, <1>4, <1>14, <2>1 DEF AllStarted
<1>15. CASE SkipActivation(c)
  <2>1. PICK pc \in {"failed", "activating"}, todo \in {<<>>, left} : Goes(c, pc, todo)
    BY <1>15 DEF SkipActivation
  <2>2. ~At(c, "idle") /\ todo \in Seq(Resources)
    BY <1>1, <1>2, <1>15 DEF SkipActivation, At
  <2> QED
    BY <1>2, <1>4, <1>15, <2>1, <2>2 DEF SkipActivation
<1>16. CASE CallActivate(c)
  <2>1. Goes(c, "activate", chain[c].todo) /\ ~At(c, "idle") /\ chain[c].todo # <<>>
    BY <1>16 DEF CallActivate, At
  <2> QED
    BY <1>0, <1>2, <1>4, <1>16, <2>1 DEF CallActivate
<1>17. CASE AllActivated(c)
  <2>1. PICK pc \in {"done", "failed", "idle"} : Goes(c, pc, <<>>) /\ (pc = "idle" => c = "restart")
    BY <1>17 DEF AllActivated
  <2>2. chain'[c].pc = pc /\ \A d \in Chains : d # c => chain'[d] = chain[d]
    BY <1>0, <1>2, <2>1, Goto
  <2>3. \A d \in Chains : chain'[d] = chain[d] \/ chain'[d].pc \notin Touching
    BY <1>2, <2>2
  <2>4. At("start", "idle")' => At("start", "idle")
    BY <2>1, <2>2 DEF At, Chains
  <2>5. UNCHANGED subtree \/ chain'["restart"].pc \notin Touching
    BY <1>2, <1>17, <2>2 DEF AllActivated
  <2> QED
    BY <1>17, <2>3, <2>4, <2>5, StillGenerations DEF AllActivated, Calm
<1>18. CASE StartResolves(c)
  <2>1. /\ At(c, "start") /\ chain[c].todo # <<>> /\ r \in Resources
        /\ UNCHANGED <<closing, closed, gen, subtree, down, forcing, raced, forced,
                       shutdownRequested, attempted>>
        /\ live' = [live EXCEPT ![r] = @ \cup {gen[r]}]
        /\ published' \in {published, [published EXCEPT ![r] = gen[r]]}
    BY <1>0, <1>1, <1>2, <1>18 DEF StartResolves, At
  <2>2. \/ Goes(c, "failed", <<>>) \/ Goes(c, "starting", left) \/ Goes(c, "ready", chain[c].todo)
    BY <1>18 DEF StartResolves, BecomesReady
  <2>3. LastOnly' /\ PublishedIsOpen'
    BY <1>0, <1>3, <2>1 DEF LastOnly, PublishedIsOpen, WorldTyped, RecordsTyped
  <2>4. ASSUME Calm' PROVE Calm /\ Known' /\ Begins(c) /\ IsUp(r)
    BY <1>0, <1>3, <2>1, <2>4 DEF Calm, Known, IsUp, Begins, At, WorldTyped
  <2>5. \A x \in Resources \ {r} : live'[x] = live[x]
    BY <1>0, <2>1 DEF WorldTyped
  <2>6. CASE Goes(c, "failed", <<>>)
    <3>1. chain'[c].pc = "failed"
      BY <1>0, <1>2, <2>6, Goto
    <3>2. Begins(c)' /\ (c = "restart" => Replaces') /\ (c = "start" => RollsBack')
      BY <3>1 DEF Begins, Replaces, RollsBack, Closes, At
    <3>3. ASSUME Calm'
          PROVE  /\ \A d \in Chains : d # c => chain'[d].pc \in {"idle", "done"}
                 /\ chain'["start"].pc # "idle" /\ down'.pc \in {"idle", "startPromise"}
      BY <1>2, <2>1, <2>4, <2>6, <3>3, OthersRest DEF At
    <3> QED
      BY <2>3, <2>4, <3>2, <3>3, MoveGenerations
  <2>7. CASE Goes(c, "starting", left)
    <3>1. Calm' => Begins(c)'
      BY <1>5, <2>1, <2>4, <2>5, <2>7 DEF At
    <3> QED
      BY <1>1, <1>6, <2>1, <2>3, <2>4, <2>7, <3>1, MoveGenerations DEF At
  <2>8. CASE Goes(c, "ready", chain[c].todo)
    <3>1. chain'[c].pc = "ready" /\ chain'[c].todo = chain[c].todo
      BY <1>0, <1>2, <2>1, <2>8, Goto
    <3>2. Current(c)' = r /\ Left(c)' = left
      BY <3>1 DEF Current, Left
    <3>3. ASSUME Calm' PROVE Begins(c)'
      <4>1. IsInjective(chain[c].todo) /\ \A x \in ToSet(left) : Fresh(x)
        BY <2>1, <2>4, <3>3 DEF Begins, At
      <4>2. \A x \in ToSet(left) : Fresh(x)'
        BY <1>1, <2>1, <2>5, <4>1 DEF Fresh
      <4>3. IsUp(r)'
        BY <2>1, <2>4, <3>3 DEF IsUp
      <4> QED
        BY <3>1, <3>2, <4>1, <4>2, <4>3 DEF Begins, At
    <3> QED
      BY <1>0, <1>6, <2>1, <2>3, <2>4, <2>8, <3>3, MoveGenerations DEF At
  <2> QED
    BY <2>2, <2>6, <2>7, <2>8
<1>19. CASE ReadyResolves(c)
  <2>1. /\ At(c, "ready") /\ chain[c].todo # <<>>
        /\ UNCHANGED <<live, closing, closed, gen, published, subtree, down, forcing, raced, forced,
                       shutdownRequested, attempted>>
        /\ Goes(c, "failed", <<>>) \/ Goes(c, "starting", left)
    BY <1>0, <1>2, <1>19 DEF ReadyResolves, BecomesReady
  <2>2. CASE Goes(c, "failed", <<>>)
    BY <1>2, <1>4, <2>1, <2>2 DEF At
  <2>3. CASE Goes(c, "starting", left)
    <3>1. LastOnly' /\ PublishedIsOpen'
      BY <1>3, <2>1 DEF LastOnly, PublishedIsOpen
    <3>2. ASSUME Calm'
          PROVE  Calm /\ Known' /\ Begins(c)'
      BY <1>3, <1>5, <2>1, <2>3, <3>2 DEF Calm, Known, IsUp, At
    <3> QED
      BY <1>1, <1>6, <2>1, <2>3, <3>1, <3>2, MoveGenerations DEF At
  <2> QED
    BY <2>1, <2>2, <2>3
<1>20. CASE StartRejects(c)
  <2>1. /\ chain[c].pc \in {"start", "ready"} /\ chain[c].todo # <<>> /\ r \in Resources
        /\ UNCHANGED <<closing, closed, gen, published, subtree, down, forcing, raced, forced,
                       shutdownRequested, attempted>>
        /\ live' = [live EXCEPT ![r] = @ \cup {gen[r]}]
        /\ Goes(c, "failed", <<>>) \/ Goes(c, "starting", left)
    BY <1>0, <1>1, <1>2, <1>20 DEF StartRejects, At
  <2>3. LastOnly' /\ PublishedIsOpen'
    BY <1>0, <1>3, <2>1 DEF LastOnly, PublishedIsOpen, WorldTyped, RecordsTyped
  <2>4. ASSUME Calm' PROVE Calm /\ Known' /\ Begins(c)
    BY <1>0, <1>3, <2>1, <2>4 DEF Calm, Known, IsUp, Begins, At, WorldTyped
  <2>5. \A x \in Resources \ {r} : live'[x] = live[x]
    BY <1>0, <2>1 DEF WorldTyped
  <2>6. CASE Goes(c, "failed", <<>>)
    <3>1. chain'[c].pc = "failed"
      BY <1>0, <1>2, <2>6, Goto
    <3>2. Begins(c)' /\ (c = "restart" => Replaces') /\ (c = "start" => RollsBack')
      BY <3>1 DEF Begins, Replaces, RollsBack, Closes, At
    <3>3. ASSUME Calm'
          PROVE  /\ \A d \in Chains : d # c => chain'[d].pc \in {"idle", "done"}
                 /\ chain'["start"].pc # "idle" /\ down'.pc \in {"idle", "startPromise"}
      BY <1>2, <2>1, <2>4, <2>6, <3>3, OthersRest DEF At
    <3> QED
      BY <2>3, <2>4, <3>2, <3>3, MoveGenerations
  <2>7. CASE Goes(c, "starting", left)
    <3>1. Calm' => Begins(c)'
      BY <1>5, <2>1, <2>4, <2>5, <2>7
    <3> QED
      BY <1>1, <1>6, <2>1, <2>3, <2>4, <2>7, <3>1, MoveGenerations
  <2> QED
    BY <2>1, <2>6, <2>7
<1>21. CASE ActivateResolves(c)
  <2>1. PICK pc \in {"failed", "activating"}, todo \in {<<>>, left} : Goes(c, pc, todo)
    BY <1>21 DEF ActivateResolves
  <2>2. ~At(c, "idle") /\ todo \in Seq(Resources)
    BY <1>0, <1>1, <1>2, <1>21 DEF ActivateResolves, At, Awaits
  <2> QED
    BY <1>2, <1>4, <1>21, <2>1, <2>2 DEF ActivateResolves
<1>22. CASE ActivateRejects(c)
  <2>1. PICK pc \in {"failed", "activating"}, todo \in {<<>>, left} : Goes(c, pc, todo)
    BY <1>22 DEF ActivateRejects
  <2>2. ~At(c, "idle") /\ todo \in Seq(Resources)
    BY <1>0, <1>1, <1>2, <1>22 DEF ActivateRejects, At, Awaits
  <2> QED
    BY <1>2, <1>4, <1>22, <2>1, <2>2 DEF ActivateRejects
<1> QED
  BY <1>11, <1>12, <1>13, <1>14, <1>15, <1>16, <1>17, <1>18, <1>19, <1>20, <1>21, <1>22
     DEF StartSettles

\* A resource that was closed with every open generation has none open, and
\* one that is closed or erased while nothing is open stays accounted for.
LEMMA ClosingGenerations ==
  ASSUME Typed, GenerationsInv, NEW r \in Resources,
         HasClosed(r), UNCHANGED gen,
         \/ closed' = closed \cup {r} /\ UNCHANGED <<attempted, published>>
         \/ Erase(r)
  PROVE  /\ LastOnly' /\ PublishedIsOpen'
         /\ Calm /\ live[r] \subseteq closing[r] => Known' /\ live'[r] = {}
         /\ \A x \in Resources \ {r} : live'[x] = live[x] /\ closing'[x] = closing[x]
                                       /\ (Fresh(x) => Fresh(x)')
<1>1. /\ live' = [live EXCEPT ![r] = @ \ closing[r]] /\ closing' = [closing EXCEPT ![r] = {}]
      /\ live \in [Resources -> SUBSET Nat] /\ closing \in [Resources -> SUBSET Nat]
      /\ published \in [Resources -> Nat]
  BY DEF HasClosed, Typed, WorldTyped, RecordsTyped
<1>2. \A x \in Resources \ {r} : live'[x] = live[x] /\ closing'[x] = closing[x]
  BY <1>1
<1>3. live'[r] = live[r] \ closing[r]
  BY <1>1
<1>4. /\ \A x \in Resources \ {r} : (x \in closed' <=> x \in closed)
                                     /\ (x \in attempted' <=> x \in attempted)
                                     /\ published'[x] = published[x]
      /\ r \in closed' \/ published'[r] = 0
  BY <1>1 DEF Erase
<1>5. LastOnly'
  BY <1>2, <1>3 DEF GenerationsInv, LastOnly
<1>6. PublishedIsOpen'
  BY <1>2, <1>4 DEF GenerationsInv, PublishedIsOpen
<1>7. ASSUME Calm, live[r] \subseteq closing[r]
      PROVE  Known' /\ live'[r] = {}
  BY <1>2, <1>3, <1>4, <1>7 DEF GenerationsInv, Known, IsUp
<1> QED
  BY <1>2, <1>4, <1>5, <1>6, <1>7 DEF Fresh

\* The steps of a rollback.
LEMMA RollbackGenerations ==
  ASSUME Typed, Programs, GenerationsInv,
         StartFails \/ RollbackNext \/ RollbackCloses \/ RollbackFails \/ RolledBack
  PROVE  GenerationsInv'
<1>a. PICK r, left, todo : r = Current("start") /\ left = Left("start") /\ todo = chain["start"].todo
  OBVIOUS
<1>0. /\ ChainsTyped /\ WorldTyped /\ RecordsTyped /\ "start" \in Chains
      /\ todo \in Seq(Resources)
      /\ todo # <<>> => r \in Resources /\ left \in Seq(Resources)
      /\ At("start", "rollbackClose") => todo # <<>>
  BY <1>a, TodoIs DEF Typed, At, Awaits, Chains
<1>1. /\ {"rollback", "rollbackClose", "done"} \subseteq ChainPCs
      /\ {"rollback", "done"} \cap Touching = {} /\ {"rollback", "done"} \cap Awaits = {}
      /\ <<>> \in Seq(Resources) /\ Reverse(Order) \in Seq(Resources)
  BY OrderIs DEF ChainPCs, Awaits, Touching, Closes
<1>2. ASSUME UNCHANGED <<live, closing, closed, gen, published, subtree, down, forcing, raced,
                         forced, attempted>>,
             NEW pc \in {"rollback", "done"}, NEW rest \in Seq(Resources), Goes("start", pc, rest)
      PROVE  GenerationsInv'
  <2>1. /\ chain'["start"].pc = pc
        /\ \A d \in Chains : d # "start" => chain'[d] = chain[d]
    BY <1>0, <1>1, <1>2, Goto
  <2>2. /\ \A d \in Chains : chain'[d] = chain[d] \/ chain'[d].pc \notin Touching
        /\ ~At("start", "idle")'
    BY <1>1, <1>2, <2>1 DEF At
  <2> QED
    BY <1>2, <2>2, StillGenerations DEF Calm
<1> USE DEF kernelVars, recordVars, restartVars, downVars, worldVars
<1>3. CASE StartFails
  <2>1. PICK pc \in {"rollback", "done"}, rest \in {<<>>, Reverse(Order)} : Goes("start", pc, rest)
    BY <1>3 DEF StartFails
  <2> QED
    BY <1>1, <1>2, <1>3, <2>1 DEF StartFails
<1>4. CASE RollbackNext
  <2>0. todo # <<>> /\ UNCHANGED <<live, closed, gen, published, attempted, forcing, subtree, down,
                                   raced, forced>>
        /\ At("start", "rollback")
    BY <1>4, <1>a DEF RollbackNext
  <2>1. CASE IsUp(r)
    <3>1. Goes("start", "rollbackClose", todo) /\ AskToClose({r})
      BY <1>4, <1>a, <2>1 DEF RollbackNext
    <3>2. closing'[r] = live[r] /\ live' = live
      BY <1>0, <2>0, <3>1 DEF AskToClose, WorldTyped
    <3>3. chain'["start"].pc = "rollbackClose" /\ chain'["start"].todo = todo
      BY <1>0, <1>1, <2>0, <3>1, Goto
    <3>4. RollsBack' /\ Begins("start")'
      BY <1>a, <3>2, <3>3 DEF RollsBack, Begins, Current, At
    <3>5. LastOnly' /\ PublishedIsOpen' /\ (Calm => Known')
      BY <2>0 DEF GenerationsInv, LastOnly, PublishedIsOpen, Known, IsUp
    <3>6. ASSUME Calm'
          PROVE  /\ Calm
                 /\ \A d \in Chains : d # "start" => chain'[d].pc \in {"idle", "done"}
                 /\ chain'["start"].pc # "idle" /\ down'.pc \in {"idle", "startPromise"}
      BY <1>0, <1>1, <2>0, <3>1, <3>6, OthersRest DEF Calm, At
    <3> QED
      BY <1>0, <3>4, <3>5, <3>6, MoveGenerations
  <2>2. CASE ~IsUp(r)
    <3>1. Goes("start", "rollback", left) /\ UNCHANGED closing
      BY <1>4, <1>a, <2>2 DEF RollbackNext
    <3> QED
      BY <1>0, <1>2, <2>0, <3>1
  <2> QED
    BY <2>1, <2>2
<1>5. CASE RollbackCloses
  <2>1. /\ At("start", "rollbackClose") /\ r \in Resources /\ left \in Seq(Resources)
        /\ UNCHANGED <<gen, published, attempted, down, raced, forced>>
        /\ closed' = closed \cup {r} /\ HasClosed(r) /\ Goes("start", "rollback", left)
    BY <1>0, <1>5, <1>a DEF RollbackCloses
  <2>2. Calm => live[r] \subseteq closing[r]
    BY <1>a, <2>1 DEF GenerationsInv, RollsBack
  <2>3. LastOnly' /\ PublishedIsOpen' /\ (Calm => Known')
    BY <2>1, <2>2, ClosingGenerations
  <2>4. chain'["start"].pc = "rollback"
    BY <1>0, <1>1, <2>1, Goto
  <2>5. Begins("start")' /\ RollsBack'
    BY <2>4 DEF Begins, RollsBack, At
  <2>6. ASSUME Calm'
        PROVE  /\ Calm
               /\ \A d \in Chains : d # "start" => chain'[d].pc \in {"idle", "done"}
               /\ chain'["start"].pc # "idle" /\ down'.pc \in {"idle", "startPromise"}
    BY <1>0, <1>1, <2>1, <2>6, OthersRest DEF Calm, At
  <2> QED
    BY <1>0, <2>3, <2>5, <2>6, MoveGenerations
<1>6. CASE RollbackFails
  <2>1. PICK rest \in {left, <<>>} : Goes("start", "rollback", rest)
    BY <1>6, <1>a DEF RollbackFails
  <2> QED
    BY <1>0, <1>1, <1>2, <1>6, <2>1 DEF RollbackFails
<1>7. CASE RolledBack
  <2>1. Goes("start", "done", <<>>)
    BY <1>7 DEF RolledBack
  <2> QED
    BY <1>1, <1>2, <1>7, <2>1 DEF RolledBack
<1> QED
  BY <1>3, <1>4, <1>5, <1>6, <1>7

\* The steps of restarts.
LEMMA RestartGenerations ==
  ASSUME Typed, Programs, GenerationsInv,
         \/ Refuse \/ RunRestart \/ CloseOne \/ Closed \/ RestartFails
         \/ PhaseResolves \/ CloseResolves \/ PhaseFails \/ RestartTimeout
         \/ \E r \in Resources : Restart(r)
  PROVE  GenerationsInv'
<1>a. PICK r, left, todo : r = Current("restart") /\ left = Left("restart")
                           /\ todo = chain["restart"].todo
  OBVIOUS
<1>0. /\ ChainsTyped /\ WorldTyped /\ RecordsTyped /\ "restart" \in Chains
      /\ todo \in Seq(Resources) /\ subtree \in Seq(Resources) /\ ToSet(subtree) \subseteq Resources
      /\ \A pc \in Awaits : At("restart", pc) => todo # <<>>
  BY <1>a, TodoIs, ElementIs DEF Typed, QueueTyped, At, Chains
<1>00. ASSUME todo # <<>>
       PROVE  r \in Resources /\ left \in Seq(Resources) /\ ToSet(todo) = ToSet(left) \cup {r}
  BY <1>a, <1>0, <1>00, Popped DEF Current, Left
<1>1. /\ {"idle", "failed", "starting", "closing", "stopAdmission", "drain", "close"} \subseteq ChainPCs
      /\ {"idle", "failed"} \cap Touching = {}
      /\ {"idle", "failed", "starting", "closing"} \cap Awaits = {}
      /\ {"stopAdmission", "drain", "close"} \subseteq Awaits
      /\ <<>> \in Seq(Resources)
  BY DEF ChainPCs, Awaits, Touching, Closes
<1>2. /\ LastOnly /\ PublishedIsOpen
      /\ Calm => Known /\ Replaces
  BY DEF GenerationsInv
<1> USE DEF kernelVars, recordVars, restartVars, downVars, worldVars
<1>3. ASSUME UNCHANGED <<live, closing, closed, gen, published, down, forcing, raced, forced,
                         attempted, shutdownRequested>>,
             NEW pc \in {"idle", "failed"}, Goes("restart", pc, <<>>)
      PROVE  GenerationsInv'
  <2>1. /\ chain'["restart"].pc = pc
        /\ \A d \in Chains : d # "restart" => chain'[d] = chain[d]
    BY <1>0, <1>1, <1>3, Goto
  <2>2. /\ \A d \in Chains : chain'[d] = chain[d] \/ chain'[d].pc \notin Touching
        /\ chain'["restart"].pc \notin Touching
        /\ At("start", "idle")' => At("start", "idle")
    BY <1>1, <1>3, <2>1 DEF At, Chains
  <2> QED
    BY <1>3, <2>2, StillGenerations DEF Calm
\* The other programs rest while a restart goes on.
<1>4. ASSUME Calm', ~At("restart", "idle"), ~At("restart", "done"), UNCHANGED <<down, raced, forced>>,
             NEW pc \in {"starting", "closing", "stopAdmission", "drain", "close"},
             NEW rest \in Seq(Resources), pc \in Awaits => rest # <<>>, Goes("restart", pc, rest)
      PROVE  /\ Calm /\ chain'["restart"].pc = pc /\ chain'["restart"].todo = rest
             /\ \A d \in Chains : d # "restart" => chain'[d].pc \in {"idle", "done"}
             /\ chain'["start"].pc # "idle" /\ down'.pc \in {"idle", "startPromise"}
  BY <1>0, <1>1, <1>4, Goto, OthersRest DEF Calm, At
<1>5. CASE Refuse
  BY <1>5, StillGenerations DEF Refuse, Calm, At
<1>6. CASE RunRestart
  <2>1. /\ turn = "restart" /\ At("restart", "idle") /\ ~shutdownRequested /\ queue # <<>>
        /\ UNCHANGED <<live, closing, closed, gen, published, down, forced, attempted,
                       shutdownRequested>>
    BY <1>6 DEF RunRestart, Typed, QueueTyped
  <2>2. PICK s \in SetToSeqs(Dependants(Head(queue))) :
          InStartOrder(s) /\ subtree' = s /\ Goes("restart", "closing", Reverse(s))
    BY <1>6 DEF RunRestart
  <2>3. /\ Reverse(s) \in Seq(Resources) /\ IsInjective(s) /\ ToSet(Reverse(s)) = ToSet(s)
    BY <2>1, <2>2, SubtreeIs DEF Typed, QueueTyped
  <2>4. /\ chain'["restart"].pc = "closing" /\ chain'["restart"].todo = Reverse(s)
        /\ \A d \in Chains : d # "restart" => chain'[d] = chain[d]
    BY <1>0, <1>1, <2>2, <2>3, Goto
  <2>5. Replaces' /\ Begins("restart")'
    BY <2>2, <2>3, <2>4 DEF Replaces, Begins, At
  <2>6. At("start", "done") /\ DownAt("idle") /\ Calm
    BY <2>1 DEF Programs
  <2>7. LastOnly' /\ PublishedIsOpen' /\ Known'
    BY <1>2, <2>1, <2>6 DEF LastOnly, PublishedIsOpen, Known, IsUp
  <2> QED
    BY <1>0, <2>1, <2>4, <2>5, <2>6, <2>7, MoveGenerations DEF At, DownAt, Chains
<1>7. CASE CloseOne
  <2>0. /\ At("restart", "closing") /\ todo # <<>>
        /\ UNCHANGED <<live, closing, gen, down, raced, forced, subtree>>
    BY <1>7, <1>a DEF CloseOne
  <2>1. CASE IsUp(r)
    <3>1. Goes("restart", "stopAdmission", todo) /\ UNCHANGED <<closed, attempted, published>>
      BY <1>7, <1>a, <2>1 DEF CloseOne
    <3>2. LastOnly' /\ PublishedIsOpen'
      BY <1>2, <2>0, <3>1 DEF LastOnly, PublishedIsOpen
    <3>3. ASSUME Calm' PROVE Calm /\ Known' /\ Replaces' /\ Begins("restart")'
      <4>1. /\ Calm /\ chain'["restart"].pc = "stopAdmission" /\ chain'["restart"].todo = todo
        BY <1>0, <1>1, <1>4, <2>0, <3>1, <3>3 DEF At
      <4> QED
        BY <1>2, <1>a, <2>0, <3>1, <4>1 DEF Known, IsUp, Replaces, Closes, Begins, Fresh, At
    <3> QED
      BY <1>0, <1>1, <1>4, <2>0, <3>1, <3>2, <3>3, MoveGenerations DEF At
  <2>2. CASE ~IsUp(r)
    <3>1. Goes("restart", "closing", left) /\ Erase(r) /\ r \in Resources /\ left \in Seq(Resources)
          /\ ToSet(todo) = ToSet(left) \cup {r}
      BY <1>7, <1>00, <1>a, <2>0, <2>2 DEF CloseOne
    <3>2. /\ \A x \in Resources \ {r} : (x \in closed' <=> x \in closed)
                                         /\ (x \in attempted' <=> x \in attempted)
                                         /\ published'[x] = published[x]
          /\ r \notin closed' /\ published'[r] = 0
      BY <1>0, <3>1 DEF Erase, RecordsTyped
    <3>3. LastOnly' /\ PublishedIsOpen'
      BY <1>2, <2>0, <3>2 DEF LastOnly, PublishedIsOpen
    <3>4. ASSUME Calm' PROVE Calm /\ Known' /\ Replaces' /\ Begins("restart")'
      <4>1. /\ Calm /\ chain'["restart"].pc = "closing" /\ chain'["restart"].todo = left
        BY <1>1, <1>4, <2>0, <3>1, <3>4 DEF At
      <4>2. live[r] = {}
        BY <1>2, <2>2, <3>1, <4>1 DEF Known
      <4>3. Fresh(r)' /\ \A x \in Resources \ {r} : Fresh(x) => Fresh(x)'
        BY <2>0, <3>2, <4>2 DEF Fresh
      <4>4. \A x \in ToSet(subtree) \ ToSet(left) : Fresh(x)'
        BY <1>0, <1>2, <1>a, <2>0, <3>1, <4>1, <4>3 DEF Replaces, Closes, At
      <4>5. IsInjective(subtree)
        BY <1>2, <2>0, <4>1 DEF Replaces, Closes, At
      <4>6. Known'
        BY <1>2, <2>0, <3>2, <4>1, <4>2 DEF Known, IsUp
      <4> QED
        BY <2>0, <4>1, <4>4, <4>5, <4>6 DEF Replaces, Begins, At
    <3> QED
      BY <1>0, <1>1, <1>4, <2>0, <3>1, <3>3, <3>4, MoveGenerations DEF At
  <2> QED
    BY <2>1, <2>2
<1>8. CASE Closed
  <2>1. /\ At("restart", "closing") /\ todo = <<>> /\ Goes("restart", "starting", subtree)
        /\ UNCHANGED <<live, closing, closed, gen, published, down, raced, forced, attempted, subtree>>
    BY <1>8, <1>a DEF Closed
  <2>2. LastOnly' /\ PublishedIsOpen'
    BY <1>2, <2>1 DEF LastOnly, PublishedIsOpen
  <2>3. ASSUME Calm' PROVE Calm /\ Known' /\ Replaces' /\ Begins("restart")'
    <3>1. Calm /\ chain'["restart"].pc = "starting" /\ chain'["restart"].todo = subtree
      BY <1>0, <1>1, <1>4, <2>1, <2>3 DEF At
    <3>2. ToSet(todo) = {}
      BY <2>1 DEF ToSet
    <3>3. IsInjective(subtree) /\ \A x \in ToSet(subtree) : Fresh(x)
      BY <1>2, <1>a, <2>1, <3>1, <3>2 DEF Replaces, Closes, At
    <3> QED
      BY <1>2, <2>1, <3>1, <3>3 DEF Known, IsUp, Replaces, Closes, Begins, Fresh, At
  <2> QED
    BY <1>0, <1>1, <1>4, <2>1, <2>2, <2>3, MoveGenerations DEF At
<1>9. CASE RestartFails
  BY <1>3, <1>9 DEF RestartFails
<1>10. CASE PhaseResolves
  <2>0. /\ chain["restart"].pc \in {"stopAdmission", "drain"} /\ todo # <<>>
        /\ UNCHANGED <<live, closed, gen, published, down, raced, forced, attempted, subtree>>
    BY <1>0, <1>1, <1>10 DEF PhaseResolves, At
  <2>1. PICK pc \in {"close", "drain"} : Goes("restart", pc, todo) /\ (pc = "close" => AskToClose({r}))
    BY <1>10, <1>a DEF PhaseResolves
  <2>2. LastOnly' /\ PublishedIsOpen'
    BY <1>2, <2>0 DEF LastOnly, PublishedIsOpen
  <2>3. ASSUME Calm' PROVE Calm /\ Known' /\ Replaces' /\ Begins("restart")'
    <3>1. Calm /\ chain'["restart"].pc = pc /\ chain'["restart"].todo = todo
      BY <1>0, <1>1, <1>4, <2>0, <2>1, <2>3 DEF At
    <3>2. pc = "close" => closing'[r] = live[r]
      BY <1>00, <2>0, <2>1 DEF AskToClose
    <3>3. IsInjective(subtree) /\ \A x \in ToSet(subtree) \ ToSet(todo) : Fresh(x)
      BY <1>2, <1>a, <2>0, <3>1 DEF Replaces, Closes
    <3>4. Current("restart")' = r
      BY <1>a, <3>1 DEF Current
    <3>5. Replaces'
      BY <2>0, <3>1, <3>2, <3>3, <3>4 DEF Replaces, Fresh, At
    <3> QED
      BY <1>2, <2>0, <3>1, <3>5 DEF Known, IsUp, Begins, At
  <2> QED
    BY <1>0, <1>1, <1>4, <2>0, <2>1, <2>2, <2>3, MoveGenerations DEF At
<1>11. CASE CloseResolves
  <2>1. /\ At("restart", "close") /\ r \in Resources /\ left \in Seq(Resources)
        /\ ToSet(todo) = ToSet(left) \cup {r}
        /\ UNCHANGED <<gen, down, raced, forced, subtree>>
        /\ Erase(r) /\ HasClosed(r) /\ Goes("restart", "closing", left)
    BY <1>0, <1>00, <1>1, <1>11, <1>a DEF CloseResolves
  <2>2. /\ LastOnly' /\ PublishedIsOpen'
        /\ Calm /\ live[r] \subseteq closing[r] => Known' /\ live'[r] = {}
        /\ \A x \in Resources \ {r} : Fresh(x) => Fresh(x)'
    BY <2>1, ClosingGenerations
  <2>3. ASSUME Calm' PROVE Calm /\ Known' /\ Replaces' /\ Begins("restart")'
    <3>1. Calm /\ chain'["restart"].pc = "closing" /\ chain'["restart"].todo = left
      BY <1>1, <1>4, <2>1, <2>3 DEF At
    <3>2. Known' /\ live'[r] = {}
      BY <1>2, <1>a, <2>1, <2>2, <3>1 DEF Replaces
    <3>3. r \notin closed'
      BY <2>1 DEF Erase
    <3>4. IsInjective(subtree) /\ \A x \in ToSet(subtree) \ ToSet(todo) : Fresh(x)
      BY <1>2, <1>a, <2>1, <3>1 DEF Replaces, Closes, At
    <3>5. \A x \in ToSet(subtree) \ ToSet(left) : Fresh(x)'
      BY <1>0, <2>1, <2>2, <3>2, <3>3, <3>4 DEF Fresh
    <3> QED
      BY <2>1, <3>1, <3>2, <3>4, <3>5 DEF Replaces, Begins, At
  <2> QED
    BY <1>0, <1>1, <1>4, <2>1, <2>2, <2>3, MoveGenerations DEF At
<1>12. CASE PhaseFails
  BY <1>3, <1>12 DEF PhaseFails
<1>13. CASE RestartTimeout
  BY <1>13, StillGenerations DEF RestartTimeout, Calm, At
<1>14. ASSUME NEW x \in Resources, Restart(x)
       PROVE  GenerationsInv'
  BY <1>14, StillGenerations DEF Restart, Calm, At
<1> QED
  BY <1>5, <1>6, <1>7, <1>8, <1>9, <1>10, <1>11, <1>12, <1>13, <1>14

\* Callers and resources: the first start begins with nothing open.
LEMMA OutsideGenerations ==
  ASSUME Typed, Programs, GenerationsInv,
         \/ Start \/ Acquire \/ Release
         \/ \E r \in Resources : LateCompletion(r) \/ ReportHealth(r)
  PROVE  GenerationsInv'
<1> USE DEF kernelVars, recordVars, restartVars, downVars, worldVars
<1>1. CASE Start
  <2>1. /\ Goes("start", "starting", Order) /\ lifecycle = "created"
        /\ UNCHANGED <<live, closing, closed, gen, published, down, raced, forced, attempted>>
    BY <1>1 DEF Start
  <2>2. At("start", "idle") /\ ~shutdownRequested /\ Calm /\ At("restart", "idle") /\ DownAt("idle")
    BY <2>1 DEF Programs, At
  <2>3. /\ chain'["start"].pc = "starting" /\ chain'["start"].todo = Order
        /\ chain'["restart"] = chain["restart"]
    BY <2>1, OrderIs, Goto DEF Typed, Chains, ChainPCs, Awaits
  <2>4. LastOnly' /\ PublishedIsOpen' /\ Known'
    BY <2>1, <2>2 DEF GenerationsInv, LastOnly, PublishedIsOpen, Known, IsUp
  <2>5. \A r \in Resources : Fresh(r)'
    BY <2>1, <2>2 DEF GenerationsInv, Begun, Fresh
  <2>6. Begins("start")' /\ RollsBack'
    BY <2>3, <2>5, OrderIs DEF Begins, RollsBack, At
  <2> QED
    BY <2>1, <2>2, <2>3, <2>4, <2>6, MoveGenerations DEF At, DownAt, Chains
<1>2. CASE Acquire
  BY <1>2, StillGenerations DEF Acquire, Calm, At
<1>3. CASE Release
  BY <1>3, StillGenerations DEF Release, Calm, At
<1>4. ASSUME NEW r \in Resources, LateCompletion(r)
      PROVE  GenerationsInv'
  <2>1. UNCHANGED <<live, closing, closed, gen, published, subtree, down, forcing, chain, raced,
                    forced, attempted, shutdownRequested>>
    BY <1>4 DEF LateCompletion
  <2> QED
    BY <2>1, StillGenerations DEF Calm, At
<1>5. ASSUME NEW r \in Resources, ReportHealth(r)
      PROVE  GenerationsInv'
  BY <1>5, StillGenerations DEF ReportHealth, Calm, At
<1> QED
  BY <1>1, <1>2, <1>3, <1>4, <1>5

\* The shutdown closes while both chains rest.
LEMMA DownGenerations ==
  ASSUME Programs, UNCHANGED <<chain, shutdownRequested, raced, forced>>,
         down.pc \notin {"idle", "startPromise"}, LastOnly', PublishedIsOpen',
         Calm => Known' /\ ClosesAll'
  PROVE  GenerationsInv'
<1> SUFFICES ASSUME Calm'
             PROVE  /\ Known' /\ Begun' /\ (\A d \in Chains : Begins(d)')
                    /\ Replaces' /\ RollsBack' /\ ClosesAll'
  BY DEF GenerationsInv
<1>1. /\ Calm /\ chain'["start"].pc \in {"idle", "done"} /\ chain'["restart"].pc = "idle"
      /\ shutdownRequested'
  BY Alone DEF Calm, At, Programs, DownAt
<1> QED
  BY <1>1 DEF Begun, Begins, Replaces, RollsBack, Closes, Chains, At

LEMMA ShutdownGenerations ==
  ASSUME Typed, Programs, GenerationsInv,
         \/ Shutdown \/ StartAwaited \/ ForceNow \/ SweepCalls \/ HookResolves \/ HookRejects
         \/ SweepEnds \/ PendingOver \/ Clean \/ ForceSweep \/ ForceFails \/ ForceEnds
         \/ \E r \in Resources : ForceResolves(r)
  PROVE  GenerationsInv'
<1>0. /\ LastOnly /\ PublishedIsOpen /\ (Calm => Known /\ ClosesAll)
      /\ DownTyped /\ WorldTyped
  BY DEF GenerationsInv, Typed
<1> USE DEF kernelVars, recordVars, restartVars, downVars, worldVars, DownAt, DownGoes
<1>1. CASE Shutdown
  <2>1. /\ UNCHANGED <<live, closing, closed, gen, published, subtree, forcing, chain, forced, attempted>>
        /\ shutdownRequested' /\ down'.pc \in {"stopping", "startPromise"}
    BY <1>1 DEF Shutdown
  <2>2. Calm' => Calm
    BY <1>1, Zenon DEF Shutdown, Calm
  <2> QED
    BY <2>1, <2>2, StillGenerations
<1>2. CASE StartAwaited
  BY <1>2, StillGenerations DEF StartAwaited, Calm, At
<1>3. CASE ForceNow
  BY <1>3, StillGenerations DEF ForceNow, Calm, At
<1>4. CASE SweepCalls
  <2>1. /\ down.pc \in Stops
        /\ UNCHANGED <<live, closed, gen, published, subtree, forcing, chain, raced, forced, attempted,
                       shutdownRequested>>
    BY <1>4 DEF SweepCalls
  <2>2. CASE down.pc # "closing"
    <3>1. UNCHANGED closing /\ down'.pc \in {"stopAdmission", "drain"}
      BY <1>4, <2>2 DEF SweepCalls
    <3> QED
      BY <2>1, <3>1, StillGenerations DEF Calm, At
  <2>3. CASE down.pc = "closing"
    <3>1. PICK r : r = Head(Remaining)
      OBVIOUS
    <3>2. /\ down' = [pc |-> "close", todo |-> Remaining] /\ AskToClose({r})
      BY <1>4, <2>3, <3>1 DEF SweepCalls
    <3>3. r \in Resources
      <4>1. Remaining # <<>> /\ down.todo \in Seq(Resources)
        BY <1>0, <1>4 DEF SweepCalls, DownTyped
      <4> QED
        BY <3>1, <4>1, RemainingIs, ElementIs
    <3>4. NextDown' = r /\ down'.pc = "close"
      BY <3>1, <3>2 DEF NextDown
    <3>5. closing'[r] = live[r]
      BY <3>2, <3>3 DEF AskToClose
    <3>6. ClosesAll'
      BY <2>1, <3>4, <3>5 DEF ClosesAll
    <3>7. LastOnly' /\ PublishedIsOpen' /\ (Calm => Known')
      BY <1>0, <2>1 DEF LastOnly, PublishedIsOpen, Known, IsUp
    <3> QED
      BY <2>1, <2>3, <3>6, <3>7, DownGenerations
  <2> QED
    BY <2>2, <2>3
<1>5. CASE HookResolves
  <2>1. /\ down.pc \in Hooks /\ down.todo # <<>>
        /\ UNCHANGED <<gen, published, subtree, forcing, chain, raced, forced, attempted,
                       shutdownRequested>>
        /\ down'.pc = LoopOf[down.pc]
    BY <1>0, <1>5 DEF HookResolves, DownTyped
  <2>2. down'.pc \in Stops
    BY <2>1 DEF Hooks, LoopOf, Stops
  <2>3. CASE down.pc # "close"
    <3>1. UNCHANGED <<live, closing, closed>>
      BY <1>5, <2>3 DEF HookResolves
    <3> QED
      BY <2>1, <2>2, <3>1, StillGenerations DEF Calm, At, Stops
  <2>4. CASE down.pc = "close"
    <3>1. PICK r : r = NextDown
      OBVIOUS
    <3>2. closed' = closed \cup {r} /\ HasClosed(r)
      BY <1>5, <2>4, <3>1 DEF HookResolves
    <3>3. r \in Resources
      BY <1>0, <2>1, <3>1, Popped DEF DownTyped, NextDown
    <3>4. Calm => live[r] \subseteq closing[r]
      BY <1>0, <2>4, <3>1 DEF ClosesAll
    <3>5. LastOnly' /\ PublishedIsOpen' /\ (Calm => Known')
      BY <2>1, <3>2, <3>3, <3>4, ClosingGenerations
    <3>6. ClosesAll'
      BY <2>2 DEF ClosesAll, Stops
    <3> QED
      BY <2>1, <2>4, <3>5, <3>6, DownGenerations
  <2> QED
    BY <2>3, <2>4
<1>6. CASE HookRejects
  <2>1. down'.pc \in Stops
    BY <1>6 DEF HookRejects, Hooks, LoopOf, Stops
  <2> QED
    BY <1>6, <2>1, StillGenerations DEF HookRejects, Calm, At, Stops
<1>7. CASE SweepEnds
  <2>1. down'.pc \in {"pending", "closing"}
    BY <1>7 DEF SweepEnds
  <2> QED
    BY <1>7, <2>1, StillGenerations DEF SweepEnds, Calm, At
<1>8. CASE PendingOver
  BY <1>8, StillGenerations DEF PendingOver, Calm, At
<1>9. CASE Clean
  BY <1>9, StillGenerations DEF Clean, Returns, Calm, At
<1>10. CASE ForceSweep
  <2>1. /\ down.pc = "closing" /\ down'.pc = "force"
        /\ UNCHANGED <<live, closed, gen, published, chain, raced, forced, attempted, shutdownRequested>>
        /\ AskToClose(forcing') /\ forcing' \subseteq Resources
    BY <1>10 DEF ForceSweep
  <2>2. \A r \in forcing' : closing'[r] = live[r]
    BY <2>1 DEF AskToClose
  <2>3. ClosesAll'
    BY <2>1, <2>2 DEF ClosesAll
  <2>4. LastOnly' /\ PublishedIsOpen' /\ (Calm => Known')
    BY <1>0, <2>1 DEF LastOnly, PublishedIsOpen, Known, IsUp
  <2> QED
    BY <2>1, <2>3, <2>4, DownGenerations
<1>11. CASE ForceFails
  <2>1. forcing' \subseteq forcing
    BY <1>11 DEF ForceFails
  <2> QED
    BY <1>11, <2>1, StillGenerations DEF ForceFails, Calm, At
<1>12. CASE ForceEnds
  BY <1>12, StillGenerations DEF ForceEnds, Returns, Calm, At
<1>13. ASSUME NEW r \in Resources, ForceResolves(r)
       PROVE  GenerationsInv'
  <2>1. /\ down.pc = "force" /\ r \in forcing /\ forcing' = forcing \ {r}
        /\ closed' = closed \cup {r} /\ HasClosed(r)
        /\ UNCHANGED <<gen, published, down, chain, raced, forced, attempted, shutdownRequested>>
    BY <1>13 DEF ForceResolves
  <2>2. Calm => \A x \in forcing : live[x] \subseteq closing[x]
    BY <1>0, <2>1 DEF ClosesAll
  <2>3. LastOnly' /\ PublishedIsOpen' /\ (Calm => Known')
    BY <2>1, <2>2, ClosingGenerations
  <2>4. Calm => ClosesAll'
    <3>1. /\ live' = [live EXCEPT ![r] = @ \ closing[r]] /\ closing' = [closing EXCEPT ![r] = {}]
      BY <2>1 DEF HasClosed
    <3>2. \A x : x # r => live'[x] = live[x] /\ closing'[x] = closing[x]
      BY <1>0, <3>1 DEF WorldTyped
    <3> QED
      BY <2>1, <2>2, <3>2 DEF ClosesAll
  <2> QED
    BY <2>1, <2>3, <2>4, DownGenerations
<1> QED
  BY <1>1, <1>2, <1>3, <1>4, <1>5, <1>6, <1>7, <1>8, <1>9, <1>10, <1>11, <1>12, <1>13

LEMMA NextGenerations ==
  ASSUME Typed, Programs, GenerationsInv, [Next]_vars
  PROVE  GenerationsInv'
<1>1. CASE Callback
  BY <1>1, ChainGenerations, RollbackGenerations, RestartGenerations, ShutdownGenerations DEF Callback
<1>2. CASE Settles
  BY <1>2, ChainGenerations, RollbackGenerations, RestartGenerations, ShutdownGenerations DEF Settles
<1>3. CASE Outside
  BY <1>3, OutsideGenerations, RestartGenerations, ShutdownGenerations DEF Outside
<1>4. CASE Resumes
  BY <1>4, RestartGenerations, ShutdownGenerations DEF Resumes
<1>5. CASE UNCHANGED vars
  BY <1>5, StillGenerations
     DEF vars, kernelVars, recordVars, restartVars, downVars, worldVars, Calm, At
<1> QED
  BY <1>1, <1>2, <1>3, <1>4, <1>5 DEF Next

\* The three facts about generations, in every reachable state.
LEMMA GenerationsHold ==
  ASSUME ~EarlyRestarts
  PROVE  Spec => [](Typed /\ Programs /\ GenerationsInv)
<1>1. Init => Typed /\ Programs /\ GenerationsInv
  BY InitTyped, InitPrograms, InitGenerations
<1>2. Typed /\ Programs /\ GenerationsInv /\ [Next]_vars => (Typed /\ Programs /\ GenerationsInv)'
  BY NextTyped, NextPrograms, NextGenerations
<1> QED
  BY <1>1, <1>2, PTL DEF Spec

\* No resource is ever open twice: a restart starts it again only after every
\* earlier generation was closed (kernel-restart.ts, closeOne before startEach),
\* for every resource graph and any number of restarts, as long as restart()
\* is called after start() has settled.
THEOREM OneOpenEach == ~EarlyRestarts => (Spec => []OneGeneration)
<1> SUFFICES ASSUME ~EarlyRestarts PROVE Spec => []OneGeneration
  OBVIOUS
<1>1. GenerationsInv => OneGeneration
  <2> SUFFICES ASSUME GenerationsInv, NEW r \in Resources PROVE Cardinality(live[r]) <= 1
    BY DEF OneGeneration
  <2>1. live[r] = {} \/ live[r] = {gen[r]}
    BY DEF GenerationsInv, LastOnly
  <2>2. Cardinality({}) = 0 /\ Cardinality({gen[r]}) = 1
    BY FS_EmptySet, FS_Singleton, Zenon
  <2> QED
    BY <2>1, <2>2
<1> QED
  BY <1>1, GenerationsHold, PTL

\* Whatever is open is recorded as up, so that the rollback, a restart and the
\* shutdown find it to close, unless a shutdown overtook a restart in flight or
\* the grace ended (kernel.ts: `attempted` and `closed` of a record).
THEOREM OpenIsKnown == ~EarlyRestarts => (Spec => []GenerationsKnown)
<1> SUFFICES ASSUME ~EarlyRestarts PROVE Spec => []GenerationsKnown
  OBVIOUS
<1>1. GenerationsInv => GenerationsKnown
  BY DEF GenerationsInv, GenerationsKnown, NoneForgotten, Known, Calm
<1> QED
  BY <1>1, GenerationsHold, PTL

-----------------------------------------------------------------------------
(* The handles *)

\* No restart was overtaken, and the graceful path was not abandoned.
Steady == ~raced /\ ~Abandoned

Holds(r) == \A d \in DependsOn[r] : handle[r][d] \in live[d] \cup {0}
ReadyHolds == \A r \in Resources : state[r] = "ready" => IsUp(r) /\ Holds(r)

\* What is being started was handed open generations.
Starts(c) == chain[c].pc \in {"start", "ready"} => Holds(Current(c))

\* Dependants go first: of what a restart, a rollback or the last sweep is about
\* to close, no dependant is ready.
RestartDown ==
  chain["restart"].pc \in Closes =>
    /\ Downward(chain["restart"].todo) /\ ToSet(chain["restart"].todo) \subseteq ToSet(subtree)
    /\ WithDependants(ToSet(subtree))
    /\ \A r \in Resources : r \in ToSet(subtree) \ ToSet(chain["restart"].todo) => state[r] # "ready"
Rolls == {"rollback", "rollbackClose"}
RollbackDown ==
  chain["start"].pc \in Rolls /\ chain["start"].todo # <<>> =>
    /\ Downward(chain["start"].todo)
    /\ \A r \in Resources \ ToSet(chain["start"].todo) : state[r] # "ready"
SweepDown ==
  /\ down.pc \in {"draining", "drain"} =>
       \A r \in Resources :
         r \notin ToSet(down.todo) \/ (DownAt("drain") /\ r = NextDown) => state[r] # "ready"
  /\ down.pc \in {"closing", "close", "force"} => \A r \in Resources : state[r] # "ready"

HandlesInv ==
  Steady => /\ ReadyHolds /\ \A c \in Chains : Starts(c)
            /\ RestartDown /\ RollbackDown /\ SweepDown

LEMMA InitHandles == Init => HandlesInv
<1> SUFFICES ASSUME Init PROVE HandlesInv
  OBVIOUS
<1>1. /\ \A r \in Resources : state[r] = "registered"
      /\ \A c \in Chains : chain[c].pc = "idle"
      /\ down.pc = "idle"
  BY DEF Init
<1> QED
  BY <1>1 DEF HandlesInv, ReadyHolds, Starts, RestartDown, Rolls, RollbackDown, SweepDown, Closes, At,
              DownAt, Chains

\* A step that makes nothing ready, closes nothing, and begins nothing.
LEMMA StillHandles ==
  ASSUME HandlesInv, Steady' => Steady,
         UNCHANGED <<live, handle, closed>>, attempted \subseteq attempted',
         \A r \in Resources : state'[r] = "ready" => state[r] = "ready",
         \A c \in Chains : chain'[c] = chain[c]
                           \/ chain'[c].pc \notin {"start", "ready"} \cup Closes \cup Rolls,
         UNCHANGED subtree \/ chain'["restart"].pc \notin Closes,
         UNCHANGED down \/ down'.pc \notin {"draining", "drain", "closing", "close", "force"}
  PROVE  HandlesInv'
<1> SUFFICES ASSUME Steady'
             PROVE  /\ ReadyHolds' /\ (\A c \in Chains : Starts(c)')
                    /\ RestartDown' /\ RollbackDown' /\ SweepDown'
  BY DEF HandlesInv
<1>0. ReadyHolds /\ (\A c \in Chains : Starts(c)) /\ RestartDown /\ RollbackDown /\ SweepDown
  BY DEF HandlesInv
<1>1. \A r : Holds(r)' <=> Holds(r)
  BY DEF Holds
<1>2. ReadyHolds'
  BY <1>0, <1>1 DEF ReadyHolds, IsUp
<1>3. ASSUME NEW c \in Chains PROVE Starts(c)'
  BY <1>0, <1>1 DEF Starts, Current
<1>4. RestartDown'
  <2>1. CASE chain'["restart"] = chain["restart"] /\ UNCHANGED subtree
    BY <1>0, <2>1 DEF RestartDown
  <2>2. CASE chain'["restart"].pc \notin Closes
    BY <2>2 DEF RestartDown
  <2> QED
    BY <2>1, <2>2 DEF Chains
<1>5. RollbackDown'
  BY <1>0 DEF RollbackDown, Chains
<1>6. SweepDown'
  BY <1>0 DEF SweepDown, DownAt, NextDown
<1> QED
  BY <1>2, <1>3, <1>4, <1>5, <1>6

\* A step of a chain, while the other programs rest.
LEMMA MoveHandles ==
  ASSUME NEW c \in Chains,
         Steady' => /\ ReadyHolds' /\ Starts(c)'
                    /\ (c = "restart" => RestartDown') /\ (c = "start" => RollbackDown')
                    /\ \A d \in Chains : d # c => chain'[d].pc \in {"idle", "done"}
                    /\ down'.pc \in {"idle", "startPromise"}
  PROVE  HandlesInv'
<1> SUFFICES ASSUME Steady'
             PROVE  (\A d \in Chains : Starts(d)') /\ RestartDown' /\ RollbackDown' /\ SweepDown'
  BY DEF HandlesInv
<1>1. \A d \in Chains : d # c => Starts(d)'
  BY DEF Starts
<1>2. c # "restart" => RestartDown'
  BY DEF RestartDown, Closes, Chains
<1>3. c # "start" => RollbackDown'
  BY DEF RollbackDown, Rolls, Chains
<1> QED
  BY <1>1, <1>2, <1>3 DEF SweepDown, DownAt

\* A step of the shutdown, while both chains rest.
LEMMA DownHandles ==
  ASSUME Programs, UNCHANGED chain, down.pc \notin {"idle", "startPromise"},
         Steady' => Steady /\ ReadyHolds' /\ SweepDown'
  PROVE  HandlesInv'
<1> SUFFICES ASSUME Steady'
             PROVE  (\A d \in Chains : Starts(d)') /\ RestartDown' /\ RollbackDown'
  BY DEF HandlesInv
<1>1. chain'["start"].pc \in {"idle", "done"} /\ chain'["restart"].pc = "idle"
  BY Alone DEF Steady, Abandoned, Calm, At
<1> QED
  BY <1>1 DEF Starts, RestartDown, RollbackDown, Closes, Rolls, Chains

\* The handles that are held stay open when a resource is closed of which no
\* dependant is ready.
LEMMA ClosingHandles ==
  ASSUME Typed, ReadyHolds, NEW r \in Resources, HasClosed(r), UNCHANGED handle,
         \A x \in Resources : r \in DependsOn[x] => state[x] # "ready",
         \A x \in Resources : state'[x] = "ready" =>
           x # r /\ state[x] = "ready" /\ (IsUp(x) => IsUp(x)')
  PROVE  ReadyHolds'
<1>1. live' = [live EXCEPT ![r] = @ \ closing[r]] /\ live \in [Resources -> SUBSET Nat]
  BY DEF HasClosed, Typed, WorldTyped
<1>2. ASSUME NEW x \in Resources, state'[x] = "ready"
      PROVE  Holds(x)'
  <2>1. Holds(x) /\ r \notin DependsOn[x]
    BY <1>2 DEF ReadyHolds
  <2>2. \A d \in DependsOn[x] : live'[d] = live[d]
    BY <1>1, <2>1
  <2> QED
    BY <2>1, <2>2 DEF Holds
<1> QED
  BY <1>2 DEF ReadyHolds

LEMMA ChainHandles ==
  ASSUME Typed, Programs, GenerationsInv, HandlesInv, NEW c \in Chains,
         \/ Interrupt(c) \/ StartBlocked(c) \/ CallStart(c) \/ AllStarted(c)
         \/ SkipActivation(c) \/ CallActivate(c) \/ AllActivated(c) \/ StartSettles(c)
  PROVE  HandlesInv'
<1>a. PICK r, left, todo : r = Current(c) /\ left = Left(c) /\ todo = chain[c].todo
  OBVIOUS
<1>0. /\ ChainsTyped /\ WorldTyped /\ RecordsTyped
      /\ todo \in Seq(Resources)
      /\ \A pc \in Awaits : At(c, pc) => todo # <<>>
      /\ todo # <<>> => r \in Resources /\ left \in Seq(Resources)
  BY <1>a, TodoIs DEF Typed, At
<1>1. /\ {"failed", "activating", "activate", "idle", "done", "starting"}
           \cap ({"start", "ready"} \cup Closes \cup Rolls) = {}
      /\ {"failed", "activating", "activate", "idle", "done", "starting", "start", "ready"} \subseteq ChainPCs
      /\ {"start", "ready", "activate"} \subseteq Awaits
      /\ {"failed", "activating", "idle", "done", "starting"} \cap Awaits = {}
      /\ <<>> \in Seq(Resources)
  BY DEF ChainPCs, Awaits, Closes, Rolls
<1>2. Steady => Calm /\ ReadyHolds /\ Starts(c)
  BY DEF HandlesInv, Steady, Abandoned, Calm
\* Most steps go on without making anything ready.
<1>3. ASSUME UNCHANGED <<live, handle, closed, attempted, down, raced, forced, gracefulFailed>>,
             \A x \in Resources : state'[x] = "ready" => state[x] = "ready",
             UNCHANGED subtree \/ c = "restart",
             NEW pc \in {"failed", "activating", "activate", "idle", "done", "starting"},
             NEW rest \in Seq(Resources), pc \in Awaits => rest # <<>>, Goes(c, pc, rest)
      PROVE  HandlesInv'
  <2>1. chain'[c].pc = pc /\ \A d \in Chains : d # c => chain'[d] = chain[d]
    BY <1>0, <1>1, <1>3, Goto
  <2>2. /\ \A d \in Chains : chain'[d] = chain[d]
                             \/ chain'[d].pc \notin {"start", "ready"} \cup Closes \cup Rolls
        /\ UNCHANGED subtree \/ chain'["restart"].pc \notin Closes
    BY <1>1, <1>3, <2>1
  <2> QED
    BY <1>3, <2>2, StillHandles DEF Steady, Abandoned
<1>4. ASSUME NEW x \in Resources, MarkFailed(x)
      PROVE  \A y \in Resources : state'[y] = "ready" => state[y] = "ready"
  BY <1>0, <1>4 DEF MarkFailed, RecordsTyped
\* The other programs rest while a start goes on.
<1>5. ASSUME Steady', chain[c].pc \in {"starting", "start", "ready"},
             UNCHANGED <<down, raced, forced, gracefulFailed>>,
             NEW pc \in {"failed", "starting", "start", "ready"}, NEW rest \in Seq(Resources),
             pc \in Awaits => rest # <<>>, Goes(c, pc, rest)
      PROVE  /\ Steady /\ chain'[c].pc = pc /\ chain'[c].todo = rest
             /\ c = "restart" => RestartDown'
             /\ c = "start" => RollbackDown'
             /\ \A d \in Chains : d # c => chain'[d].pc \in {"idle", "done"}
             /\ down'.pc \in {"idle", "startPromise"}
  <2>1. chain'[c].pc = pc /\ chain'[c].todo = rest
    BY <1>0, <1>1, <1>5, Goto
  <2>2. (c = "restart" => RestartDown') /\ (c = "start" => RollbackDown')
    BY <2>1 DEF RestartDown, RollbackDown, Closes, Rolls
  <2>3. Steady /\ Calm
    BY <1>5 DEF Steady, Abandoned, Calm
  <2> QED
    BY <1>1, <1>5, <2>1, <2>2, <2>3, OthersRest
<1> USE DEF kernelVars, recordVars, restartVars, downVars, worldVars
<1>11. CASE Interrupt(c)
  <2>1. Goes(c, "failed", <<>>)
    BY <1>11 DEF Interrupt
  <2> QED
    BY <1>1, <1>3, <1>11, <2>1 DEF Interrupt
<1>12. CASE StartBlocked(c)
  <2>1. PICK pc \in {"failed", "starting"}, rest \in {<<>>, left} : Goes(c, pc, rest)
    BY <1>12, <1>a DEF StartBlocked
  <2>2. todo # <<>> /\ MarkFailed(r)
    BY <1>12, <1>a DEF StartBlocked
  <2> QED
    BY <1>0, <1>1, <1>3, <1>4, <1>12, <2>1, <2>2 DEF StartBlocked
<1>13. CASE CallStart(c)
  <2>1. /\ At(c, "starting") /\ todo # <<>> /\ Goes(c, "start", todo)
        /\ UNCHANGED <<live, closed, down, raced, forced, gracefulFailed>>
        /\ attempted' = attempted \cup {r} /\ state' = [state EXCEPT ![r] = "starting"]
        /\ \A d \in DependsOn[r] : state[d] = "ready"
        /\ handle' = [handle EXCEPT ![r] =
                        [d \in Resources |-> IF d \in DependsOn[r] THEN published[d] ELSE 0]]
    BY <1>13, <1>a DEF CallStart, DependencyFailed
  <2>2. r \in Resources /\ DependsOn[r] \subseteq Resources
    BY <1>0, <2>1, KernelAssumption
  <2>3. \A x \in Resources \ {r} : handle'[x] = handle[x] /\ state'[x] = state[x]
    BY <1>0, <2>1 DEF WorldTyped, RecordsTyped
  <2>4. /\ state'[r] = "starting"
        /\ \A d \in DependsOn[r] : handle'[r][d] = published[d]
    BY <1>0, <2>1, <2>2 DEF WorldTyped, RecordsTyped
  <2>5. ASSUME Steady
        PROVE  ReadyHolds' /\ Holds(r)'
    <3>1. ReadyHolds /\ PublishedIsOpen
      BY <1>2, <2>5 DEF GenerationsInv
    <3>2. \A d \in DependsOn[r] : published[d] \in live[d] \cup {0}
      BY <2>1, <2>2, <3>1 DEF ReadyHolds, IsUp, PublishedIsOpen
    <3>3. Holds(r)'
      BY <2>1, <2>4, <3>2 DEF Holds
    <3>4. \A x \in Resources \ {r} : Holds(x) => Holds(x)'
      BY <2>1, <2>3 DEF Holds
    <3>5. \A x \in Resources : IsUp(x) => IsUp(x)'
      BY <2>1 DEF IsUp
    <3> QED
      BY <2>3, <2>4, <3>1, <3>3, <3>4, <3>5 DEF ReadyHolds
  <2>6. chain'[c].todo = todo
    BY <1>0, <1>1, <2>1, Goto
  <2>7. Current(c)' = r
    BY <1>a, <2>6 DEF Current
  <2> QED
    BY <1>0, <1>5, <2>1, <2>5, <2>7, MoveHandles DEF Starts, At
<1>14. CASE AllStarted(c)
  <2>1. Goes(c, "activating", Entries(c)) /\ Entries(c) \in Seq(Resources)
    BY <1>14, OrderIs DEF AllStarted, Entries, Typed, QueueTyped
  <2> QED
    BY <1>1, <1>3, <1>14, <2>1 DEF AllStarted
<1>15. CASE SkipActivation(c)
  <2>1. PICK pc \in {"failed", "activating"}, rest \in {<<>>, left} : Goes(c, pc, rest)
    BY <1>15, <1>a DEF SkipActivation
  <2>2. todo # <<>> /\ (MarkFailed(r) \/ UNCHANGED state)
    BY <1>15, <1>a DEF SkipActivation
  <2>3. \A y \in Resources : state'[y] = "ready" => state[y] = "ready"
    BY <1>0, <1>4, <2>2
  <2> QED
    BY <1>0, <1>1, <1>3, <1>15, <2>1, <2>2, <2>3 DEF SkipActivation
<1>16. CASE CallActivate(c)
  <2>1. Goes(c, "activate", todo) /\ todo # <<>>
    BY <1>16, <1>a DEF CallActivate
  <2> QED
    BY <1>0, <1>1, <1>3, <1>16, <2>1 DEF CallActivate
<1>17. CASE AllActivated(c)
  <2>1. PICK pc \in {"done", "failed", "idle"} : Goes(c, pc, <<>>)
    BY <1>17 DEF AllActivated
  <2>2. UNCHANGED subtree \/ c = "restart"
    BY <1>17 DEF AllActivated
  <2> QED
    BY <1>1, <1>3, <1>17, <2>1, <2>2 DEF AllActivated
\* A resource that becomes ready holds what it was handed.
<1>6. ASSUME chain[c].pc \in {"start", "ready"}, BecomesReady(c, r), UNCHANGED handle,
             \A x \in Resources : live[x] \subseteq live'[x],
             UNCHANGED <<closed, attempted, down, raced, forced, gracefulFailed>>
      PROVE  HandlesInv'
  <2>1. r \in Resources /\ left \in Seq(Resources) /\ Goes(c, "starting", left)
        /\ state' = [state EXCEPT ![r] = "ready"]
    BY <1>0, <1>1, <1>6, <1>a DEF BecomesReady, At
  <2>2. \A x \in Resources \ {r} : state'[x] = state[x]
    BY <1>0, <2>1 DEF RecordsTyped
  <2>3. ASSUME Steady
        PROVE  ReadyHolds'
    <3>1. Holds(r) /\ IsUp(r) /\ ReadyHolds
      BY <1>2, <1>6, <1>a, <2>3 DEF Starts, GenerationsInv, Begins
    <3>2. \A x \in Resources : Holds(x) => Holds(x)'
      <4>1. ASSUME NEW x \in Resources, Holds(x), NEW d \in DependsOn[x]
            PROVE  handle'[x][d] \in live'[d] \cup {0}
        BY <1>6, <4>1, KernelAssumption DEF Holds
      <4> QED
        BY <4>1 DEF Holds
    <3>3. \A x \in Resources : IsUp(x) => IsUp(x)'
      BY <1>6 DEF IsUp
    <3> QED
      BY <2>2, <3>1, <3>2, <3>3 DEF ReadyHolds
  <2>4. chain'[c].pc = "starting"
    BY <1>0, <1>1, <2>1, Goto
  <2>5. Starts(c)'
    BY <2>4 DEF Starts
  <2> QED
    BY <1>1, <1>5, <1>6, <2>1, <2>3, <2>5, MoveHandles
\* Until then its dependants are not, and what was open stays open.
<1>7. ASSUME chain[c].pc \in {"start", "ready"}, UNCHANGED handle,
             \A x \in Resources : live[x] \subseteq live'[x],
             \A x \in Resources : state'[x] = "ready" => state[x] = "ready",
             UNCHANGED <<closed, attempted, down, raced, forced, gracefulFailed>>,
             NEW pc \in {"failed", "starting", "ready"}, NEW rest \in Seq(Resources),
             pc = "ready" => rest = todo /\ todo # <<>>, Goes(c, pc, rest)
      PROVE  HandlesInv'
  <2>1. chain'[c].pc = pc /\ chain'[c].todo = rest
    BY <1>0, <1>1, <1>7, Goto
  <2>2. \A x \in Resources : Holds(x) => Holds(x)'
    <3>1. ASSUME NEW x \in Resources, Holds(x), NEW d \in DependsOn[x]
          PROVE  handle'[x][d] \in live'[d] \cup {0}
      BY <1>7, <3>1, KernelAssumption DEF Holds
    <3> QED
      BY <3>1 DEF Holds
  <2>3. ASSUME Steady
        PROVE  ReadyHolds' /\ Starts(c)'
    <3>1. ReadyHolds /\ Holds(r)
      BY <1>2, <1>7, <1>a, <2>3 DEF Starts
    <3>2. ReadyHolds'
      BY <1>7, <2>2, <3>1 DEF ReadyHolds, IsUp
    <3>3. pc = "ready" => Current(c)' = r /\ r \in Resources
      BY <1>0, <1>7, <1>a, <2>1 DEF Current
    <3> QED
      BY <2>1, <2>2, <3>1, <3>2, <3>3 DEF Starts
  <2> QED
    BY <1>1, <1>5, <1>7, <2>3, MoveHandles
<1>18. CASE StartResolves(c)
  <2>1. /\ At(c, "start") /\ todo # <<>> /\ r \in Resources
        /\ UNCHANGED <<closed, attempted, handle, down, raced, forced, gracefulFailed>>
        /\ live' = [live EXCEPT ![r] = @ \cup {gen[r]}]
    BY <1>0, <1>1, <1>18, <1>a DEF StartResolves, At
  <2>2. \A x \in Resources : live[x] \subseteq live'[x]
    BY <1>0, <2>1 DEF WorldTyped
  <2>3. \/ BecomesReady(c, r)
        \/ UNCHANGED state /\ (Goes(c, "failed", <<>>) \/ Goes(c, "ready", todo))
    BY <1>18, <1>a DEF StartResolves
  <2>4. CASE BecomesReady(c, r)
    BY <1>6, <2>1, <2>2, <2>4 DEF At
  <2>5. CASE UNCHANGED state /\ Goes(c, "failed", <<>>)
    BY <1>1, <1>7, <2>1, <2>2, <2>5 DEF At
  <2>6. CASE UNCHANGED state /\ Goes(c, "ready", todo)
    BY <1>0, <1>7, <2>1, <2>2, <2>6 DEF At
  <2> QED
    BY <2>3, <2>4, <2>5, <2>6
<1>19. CASE ReadyResolves(c)
  <2>1. /\ At(c, "ready")
        /\ UNCHANGED <<live, closed, attempted, handle, down, raced, forced, gracefulFailed>>
        /\ BecomesReady(c, r) \/ (Goes(c, "failed", <<>>) /\ UNCHANGED state)
    BY <1>19, <1>a DEF ReadyResolves
  <2>2. CASE BecomesReady(c, r)
    BY <1>6, <2>1, <2>2 DEF At
  <2>3. CASE Goes(c, "failed", <<>>) /\ UNCHANGED state
    BY <1>1, <1>7, <2>1, <2>3 DEF At
  <2> QED
    BY <2>1, <2>2, <2>3
<1>20. CASE StartRejects(c)
  <2>1. /\ chain[c].pc \in {"start", "ready"} /\ r \in Resources /\ left \in Seq(Resources)
        /\ UNCHANGED <<closed, attempted, handle, down, raced, forced, gracefulFailed>>
        /\ live' = [live EXCEPT ![r] = @ \cup {gen[r]}] /\ MarkFailed(r)
        /\ Goes(c, "failed", <<>>) \/ Goes(c, "starting", left)
    BY <1>0, <1>1, <1>20, <1>a DEF StartRejects, At
  <2>2. \A x \in Resources : live[x] \subseteq live'[x]
    BY <1>0, <2>1 DEF WorldTyped
  <2> QED
    BY <1>1, <1>4, <1>7, <2>1, <2>2
<1>21. CASE ActivateResolves(c)
  <2>1. PICK pc \in {"failed", "activating"}, rest \in {<<>>, left} : Goes(c, pc, rest)
    BY <1>21, <1>a DEF ActivateResolves
  <2>2. r \in Resources /\ left \in Seq(Resources) /\ (MarkFailed(r) \/ UNCHANGED state)
    BY <1>0, <1>1, <1>21, <1>a DEF ActivateResolves
  <2>3. \A y \in Resources : state'[y] = "ready" => state[y] = "ready"
    BY <1>4, <2>2
  <2> QED
    BY <1>0, <1>1, <1>3, <1>21, <2>1, <2>2, <2>3 DEF ActivateResolves
<1>22. CASE ActivateRejects(c)
  <2>1. PICK pc \in {"failed", "activating"}, rest \in {<<>>, left} : Goes(c, pc, rest)
    BY <1>22, <1>a DEF ActivateRejects
  <2>2. r \in Resources /\ left \in Seq(Resources) /\ MarkFailed(r)
    BY <1>0, <1>1, <1>22, <1>a DEF ActivateRejects
  <2> QED
    BY <1>0, <1>1, <1>3, <1>4, <1>22, <2>1, <2>2 DEF ActivateRejects
<1> QED
  BY <1>11, <1>12, <1>13, <1>14, <1>15, <1>16, <1>17, <1>18, <1>19, <1>20, <1>21, <1>22
     DEF StartSettles

LEMMA RollbackHandles ==
  ASSUME Typed, Programs, GenerationsInv, HandlesInv,
         StartFails \/ RollbackNext \/ RollbackCloses \/ RollbackFails \/ RolledBack
  PROVE  HandlesInv'
<1>a. PICK r, left, todo : r = Current("start") /\ left = Left("start") /\ todo = chain["start"].todo
  OBVIOUS
<1>0. /\ ChainsTyped /\ WorldTyped /\ RecordsTyped /\ "start" \in Chains
      /\ todo \in Seq(Resources)
      /\ At("start", "rollbackClose") => todo # <<>>
  BY <1>a, TodoIs DEF Typed, At, Awaits, Chains
<1>00. ASSUME todo # <<>>
       PROVE  /\ r \in Resources /\ left \in Seq(Resources) /\ ToSet(todo) = ToSet(left) \cup {r}
              /\ Downward(todo) =>
                   Downward(left) /\ \A x \in ToSet(todo) : r \notin DependsOn[x]
  BY <1>a, <1>0, <1>00, Popped DEF Current, Left
<1>1. /\ {"rollback", "rollbackClose", "done"} \subseteq ChainPCs
      /\ {"rollback", "done"} \cap Awaits = {}
      /\ <<>> \in Seq(Resources) /\ Reverse(Order) \in Seq(Resources)
  BY OrderIs DEF ChainPCs, Awaits
<1>2. Steady => ReadyHolds /\ RollbackDown /\ Known
  BY DEF HandlesInv, GenerationsInv, Steady, Abandoned, Calm
<1> USE DEF kernelVars, recordVars, restartVars, downVars, worldVars
\* The other programs rest while a rollback goes on.
<1>3. ASSUME Steady', chain["start"].pc \notin {"idle", "done"},
             UNCHANGED <<down, raced, forced, gracefulFailed>>,
             NEW pc \in {"rollback", "rollbackClose", "done"}, NEW rest \in Seq(Resources),
             pc \in Awaits => rest # <<>>, Goes("start", pc, rest)
      PROVE  /\ Steady /\ chain'["start"].pc = pc /\ chain'["start"].todo = rest
             /\ Starts("start")'
             /\ \A d \in Chains : d # "start" => chain'[d].pc \in {"idle", "done"}
             /\ down'.pc \in {"idle", "startPromise"}
  <2>1. chain'["start"].pc = pc /\ chain'["start"].todo = rest
    BY <1>0, <1>1, <1>3, Goto
  <2>2. Steady /\ Calm
    BY <1>3 DEF Steady, Abandoned, Calm
  <2>3. Starts("start")'
    BY <2>1 DEF Starts
  <2> QED
    BY <1>0, <1>1, <1>3, <2>1, <2>2, <2>3, OthersRest
<1>4. CASE StartFails
  <2>1. PICK pc \in {"done", "rollback"}, rest \in {<<>>, Reverse(Order)} :
          Goes("start", pc, rest) /\ (pc = "rollback" => rest = Reverse(Order))
    BY <1>4 DEF StartFails
  <2>2. /\ At("start", "failed")
        /\ UNCHANGED <<state, attempted, closed, live, handle, down, raced, forced, gracefulFailed>>
    BY <1>4 DEF StartFails
  <2>3. ASSUME Steady'
        PROVE  ReadyHolds' /\ RollbackDown'
    <3>1. Steady /\ chain'["start"].pc = pc /\ chain'["start"].todo = rest
      BY <1>1, <1>3, <2>1, <2>2, <2>3 DEF At
    <3>2. ReadyHolds'
      BY <1>2, <2>2, <3>1 DEF ReadyHolds, Holds, IsUp
    <3>3. RollbackDown'
      BY <2>1, <3>1, OrderIs DEF RollbackDown, Rolls
    <3> QED
      BY <3>2, <3>3
  <2> QED
    BY <1>0, <1>1, <1>3, <2>1, <2>2, <2>3, MoveHandles DEF At
<1>5. CASE RollbackNext
  <2>1. /\ At("start", "rollback") /\ todo # <<>>
        /\ UNCHANGED <<attempted, closed, live, handle, down, raced, forced, gracefulFailed>>
        /\ \/ ~IsUp(r) /\ UNCHANGED state /\ Goes("start", "rollback", left)
           \/ state' = [state EXCEPT ![r] = "stopping"] /\ Goes("start", "rollbackClose", todo)
    BY <1>5, <1>a DEF RollbackNext
  <2>2. \A x \in Resources : state'[x] = "ready" => state[x] = "ready"
    BY <1>0, <2>1 DEF RecordsTyped
  <2>3. ASSUME Steady PROVE ReadyHolds'
    BY <1>2, <2>1, <2>2, <2>3 DEF ReadyHolds, Holds, IsUp
  <2>4. CASE ~IsUp(r) /\ UNCHANGED state /\ Goes("start", "rollback", left)
    <3>1. ASSUME Steady' PROVE Steady /\ RollbackDown'
      <4>1. Steady /\ chain'["start"].pc = "rollback" /\ chain'["start"].todo = left
        BY <1>00, <1>1, <1>3, <2>1, <2>4, <3>1 DEF At
      <4>2. Downward(todo) /\ \A x \in Resources \ ToSet(todo) : state[x] # "ready"
        BY <1>2, <1>a, <2>1, <4>1 DEF RollbackDown, Rolls, At
      <4>3. \A x \in Resources \ ToSet(left) : state'[x] # "ready"
        BY <1>00, <1>2, <2>1, <2>4, <4>1, <4>2 DEF ReadyHolds
      <4> QED
        BY <1>00, <2>1, <4>1, <4>2, <4>3 DEF RollbackDown
    <3> QED
      BY <1>0, <1>00, <1>1, <1>3, <2>1, <2>3, <2>4, <3>1, MoveHandles DEF At
  <2>5. CASE state' = [state EXCEPT ![r] = "stopping"] /\ Goes("start", "rollbackClose", todo)
    <3>1. ASSUME Steady' PROVE Steady /\ RollbackDown'
      <4>1. Steady /\ chain'["start"].pc = "rollbackClose" /\ chain'["start"].todo = todo
        BY <1>0, <1>1, <1>3, <2>1, <2>5, <3>1 DEF At
      <4>2. Downward(todo) /\ \A x \in Resources \ ToSet(todo) : state[x] # "ready"
        BY <1>2, <1>a, <2>1, <4>1 DEF RollbackDown, Rolls, At
      <4> QED
        BY <2>2, <4>1, <4>2 DEF RollbackDown
    <3> QED
      BY <1>0, <1>1, <1>3, <2>1, <2>3, <2>5, <3>1, MoveHandles DEF At
  <2> QED
    BY <2>1, <2>4, <2>5
<1>6. CASE RollbackCloses
  <2>1. /\ At("start", "rollbackClose") /\ todo # <<>>
        /\ UNCHANGED <<attempted, handle, down, raced, forced, gracefulFailed>>
        /\ Goes("start", "rollback", left) /\ HasClosed(r)
        /\ closed' = closed \cup {r} /\ state' = [state EXCEPT ![r] = "stopped"]
    BY <1>0, <1>6, <1>a DEF RollbackCloses
  <2>2. \A x \in Resources : state'[x] = "ready" => x # r /\ state[x] = "ready"
    BY <1>0, <2>1 DEF RecordsTyped
  <2>3. ASSUME Steady' PROVE Steady /\ ReadyHolds' /\ RollbackDown'
    <3>1. Steady /\ chain'["start"].pc = "rollback" /\ chain'["start"].todo = left
      BY <1>00, <1>1, <1>3, <2>1, <2>3 DEF At
    <3>2. Downward(todo) /\ \A x \in Resources \ ToSet(todo) : state[x] # "ready"
      BY <1>2, <1>a, <2>1, <3>1 DEF RollbackDown, Rolls, At
    <3>3. \A x \in Resources : r \in DependsOn[x] => state[x] # "ready"
      BY <1>00, <2>1, <3>2
    <3>4. \A x \in Resources : x # r /\ IsUp(x) => IsUp(x)'
      BY <2>1 DEF IsUp
    <3>5. ReadyHolds'
      BY <1>00, <1>2, <2>1, <2>2, <3>1, <3>3, <3>4, ClosingHandles
    <3>6. \A x \in Resources \ ToSet(left) : state'[x] # "ready"
      BY <1>00, <2>1, <2>2, <3>2
    <3> QED
      BY <1>00, <2>1, <3>1, <3>2, <3>5, <3>6 DEF RollbackDown
  <2> QED
    BY <1>0, <1>00, <1>1, <1>3, <2>1, <2>3, MoveHandles DEF At
<1>7. CASE RollbackFails
  <2>1. PICK rest \in {left, <<>>} : Goes("start", "rollback", rest)
    BY <1>7, <1>a DEF RollbackFails
  <2>2. /\ At("start", "rollbackClose") /\ todo # <<>>
        /\ UNCHANGED <<attempted, closed, live, handle, down, raced, forced, gracefulFailed>>
        /\ state' = [state EXCEPT ![r] = "failed"]
    BY <1>0, <1>7, <1>a DEF RollbackFails
  <2>3. \A x \in Resources : state'[x] = "ready" => x # r /\ state[x] = "ready"
    BY <1>0, <2>2 DEF RecordsTyped
  <2>4. ASSUME Steady' PROVE Steady /\ ReadyHolds' /\ RollbackDown'
    <3>1. Steady /\ chain'["start"].pc = "rollback" /\ chain'["start"].todo = rest
      BY <1>00, <1>1, <1>3, <2>1, <2>2, <2>4 DEF At
    <3>2. Downward(todo) /\ \A x \in Resources \ ToSet(todo) : state[x] # "ready"
      BY <1>2, <1>a, <2>2, <3>1 DEF RollbackDown, Rolls, At
    <3>3. ReadyHolds'
      BY <1>2, <2>2, <2>3, <3>1 DEF ReadyHolds, Holds, IsUp
    <3>4. \A x \in Resources \ ToSet(left) : state'[x] # "ready"
      BY <1>00, <2>2, <2>3, <3>2
    <3> QED
      BY <1>00, <2>1, <2>2, <3>1, <3>2, <3>3, <3>4 DEF RollbackDown
  <2> QED
    BY <1>0, <1>00, <1>1, <1>3, <2>1, <2>2, <2>4, MoveHandles DEF At
<1>8. CASE RolledBack
  <2>1. Goes("start", "done", <<>>) /\ At("start", "rollback")
        /\ UNCHANGED <<state, attempted, closed, live, handle, down, raced, forced, gracefulFailed>>
    BY <1>8 DEF RolledBack
  <2>2. ASSUME Steady' PROVE ReadyHolds' /\ RollbackDown'
    <3>1. Steady /\ chain'["start"].pc = "done"
      BY <1>1, <1>3, <2>1, <2>2 DEF At
    <3> QED
      BY <1>2, <2>1, <3>1 DEF ReadyHolds, Holds, IsUp, RollbackDown, Rolls
  <2> QED
    BY <1>0, <1>1, <1>3, <2>1, <2>2, MoveHandles DEF At
<1> QED
  BY <1>4, <1>5, <1>6, <1>7, <1>8

LEMMA RestartHandles ==
  ASSUME Typed, Programs, GenerationsInv, HandlesInv,
         \/ Refuse \/ RunRestart \/ CloseOne \/ Closed \/ RestartFails
         \/ PhaseResolves \/ CloseResolves \/ PhaseFails \/ RestartTimeout
         \/ \E r \in Resources : Restart(r)
  PROVE  HandlesInv'
<1>a. PICK r, left, todo : r = Current("restart") /\ left = Left("restart")
                           /\ todo = chain["restart"].todo
  OBVIOUS
<1>0. /\ ChainsTyped /\ WorldTyped /\ RecordsTyped /\ "restart" \in Chains
      /\ todo \in Seq(Resources) /\ subtree \in Seq(Resources) /\ ToSet(subtree) \subseteq Resources
      /\ \A pc \in Awaits : At("restart", pc) => todo # <<>>
  BY <1>a, TodoIs, ElementIs DEF Typed, QueueTyped, At, Chains
<1>00. ASSUME todo # <<>>
       PROVE  /\ r \in Resources /\ left \in Seq(Resources) /\ ToSet(todo) = ToSet(left) \cup {r}
              /\ Downward(todo) =>
                   Downward(left) /\ \A x \in ToSet(todo) : r \notin DependsOn[x]
  BY <1>a, <1>0, <1>00, Popped DEF Current, Left
<1>1. /\ {"idle", "failed", "starting", "closing", "stopAdmission", "drain", "close"} \subseteq ChainPCs
      /\ {"idle", "failed", "starting"} \cap ({"start", "ready"} \cup Closes \cup Rolls) = {}
      /\ {"idle", "failed", "starting", "closing"} \cap Awaits = {}
      /\ {"stopAdmission", "drain", "close"} \subseteq Awaits
      /\ <<>> \in Seq(Resources)
  BY DEF ChainPCs, Awaits, Closes, Rolls
<1>2. Steady => ReadyHolds /\ RestartDown
  BY DEF HandlesInv
<1> USE DEF kernelVars, recordVars, restartVars, downVars, worldVars
<1>3. ASSUME UNCHANGED <<state, attempted, closed, live, handle, down, raced, forced, gracefulFailed>>,
             NEW pc \in {"idle", "failed", "starting"}, NEW rest \in Seq(Resources),
             Goes("restart", pc, rest)
      PROVE  HandlesInv'
  <2>1. /\ chain'["restart"].pc = pc
        /\ \A d \in Chains : d # "restart" => chain'[d] = chain[d]
    BY <1>0, <1>1, <1>3, Goto
  <2>2. /\ \A d \in Chains : chain'[d] = chain[d]
                             \/ chain'[d].pc \notin {"start", "ready"} \cup Closes \cup Rolls
        /\ chain'["restart"].pc \notin Closes
    BY <1>1, <2>1
  <2> QED
    BY <1>3, <2>2, StillHandles DEF Steady, Abandoned
\* The other programs rest while a restart goes on.
<1>4. ASSUME Steady', chain["restart"].pc \in Closes, UNCHANGED <<down, raced, forced, gracefulFailed>>,
             NEW pc \in Closes, NEW rest \in Seq(Resources), pc \in Awaits => rest # <<>>,
             Goes("restart", pc, rest)
      PROVE  /\ Steady /\ chain'["restart"].pc = pc /\ chain'["restart"].todo = rest
             /\ Starts("restart")'
             /\ \A d \in Chains : d # "restart" => chain'[d].pc \in {"idle", "done"}
             /\ down'.pc \in {"idle", "startPromise"}
  <2>0. pc \in ChainPCs /\ pc \notin {"idle", "start", "ready"}
        /\ chain["restart"].pc \notin {"idle", "done"}
    BY <1>1, <1>4 DEF Closes
  <2>1. chain'["restart"].pc = pc /\ chain'["restart"].todo = rest
    BY <1>0, <1>4, <2>0, Goto
  <2>2. Steady /\ Calm
    BY <1>4 DEF Steady, Abandoned, Calm
  <2>3. Starts("restart")'
    BY <2>0, <2>1 DEF Starts
  <2> QED
    BY <1>0, <1>4, <2>0, <2>1, <2>2, <2>3, OthersRest
\* What the restart is about to close, by the invariant.
<1>5. ASSUME Steady, chain["restart"].pc \in Closes
      PROVE  /\ Downward(todo) /\ ToSet(todo) \subseteq ToSet(subtree) /\ WithDependants(ToSet(subtree))
             /\ \A x \in Resources : x \in ToSet(subtree) \ ToSet(todo) => state[x] # "ready"
  BY <1>2, <1>5, <1>a DEF RestartDown
<1>6. CASE Refuse
  BY <1>6, StillHandles DEF Refuse, Steady, Abandoned
<1>7. CASE RunRestart
  <2>1. /\ turn = "restart" /\ At("restart", "idle") /\ ~shutdownRequested /\ queue # <<>>
        /\ UNCHANGED <<state, attempted, closed, live, handle, down>>
    BY <1>7 DEF RunRestart, Typed, QueueTyped
  <2>2. PICK s \in SetToSeqs(Dependants(Head(queue))) :
          InStartOrder(s) /\ subtree' = s /\ Goes("restart", "closing", Reverse(s))
    BY <1>7 DEF RunRestart
  <2>3. /\ Reverse(s) \in Seq(Resources) /\ ToSet(Reverse(s)) = ToSet(s)
        /\ Downward(Reverse(s)) /\ WithDependants(ToSet(s))
    BY <2>1, <2>2, SubtreeIs DEF Typed, QueueTyped
  <2>4. /\ chain'["restart"].pc = "closing" /\ chain'["restart"].todo = Reverse(s)
        /\ \A d \in Chains : d # "restart" => chain'[d] = chain[d]
    BY <1>0, <1>1, <2>2, <2>3, Goto
  <2>5. RestartDown' /\ Starts("restart")'
    BY <2>2, <2>3, <2>4 DEF RestartDown, Starts
  <2>6. At("start", "done") /\ DownAt("idle") /\ Steady
    BY <2>1 DEF Programs, Calm, Steady, Abandoned
  <2>7. ReadyHolds'
    BY <1>2, <2>1, <2>6 DEF ReadyHolds, Holds, IsUp
  <2> QED
    BY <1>0, <2>1, <2>4, <2>5, <2>6, <2>7, MoveHandles DEF At, DownAt, Chains
<1>8. CASE CloseOne
  <2>0. /\ At("restart", "closing") /\ todo # <<>>
        /\ UNCHANGED <<live, handle, subtree, down, raced, forced, gracefulFailed>>
        /\ \/ UNCHANGED <<state, attempted, closed>> /\ Goes("restart", "stopAdmission", todo)
           \/ Erase(r) /\ ~IsUp(r) /\ Goes("restart", "closing", left)
    BY <1>8, <1>a DEF CloseOne
  <2>1. chain["restart"].pc \in Closes /\ {"stopAdmission", "closing"} \subseteq Closes
    BY <2>0 DEF At, Closes
  <2>2. CASE UNCHANGED <<state, attempted, closed>> /\ Goes("restart", "stopAdmission", todo)
    <3>1. ASSUME Steady' PROVE Steady /\ ReadyHolds' /\ RestartDown'
      <4>1. Steady /\ chain'["restart"].pc = "stopAdmission" /\ chain'["restart"].todo = todo
        BY <1>0, <1>4, <2>0, <2>1, <2>2, <3>1
      <4>2. RestartDown'
        BY <1>5, <2>0, <2>1, <2>2, <4>1 DEF RestartDown
      <4> QED
        BY <1>2, <2>0, <2>2, <4>1, <4>2 DEF ReadyHolds, Holds, IsUp
    <3> QED
      BY <1>0, <1>4, <2>0, <2>1, <2>2, <3>1, MoveHandles
  <2>3. CASE Erase(r) /\ ~IsUp(r) /\ Goes("restart", "closing", left)
    <3>0. \A x \in Resources : state'[x] = "ready" => x # r /\ state[x] = "ready" /\ (IsUp(x) => IsUp(x)')
      BY <1>0, <2>3 DEF Erase, RecordsTyped, IsUp
    <3>1. ASSUME Steady' PROVE Steady /\ ReadyHolds' /\ RestartDown'
      <4>1. Steady /\ chain'["restart"].pc = "closing" /\ chain'["restart"].todo = left
        BY <1>00, <1>1, <1>4, <2>0, <2>1, <2>3, <3>1
      <4>2. \A x \in Resources : x \in ToSet(subtree) \ ToSet(left) => state'[x] # "ready"
        BY <1>00, <1>5, <2>0, <2>1, <3>0, <4>1
      <4>3. RestartDown'
        BY <1>00, <1>5, <2>0, <2>1, <4>1, <4>2 DEF RestartDown
      <4>4. ReadyHolds'
        BY <1>2, <2>0, <3>0, <4>1 DEF ReadyHolds, Holds
      <4> QED
        BY <4>1, <4>3, <4>4
    <3> QED
      BY <1>0, <1>00, <1>1, <1>4, <2>0, <2>1, <2>3, <3>1, MoveHandles
  <2> QED
    BY <2>0, <2>2, <2>3
<1>9. CASE Closed
  BY <1>0, <1>3, <1>9 DEF Closed
<1>10. CASE RestartFails
  BY <1>1, <1>3, <1>10 DEF RestartFails
<1>11. CASE PhaseResolves
  <2>0. /\ chain["restart"].pc \in {"stopAdmission", "drain"} /\ todo # <<>>
        /\ UNCHANGED <<state, attempted, closed, live, handle, subtree, down, raced, forced,
                       gracefulFailed>>
    BY <1>0, <1>1, <1>11 DEF PhaseResolves, At
  <2>1. PICK pc \in {"close", "drain"} : Goes("restart", pc, todo)
    BY <1>11, <1>a DEF PhaseResolves
  <2>2. chain["restart"].pc \in Closes /\ {"close", "drain"} \subseteq Closes
    BY <2>0 DEF Closes
  <2>3. ASSUME Steady' PROVE Steady /\ ReadyHolds' /\ RestartDown'
    <3>1. Steady /\ chain'["restart"].pc = pc /\ chain'["restart"].todo = todo
      BY <1>0, <1>4, <2>0, <2>1, <2>2, <2>3
    <3>2. RestartDown'
      BY <1>5, <2>0, <2>2, <3>1 DEF RestartDown
    <3> QED
      BY <1>2, <2>0, <3>1, <3>2 DEF ReadyHolds, Holds, IsUp
  <2> QED
    BY <1>0, <1>4, <2>0, <2>1, <2>2, <2>3, MoveHandles
<1>12. CASE CloseResolves
  <2>1. /\ At("restart", "close") /\ todo # <<>>
        /\ UNCHANGED <<handle, subtree, down, raced, forced, gracefulFailed>>
        /\ Erase(r) /\ HasClosed(r) /\ Goes("restart", "closing", left)
    BY <1>0, <1>1, <1>12, <1>a DEF CloseResolves
  <2>2. chain["restart"].pc \in Closes /\ "closing" \in Closes
    BY <2>1 DEF Closes, At
  <2>3. \A x \in Resources : state'[x] = "ready" => x # r /\ state[x] = "ready" /\ (IsUp(x) => IsUp(x)')
    BY <1>0, <2>1 DEF Erase, RecordsTyped, IsUp
  <2>4. ASSUME Steady' PROVE Steady /\ ReadyHolds' /\ RestartDown'
    <3>1. Steady /\ chain'["restart"].pc = "closing" /\ chain'["restart"].todo = left
      BY <1>00, <1>1, <1>4, <2>1, <2>2, <2>4
    <3>2. \A x \in Resources : r \in DependsOn[x] => x \in ToSet(subtree)
      BY <1>00, <1>5, <2>1, <2>2, <3>1 DEF WithDependants
    <3>3. \A x \in Resources : r \in DependsOn[x] => state[x] # "ready"
      BY <1>00, <1>5, <2>1, <2>2, <3>1, <3>2
    <3>4. ReadyHolds'
      BY <1>00, <1>2, <2>1, <2>3, <3>1, <3>3, ClosingHandles
    <3>5. \A x \in Resources : x \in ToSet(subtree) \ ToSet(left) => state'[x] # "ready"
      BY <1>00, <1>5, <2>1, <2>2, <2>3, <3>1
    <3>6. RestartDown'
      BY <1>00, <1>5, <2>1, <2>2, <3>1, <3>5 DEF RestartDown
    <3> QED
      BY <3>1, <3>4, <3>6
  <2> QED
    BY <1>0, <1>00, <1>1, <1>4, <2>1, <2>2, <2>4, MoveHandles
<1>13. CASE PhaseFails
  BY <1>1, <1>3, <1>13 DEF PhaseFails
<1>14. CASE RestartTimeout
  BY <1>14, StillHandles DEF RestartTimeout, Steady, Abandoned
<1>15. ASSUME NEW x \in Resources, Restart(x)
       PROVE  HandlesInv'
  BY <1>15, StillHandles DEF Restart, Steady, Abandoned
<1> QED
  BY <1>6, <1>7, <1>8, <1>9, <1>10, <1>11, <1>12, <1>13, <1>14, <1>15

LEMMA OutsideHandles ==
  ASSUME Typed, HandlesInv,
         \/ Start \/ Acquire \/ Release
         \/ \E r \in Resources : LateCompletion(r) \/ ReportHealth(r)
  PROVE  HandlesInv'
<1> USE DEF kernelVars, recordVars, restartVars, downVars, worldVars, Steady, Abandoned
<1>1. CASE Start
  <2>1. \A c \in Chains : chain'[c] = chain[c]
                          \/ chain'[c].pc \notin {"start", "ready"} \cup Closes \cup Rolls
    BY <1>1, OrderIs, Goto DEF Start, Typed, Chains, ChainPCs, Awaits, Closes, Rolls
  <2>2. chain'["restart"] = chain["restart"]
    BY <1>1, OrderIs, Goto DEF Start, Typed, Chains, ChainPCs, Awaits
  <2> QED
    BY <1>1, <2>1, <2>2, StillHandles DEF Start
<1>2. CASE Acquire
  BY <1>2, StillHandles DEF Acquire
<1>3. CASE Release
  BY <1>3, StillHandles DEF Release
<1>4. ASSUME NEW r \in Resources, LateCompletion(r)
      PROVE  HandlesInv'
  <2>1. /\ UNCHANGED <<live, handle, closed, attempted, chain, subtree, down, raced, forced,
                       gracefulFailed>>
        /\ UNCHANGED state \/ MarkFailed(r)
    BY <1>4 DEF LateCompletion
  <2>2. \A x \in Resources : state'[x] = "ready" => state[x] = "ready"
    BY <2>1 DEF MarkFailed, Typed, RecordsTyped
  <2> QED
    BY <2>1, <2>2, StillHandles
<1>5. ASSUME NEW r \in Resources, ReportHealth(r)
      PROVE  HandlesInv'
  BY <1>5, StillHandles DEF ReportHealth
<1> QED
  BY <1>1, <1>2, <1>3, <1>4, <1>5

LEMMA ShutdownHandles ==
  ASSUME Typed, Programs, HandlesInv,
         \/ Shutdown \/ StartAwaited \/ ForceNow \/ SweepCalls \/ HookResolves \/ HookRejects
         \/ SweepEnds \/ PendingOver \/ Clean \/ ForceSweep \/ ForceFails \/ ForceEnds
         \/ \E r \in Resources : ForceResolves(r)
  PROVE  HandlesInv'
<1>0. /\ Steady => ReadyHolds /\ SweepDown
      /\ DownTyped /\ RecordsTyped /\ down.todo \in Seq(Resources)
  BY DEF HandlesInv, Typed, DownTyped
<1>00. Remaining # <<>> => Head(Remaining) \in Resources
  BY <1>0, RemainingIs, ElementIs
<1> USE DEF kernelVars, recordVars, restartVars, downVars, worldVars, DownAt, DownGoes
<1>1. CASE Shutdown
  <2>1. /\ UNCHANGED <<live, handle, closed, attempted, state, chain, subtree, forced>>
        /\ ~shutdownRequested /\ down'.pc \in {"stopping", "startPromise"}
    BY <1>1 DEF Shutdown, Programs
  <2>2. ~raced' => ~raced
    BY <1>1, Zenon DEF Shutdown
  <2>3. ~gracefulFailed
    BY <2>1 DEF Programs
  <2> QED
    BY <2>1, <2>2, <2>3, StillHandles DEF Steady, Abandoned
<1>2. CASE StartAwaited
  BY <1>2, StillHandles DEF StartAwaited, Steady, Abandoned
<1>3. CASE ForceNow
  BY <1>3, StillHandles DEF ForceNow, Steady, Abandoned
<1>4. CASE SweepCalls
  <2>1. /\ down.pc \in Stops /\ Remaining # <<>>
        /\ UNCHANGED <<live, handle, closed, attempted, chain, subtree, raced, forced, gracefulFailed>>
    BY <1>4 DEF SweepCalls
  <2>2. CASE down.pc = "stopping"
    BY <1>4, <2>1, <2>2, StillHandles DEF SweepCalls, Steady, Abandoned
  <2>3. CASE down.pc = "draining"
    <3>1. PICK r : r = Head(Remaining)
      OBVIOUS
    <3>2. /\ down' = [pc |-> "drain", todo |-> Remaining] /\ state' = [state EXCEPT ![r] = "stopping"]
          /\ r \in Resources
      BY <1>00, <1>4, <2>1, <2>3, <3>1 DEF SweepCalls
    <3>3. /\ \A x \in Resources : state'[x] = "ready" => x # r /\ state[x] = "ready"
          /\ NextDown' = r /\ down'.pc = "drain" /\ down'.todo = Remaining
      BY <1>0, <3>1, <3>2 DEF RecordsTyped, NextDown
    <3>4. ASSUME Steady' PROVE Steady /\ ReadyHolds' /\ SweepDown'
      <4>1. Steady
        BY <2>1, <3>4 DEF Steady, Abandoned
      <4>2. \A x \in Resources \ ToSet(down.todo) : state[x] # "ready"
        BY <1>0, <2>3, <4>1 DEF SweepDown
      <4>3. \A x \in ToSet(down.todo) : x \in ToSet(Remaining) \/ ~IsUp(x)
        BY <1>0, <2>3, RemainingIs DEF Passes
      <4>4. \A x \in Resources \ ToSet(Remaining) : state[x] # "ready"
        BY <1>0, <4>1, <4>2, <4>3 DEF ReadyHolds
      <4>5. SweepDown'
        BY <3>3, <4>4 DEF SweepDown
      <4> QED
        BY <1>0, <2>1, <3>3, <4>1, <4>5 DEF ReadyHolds, Holds, IsUp
    <3> QED
      BY <2>1, <2>3, <3>4, DownHandles
  <2>4. CASE down.pc = "closing"
    <3>1. UNCHANGED state /\ down'.pc = "close"
      BY <1>4, <2>4 DEF SweepCalls
    <3>2. ASSUME Steady' PROVE Steady /\ ReadyHolds' /\ SweepDown'
      <4>1. Steady
        BY <2>1, <3>2 DEF Steady, Abandoned
      <4> QED
        BY <1>0, <2>1, <2>4, <3>1, <4>1 DEF ReadyHolds, Holds, IsUp, SweepDown
    <3> QED
      BY <2>1, <2>4, <3>2, DownHandles
  <2> QED
    BY <2>1, <2>2, <2>3, <2>4 DEF Stops
<1>5. CASE HookResolves
  <2>1. /\ down.pc \in Hooks /\ down.todo # <<>>
        /\ UNCHANGED <<handle, attempted, chain, subtree, raced, forced, gracefulFailed>>
        /\ down'.pc = LoopOf[down.pc] /\ down'.todo = Tail(down.todo)
    BY <1>0, <1>5 DEF HookResolves, DownTyped
  <2>2. PICK r : r = NextDown
    OBVIOUS
  <2>3. r \in Resources /\ ToSet(down.todo) = ToSet(down'.todo) \cup {r}
    BY <1>0, <2>1, <2>2, Popped DEF NextDown
  <2>4. CASE down.pc = "stopAdmission"
    <3>1. down'.pc = "stopping" /\ UNCHANGED <<live, closed, state>>
      BY <1>5, <2>1, <2>4 DEF HookResolves, LoopOf
    <3> QED
      BY <2>1, <3>1, StillHandles DEF Steady, Abandoned
  <2>5. CASE down.pc = "drain"
    <3>1. down'.pc = "draining" /\ UNCHANGED <<live, closed, state>>
      BY <1>5, <2>1, <2>5 DEF HookResolves, LoopOf
    <3>2. ASSUME Steady' PROVE Steady /\ ReadyHolds' /\ SweepDown'
      <4>1. Steady
        BY <2>1, <3>2 DEF Steady, Abandoned
      <4>2. SweepDown'
        BY <1>0, <2>2, <2>3, <2>5, <3>1, <4>1 DEF SweepDown
      <4> QED
        BY <1>0, <2>1, <3>1, <4>1, <4>2 DEF ReadyHolds, Holds, IsUp
    <3> QED
      BY <2>1, <2>5, <3>2, DownHandles
  <2>6. CASE down.pc = "close"
    <3>1. /\ down'.pc = "closing" /\ HasClosed(r) /\ state' = [state EXCEPT ![r] = "stopped"]
      BY <1>5, <2>1, <2>2, <2>6 DEF HookResolves, LoopOf
    <3>2. ASSUME Steady' PROVE Steady /\ ReadyHolds' /\ SweepDown'
      <4>1. Steady
        BY <2>1, <3>2 DEF Steady, Abandoned
      <4>2. \A x \in Resources : state[x] # "ready"
        BY <1>0, <2>6, <4>1 DEF SweepDown
      <4>3. \A x \in Resources : state'[x] # "ready"
        BY <1>0, <3>1, <4>2 DEF RecordsTyped
      <4> QED
        BY <3>1, <4>1, <4>3 DEF ReadyHolds, SweepDown
    <3> QED
      BY <2>1, <2>6, <3>2, DownHandles
  <2> QED
    BY <2>1, <2>4, <2>5, <2>6 DEF Hooks
<1>6. CASE HookRejects
  BY <1>6 DEF HookRejects, HandlesInv, Steady, Abandoned
<1>7. CASE SweepEnds
  <2>1. /\ down.pc \in {"stopping", "draining"}
        /\ UNCHANGED <<live, handle, closed, attempted, state, chain, subtree, raced, forced,
                       gracefulFailed>>
    BY <1>7 DEF SweepEnds
  <2>2. CASE Abandoned
    BY <2>1, <2>2 DEF HandlesInv, Steady, Abandoned
  <2>3. CASE down.pc = "stopping" /\ ~Abandoned
    BY <1>7, <2>1, <2>3, StillHandles DEF SweepEnds, Steady, Abandoned
  <2>4. CASE down.pc = "draining" /\ ~Abandoned
    <3>1. Remaining = <<>> /\ down'.pc = "closing"
      BY <1>7, <2>4 DEF SweepEnds, Breaks, Abandoned
    <3>2. ASSUME Steady' PROVE Steady /\ ReadyHolds' /\ SweepDown'
      <4>1. Steady
        BY <2>1, <3>2 DEF Steady, Abandoned
      <4>2. \A x \in Resources \ ToSet(down.todo) : state[x] # "ready"
        BY <1>0, <2>4, <4>1 DEF SweepDown
      <4>3. ToSet(<<>>) = {}
        BY DEF ToSet
      <4>4. \A x \in ToSet(down.todo) : ~IsUp(x)
        BY <1>0, <2>4, <3>1, <4>3, RemainingIs DEF Passes
      <4>5. \A x \in Resources : state[x] # "ready"
        BY <1>0, <4>1, <4>2, <4>4 DEF ReadyHolds
      <4> QED
        BY <2>1, <3>1, <4>1, <4>5 DEF ReadyHolds, SweepDown
    <3> QED
      BY <2>1, <2>4, <3>2, DownHandles
  <2> QED
    BY <2>1, <2>2, <2>3, <2>4
<1>8. CASE PendingOver
  <2>1. /\ down.pc = "pending" /\ down'.pc = "draining" /\ down'.todo = Reverse(Order)
        /\ UNCHANGED <<live, handle, closed, attempted, state, chain, raced, forced, gracefulFailed>>
    BY <1>8 DEF PendingOver
  <2>2. ASSUME Steady' PROVE Steady /\ ReadyHolds' /\ SweepDown'
    <3>1. Steady
      BY <2>1, <2>2 DEF Steady, Abandoned
    <3>2. SweepDown'
      BY <2>1, OrderIs DEF SweepDown
    <3> QED
      BY <1>0, <2>1, <3>1, <3>2 DEF ReadyHolds, Holds, IsUp
  <2> QED
    BY <2>1, <2>2, DownHandles
<1>9. CASE Clean
  BY <1>9, StillHandles DEF Clean, Returns, Steady, Abandoned
<1>10. CASE ForceSweep
  BY <1>10 DEF ForceSweep, HandlesInv, Steady, Abandoned
<1>11. CASE ForceFails
  BY <1>11, StillHandles DEF ForceFails, Steady, Abandoned
<1>12. CASE ForceEnds
  BY <1>12, StillHandles DEF ForceEnds, Returns, Steady, Abandoned
<1>13. ASSUME NEW r \in Resources, ForceResolves(r)
       PROVE  HandlesInv'
  <2>1. /\ down.pc = "force" /\ UNCHANGED <<chain, down, raced, forced, gracefulFailed>>
        /\ state' = [state EXCEPT ![r] = "stopped"]
    BY <1>13 DEF ForceResolves
  <2>2. ASSUME Steady' PROVE Steady /\ ReadyHolds' /\ SweepDown'
    <3>1. Steady
      BY <2>1, <2>2 DEF Steady, Abandoned
    <3>2. \A x \in Resources : state[x] # "ready"
      BY <1>0, <2>1, <3>1 DEF SweepDown
    <3>3. \A x \in Resources : state'[x] # "ready"
      BY <1>0, <2>1, <3>2 DEF RecordsTyped
    <3> QED
      BY <2>1, <3>1, <3>3 DEF ReadyHolds, SweepDown
  <2> QED
    BY <2>1, <2>2, DownHandles
<1> QED
  BY <1>1, <1>2, <1>3, <1>4, <1>5, <1>6, <1>7, <1>8, <1>9, <1>10, <1>11, <1>12, <1>13

LEMMA NextHandles ==
  ASSUME Typed, Programs, GenerationsInv, HandlesInv, [Next]_vars
  PROVE  HandlesInv'
<1>1. CASE Callback
  BY <1>1, ChainHandles, RollbackHandles, RestartHandles, ShutdownHandles DEF Callback
<1>2. CASE Settles
  BY <1>2, ChainHandles, RollbackHandles, RestartHandles, ShutdownHandles DEF Settles
<1>3. CASE Outside
  BY <1>3, OutsideHandles, RestartHandles, ShutdownHandles DEF Outside
<1>4. CASE Resumes
  BY <1>4, RestartHandles, ShutdownHandles DEF Resumes
<1>5. CASE UNCHANGED vars
  BY <1>5, StillHandles
     DEF vars, recordVars, restartVars, downVars, worldVars, Steady, Abandoned
<1> QED
  BY <1>1, <1>2, <1>3, <1>4, <1>5 DEF Next

\* A resource that is ready uses open generations of its dependencies only
\* (kernel-start.ts hands out published values, kernel-restart.ts and
\* kernel-shutdown.ts take dependants down first), for every resource graph,
\* unless a shutdown overtook a restart or the graceful path was abandoned.
THEOREM HandlesStayOpen == ~EarlyRestarts => (Spec => []HandlesAreLive)
<1> SUFFICES ASSUME ~EarlyRestarts PROVE Spec => []HandlesAreLive
  OBVIOUS
<1>1. Init => HandlesInv
  BY InitHandles
<1>2. Typed /\ Programs /\ GenerationsInv /\ HandlesInv /\ [Next]_vars => HandlesInv'
  BY NextHandles
<1>3. HandlesInv => HandlesAreLive
  BY DEF HandlesInv, HandlesAreLive, HandlesOpen, ReadyHolds, Holds, Steady
<1> QED
  BY <1>1, <1>2, <1>3, GenerationsHold, PTL DEF Spec

=============================================================================
