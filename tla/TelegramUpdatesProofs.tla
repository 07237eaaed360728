------------------------- MODULE TelegramUpdatesProofs -------------------------
(***************************************************************************)
(* For any number of intakes, updates, faults and restarts: a record is    *)
(* settled only for the attempt it names; the updates of a chat run one    *)
(* after another; what a dead process left pending goes first; and a       *)
(* closed intake is idle.                                                  *)
(***************************************************************************)
EXTENDS TelegramUpdates, FiniteSetTheorems, FunctionTheorems, WellFoundedInduction,
        SequenceTheorems, TLAPS

Jobs == {"none", "slot", "handle", "acknowledge"}

Types ==
  /\ record \in [Updates -> Owed \cup Settled \cup {"none"}]
  /\ attempts \in [Updates -> Nat]
  /\ claimId \in [Updates -> ClaimIds \cup {0}]
  /\ mine \in [Intakes -> [Updates -> ClaimIds \cup {0}]]
  /\ told \in [Intakes -> [Updates -> ClaimIds \cup {0}]]
  /\ job \in [Intakes -> [Updates -> Jobs]]
  /\ handled \in [Updates -> BOOLEAN]

\* A record names a claim unless nothing was ever attempted.
Named ==
  \A u \in Updates :
    IF record[u] \in {"none", "pending"} THEN attempts[u] = 0 ELSE claimId[u] # 0

\* A delivery that goes on to acknowledge has told the host, of the claim that the
\* record names unless it has been forgotten since.
Told(p, u) == job[p][u] = "acknowledge" /\ told[p][u] = claimId[u] /\ claimId[u] # 0
HostKnows == \A p \in Intakes, u \in Updates : Told(p, u) => handled[u]

\* SettledIsHandled is inductive only with these: an acknowledgement comes steps
\* after the handler, and settles whatever the record names then.
UInv == Types /\ Named /\ HostKnows /\ SettledIsHandled

-------------------------------------------------------------------------------
\* There are fewer claims that somebody remembers than there are ids.
LEMMA NewClaimIsNew ==
  ASSUME Types, NEW u \in Updates
  PROVE  /\ NewClaim(u) \in ClaimIds
         /\ NewClaim(u) # claimId[u]
         /\ \A p \in Intakes : NewClaim(u) # told[p][u]
<1> DEFINE n == Cardinality(Intakes)
           A == {mine[p][u] : p \in Intakes}
           B == {told[p][u] : p \in Intakes}
           Used == {claimId[u]} \cup A \cup B
<1>1. IsFiniteSet(Intakes) /\ n \in Nat
  BY UpdatesAssumption, FS_CardinalityType
<1>2. IsFiniteSet(A) /\ Cardinality(A) <= n
  <2> DEFINE f == [p \in Intakes |-> mine[p][u]]
  <2>1. f \in Surjection(Intakes, A)
    BY DEF Surjection
  <2> QED
    BY <1>1, <2>1, FS_Surjection
<1>3. IsFiniteSet(B) /\ Cardinality(B) <= n
  <2> DEFINE f == [p \in Intakes |-> told[p][u]]
  <2>1. f \in Surjection(Intakes, B)
    BY DEF Surjection
  <2> QED
    BY <1>1, <2>1, FS_Surjection
<1>4. IsFiniteSet({claimId[u]}) /\ Cardinality({claimId[u]}) = 1
  BY FS_Singleton
<1> HIDE DEF A, B
<1>5. IsFiniteSet({claimId[u]} \cup A) /\ Cardinality({claimId[u]} \cup A) <= n + 1
  <2> DEFINE C == {claimId[u]}
  <2>1. IsFiniteSet(C) /\ Cardinality(C) = 1
    BY <1>4
  <2> HIDE DEF C, n
  <2>2. /\ IsFiniteSet(C \cup A)
        /\ Cardinality(C \cup A) = Cardinality(C) + Cardinality(A) - Cardinality(C \cap A)
    BY <1>2, <2>1, FS_Union
  <2>3. Cardinality(A) \in Nat /\ Cardinality(C \cap A) \in Nat
    BY <1>2, FS_CardinalityType, FS_Intersection
  <2>4. Cardinality(C \cup A) <= n + 1
    BY <1>1, <1>2, <2>1, <2>2, <2>3
  <2> QED
    BY <2>2, <2>4 DEF C
<1>6. IsFiniteSet(Used) /\ Cardinality(Used) <= 2 * n + 1
  <2> DEFINE C == {claimId[u]} \cup A
  <2>1. IsFiniteSet(C) /\ Cardinality(C) <= n + 1
    BY <1>5
  <2> HIDE DEF C, n
  <2>2. /\ IsFiniteSet(C \cup B)
        /\ Cardinality(C \cup B) = Cardinality(C) + Cardinality(B) - Cardinality(C \cap B)
    BY <1>3, <2>1, FS_Union
  <2>3. /\ Cardinality(B) \in Nat /\ Cardinality(C) \in Nat
        /\ Cardinality(C \cap B) \in Nat
    BY <1>3, <2>1, FS_CardinalityType, FS_Intersection
  <2>4. Cardinality(C \cup B) <= 2 * n + 1
    BY <1>1, <1>3, <2>1, <2>2, <2>3
  <2> QED
    BY <2>2, <2>4 DEF C
<1>7. IsFiniteSet(ClaimIds) /\ Cardinality(ClaimIds) = 2 * n + 2
  BY <1>1, FS_Interval DEF ClaimIds
<1>8. ~(ClaimIds \subseteq Used)
  <2> SUFFICES ASSUME ClaimIds \subseteq Used PROVE FALSE
    OBVIOUS
  <2>1. Cardinality(ClaimIds) <= Cardinality(Used)
    BY <1>6, FS_Subset
  <2>2. Cardinality(Used) \in Nat
    BY <1>6, FS_CardinalityType
  <2> HIDE DEF Used, n
  <2> QED
    BY <2>1, <2>2, <1>1, <1>6, <1>7
<1>9. \E c \in ClaimIds :
        c # claimId[u] /\ \A p \in Intakes : c \notin {mine[p][u], told[p][u]}
  BY <1>8 DEF A, B
<1> QED
  BY <1>9 DEF NewClaim
-------------------------------------------------------------------------------
\* What a step may do to attempts and deliveries while it writes a record: no
\* delivery goes on to acknowledge by it.
WorkStep ==
  /\ mine' \in [Intakes -> [Updates -> ClaimIds \cup {0}]]
  /\ told' \in [Intakes -> [Updates -> ClaimIds \cup {0}]]
  /\ job' \in [Intakes -> [Updates -> Jobs]]
  /\ \A p \in Intakes, u \in Updates :
       job'[p][u] = "acknowledge" => job[p][u] = "acknowledge" /\ told'[p][u] = told[p][u]

\* A slot that is given back leaves a delivery where it was, or lets it begin.
LEMMA ReleaseWork ==
  ASSUME NEW p \in Intakes, NEW places, NEW jobs \in [Intakes -> [Updates -> Jobs]],
         NEW waits, Release(p, places, jobs, waits)
  PROVE  /\ job' \in [Intakes -> [Updates -> Jobs]]
         /\ \A q \in Intakes, u \in Updates :
              job'[q][u] = "acknowledge" => jobs[q][u] = "acknowledge"
<1>1. \/ job' = jobs
      \/ job' = [jobs EXCEPT ![p][Head(waits)[2]] = "handle"]
  BY DEF Release
<1>2. "handle" \in Jobs
  BY DEF Jobs
<1> QED
  BY <1>1, <1>2

\* An attempt that leaves its line.
LEMMA LeavesWork ==
  ASSUME Types, NEW p \in Intakes, NEW u \in Updates, Leaves(p, u)
  PROVE  WorkStep
<1>1. /\ mine' = [mine EXCEPT ![p][u] = 0]
      /\ told' = told
      /\ Release(p, [at EXCEPT ![p][u] = "none"], job, waiting[p])
  BY DEF Leaves, LeavesTo
<1>2. job \in [Intakes -> [Updates -> Jobs]]
  BY DEF Types
<1>3. /\ job' \in [Intakes -> [Updates -> Jobs]]
      /\ \A q \in Intakes, v \in Updates :
           job'[q][v] = "acknowledge" => job[q][v] = "acknowledge"
  BY <1>1, <1>2, ReleaseWork
<1>4. mine' \in [Intakes -> [Updates -> ClaimIds \cup {0}]]
  BY <1>1 DEF Types
<1> QED
  BY <1>1, <1>3, <1>4 DEF WorkStep, Types

\* A delivery that ends.
LEMMA JobEndsWork ==
  ASSUME Types, NEW p \in Intakes, NEW u \in Updates, JobEnds(p, u)
  PROVE  WorkStep
<1> DEFINE jobs == [job EXCEPT ![p][u] = "none"]
<1>1. /\ mine' = mine
      /\ told' = [told EXCEPT ![p][u] = 0]
      /\ Release(p, at, jobs, waiting[p])
  BY DEF JobEnds
<1>2. /\ jobs \in [Intakes -> [Updates -> Jobs]]
      /\ \A q \in Intakes, v \in Updates :
           jobs[q][v] = "acknowledge" => job[q][v] = "acknowledge" /\ ~(q = p /\ v = u)
  BY DEF Types, Jobs
<1> HIDE DEF jobs
<1>3. /\ job' \in [Intakes -> [Updates -> Jobs]]
      /\ \A q \in Intakes, v \in Updates :
           job'[q][v] = "acknowledge" => jobs[q][v] = "acknowledge"
  BY <1>1, <1>2, ReleaseWork
<1>4. /\ told' \in [Intakes -> [Updates -> ClaimIds \cup {0}]]
      /\ \A q \in Intakes, v \in Updates : ~(q = p /\ v = u) => told'[q][v] = told[q][v]
  BY <1>1 DEF Types
<1> QED
  BY <1>1, <1>2, <1>3, <1>4 DEF WorkStep, Types

\* A delivery that is asked for is told the claim of the record.
LEMMA DeliverWork ==
  ASSUME Types, NEW p \in Intakes, Deliver(p), mine' = mine
  PROVE  WorkStep
<1>1. CASE UNCHANGED <<job, told>>
  BY <1>1 DEF WorkStep, Types
<1>2. CASE ~UNCHANGED <<job, told>>
  <2> DEFINE u == Min(Page(p))
  <2>1. /\ job[p][u] = "none"
        /\ told' = [told EXCEPT ![p][u] = claimId[u]]
        /\ \E place \in {"handle", "slot"} : job' = [job EXCEPT ![p][u] = place]
    BY <1>2 DEF Deliver
  <2> HIDE DEF u
  <2>2. told' \in [Intakes -> [Updates -> ClaimIds \cup {0}]]
    BY <2>1 DEF Types
  <2>3. job' \in [Intakes -> [Updates -> Jobs]]
    <3>1. PICK place \in Jobs : job' = [job EXCEPT ![p][u] = place]
      BY <2>1 DEF Jobs
    <3> QED
      BY <3>1 DEF Types
  <2>4. \A q \in Intakes, v \in Updates :
          job'[q][v] = "acknowledge" => job[q][v] = "acknowledge" /\ ~(q = p /\ v = u)
    BY <2>1 DEF Types
  <2>5. \A q \in Intakes, v \in Updates : ~(q = p /\ v = u) => told'[q][v] = told[q][v]
    BY <2>1 DEF Types
  <2> QED
    BY <2>2, <2>3, <2>4, <2>5 DEF WorkStep, Types
<1> QED
  BY <1>1, <1>2

-------------------------------------------------------------------------------
(* What a step may do to the records *)

\* Nothing, whatever handlers return.
LEMMA RecordsKept ==
  ASSUME UInv, WorkStep, UNCHANGED <<record, attempts, claimId>>,
         handled' \in [Updates -> BOOLEAN], \A u \in Updates : handled[u] => handled'[u]
  PROVE  UInv'
<1>1. Types'
  BY DEF UInv, Types, WorkStep
<1>2. Named'
  BY DEF UInv, Named
<1>3. HostKnows'
  BY DEF UInv, HostKnows, Told, WorkStep
<1>4. SettledIsHandled'
  BY DEF UInv, SettledIsHandled
<1> QED
  BY <1>1, <1>2, <1>3, <1>4 DEF UInv

\* A claim, under an id nobody remembers.
LEMMA ClaimedKeeps ==
  ASSUME UInv, WorkStep, NEW u \in Updates, Claimed(u)
  PROVE  UInv'
<1> DEFINE c == NewClaim(u)
<1>1. /\ record' = [record EXCEPT ![u] = "processing"]
      /\ attempts' = [attempts EXCEPT ![u] = @ + 1]
      /\ claimId' = [claimId EXCEPT ![u] = c]
      /\ handled' = [handled EXCEPT ![u] = FALSE]
  BY DEF Claimed
<1>2. /\ c \in ClaimIds
      /\ \A p \in Intakes : c # told[p][u]
  BY NewClaimIsNew DEF UInv
<1>3. c # 0
  BY <1>2, UpdatesAssumption, FS_CardinalityType DEF ClaimIds
<1> HIDE DEF c
<1>4. Types'
  BY <1>1, <1>2 DEF UInv, Types, WorkStep, Owed
<1>5. Named'
  BY <1>1, <1>3 DEF UInv, Types, Named
<1>6. HostKnows'
  <2> SUFFICES ASSUME NEW p \in Intakes, NEW v \in Updates, Told(p, v)'
               PROVE  handled'[v]
    BY DEF HostKnows
  <2>1. job[p][v] = "acknowledge" /\ told'[p][v] = told[p][v]
    BY DEF Told, WorkStep
  <2>2. v # u
    BY <1>1, <1>2, <2>1 DEF Told, UInv, Types
  <2> QED
    BY <1>1, <2>1, <2>2 DEF Told, HostKnows, UInv, Types
<1>7. SettledIsHandled'
  BY <1>1 DEF UInv, Types, SettledIsHandled, Settled
<1> QED
  BY <1>4, <1>5, <1>6, <1>7 DEF UInv

\* An abandoned attempt keeps its claim.
LEMMA AbandonedKeeps ==
  ASSUME UInv, WorkStep, NEW u \in Updates, Abandoned(u)
  PROVE  UInv'
<1>1. /\ record' = [record EXCEPT ![u] = "exhausted"]
      /\ UNCHANGED <<attempts, claimId, handled>>
      /\ Claimable(u) /\ attempts[u] >= MaxAttempts
  BY DEF Abandoned
<1>2. record[u] \notin {"none", "pending"}
  BY <1>1, UpdatesAssumption DEF Claimable, UInv, Named
<1>3. Types'
  BY <1>1 DEF UInv, Types, WorkStep, Owed
<1>4. Named'
  BY <1>1, <1>2 DEF UInv, Types, Named
<1>5. HostKnows'
  BY <1>1 DEF UInv, HostKnows, Told, WorkStep
<1>6. SettledIsHandled'
  BY <1>1 DEF UInv, Types, SettledIsHandled, Settled
<1> QED
  BY <1>3, <1>4, <1>5, <1>6 DEF UInv

\* The end of an attempt, recorded for the claim that holds the record.
LEMMA RecordsKeeps ==
  ASSUME UInv, WorkStep, NEW u \in Updates, NEW claim,
         NEW end \in {"completed", "failed", "exhausted"}, Records(u, claim, end),
         handled' \in [Updates -> BOOLEAN], \A v \in Updates : handled[v] => handled'[v],
         end = "completed" => handled'[u]
  PROVE  UInv'
<1>1. /\ record' = [record EXCEPT ![u] = end]
      /\ UNCHANGED <<attempts, claimId>>
      /\ record[u] = "processing"
  BY DEF Records, Holds
<1>2. Types'
  BY <1>1 DEF UInv, Types, WorkStep, Owed, Settled
<1>3. Named'
  BY <1>1 DEF UInv, Types, Named
<1>4. HostKnows'
  BY <1>1 DEF UInv, HostKnows, Told, WorkStep
<1>5. SettledIsHandled'
  BY <1>1 DEF UInv, Types, SettledIsHandled, Settled
<1> QED
  BY <1>2, <1>3, <1>4, <1>5 DEF UInv

\* What was settled long ago is forgotten, and names no claim any more.
LEMMA PruneKeeps ==
  ASSUME UInv, WorkStep, Prune
  PROVE  UInv'
<1>1. /\ record' = [u \in Updates |-> IF u \in Forgotten THEN "none" ELSE record[u]]
      /\ attempts' = [u \in Updates |-> IF u \in Forgotten THEN 0 ELSE attempts[u]]
      /\ claimId' = [u \in Updates |-> IF u \in Forgotten THEN 0 ELSE claimId[u]]
      /\ handled' = [u \in Updates |-> handled[u] /\ u \notin Forgotten]
  BY DEF Prune
<1>2. Types'
  <2>1. record' \in [Updates -> Owed \cup Settled \cup {"none"}] /\ attempts' \in [Updates -> Nat]
    BY <1>1 DEF UInv, Types
  <2>2. claimId' \in [Updates -> ClaimIds \cup {0}]
    BY <1>1 DEF UInv, Types
  <2>3. handled' \in [Updates -> BOOLEAN]
    BY <1>1
  <2> QED
    BY <2>1, <2>2, <2>3 DEF Types, WorkStep
<1>3. Named'
  BY <1>1 DEF UInv, Types, Named
<1>4. HostKnows'
  BY <1>1 DEF UInv, HostKnows, Told, WorkStep
<1>5. SettledIsHandled'
  BY <1>1 DEF UInv, SettledIsHandled, Settled
<1> QED
  BY <1>2, <1>3, <1>4, <1>5 DEF UInv
-------------------------------------------------------------------------------
(* The steps *)

\* The initial states satisfy the invariant.
LEMMA InitUInv == UpdatesInit => UInv
BY DEF UpdatesInit, UInv, Types, Named, HostKnows, Told, SettledIsHandled, Settled, Jobs

\* Steps that leave records, attempts and deliveries alone.
LEMMA NothingKeeps ==
  ASSUME UInv, UNCHANGED <<record, attempts, claimId, mine, told, job, handled>>
  PROVE  UInv'
<1>1. WorkStep
  BY DEF WorkStep, UInv, Types
<1> QED
  BY <1>1, RecordsKept DEF UInv, Types

\* A handler that returns is only ever added to the history.
LEMMA ReturnedGrows ==
  ASSUME UInv, NEW u \in Updates, NEW claim, HandlerReturned(u, claim)
  PROVE  /\ handled' \in [Updates -> BOOLEAN]
         /\ \A v \in Updates : handled[v] => handled'[v]
         /\ claim = claimId[u] => handled'[u]
<1>1. handled \in [Updates -> BOOLEAN]
  BY DEF UInv, Types
<1>2. handled' = [handled EXCEPT ![u] = handled[u] \/ claim = claimId[u]]
  BY DEF HandlerReturned
<1>3. handled' \in [Updates -> BOOLEAN]
  BY <1>1, <1>2
<1>4. \A v \in Updates : v # u => handled'[v] = handled[v]
  BY <1>1, <1>2
<1>5. handled'[u] = (handled[u] \/ claim = claimId[u])
  BY <1>1, <1>2
<1> QED
  BY <1>3, <1>4, <1>5

\* The steps of an attempt.
LEMMA AttemptKeeps ==
  ASSUME UInv, NEW p \in Intakes, NEW u \in Updates, Attempt(p, u)
  PROVE  UInv'
<1> USE DEF recordVars, loopVars, bounds
<1>0. Types
  BY DEF UInv
<1>1. CASE WaitsForSlot(p, u)
  BY <1>1, NothingKeeps DEF WaitsForSlot
<1>2. CASE Turn(p, u)
  <2>1. WorkStep
    <3>1. CASE Leaves(p, u)
      BY <1>0, <3>1, LeavesWork
    <3>2. CASE UNCHANGED <<mine, job, told>>
      BY <1>0, <3>2 DEF WorkStep, Types
    <3> QED
      BY <1>2, <3>1, <3>2 DEF Turn
  <2> QED
    BY <1>0, <1>2, <2>1, RecordsKept DEF Turn, Types
<1>3. CASE Claim(p, u)
  <2>1. Claimed(u) /\ mine' = [mine EXCEPT ![p][u] = claimId'[u]] /\ UNCHANGED <<job, told>>
    BY <1>3 DEF Claim
  <2>2. claimId'[u] \in ClaimIds
    BY <1>0, <2>1, NewClaimIsNew DEF Claimed, Types
  <2>3. mine' \in [Intakes -> [Updates -> ClaimIds \cup {0}]]
    BY <1>0, <2>1, <2>2 DEF Types
  <2>4. WorkStep
    BY <1>0, <2>1, <2>3 DEF WorkStep, Types
  <2> QED
    BY <2>1, <2>4, ClaimedKeeps
<1>4. CASE NotClaimed(p, u)
  <2>1. WorkStep
    BY <1>0, <1>4, LeavesWork DEF NotClaimed
  <2> QED
    BY <1>0, <1>4, <2>1, AbandonedKeeps, RecordsKept DEF NotClaimed, Types
<1>5. CASE Settles(p, u)
  <2>1. WorkStep
    BY <1>0, <1>5, LeavesWork DEF Settles
  <2> DEFINE claim == mine[p][u]
  <2>2. CASE Records(u, claim, "failed") /\ UNCHANGED handled
    BY <1>0, <2>1, <2>2, RecordsKeeps DEF Types
  <2>3. CASE Records(u, claim, "completed") /\ HandlerReturned(u, claim)
    <3>1. claim = claimId[u]
      BY <2>3 DEF Records, Holds
    <3> QED
      BY <2>1, <2>3, <3>1, ReturnedGrows, RecordsKeeps
  <2>4. CASE Refused(u, claim) /\ HandlerReturned(u, claim)
    BY <2>1, <2>4, ReturnedGrows, RecordsKept DEF Refused
  <2>5. CASE Refused(u, claim) /\ UNCHANGED handled
    BY <1>0, <2>1, <2>5, RecordsKept DEF Refused, Types
  <2> QED
    BY <1>5, <2>2, <2>3, <2>4, <2>5 DEF Settles
<1>6. CASE Exhausts(p, u)
  <2>1. Records(u, mine[p][u], "exhausted") /\ UNCHANGED handled
    BY <1>6 DEF Exhausts
  <2>2. WorkStep
    <3>1. CASE Leaves(p, u)
      BY <1>0, <3>1, LeavesWork
    <3>2. ASSUME job[p][u] = "none", told' = [told EXCEPT ![p][u] = mine[p][u]],
                 NEW place \in {"handle", "slot"}, NEW waits,
                 LeavesTo(p, u, [job EXCEPT ![p][u] = place], waits)
          PROVE  WorkStep
      <4> DEFINE jobs == [job EXCEPT ![p][u] = place]
      <4>1. place \in Jobs
        BY DEF Jobs
      <4>2. jobs \in [Intakes -> [Updates -> Jobs]]
        BY <1>0, <4>1 DEF Types
      <4>3. \A q \in Intakes, v \in Updates :
              jobs[q][v] = "acknowledge" => job[q][v] = "acknowledge" /\ ~(q = p /\ v = u)
        BY <1>0 DEF Types
      <4>4. /\ mine' = [mine EXCEPT ![p][u] = 0]
            /\ Release(p, [at EXCEPT ![p][u] = "none"], jobs, waits)
        BY <3>2 DEF LeavesTo
      <4> HIDE DEF jobs
      <4>5. /\ job' \in [Intakes -> [Updates -> Jobs]]
            /\ \A q \in Intakes, v \in Updates :
                 job'[q][v] = "acknowledge" => jobs[q][v] = "acknowledge"
        BY <4>2, <4>4, ReleaseWork
      <4>6. mine' \in [Intakes -> [Updates -> ClaimIds \cup {0}]]
        BY <1>0, <4>4 DEF Types
      <4>7. told' \in [Intakes -> [Updates -> ClaimIds \cup {0}]]
        BY <1>0, <3>2 DEF Types
      <4>8. \A q \in Intakes, v \in Updates : ~(q = p /\ v = u) => told'[q][v] = told[q][v]
        BY <1>0, <3>2 DEF Types
      <4> QED
        BY <4>3, <4>5, <4>6, <4>7, <4>8 DEF WorkStep
    <3> QED
      BY <1>6, <3>1, <3>2 DEF Exhausts
  <2> QED
    BY <1>0, <2>1, <2>2, RecordsKeeps DEF Types
<1> QED
  BY <1>1, <1>2, <1>3, <1>4, <1>5, <1>6 DEF Attempt

\* The store throws, with or without its effect.
LEMMA StoreThrowsKeeps ==
  ASSUME UInv, NEW p \in Intakes, NEW u \in Updates, StoreThrows(p, u)
  PROVE  UInv'
<1> USE DEF recordVars
<1> DEFINE claim == mine[p][u]
<1>0. Types
  BY DEF UInv
<1>1. WorkStep
  BY <1>0, LeavesWork DEF StoreThrows
<1>2. CASE Claimed(u)
  BY <1>1, <1>2, ClaimedKeeps
<1>3. CASE UNCHANGED <<recordVars, handled>>
  BY <1>0, <1>1, <1>3, RecordsKept DEF Types
<1>4. CASE Records(u, claim, "completed") /\ HandlerReturned(u, claim)
  <2>1. claim = claimId[u]
    BY <1>4 DEF Records, Holds
  <2> QED
    BY <1>1, <1>4, <2>1, ReturnedGrows, RecordsKeeps
<1>5. CASE UNCHANGED recordVars /\ HandlerReturned(u, claim)
  BY <1>1, <1>5, ReturnedGrows, RecordsKept
<1>6. CASE /\ Records(u, claim, "failed") \/ Records(u, claim, "exhausted")
           /\ UNCHANGED handled
  BY <1>0, <1>1, <1>6, RecordsKeeps DEF Types
<1> QED
  BY <1>2, <1>3, <1>4, <1>5, <1>6 DEF StoreThrows

\* The delivery of an exhausted update.
LEMMA DeliveryKeeps ==
  ASSUME UInv, NEW p \in Intakes, NEW u \in Updates, Delivery(p, u)
  PROVE  UInv'
<1> USE DEF recordVars, loopVars
<1>0. Types
  BY DEF UInv
<1>1. ASSUME JobEnds(p, u), UNCHANGED <<record, attempts, claimId, handled>>
      PROVE  UInv'
  BY <1>0, <1>1, JobEndsWork, RecordsKept DEF Types
<1>2. ASSUME HandlerReturned(u, told[p][u]), job' = [job EXCEPT ![p][u] = "acknowledge"],
             UNCHANGED <<record, attempts, claimId, mine, told>>
      PROVE  UInv'
  <2>1. /\ handled' \in [Updates -> BOOLEAN]
        /\ \A v \in Updates : handled[v] => handled'[v]
        /\ told[p][u] = claimId[u] => handled'[u]
    BY <1>2, ReturnedGrows
  <2>2. Types'
    <3>1. job' \in [Intakes -> [Updates -> Jobs]]
      BY <1>0, <1>2 DEF Types, Jobs
    <3> QED
      BY <1>0, <1>2, <2>1, <3>1 DEF Types
  <2>3. Named'
    BY <1>2 DEF UInv, Named
  <2>4. HostKnows'
    <3> SUFFICES ASSUME NEW q \in Intakes, NEW v \in Updates, Told(q, v)'
                 PROVE  handled'[v]
      BY DEF HostKnows
    <3>1. CASE q = p /\ v = u
      BY <1>2, <2>1, <3>1 DEF Told
    <3>2. CASE ~(q = p /\ v = u)
      <4>1. job[q][v] = job'[q][v]
        BY <1>0, <1>2, <3>2 DEF Types
      <4> QED
        BY <1>2, <2>1, <4>1 DEF Told, UInv, HostKnows
    <3> QED
      BY <3>1, <3>2
  <2>5. SettledIsHandled'
    BY <1>2, <2>1 DEF UInv, SettledIsHandled
  <2> QED
    BY <2>2, <2>3, <2>4, <2>5 DEF UInv
<1>3. ASSUME JobEnds(p, u), job[p][u] = "acknowledge",
             record[u] = "exhausted", claimId[u] = told[p][u],
             record' = [record EXCEPT ![u] = "acknowledged"],
             UNCHANGED <<attempts, claimId, handled>>
      PROVE  UInv'
  <2>1. WorkStep
    BY <1>0, <1>3, JobEndsWork
  <2>2. handled[u]
    BY <1>3 DEF UInv, Named, HostKnows, Told
  <2>3. Types'
    BY <1>3, <2>1 DEF UInv, Types, WorkStep, Settled
  <2>4. Named'
    BY <1>3 DEF UInv, Types, Named
  <2>5. HostKnows'
    BY <1>3, <2>1 DEF UInv, HostKnows, Told, WorkStep
  <2>6. SettledIsHandled'
    BY <1>3, <2>2 DEF UInv, Types, SettledIsHandled
  <2> QED
    BY <2>3, <2>4, <2>5, <2>6 DEF UInv
<1>4. CASE JobHandled(p, u)
  BY <1>1, <1>2, <1>4 DEF JobHandled
<1>5. CASE Acknowledges(p, u)
  BY <1>1, <1>3, <1>5 DEF Acknowledges
<1> QED
  BY <1>4, <1>5 DEF Delivery

\* Sweeps, and what start() and close() do.
LEMMA IntakeKeeps ==
  ASSUME UInv, NEW p \in Intakes,
         \/ Start(p) \/ Starting(p) \/ Sweep(p) \/ Close(p) \/ CloseReturns(p) \/ Crash(p)
  PROVE  UInv'
<1> USE DEF recordVars, loopVars, workVars, bounds
<1>0. Types
  BY DEF UInv
<1>1. CASE Start(p) \/ Close(p) \/ CloseReturns(p)
  BY <1>1, NothingKeeps DEF Start, Close, CloseReturns
<1>2. CASE ReadsPage(p) \/ StartBreaks(p)
  BY <1>2, NothingKeeps DEF ReadsPage, StartBreaks
<1>3. CASE StartEnds(p) \/ Sweep(p)
  <2>1. Deliver(p) /\ Prune /\ mine' = mine
    BY <1>3 DEF StartEnds, Sweep, Interval, Sweeps
  <2> QED
    BY <1>0, <2>1, DeliverWork, PruneKeeps
<1>4. CASE Crash(p)
  <2>1. /\ mine' = [mine EXCEPT ![p] = [u \in Updates |-> 0]]
        /\ told' = [told EXCEPT ![p] = [u \in Updates |-> 0]]
        /\ job' = [job EXCEPT ![p] = [u \in Updates |-> "none"]]
        /\ UNCHANGED <<record, attempts, claimId, handled>>
    BY <1>4 DEF Crash
  <2>2. WorkStep
    BY <1>0, <2>1 DEF Types, WorkStep, Jobs
  <2> QED
    BY <1>0, <2>1, <2>2, RecordsKept DEF Types
<1> QED
  BY <1>1, <1>2, <1>3, <1>4 DEF Starting

\* Every step preserves the invariant.
LEMMA NextUInv == UInv /\ [UpdatesNext]_updateVars => UInv'
<1> SUFFICES ASSUME UInv, [UpdatesNext]_updateVars PROVE UInv'
  OBVIOUS
<1> USE DEF recordVars, loopVars, workVars, bounds
<1>1. CASE UNCHANGED updateVars
  BY <1>1, NothingKeeps DEF updateVars
<1>2. ASSUME NEW p \in Intakes, NEW u \in Updates, Accept(p, u) PROVE UInv'
  <2>1. /\ record[u] = "none" /\ record' = [record EXCEPT ![u] = "pending"]
        /\ UNCHANGED <<attempts, claimId, mine, told, job, handled>>
    BY <1>2 DEF Accept
  <2>2. Types'
    BY <2>1 DEF UInv, Types, Owed
  <2>3. Named'
    BY <2>1 DEF UInv, Types, Named
  <2>4. HostKnows'
    BY <2>1 DEF UInv, HostKnows, Told
  <2>5. SettledIsHandled'
    BY <2>1 DEF UInv, Types, SettledIsHandled, Settled
  <2> QED
    BY <2>2, <2>3, <2>4, <2>5 DEF UInv
<1>3. ASSUME NEW p \in Intakes, NEW u \in Updates, Arrives(p, u) PROVE UInv'
  BY <1>3, NothingKeeps DEF Arrives
<1>4. ASSUME NEW u \in Updates, Ripens(u) PROVE UInv'
  BY <1>4, NothingKeeps DEF Ripens
<1> QED
  BY <1>1, <1>2, <1>3, <1>4, AttemptKeeps, StoreThrowsKeeps, DeliveryKeeps, IntakeKeeps
  DEF UpdatesNext

-------------------------------------------------------------------------------
\* A record is settled only for an attempt of its own, whose handler returned or
\* whose exhaustion the host was told of, for any number of intakes, updates and
\* faults (update-store.ts, update-intake-work.ts).
THEOREM SettledForItsAttempt == UpdatesSpec => []SettledIsHandled
<1>1. UInv => SettledIsHandled
  BY DEF UInv
<1> QED
  BY <1>1, InitUInv, NextUInv, PTL DEF UpdatesSpec

-------------------------------------------------------------------------------
(* Sequences *)

\* One element stands before another in a sequence.
Ahead(s, a, b) == \E i, j \in DOMAIN s : i < j /\ s[i] = a /\ s[j] = b

\* What is in a sequence is at one of its places.
LEMMA ElementIs ==
  ASSUME NEW S, NEW s \in Seq(S)
  PROVE  /\ Len(s) \in Nat /\ DOMAIN s = 1 .. Len(s)
         /\ \A i \in 1 .. Len(s) : s[i] \in S
         /\ \A e : e \in ToSet(s) <=> \E i \in 1 .. Len(s) : s[i] = e
BY DEF ToSet

\* A sequence without one of its places.
LEMMA RemovalIs ==
  ASSUME NEW S, NEW s \in Seq(S), NEW i \in 1 .. Len(s)
  PROVE  /\ RemoveAt(s, i) \in Seq(S) /\ Len(RemoveAt(s, i)) = Len(s) - 1
         /\ \A j \in 1 .. Len(s) - 1 : RemoveAt(s, i)[j] = IF j < i THEN s[j] ELSE s[j + 1]
<1> DEFINE a == SubSeq(s, 1, i - 1)
           b == SubSeq(s, i + 1, Len(s))
           t == RemoveAt(s, i)
<1>1. Len(s) \in Nat /\ i \in Nat /\ \A j \in 1 .. Len(s) : s[j] \in S
  BY ElementIs
<1>2. a \in Seq(S) /\ Len(a) = i - 1 /\ \A j \in 1 .. i - 1 : a[j] = s[j]
  <2>1. \A j \in 1 .. i - 1 : s[j] \in S
    BY <1>1
  <2>2. /\ a \in Seq(S) /\ Len(a) = IF 1 <= i - 1 THEN i - 1 - 1 + 1 ELSE 0
        /\ \A j \in 1 .. i - 1 - 1 + 1 : a[j] = s[1 + j - 1]
    BY <1>1, <2>1, SubSeqProperties
  <2> HIDE DEF a
  <2> QED
    BY <1>1, <2>2
<1>3. /\ b \in Seq(S) /\ Len(b) = Len(s) - i
      /\ \A j \in 1 .. Len(s) - i : b[j] = s[i + j]
  <2>1. \A j \in i + 1 .. Len(s) : s[j] \in S
    BY <1>1
  <2>2. /\ b \in Seq(S) /\ Len(b) = IF i + 1 <= Len(s) THEN Len(s) - (i + 1) + 1 ELSE 0
        /\ \A j \in 1 .. Len(s) - (i + 1) + 1 : b[j] = s[i + 1 + j - 1]
    BY <1>1, <2>1, SubSeqProperties
  <2> HIDE DEF b
  <2> DEFINE l == Len(s)
  <2>3. l \in Nat /\ i <= l
    BY <1>1
  <2> HIDE DEF l
  <2>4. Len(b) = l - i
    BY <1>1, <2>2, <2>3 DEF l
  <2>5. ASSUME NEW j \in 1 .. l - i PROVE b[j] = s[i + j]
    <3>1. j \in 1 .. l - (i + 1) + 1 /\ i + 1 + j - 1 = i + j
      BY <1>1, <2>3
    <3> QED
      BY <2>2, <3>1 DEF l
  <2> QED
    BY <2>2, <2>4, <2>5 DEF l
<1>4. t = a \o b
  BY DEF RemoveAt
<1> HIDE DEF a, b, t
<1>5. /\ t \in Seq(S) /\ Len(t) = Len(s) - 1
      /\ \A j \in 1 .. Len(s) - 1 : t[j] = IF j <= i - 1 THEN a[j] ELSE b[j - (i - 1)]
  <2>1. /\ a \o b \in Seq(S) /\ Len(a \o b) = Len(a) + Len(b)
        /\ \A j \in 1 .. Len(a) + Len(b) :
             (a \o b)[j] = IF j <= Len(a) THEN a[j] ELSE b[j - Len(a)]
    BY <1>2, <1>3, ConcatProperties
  <2>2. Len(a) + Len(b) = Len(s) - 1
    BY <1>1, <1>2, <1>3
  <2> QED
    BY <1>2, <1>4, <2>1, <2>2
<1>6. ASSUME NEW j \in 1 .. Len(s) - 1
      PROVE  t[j] = IF j < i THEN s[j] ELSE s[j + 1]
  <2>1. CASE j < i
    <3>1. j \in 1 .. i - 1 /\ j <= i - 1
      BY <1>1, <2>1
    <3> QED
      BY <1>2, <1>5, <2>1, <3>1
  <2>2. CASE ~(j < i)
    <3>1. j - (i - 1) \in 1 .. Len(s) - i /\ ~(j <= i - 1) /\ i + (j - (i - 1)) = j + 1
      BY <1>1, <2>2
    <3>2. t[j] = b[j - (i - 1)] /\ b[j - (i - 1)] = s[i + (j - (i - 1))]
      BY <1>3, <1>5, <3>1
    <3> QED
      BY <2>2, <3>1, <3>2
  <2> QED
    BY <2>1, <2>2
<1> QED
  BY <1>5, <1>6 DEF t

\* An element that stands in one place leaves; the others keep their order.
LEMMA Removed ==
  ASSUME NEW S, NEW s \in Seq(S), NEW u \in ToSet(s), ~Ahead(s, u, u),
         NEW i, i = CHOOSE k \in DOMAIN s : s[k] = u
  PROVE  /\ RemoveAt(s, i) \in Seq(S)
         /\ ToSet(RemoveAt(s, i)) = ToSet(s) \ {u}
         /\ \A a, b : Ahead(RemoveAt(s, i), a, b) => Ahead(s, a, b)
<1> DEFINE t == RemoveAt(s, i)
           n == Len(s)
<1>1. n \in Nat /\ DOMAIN s = 1 .. n /\ \A e : e \in ToSet(s) <=> \E k \in 1 .. n : s[k] = e
  BY ElementIs
<1>2. i \in 1 .. n /\ s[i] = u
  BY <1>1
<1>3. \A k \in 1 .. n : s[k] = u => k = i
  BY <1>1, <1>2 DEF Ahead
<1>4. /\ t \in Seq(S) /\ Len(t) = n - 1
      /\ \A j \in 1 .. n - 1 : t[j] = IF j < i THEN s[j] ELSE s[j + 1]
  BY <1>2, RemovalIs
<1>5. DOMAIN t = 1 .. n - 1 /\ \A e : e \in ToSet(t) <=> \E k \in 1 .. n - 1 : t[k] = e
  BY <1>4, ElementIs
<1> HIDE DEF t, n
<1>6. ASSUME NEW e \in ToSet(t) PROVE e \in ToSet(s) \ {u}
  <2>1. PICK k \in 1 .. n - 1 : t[k] = e
    BY <1>5
  <2>2. k \in 1 .. n /\ k + 1 \in 1 .. n
    BY <1>1
  <2>3. (k < i => s[k] = e) /\ (~(k < i) => s[k + 1] = e)
    BY <1>4, <2>1
  <2>4. (k < i => k # i) /\ (~(k < i) => k + 1 # i)
    <3>1. k \in Int /\ i \in Int
      BY <1>1, <1>2
    <3>2. \A x, y \in Int : (x < y => x # y) /\ (~(x < y) => x + 1 # y)
      OBVIOUS
    <3> QED
      BY <3>1, <3>2
  <2>5. \E l \in 1 .. n : s[l] = e /\ l # i
    <3>1. CASE k < i
      BY <2>2, <2>3, <2>4, <3>1
    <3>2. CASE ~(k < i)
      BY <2>2, <2>3, <2>4, <3>2
    <3> QED
      BY <3>1, <3>2
  <2>6. PICK l \in 1 .. n : s[l] = e /\ l # i
    BY <2>5
  <2>7. e # u
    BY <1>3, <2>6
  <2> QED
    BY <1>1, <2>6, <2>7
<1>7. ASSUME NEW e \in ToSet(s) \ {u} PROVE e \in ToSet(t)
  <2>1. PICK k \in 1 .. n : s[k] = e
    BY <1>1
  <2>2. k # i
    BY <1>2, <2>1
  <2>3. CASE k < i
    <3>1. k \in 1 .. n - 1 /\ t[k] = e
      BY <1>1, <1>2, <1>4, <2>1, <2>3
    <3> QED
      BY <1>5, <3>1
  <2>4. CASE k > i
    <3>1. k - 1 \in 1 .. n - 1 /\ ~(k - 1 < i) /\ (k - 1) + 1 = k
      BY <1>1, <1>2, <2>4
    <3>2. t[k - 1] = e
      BY <1>4, <2>1, <3>1
    <3> QED
      BY <1>5, <3>1, <3>2
  <2> QED
    BY <1>1, <1>2, <2>2, <2>3, <2>4
<1>8. ASSUME NEW a, NEW b, Ahead(t, a, b) PROVE Ahead(s, a, b)
  <2>1. PICK j, k \in 1 .. n - 1 : j < k /\ t[j] = a /\ t[k] = b
    BY <1>5, <1>8 DEF Ahead
  <2> DEFINE J == IF j < i THEN j ELSE j + 1
             K == IF k < i THEN k ELSE k + 1
  <2>2. J \in 1 .. n /\ K \in 1 .. n /\ J < K
    BY <1>1, <1>2, <2>1
  <2>3. s[J] = a /\ s[K] = b
    BY <1>4, <2>1
  <2> QED
    BY <1>1, <2>2, <2>3 DEF Ahead
<1> QED
  BY <1>4, <1>6, <1>7, <1>8 DEF t

\* A finite set in order, behind a sequence.
LEMMA Joined ==
  ASSUME NEW S, NEW s \in Seq(S), NEW J \in SUBSET S, IsFiniteSet(J),
         NEW w \in SetToSeqs(J), InOrder(w)
  PROVE  /\ s \o w \in Seq(S)
         /\ ToSet(s \o w) = ToSet(s) \cup J
         /\ \A a, b : Ahead(s \o w, a, b) =>
              \/ Ahead(s, a, b)
              \/ b \in J /\ (a \in ToSet(s) \/ a < b)
         /\ J = {} => s \o w = s
<1> DEFINE n == Len(s)
           c == Cardinality(J)
           t == s \o w
<1>1. c \in Nat /\ w \in [1 .. c -> J] /\ \A i, j \in 1 .. c : i # j => w[i] # w[j]
  BY FS_CardinalityType DEF SetToSeqs
<1>2. n \in Nat /\ DOMAIN s = 1 .. n /\ \A e : e \in ToSet(s) <=> \E k \in 1 .. n : s[k] = e
  BY ElementIs
<1>3. \A e \in J : \E i \in 1 .. c : w[i] = e
  <2>1. w \in Injection(1 .. c, J)
    BY <1>1 DEF Injection, IsInjective
  <2>2. Cardinality(1 .. c) = c
    BY <1>1, FS_Interval
  <2>3. w \in Surjection(1 .. c, J)
    BY <2>1, <2>2, FS_Injection
  <2> QED
    BY <2>3 DEF Surjection
<1>4. w \in Seq(S) /\ Len(w) = c
  <2>1. w \in [1 .. c -> S]
    BY <1>1
  <2> QED
    BY <1>1, <2>1
<1>5. /\ t \in Seq(S) /\ Len(t) = n + c
      /\ \A i \in 1 .. n + c : t[i] = IF i <= n THEN s[i] ELSE w[i - n]
  BY <1>4, ConcatProperties
<1>6. DOMAIN t = 1 .. n + c /\ \A e : e \in ToSet(t) <=> \E k \in 1 .. n + c : t[k] = e
  BY <1>5, ElementIs
<1>7. \A i, j \in 1 .. c : i < j => w[i] < w[j]
  BY <1>1 DEF InOrder
<1> HIDE DEF n, c, t
<1>8. ASSUME NEW e \in ToSet(t) PROVE e \in ToSet(s) \cup J
  <2>1. PICK k \in 1 .. n + c : t[k] = e
    BY <1>6
  <2>2. k <= n => k \in 1 .. n
    BY <1>1, <1>2
  <2>3. ~(k <= n) => k - n \in 1 .. c
    BY <1>1, <1>2
  <2> QED
    BY <1>1, <1>2, <1>5, <2>1, <2>2, <2>3
<1>9. ASSUME NEW e \in ToSet(s) \cup J PROVE e \in ToSet(t)
  <2>1. CASE e \in ToSet(s)
    <3>1. PICK k \in 1 .. n : s[k] = e
      BY <1>2, <2>1
    <3>2. k \in 1 .. n + c /\ k <= n
      BY <1>1, <1>2
    <3> QED
      BY <1>5, <1>6, <3>1, <3>2
  <2>2. CASE e \in J
    <3>1. PICK k \in 1 .. c : w[k] = e
      BY <1>3, <2>2
    <3>2. k + n \in 1 .. n + c /\ ~(k + n <= n) /\ (k + n) - n = k
      BY <1>1, <1>2
    <3> QED
      BY <1>5, <1>6, <3>1, <3>2
  <2> QED
    BY <2>1, <2>2
<1>10. ASSUME NEW a, NEW b, Ahead(t, a, b)
       PROVE  Ahead(s, a, b) \/ (b \in J /\ (a \in ToSet(s) \/ a < b))
  <2>1. PICK j, k \in 1 .. n + c : j < k /\ t[j] = a /\ t[k] = b
    BY <1>6, <1>10 DEF Ahead
  <2>2. CASE k <= n
    <3>1. j \in 1 .. n /\ k \in 1 .. n /\ j <= n
      BY <1>1, <1>2, <2>1, <2>2
    <3> QED
      BY <1>2, <1>5, <2>1, <2>2, <3>1 DEF Ahead
  <2>3. CASE ~(k <= n) /\ j <= n
    <3>1. j \in 1 .. n /\ k - n \in 1 .. c
      BY <1>1, <1>2, <2>3
    <3>2. s[j] = a /\ w[k - n] = b
      BY <1>5, <2>1, <2>3
    <3> QED
      BY <1>1, <1>2, <3>1, <3>2
  <2>4. CASE ~(k <= n) /\ ~(j <= n)
    <3>1. j - n \in 1 .. c /\ k - n \in 1 .. c /\ j - n < k - n
      BY <1>1, <1>2, <2>1, <2>4
    <3>2. w[j - n] = a /\ w[k - n] = b
      BY <1>5, <2>1, <2>4
    <3> QED
      BY <1>1, <1>7, <3>1, <3>2
  <2> QED
    BY <2>2, <2>3, <2>4
<1>11. ASSUME J = {} PROVE t = s
  <2>1. c = 0
    BY <1>11, FS_EmptySet DEF c
  <2>2. w = <<>>
    BY <1>4, <2>1, EmptySeq
  <2> QED
    BY <2>2, ConcatEmptySeq DEF t
<1> QED
  BY <1>5, <1>8, <1>9, <1>10, <1>11 DEF t

-------------------------------------------------------------------------------
(* Lines *)

\* A line and the places of its updates: an attempt under way has no update of its
\* chat ahead of it.
Lined(l, places) ==
  /\ \A u \in Updates : places[u] # "none" <=> u \in ToSet(l)
  /\ \A u \in Updates : ~Ahead(l, u, u)
  /\ \A u, v \in Updates :
       places[u] \notin {"none", "joined"} /\ Ahead(l, v, u) => ChatOf[v] # ChatOf[u]

\* An attempt that waits for a slot waits once.
Queued(queue, places) ==
  /\ \A k \in DOMAIN queue : queue[k][1] = "attempt" => places[queue[k][2]] = "slot"
  /\ \A j, k \in DOMAIN queue : j < k /\ queue[j][1] = "attempt" => queue[j] # queue[k]

Idle(p) ==
  /\ ~starting[p].reads => starting[p] = NotStarting
  /\ closing[p] # "no" => ~started[p]
  /\ closing[p] = "returned" =>
       /\ ~starting[p].reads
       /\ \A u \in Updates : at[p][u] = "none" /\ job[p][u] = "none"

\* An update left by others waits to be read by start(), with nothing younger of its
\* chat in line, or is in line behind nothing younger of its chat.
Backed(p) ==
  \A v \in backlog[p] : record[v] = "pending" =>
    \/ /\ v \notin ToSet(line[p])
       /\ \A u \in ToSet(line[p]) : ChatOf[u] = ChatOf[v] => u < v
       /\ started[p] =>
            /\ starting[p].reads
            /\ v > starting[p].after \/ v \in starting[p].rows
    \/ /\ v \in ToSet(line[p])
       /\ \A u \in Updates :
            Ahead(line[p], u, v) /\ ChatOf[u] = ChatOf[v] => u < v

Good(p) ==
  Lined(line[p], at[p]) /\ Queued(waiting[p], at[p]) /\ Idle(p) /\ Backed(p)

LineTypes ==
  /\ line \in [Intakes -> Seq(Updates)]
  /\ at \in [Intakes -> [Updates -> Places]]
  /\ waiting \in [Intakes -> Seq({"attempt", "job"} \X Updates)]
  /\ started \in [Intakes -> BOOLEAN]
  /\ closing \in [Intakes -> {"no", "waits", "returned"}]
  /\ starting \in [Intakes -> [reads : BOOLEAN, after : Updates \cup {0},
                               rows : SUBSET Updates]]
  /\ arrivals \in [Intakes -> SUBSET Updates]
  /\ backlog \in [Intakes -> SUBSET Updates]

\* BacklogFirst, OneOfAChat and ClosedIsIdle are inductive only together with what
\* lines, queues and the read of start() hold: OneOfAChat needs that an attempt does
\* not begin behind one of its chat, BacklogFirst also that what joins does so in order.
LineInv == LineTypes /\ \A p \in Intakes : Good(p)

-------------------------------------------------------------------------------
\* A finite set of numbers has a greatest one.
LEMMA MaxIs ==
  ASSUME NEW S \in SUBSET Nat, IsFiniteSet(S), S # {}
  PROVE  Max(S) \in S
<1> DEFINE Above(x) == {y \in S : y > x}
           T == {Above(x) : x \in S}
           R == StrictSubsetOrdering(S)
<1>1. IsWellFoundedOn(R, SUBSET S)
  BY FS_StrictSubsetOrderingWellFounded, FS_FiniteSubsetsOfFinite
<1>2. T \subseteq SUBSET S /\ T # {}
  OBVIOUS
<1>3. PICK A \in T : \A B \in T : <<B, A>> \notin R
  <2> HIDE DEF T, R
  <2> QED
    BY <1>1, <1>2, WFMin
<1>4. PICK x \in S : A = Above(x)
  BY <1>3
<1>5. ASSUME NEW y \in S, y > x PROVE FALSE
  <2>1. y \in A /\ y \notin Above(y) /\ Above(y) \in T
    BY <1>4, <1>5
  <2>4. \A z \in S : z > y => z > x
    BY <1>5
  <2>5. Above(y) \subseteq A
    BY <1>4, <2>4
  <2>2. Above(y) \in SUBSET S /\ A \in SUBSET S
    BY <1>4
  <2> HIDE DEF Above, T
  <2>3. <<Above(y), A>> \in R
    BY <2>1, <2>2, <2>5 DEF StrictSubsetOrdering
  <2> QED
    BY <1>3, <2>1, <2>3
<1>6. \A y \in S : x >= y
  BY <1>5
<1> QED
  BY <1>6 DEF Max

\* A finite set of numbers has a least one.
LEMMA MinIs ==
  ASSUME NEW S \in SUBSET Nat, IsFiniteSet(S), S # {}
  PROVE  Min(S) \in S
<1> DEFINE Below(x) == {y \in S : y < x}
           T == {Below(x) : x \in S}
           R == StrictSubsetOrdering(S)
<1>1. IsWellFoundedOn(R, SUBSET S)
  BY FS_StrictSubsetOrderingWellFounded, FS_FiniteSubsetsOfFinite
<1>2. T \subseteq SUBSET S /\ T # {}
  OBVIOUS
<1>3. PICK A \in T : \A B \in T : <<B, A>> \notin R
  <2> HIDE DEF T, R
  <2> QED
    BY <1>1, <1>2, WFMin
<1>4. PICK x \in S : A = Below(x)
  BY <1>3
<1>5. ASSUME NEW y \in S, y < x PROVE FALSE
  <2>1. y \in A /\ y \notin Below(y) /\ Below(y) \in T
    BY <1>4, <1>5
  <2>4. \A z \in S : z < y => z < x
    BY <1>5
  <2>5. Below(y) \subseteq A
    BY <1>4, <2>4
  <2>2. Below(y) \in SUBSET S /\ A \in SUBSET S
    BY <1>4
  <2> HIDE DEF Below, T
  <2>3. <<Below(y), A>> \in R
    BY <2>1, <2>2, <2>5 DEF StrictSubsetOrdering
  <2> QED
    BY <1>3, <2>1, <2>3
<1>6. \A y \in S : x <= y
  BY <1>5
<1> QED
  BY <1>6 DEF Min

\* A slot that is given back goes to who waits first, and changes no line.
LEMMA ReleaseKeeps ==
  ASSUME NEW p \in Intakes, NEW places \in [Intakes -> [Updates -> Places]],
         NEW jobs \in [Intakes -> [Updates -> Jobs]],
         NEW queue \in Seq({"attempt", "job"} \X Updates), NEW l,
         waiting \in [Intakes -> Seq({"attempt", "job"} \X Updates)],
         Lined(l, places[p]), Queued(queue, places[p]), Release(p, places, jobs, queue)
  PROVE  /\ at' \in [Intakes -> [Updates -> Places]]
         /\ waiting' \in [Intakes -> Seq({"attempt", "job"} \X Updates)]
         /\ Lined(l, at'[p]) /\ Queued(waiting'[p], at'[p])
         /\ \A q \in Intakes \ {p} :
              at'[q] = places[q] /\ waiting'[q] = waiting[q] /\ job'[q] = jobs[q]
<1>1. CASE queue = <<>>
  BY <1>1 DEF Release
<1>2. CASE queue # <<>>
  <2> DEFINE next == Head(queue)
             rest == Tail(queue)
  <2>1. /\ waiting' = [waiting EXCEPT ![p] = rest]
        /\ IF next[1] = "attempt"
             THEN at' = [places EXCEPT ![p][next[2]] = "turn"] /\ job' = jobs
             ELSE at' = places /\ job' = [jobs EXCEPT ![p][next[2]] = "handle"]
    BY <1>2 DEF Release
  <2>2. /\ next \in {"attempt", "job"} \X Updates /\ next = queue[1] /\ 1 \in DOMAIN queue
        /\ rest \in Seq({"attempt", "job"} \X Updates)
        /\ \A k \in DOMAIN rest : rest[k] = queue[k + 1] /\ k + 1 \in DOMAIN queue /\ 1 < k + 1
    BY <1>2
  <2>3. \A j, k \in DOMAIN rest : j < k => j + 1 < k + 1
    BY <2>2
  <2> HIDE DEF next, rest
  <2>4. waiting' \in [Intakes -> Seq({"attempt", "job"} \X Updates)] /\ waiting'[p] = rest
    BY <2>1, <2>2
  <2>5. Queued(rest, places[p])
    BY <2>2, <2>3 DEF Queued
  <2>6. CASE next[1] = "attempt"
    <3>1. at' = [places EXCEPT ![p][next[2]] = "turn"] /\ job' = jobs
      BY <2>1, <2>6
    <3>2. next[2] \in Updates /\ places[p][next[2]] = "slot"
      BY <2>2, <2>6 DEF Queued
    <3>3. at' \in [Intakes -> [Updates -> Places]]
      BY <3>1, <3>2 DEF Places
    <3>4. /\ at'[p][next[2]] = "turn"
          /\ \A u \in Updates \ {next[2]} : at'[p][u] = places[p][u]
      BY <3>1, <3>2
    <3>5. Lined(l, at'[p])
      BY <3>2, <3>4 DEF Lined
    <3>6. \A k \in DOMAIN rest : rest[k][1] = "attempt" => rest[k][2] # next[2]
      <4> SUFFICES ASSUME NEW k \in DOMAIN rest, rest[k][1] = "attempt", rest[k][2] = next[2]
                   PROVE  FALSE
        OBVIOUS
      <4>1. queue[1] # queue[k + 1]
        BY <2>2, <2>6 DEF Queued
      <4>2. rest[k] \in {"attempt", "job"} \X Updates
        BY <2>2
      <4>3. rest[k] = <<rest[k][1], rest[k][2]>>
        BY <4>2
      <4>4. next = <<next[1], next[2]>>
        BY <2>2
      <4> QED
        BY <2>2, <2>6, <4>1, <4>3, <4>4
    <3>7. \A k \in DOMAIN rest : rest[k][2] \in Updates
      BY <2>2
    <3>8. Queued(rest, at'[p])
      BY <2>5, <3>4, <3>6, <3>7 DEF Queued
    <3> QED
      BY <2>1, <2>4, <3>1, <3>3, <3>5, <3>8
  <2>7. CASE next[1] # "attempt"
    <3>1. at' = places /\ job' = [jobs EXCEPT ![p][next[2]] = "handle"]
      BY <2>1, <2>7
    <3> QED
      BY <2>1, <2>4, <2>5, <3>1
  <2> QED
    BY <2>6, <2>7
<1> QED
  BY <1>1, <1>2

\* What joins a line does so behind what is in it, and in order.
LEMMA JoinKeeps ==
  ASSUME LineTypes, NEW p \in Intakes, NEW new \in SUBSET Updates, Join(p, new),
         Lined(line[p], at[p]), Queued(waiting[p], at[p])
  PROVE  /\ line' \in [Intakes -> Seq(Updates)]
         /\ at' \in [Intakes -> [Updates -> Places]]
         /\ Lined(line'[p], at'[p]) /\ Queued(waiting[p], at'[p])
         /\ \A q \in Intakes \ {p} : line'[q] = line[q] /\ at'[q] = at[q]
         /\ ~started[p] => line'[p] = line[p] /\ at'[p] = at[p]
         /\ \A v \in ToSet(line[p]) :
              /\ v \in ToSet(line'[p])
              /\ \A u : Ahead(line'[p], u, v) => Ahead(line[p], u, v)
         /\ \A u \in ToSet(line'[p]) :
              u \in ToSet(line[p]) \/ (u \in new /\ u \notin ToSet(line[p]))
         /\ started[p] =>
              \A v \in new :
                /\ v \in ToSet(line'[p])
                /\ v \notin ToSet(line[p]) =>
                     \A u : Ahead(line'[p], u, v) => u \in ToSet(line[p]) \/ u < v
<1> DEFINE J == IF started[p] THEN {u \in new : ~Has(p, u)} ELSE {}
<1>1. PICK w \in SetToSeqs(J) : InOrder(w) /\ line' = [line EXCEPT ![p] = line[p] \o w]
  BY DEF Join, LineTypes
<1>2. at' = [at EXCEPT ![p] = [u \in Updates |-> IF u \in J THEN "joined" ELSE at[p][u]]]
  BY DEF Join, LineTypes
<1>3. /\ J \in SUBSET Updates
      /\ \A u \in J : u \in new /\ at[p][u] = "none"
      /\ started[p] => \A u \in new : u \in J \/ at[p][u] # "none"
      /\ ~started[p] => J = {}
  BY DEF Has
<1> HIDE DEF J
<1>4. IsFiniteSet(J) /\ \A u \in Updates : u \in Nat
  BY <1>3, UpdatesAssumption, FS_Subset
<1> DEFINE l == line[p] \o w
<1>5. line[p] \in Seq(Updates)
  BY DEF LineTypes
<1>6. /\ l \in Seq(Updates) /\ ToSet(l) = ToSet(line[p]) \cup J
      /\ \A a, b : Ahead(l, a, b) =>
           Ahead(line[p], a, b) \/ (b \in J /\ (a \in ToSet(line[p]) \/ a < b))
      /\ J = {} => l = line[p]
  BY <1>1, <1>3, <1>4, <1>5, Joined
<1>7. line' \in [Intakes -> Seq(Updates)] /\ line'[p] = l
      /\ \A q \in Intakes \ {p} : line'[q] = line[q]
  <2> HIDE DEF l
  <2>1. line' = [line EXCEPT ![p] = l]
    BY <1>1 DEF l
  <2> QED
    BY <1>6, <2>1 DEF LineTypes
<1> HIDE DEF l
<1>8. /\ at' \in [Intakes -> [Updates -> Places]]
      /\ \A u \in Updates : at'[p][u] = IF u \in J THEN "joined" ELSE at[p][u]
      /\ \A q \in Intakes \ {p} : at'[q] = at[q]
  BY <1>2 DEF LineTypes, Places
<1>9. \A u \in ToSet(line[p]) : u \in Updates /\ at[p][u] # "none" /\ u \notin J
  BY <1>3, <1>5, ElementIs DEF Lined
<1>10. Lined(l, at'[p])
  <2>1. \A u \in Updates : at'[p][u] # "none" <=> u \in ToSet(l)
    BY <1>6, <1>8 DEF Lined
  <2>2. ASSUME NEW u \in Updates, Ahead(l, u, u) PROVE FALSE
    <3>1. u \in J /\ (u \in ToSet(line[p]) \/ u < u)
      BY <1>6, <2>2 DEF Lined
    <3> QED
      BY <1>4, <1>9, <3>1
  <2>3. ASSUME NEW u \in Updates, NEW v \in Updates,
               at'[p][u] \notin {"none", "joined"}, Ahead(l, v, u)
        PROVE  ChatOf[v] # ChatOf[u]
    <3>1. u \notin J /\ at'[p][u] = at[p][u]
      BY <1>8, <2>3
    <3> QED
      BY <1>6, <2>3, <3>1 DEF Lined
  <2> QED
    BY <2>1, <2>2, <2>3 DEF Lined
<1>11. Queued(waiting[p], at'[p])
  <2>1. \A k \in DOMAIN waiting[p] : waiting[p][k][2] \in Updates
    BY DEF LineTypes
  <2>2. \A u \in Updates : at[p][u] = "slot" => at'[p][u] = "slot"
    BY <1>3, <1>8
  <2> QED
    BY <2>1, <2>2 DEF Queued
<1>12. ~started[p] => line'[p] = line[p] /\ at'[p] = at[p]
  BY <1>3, <1>6, <1>7, <1>8 DEF LineTypes
<1>13. ASSUME NEW v \in ToSet(line[p]), NEW u, Ahead(l, u, v) PROVE Ahead(line[p], u, v)
  BY <1>6, <1>9, <1>13
<1>14. ASSUME started[p], NEW v \in new
       PROVE  /\ v \in ToSet(l)
              /\ v \notin ToSet(line[p]) =>
                   \A u : Ahead(l, u, v) => u \in ToSet(line[p]) \/ u < v
  <2>1. v \in J \/ v \in ToSet(line[p])
    BY <1>3, <1>14 DEF Lined
  <2>2. \A u : Ahead(line[p], u, v) => v \in ToSet(line[p])
    BY <1>5, ElementIs DEF Ahead
  <2> QED
    BY <1>6, <2>1, <2>2
<1>15. \A u \in ToSet(l) : u \in ToSet(line[p]) \/ (u \in new /\ u \notin ToSet(line[p]))
  BY <1>3, <1>6
<1> QED
  BY <1>6, <1>7, <1>8, <1>10, <1>11, <1>12, <1>13, <1>14, <1>15

\* An intake that a step leaves alone, but for records and what is left by others.
LEMMA Elsewhere ==
  ASSUME NEW q \in Intakes, Good(q), line'[q] = line[q], at'[q] = at[q],
         waiting'[q] = waiting[q], job'[q] = job[q], started'[q] = started[q],
         closing'[q] = closing[q], starting'[q] = starting[q],
         \A v \in backlog'[q] :
           v \in backlog[q] /\ (record'[v] = "pending" => record[v] = "pending")
  PROVE  Good(q)'
<1>1. Lined(line[q], at[q])' /\ Queued(waiting[q], at[q])'
  BY DEF Good
<1>2. Idle(q)'
  BY DEF Good, Idle
<1>3. Backed(q)'
  BY DEF Good, Backed
<1> QED
  BY <1>1, <1>2, <1>3 DEF Good

\* An attempt that leaves its line, which makes no record pending.
LEMMA LeavesKeeps ==
  ASSUME LineInv, NEW p \in Intakes, NEW u \in Updates,
         NEW jobs \in [Intakes -> [Updates -> Jobs]],
         NEW queue \in Seq({"attempt", "job"} \X Updates), Queued(queue, at[p]),
         \A q \in Intakes \ {p} : jobs[q] = job[q],
         at[p][u] \notin {"none", "slot"}, LeavesTo(p, u, jobs, queue), UNCHANGED loopVars,
         \A v \in Updates : record'[v] = "pending" => record[v] = "pending"
  PROVE  LineInv'
<1> DEFINE places == [at EXCEPT ![p][u] = "none"]
           l == RemoveAt(line[p], Place(p, u))
<1>1. /\ line' = [line EXCEPT ![p] = l]
      /\ Release(p, places, jobs, queue)
      /\ backlog' = [backlog EXCEPT ![p] = backlog[p] \ {u}]
      /\ UNCHANGED <<started, closing, starting, arrivals>>
  BY DEF LeavesTo, LineInv, LineTypes, loopVars
<1>2. LineTypes /\ Good(p) /\ Lined(line[p], at[p])
  BY DEF LineInv, Good
<1>3. /\ places \in [Intakes -> [Updates -> Places]]
      /\ places[p][u] = "none" /\ \A v \in Updates \ {u} : places[p][v] = at[p][v]
      /\ \A q \in Intakes \ {p} : places[q] = at[q]
  BY <1>2 DEF LineTypes, Places
<1>4. u \in ToSet(line[p]) /\ ~Ahead(line[p], u, u) /\ line[p] \in Seq(Updates)
  BY <1>2 DEF Lined, LineTypes
<1>5. /\ l \in Seq(Updates) /\ ToSet(l) = ToSet(line[p]) \ {u}
      /\ \A a, b : Ahead(l, a, b) => Ahead(line[p], a, b)
  BY <1>4, Removed DEF Place
<1> HIDE DEF places, l
<1>6. Lined(l, places[p])
  BY <1>2, <1>3, <1>5 DEF Lined
<1>7. Queued(queue, places[p])
  <2>1. \A k \in DOMAIN queue : queue[k][2] \in Updates
    OBVIOUS
  <2> QED
    BY <1>3, <2>1 DEF Queued
<1>8. /\ at' \in [Intakes -> [Updates -> Places]]
      /\ waiting' \in [Intakes -> Seq({"attempt", "job"} \X Updates)]
      /\ Lined(l, at'[p]) /\ Queued(waiting'[p], at'[p])
      /\ \A q \in Intakes \ {p} :
           at'[q] = at[q] /\ waiting'[q] = waiting[q] /\ job'[q] = job[q]
  <2>1. waiting \in [Intakes -> Seq({"attempt", "job"} \X Updates)]
    BY <1>2 DEF LineTypes
  <2>2. /\ at' \in [Intakes -> [Updates -> Places]]
        /\ waiting' \in [Intakes -> Seq({"attempt", "job"} \X Updates)]
        /\ Lined(l, at'[p]) /\ Queued(waiting'[p], at'[p])
        /\ \A q \in Intakes \ {p} :
             at'[q] = places[q] /\ waiting'[q] = waiting[q] /\ job'[q] = jobs[q]
    BY <1>1, <1>3, <1>6, <1>7, <2>1, ReleaseKeeps
  <2> QED
    BY <1>3, <2>2
<1>9. line' \in [Intakes -> Seq(Updates)] /\ line'[p] = l
      /\ \A q \in Intakes \ {p} : line'[q] = line[q]
  BY <1>1, <1>2, <1>5 DEF LineTypes
<1>10. /\ backlog' \in [Intakes -> SUBSET Updates] /\ backlog'[p] = backlog[p] \ {u}
       /\ \A q \in Intakes \ {p} : backlog'[q] = backlog[q]
  BY <1>1, <1>2 DEF LineTypes
<1>11. LineTypes'
  BY <1>1, <1>2, <1>8, <1>9, <1>10 DEF LineTypes
<1>12. Good(p)'
  <2>1. Idle(p)'
    BY <1>1, <1>2 DEF Good, Idle
  <2>2. Backed(p)'
    <3> SUFFICES ASSUME NEW v \in backlog[p] \ {u}, record'[v] = "pending"
                 PROVE  \/ /\ v \notin ToSet(l)
                           /\ \A w \in ToSet(l) : ChatOf[w] = ChatOf[v] => w < v
                           /\ started[p] =>
                                /\ starting[p].reads
                                /\ v > starting[p].after \/ v \in starting[p].rows
                        \/ /\ v \in ToSet(l)
                           /\ \A w \in Updates :
                                Ahead(l, w, v) /\ ChatOf[w] = ChatOf[v] => w < v
      BY <1>1, <1>9, <1>10 DEF Backed
    <3>1. v \in Updates /\ record[v] = "pending"
      BY <1>2 DEF LineTypes
    <3> QED
      BY <1>2, <1>5, <3>1 DEF Good, Backed
  <2> QED
    BY <1>8, <1>9, <2>1, <2>2 DEF Good
<1>13. ASSUME NEW q \in Intakes \ {p} PROVE Good(q)'
  <2>1. Good(q) /\ backlog[q] \subseteq Updates
    BY <1>2 DEF LineInv, LineTypes
  <2>2. \A v \in backlog'[q] :
          v \in backlog[q] /\ (record'[v] = "pending" => record[v] = "pending")
    BY <1>10, <2>1
  <2>3. /\ line'[q] = line[q] /\ at'[q] = at[q] /\ waiting'[q] = waiting[q]
        /\ job'[q] = job[q] /\ started'[q] = started[q] /\ closing'[q] = closing[q]
        /\ starting'[q] = starting[q]
    BY <1>1, <1>8, <1>9
  <2> QED
    BY <2>1, <2>2, <2>3, Elsewhere
<1> QED
  BY <1>11, <1>12, <1>13 DEF LineInv

\* A step of one intake, which makes no record of what is left to others pending.
Alone(p) ==
  \A q \in Intakes \ {p} :
    /\ line'[q] = line[q] /\ at'[q] = at[q] /\ waiting'[q] = waiting[q] /\ job'[q] = job[q]
    /\ started'[q] = started[q] /\ closing'[q] = closing[q] /\ starting'[q] = starting[q]
    /\ backlog'[q] = backlog[q]

NoneAnew == \A v \in Updates : record'[v] = "pending" => record[v] = "pending"

\* So such a step has only its own intake to keep.
LEMMA AloneKeeps ==
  ASSUME LineInv, NEW p \in Intakes, Alone(p), NoneAnew, LineTypes', Good(p)'
  PROVE  LineInv'
<1>1. ASSUME NEW q \in Intakes \ {p} PROVE Good(q)'
  <2>1. Good(q) /\ backlog[q] \subseteq Updates
    BY DEF LineInv, LineTypes
  <2>2. /\ line'[q] = line[q] /\ at'[q] = at[q] /\ waiting'[q] = waiting[q]
        /\ job'[q] = job[q] /\ started'[q] = started[q] /\ closing'[q] = closing[q]
        /\ starting'[q] = starting[q] /\ backlog'[q] = backlog[q]
    BY DEF Alone
  <2>3. \A v \in backlog'[q] :
          v \in backlog[q] /\ (record'[v] = "pending" => record[v] = "pending")
    BY <2>1, <2>2 DEF NoneAnew
  <2> QED
    BY <2>1, <2>2, <2>3, Elsewhere
<1> QED
  BY <1>1 DEF LineInv

\* A step that keeps what lines and queues hold, where no start() ends or begins.
LEMMA QuietKeeps ==
  ASSUME LineInv, UNCHANGED <<line, at, waiting, job, started, closing, starting>>,
         arrivals' \in [Intakes -> SUBSET Updates],
         backlog' \in [Intakes -> SUBSET Updates],
         \A q \in Intakes : \A v \in backlog'[q] :
           v \in backlog[q] /\ (record'[v] = "pending" => record[v] = "pending")
  PROVE  LineInv'
<1>1. LineTypes'
  BY DEF LineInv, LineTypes
<1>2. ASSUME NEW q \in Intakes PROVE Good(q)'
  BY Elsewhere DEF LineInv
<1> QED
  BY <1>1, <1>2 DEF LineInv

\* An attempt goes on in its line.
LEMMA GoesKeeps ==
  ASSUME LineInv, NEW p \in Intakes, NEW u \in Updates, NEW place \in {"claim", "handle"},
         at[p][u] \notin {"none", "slot"}, at[p][u] = "joined" => First(p, u),
         Goes(p, u, place), UNCHANGED <<line, job, waiting, loopVars>>, NoneAnew,
         backlog' = backlog \/ backlog' = [backlog EXCEPT ![p] = @ \ {u}]
  PROVE  LineInv'
<1>1. LineTypes /\ Lined(line[p], at[p]) /\ Queued(waiting[p], at[p]) /\ Idle(p) /\ Backed(p)
  BY DEF LineInv, Good
<1>2. at' = [at EXCEPT ![p][u] = place] /\ UNCHANGED <<started, closing, starting, arrivals>>
  BY DEF Goes, loopVars
<1>3. /\ at' \in [Intakes -> [Updates -> Places]] /\ at'[p][u] = place
      /\ \A v \in Updates \ {u} : at'[p][v] = at[p][v]
      /\ \A q \in Intakes \ {p} : at'[q] = at[q]
  BY <1>1, <1>2 DEF LineTypes, Places
<1>4. /\ backlog' \in [Intakes -> SUBSET Updates] /\ backlog'[p] \subseteq backlog[p]
      /\ \A q \in Intakes \ {p} : backlog'[q] \subseteq backlog[q]
  <2>1. backlog \in [Intakes -> SUBSET Updates]
    BY <1>1 DEF LineTypes
  <2> QED
    BY <2>1
<1>5. LineTypes'
  BY <1>1, <1>2, <1>3, <1>4 DEF LineTypes
<1>6. Lined(line[p], at'[p])
  <2>1. \A v \in Updates : at'[p][v] # "none" <=> v \in ToSet(line[p])
    BY <1>1, <1>3 DEF Lined
  <2>2. ASSUME NEW v \in Updates, Ahead(line[p], v, u) PROVE ChatOf[v] # ChatOf[u]
    BY <1>1, <2>2 DEF Lined, First, Ahead
  <2> QED
    BY <1>1, <1>3, <2>1, <2>2 DEF Lined
<1>7. Queued(waiting[p], at'[p])
  <2>1. \A k \in DOMAIN waiting[p] : waiting[p][k][2] \in Updates
    BY <1>1 DEF LineTypes
  <2> QED
    BY <1>1, <1>3, <2>1 DEF Queued
<1>8. Idle(p)'
  BY <1>1, <1>2 DEF Idle
<1>9. \A v \in backlog'[p] : record'[v] = "pending" => record[v] = "pending"
  BY <1>1, <1>4 DEF LineTypes, NoneAnew
<1>10. Backed(p)'
  BY <1>1, <1>2, <1>4, <1>9 DEF Backed
<1>11. ASSUME NEW q \in Intakes \ {p} PROVE Good(q)'
  <2>1. Good(q)
    BY DEF LineInv
  <2>2. \A v \in backlog'[q] :
          v \in backlog[q] /\ (record'[v] = "pending" => record[v] = "pending")
    BY <1>1, <1>4 DEF LineTypes, NoneAnew
  <2> QED
    BY <1>2, <1>3, <2>1, <2>2, Elsewhere
<1> QED
  BY <1>5, <1>6, <1>7, <1>8, <1>10, <1>11 DEF LineInv, Good

\* An attempt waits for a slot.
LEMMA WaitsKeeps ==
  ASSUME LineInv, NEW p \in Intakes, NEW u \in Updates, WaitsForSlot(p, u)
  PROVE  LineInv'
<1>1. LineTypes /\ Lined(line[p], at[p]) /\ Queued(waiting[p], at[p]) /\ Idle(p) /\ Backed(p)
  BY DEF LineInv, Good
<1>2. /\ at[p][u] = "joined" /\ First(p, u) /\ at' = [at EXCEPT ![p][u] = "slot"]
      /\ waiting' = [waiting EXCEPT ![p] = Append(waiting[p], <<"attempt", u>>)]
      /\ UNCHANGED <<record, started, closing, starting, arrivals, line, job, backlog>>
  BY <1>1 DEF WaitsForSlot, Goes, loopVars, recordVars, LineTypes
<1>3. /\ at' \in [Intakes -> [Updates -> Places]] /\ at'[p][u] = "slot"
      /\ \A v \in Updates \ {u} : at'[p][v] = at[p][v]
      /\ \A q \in Intakes \ {p} : at'[q] = at[q]
  BY <1>1, <1>2 DEF LineTypes, Places
<1> DEFINE Q == waiting[p]
           R == Append(Q, <<"attempt", u>>)
           n == Len(Q)
<1>4. /\ Q \in Seq({"attempt", "job"} \X Updates) /\ n \in Nat /\ DOMAIN Q = 1 .. n
      /\ \A k \in 1 .. n : Q[k] \in {"attempt", "job"} \X Updates
  BY <1>1 DEF LineTypes
<1>5. /\ R \in Seq({"attempt", "job"} \X Updates) /\ DOMAIN R = 1 .. n + 1
      /\ R[n + 1] = <<"attempt", u>> /\ \A k \in 1 .. n : R[k] = Q[k]
  BY <1>4
<1> HIDE DEF Q, R, n
<1>6. /\ waiting' \in [Intakes -> Seq({"attempt", "job"} \X Updates)] /\ waiting'[p] = R
      /\ \A q \in Intakes \ {p} : waiting'[q] = waiting[q]
  <2>1. waiting' = [waiting EXCEPT ![p] = R]
    BY <1>2 DEF Q, R
  <2> QED
    BY <1>1, <1>5, <2>1 DEF LineTypes
<1>7. LineTypes'
  BY <1>1, <1>2, <1>3, <1>6 DEF LineTypes
<1>8. Lined(line[p], at'[p])
  <2>1. \A v \in Updates : at'[p][v] # "none" <=> v \in ToSet(line[p])
    BY <1>1, <1>2, <1>3 DEF Lined
  <2>2. ASSUME NEW v \in Updates, Ahead(line[p], v, u) PROVE ChatOf[v] # ChatOf[u]
    BY <1>2, <2>2 DEF First, Ahead
  <2> QED
    BY <1>1, <1>3, <2>1, <2>2 DEF Lined
<1>9. Queued(R, at'[p])
  <2>1. \A k \in 1 .. n : Q[k][2] \in Updates /\ (Q[k][1] = "attempt" => at[p][Q[k][2]] = "slot")
    BY <1>1, <1>4 DEF Queued, Q
  <2>2. \A k \in 1 .. n : Q[k][1] = "attempt" => Q[k][2] # u /\ at'[p][Q[k][2]] = "slot"
    BY <1>2, <1>3, <2>1
  <2>3. \A k \in 1 .. n + 1 : k \in 1 .. n \/ k = n + 1
    BY <1>4
  <2>4. \A k \in 1 .. n + 1 : R[k][1] = "attempt" => at'[p][R[k][2]] = "slot"
    BY <1>3, <1>5, <2>2, <2>3
  <2>5. ASSUME NEW j \in 1 .. n + 1, NEW k \in 1 .. n + 1, j < k, R[j][1] = "attempt"
        PROVE  R[j] # R[k]
    <3>1. j \in 1 .. n /\ R[j] = Q[j]
      BY <1>4, <1>5, <2>5
    <3>2. CASE k \in 1 .. n
      <4>1. R[k] = Q[k]
        BY <1>5, <3>2
      <4>2. j \in DOMAIN Q /\ k \in DOMAIN Q /\ Q[j][1] = "attempt"
        BY <1>4, <2>5, <3>1, <3>2
      <4>3. Queued(Q, at[p])
        BY <1>1 DEF Q
      <4>4. Q[j] # Q[k]
        BY <2>5, <4>2, <4>3 DEF Queued
      <4> QED
        BY <3>1, <4>1, <4>4
    <3>3. CASE k = n + 1
      <4>1. R[j][2] # u
        BY <2>2, <2>5, <3>1
      <4>2. R[k][2] = u
        BY <1>5, <3>3
      <4> QED
        BY <4>1, <4>2
    <3> QED
      BY <2>3, <3>2, <3>3
  <2> QED
    BY <1>5, <2>4, <2>5 DEF Queued
<1>10. Idle(p)' /\ Backed(p)'
  BY <1>1, <1>2 DEF Idle, Backed
<1>11. Alone(p) /\ NoneAnew
  BY <1>2, <1>3, <1>6 DEF Alone, NoneAnew
<1> QED
  BY <1>2, <1>6, <1>7, <1>8, <1>9, <1>10, <1>11, AloneKeeps DEF Good

\* A delivery that ends leaves lines as they are.
LEMMA JobEndsKeeps ==
  ASSUME LineInv, Types, NEW p \in Intakes, NEW u \in Updates, job[p][u] # "none",
         JobEnds(p, u), UNCHANGED loopVars, NoneAnew
  PROVE  LineInv'
<1>1. LineTypes /\ Lined(line[p], at[p]) /\ Queued(waiting[p], at[p]) /\ Idle(p) /\ Backed(p)
  BY DEF LineInv, Good
<1> DEFINE jobs == [job EXCEPT ![p][u] = "none"]
<1>2. /\ Release(p, at, jobs, waiting[p])
      /\ UNCHANGED <<line, backlog, started, closing, starting, arrivals>>
  BY DEF JobEnds, loopVars
<1>3. /\ jobs \in [Intakes -> [Updates -> Jobs]]
      /\ \A q \in Intakes \ {p} : jobs[q] = job[q]
  BY DEF Types, Jobs
<1> HIDE DEF jobs
<1>4. /\ at \in [Intakes -> [Updates -> Places]]
      /\ waiting \in [Intakes -> Seq({"attempt", "job"} \X Updates)]
      /\ waiting[p] \in Seq({"attempt", "job"} \X Updates)
  BY <1>1 DEF LineTypes
<1>5. /\ at' \in [Intakes -> [Updates -> Places]]
      /\ waiting' \in [Intakes -> Seq({"attempt", "job"} \X Updates)]
      /\ Lined(line[p], at'[p]) /\ Queued(waiting'[p], at'[p])
      /\ \A q \in Intakes \ {p} :
           at'[q] = at[q] /\ waiting'[q] = waiting[q] /\ job'[q] = jobs[q]
  BY <1>1, <1>2, <1>3, <1>4, ReleaseKeeps
<1>6. LineTypes'
  BY <1>1, <1>2, <1>5 DEF LineTypes
<1>7. Idle(p)'
  BY <1>1, <1>2 DEF Idle
<1>8. \A v \in backlog[p] : record'[v] = "pending" => record[v] = "pending"
  BY <1>1 DEF LineTypes, NoneAnew
<1>9. Backed(p)'
  BY <1>1, <1>2, <1>8 DEF Backed
<1>10. Alone(p)
  BY <1>2, <1>3, <1>5 DEF Alone
<1> QED
  BY <1>2, <1>5, <1>6, <1>7, <1>9, <1>10, AloneKeeps DEF Good

\* A delivery may join the queue, behind what waits there.
LEMMA JobWaits ==
  ASSUME NEW queue \in Seq({"attempt", "job"} \X Updates), NEW places, NEW u \in Updates,
         Queued(queue, places)
  PROVE  /\ Append(queue, <<"job", u>>) \in Seq({"attempt", "job"} \X Updates)
         /\ Queued(Append(queue, <<"job", u>>), places)
<1> DEFINE R == Append(queue, <<"job", u>>)
           n == Len(queue)
<1>1. n \in Nat /\ DOMAIN queue = 1 .. n
  OBVIOUS
<1>2. /\ R \in Seq({"attempt", "job"} \X Updates) /\ DOMAIN R = 1 .. n + 1
      /\ R[n + 1] = <<"job", u>> /\ \A k \in 1 .. n : R[k] = queue[k]
  OBVIOUS
<1> HIDE DEF R, n
<1>3. \A k \in 1 .. n + 1 : k \in 1 .. n \/ k = n + 1
  BY <1>1
<1>4. \A k \in 1 .. n + 1 : R[k][1] = "attempt" => k \in 1 .. n
  BY <1>2, <1>3
<1>5. \A k \in 1 .. n + 1 : R[k][1] = "attempt" => places[R[k][2]] = "slot"
  BY <1>1, <1>2, <1>4 DEF Queued
<1>6. ASSUME NEW j \in 1 .. n + 1, NEW k \in 1 .. n + 1, j < k, R[j][1] = "attempt"
      PROVE  R[j] # R[k]
  <2>1. CASE k \in 1 .. n
    BY <1>1, <1>2, <1>4, <1>6, <2>1 DEF Queued
  <2>2. CASE k = n + 1
    BY <1>2, <1>6, <2>2
  <2> QED
    BY <1>3, <2>1, <2>2
<1> QED
  BY <1>2, <1>5, <1>6 DEF R, Queued

\* The delivery of a page of exhausted updates, which may have to wait.
LEMMA DeliverKeeps ==
  ASSUME Types, NEW p \in Intakes, Deliver(p), NEW places, Queued(waiting[p], places),
         waiting \in [Intakes -> Seq({"attempt", "job"} \X Updates)]
  PROVE  /\ waiting' \in [Intakes -> Seq({"attempt", "job"} \X Updates)]
         /\ Queued(waiting'[p], places)
         /\ \A q \in Intakes \ {p} : job'[q] = job[q] /\ waiting'[q] = waiting[q]
<1>1. CASE UNCHANGED <<job, waiting>>
  BY <1>1
<1>2. CASE ~UNCHANGED <<job, waiting>>
  <2> DEFINE u == Min(Page(p))
             R == Append(waiting[p], <<"job", u>>)
  <2>1. /\ Page(p) # {}
        /\ \/ job' = [job EXCEPT ![p][u] = "handle"] /\ UNCHANGED waiting
           \/ /\ job' = [job EXCEPT ![p][u] = "slot"]
              /\ waiting' = [waiting EXCEPT ![p] = R]
    BY <1>2 DEF Deliver
  <2>2. u \in Updates
    <3>1. Page(p) \in SUBSET Updates
      BY DEF Page, Exhausted
    <3>2. Page(p) \in SUBSET Nat /\ IsFiniteSet(Page(p))
      BY <3>1, UpdatesAssumption, FS_Subset
    <3> QED
      BY <2>1, <3>1, <3>2, MinIs
  <2> HIDE DEF u
  <2>3. waiting[p] \in Seq({"attempt", "job"} \X Updates)
    OBVIOUS
  <2>4. R \in Seq({"attempt", "job"} \X Updates) /\ Queued(R, places)
    BY <2>2, <2>3, JobWaits
  <2> HIDE DEF R
  <2>5. \A q \in Intakes \ {p} : job'[q] = job[q]
    BY <2>1 DEF Types
  <2>6. CASE UNCHANGED waiting
    BY <2>5, <2>6
  <2>7. CASE waiting' = [waiting EXCEPT ![p] = R]
    BY <2>4, <2>5, <2>7
  <2> QED
    BY <2>1, <2>6, <2>7
<1> QED
  BY <1>1, <1>2

\* What a line that others join leaves to the backlog: what start() has read of it
\* has joined, in order, or waits with nothing younger of its chat before it.
LEMMA JoinBacks ==
  ASSUME LineInv, NEW p \in Intakes, NEW new \in SUBSET Updates, Join(p, new), NoneAnew,
         backlog'[p] \subseteq backlog[p], started'[p] => started[p],
         \A v \in backlog'[p] :
           /\ started[p] /\ record[v] = "pending" /\ v \notin new /\ v \notin ToSet(line[p])
           /\ starting[p].reads /\ (v > starting[p].after \/ v \in starting[p].rows)
           => /\ \A u \in new \ ToSet(line[p]) : ChatOf[u] = ChatOf[v] => u < v
              /\ UNCHANGED starting
  PROVE  Backed(p)'
<1>1. LineTypes /\ Lined(line[p], at[p]) /\ Queued(waiting[p], at[p]) /\ Backed(p)
  BY DEF LineInv, Good
<1>2. /\ ~started[p] => line'[p] = line[p]
      /\ \A v \in ToSet(line[p]) :
           /\ v \in ToSet(line'[p])
           /\ \A u : Ahead(line'[p], u, v) => Ahead(line[p], u, v)
      /\ \A u \in ToSet(line'[p]) :
           u \in ToSet(line[p]) \/ (u \in new /\ u \notin ToSet(line[p]))
      /\ started[p] =>
           \A v \in new :
             /\ v \in ToSet(line'[p])
             /\ v \notin ToSet(line[p]) =>
                  \A u : Ahead(line'[p], u, v) => u \in ToSet(line[p]) \/ u < v
  BY <1>1, JoinKeeps
<1> SUFFICES ASSUME NEW v \in backlog'[p], record'[v] = "pending"
             PROVE  \/ /\ v \notin ToSet(line'[p])
                       /\ \A u \in ToSet(line'[p]) : ChatOf[u] = ChatOf[v] => u < v
                       /\ started'[p] =>
                            /\ starting'[p].reads
                            /\ v > starting'[p].after \/ v \in starting'[p].rows
                    \/ /\ v \in ToSet(line'[p])
                       /\ \A u \in Updates :
                            Ahead(line'[p], u, v) /\ ChatOf[u] = ChatOf[v] => u < v
  BY DEF Backed
<1>3. v \in Updates /\ v \in backlog[p] /\ record[v] = "pending"
  BY <1>1 DEF LineTypes, NoneAnew
<1>4. CASE v \in ToSet(line[p])
  <2>1. \A u \in Updates : Ahead(line[p], u, v) /\ ChatOf[u] = ChatOf[v] => u < v
    BY <1>1, <1>3, <1>4 DEF Backed
  <2> QED
    BY <1>2, <1>4, <2>1
<1>5. CASE v \notin ToSet(line[p])
  <2>1. /\ \A u \in ToSet(line[p]) : ChatOf[u] = ChatOf[v] => u < v
        /\ started[p] =>
             /\ starting[p].reads
             /\ v > starting[p].after \/ v \in starting[p].rows
    BY <1>1, <1>3, <1>5 DEF Backed
  <2>2. CASE ~started[p]
    BY <1>2, <1>5, <2>1, <2>2
  <2>3. CASE started[p] /\ v \in new
    BY <1>2, <1>5, <2>1, <2>3
  <2>4. CASE started[p] /\ v \notin new
    <3>1. /\ \A u \in new \ ToSet(line[p]) : ChatOf[u] = ChatOf[v] => u < v
          /\ UNCHANGED starting
      BY <1>3, <1>5, <2>1, <2>4
    <3> QED
      BY <1>2, <1>5, <2>1, <2>4, <3>1
  <2> QED
    BY <2>2, <2>3, <2>4
<1> QED
  BY <1>4, <1>5

-------------------------------------------------------------------------------
(* The steps, and the lines *)

\* The initial states satisfy the invariant of the lines.
LEMMA InitLines == UpdatesInit => LineInv
<1> SUFFICES ASSUME UpdatesInit PROVE LineInv
  OBVIOUS
<1>1. LineTypes
  BY DEF UpdatesInit, LineTypes, NotStarting, Places
<1>2. ASSUME NEW p \in Intakes PROVE Good(p)
  <2>1. Lined(line[p], at[p])
    BY DEF UpdatesInit, Lined, Ahead, ToSet
  <2>2. Queued(waiting[p], at[p]) /\ Idle(p) /\ Backed(p)
    BY DEF UpdatesInit, Queued, Idle, Backed, NotStarting
  <2> QED
    BY <2>1, <2>2 DEF Good
<1> QED
  BY <1>1, <1>2 DEF LineInv

\* Only accept() makes a record pending.
LEMMA RecordsNoneAnew ==
  ASSUME Types, NEW u \in Updates,
         \/ Claimed(u) \/ Abandoned(u) \/ UNCHANGED record \/ Prune
         \/ \E claim : \E end \in {"completed", "failed", "exhausted"} :
              Records(u, claim, end)
         \/ record' = [record EXCEPT ![u] = "acknowledged"]
  PROVE  NoneAnew
<1>1. CASE Prune
  BY <1>1 DEF Prune, NoneAnew
<1>2. CASE UNCHANGED record
  BY <1>2 DEF NoneAnew
<1>3. CASE \E end \in {"processing", "completed", "failed", "exhausted", "acknowledged"} :
             record' = [record EXCEPT ![u] = end]
  BY <1>3 DEF NoneAnew, Types
<1> QED
  BY <1>1, <1>2, <1>3 DEF Claimed, Abandoned, Records

\* An attempt that leaves its line and asks for no delivery.
LEMMA LeavesOnly ==
  ASSUME LineInv, Types, NEW p \in Intakes, NEW u \in Updates,
         at[p][u] \notin {"none", "slot"}, Leaves(p, u), UNCHANGED loopVars, NoneAnew
  PROVE  LineInv'
<1>1. job \in [Intakes -> [Updates -> Jobs]]
  BY DEF Types
<1>2. /\ waiting[p] \in Seq({"attempt", "job"} \X Updates)
      /\ Queued(waiting[p], at[p])
  BY DEF LineInv, LineTypes, Good
<1> QED
  BY <1>1, <1>2, LeavesKeeps DEF Leaves, NoneAnew

\* The steps of an attempt.
LEMMA AttemptLines ==
  ASSUME LineInv, Types, NEW p \in Intakes, NEW u \in Updates, Attempt(p, u)
  PROVE  LineInv'
<1> USE DEF recordVars
<1>1. CASE WaitsForSlot(p, u)
  BY <1>1, WaitsKeeps
<1>2. CASE Turn(p, u)
  <2>1. /\ at[p][u] = "turn" \/ (at[p][u] = "joined" /\ First(p, u))
        /\ UNCHANGED <<record, loopVars>>
    BY <1>2 DEF Turn
  <2>2. NoneAnew
    BY <2>1, RecordsNoneAnew
  <2>3. CASE Leaves(p, u)
    BY <2>1, <2>2, <2>3, LeavesOnly
  <2>4. CASE Goes(p, u, "claim") /\ UNCHANGED <<line, mine, job, told, waiting, backlog>>
    BY <2>1, <2>2, <2>4, GoesKeeps
  <2> QED
    BY <1>2, <2>3, <2>4 DEF Turn
<1>3. CASE Claim(p, u)
  <2>1. /\ at[p][u] = "claim" /\ Claimed(u) /\ Goes(p, u, "handle")
        /\ backlog' = [backlog EXCEPT ![p] = @ \ {u}]
        /\ UNCHANGED <<loopVars, line, job, waiting>>
    BY <1>3 DEF Claim
  <2> QED
    BY <2>1, RecordsNoneAnew, GoesKeeps
<1>4. CASE NotClaimed(p, u)
  <2>1. /\ at[p][u] = "claim" /\ Leaves(p, u) /\ UNCHANGED loopVars
        /\ Abandoned(u) \/ UNCHANGED record
    BY <1>4 DEF NotClaimed
  <2> QED
    BY <2>1, RecordsNoneAnew, LeavesOnly
<1>5. CASE Settles(p, u)
  <2>1. /\ at[p][u] = "handle" /\ Leaves(p, u) /\ UNCHANGED loopVars
        /\ \/ Records(u, mine[p][u], "completed") \/ Records(u, mine[p][u], "failed")
           \/ UNCHANGED record
    BY <1>5 DEF Settles, Refused
  <2> QED
    BY <2>1, RecordsNoneAnew, LeavesOnly
<1>6. CASE Exhausts(p, u)
  <2>1. at[p][u] = "handle" /\ Records(u, mine[p][u], "exhausted") /\ UNCHANGED loopVars
    BY <1>6 DEF Exhausts
  <2>2. NoneAnew
    BY <2>1, RecordsNoneAnew
  <2>3. CASE Leaves(p, u)
    BY <2>1, <2>2, <2>3, LeavesOnly
  <2>4. CASE ~Leaves(p, u)
    <3>1. \/ LeavesTo(p, u, [job EXCEPT ![p][u] = "handle"], waiting[p])
          \/ LeavesTo(p, u, [job EXCEPT ![p][u] = "slot"],
                      Append(waiting[p], <<"job", u>>))
      BY <1>6, <2>4 DEF Exhausts
    <3>2. PICK place \in {"handle", "slot"} :
            \/ LeavesTo(p, u, [job EXCEPT ![p][u] = place], waiting[p])
            \/ LeavesTo(p, u, [job EXCEPT ![p][u] = place],
                        Append(waiting[p], <<"job", u>>))
      BY <3>1
    <3> DEFINE jobs == [job EXCEPT ![p][u] = place]
               longer == Append(waiting[p], <<"job", u>>)
    <3>3. /\ jobs \in [Intakes -> [Updates -> Jobs]]
          /\ \A q \in Intakes \ {p} : jobs[q] = job[q]
      BY DEF Types, Jobs
    <3>4. /\ waiting[p] \in Seq({"attempt", "job"} \X Updates)
          /\ Queued(waiting[p], at[p])
      BY DEF LineInv, LineTypes, Good
    <3>5. longer \in Seq({"attempt", "job"} \X Updates) /\ Queued(longer, at[p])
      BY <3>4, JobWaits
    <3>6. PICK queue \in {waiting[p], longer} : LeavesTo(p, u, jobs, queue)
      BY <3>2
    <3> HIDE DEF jobs, longer
    <3>7. queue \in Seq({"attempt", "job"} \X Updates) /\ Queued(queue, at[p])
      BY <3>4, <3>5, <3>6
    <3> QED
      BY <2>1, <2>2, <3>3, <3>6, <3>7, LeavesKeeps DEF NoneAnew
  <2> QED
    BY <2>3, <2>4
<1> QED
  BY <1>1, <1>2, <1>3, <1>4, <1>5, <1>6 DEF Attempt

\* A store that throws ends the attempt.
LEMMA StoreThrowsLines ==
  ASSUME LineInv, Types, NEW p \in Intakes, NEW u \in Updates, StoreThrows(p, u)
  PROVE  LineInv'
<1>1. /\ at[p][u] \in {"claim", "handle"} /\ Leaves(p, u) /\ UNCHANGED loopVars
      /\ \/ Claimed(u) \/ UNCHANGED record
         \/ \E end \in {"completed", "failed", "exhausted"} : Records(u, mine[p][u], end)
  BY DEF StoreThrows, recordVars
<1> QED
  BY <1>1, RecordsNoneAnew, LeavesOnly

\* The delivery of an exhausted update.
LEMMA DeliveryLines ==
  ASSUME LineInv, Types, NEW p \in Intakes, NEW u \in Updates, Delivery(p, u)
  PROVE  LineInv'
<1> USE DEF recordVars
<1>1. CASE JobHandled(p, u) /\ ~JobEnds(p, u)
  <2>1. /\ job[p][u] = "handle" /\ job' = [job EXCEPT ![p][u] = "acknowledge"]
        /\ UNCHANGED <<line, at, waiting, backlog, record, loopVars>>
    BY <1>1 DEF JobHandled
  <2>2. LineTypes /\ Good(p)
    BY DEF LineInv
  <2>3. LineTypes'
    BY <2>1, <2>2 DEF LineTypes, loopVars
  <2>4. Idle(p)'
    BY <2>1, <2>2 DEF Good, Idle, loopVars
  <2>5. Lined(line[p], at[p])' /\ Queued(waiting[p], at[p])' /\ Backed(p)'
    BY <2>1, <2>2 DEF Good, Backed, loopVars
  <2>6. Alone(p) /\ NoneAnew
    BY <2>1 DEF Alone, NoneAnew, loopVars, Types
  <2> QED
    BY <2>3, <2>4, <2>5, <2>6, AloneKeeps DEF Good
<1>2. CASE JobHandled(p, u) /\ JobEnds(p, u)
  <2>1. job[p][u] = "handle" /\ JobEnds(p, u) /\ UNCHANGED <<record, loopVars>>
    BY <1>2 DEF JobHandled
  <2> QED
    BY <2>1, RecordsNoneAnew, JobEndsKeeps
<1>3. CASE Acknowledges(p, u)
  <2>1. /\ job[p][u] = "acknowledge" /\ JobEnds(p, u) /\ UNCHANGED loopVars
        /\ UNCHANGED record \/ record' = [record EXCEPT ![u] = "acknowledged"]
    BY <1>3 DEF Acknowledges
  <2> QED
    BY <2>1, RecordsNoneAnew, JobEndsKeeps
<1> QED
  BY <1>1, <1>2, <1>3 DEF Delivery

\* What accept() records joins its line, or waits for the read of start().
LEMMA ArrivalLines ==
  ASSUME LineInv, Types, NEW p \in Intakes, NEW u \in Updates,
         Accept(p, u) \/ Arrives(p, u)
  PROVE  LineInv'
<1> USE DEF recordVars, workVars, loopVars
<1>0. LineTypes /\ Good(p)
  BY DEF LineInv
<1>1. CASE Accept(p, u)
  <2>1. /\ backlog' = [q \in Intakes |-> backlog[q] \ {u}]
        /\ record' = [record EXCEPT ![u] = "pending"]
        /\ UNCHANGED <<line, at, waiting, job, started, closing, starting, arrivals>>
    BY <1>1 DEF Accept
  <2>2. /\ backlog' \in [Intakes -> SUBSET Updates]
        /\ arrivals' \in [Intakes -> SUBSET Updates]
    BY <1>0, <2>1 DEF LineTypes
  <2>3. \A q \in Intakes : \A v \in backlog'[q] :
          v \in backlog[q] /\ (record'[v] = "pending" => record[v] = "pending")
    BY <1>0, <2>1 DEF LineTypes, Types
  <2> QED
    BY <2>1, <2>2, <2>3, QuietKeeps
<1>2. CASE Arrives(p, u) /\ starting[p].reads
  <2>1. /\ arrivals' = [arrivals EXCEPT ![p] = @ \cup {u}]
        /\ UNCHANGED <<record, line, at, waiting, job, started, closing, starting, backlog>>
    BY <1>2 DEF Arrives
  <2>2. /\ backlog' \in [Intakes -> SUBSET Updates]
        /\ arrivals' \in [Intakes -> SUBSET Updates]
    BY <1>0, <2>1 DEF LineTypes
  <2> QED
    BY <2>1, <2>2, QuietKeeps
<1>3. CASE Arrives(p, u) /\ ~starting[p].reads
  <2>1. /\ Join(p, {u})
        /\ UNCHANGED <<record, arrivals, waiting, job, started, closing, starting, backlog>>
    BY <1>3 DEF Arrives
  <2>2. NoneAnew
    BY <2>1, RecordsNoneAnew
  <2>3. /\ line' \in [Intakes -> Seq(Updates)] /\ at' \in [Intakes -> [Updates -> Places]]
        /\ Lined(line'[p], at'[p]) /\ Queued(waiting[p], at'[p])
        /\ \A q \in Intakes \ {p} : line'[q] = line[q] /\ at'[q] = at[q]
        /\ ~started[p] => at'[p] = at[p]
    BY <1>0, <2>1, JoinKeeps DEF Good
  <2>4. LineTypes'
    BY <1>0, <2>1, <2>3 DEF LineTypes
  <2>5. Backed(p)'
    <3>1. backlog'[p] = backlog[p] /\ UNCHANGED <<started, starting>>
      BY <2>1
    <3> QED
      BY <1>3, <2>1, <2>2, <3>1, JoinBacks
  <2>6. Idle(p)'
    BY <1>0, <2>1, <2>3 DEF Good, Idle
  <2>7. Alone(p)
    BY <2>1, <2>3 DEF Alone
  <2> QED
    BY <2>1, <2>2, <2>3, <2>4, <2>5, <2>6, <2>7, AloneKeeps DEF Good
<1> QED
  BY <1>1, <1>2, <1>3

\* start() and close().
LEMMA StartLines ==
  ASSUME LineInv, Types, NEW p \in Intakes, Start(p) \/ Close(p) \/ CloseReturns(p)
  PROVE  LineInv'
<1> USE DEF recordVars, workVars
<1>0. /\ LineTypes /\ Lined(line[p], at[p]) /\ Queued(waiting[p], at[p])
      /\ Idle(p) /\ Backed(p)
  BY DEF LineInv, Good
<1>1. UNCHANGED <<record, line, at, waiting, job, arrivals>>
  BY DEF Start, Close, CloseReturns
<1>2. NoneAnew
  BY <1>1 DEF NoneAnew
<1>3. CASE Start(p)
  <2>1. /\ started' = [started EXCEPT ![p] = TRUE]
        /\ closing' = [closing EXCEPT ![p] = "no"]
        /\ starting' = [starting EXCEPT ![p].reads = TRUE]
        /\ backlog' = [backlog EXCEPT ![p] =
                         IF line[p] = <<>> THEN {u \in Updates : record[u] = "pending"} ELSE {}]
        /\ ~starting[p].reads
    BY <1>3 DEF Start
  <2>2. starting[p] = NotStarting
    BY <1>0, <2>1 DEF Idle
  <2>3. /\ started'[p] /\ closing'[p] = "no"
        /\ starting'[p].reads /\ starting'[p].after = 0
    BY <1>0, <2>1, <2>2 DEF LineTypes, NotStarting
  <2>4. LineTypes'
    BY <1>0, <1>1, <2>1 DEF LineTypes
  <2>5. Idle(p)'
    BY <2>3 DEF Idle
  <2>6. Backed(p)'
    <3>1. backlog'[p] = IF line[p] = <<>> THEN {u \in Updates : record[u] = "pending"} ELSE {}
      BY <1>0, <2>1 DEF LineTypes
    <3>2. \A v \in Updates : v > 0
      BY UpdatesAssumption
    <3>3. line[p] = <<>> => ToSet(line[p]) = {}
      BY DEF ToSet
    <3> QED
      BY <1>1, <2>3, <3>1, <3>2, <3>3 DEF Backed
  <2>7. Alone(p)
    BY <1>0, <1>1, <2>1 DEF Alone, LineTypes
  <2> QED
    BY <1>0, <1>1, <1>2, <2>4, <2>5, <2>6, <2>7, AloneKeeps DEF Good
<1>4. CASE Close(p)
  <2>1. /\ started' = [started EXCEPT ![p] = FALSE]
        /\ closing' = [closing EXCEPT ![p] = "waits"]
        /\ backlog' = [backlog EXCEPT ![p] = {}]
        /\ UNCHANGED starting
    BY <1>4 DEF Close
  <2>2. ~started'[p] /\ closing'[p] = "waits" /\ backlog'[p] = {}
    BY <1>0, <2>1 DEF LineTypes
  <2>3. LineTypes'
    BY <1>0, <1>1, <2>1 DEF LineTypes
  <2>4. Idle(p)' /\ Backed(p)'
    BY <1>0, <2>1, <2>2 DEF Idle, Backed
  <2>5. Alone(p)
    BY <1>0, <1>1, <2>1 DEF Alone, LineTypes
  <2> QED
    BY <1>0, <1>1, <1>2, <2>3, <2>4, <2>5, AloneKeeps DEF Good
<1>5. CASE CloseReturns(p)
  <2>1. /\ closing[p] = "waits" /\ ~starting[p].reads /\ Drained(p)
        /\ closing' = [closing EXCEPT ![p] = "returned"]
        /\ UNCHANGED <<started, starting, backlog>>
    BY <1>5 DEF CloseReturns
  <2>2. LineTypes'
    BY <1>0, <1>1, <2>1 DEF LineTypes
  <2>3. Idle(p)'
    <3>1. \A u \in Updates : u \notin ToSet(line[p]) /\ job[p][u] = "none"
      BY <2>1 DEF Drained, ToSet
    <3>2. \A u \in Updates : at[p][u] = "none"
      BY <1>0, <3>1 DEF Lined
    <3> QED
      BY <1>0, <1>1, <2>1, <3>1, <3>2 DEF Idle
  <2>4. Backed(p)'
    BY <1>0, <1>1, <2>1 DEF Backed
  <2>5. Alone(p)
    BY <1>0, <1>1, <2>1 DEF Alone, LineTypes
  <2> QED
    BY <1>0, <1>1, <1>2, <2>2, <2>3, <2>4, <2>5, AloneKeeps DEF Good
<1> QED
  BY <1>3, <1>4, <1>5

\* The read of start().
LEMMA ReadsLines ==
  ASSUME LineInv, Types, NEW p \in Intakes, ReadsPage(p)
  PROVE  LineInv'
<1>0. /\ LineTypes /\ Lined(line[p], at[p]) /\ Queued(waiting[p], at[p])
      /\ Idle(p) /\ Backed(p)
  BY DEF LineInv, Good
<1> DEFINE after == Max(Due(p))
           rows == starting[p].rows \cup {u \in Due(p) : ~Has(p, u)}
<1>1. /\ starting' = [starting EXCEPT ![p].after = after, ![p].rows = rows]
      /\ UNCHANGED <<record, line, at, waiting, job, arrivals, started, closing, backlog>>
  BY <1>0 DEF ReadsPage, recordVars, workVars, LineTypes
<1>2. starting[p].reads /\ started[p] /\ Due(p) # {}
  BY DEF ReadsPage
<1>3. after \in Updates
  <2>1. Due(p) \in SUBSET Updates
    BY DEF Due
  <2>2. Due(p) \in SUBSET Nat /\ IsFiniteSet(Due(p))
    BY <2>1, UpdatesAssumption, FS_Subset
  <2> QED
    BY <1>2, <2>1, <2>2, MaxIs
<1>4. rows \in SUBSET Updates
  BY <1>0 DEF Due, LineTypes
<1>5. \A v \in Due(p) : ~Has(p, v) => v \in rows
  OBVIOUS
<1>6. \A v \in starting[p].rows : v \in rows
  OBVIOUS
<1> HIDE DEF after, rows
<1>7. /\ starting' \in [Intakes -> [reads : BOOLEAN, after : Updates \cup {0},
                                    rows : SUBSET Updates]]
      /\ starting'[p].reads /\ starting'[p].rows = rows
      /\ \A q \in Intakes \ {p} : starting'[q] = starting[q]
  BY <1>0, <1>1, <1>2, <1>3, <1>4 DEF LineTypes
<1>8. LineTypes'
  BY <1>0, <1>1, <1>7 DEF LineTypes
<1>9. Idle(p)'
  BY <1>0, <1>1, <1>2, <1>7 DEF Idle
<1>10. Backed(p)'
  <2> SUFFICES ASSUME NEW v \in backlog[p], record[v] = "pending", v \notin ToSet(line[p])
               PROVE  v \in rows
    BY <1>0, <1>1, <1>7 DEF Backed
  <2>1. v \in Updates /\ (v > starting[p].after \/ v \in starting[p].rows)
    BY <1>0, <1>2 DEF Backed, LineTypes
  <2>2. ASSUME v > starting[p].after PROVE v \in rows
    <3>1. v \in Due(p)
      BY <2>1, <2>2 DEF Due, DueNow, Claimable
    <3> QED
      BY <1>0, <1>5, <2>1, <3>1 DEF Has, Lined
  <2> QED
    BY <1>6, <2>1, <2>2
<1>11. Alone(p) /\ NoneAnew
  BY <1>1, <1>7 DEF Alone, NoneAnew
<1> QED
  BY <1>0, <1>1, <1>8, <1>9, <1>10, <1>11, AloneKeeps DEF Good

\* When start() has read all, what it has not read was not there.
LEMMA AllRead ==
  ASSUME NEW p \in Intakes, Due(p) = {}
  PROVE  \A v \in Updates : record[v] = "pending"
           /\ (v > starting[p].after \/ v \in starting[p].rows)
             => v \in starting[p].rows \cup arrivals[p]
BY DEF Due, DueNow, Claimable

\* Steps that let updates join their lines: the end of start(), and a sweep.
LEMMA SweepLines ==
  ASSUME LineInv, Types, NEW p \in Intakes, StartEnds(p) \/ Sweeps(p)
  PROVE  LineInv'
<1>0. /\ LineTypes /\ Lined(line[p], at[p]) /\ Queued(waiting[p], at[p])
      /\ Idle(p) /\ Backed(p)
  BY DEF LineInv, Good
<1>1. Deliver(p) /\ Prune /\ UNCHANGED <<started, closing>>
  BY DEF StartEnds, Sweeps
<1>2. /\ arrivals' \in [Intakes -> SUBSET Updates]
      /\ starting' \in [Intakes -> [reads : BOOLEAN, after : Updates \cup {0},
                                    rows : SUBSET Updates]]
      /\ starting'[p] = starting[p] \/ starting'[p] = NotStarting
      /\ \A q \in Intakes \ {p} : starting'[q] = starting[q]
  <2>1. CASE StartEnds(p)
    <3>1. /\ starting' = [starting EXCEPT ![p] = NotStarting]
          /\ arrivals' = [arrivals EXCEPT ![p] = {}]
      BY <2>1 DEF StartEnds, Started
    <3> QED
      BY <1>0, <3>1 DEF LineTypes, NotStarting
  <2>2. CASE Sweeps(p)
    BY <1>0, <2>2 DEF Sweeps, LineTypes
  <2> QED
    BY <2>1, <2>2
<1>3. PICK new \in SUBSET Updates :
        /\ Join(p, new)
        /\ backlog' \in [Intakes -> SUBSET Updates] /\ backlog'[p] \subseteq backlog[p]
        /\ \A q \in Intakes \ {p} : backlog'[q] = backlog[q]
        /\ \A v \in backlog'[p] :
             /\ started[p] /\ record[v] = "pending" /\ v \notin new
             /\ v \notin ToSet(line[p])
             /\ starting[p].reads /\ (v > starting[p].after \/ v \in starting[p].rows)
             => /\ \A u \in new \ ToSet(line[p]) : ChatOf[u] = ChatOf[v] => u < v
                /\ UNCHANGED starting
  <2>1. CASE StartEnds(p)
    <3>1. starting[p].rows \cup arrivals[p] \in SUBSET Updates
      BY <1>0 DEF LineTypes
    <3>2. \A v \in Updates : record[v] = "pending"
            /\ (v > starting[p].after \/ v \in starting[p].rows)
              => v \in starting[p].rows \cup arrivals[p]
      BY <2>1, AllRead DEF StartEnds
    <3>3. Join(p, starting[p].rows \cup arrivals[p]) /\ UNCHANGED backlog
      BY <2>1 DEF StartEnds
    <3> QED
      BY <1>0, <3>1, <3>2, <3>3 DEF LineTypes
  <2>2. CASE Sweeps(p)
    <3> DEFINE ripened == {u \in Updates : DueNow(u, FALSE)}
               kept == backlog[p] \ Overtaken(p, ripened)
    <3>1. /\ ripened \in SUBSET Updates /\ Join(p, ripened) /\ UNCHANGED starting
          /\ backlog' = [backlog EXCEPT ![p] = kept]
      BY <1>0, <2>2 DEF Sweeps, LineTypes
    <3>2. \A v \in kept :
            v \notin ripened /\ v \notin ToSet(line[p]) /\ starting[p].reads =>
              \A u \in ripened \ ToSet(line[p]) : ChatOf[u] = ChatOf[v] => u < v
      <4> SUFFICES ASSUME NEW v \in kept, v \notin ripened, v \notin ToSet(line[p]),
                          starting[p].reads, NEW u \in ripened \ ToSet(line[p]),
                          ChatOf[u] = ChatOf[v]
                   PROVE  u < v
        OBVIOUS
      <4>1. u \in Updates /\ v \in Updates /\ v \in backlog[p] /\ v \notin Overtaken(p, ripened)
        BY <1>0 DEF LineTypes
      <4>2. ~Has(p, v) /\ ~Has(p, u)
        BY <1>0, <4>1 DEF Has, Lined
      <4>3. u \in ripened /\ u # v
        OBVIOUS
      <4> HIDE DEF ripened, kept
      <4>4. ~(v < u)
        BY <4>1, <4>2, <4>3 DEF Overtaken
      <4> QED
        BY <4>1, <4>3, <4>4, UpdatesAssumption
    <3>3. kept \subseteq backlog[p]
      OBVIOUS
    <3> HIDE DEF ripened, kept
    <3>4. /\ backlog' \in [Intakes -> SUBSET Updates] /\ backlog'[p] = kept
          /\ \A q \in Intakes \ {p} : backlog'[q] = backlog[q]
      BY <1>0, <3>1, <3>3 DEF LineTypes
    <3> QED
      BY <3>1, <3>2, <3>3, <3>4
  <2> QED
    BY <2>1, <2>2
<1>4. NoneAnew
  BY <1>1 DEF NoneAnew, Prune
<1>5. /\ line' \in [Intakes -> Seq(Updates)] /\ at' \in [Intakes -> [Updates -> Places]]
      /\ Lined(line'[p], at'[p]) /\ Queued(waiting[p], at'[p])
      /\ \A q \in Intakes \ {p} : line'[q] = line[q] /\ at'[q] = at[q]
      /\ ~started[p] => at'[p] = at[p]
  BY <1>0, <1>3, JoinKeeps
<1>6. /\ waiting' \in [Intakes -> Seq({"attempt", "job"} \X Updates)]
      /\ Queued(waiting'[p], at'[p])
      /\ \A q \in Intakes \ {p} : job'[q] = job[q] /\ waiting'[q] = waiting[q]
  <2>1. waiting \in [Intakes -> Seq({"attempt", "job"} \X Updates)]
    BY <1>0 DEF LineTypes
  <2>2. /\ waiting' \in [Intakes -> Seq({"attempt", "job"} \X Updates)]
        /\ \A places : Queued(waiting[p], places) => Queued(waiting'[p], places)
        /\ \A q \in Intakes \ {p} : job'[q] = job[q] /\ waiting'[q] = waiting[q]
    BY <1>0, <1>1, <2>1, DeliverKeeps
  <2> QED
    BY <1>5, <2>2
<1>7. LineTypes'
  BY <1>0, <1>1, <1>2, <1>3, <1>5, <1>6 DEF LineTypes
<1>8. Backed(p)'
  BY <1>1, <1>3, <1>4, JoinBacks
<1>9. Idle(p)'
  <2>1. ~started[p] => at'[p] = at[p] /\ job' = job
    BY <1>1, <1>5 DEF Deliver
  <2> QED
    BY <1>0, <1>1, <1>2, <2>1 DEF Idle, NotStarting
<1>10. Alone(p)
  BY <1>1, <1>2, <1>3, <1>5, <1>6 DEF Alone
<1> QED
  BY <1>4, <1>5, <1>6, <1>7, <1>8, <1>9, <1>10, AloneKeeps DEF Good

\* A start() that did not start, after its rows have joined or before.
LEMMA BreaksLines ==
  ASSUME LineInv, Types, NEW p \in Intakes, StartBreaks(p)
  PROVE  LineInv'
<1>0. /\ LineTypes /\ Lined(line[p], at[p]) /\ Queued(waiting[p], at[p])
      /\ Idle(p) /\ Backed(p)
  BY DEF LineInv, Good
<1>1. /\ starting[p].reads
      /\ started' = [started EXCEPT ![p] = FALSE]
      /\ arrivals' = [arrivals EXCEPT ![p] = {}]
      /\ starting' = [starting EXCEPT ![p] = NotStarting]
      /\ UNCHANGED <<record, closing, job, waiting, backlog>>
  BY DEF StartBreaks, Started, recordVars
<1>2. /\ ~started'[p] /\ starting'[p] = NotStarting
      /\ started' \in [Intakes -> BOOLEAN]
      /\ starting' \in [Intakes -> [reads : BOOLEAN, after : Updates \cup {0},
                                    rows : SUBSET Updates]]
      /\ arrivals' \in [Intakes -> SUBSET Updates]
  BY <1>0, <1>1 DEF LineTypes, NotStarting
<1>3. NoneAnew
  BY <1>1 DEF NoneAnew
<1>4. closing[p] # "returned"
  BY <1>0, <1>1 DEF Idle
<1>5. Idle(p)'
  BY <1>1, <1>2, <1>4 DEF Idle
<1>6. CASE UNCHANGED <<line, at>>
  <2>1. LineTypes'
    BY <1>0, <1>1, <1>2, <1>6 DEF LineTypes
  <2>2. Backed(p)'
    BY <1>0, <1>1, <1>2, <1>6 DEF Backed
  <2>3. Alone(p)
    BY <1>0, <1>1, <1>6 DEF Alone, LineTypes
  <2> QED
    BY <1>0, <1>1, <1>3, <1>5, <1>6, <2>1, <2>2, <2>3, AloneKeeps DEF Good
<1>7. CASE Due(p) = {} /\ Join(p, starting[p].rows \cup arrivals[p])
  <2> DEFINE new == starting[p].rows \cup arrivals[p]
  <2>1. new \in SUBSET Updates /\ Join(p, new)
    BY <1>0, <1>7 DEF LineTypes
  <2>2. \A v \in Updates : record[v] = "pending"
          /\ (v > starting[p].after \/ v \in starting[p].rows) => v \in new
    BY <1>7, AllRead
  <2> HIDE DEF new
  <2>3. /\ line' \in [Intakes -> Seq(Updates)] /\ at' \in [Intakes -> [Updates -> Places]]
        /\ Lined(line'[p], at'[p]) /\ Queued(waiting[p], at'[p])
        /\ \A q \in Intakes \ {p} : line'[q] = line[q] /\ at'[q] = at[q]
    BY <1>0, <2>1, JoinKeeps
  <2>4. LineTypes'
    BY <1>0, <1>1, <1>2, <2>3 DEF LineTypes
  <2>5. Backed(p)'
    <3>1. backlog'[p] = backlog[p] /\ backlog[p] \in SUBSET Updates
      BY <1>0, <1>1 DEF LineTypes
    <3> QED
      BY <1>1, <1>2, <1>3, <2>1, <2>2, <3>1, JoinBacks
  <2>6. Alone(p)
    BY <1>0, <1>1, <2>3 DEF Alone, LineTypes
  <2> QED
    BY <1>1, <1>3, <1>5, <2>3, <2>4, <2>5, <2>6, AloneKeeps DEF Good
<1> QED
  BY <1>6, <1>7 DEF StartBreaks

\* The death of a process.
LEMMA CrashLines ==
  ASSUME LineInv, Types, NEW p \in Intakes, Crash(p)
  PROVE  LineInv'
<1>0. LineTypes
  BY DEF LineInv
<1>1. /\ started' = [started EXCEPT ![p] = FALSE]
      /\ closing' = [closing EXCEPT ![p] = "no"]
      /\ starting' = [starting EXCEPT ![p] = NotStarting]
      /\ arrivals' = [arrivals EXCEPT ![p] = {}]
      /\ line' = [line EXCEPT ![p] = <<>>]
      /\ at' = [at EXCEPT ![p] = [u \in Updates |-> "none"]]
      /\ job' = [job EXCEPT ![p] = [u \in Updates |-> "none"]]
      /\ waiting' = [waiting EXCEPT ![p] = <<>>]
      /\ backlog' = [backlog EXCEPT ![p] = {}]
      /\ UNCHANGED record
  BY DEF Crash, Started, recordVars
<1>2. LineTypes'
  BY <1>0, <1>1 DEF LineTypes, NotStarting, Places
<1>3. /\ line'[p] = <<>> /\ at'[p] = [u \in Updates |-> "none"] /\ waiting'[p] = <<>>
      /\ closing'[p] = "no" /\ starting'[p] = NotStarting /\ backlog'[p] = {}
  BY <1>0, <1>1 DEF LineTypes
<1>4. Lined(line'[p], at'[p]) /\ Queued(waiting'[p], at'[p])
  BY <1>3 DEF Lined, Queued, Ahead, ToSet
<1>5. Idle(p)' /\ Backed(p)'
  BY <1>3 DEF Idle, Backed
<1>6. Alone(p) /\ NoneAnew
  BY <1>0, <1>1 DEF Alone, NoneAnew, LineTypes, Types
<1> QED
  BY <1>2, <1>4, <1>5, <1>6, AloneKeeps DEF Good

\* Every step preserves the invariant of the lines.
LEMMA NextLines == LineInv /\ UInv /\ [UpdatesNext]_updateVars => LineInv'
<1> SUFFICES ASSUME LineInv, Types, [UpdatesNext]_updateVars PROVE LineInv'
  BY DEF UInv
<1>0. LineTypes
  BY DEF LineInv
<1>1. ASSUME UNCHANGED <<record, line, at, waiting, job, loopVars, backlog>> PROVE LineInv'
  BY <1>0, <1>1, QuietKeeps DEF LineTypes, loopVars
<1>2. CASE UNCHANGED updateVars
  BY <1>1, <1>2 DEF updateVars, recordVars, workVars
<1>3. ASSUME NEW u \in Updates, Ripens(u) PROVE LineInv'
  BY <1>1, <1>3 DEF Ripens, workVars
<1> QED
  BY <1>2, <1>3, AttemptLines, StoreThrowsLines, DeliveryLines, ArrivalLines, StartLines,
     ReadsLines, SweepLines, BreaksLines, CrashLines
  DEF UpdatesNext, Starting, Sweep, Interval

-------------------------------------------------------------------------------
\* Of two updates of one line, one stands before the other.
LEMMA InALine ==
  ASSUME NEW l \in Seq(Updates), NEW u \in ToSet(l), NEW v \in ToSet(l), u # v
  PROVE  Ahead(l, u, v) \/ Ahead(l, v, u)
<1>1. Len(l) \in Nat /\ DOMAIN l = 1 .. Len(l)
  BY ElementIs
<1>2. PICK i, j \in 1 .. Len(l) : l[i] = u /\ l[j] = v
  BY ElementIs
<1>3. i < j \/ j < i
  BY <1>1, <1>2
<1> QED
  BY <1>1, <1>2, <1>3 DEF Ahead

\* At a claim, what others left pending of the chat before it has had its turn.
LEMMA ClaimsInOrder ==
  ASSUME LineInv, NEW p \in Intakes, NEW u \in Updates, at[p][u] = "claim",
         NEW v \in backlog[p], ChatOf[v] = ChatOf[u], v < u
  PROVE  record[v] # "pending"
<1> SUFFICES ASSUME record[v] = "pending" PROVE FALSE
  OBVIOUS
<1>1. /\ line[p] \in Seq(Updates) /\ v \in Updates /\ u \in Nat /\ v \in Nat
      /\ Lined(line[p], at[p]) /\ Backed(p)
  BY UpdatesAssumption DEF LineInv, LineTypes, Good
<1>2. u \in ToSet(line[p])
  BY <1>1 DEF Lined
<1>3. ~(u < v)
  BY <1>1
<1>4. /\ v \in ToSet(line[p])
      /\ \A w \in Updates : Ahead(line[p], w, v) /\ ChatOf[w] = ChatOf[v] => w < v
  BY <1>1, <1>2, <1>3 DEF Backed
<1>5. CASE Ahead(line[p], u, v)
  BY <1>1, <1>4, <1>5
<1>6. CASE Ahead(line[p], v, u)
  BY <1>1, <1>6 DEF Lined
<1>7. u # v
  BY <1>1
<1> QED
  BY <1>1, <1>2, <1>4, <1>5, <1>6, <1>7, InALine

\* Updates of one chat run one after another in an intake: none is attempted, or waits
\* for a slot, while another one of its chat is (update-intake-work.ts).
THEOREM ChatsRunInTurn == UpdatesSpec => []OneOfAChat
<1>1. LineInv => OneOfAChat
  <2> SUFFICES ASSUME LineInv, NEW p \in Intakes, NEW u \in Updates, NEW v \in Updates,
                      at[p][u] \notin {"none", "joined"}, at[p][v] \notin {"none", "joined"},
                      ChatOf[u] = ChatOf[v], u # v
               PROVE  FALSE
    BY DEF OneOfAChat
  <2>1. Lined(line[p], at[p]) /\ line[p] \in Seq(Updates)
    BY DEF LineInv, LineTypes, Good
  <2>2. u \in ToSet(line[p]) /\ v \in ToSet(line[p])
    BY <2>1 DEF Lined
  <2> QED
    BY <2>1, <2>2, InALine DEF Lined
<1> QED
  BY <1>1, InitUInv, NextUInv, InitLines, NextLines, PTL DEF UpdatesSpec

\* An intake that close() has left does nothing until the next start()
\* (update-intake.ts, close).
THEOREM ClosedDoesNothing == UpdatesSpec => []ClosedIsIdle
<1>1. LineInv => ClosedIsIdle
  BY DEF LineInv, Good, Idle, ClosedIsIdle
<1> QED
  BY <1>1, InitUInv, NextUInv, InitLines, NextLines, PTL DEF UpdatesSpec

\* What a dead process left pending goes before what arrived since in its chat, for
\* any number of pages, updates and failed starts, but for what a sweep() called while
\* start() reads put before it (update-intake.ts, start and sweep).
THEOREM OthersLeftGoFirst == UpdatesSpec => BacklogFirst
<1> DEFINE Keeps ==
      \A p \in Intakes : \A u \in Updates :
        at[p][u] = "claim" /\ at'[p][u] = "handle" =>
          \A v \in backlog[p] :
            ChatOf[v] = ChatOf[u] /\ v < u => record[v] # "pending"
<1>1. LineInv => [Keeps]_updateVars
  BY ClaimsInOrder
<1> HIDE DEF Keeps
<1>2. UpdatesSpec => []LineInv
  BY InitUInv, NextUInv, InitLines, NextLines, PTL DEF UpdatesSpec
<1>3. UpdatesSpec => [][Keeps]_updateVars
  BY <1>1, <1>2, PTL
<1> QED
  BY <1>3 DEF BacklogFirst, Keeps

===============================================================================
