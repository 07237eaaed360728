------------------------- MODULE AgentRunStoreProofs -------------------------
(***************************************************************************)
(* Proofs about AgentRunStore, for every set of runs, keys, lanes, labels  *)
(* and stamps and every bound on the head version.                         *)
(***************************************************************************)
EXTENDS AgentRunStore, TLAPS

-----------------------------------------------------------------------------
(* What a terminal commit may absorb *)

\* Absorbed runs are queued runs other than the one that commits.
LEMMA AbsorbsOthers ==
  ASSUME NEW r \in Runs, NEW claim \in Claims(r)
  PROVE  /\ Absorbable(claim) \subseteq Runs \ {r}
         /\ \A c \in Absorbable(claim) : state[c] = "queued"
BY DEF Claims, Absorbable

-----------------------------------------------------------------------------
(* Typing *)

\* The record every operation writes for a run is a run record, a lease names
\* a run, and the head version stays within its bound.
LEMMA TypesStay == TypeOK /\ [Next]_vars => TypeOK'
<1> USE StoreAssumption
<1> SUFFICES ASSUME TypeOK, [Next]_vars PROVE TypeOK'
  OBVIOUS
<1> USE DEF TypeOK, RunStates, Active, Acquired, Applied
<1>1. ASSUME NEW k \in Keys, NEW r \in Runs, NEW priority \in BOOLEAN,
             NEW created \in Stamps, Accept(k, r, priority, created)
      PROVE  TypeOK'
  BY <1>1 DEF Accept, Admissions, leaseVars
<1>2. ASSUME NEW k \in Keys, NEW r \in Runs, Coalesce(k, r)
      PROVE  TypeOK'
  BY <1>2 DEF Coalesce, Writes, leaseVars
<1>3. ASSUME NEW r \in Runs, Interrupt(r, revision[r])
      PROVE  TypeOK'
  BY <1>3 DEF Interrupt, Writes, acceptVars, leaseVars
<1>4. ASSUME NEW r \in Runs, NEW next \in {"queued", "abandoned"},
             Recover(r, revision[r], next)
      PROVE  TypeOK'
  BY <1>4 DEF Recover, Writes, acceptVars, Terminal
<1>5. ASSUME NEW p \in Lanes, NEW r \in Runs, Acquire(p, r, revision[r])
      PROVE  TypeOK'
  BY <1>5 DEF Acquire, Writes, acceptVars
<1>6. ASSUME NEW p \in Lanes, NEW r \in Runs, Checkpoint(p, r, revision[r])
      PROVE  TypeOK'
  BY <1>6 DEF Checkpoint, Writes, acceptVars, leaseVars
<1>7. ASSUME NEW p \in Lanes, NEW r \in Runs, Operation(p, r, revision[r])
      PROVE  TypeOK'
  BY <1>7 DEF Operation, Writes, acceptVars, leaseVars
<1>8. ASSUME NEW p \in Lanes, NEW r \in Runs, NEW outcome \in Outcomes,
             NEW claim \in Claims(r), Finish(p, r, revision[r], outcome, claim)
      PROVE  TypeOK'
  <2> DEFINE absorbed == Absorbable(claim)
  <2>1. absorbed \subseteq Runs
    BY AbsorbsOthers
  <2> HIDE DEF absorbed
  <2>2. UNION {inputs[c] : c \in absorbed} \subseteq Keys
    BY <2>1
  <2>3. /\ state' = [c \in Runs |-> IF c = r THEN outcome
                         ELSE IF c \in absorbed THEN "superseded" ELSE state[c]]
        /\ into' = [c \in Runs |-> IF c \in absorbed THEN r ELSE into[c]]
        /\ inputs' = [inputs EXCEPT
                        ![r] = @ \cup UNION {inputs[c] : c \in absorbed}]
        /\ answer' = [answer EXCEPT ![r] = lease[p].token]
        /\ version' \in 0 .. MaxVersion
        /\ UNCHANGED <<acceptVars, leaseVars>>
    BY <1>8 DEF Finish, absorbed
  <2>4. revision' \in [Runs -> Nat]
    BY <1>8 DEF Finish
  <2>5. state' \in [Runs -> RunStates]
    BY <2>3 DEF Terminal, Outcomes
  <2> QED
    BY <2>2, <2>3, <2>4, <2>5 DEF acceptVars, leaseVars
<1>9. CASE UNCHANGED vars
  BY <1>9 DEF vars, acceptVars, leaseVars
<1> QED
  BY <1>1, <1>2, <1>3, <1>4, <1>5, <1>6, <1>7, <1>8, <1>9
     DEF Next, Admission, Control, Execution, Requeue, Abandon

\* The store's records are well typed, for every bound on its head version.
THEOREM TypeCorrect == Spec => []TypeOK
<1>1. Init => TypeOK
  BY StoreAssumption DEF Init, TypeOK, RunStates, Admissions
<1> QED
  BY <1>1, TypesStay, PTL DEF Spec

-----------------------------------------------------------------------------
(* Bookkeeping *)

\* The facts about records and leases that the invariants below rest on.
THEOREM Kept == Spec => []Bookkeeping
<1> USE StoreAssumption
<1>1. Init => Bookkeeping
  BY DEF Init, Bookkeeping
<1>2. TypeOK /\ Bookkeeping /\ [Next]_vars => Bookkeeping'
  <2> SUFFICES ASSUME TypeOK, Bookkeeping, [Next]_vars PROVE Bookkeeping'
    OBVIOUS
  <2> USE DEF TypeOK, Bookkeeping, Applied
  <2>1. ASSUME NEW k \in Keys, NEW r \in Runs, NEW priority \in BOOLEAN,
               NEW created \in Stamps, Accept(k, r, priority, created)
        PROVE  Bookkeeping'
    BY <2>1 DEF Accept, Admissions, leaseVars
  <2>2. ASSUME NEW k \in Keys, NEW r \in Runs, Coalesce(k, r)
        PROVE  Bookkeeping'
    BY <2>2 DEF Coalesce, Fresh, Joinable, Writes, leaseVars, Admissions
  <2>3. ASSUME NEW r \in Runs, Interrupt(r, revision[r])
        PROVE  Bookkeeping'
    BY <2>3 DEF Interrupt, Writes, acceptVars, leaseVars, Admissions
  <2>4. ASSUME NEW r \in Runs, NEW next \in {"queued", "abandoned"},
               Recover(r, revision[r], next)
        PROVE  Bookkeeping'
    BY <2>4 DEF Recover, Writes, acceptVars, Active, Acquired, Admissions
  <2>5. ASSUME NEW p \in Lanes, NEW r \in Runs, Acquire(p, r, revision[r])
        PROVE  Bookkeeping'
    BY <2>5 DEF Acquire, Writes, acceptVars, Admissions
  <2>6. ASSUME NEW p \in Lanes, NEW r \in Runs,
               Checkpoint(p, r, revision[r]) \/ Operation(p, r, revision[r])
        PROVE  Bookkeeping'
    BY <2>6 DEF Checkpoint, Operation, Writes, acceptVars, leaseVars, Admissions
  <2>7. ASSUME NEW p \in Lanes, NEW r \in Runs, NEW outcome \in Outcomes,
               NEW claim \in Claims(r), Finish(p, r, revision[r], outcome, claim)
        PROVE  Bookkeeping'
    <3> DEFINE absorbed == Absorbable(claim)
    <3>1. absorbed \subseteq Runs \ {r} /\ \A c \in absorbed : state[c] = "queued"
      BY AbsorbsOthers
    <3> HIDE DEF absorbed
    <3>2. /\ state[r] \in Acquired
          /\ state' = [c \in Runs |-> IF c = r THEN outcome
                         ELSE IF c \in absorbed THEN "superseded" ELSE state[c]]
          /\ into' = [c \in Runs |-> IF c \in absorbed THEN r ELSE into[c]]
          /\ inputs' = [inputs EXCEPT
                          ![r] = @ \cup UNION {inputs[c] : c \in absorbed}]
          /\ version' = version + 1
          /\ UNCHANGED <<admission, seq, token, lease>>
      BY <2>7 DEF Finish, absorbed, acceptVars, leaseVars
    <3>3. into[r] = None /\ outcome # "absent"
      BY <3>2 DEF Acquired, Outcomes
    <3> QED
      BY <3>1, <3>2, <3>3 DEF Admissions
  <2>8. CASE UNCHANGED vars
    BY <2>8 DEF vars, acceptVars, leaseVars
  <2> QED
    BY <2>1, <2>2, <2>3, <2>4, <2>5, <2>6, <2>7, <2>8
       DEF Next, Admission, Control, Execution, Requeue, Abandon
<1> QED
  BY <1>1, <1>2, TypeCorrect, PTL DEF Spec

-----------------------------------------------------------------------------
(* One open turn *)

\* A queued run is not acquired while another turn is open: an acquired run
\* blocks it, and a requeued one is ordered before everything never started.
LEMMA OpenTurnBlocks ==
  ASSUME TypeOK, OneOpenTurn, NEW r \in Runs, NEW c \in Runs, c # r,
         state[r] = "queued", Open(c)
  PROVE  Blocks(c, r)
<1>1. CASE state[c] \in Acquired
  BY <1>1 DEF Blocks
<1>2. CASE state[c] = "queued"
  <2>1. seq[r] = 0
    BY DEF OneOpenTurn, Open, Active
  <2>2. Started(c) /\ ~Started(r)
    BY <2>1 DEF Started, Open
  <2> QED
    BY <1>2, <2>1, <2>2 DEF Blocks, Before
<1> QED
  BY <1>1, <1>2 DEF Open, Active

\* At most one turn of the conversation is open, so at most one executor holds
\* a run of it, whatever the callers do and however often a run is requeued.
THEOREM OneTurn == Spec => []OneOpenTurn
<1> USE StoreAssumption
<1>1. Init => OneOpenTurn
  BY DEF Init, OneOpenTurn, Open, Active, Acquired
<1>2. TypeOK /\ Bookkeeping /\ OneOpenTurn /\ [Next]_vars => OneOpenTurn'
  <2> SUFFICES ASSUME TypeOK, Bookkeeping, OneOpenTurn, [Next]_vars PROVE OneOpenTurn'
    OBVIOUS
  <2> USE DEF TypeOK, OneOpenTurn, Open, Active, Acquired
  <2>1. ASSUME NEW k \in Keys, NEW r \in Runs, NEW priority \in BOOLEAN,
               NEW created \in Stamps, Accept(k, r, priority, created)
        PROVE  OneOpenTurn'
    <3>1. seq[r] = 0
      BY <2>1 DEF Accept, Bookkeeping
    <3> QED
      BY <2>1, <3>1 DEF Accept, leaseVars
  <2>2. ASSUME NEW k \in Keys, NEW r \in Runs, Coalesce(k, r)
        PROVE  OneOpenTurn'
    BY <2>2 DEF Coalesce, leaseVars
  <2>3. ASSUME NEW r \in Runs, Interrupt(r, revision[r])
        PROVE  OneOpenTurn'
    BY <2>3 DEF Interrupt, leaseVars
  <2>4. ASSUME NEW r \in Runs, NEW next \in {"queued", "abandoned"},
               Recover(r, revision[r], next)
        PROVE  OneOpenTurn'
    BY <2>4 DEF Recover
  <2>5. ASSUME NEW p \in Lanes, NEW r \in Runs, Acquire(p, r, revision[r])
        PROVE  OneOpenTurn'
    <3>1. \A c \in Runs : c # r => ~Open(c)
      BY <2>5, OpenTurnBlocks DEF Acquire
    <3>2. /\ state' = [state EXCEPT ![r] = "running"]
          /\ seq' = [seq EXCEPT ![r] = IF seq[r] = 0 THEN version + 1 ELSE seq[r]]
      BY <2>5 DEF Acquire
    <3> QED
      BY <3>1, <3>2
  <2>6. ASSUME NEW p \in Lanes, NEW r \in Runs,
               Checkpoint(p, r, revision[r]) \/ Operation(p, r, revision[r])
        PROVE  OneOpenTurn'
    BY <2>6 DEF Checkpoint, Operation, leaseVars
  <2>7. ASSUME NEW p \in Lanes, NEW r \in Runs, NEW outcome \in Outcomes,
               NEW claim \in Claims(r), Finish(p, r, revision[r], outcome, claim)
        PROVE  OneOpenTurn'
    <3>1. /\ state' = [c \in Runs |-> IF c = r THEN outcome
                         ELSE IF c \in Absorbable(claim) THEN "superseded" ELSE state[c]]
          /\ UNCHANGED seq
      BY <2>7 DEF Finish, leaseVars
    <3>2. outcome \notin {"running", "interrupt_requested", "queued"}
      BY DEF Outcomes
    <3> QED
      BY <3>1, <3>2
  <2>8. CASE UNCHANGED vars
    BY <2>8 DEF vars, leaseVars
  <2> QED
    BY <2>1, <2>2, <2>3, <2>4, <2>5, <2>6, <2>7, <2>8
       DEF Next, Admission, Control, Execution, Requeue, Abandon
<1> QED
  BY <1>1, <1>2, TypeCorrect, Kept, PTL DEF Spec

-----------------------------------------------------------------------------
(* Leases and fencing *)

\* No lease is ever granted to two lanes, across requeues and reused labels.
THEOREM NoLeaseTwice == Spec => []LeasesDiffer
<1> USE StoreAssumption
<1>1. Init => LeasesDiffer
  BY DEF Init, LeasesDiffer
<1>2. TypeOK /\ Bookkeeping /\ LeasesDiffer /\ [Next]_vars => LeasesDiffer'
  <2> SUFFICES ASSUME TypeOK, Bookkeeping, LeasesDiffer, [Next]_vars
               PROVE  LeasesDiffer'
    OBVIOUS
  <2>1. CASE UNCHANGED lease
    BY <2>1 DEF LeasesDiffer
  <2>2. ASSUME NEW p \in Lanes, NEW r \in Runs, Acquire(p, r, revision[r])
        PROVE  LeasesDiffer'
    <3>1. lease' = [lease EXCEPT ![p] = [run |-> r, token |-> token[r] + 1]]
      BY <2>2 DEF Acquire
    <3>2. \A q \in Lanes : lease[q].run = r => lease[q].token # token[r] + 1
      BY DEF Bookkeeping, TypeOK
    <3> QED
      BY <3>1, <3>2 DEF LeasesDiffer, TypeOK
  <2> QED
    BY <2>1, <2>2
       DEF Next, Admission, Control, Execution, Accept, Coalesce, Interrupt, Requeue,
           Abandon, Recover, Checkpoint, Operation, Finish, vars, leaseVars
<1> QED
  BY <1>1, <1>2, TypeCorrect, Kept, PTL DEF Spec

\* Whatever a lane writes it writes under the newest lease of the run.
THEOREM Fenced == Spec => FencedAnswers
<1> USE StoreAssumption
<1> DEFINE Fence(r) ==
      /\ answer'[r] # answer[r] => answer'[r] = token[r]
      /\ state[r] \in Active /\ state'[r] \in Outcomes /\ into'[r] = None
           => answer'[r] = token[r]
<1>1. TypeOK /\ Next => \A r \in Runs : Fence(r)
  <2> SUFFICES ASSUME TypeOK, Next, NEW r \in Runs PROVE Fence(r)
    OBVIOUS
  <2> USE DEF TypeOK, Outcomes
  <2>1. ASSUME NEW k \in Keys, NEW s \in Runs, NEW priority \in BOOLEAN,
               NEW created \in Stamps, Accept(k, s, priority, created)
        PROVE  Fence(r)
    BY <2>1 DEF Accept, Active, Acquired
  <2>2. ASSUME NEW k \in Keys, NEW s \in Runs, Coalesce(k, s)
        PROVE  Fence(r)
    BY <2>2 DEF Coalesce, Active, Acquired
  <2>3. ASSUME NEW s \in Runs, Interrupt(s, revision[s])
        PROVE  Fence(r)
    BY <2>3 DEF Interrupt, Active, Acquired
  <2>4. ASSUME NEW s \in Runs, NEW next \in {"queued", "abandoned"},
               Recover(s, revision[s], next)
        PROVE  Fence(r)
    BY <2>4 DEF Recover, Active, Acquired
  <2>5. ASSUME NEW p \in Lanes, NEW s \in Runs, Acquire(p, s, revision[s])
        PROVE  Fence(r)
    BY <2>5 DEF Acquire, Active, Acquired
  <2>6. ASSUME NEW p \in Lanes, NEW s \in Runs,
               Checkpoint(p, s, revision[s]) \/ Operation(p, s, revision[s])
        PROVE  Fence(r)
    BY <2>6 DEF Checkpoint, Operation, HoldsLease, Active, Acquired
  <2>7. ASSUME NEW p \in Lanes, NEW s \in Runs, NEW outcome \in Outcomes,
               NEW claim \in Claims(s), Finish(p, s, revision[s], outcome, claim)
        PROVE  Fence(r)
    <3>1. /\ token[s] = lease[p].token
          /\ answer' = [answer EXCEPT ![s] = lease[p].token]
          /\ r # s => state'[r] = state[r] \/ into'[r] = s
      BY <2>7 DEF Finish, HoldsLease
    <3>2. s # None
      OBVIOUS
    <3>3. Active \cap Outcomes = {}
      BY DEF Active, Acquired
    <3> QED
      BY <3>1, <3>2, <3>3
  <2> QED
    BY <2>1, <2>2, <2>3, <2>4, <2>5, <2>6, <2>7
       DEF Next, Admission, Control, Execution, Requeue, Abandon
<1>2. TypeOK /\ [Next]_vars => [\A r \in Runs : Fence(r)]_vars
  BY <1>1
<1> QED
  BY <1>2, TypeCorrect, PTL DEF Spec, FencedAnswers

-----------------------------------------------------------------------------
(* Settled runs and revisions *)

\* A write to a run is made while it is active and moves its revision by one;
\* an absorbed run is written by the commit of another and is no exception.
LEMMA WritesAreCounted ==
  ASSUME TypeOK, Next, NEW r \in Runs, state[r] # "absent"
  PROVE  \/ Record(r)' = Record(r)
         \/ state[r] \in Active /\ revision'[r] = revision[r] + 1
<1> DEFINE Counted == \/ Record(r)' = Record(r)
                      \/ state[r] \in Active /\ revision'[r] = revision[r] + 1
<1> USE StoreAssumption DEF TypeOK, Record, Active, Acquired
<1>1. ASSUME NEW k \in Keys, NEW s \in Runs, NEW priority \in BOOLEAN,
             NEW created \in Stamps, Accept(k, s, priority, created)
      PROVE  Counted
  BY <1>1 DEF Accept, leaseVars
<1>2. ASSUME NEW s \in Runs, Writes(s, revision[s])
      PROVE  revision'[r] = IF r = s THEN revision[r] + 1 ELSE revision[r]
  BY <1>2 DEF Writes
<1>3. ASSUME NEW k \in Keys, NEW s \in Runs, Coalesce(k, s)
      PROVE  Counted
  BY <1>2, <1>3 DEF Coalesce, Fresh, Joinable, leaseVars
<1>4. ASSUME NEW s \in Runs, Interrupt(s, revision[s])
      PROVE  Counted
  BY <1>2, <1>4 DEF Interrupt, acceptVars, leaseVars
<1>5. ASSUME NEW s \in Runs, NEW next \in {"queued", "abandoned"},
             Recover(s, revision[s], next)
      PROVE  Counted
  BY <1>2, <1>5 DEF Recover, acceptVars
<1>6. ASSUME NEW p \in Lanes, NEW s \in Runs, Acquire(p, s, revision[s])
      PROVE  Counted
  BY <1>2, <1>6 DEF Acquire, acceptVars
<1>7. ASSUME NEW p \in Lanes, NEW s \in Runs,
             Checkpoint(p, s, revision[s]) \/ Operation(p, s, revision[s])
      PROVE  Counted
  BY <1>2, <1>7 DEF Checkpoint, Operation, acceptVars, leaseVars
<1>8. ASSUME NEW p \in Lanes, NEW s \in Runs, NEW outcome \in Outcomes,
             NEW claim \in Claims(s), Finish(p, s, revision[s], outcome, claim)
      PROVE  Counted
  <2> DEFINE absorbed == Absorbable(claim)
  <2>1. \A c \in absorbed : state[c] = "queued"
    BY AbsorbsOthers
  <2> HIDE DEF absorbed
  <2>2. /\ state[s] \in Acquired
        /\ revision' = [c \in Runs |->
             IF c \in absorbed \cup {s} THEN revision[c] + 1 ELSE revision[c]]
        /\ state' = [c \in Runs |-> IF c = s THEN outcome
                       ELSE IF c \in absorbed THEN "superseded" ELSE state[c]]
        /\ into' = [c \in Runs |-> IF c \in absorbed THEN s ELSE into[c]]
        /\ inputs' = [inputs EXCEPT ![s] = @ \cup UNION {inputs[c] : c \in absorbed}]
        /\ answer' = [answer EXCEPT ![s] = lease[p].token]
        /\ UNCHANGED <<admission, owner, token, seq>>
    BY <1>8 DEF Finish, absorbed, acceptVars, leaseVars
  <2>3. CASE r \in absorbed \cup {s}
    BY <2>1, <2>2, <2>3
  <2>4. CASE r \notin absorbed \cup {s}
    BY <2>2, <2>4
  <2> QED
    BY <2>3, <2>4
<1> HIDE DEF Counted
<1> QED
  BY <1>1, <1>3, <1>4, <1>5, <1>6, <1>7, <1>8
     DEF Next, Admission, Control, Execution, Requeue, Abandon, Counted

\* Once settled, a run and its answer stay as they are.
THEOREM SettledStays == Spec => SettledIsFinal
<1>1. TypeOK /\ [Next]_vars
        => [\A r \in Runs : state[r] \in Terminal => Record(r)' = Record(r)]_vars
  <2>1. \A r \in Runs : state[r] \in Terminal => state[r] \notin Active \cup {"absent"}
    BY DEF Terminal, Outcomes, Active, Acquired
  <2> QED
    BY <2>1, WritesAreCounted
<1> QED
  BY <1>1, TypeCorrect, PTL DEF Spec, SettledIsFinal

\* A compare-and-swap on a run's revision misses no write to the run.
THEOREM RevisionsCount == Spec => RevisionCountsWrites
<1>1. TypeOK /\ [Next]_vars
        => [\A r \in Runs : state[r] # "absent" /\ Record(r)' # Record(r)
                              => revision'[r] = revision[r] + 1]_vars
  BY WritesAreCounted
<1> QED
  BY <1>1, TypeCorrect, PTL DEF Spec, RevisionCountsWrites

-----------------------------------------------------------------------------
(* Every admitted input is carried by exactly one run that answers it *)

Carriage ==
  OnlyAdmitted /\ AbsorptionSound /\ AnsweredOnce /\ DuplicateFindsItsRun

\* Steps that neither admit, absorb nor complete leave the carriage alone.
LEMMA CarriageUntouched ==
  ASSUME TypeOK, Carriage, UNCHANGED <<inputs, into, receipt>>,
         \A r \in Runs : state[r] \in Terminal => state'[r] = state[r]
  PROVE  Carriage'
<1>1. AbsorptionSound'
  <2> SUFFICES ASSUME NEW r \in Runs, into[r] # None
               PROVE  /\ state'[r] = "superseded" /\ state'[into[r]] = "completed"
                      /\ into[into[r]] = None /\ inputs[r] \subseteq inputs[into[r]]
    BY DEF AbsorptionSound
  <2>1. into[r] \in Runs
    BY DEF TypeOK
  <2> QED
    BY <2>1 DEF Carriage, AbsorptionSound, Terminal, Outcomes
<1> QED
  BY <1>1 DEF Carriage, OnlyAdmitted, AnsweredOnce, DuplicateFindsItsRun, AdmittedRun

\* Admitting a new input k into run r, which nobody absorbed or was absorbed by.
LEMMA CarriageAdmits ==
  ASSUME TypeOK, Carriage, NEW k \in Keys, NEW r \in Runs, receipt[k] = None,
         into[r] = None, state[r] # "completed", UNCHANGED into,
         \A c \in Runs \ {r} : state'[c] = state[c],
         inputs' = [inputs EXCEPT ![r] = inputs[r] \cup {k}],
         receipt' = [receipt EXCEPT ![k] = r]
  PROVE  Carriage'
<1> USE StoreAssumption DEF TypeOK
<1>1. \A c \in Runs : k \notin inputs[c] /\ into[c] # r
  BY DEF Carriage, OnlyAdmitted, AbsorptionSound
<1>2. OnlyAdmitted'
  BY DEF Carriage, OnlyAdmitted
<1>3. AbsorptionSound'
  BY <1>1 DEF Carriage, AbsorptionSound
<1>4. AnsweredOnce'
  BY <1>1 DEF Carriage, AnsweredOnce
<1>5. DuplicateFindsItsRun'
  <2> SUFFICES ASSUME NEW j \in Keys, receipt'[j] # None
               PROVE  (j \in inputs[AdmittedRun(j)] /\ into[AdmittedRun(j)] = None)'
    BY DEF DuplicateFindsItsRun
  <2>1. CASE j = k
    BY <2>1 DEF AdmittedRun
  <2>2. CASE j # k
    <3>1. j \in inputs[AdmittedRun(j)] /\ into[AdmittedRun(j)] = None
      BY <2>2 DEF Carriage, DuplicateFindsItsRun
    <3>2. AdmittedRun(j)' = AdmittedRun(j) /\ AdmittedRun(j) \in Runs
      BY <2>2 DEF AdmittedRun
    <3> QED
      BY <3>1, <3>2
  <2> QED
    BY <2>1, <2>2
<1> QED
  BY <1>2, <1>3, <1>4, <1>5 DEF Carriage

\* Run r completes and absorbs queued runs: their inputs become its own.
LEMMA CarriageAbsorbs ==
  ASSUME TypeOK, Carriage, Bookkeeping, NEW r \in Runs, NEW outcome \in Outcomes,
         NEW absorbed \in SUBSET (Runs \ {r}),
         state[r] \in Acquired, \A c \in absorbed : state[c] = "queued",
         absorbed # {} => outcome = "completed",
         state' = [c \in Runs |-> IF c = r THEN outcome
                     ELSE IF c \in absorbed THEN "superseded" ELSE state[c]],
         into' = [c \in Runs |-> IF c \in absorbed THEN r ELSE into[c]],
         inputs' = [inputs EXCEPT ![r] = @ \cup UNION {inputs[c] : c \in absorbed}],
         UNCHANGED receipt
  PROVE  Carriage'
<1> USE StoreAssumption DEF TypeOK
<1>1. \A c \in absorbed \cup {r} : into[c] = None /\ \A d \in Runs : into[d] # c
  BY DEF Bookkeeping, Carriage, AbsorptionSound, Acquired
<1>2. /\ \A c \in Runs : c # r => inputs'[c] = inputs[c]
      /\ inputs'[r] = inputs[r] \cup UNION {inputs[c] : c \in absorbed}
  OBVIOUS
<1>3. OnlyAdmitted'
  BY <1>2 DEF Carriage, OnlyAdmitted
<1>4. AbsorptionSound'
  <2> SUFFICES ASSUME NEW c \in Runs, into'[c] # None
               PROVE  /\ state'[c] = "superseded" /\ state'[into'[c]] = "completed"
                      /\ into'[into'[c]] = None /\ inputs'[c] \subseteq inputs'[into'[c]]
    BY DEF AbsorptionSound
  <2>1. CASE c \in absorbed
    BY <1>1, <1>2, <2>1
  <2>2. CASE c \notin absorbed
    <3>1. into'[c] = into[c] /\ into[c] \in Runs /\ into[c] \notin absorbed \cup {r}
      BY <1>1, <2>2
    <3>2. /\ state[c] = "superseded" /\ state[into[c]] = "completed"
          /\ into[into[c]] = None /\ inputs[c] \subseteq inputs[into[c]]
      BY <3>1 DEF Carriage, AbsorptionSound
    <3>3. c # r
      BY <3>2 DEF Acquired
    <3> QED
      BY <1>2, <2>2, <3>1, <3>2, <3>3
  <2> QED
    BY <2>1, <2>2
<1>5. AnsweredOnce'
  <2>1. ASSUME NEW b \in Runs \ {r}, inputs'[r] \cap inputs'[b] # {}
        PROVE  into'[b] = r
    <3>1. PICK k \in inputs'[r] : k \in inputs[b]
      BY <1>2, <2>1
    <3>2. CASE k \in inputs[r]
      BY <1>1, <3>1, <3>2 DEF Carriage, AnsweredOnce
    <3>3. CASE k \notin inputs[r]
      <4>1. PICK c \in absorbed : k \in inputs[c]
        BY <1>2, <3>1, <3>3
      <4>2. b = c
        BY <1>1, <3>1, <4>1 DEF Carriage, AnsweredOnce
      <4> QED
        BY <4>2
    <3> QED
      BY <3>2, <3>3
  <2>2. ASSUME NEW a \in Runs \ {r}, NEW b \in Runs \ {r}, a # b,
               inputs'[a] \cap inputs'[b] # {}
        PROVE  into'[a] = b \/ into'[b] = a
    BY <1>1, <1>2, <2>2 DEF Carriage, AnsweredOnce
  <2> QED
    BY <2>1, <2>2 DEF AnsweredOnce
<1>6. DuplicateFindsItsRun'
  <2> SUFFICES ASSUME NEW k \in Keys, receipt[k] # None
               PROVE  (k \in inputs[AdmittedRun(k)] /\ into[AdmittedRun(k)] = None)'
    BY DEF DuplicateFindsItsRun
  <2>1. k \in inputs[AdmittedRun(k)] /\ into[AdmittedRun(k)] = None
    BY DEF Carriage, DuplicateFindsItsRun
  <2>2. CASE receipt[k] \in absorbed
    <3>1. k \in inputs[receipt[k]] /\ AdmittedRun(k)' = r
      BY <1>1, <2>1, <2>2 DEF AdmittedRun
    <3> QED
      BY <1>1, <1>2, <2>2, <3>1
  <2>3. CASE receipt[k] \notin absorbed
    <3>1. AdmittedRun(k)' = AdmittedRun(k) /\ AdmittedRun(k) \in Runs \ absorbed
      BY <1>1, <2>3 DEF AdmittedRun
    <3> QED
      BY <1>2, <2>1, <3>1
  <2> QED
    BY <2>2, <2>3
<1> QED
  BY <1>3, <1>4, <1>5, <1>6 DEF Carriage

\* The carriage of inputs holds in every state.
THEOREM CarriageKept == Spec => []Carriage
<1> USE StoreAssumption
<1>1. Init => Carriage
  BY DEF Init, Carriage, OnlyAdmitted, AbsorptionSound, AnsweredOnce, DuplicateFindsItsRun
<1>2. TypeOK /\ Bookkeeping /\ Carriage /\ [Next]_vars => Carriage'
  <2> SUFFICES ASSUME TypeOK, Bookkeeping, Carriage, [Next]_vars PROVE Carriage'
    OBVIOUS
  <2> USE DEF Terminal, Outcomes, Active, Acquired
  <2>1. ASSUME NEW k \in Keys, NEW r \in Runs, NEW priority \in BOOLEAN,
               NEW created \in Stamps, Accept(k, r, priority, created)
        PROVE  Carriage'
    <3>1. inputs[r] = {} /\ into[r] = None
      BY <2>1 DEF Accept, Bookkeeping
    <3>2. /\ inputs' = [inputs EXCEPT ![r] = inputs[r] \cup {k}]
          /\ \A c \in Runs \ {r} : state'[c] = state[c]
      BY <2>1, <3>1 DEF Accept, TypeOK
    <3> QED
      BY <2>1, <3>1, <3>2, CarriageAdmits DEF Accept, Fresh
  <2>2. ASSUME NEW k \in Keys, NEW r \in Runs, Coalesce(k, r)
        PROVE  Carriage'
    BY <2>2, CarriageAdmits DEF Coalesce, Fresh, Joinable, Bookkeeping
  <2>3. ASSUME NEW r \in Runs, Interrupt(r, revision[r])
        PROVE  Carriage'
    BY <2>3, CarriageUntouched DEF Interrupt, acceptVars, TypeOK
  <2>4. ASSUME NEW r \in Runs, NEW next \in {"queued", "abandoned"},
               Recover(r, revision[r], next)
        PROVE  Carriage'
    BY <2>4, CarriageUntouched DEF Recover, acceptVars, TypeOK
  <2>5. ASSUME NEW p \in Lanes, NEW r \in Runs, Acquire(p, r, revision[r])
        PROVE  Carriage'
    BY <2>5, CarriageUntouched DEF Acquire, acceptVars, TypeOK
  <2>6. ASSUME NEW p \in Lanes, NEW r \in Runs,
               Checkpoint(p, r, revision[r]) \/ Operation(p, r, revision[r])
        PROVE  Carriage'
    BY <2>6, CarriageUntouched DEF Checkpoint, Operation, acceptVars
  <2>7. ASSUME NEW p \in Lanes, NEW r \in Runs, NEW outcome \in Outcomes,
               NEW claim \in Claims(r), Finish(p, r, revision[r], outcome, claim)
        PROVE  Carriage'
    <3> DEFINE absorbed == Absorbable(claim)
    <3>1. absorbed \in SUBSET (Runs \ {r}) /\ \A c \in absorbed : state[c] = "queued"
      BY AbsorbsOthers
    <3>2. absorbed # {} => outcome = "completed"
      BY <2>7 DEF Finish, MayAbsorb, Absorbable
    <3> HIDE DEF absorbed
    <3>3. /\ state[r] \in Acquired
          /\ state' = [c \in Runs |-> IF c = r THEN outcome
                         ELSE IF c \in absorbed THEN "superseded" ELSE state[c]]
          /\ into' = [c \in Runs |-> IF c \in absorbed THEN r ELSE into[c]]
          /\ inputs' = [inputs EXCEPT
                          ![r] = @ \cup UNION {inputs[c] : c \in absorbed}]
          /\ UNCHANGED receipt
      BY <2>7 DEF Finish, absorbed, acceptVars
    <3> QED
      BY <3>1, <3>2, <3>3, CarriageAbsorbs
  <2>8. CASE UNCHANGED vars
    BY <2>8, CarriageUntouched DEF vars, acceptVars
  <2> QED
    BY <2>1, <2>2, <2>3, <2>4, <2>5, <2>6, <2>7, <2>8
       DEF Next, Admission, Control, Execution, Requeue, Abandon
<1> QED
  BY <1>1, <1>2, TypeCorrect, Kept, PTL DEF Spec

\* Every admitted input is carried by one run that answers it: absorption takes
\* a whole run, never chains, and a repeated admission reaches the answer.
THEOREM EveryInputCarriedOnce ==
  Spec => [](AbsorptionSound /\ AnsweredOnce /\ DuplicateFindsItsRun)
<1>1. Carriage => AbsorptionSound /\ AnsweredOnce /\ DuplicateFindsItsRun
  BY DEF Carriage
<1> QED
  BY <1>1, CarriageKept, PTL

-----------------------------------------------------------------------------
(* The order in which turns start *)

\* Steps that start nobody and admit nobody keep the order of starts.
LEMMA OrderUntouched ==
  ASSUME TypeOK, StartsInOrder, UNCHANGED <<seq, admission>>,
         \A r \in Runs : state[r] \in Terminal => state'[r] \in Terminal
  PROVE  StartsInOrder'
BY DEF StartsInOrder, AheadInQueue, ByAdmission

\* A settled run stays settled.
LEMMA SettledRemains ==
  ASSUME TypeOK, [Next]_vars, NEW r \in Runs, state[r] \in Terminal
  PROVE  state'[r] \in Terminal
<1>1. CASE UNCHANGED vars
  BY <1>1 DEF vars
<1>2. CASE Next
  <2>1. state[r] # "absent" /\ state[r] \notin Active
    BY DEF Terminal, Outcomes, Active, Acquired
  <2>2. Record(r)' = Record(r)
    BY <1>2, <2>1, WritesAreCounted
  <2> QED
    BY <2>2 DEF Record
<1> QED
  BY <1>1, <1>2

\* Turns start in the order of the queue.
THEOREM OrderedStarts == Spec => []StartsInOrder
<1> USE StoreAssumption
<1>1. Init => StartsInOrder
  BY DEF Init, StartsInOrder
<1>2. TypeOK /\ Bookkeeping /\ OneOpenTurn /\ StartsInOrder /\ [Next]_vars
        => StartsInOrder'
  <2> SUFFICES ASSUME TypeOK, Bookkeeping, OneOpenTurn, StartsInOrder, [Next]_vars
               PROVE  StartsInOrder'
    OBVIOUS
  <2>1. ASSUME NEW k \in Keys, NEW r \in Runs, NEW priority \in BOOLEAN,
               NEW created \in Stamps, Accept(k, r, priority, created)
        PROVE  StartsInOrder'
    <3> SUFFICES ASSUME NEW a \in Runs, NEW b \in Runs, seq'[b] # 0,
                        admission'[a].arrived \in 1 .. seq'[b] - 1,
                        AheadInQueue(a, b)'
                 PROVE  IF seq'[a] # 0 THEN seq'[a] < seq'[b] ELSE state'[a] \in Terminal
      BY DEF StartsInOrder
    <3>1. /\ admission' = [admission EXCEPT ![r] =
               [priority |-> priority, created |-> created, arrived |-> version + 1]]
          /\ UNCHANGED seq
      BY <2>1 DEF Accept, leaseVars
    <3>2. b # r /\ seq[b] <= version
      BY <2>1, <3>1 DEF Accept, Bookkeeping, TypeOK
    <3>3. a # r
      BY <3>1, <3>2 DEF TypeOK
    <3>4. AheadInQueue(a, b) /\ admission'[a] = admission[a]
      BY <3>1, <3>2, <3>3 DEF AheadInQueue, ByAdmission, TypeOK
    <3>5. IF seq[a] # 0 THEN seq[a] < seq[b] ELSE state[a] \in Terminal
      BY <3>1, <3>4 DEF StartsInOrder
    <3> QED
      BY <3>1, <3>5, SettledRemains
  <2>2. ASSUME NEW p \in Lanes, NEW r \in Runs, Acquire(p, r, revision[r])
        PROVE  StartsInOrder'
    <3> SUFFICES ASSUME NEW a \in Runs, NEW b \in Runs, seq'[b] # 0,
                        admission[a].arrived \in 1 .. seq'[b] - 1,
                        AheadInQueue(a, b)
                 PROVE  IF seq'[a] # 0 THEN seq'[a] < seq'[b] ELSE state'[a] \in Terminal
      BY <2>2 DEF StartsInOrder, AheadInQueue, ByAdmission, Acquire, acceptVars
    <3>1. /\ state[r] = "queued" /\ \A c \in Runs : ~Blocks(c, r)
          /\ seq' = [seq EXCEPT ![r] = IF seq[r] = 0 THEN version + 1 ELSE seq[r]]
      BY <2>2 DEF Acquire
    <3>2. version \in Nat /\ seq \in [Runs -> Nat] /\ admission \in [Runs -> Admissions]
      BY DEF TypeOK
    <3>3. a # b
      BY <3>2 DEF AheadInQueue, ByAdmission, Admissions
    <3>4. CASE b = r /\ seq[r] = 0
      <4>1. seq'[a] = seq[a] /\ seq'[b] = version + 1 /\ seq[a] <= version
        BY <3>1, <3>2, <3>3, <3>4 DEF Bookkeeping
      <4>2. CASE seq[a] = 0
        <5>1. state[a] # "absent"
          BY <3>2 DEF Bookkeeping, Admissions
        <5>2. state[a] \notin Acquired
          BY <4>2 DEF OneOpenTurn, Open
        <5>3. state[a] # "queued"
          BY <3>1, <3>3, <3>4, <4>2 DEF Blocks, Before, Started
        <5> QED
          BY <4>1, <4>2, <5>1, <5>2, <5>3, SettledRemains
             DEF TypeOK, RunStates, Active
      <4> QED
        BY <3>2, <4>1, <4>2
    <3>5. CASE b # r \/ seq[r] # 0
      <4>1. seq'[b] = seq[b]
        BY <3>1, <3>2, <3>5
      <4>2. IF seq[a] # 0 THEN seq[a] < seq[b] ELSE state[a] \in Terminal
        BY <4>1 DEF StartsInOrder
      <4>3. seq'[a] = seq[a]
        BY <3>1, <3>2, <4>2 DEF Terminal, Outcomes
      <4> QED
        BY <4>1, <4>2, <4>3, SettledRemains
    <3> QED
      BY <3>4, <3>5
  <2>3. CASE UNCHANGED <<seq, admission>>
    BY <2>3, OrderUntouched, SettledRemains
  <2> QED
    BY <2>1, <2>2, <2>3
       DEF Next, Admission, Control, Execution, Coalesce, Interrupt, Requeue, Abandon,
           Recover, Checkpoint, Operation, Finish, vars, acceptVars, leaseVars
<1> QED
  BY <1>1, <1>2, TypeCorrect, Kept, OneTurn, PTL DEF Spec

-----------------------------------------------------------------------------
(* The store implements ConversationTurns *)

\* Every admitted run keeps the receipt of the input it was admitted for.
THEOREM Receipted == Spec => []HasReceipt
<1> USE StoreAssumption
<1>1. Init => HasReceipt
  BY DEF Init, HasReceipt
<1>2. TypeOK /\ HasReceipt /\ [Next]_vars => HasReceipt'
  <2> SUFFICES ASSUME TypeOK, HasReceipt, [Next]_vars PROVE HasReceipt'
    OBVIOUS
  <2> USE DEF TypeOK, HasReceipt
  <2>1. ASSUME NEW k \in Keys, NEW r \in Runs, receipt[k] = None,
               receipt' = [receipt EXCEPT ![k] = r],
               \A c \in Runs \ {r} : state'[c] = state[c]
        PROVE  HasReceipt'
    <3> SUFFICES ASSUME NEW c \in Runs, state'[c] # "absent"
                 PROVE  \E j \in Keys : receipt'[j] = c
      OBVIOUS
    <3>1. CASE c = r
      BY <2>1, <3>1
    <3>2. CASE c # r
      <4>1. PICK j \in Keys : receipt[j] = c
        BY <2>1, <3>2
      <4> QED
        BY <2>1, <4>1
    <3> QED
      BY <3>1, <3>2
  <2>2. ASSUME UNCHANGED receipt,
               \A c \in Runs : state[c] = "absent" => state'[c] = "absent"
        PROVE  HasReceipt'
    BY <2>2
  <2>3. ASSUME NEW k \in Keys, NEW r \in Runs, NEW priority \in BOOLEAN,
               NEW created \in Stamps, Accept(k, r, priority, created)
        PROVE  HasReceipt'
    BY <2>1, <2>3 DEF Accept, Fresh
  <2>4. ASSUME NEW k \in Keys, NEW r \in Runs, Coalesce(k, r)
        PROVE  HasReceipt'
    BY <2>1, <2>4 DEF Coalesce, Fresh, Joinable
  <2>5. ASSUME NEW p \in Lanes, NEW r \in Runs, NEW outcome \in Outcomes,
               NEW claim \in Claims(r), Finish(p, r, revision[r], outcome, claim)
        PROVE  HasReceipt'
    <3>1. \A c \in Absorbable(claim) : state[c] = "queued"
      BY AbsorbsOthers
    <3>2. /\ state[r] \in Acquired /\ UNCHANGED receipt
          /\ state' = [c \in Runs |-> IF c = r THEN outcome
                         ELSE IF c \in Absorbable(claim) THEN "superseded" ELSE state[c]]
      BY <2>5 DEF Finish, acceptVars
    <3> QED
      BY <2>2, <3>1, <3>2 DEF Acquired
  <2>6. ASSUME NEW r \in Runs, NEW next, state[r] \in Active,
               state' = [state EXCEPT ![r] = next], UNCHANGED receipt
        PROVE  HasReceipt'
    BY <2>2, <2>6 DEF Active, Acquired
  <2> QED
    BY <2>2, <2>3, <2>4, <2>5, <2>6
       DEF Next, Admission, Control, Execution, Interrupt, Requeue, Abandon, Recover,
           Acquire, Checkpoint, Operation, vars, acceptVars, Active, Acquired
<1> QED
  BY <1>1, <1>2, TypeCorrect, PTL DEF Spec

IInv == TypeOK /\ Bookkeeping /\ OneOpenTurn /\ Carriage /\ HasReceipt

\* The abstract open turn is the open run, if there is one.
LEMMA OpenTurnIs ==
  ASSUME OneOpenTurn
  PROVE  /\ \A r \in Runs : Open(r) => openTurn = r /\ openRuns = {r}
         /\ (\A r \in Runs : ~Open(r)) => openTurn = None /\ openRuns = {}
         /\ openTurn = None \/ (openTurn \in Runs /\ Open(openTurn))
<1>1. ASSUME NEW r \in Runs, Open(r) PROVE openTurn = r /\ openRuns = {r}
  <2>1. openRuns = {r}
    BY <1>1 DEF openRuns, OneOpenTurn
  <2> QED
    BY <2>1 DEF openTurn
<1>2. (\A r \in Runs : ~Open(r)) => openTurn = None /\ openRuns = {}
  BY DEF openTurn, openRuns
<1>3. openTurn = None \/ (openTurn \in Runs /\ Open(openTurn))
  <2>1. ASSUME NEW r \in Runs, Open(r) PROVE openTurn \in Runs /\ Open(openTurn)
    <3>1. openTurn = r
      BY <1>1, <2>1
    <3> QED
      BY <2>1, <3>1 DEF Open
  <2> QED
    BY <1>2, <2>1
<1> QED
  BY <1>1, <1>2, <1>3

\* Only the open run can be acquired, so the turn is held when it is.
LEMMA HeldMeansOpen ==
  ASSUME OneOpenTurn, NEW r \in Runs, state[r] \in Acquired
  PROVE  turnHeld /\ openTurn = r /\ \A c \in Runs : state[c] \in Acquired => c = r
BY OpenTurnIs DEF turnHeld, OneOpenTurn

\* A run that is queued or acquired is a waiting turn.
LEMMA ActiveWaits ==
  ASSUME IInv, NEW r \in Runs, state[r] \in Active
  PROVE  Turns!Waiting(r)
<1>1. r \notin settledTurns
  BY DEF settledTurns, Active, Acquired, Terminal, Outcomes
<1>2. PICK k \in Keys : receipt[k] = r
  BY DEF IInv, HasReceipt, Active, Acquired
<1>3. into[r] = None
  BY DEF IInv, Bookkeeping, Active, Acquired
<1>4. inputCarrier[k] = r
  BY <1>2, <1>3, StoreAssumption DEF inputCarrier, AdmittedRun
<1> QED
  BY <1>1, <1>4 DEF Turns!Waiting

\* A step that opens, closes and settles nothing keeps the open turn, its
\* holding and the settled turns.
LEMMA TurnsKept ==
  ASSUME \A r \in Runs : Open(r)' <=> Open(r),
         \A r \in Runs : state[r] \in Acquired <=> state'[r] \in Acquired,
         \A r \in Runs : state[r] \in Terminal <=> state'[r] \in Terminal
  PROVE  UNCHANGED <<openTurn, turnHeld, settledTurns>>
<1>1. openRuns' = openRuns
  BY DEF openRuns
<1> QED
  BY <1>1 DEF openTurn, turnHeld, settledTurns

\* An admission gives a new input to a run that nobody executes.
LEMMA AcceptAdmits ==
  ASSUME IInv, NEW k \in Keys, NEW r \in Runs, receipt[k] = None,
         state[r] \in {"absent", "queued"}, into[r] = None,
         \A c \in Runs : Open(c)' <=> Open(c),
         state' = [state EXCEPT ![r] = "queued"],
         receipt' = [receipt EXCEPT ![k] = r], UNCHANGED <<into, token>>
  PROVE  Turns!Admit(k, r)
<1> USE StoreAssumption
<1>1. state \in [Runs -> RunStates] /\ receipt \in [Keys -> Runs \cup {None}] /\ OneOpenTurn
  BY DEF IInv, TypeOK
<1>2. UNCHANGED <<openTurn, turnHeld, settledTurns>>
  BY <1>1, TurnsKept DEF Acquired, Terminal, Outcomes
<1>3. r \notin settledTurns
  BY DEF settledTurns, Terminal, Outcomes
<1>4. ~(turnHeld /\ openTurn = r)
  <2> SUFFICES ASSUME turnHeld PROVE openTurn # r
    OBVIOUS
  <2>1. PICK c \in Runs : state[c] \in Acquired
    BY DEF turnHeld
  <2> QED
    BY <1>1, <2>1, HeldMeansOpen DEF Acquired
<1>5. inputCarrier[k] = None
  BY DEF inputCarrier
<1>6. inputCarrier' = [inputCarrier EXCEPT ![k] = r]
  BY <1>1 DEF inputCarrier, AdmittedRun
<1> QED
  BY <1>2, <1>3, <1>4, <1>5, <1>6 DEF Turns!Admit

\* An acquisition grants the lease of the open turn or opens a waiting one.
LEMMA AcquireGrants ==
  ASSUME IInv, NEW p \in Lanes, NEW r \in Runs, Acquire(p, r, revision[r])
  PROVE  Turns!Grant(r)
<1> USE StoreAssumption
<1>1. /\ state[r] = "queued" /\ UNCHANGED <<into, receipt>>
      /\ \A c \in Runs : ~Blocks(c, r)
      /\ state' = [state EXCEPT ![r] = "running"]
      /\ token' = [token EXCEPT ![r] = token[r] + 1]
      /\ seq' = [seq EXCEPT ![r] = IF seq[r] = 0 THEN version + 1 ELSE seq[r]]
  BY DEF Acquire, acceptVars
<1>2. TypeOK /\ OneOpenTurn
  BY DEF IInv
<1>3. \A c \in Runs : c # r => ~Open(c)
  BY <1>1, <1>2, OpenTurnBlocks
<1>4. openTurn \in {None, r}
  BY <1>2, <1>3, OpenTurnIs
<1>5. ~turnHeld
  BY <1>1, <1>2, <1>3 DEF turnHeld, OneOpenTurn, Acquired
<1>6. openRuns' = {r} /\ turnHeld'
  BY <1>1, <1>2, <1>3 DEF openRuns, Open, Active, Acquired, turnHeld, TypeOK
<1>7. openTurn' = r
  BY <1>6 DEF openTurn
<1>8. settledTurns' = settledTurns
  BY <1>1, <1>2 DEF settledTurns, Terminal, Outcomes, TypeOK
<1>9. inputCarrier' = inputCarrier
  BY <1>1 DEF inputCarrier, AdmittedRun
<1>10. Turns!Waiting(r)
  BY <1>1, ActiveWaits DEF Active
<1> QED
  BY <1>1, <1>4, <1>5, <1>6, <1>7, <1>8, <1>9, <1>10 DEF Turns!Grant

\* Requeueing an acquired run releases its turn; abandoning a run drops it.
LEMMA RecoverReleases ==
  ASSUME IInv, NEW r \in Runs, Recover(r, revision[r], "queued")
  PROVE  Turns!Release \/ UNCHANGED <<openTurn, turnHeld, token, settledTurns, inputCarrier>>
<1> USE StoreAssumption
<1>1. /\ state[r] \in Active /\ state' = [state EXCEPT ![r] = "queued"]
      /\ UNCHANGED <<seq, token, into, receipt>>
  BY DEF Recover, acceptVars
<1>2. TypeOK /\ OneOpenTurn
  BY DEF IInv
<1>3. UNCHANGED <<openRuns, settledTurns, inputCarrier>>
  BY <1>1, <1>2
     DEF openRuns, Open, settledTurns, inputCarrier, AdmittedRun, TypeOK, Active,
         Acquired, Terminal, Outcomes
<1>4. UNCHANGED openTurn
  BY <1>3 DEF openTurn
<1>5. CASE state[r] \in Acquired
  <2>1. turnHeld /\ turnHeld' = FALSE
    BY <1>1, <1>2, <1>5, HeldMeansOpen DEF turnHeld, Acquired, TypeOK
  <2> QED
    BY <1>1, <1>3, <1>4, <2>1 DEF Turns!Release
<1>6. CASE state[r] \notin Acquired
  <2>1. turnHeld' = turnHeld
    BY <1>1, <1>2, <1>6 DEF turnHeld, Acquired, TypeOK
  <2> QED
    BY <1>1, <1>3, <1>4, <2>1
<1> QED
  BY <1>5, <1>6

LEMMA AbandonDrops ==
  ASSUME IInv, NEW r \in Runs, Recover(r, revision[r], "abandoned")
  PROVE  Turns!Drop(r)
<1> USE StoreAssumption
<1>1. /\ state[r] \in Active /\ state' = [state EXCEPT ![r] = "abandoned"]
      /\ UNCHANGED <<seq, token, into, receipt>>
  BY DEF Recover, acceptVars
<1>2. TypeOK /\ OneOpenTurn
  BY DEF IInv
<1>3. settledTurns' = settledTurns \cup {r} /\ inputCarrier' = inputCarrier
  BY <1>1, <1>2 DEF settledTurns, inputCarrier, AdmittedRun, TypeOK, Terminal
<1>4. openRuns' = openRuns \ {r}
  BY <1>1, <1>2 DEF openRuns, Open, TypeOK, Active, Acquired
<1>5. openTurn' = IF openTurn = r THEN None ELSE openTurn
  <2>1. CASE Open(r)
    <3>1. openTurn = r /\ openRuns' = {}
      BY <1>2, <1>4, <2>1, OpenTurnIs
    <3> QED
      BY <3>1 DEF openTurn
  <2>2. CASE ~Open(r)
    <3>1. openRuns' = openRuns /\ openTurn # r
      BY <1>2, <1>4, <2>2, OpenTurnIs DEF openRuns, Open
    <3> QED
      BY <3>1 DEF openTurn
  <2> QED
    BY <2>1, <2>2
<1>6. turnHeld' = (turnHeld /\ openTurn # r)
  <2>1. CASE state[r] \in Acquired
    <3>1. openTurn = r /\ \A c \in Runs : c # r => state'[c] \notin Acquired
      BY <1>1, <1>2, <2>1, HeldMeansOpen DEF TypeOK
    <3>2. turnHeld' = FALSE
      BY <1>1, <1>2, <3>1 DEF turnHeld, TypeOK, Acquired
    <3> QED
      BY <3>1, <3>2
  <2>2. CASE state[r] \notin Acquired
    <3>1. turnHeld' = turnHeld
      BY <1>1, <1>2, <2>2 DEF turnHeld, TypeOK, Acquired
    <3>2. turnHeld => openTurn # r
      BY <1>2, <2>2, HeldMeansOpen DEF turnHeld
    <3>3. turnHeld \in BOOLEAN
      BY DEF turnHeld
    <3> QED
      BY <3>1, <3>2, <3>3
  <2> QED
    BY <2>1, <2>2
<1>7. Turns!Waiting(r)
  BY <1>1, ActiveWaits
<1> QED
  BY <1>1, <1>3, <1>5, <1>6, <1>7 DEF Turns!Drop

\* A terminal commit settles the open turn and the turns it absorbed.
LEMMA FinishSettles ==
  ASSUME IInv, NEW p \in Lanes, NEW r \in Runs, NEW outcome \in Outcomes,
         NEW claim \in Claims(r), Finish(p, r, revision[r], outcome, claim)
  PROVE  Turns!Settle(Absorbable(claim))
<1> USE StoreAssumption
<1> DEFINE absorbed == Absorbable(claim)
<1>1. absorbed \in SUBSET (Runs \ {r}) /\ \A c \in absorbed : state[c] = "queued"
  BY AbsorbsOthers
<1> HIDE DEF absorbed
<1>2. /\ state[r] \in Acquired
      /\ state' = [c \in Runs |-> IF c = r THEN outcome
                     ELSE IF c \in absorbed THEN "superseded" ELSE state[c]]
      /\ into' = [c \in Runs |-> IF c \in absorbed THEN r ELSE into[c]]
      /\ UNCHANGED <<seq, token, receipt>>
  BY DEF Finish, absorbed, acceptVars, leaseVars
<1>3. TypeOK /\ OneOpenTurn /\ Bookkeeping /\ Carriage
  BY DEF IInv
<1>4. turnHeld /\ openTurn = r /\ \A c \in Runs : state[c] \in Acquired => c = r
  BY <1>2, <1>3, HeldMeansOpen
<1>5. \A c \in absorbed : Turns!Waiting(c) /\ c # r
  BY <1>1, ActiveWaits DEF Active
<1>6. settledTurns' = settledTurns \cup absorbed \cup {r}
  BY <1>1, <1>2 DEF settledTurns, Terminal, Outcomes
<1>7. openRuns' = {} /\ turnHeld' = FALSE
  <2>1. \A c \in Runs : c # r => ~Open(c)
    BY <1>2, <1>3 DEF OneOpenTurn
  <2>2. outcome \notin Active /\ "superseded" \notin Active /\ Acquired \subseteq Active
    BY DEF Outcomes, Active, Acquired
  <2>3. openRuns' = {}
    BY <1>2, <2>1, <2>2 DEF openRuns, Open
  <2> QED
    BY <1>2, <1>4, <2>2, <2>3 DEF turnHeld
<1>8. openTurn' = None
  BY <1>7 DEF openTurn
<1>9. inputCarrier' = [k \in Keys |->
         IF inputCarrier[k] \in absorbed THEN r ELSE inputCarrier[k]]
  <2> SUFFICES ASSUME NEW k \in Keys, receipt[k] # None
               PROVE  AdmittedRun(k)' = IF AdmittedRun(k) \in absorbed THEN r
                                        ELSE AdmittedRun(k)
    BY <1>1, <1>2 DEF inputCarrier
  <2>1. receipt[k] \in Runs
    BY <1>3 DEF TypeOK
  <2>2. CASE into[receipt[k]] = None
    BY <1>1, <1>2, <2>1, <2>2 DEF AdmittedRun
  <2>3. CASE into[receipt[k]] # None
    <3>1. state[receipt[k]] = "superseded" /\ state[into[receipt[k]]] = "completed"
      BY <1>3, <2>1, <2>3 DEF Carriage, AbsorptionSound
    <3> QED
      BY <1>1, <1>2, <2>1, <2>3, <3>1 DEF AdmittedRun
  <2> QED
    BY <2>2, <2>3
<1> QED
  BY <1>2, <1>4, <1>5, <1>6, <1>7, <1>8, <1>9 DEF Turns!Settle, absorbed

\* The store implements the turns: every mutation is a turn step or a stutter.
THEOREM StoreImplementsTurns == Spec => ImplementsTurns
<1> USE StoreAssumption
<1>1. Init => Turns!Init
  <2> SUFFICES ASSUME Init PROVE Turns!Init
    OBVIOUS
  <2>1. openRuns = {} /\ turnHeld = FALSE /\ settledTurns = {}
    BY DEF Init, openRuns, Open, Active, turnHeld, settledTurns, Acquired, Terminal, Outcomes
  <2>2. inputCarrier = [k \in Keys |-> None]
    BY DEF Init, inputCarrier
  <2> QED
    BY <2>1, <2>2 DEF Init, openTurn, Turns!Init
<1>2. IInv /\ [Next]_vars => [Turns!Next]_(Turns!turnVars)
  <2> SUFFICES ASSUME IInv, [Next]_vars
               PROVE  Turns!Next \/ UNCHANGED Turns!turnVars
    OBVIOUS
  <2>1. ASSUME NEW k \in Keys, NEW r \in Runs, NEW priority \in BOOLEAN,
               NEW created \in Stamps, Accept(k, r, priority, created)
        PROVE  Turns!Next
    <3>1. seq[r] = 0 /\ into[r] = None /\ receipt[k] = None /\ state[r] = "absent"
      BY <2>1 DEF Accept, Fresh, IInv, Bookkeeping
    <3>2. \A c \in Runs : Open(c)' <=> Open(c)
      BY <2>1, <3>1 DEF Accept, leaseVars, Open, IInv, TypeOK, Active, Acquired
    <3>3. Turns!Admit(k, r)
      BY <2>1, <3>1, <3>2, AcceptAdmits DEF Accept, leaseVars
    <3> QED
      BY <3>3 DEF Turns!Next
  <2>2. ASSUME NEW k \in Keys, NEW r \in Runs, Coalesce(k, r)
        PROVE  Turns!Next
    <3>1. /\ receipt[k] = None /\ state[r] = "queued" /\ into[r] = None
          /\ state' = [state EXCEPT ![r] = "queued"]
      BY <2>2 DEF Coalesce, Fresh, Joinable, IInv, Bookkeeping, TypeOK
    <3>2. \A c \in Runs : Open(c)' <=> Open(c)
      BY <2>2 DEF Coalesce, leaseVars, Open
    <3>3. Turns!Admit(k, r)
      BY <2>2, <3>1, <3>2, AcceptAdmits DEF Coalesce, leaseVars
    <3> QED
      BY <3>3 DEF Turns!Next
  <2>3. ASSUME UNCHANGED <<seq, token, into, receipt>>,
               \A r \in Runs : state'[r] = state[r]
                               \/ {state[r], state'[r]} \subseteq Acquired
        PROVE  UNCHANGED Turns!turnVars
    <3>1. UNCHANGED <<openTurn, turnHeld, settledTurns>>
      BY <2>3, TurnsKept DEF Open, Active, Acquired, Terminal, Outcomes
    <3>2. UNCHANGED inputCarrier
      BY <2>3 DEF inputCarrier, AdmittedRun
    <3> QED
      BY <2>3, <3>1, <3>2 DEF Turns!turnVars
  <2>4. ASSUME NEW r \in Runs, Interrupt(r, revision[r])
        PROVE  UNCHANGED Turns!turnVars
    BY <2>3, <2>4 DEF Interrupt, acceptVars, leaseVars, Acquired, IInv, TypeOK
  <2>5. ASSUME NEW r \in Runs, Recover(r, revision[r], "queued")
        PROVE  Turns!Next \/ UNCHANGED Turns!turnVars
    BY <2>5, RecoverReleases DEF Turns!Next, Turns!turnVars
  <2>6. ASSUME NEW r \in Runs, Recover(r, revision[r], "abandoned")
        PROVE  Turns!Next
    BY <2>6, AbandonDrops DEF Turns!Next
  <2>7. ASSUME NEW p \in Lanes, NEW r \in Runs, Acquire(p, r, revision[r])
        PROVE  Turns!Next
    BY <2>7, AcquireGrants DEF Turns!Next
  <2>8. ASSUME NEW p \in Lanes, NEW r \in Runs,
               Checkpoint(p, r, revision[r]) \/ Operation(p, r, revision[r])
        PROVE  UNCHANGED Turns!turnVars
    BY <2>3, <2>8 DEF Checkpoint, Operation, acceptVars, leaseVars
  <2>9. ASSUME NEW p \in Lanes, NEW r \in Runs, NEW outcome \in Outcomes,
               NEW claim \in Claims(r), Finish(p, r, revision[r], outcome, claim)
        PROVE  Turns!Next
    <3>1. Absorbable(claim) \in SUBSET Runs
      BY AbsorbsOthers
    <3> QED
      BY <2>9, <3>1, FinishSettles DEF Turns!Next
  <2>10. CASE UNCHANGED vars
    BY <2>3, <2>10 DEF vars, acceptVars, leaseVars
  <2> QED
    BY <2>1, <2>2, <2>4, <2>5, <2>6, <2>7, <2>8, <2>9, <2>10
       DEF Next, Admission, Control, Execution, Requeue, Abandon
<1>3. Spec => []IInv
  BY TypeCorrect, Kept, OneTurn, CarriageKept, Receipted, PTL DEF IInv
<1> QED
  BY <1>1, <1>2, <1>3, PTL DEF Spec, ImplementsTurns, Turns!Spec
=============================================================================
