------------------------ MODULE AgentExecutorProofs ------------------------
(***************************************************************************)
(* Executors implement the run store: every step of an executor, of the    *)
(* host or of a crash is one mutation of the store or none.  What is       *)
(* proved of the store therefore holds of any number of executors.         *)
(*                                                                         *)
(* And an interrupt that was recorded is honoured, because a lane that has *)
(* not learnt of it names a revision that is no longer the record's.       *)
(*                                                                         *)
(* An answer is delivered once and by its author, because an executor      *)
(* recognises its own commit by the lease it was granted; and no run is    *)
(* left to nobody in silence.                                              *)
(***************************************************************************)
EXTENDS AgentExecutor, AgentRunStoreProofs

-----------------------------------------------------------------------------
(* What an executor carries to its commit *)

ClaimSets == UNION {[C -> (SUBSET Keys) \ {{}}] : C \in SUBSET Runs}

\* The lane variables that a commit reads.
LaneTypes ==
  /\ pc \in [Lanes -> Phases]
  /\ task \in [Lanes -> Runs \cup {None}]
  /\ reason \in [Lanes -> Reasons]
  /\ claim \in [Lanes -> ClaimSets]

\* A claim never names the lane's own run: what it took on came from successors.
ClaimsOwn == \A p \in Lanes :
  IF pc[p] = "idle" THEN claim[p] = NoClaim
  ELSE \A r \in Runs : task[p] = r => r \notin DOMAIN claim[p]

\* The reason has become an outcome when the lane commits.
Decided == \A p \in Lanes :
  /\ pc[p] = "classify" => reason[p] \in Outcomes \cup {"stale"}
  /\ pc[p] \in {"closeOperation", "commit", "reread"} => reason[p] \in Outcomes

\* A run that was admitted carries inputs, so what is taken on is not empty.
Carries ==
  /\ state \in [Runs -> RunStates] /\ inputs \in [Runs -> SUBSET Keys]
  /\ \A r \in Runs : state[r] # "absent" => inputs[r] # {}

LaneInv == LaneTypes /\ ClaimsOwn /\ Decided
EInv == LaneInv /\ Carries

\* Inputs are only ever added.
LEMMA CarriesKept == Carries /\ [Next]_vars => Carries'
<1> SUFFICES ASSUME Carries, [Next]_vars PROVE Carries'
  OBVIOUS
<1> USE DEF Carries
<1>1. CASE UNCHANGED vars
  BY <1>1 DEF vars
<1>2. CASE Admission
  <2>1. ASSUME NEW k \in Keys, NEW r \in Runs, NEW priority \in BOOLEAN,
               NEW created \in Stamps, Accept(k, r, priority, created)
        PROVE  Carries'
    BY <2>1 DEF Accept, RunStates, Active
  <2>2. ASSUME NEW k \in Keys, NEW r \in Runs, Coalesce(k, r)
        PROVE  Carries'
    BY <2>2 DEF Coalesce
  <2> QED
    BY <1>2, <2>1, <2>2 DEF Admission
<1>3. CASE Control
  <2>1. ASSUME NEW r \in Runs, Interrupt(r, revision[r])
        PROVE  Carries'
    BY <2>1 DEF Interrupt, RunStates, Active, Acquired
  <2>2. ASSUME NEW r \in Runs, NEW next \in {"queued", "abandoned"},
               Recover(r, revision[r], next)
        PROVE  Carries'
    BY <2>2 DEF Recover, RunStates, Active, Acquired, Terminal
  <2> QED
    BY <1>3, <2>1, <2>2 DEF Control, Requeue, Abandon
<1>4. CASE Execution
  <2>1. ASSUME NEW p \in Lanes, NEW r \in Runs, Acquire(p, r, revision[r])
        PROVE  Carries'
    BY <2>1 DEF Acquire, RunStates, Active, Acquired
  <2>2. ASSUME NEW p \in Lanes, NEW r \in Runs,
               Checkpoint(p, r, revision[r]) \/ Operation(p, r, revision[r])
        PROVE  Carries'
    BY <2>2 DEF Checkpoint, Operation
  <2>3. ASSUME NEW p \in Lanes, NEW r \in Runs, NEW outcome \in Outcomes,
               NEW claim_1 \in Claims(r), Finish(p, r, revision[r], outcome, claim_1)
        PROVE  Carries'
    <3> DEFINE absorbed == Absorbable(claim_1)
    <3>1. absorbed \subseteq Runs \ {r} /\ \A c \in absorbed : state[c] = "queued"
      BY AbsorbsOthers
    <3>2. /\ state' = [c \in Runs |-> IF c = r THEN outcome
                                      ELSE IF c \in absorbed THEN "superseded" ELSE state[c]]
          /\ inputs' = [inputs EXCEPT ![r] = @ \cup UNION {inputs[c] : c \in absorbed}]
          /\ state[r] \in Acquired
      BY <2>3 DEF Finish
    <3> HIDE DEF absorbed
    <3>3. inputs[r] # {} /\ UNION {inputs[c] : c \in absorbed} \subseteq Keys
      BY <3>1, <3>2 DEF Acquired
    <3> QED
      BY <3>1, <3>2, <3>3 DEF RunStates, Terminal, Outcomes
  <2> QED
    BY <1>4, <2>1, <2>2, <2>3 DEF Execution
<1> QED
  BY <1>1, <1>2, <1>3, <1>4 DEF Next

LEMMA NoClaimIs == NoClaim \in ClaimSets /\ DOMAIN NoClaim = {}
BY DEF ClaimSets, NoClaim

\* What a lane absorbs is a claim the store accepts.
LEMMA ClaimsAreSound ==
  ASSUME EInv, NEW p \in Lanes, NEW r \in Runs, task[p] = r, pc[p] # "idle"
  PROVE  Absorbs(p) \in Claims(r)
<1>1. claim[p] \in ClaimSets /\ r \notin DOMAIN claim[p]
  BY DEF EInv, LaneInv, LaneTypes, ClaimsOwn
<1>2. PICK C \in SUBSET Runs : claim[p] \in [C -> (SUBSET Keys) \ {{}}]
  BY <1>1 DEF ClaimSets
<1>3. claim[p] \in Claims(r)
  BY <1>1, <1>2 DEF Claims
<1>4. NoClaim \in Claims(r)
  <2>1. NoClaim \in [{} -> (SUBSET Keys) \ {{}}] /\ {} \in SUBSET (Runs \ {r})
    BY DEF NoClaim
  <2> QED
    BY <2>1 DEF Claims
<1> QED
  BY <1>3, <1>4 DEF Absorbs

-----------------------------------------------------------------------------
(* How a lane moves *)

\* A phase the lane may be in with that reason.
Fits(next, why) ==
  /\ next \in Phases \ {"idle"} /\ why \in Reasons
  /\ next = "classify" => why \in Outcomes \cup {"stale"}
  /\ next \in {"closeOperation", "commit", "reread"} => why \in Outcomes

LEMMA GoesKeeps ==
  ASSUME LaneInv, NEW p \in Lanes, pc[p] # "idle", NEW next, NEW why, NEW view,
         Fits(next, why), Goes(p, next, why, view)
  PROVE  LaneInv'
<1> USE DEF LaneInv, LaneTypes, Fits, Goes
<1>1. LaneTypes'
  OBVIOUS
<1>2. ClaimsOwn'
  BY DEF ClaimsOwn
<1>3. Decided'
  BY DEF Decided
<1> QED
  BY <1>1, <1>2, <1>3

LEMMA RetriesKeeps ==
  ASSUME LaneInv, NEW p \in Lanes, pc[p] # "idle", NEW again,
         Fits(again, reason[p]), Retries(p, again)
  PROVE  LaneInv'
<1> USE DEF LaneInv, LaneTypes, Fits, Retries
<1>1. LaneTypes'
  OBVIOUS
<1>2. ClaimsOwn'
  BY DEF ClaimsOwn
<1>3. Decided'
  BY DEF Decided
<1> QED
  BY <1>1, <1>2, <1>3

LEMMA EndsKeeps ==
  ASSUME LaneInv, NEW p \in Lanes, NEW why, Ends(p, why)
  PROVE  LaneInv'
<1> USE DEF LaneInv, LaneTypes, Ends
<1>1. LaneTypes'
  BY NoClaimIs DEF Phases, Reasons
<1>2. ClaimsOwn'
  BY DEF ClaimsOwn
<1>3. Decided'
  BY DEF Decided
<1> QED
  BY <1>1, <1>2, <1>3

LEMMA ThrowsKeeps ==
  ASSUME LaneInv, NEW p \in Lanes, pc[p] # "idle", NEW again, NEW next, NEW why,
         Fits(again, reason[p]), Fits(next, why), Throws(p, again, next, why)
  PROVE  LaneInv'
BY RetriesKeeps, GoesKeeps DEF Throws

\* A lane whose variables stay.
LEMMA LanesStay == LaneInv /\ UNCHANGED <<pc, task, reason, claim>> => LaneInv'
BY DEF LaneInv, LaneTypes, ClaimsOwn, Decided

-----------------------------------------------------------------------------
(* What a lane asks of the store is a mutation of the store *)

\* A call is applied only when it names the current revision.
LEMMA CallsAreMutations ==
  ASSUME NEW p \in Lanes, NEW r \in Runs, NEW expected,
         \/ Acquire(p, r, expected)
         \/ Checkpoint(p, r, expected)
         \/ Operation(p, r, expected)
         \/ Abandon(r, expected)
  PROVE  Next
<1>1. CASE Acquire(p, r, expected)
  <2>1. expected = revision[r]
    BY <1>1 DEF Acquire, Writes
  <2> QED
    BY <1>1, <2>1 DEF Next, Execution
<1>2. CASE Checkpoint(p, r, expected)
  <2>1. expected = revision[r]
    BY <1>2 DEF Checkpoint, Writes
  <2> QED
    BY <1>2, <2>1 DEF Next, Execution
<1>3. CASE Operation(p, r, expected)
  <2>1. expected = revision[r]
    BY <1>3 DEF Operation, Writes
  <2> QED
    BY <1>3, <2>1 DEF Next, Execution
<1>4. CASE Abandon(r, expected)
  <2>1. expected = revision[r]
    BY <1>4 DEF Abandon, Recover, Writes
  <2> QED
    BY <1>4, <2>1 DEF Next, Control
<1> QED
  BY <1>1, <1>2, <1>3, <1>4

\* So is its commit: the outcome and the claim are ones the store accepts.
LEMMA CommitsAreMutations ==
  ASSUME EInv, NEW p \in Lanes, NEW r \in Runs, task[p] = r, pc[p] = "commit",
         Finish(p, r, seen[p].revision, reason[p], Absorbs(p))
  PROVE  Next
<1>1. seen[p].revision = revision[r] /\ HoldsLease(p, r)
  BY DEF Finish
<1>2. reason[p] \in Outcomes
  BY DEF EInv, LaneInv, Decided
<1>3. Absorbs(p) \in Claims(r)
  BY ClaimsAreSound
<1>4. Finish(p, r, revision[r], reason[p], Absorbs(p))
  BY <1>1
<1> QED
  BY <1>1, <1>2, <1>3, <1>4 DEF Next, Execution

-----------------------------------------------------------------------------
(* Every step of a lane *)

\* Where a lane may go, whatever its reason.
LEMMA Roads ==
  /\ \A next \in Acquiring \cup {"run", "deliver"} \cup Closing, why \in Reasons : Fits(next, why)
  /\ \A next \in Phases \ {"idle"}, why \in Outcomes : Fits(next, why)
  /\ Fits("classify", "stale")
BY DEF Fits, Phases, Executing, Acquiring, Closing, Reasons

\* The steps by which a lane obtains its lease.
LEMMA AcquiringImplements ==
  ASSUME EInv, NEW p \in Lanes, NEW r \in Runs, task[p] = r,
         Lookup(p, r) \/ Absorbed(p, r) \/ Ask(p, r) \/ Granted(p, r)
  PROVE  LaneInv' /\ [Next]_vars
<1> USE DEF Acquiring, Closing, EInv
<1>0. reason[p] \in Reasons /\ {"none", "conflict", "store"} \subseteq Reasons
  BY DEF LaneInv, LaneTypes, Reasons
<1>1. CASE Lookup(p, r)
  <2>1. UNCHANGED vars /\ pc[p] # "idle"
    BY <1>1 DEF Lookup
  <2>2. CASE Goes(p, "absorbed", "none", View(r)) \/ Goes(p, "acquire", "none", View(r))
    BY <2>1, <2>2, <1>0, Roads, GoesKeeps
  <2>3. CASE Throws(p, "lookup", "close", "store")
    BY <2>1, <2>3, <1>0, Roads, ThrowsKeeps
  <2> QED
    BY <1>1, <2>2, <2>3 DEF Lookup
<1>2. CASE Absorbed(p, r)
  <2>1. UNCHANGED vars /\ pc[p] # "idle"
    BY <1>2 DEF Absorbed
  <2>2. CASE Ends(p, "settled")
    BY <2>1, <2>2, EndsKeeps
  <2>3. CASE Throws(p, "absorbed", "close", "store")
    BY <2>1, <2>3, <1>0, Roads, ThrowsKeeps
  <2> QED
    BY <1>2, <2>2, <2>3 DEF Absorbed
<1>3. CASE Ask(p, r)
  <2>0. pc[p] # "idle"
    BY <1>3 DEF Ask
  <2>1. CASE /\ Acquire(p, r, seen[p].revision)
             /\ pc' = [pc EXCEPT ![p] = "granted"]
             /\ UNCHANGED <<task, seen, fails, reason, claim, reports, delivered>>
    <3>1. LaneInv'
      BY <2>0, <2>1 DEF LaneInv, LaneTypes, ClaimsOwn, Decided, Phases
    <3> QED
      BY <2>1, <3>1, CallsAreMutations
  <2>2. CASE Goes(p, "close", "conflict", seen[p]) /\ UNCHANGED vars
    BY <2>0, <2>2, <1>0, Roads, GoesKeeps
  <2>3. CASE Throws(p, "acquire", "close", "store") /\ UNCHANGED vars
    BY <2>0, <2>3, <1>0, Roads, ThrowsKeeps
  <2> QED
    BY <1>3, <2>1, <2>2, <2>3 DEF Ask
<1>4. CASE Granted(p, r)
  <2>1. UNCHANGED vars /\ pc[p] # "idle"
    BY <1>4 DEF Granted
  <2>2. CASE \E view : Goes(p, "run", "none", view)
    BY <2>1, <2>2, <1>0, Roads, GoesKeeps
  <2>3. CASE Throws(p, "acquire", "close", "store")
    BY <2>1, <2>3, <1>0, Roads, ThrowsKeeps
  <2> QED
    BY <1>4, <2>2, <2>3 DEF Granted
<1> QED
  BY <1>1, <1>2, <1>3, <1>4

\* The steps of its execution.
LEMMA ExecutingImplements ==
  ASSUME EInv, NEW p \in Lanes, NEW r \in Runs, task[p] = r,
         \/ Writing(p, r) \/ Fence(p, r) \/ Breaks(p, r) \/ Completes(p, r)
         \/ Classify(p, r) \/ CloseOperation(p, r)
  PROVE  LaneInv' /\ [Next]_vars
<1> USE DEF EInv
<1>0. /\ {"classify", "closeOperation", "commit", "run"} \subseteq Phases \ {"idle"}
      /\ Outcomes \subseteq Reasons /\ {"failed", "interrupted"} \subseteq Outcomes
      /\ "none" \in Reasons
  BY DEF Phases, Executing, Reasons, Outcomes
<1>1. CASE Writing(p, r)
  <2>1. pc[p] # "idle"
    BY <1>1 DEF Writing
  <2>2. CASE /\ Checkpoint(p, r, seen[p].revision) \/ Operation(p, r, seen[p].revision)
             /\ \/ Goes(p, "run", "none", View(r)')
                \/ Goes(p, "classify", "failed", seen[p])
    <3>1. Next
      BY <2>2, CallsAreMutations
    <3>2. \E next, why, view : Fits(next, why) /\ Goes(p, next, why, view)
      BY <2>2, <1>0, Roads
    <3> QED
      BY <2>1, <3>1, <3>2, GoesKeeps
  <2>3. CASE Goes(p, "classify", "failed", seen[p]) /\ UNCHANGED vars
    BY <2>1, <2>3, <1>0, Roads, GoesKeeps
  <2> QED
    BY <1>1, <2>2, <2>3 DEF Writing
<1>2. CASE Fence(p, r)
  <2>1. UNCHANGED vars /\ pc[p] # "idle"
    BY <1>2 DEF Fence
  <2>2. Goes(p, "classify", "stale", seen[p]) \/ Goes(p, "classify", "interrupted", seen[p])
    BY <1>2 DEF Fence
  <2> QED
    BY <2>1, <2>2, <1>0, Roads, GoesKeeps
<1>3. CASE Breaks(p, r) \/ Completes(p, r)
  <2>1. UNCHANGED vars /\ pc[p] # "idle"
    BY <1>3 DEF Breaks, Completes
  <2>2. \E next \in {"classify", "commit"}, why \in Outcomes : Goes(p, next, why, seen[p])
    BY <1>3 DEF Breaks, Completes
  <2> QED
    BY <2>1, <2>2, <1>0, Roads, GoesKeeps
<1>4. CASE Classify(p, r)
  <2>1. UNCHANGED vars /\ pc[p] = "classify"
    BY <1>4 DEF Classify
  <2>2. reason[p] \in Outcomes \cup {"stale"}
    BY <2>1 DEF LaneInv, Decided
  <2>3. \E next \in {"commit", "closeOperation"}, why \in Outcomes :
          \E view : Goes(p, next, why, view)
    BY <1>4, <2>2, <1>0 DEF Classify
  <2> QED
    BY <2>1, <2>3, <1>0, Roads, GoesKeeps
<1>5. CASE CloseOperation(p, r)
  <2>1. pc[p] = "closeOperation" /\ reason[p] \in Outcomes
    BY <1>5 DEF CloseOperation, LaneInv, Decided
  <2>2. UNCHANGED vars \/ Next
    BY <1>5, CallsAreMutations DEF CloseOperation
  <2>3. \E view : Goes(p, "commit", reason[p], view)
    BY <1>5 DEF CloseOperation
  <2> QED
    BY <2>1, <2>2, <2>3, <1>0, Roads, GoesKeeps
<1> QED
  BY <1>1, <1>2, <1>3, <1>4, <1>5

\* A commit that threw, or gave up.
LEMMA CommitThrowsKeeps ==
  ASSUME LaneInv, NEW p \in Lanes, pc[p] # "idle", reason[p] \in Outcomes, CommitThrows(p)
  PROVE  LaneInv'
<1>1. Fits("commit", reason[p])
  BY Roads DEF Phases, Executing
<1> QED
  BY <1>1, RetriesKeeps, EndsKeeps DEF CommitThrows

\* The terminal commit.
LEMMA CommittingImplements ==
  ASSUME EInv, NEW p \in Lanes, NEW r \in Runs, task[p] = r,
         Commit(p, r) \/ Reread(p, r) \/ Deliver(p, r)
  PROVE  LaneInv' /\ [Next]_vars
<1> USE DEF EInv
<1>0. Outcomes \subseteq Reasons /\ {"deliver", "commit", "reread"} \subseteq Phases \ {"idle"}
  BY DEF Reasons, Phases, Executing
<1>1. CASE Commit(p, r)
  <2>1. pc[p] = "commit" /\ reason[p] \in Outcomes
    BY <1>1 DEF Commit, LaneInv, Decided
  <2>2. UNCHANGED vars \/ Next
    BY <1>1, CommitsAreMutations DEF Commit
  <2>3. CASE Goes(p, "deliver", reason[p], seen[p])
    BY <2>1, <2>2, <2>3, <1>0, Roads, GoesKeeps
  <2>4. CASE CommitThrows(p)
    BY <2>1, <2>2, <2>4, CommitThrowsKeeps
  <2>5. CASE pc' = [pc EXCEPT ![p] = "reread"] /\ UNCHANGED <<task, reason, claim>>
    <3>1. LaneInv'
      BY <2>1, <2>5, <1>0 DEF LaneInv, LaneTypes, ClaimsOwn, Decided
    <3> QED
      BY <2>2, <3>1
  <2> QED
    BY <1>1, <2>3, <2>4, <2>5 DEF Commit
<1>2. CASE Reread(p, r)
  <2>1. pc[p] = "reread" /\ reason[p] \in Outcomes /\ UNCHANGED vars
    BY <1>2 DEF Reread, LaneInv, Decided
  <2>2. CASE Goes(p, "deliver", reason[p], seen[p])
    BY <2>1, <2>2, <1>0, Roads, GoesKeeps
  <2>3. CASE \E why : Ends(p, why)
    BY <2>1, <2>3, EndsKeeps
  <2>4. CASE CommitThrows(p)
    BY <2>1, <2>4, CommitThrowsKeeps
  <2>5. CASE Reoffer(p, r)
    <3>1. reason' \in [Lanes -> Reasons] /\ reason'[p] \in Outcomes
          /\ \A q \in Lanes \ {p} : reason'[q] = reason[q]
      BY <2>1, <2>5, <1>0 DEF Reoffer, LaneInv, LaneTypes, Outcomes
    <3>2. claim' \in [Lanes -> ClaimSets] /\ claim'[p] \in {claim[p], NoClaim}
          /\ \A q \in Lanes \ {p} : claim'[q] = claim[q]
      BY <2>5, NoClaimIs DEF Reoffer, LaneInv, LaneTypes
    <3>3. pc' = [pc EXCEPT ![p] = "commit"] /\ UNCHANGED task
      BY <2>5 DEF Reoffer
    <3>4. LaneTypes' /\ Decided'
      BY <2>1, <3>1, <3>2, <3>3, <1>0 DEF LaneInv, LaneTypes, Decided
    <3>5. ClaimsOwn'
      BY <2>1, <3>2, <3>3, NoClaimIs DEF LaneInv, LaneTypes, ClaimsOwn
    <3> QED
      BY <2>1, <3>4, <3>5 DEF LaneInv
  <2> QED
    BY <1>2, <2>2, <2>3, <2>4, <2>5 DEF Reread
<1>3. CASE Deliver(p, r)
  BY <1>3, EndsKeeps DEF Deliver
<1> QED
  BY <1>1, <1>2, <1>3

\* The run closed from outside.
LEMMA ClosingImplements ==
  ASSUME EInv, NEW p \in Lanes, NEW r \in Runs, task[p] = r,
         Close(p, r) \/ Decide(p, r) \/ AbandonIt(p, r) \/ Verify(p, r)
  PROVE  LaneInv' /\ [Next]_vars
<1> USE DEF EInv
<1>0. \A next \in Closing : Fits(next, reason[p])
  BY Roads DEF LaneInv, LaneTypes
<1>1. pc[p] # "idle"
  BY DEF Close, Decide, AbandonIt, Verify
<1>2. UNCHANGED vars \/ Next
  BY CallsAreMutations DEF Close, Decide, AbandonIt, Verify
<1>3. \/ \E next \in Closing : \E view : Goes(p, next, reason[p], view)
      \/ \E again \in Closing : Retries(p, again)
      \/ \E why : Ends(p, why)
  BY DEF Close, Decide, AbandonIt, Verify, Throws, Closing
<1> QED
  BY <1>0, <1>1, <1>2, <1>3, GoesKeeps, RetriesKeeps, EndsKeeps

\* What a lane takes on extends its claim with inputs that are there.
LEMMA TakingOnKeeps ==
  ASSUME EInv, NEW p \in Lanes, NEW r \in Runs, NEW c \in Runs, task[p] = r, TakesOn(p, r, c)
  PROVE  LaneInv'
<1> USE DEF EInv, LaneInv
<1>1. PICK C \in SUBSET Runs : claim[p] \in [C -> (SUBSET Keys) \ {{}}]
  BY DEF LaneTypes, ClaimSets
<1>2. inputs[c] \in (SUBSET Keys) \ {{}}
  BY DEF TakesOn, Carries
<1> DEFINE grown == [d \in DOMAIN claim[p] \cup {c} |->
                       IF d = c THEN inputs[c] ELSE claim[p][d]]
<1>3. grown \in [C \cup {c} -> (SUBSET Keys) \ {{}}]
  BY <1>1, <1>2
<1>4. grown \in ClaimSets /\ DOMAIN grown = DOMAIN claim[p] \cup {c}
  BY <1>3 DEF ClaimSets
<1>5. /\ claim' = [claim EXCEPT ![p] = grown]
      /\ pc[p] = "run" /\ c # r /\ UNCHANGED <<pc, task, reason>>
  BY DEF TakesOn
<1> HIDE DEF grown
<1>6. LaneTypes'
  BY <1>4, <1>5 DEF LaneTypes
<1>7. ClaimsOwn'
  BY <1>4, <1>5 DEF LaneTypes, ClaimsOwn
<1>8. Decided'
  BY <1>5 DEF Decided
<1> QED
  BY <1>6, <1>7, <1>8

LEMMA HandingBackKeeps ==
  ASSUME LaneInv, NEW p \in Lanes, HandsBack(p) PROVE LaneInv'
BY NoClaimIs DEF HandsBack, LaneInv, LaneTypes, ClaimsOwn, Decided

LEMMA StartingKeeps ==
  ASSUME LaneInv, NEW p \in Lanes, NEW r \in Runs, Start(p, r) PROVE LaneInv'
<1>1. /\ pc[p] = "idle" /\ pc' = [pc EXCEPT ![p] = "lookup"]
      /\ task' = [task EXCEPT ![p] = r] /\ UNCHANGED <<reason, claim>>
  BY DEF Start
<1>2. claim[p] = NoClaim
  BY <1>1 DEF LaneInv, ClaimsOwn
<1> QED
  BY <1>1, <1>2, NoClaimIs
     DEF LaneInv, LaneTypes, ClaimsOwn, Decided, Phases, Acquiring

LEMMA CrashingKeeps ==
  ASSUME LaneInv, NEW l \in Labels, Crash(l) PROVE LaneInv'
<1>1. /\ pc' = [p \in Lanes |-> IF LabelOf[p] = l THEN "idle" ELSE pc[p]]
      /\ task' = [p \in Lanes |-> IF LabelOf[p] = l THEN None ELSE task[p]]
      /\ reason' = [p \in Lanes |-> IF LabelOf[p] = l THEN "none" ELSE reason[p]]
      /\ claim' = [p \in Lanes |-> IF LabelOf[p] = l THEN NoClaim ELSE claim[p]]
  BY DEF Crash
<1>2. LaneTypes'
  BY <1>1, NoClaimIs DEF LaneInv, LaneTypes, Phases, Reasons
<1>3. ClaimsOwn' /\ Decided'
  BY <1>1 DEF LaneInv, ClaimsOwn, Decided
<1> QED
  BY <1>2, <1>3 DEF LaneInv

-----------------------------------------------------------------------------
(* The refinement *)

\* One step of the executors, of the host or of a crash.
LEMMA StepsImplement == EInv /\ [ExecNext]_execVars => EInv' /\ [Next]_vars
<1> SUFFICES ASSUME EInv, [ExecNext]_execVars PROVE LaneInv' /\ [Next]_vars
  BY CarriesKept DEF EInv
<1>1. CASE UNCHANGED execVars
  BY <1>1, LanesStay DEF execVars, laneVars, EInv
<1>2. CASE Host
  <2>1. Next
    <3>1. CASE Admission
      BY <3>1 DEF Next
    <3>2. ASSUME NEW r \in Runs,
                 \/ Interrupt(r, revision[r])
                 \/ Requeue(r, revision[r], TRUE)
                 \/ Abandon(r, revision[r])
          PROVE  Next
      BY <3>2 DEF Next, Control
    <3> QED
      BY <1>2, <3>1, <3>2 DEF Host
  <2> QED
    BY <1>2, <2>1, LanesStay DEF Host, laneVars, EInv
<1>3. ASSUME NEW l \in Labels, Crash(l)
      PROVE  LaneInv' /\ [Next]_vars
  BY <1>3, CrashingKeeps DEF Crash, EInv
<1>4. ASSUME NEW p \in Lanes, NEW r \in Runs, Start(p, r)
      PROVE  LaneInv' /\ [Next]_vars
  BY <1>4, StartingKeeps DEF Start, EInv
<1>5. ASSUME NEW p \in Lanes, Lane(p)
      PROVE  LaneInv' /\ [Next]_vars
  <2>1. PICK r \in Runs : task[p] = r /\ Step(p, r)
    BY <1>5 DEF Lane
  <2> QED
    BY <2>1, AcquiringImplements, ExecutingImplements, CommittingImplements,
       ClosingImplements DEF Step
<1>6. ASSUME NEW p \in Lanes, NEW r \in Runs, NEW c \in Runs, task[p] = r, TakesOn(p, r, c)
      PROVE  LaneInv' /\ [Next]_vars
  BY <1>6, TakingOnKeeps DEF TakesOn
<1>7. ASSUME NEW p \in Lanes, HandsBack(p)
      PROVE  LaneInv' /\ [Next]_vars
  BY <1>7, HandingBackKeeps DEF HandsBack, EInv
<1> QED
  BY <1>1, <1>2, <1>3, <1>4, <1>5, <1>6, <1>7 DEF ExecNext

LEMMA ExecInitImplements == ExecInit => Init /\ EInv
<1> SUFFICES ASSUME ExecInit PROVE EInv
  BY DEF ExecInit
<1>1. Carries
  BY DEF ExecInit, Init, Carries, RunStates
<1>2. LaneTypes /\ ClaimsOwn /\ Decided
  BY NoClaimIs DEF ExecInit, LaneTypes, ClaimsOwn, Decided, Phases, Reasons
<1> QED
  BY <1>1, <1>2 DEF EInv, LaneInv

\* Whatever executors race, lose replies, crash or recover, the store they share
\* behaves as its specification says: terminal-commit.ts and run-*.ts only ever
\* ask for mutations that the reducers accept.
THEOREM ExecutorsImplementStore == ExecSpec => Spec
BY ExecInitImplements, StepsImplement, PTL DEF ExecSpec, Spec

\* So what holds of the store holds of every conversation executors work on.
THEOREM TurnsUnderExecutors ==
  ExecSpec => [](OneOpenTurn /\ LeasesDiffer /\ AnsweredOnce /\ StartsInOrder)
              /\ FencedAnswers /\ SettledIsFinal
BY ExecutorsImplementStore, OneTurn, NoLeaseTwice, EveryInputCarriedOnce, OrderedStarts,
   Fenced, SettledStays, PTL

-----------------------------------------------------------------------------
(* What a lane knows of the run it executes *)

\* The lane acts as if no interrupt had been recorded.
Unaware(p) == pc[p] = "run" \/ (pc[p] \in {"commit", "reread"} /\ reason[p] = "completed")

\* Of its run r, the lane p has read the past; and a lane that is not aware of an
\* interrupt has not read one.
Aware(p, r) ==
  /\ state[r] # "absent"
  /\ seen[p].revision <= revision[r]
  /\ pc[p] = "granted" =>
       /\ seen[p].revision < revision[r]
       /\ revision[r] = seen[p].revision + 1 => state[r] = "running"
  /\ Unaware(p) /\ seen[p].revision = revision[r] => state[r] = "running"
  /\ pc[p] \in {"classify", "closeOperation"} => reason[p] # "completed"

AwareInv ==
  /\ seen \in [Lanes -> Views]
  /\ \A p \in Lanes : pc[p] = "idle" => seen[p] = Unread
  /\ \A p \in Lanes, r \in Runs : task[p] = r => Aware(p, r)

\* No mutation takes an identity back.
LEMMA AdmittedStays ==
  ASSUME TypeOK, [Next]_vars, NEW r \in Runs, state[r] # "absent"
  PROVE  state'[r] # "absent"
<1> USE DEF TypeOK
<1>1. CASE UNCHANGED vars
  BY <1>1 DEF vars
<1>2. CASE Admission
  <2>1. ASSUME NEW k \in Keys, NEW s \in Runs, NEW priority \in BOOLEAN,
               NEW created \in Stamps, Accept(k, s, priority, created)
        PROVE  state'[r] # "absent"
    BY <2>1 DEF Accept
  <2>2. ASSUME NEW k \in Keys, NEW s \in Runs, Coalesce(k, s)
        PROVE  state'[r] # "absent"
    BY <2>2 DEF Coalesce
  <2> QED
    BY <1>2, <2>1, <2>2 DEF Admission
<1>3. CASE Control
  <2>1. ASSUME NEW s \in Runs, Interrupt(s, revision[s])
        PROVE  state'[r] # "absent"
    BY <2>1 DEF Interrupt
  <2>2. ASSUME NEW s \in Runs, NEW next \in {"queued", "abandoned"},
               Recover(s, revision[s], next)
        PROVE  state'[r] # "absent"
    BY <2>2 DEF Recover
  <2> QED
    BY <1>3, <2>1, <2>2 DEF Control, Requeue, Abandon
<1>4. CASE Execution
  <2>1. ASSUME NEW p \in Lanes, NEW s \in Runs, Acquire(p, s, revision[s])
        PROVE  state'[r] # "absent"
    BY <2>1 DEF Acquire
  <2>2. ASSUME NEW p \in Lanes, NEW s \in Runs,
               Checkpoint(p, s, revision[s]) \/ Operation(p, s, revision[s])
        PROVE  state'[r] # "absent"
    BY <2>2 DEF Checkpoint, Operation
  <2>3. ASSUME NEW p \in Lanes, NEW s \in Runs, NEW outcome \in Outcomes,
               NEW claim_1 \in Claims(s), Finish(p, s, revision[s], outcome, claim_1)
        PROVE  state'[r] # "absent"
    BY <2>3 DEF Finish, Outcomes
  <2> QED
    BY <1>4, <2>1, <2>2, <2>3 DEF Execution
<1> QED
  BY <1>1, <1>2, <1>3, <1>4 DEF Next

\* What the others do to its run only makes what a lane knows older.
LEMMA Older ==
  ASSUME TypeOK, [Next]_vars, AwareInv, NEW p \in Lanes, NEW r \in Runs, task[p] = r
  PROVE  /\ revision[r] \in Nat /\ revision'[r] \in Nat /\ seen[p].revision \in Nat
         /\ seen[p].revision <= revision[r] /\ revision[r] <= revision'[r]
         /\ revision'[r] = revision[r] => state'[r] = state[r]
         /\ state'[r] # "absent"
<1>1. seen[p].revision \in Nat /\ revision[r] \in Nat /\ Aware(p, r)
  BY DEF TypeOK, AwareInv, Views
<1>2. \/ state'[r] = state[r] /\ revision'[r] = revision[r]
      \/ revision'[r] = revision[r] + 1
  <2>1. CASE UNCHANGED vars
    BY <2>1 DEF vars
  <2>2. CASE Next
    BY <1>1, <2>2, WritesAreCounted DEF Record, Aware
  <2> QED
    BY <2>1, <2>2
<1> QED
  BY <1>1, <1>2, AdmittedStays DEF Aware

LEMMA AwareFramed ==
  ASSUME TypeOK, [Next]_vars, AwareInv, NEW p \in Lanes, NEW r \in Runs, task[p] = r,
         pc'[p] = pc[p], seen'[p] = seen[p], reason'[p] = reason[p]
  PROVE  Aware(p, r)'
<1>1. Aware(p, r)
  BY DEF AwareInv
<1> QED
  BY <1>1, Older DEF Aware, Unaware

\* A lane whose own variables stay, while the store moves.
LEMMA AwareOthers ==
  ASSUME TypeOK, [Next]_vars, AwareInv, UNCHANGED <<pc, task, seen, reason>>
  PROVE  AwareInv'
<1>1. \A p \in Lanes, r \in Runs : task[p] = r => Aware(p, r)'
  BY AwareFramed
<1> QED
  BY <1>1 DEF AwareInv

\* A view the lane may go on with, to `next` and with the reason `why`.
Suits(r, next, why, view) ==
  /\ next \in Phases \ {"idle", "granted"}
  /\ view \in Views /\ view.revision <= revision'[r]
  /\ (next = "run" \/ (next \in {"commit", "reread"} /\ why = "completed"))
       /\ view.revision = revision'[r] => state'[r] = "running"
  /\ next \in {"classify", "closeOperation"} => why # "completed"

LEMMA GoesAware ==
  ASSUME TypeOK, [Next]_vars, AwareInv, LaneInv, NEW p \in Lanes, NEW r \in Runs, task[p] = r,
         NEW next, NEW why, NEW view, Suits(r, next, why, view), Goes(p, next, why, view)
  PROVE  AwareInv'
<1> USE DEF Goes, LaneInv, LaneTypes
<1>1. ASSUME NEW q \in Lanes, q # p, NEW c \in Runs, task[q] = c PROVE Aware(q, c)'
  <2>1. pc'[q] = pc[q] /\ seen'[q] = seen[q] /\ reason'[q] = reason[q]
    BY <1>1 DEF AwareInv
  <2> QED
    BY <1>1, <2>1, AwareFramed
<1>2. Aware(p, r)'
  <2>1. pc'[p] = next /\ seen'[p] = view /\ reason'[p] = why
    BY DEF AwareInv
  <2>2. state'[r] # "absent"
    BY AdmittedStays DEF AwareInv, Aware
  <2> QED
    BY <2>1, <2>2 DEF Aware, Unaware, Suits
<1>3. UNCHANGED task
  OBVIOUS
<1>4. /\ seen' \in [Lanes -> Views]
      /\ \A q \in Lanes : pc'[q] = "idle" => seen'[q] = Unread
  BY DEF AwareInv, Suits
<1> QED
  BY <1>1, <1>2, <1>3, <1>4 DEF AwareInv

\* A lane that stays with its view, and with its reason.
LEMMA StaysAware ==
  ASSUME TypeOK, [Next]_vars, AwareInv, LaneInv, NEW p \in Lanes, NEW r \in Runs, task[p] = r,
         NEW again, Suits(r, again, reason[p], seen[p]),
         pc' = [pc EXCEPT ![p] = again], UNCHANGED <<task, seen, reason>>
  PROVE  AwareInv'
<1> USE DEF LaneInv, LaneTypes
<1>1. ASSUME NEW q \in Lanes, q # p, NEW c \in Runs, task[q] = c PROVE Aware(q, c)'
  BY <1>1, AwareFramed
<1>2. Aware(p, r)'
  <2>1. state'[r] # "absent"
    BY AdmittedStays DEF AwareInv, Aware
  <2> QED
    BY <2>1 DEF Aware, Unaware, Suits
<1>3. \A q \in Lanes : pc'[q] = "idle" => seen'[q] = Unread
  BY DEF AwareInv, Suits
<1> QED
  BY <1>1, <1>2, <1>3 DEF AwareInv

LEMMA EndsAware ==
  ASSUME TypeOK, [Next]_vars, AwareInv, LaneInv, NEW p \in Lanes, NEW result, Ends(p, result)
  PROVE  AwareInv'
<1> USE DEF Ends, LaneInv, LaneTypes
<1>1. ASSUME NEW q \in Lanes, q # p, NEW c \in Runs, task[q] = c PROVE Aware(q, c)'
  <2>1. pc'[q] = pc[q] /\ seen'[q] = seen[q] /\ reason'[q] = reason[q]
    BY <1>1 DEF AwareInv
  <2> QED
    BY <1>1, <2>1, AwareFramed
<1>2. \A q \in Lanes, c \in Runs : task'[q] = c => q # p /\ task[q] = c
  BY StoreAssumption
<1>3. /\ seen' \in [Lanes -> Views]
      /\ \A q \in Lanes : pc'[q] = "idle" => seen'[q] = Unread
  BY DEF AwareInv, Views, Unread, RunStates
<1> QED
  BY <1>1, <1>2, <1>3 DEF AwareInv

\* What the lane had read suits any phase, unless it would make it unaware.
LEMMA OldViewSuits ==
  ASSUME TypeOK, [Next]_vars, AwareInv, NEW p \in Lanes, NEW r \in Runs, task[p] = r,
         NEW next \in Phases \ {"idle", "granted", "run"}, NEW why,
         next \in {"commit", "reread"} /\ why = "completed" => Unaware(p),
         next \in {"classify", "closeOperation"} => why # "completed"
  PROVE  Suits(r, next, why, seen[p])
<1>1. seen[p] \in Views /\ Aware(p, r)
  BY DEF AwareInv
<1>2. seen[p].revision <= revision'[r]
  BY Older
<1>3. ASSUME next \in {"commit", "reread"}, why = "completed", seen[p].revision = revision'[r]
      PROVE  state'[r] = "running"
  <2>1. seen[p].revision = revision[r] /\ state'[r] = state[r]
    BY <1>3, Older
  <2> QED
    BY <1>1, <1>3, <2>1 DEF Aware
<1> QED
  BY <1>1, <1>2, <1>3 DEF Suits

\* So does the record as it is after the step.
LEMMA NewViewSuits ==
  ASSUME TypeOK', NEW r \in Runs, NEW next \in Phases \ {"idle", "granted"}, NEW why,
         next = "run" \/ (next \in {"commit", "reread"} /\ why = "completed")
           => state'[r] = "running",
         next \in {"classify", "closeOperation"} => why # "completed"
  PROVE  Suits(r, next, why, View(r)')
<1>1. View(r)' \in Views /\ View(r)'.revision = revision'[r] /\ revision'[r] \in Nat
  BY DEF TypeOK, View, Views
<1> QED
  BY <1>1 DEF Suits

\* The phases that any view suits.
Calm == Phases \ {"idle", "granted", "run", "classify", "closeOperation", "commit", "reread"}

LEMMA ThrowsAware ==
  ASSUME TypeOK, [Next]_vars, AwareInv, LaneInv, NEW p \in Lanes, NEW r \in Runs, task[p] = r,
         NEW again \in Calm, NEW next \in Calm, NEW why, Throws(p, again, next, why)
  PROVE  AwareInv'
<1>1. CASE Retries(p, again)
  <2>1. Suits(r, again, reason[p], seen[p])
    BY OldViewSuits DEF Calm
  <2> QED
    BY <1>1, <2>1, StaysAware DEF Retries
<1>2. CASE Goes(p, next, why, seen[p])
  <2>1. Suits(r, next, why, seen[p])
    BY OldViewSuits DEF Calm
  <2> QED
    BY <1>2, <2>1, GoesAware
<1> QED
  BY <1>1, <1>2 DEF Throws

-----------------------------------------------------------------------------
(* Every step keeps the lanes aware *)

LEMMA AcquiringAware ==
  ASSUME TypeOK, TypeOK', [Next]_vars, AwareInv, LaneInv,
         NEW p \in Lanes, NEW r \in Runs, task[p] = r,
         Lookup(p, r) \/ Absorbed(p, r) \/ Ask(p, r) \/ Granted(p, r)
  PROVE  AwareInv'
<1>0. {"lookup", "absorbed", "acquire", "close"} \subseteq Calm
  BY DEF Calm, Phases, Acquiring, Closing
<1>1. CASE Lookup(p, r)
  <2>1. UNCHANGED vars
    BY <1>1 DEF Lookup
  <2>2. CASE \E next \in Calm : Goes(p, next, "none", View(r))
    <3>1. PICK next \in Calm : Goes(p, next, "none", View(r))
      BY <2>2
    <3>2. View(r)' = View(r)
      BY <2>1 DEF vars, leaseVars, View
    <3>3. Suits(r, next, "none", View(r)')
      BY NewViewSuits DEF Calm
    <3>4. Suits(r, next, "none", View(r))
      BY <3>2, <3>3
    <3> QED
      BY <3>1, <3>4, GoesAware
  <2>3. CASE Throws(p, "lookup", "close", "store")
    BY <2>3, <1>0, ThrowsAware
  <2> QED
    BY <1>0, <1>1, <2>2, <2>3 DEF Lookup
<1>2. CASE Absorbed(p, r)
  BY <1>0, <1>2, EndsAware, ThrowsAware DEF Absorbed
<1>3. CASE Ask(p, r)
  <2>1. CASE /\ Acquire(p, r, seen[p].revision)
             /\ pc' = [pc EXCEPT ![p] = "granted"]
             /\ UNCHANGED <<task, seen, fails, reason, claim, reports, delivered>>
    <3>1. /\ state'[r] = "running" /\ revision'[r] = seen[p].revision + 1
          /\ seen[p].revision \in Nat
      BY <2>1, Older DEF Acquire, Writes, TypeOK
    <3>2. ASSUME NEW q \in Lanes, q # p, NEW c \in Runs, task[q] = c PROVE Aware(q, c)'
      BY <2>1, <3>2, AwareFramed DEF LaneInv, LaneTypes
    <3>3. Aware(p, r)'
      BY <2>1, <3>1 DEF Aware, Unaware, LaneInv, LaneTypes
    <3>4. \A q \in Lanes : pc'[q] = "idle" => seen'[q] = Unread
      BY <2>1 DEF AwareInv, LaneInv, LaneTypes
    <3> QED
      BY <2>1, <3>2, <3>3, <3>4 DEF AwareInv
  <2>2. CASE Goes(p, "close", "conflict", seen[p])
    BY <1>0, <2>2, OldViewSuits, GoesAware DEF Calm
  <2>3. CASE Throws(p, "acquire", "close", "store")
    BY <1>0, <2>3, ThrowsAware
  <2> QED
    BY <1>3, <2>1, <2>2, <2>3 DEF Ask
<1>4. CASE Granted(p, r)
  <2>1. UNCHANGED vars /\ pc[p] = "granted"
    BY <1>4 DEF Granted
  <2>2. CASE Goes(p, "run", "none",
                  [state |-> "running", owner |-> LabelOf[p], token |-> lease[p].token,
                   revision |-> seen[p].revision + 1])
    <3> DEFINE view == [state |-> "running", owner |-> LabelOf[p],
                        token |-> lease[p].token, revision |-> seen[p].revision + 1]
    <3>1. view \in Views
      BY StoreAssumption, Older DEF TypeOK, Views, RunStates, Active, Acquired
    <3>2. /\ seen[p].revision + 1 <= revision[r]
          /\ revision[r] = seen[p].revision + 1 => state[r] = "running"
          /\ revision'[r] = revision[r] /\ state'[r] = state[r]
      BY <2>1, Older DEF AwareInv, Aware, vars
    <3>3. Suits(r, "run", "none", view)
      BY <3>1, <3>2 DEF Suits, Phases, Executing
    <3> QED
      BY <2>2, <3>3, GoesAware
  <2>3. CASE Throws(p, "acquire", "close", "store")
    BY <1>0, <2>3, ThrowsAware
  <2> QED
    BY <1>4, <2>2, <2>3 DEF Granted
<1> QED
  BY <1>1, <1>2, <1>3, <1>4

LEMMA ExecutingAware ==
  ASSUME TypeOK, TypeOK', [Next]_vars, AwareInv, LaneInv,
         NEW p \in Lanes, NEW r \in Runs, task[p] = r,
         \/ Writing(p, r) \/ Fence(p, r) \/ Breaks(p, r) \/ Completes(p, r)
         \/ Classify(p, r) \/ CloseOperation(p, r)
  PROVE  AwareInv'
<1>0. /\ {"classify", "closeOperation", "commit"} \subseteq Phases \ {"idle", "granted", "run"}
      /\ "run" \in Phases \ {"idle", "granted"}
  BY DEF Phases, Executing
<1>1. CASE Writing(p, r)
  <2>1. CASE Goes(p, "run", "none", View(r)') /\ ~UNCHANGED vars
    <3>1. Checkpoint(p, r, seen[p].revision) \/ Operation(p, r, seen[p].revision)
      BY <1>1, <2>1 DEF Writing, Goes, LaneInv, LaneTypes
    <3>2. seen[p].revision = revision[r] /\ state' = state /\ pc[p] = "run"
      BY <1>1, <3>1 DEF Writing, Checkpoint, Operation, Writes
    <3>3. state'[r] = "running"
      BY <3>2 DEF AwareInv, Aware, Unaware
    <3>4. Suits(r, "run", "none", View(r)')
      BY <1>0, <3>3, NewViewSuits
    <3> QED
      BY <2>1, <3>4, GoesAware
  <2>2. CASE Goes(p, "classify", "failed", seen[p])
    BY <1>0, <2>2, OldViewSuits, GoesAware
  <2>3. CASE Goes(p, "run", "none", View(r)') /\ UNCHANGED vars
    <3>1. Checkpoint(p, r, seen[p].revision) \/ Operation(p, r, seen[p].revision)
      BY <1>1, <2>3 DEF Writing, Goes, LaneInv, LaneTypes
    <3> QED
      BY <2>3, <3>1 DEF Checkpoint, Operation, Writes, Applied, vars, TypeOK
  <2> QED
    BY <1>1, <2>1, <2>2, <2>3 DEF Writing
<1>2. CASE Fence(p, r) \/ Breaks(p, r)
  <2>1. \E why : why # "completed" /\ Goes(p, "classify", why, seen[p])
    BY <1>2 DEF Fence, Breaks
  <2> QED
    BY <1>0, <2>1, OldViewSuits, GoesAware
<1>3. CASE Completes(p, r)
  <2>1. Unaware(p) /\ \E why : Goes(p, "commit", why, seen[p])
    BY <1>3 DEF Completes, Unaware
  <2> QED
    BY <1>0, <2>1, OldViewSuits, GoesAware
<1>4. CASE Classify(p, r)
  <2>1. UNCHANGED vars /\ reason[p] # "completed"
    BY <1>4 DEF Classify, AwareInv, Aware
  <2>2. View(r)' = View(r)
    BY <2>1 DEF vars, leaseVars, View
  <2>3. \E next \in {"commit", "closeOperation"}, view \in {View(r)', seen[p]} :
          \E why : why # "completed" /\ Goes(p, next, why, view)
    BY <1>4, <2>1, <2>2 DEF Classify
  <2>4. PICK next \in {"commit", "closeOperation"}, view \in {View(r)', seen[p]} :
          \E why : why # "completed" /\ Goes(p, next, why, view)
    BY <2>3
  <2>5. PICK why : why # "completed" /\ Goes(p, next, why, view)
    BY <2>4
  <2>6. Suits(r, next, why, view)
    BY <1>0, <2>5, OldViewSuits, NewViewSuits
  <2> QED
    BY <2>5, <2>6, GoesAware
<1>5. CASE CloseOperation(p, r)
  <2>1. reason[p] # "completed"
    BY <1>5 DEF CloseOperation, AwareInv, Aware
  <2>2. PICK view \in {View(r)', seen[p]} : Goes(p, "commit", reason[p], view)
    BY <1>5 DEF CloseOperation
  <2>3. Suits(r, "commit", reason[p], view)
    BY <1>0, <2>1, <2>2, OldViewSuits, NewViewSuits
  <2> QED
    BY <2>2, <2>3, GoesAware
<1> QED
  BY <1>1, <1>2, <1>3, <1>4, <1>5

LEMMA CommitThrowsAware ==
  ASSUME TypeOK, [Next]_vars, AwareInv, LaneInv, NEW p \in Lanes, NEW r \in Runs, task[p] = r,
         pc[p] \in {"commit", "reread"}, CommitThrows(p)
  PROVE  AwareInv'
<1>1. CASE Retries(p, "commit")
  <2>1. Suits(r, "commit", reason[p], seen[p])
    BY OldViewSuits DEF Unaware, Phases, Executing
  <2> QED
    BY <1>1, <2>1, StaysAware DEF Retries
<1>2. CASE Ends(p, "unsettled")
  BY <1>2, EndsAware
<1> QED
  BY <1>1, <1>2 DEF CommitThrows

LEMMA CommittingAware ==
  ASSUME TypeOK, TypeOK', [Next]_vars, AwareInv, LaneInv,
         NEW p \in Lanes, NEW r \in Runs, task[p] = r,
         Commit(p, r) \/ Reread(p, r) \/ Deliver(p, r)
  PROVE  AwareInv'
<1>0. /\ {"deliver", "commit", "reread"} \subseteq Phases \ {"idle", "granted", "run"}
  BY DEF Phases, Executing
<1>1. CASE Commit(p, r)
  <2>1. CASE Goes(p, "deliver", reason[p], seen[p])
    BY <1>0, <2>1, OldViewSuits, GoesAware
  <2>2. CASE CommitThrows(p)
    BY <1>1, <2>2, CommitThrowsAware DEF Commit
  <2>3. CASE pc' = [pc EXCEPT ![p] = "reread"] /\ UNCHANGED <<task, seen, reason>>
    <3>1. Suits(r, "reread", reason[p], seen[p])
      BY <1>0, <1>1, OldViewSuits DEF Commit, Unaware
    <3> QED
      BY <2>3, <3>1, StaysAware
  <2> QED
    BY <1>1, <2>1, <2>2, <2>3 DEF Commit
<1>2. CASE Reread(p, r)
  <2>1. CASE Goes(p, "deliver", reason[p], seen[p])
    BY <1>0, <2>1, OldViewSuits, GoesAware
  <2>2. CASE \E result : Ends(p, result)
    BY <2>2, EndsAware
  <2>3. CASE CommitThrows(p)
    BY <1>2, <2>3, CommitThrowsAware DEF Reread
  <2>4. CASE Reoffer(p, r)
    <3> USE DEF LaneInv, LaneTypes
    <3>1. /\ UNCHANGED <<vars, task>> /\ state[r] \in Acquired
          /\ pc' = [pc EXCEPT ![p] = "commit"]
          /\ seen' = [seen EXCEPT ![p] = View(r)] /\ View(r) \in Views
          /\ View(r).revision = revision[r]
      BY <1>2, <2>4 DEF Reread, Reoffer, MayRetry, TypeOK, View, Views
    <3>2. /\ \A q \in Lanes \ {p} : reason'[q] = reason[q]
          /\ state[r] = "interrupt_requested" => reason'[p] # "completed"
      BY <2>4 DEF Reoffer
    <3>3. ASSUME NEW q \in Lanes, q # p, NEW c \in Runs, task[q] = c PROVE Aware(q, c)'
      <4>1. pc'[q] = pc[q] /\ seen'[q] = seen[q] /\ reason'[q] = reason[q]
        BY <3>1, <3>2, <3>3 DEF AwareInv
      <4> QED
        BY <3>3, <4>1, AwareFramed
    <3>4. Aware(p, r)'
      <4>1. /\ pc'[p] = "commit" /\ seen'[p].revision = revision[r]
            /\ state' = state /\ revision' = revision /\ revision[r] \in Nat
        BY <3>1 DEF AwareInv, vars, TypeOK
      <4> QED
        BY <3>1, <3>2, <4>1 DEF Aware, Unaware, Acquired
    <3>5. /\ seen' \in [Lanes -> Views]
          /\ \A q \in Lanes : pc'[q] = "idle" => seen'[q] = Unread
      BY <3>1 DEF AwareInv
    <3> QED
      BY <3>1, <3>3, <3>4, <3>5 DEF AwareInv
  <2> QED
    BY <1>2, <2>1, <2>2, <2>3, <2>4 DEF Reread
<1>3. CASE Deliver(p, r)
  BY <1>3, EndsAware DEF Deliver
<1> QED
  BY <1>1, <1>2, <1>3

LEMMA ClosingAware ==
  ASSUME TypeOK, TypeOK', [Next]_vars, AwareInv, LaneInv,
         NEW p \in Lanes, NEW r \in Runs, task[p] = r,
         Close(p, r) \/ Decide(p, r) \/ AbandonIt(p, r) \/ Verify(p, r)
  PROVE  AwareInv'
<1>0. Closing \subseteq Calm
  BY DEF Calm, Closing, Phases
<1>1. CASE Close(p, r) /\ Goes(p, "decide", reason[p], View(r))
  <2>1. View(r)' = View(r)
    BY <1>1 DEF Close, vars, leaseVars, View
  <2>2. Suits(r, "decide", reason[p], View(r)')
    BY <1>0, NewViewSuits DEF Calm, Closing
  <2>3. Suits(r, "decide", reason[p], View(r))
    BY <2>1, <2>2
  <2> QED
    BY <1>1, <2>3, GoesAware
<1>2. CASE \E next \in Closing : Goes(p, next, reason[p], seen[p])
  <2>1. \A next \in Closing : Suits(r, next, reason[p], seen[p])
    BY <1>0, OldViewSuits DEF Calm
  <2> QED
    BY <1>2, <2>1, GoesAware
<1>3. CASE \E again \in Closing : Retries(p, again)
  <2>1. \A again \in Closing : Suits(r, again, reason[p], seen[p])
    BY <1>0, OldViewSuits DEF Calm
  <2> QED
    BY <1>3, <2>1, StaysAware DEF Retries
<1>4. CASE \E result : Ends(p, result)
  BY <1>4, EndsAware
<1> QED
  BY <1>1, <1>2, <1>3, <1>4 DEF Close, Decide, AbandonIt, Verify, Throws, Closing

\* So a step keeps every lane aware.
LEMMA StepsAware ==
  TypeOK /\ TypeOK' /\ EInv /\ AwareInv /\ [ExecNext]_execVars => AwareInv'
<1> SUFFICES ASSUME TypeOK, TypeOK', EInv, AwareInv, [ExecNext]_execVars PROVE AwareInv'
  OBVIOUS
<1>0. LaneInv /\ [Next]_vars
  BY StepsImplement DEF EInv
<1>1. CASE UNCHANGED execVars \/ Host
  BY <1>0, <1>1, AwareOthers DEF execVars, laneVars, Host
<1>2. ASSUME NEW l \in Labels, Crash(l) PROVE AwareInv'
  <2>1. /\ pc' = [p \in Lanes |-> IF LabelOf[p] = l THEN "idle" ELSE pc[p]]
        /\ task' = [p \in Lanes |-> IF LabelOf[p] = l THEN None ELSE task[p]]
        /\ seen' = [p \in Lanes |-> IF LabelOf[p] = l THEN Unread ELSE seen[p]]
        /\ reason' = [p \in Lanes |-> IF LabelOf[p] = l THEN "none" ELSE reason[p]]
    BY <1>2 DEF Crash
  <2>2. ASSUME NEW q \in Lanes, NEW c \in Runs, task'[q] = c PROVE Aware(q, c)'
    <3>1. LabelOf[q] # l /\ task[q] = c
      BY <2>1, <2>2, StoreAssumption
    <3> QED
      BY <1>0, <2>1, <3>1, AwareFramed
  <2>3. /\ seen' \in [Lanes -> Views]
        /\ \A q \in Lanes : pc'[q] = "idle" => seen'[q] = Unread
    BY <2>1 DEF AwareInv, Views, Unread, RunStates
  <2> QED
    BY <2>2, <2>3 DEF AwareInv
<1>3. ASSUME NEW p \in Lanes, NEW r \in Runs, Start(p, r) PROVE AwareInv'
  <2> USE DEF LaneInv, LaneTypes
  <2>1. /\ pc[p] = "idle" /\ pc' = [pc EXCEPT ![p] = "lookup"]
        /\ task' = [task EXCEPT ![p] = r] /\ UNCHANGED <<vars, seen, reason>>
        /\ state[r] # "absent"
    BY <1>3 DEF Start
  <2>2. ASSUME NEW q \in Lanes, q # p, NEW c \in Runs, task'[q] = c PROVE Aware(q, c)'
    <3>1. task[q] = c /\ pc'[q] = pc[q]
      BY <1>0, <2>1, <2>2
    <3> QED
      BY <1>0, <2>1, <3>1, AwareFramed
  <2>3. Aware(p, r)'
    <3>1. seen'[p] = Unread /\ pc'[p] = "lookup" /\ state'[r] = state[r]
          /\ revision'[r] \in Nat
      BY <1>0, <2>1 DEF AwareInv, TypeOK, vars
    <3> QED
      BY <2>1, <3>1 DEF Aware, Unaware, Unread
  <2>4. /\ seen' \in [Lanes -> Views]
        /\ \A q \in Lanes : pc'[q] = "idle" => seen'[q] = Unread
        /\ task'[p] = r
    BY <1>0, <2>1 DEF AwareInv
  <2> QED
    BY <2>2, <2>3, <2>4 DEF AwareInv
<1>4. ASSUME NEW p \in Lanes, Lane(p) PROVE AwareInv'
  <2>1. PICK r \in Runs : task[p] = r /\ Step(p, r)
    BY <1>4 DEF Lane
  <2> QED
    BY <1>0, <2>1, AcquiringAware, ExecutingAware, CommittingAware, ClosingAware DEF Step
<1>5. ASSUME NEW p \in Lanes, NEW r \in Runs, NEW c \in Runs, TakesOn(p, r, c)
      PROVE  AwareInv'
  BY <1>0, <1>5, AwareOthers DEF TakesOn
<1>6. ASSUME NEW p \in Lanes, HandsBack(p) PROVE AwareInv'
  BY <1>0, <1>6, AwareOthers DEF HandsBack
<1> QED
  BY <1>1, <1>2, <1>3, <1>4, <1>5, <1>6 DEF ExecNext

\* An executor's calls, its commit apart, complete nothing.
LEMMA OnlyCommitsComplete ==
  ASSUME TypeOK, NEW p, NEW r \in Runs, NEW c \in Runs, NEW expected,
         \/ UNCHANGED vars \/ Admission
         \/ Acquire(p, c, expected) \/ Checkpoint(p, c, expected) \/ Operation(p, c, expected)
         \/ Interrupt(c, expected) \/ Requeue(c, expected, TRUE) \/ Abandon(c, expected),
         state[r] # "completed"
  PROVE  state'[r] # "completed"
<1> USE DEF TypeOK
<1>1. CASE UNCHANGED vars
  BY <1>1 DEF vars
<1>2. CASE Admission
  BY <1>2 DEF Admission, Accept, Coalesce
<1>3. CASE Acquire(p, c, expected) \/ Checkpoint(p, c, expected) \/ Operation(p, c, expected)
  BY <1>3 DEF Acquire, Checkpoint, Operation
<1>4. CASE Interrupt(c, expected) \/ Requeue(c, expected, TRUE) \/ Abandon(c, expected)
  BY <1>4 DEF Interrupt, Requeue, Abandon, Recover
<1> QED
  BY <1>1, <1>2, <1>3, <1>4

\* A commit of an aware lane does not complete an interrupted run.
LEMMA StepsHonour ==
  ASSUME TypeOK, EInv, AwareInv, ExecNext, NEW r \in Runs, state[r] = "interrupt_requested"
  PROVE  state'[r] # "completed"
<1>0. state[r] # "completed"
  OBVIOUS
<1>1. CASE Host \/ \E l \in Labels : Crash(l)
  BY <1>0, <1>1, OnlyCommitsComplete DEF Host, Crash
<1>2. CASE \/ \E p \in Lanes, c \in Runs : Start(p, c)
           \/ \E p \in Lanes, c, d \in Runs : task[p] = c /\ TakesOn(p, c, d)
           \/ \E p \in Lanes : HandsBack(p)
  <2>1. UNCHANGED vars
    BY <1>2 DEF Start, TakesOn, HandsBack
  <2> QED
    BY <1>0, <2>1, OnlyCommitsComplete
<1>3. ASSUME NEW p \in Lanes, NEW c \in Runs, task[p] = c, Commit(p, c)
      PROVE  state'[r] # "completed"
  <2>1. CASE UNCHANGED vars
    BY <1>0, <2>1, OnlyCommitsComplete
  <2>2. CASE Finish(p, c, seen[p].revision, reason[p], Absorbs(p)) /\ r # c
    BY <2>2 DEF Finish
  <2>3. CASE Finish(p, c, seen[p].revision, reason[p], Absorbs(p)) /\ r = c
    <3>1. state'[r] = reason[p] /\ seen[p].revision = revision[r]
      BY <2>3 DEF Finish
    <3>2. reason[p] = "completed" => Unaware(p)
      BY <1>3 DEF Commit, Unaware
    <3> QED
      BY <1>3, <2>3, <3>1, <3>2 DEF AwareInv, Aware
  <2> QED
    BY <1>3, <2>1, <2>2, <2>3 DEF Commit
<1>4. ASSUME NEW p \in Lanes, NEW c \in Runs, Step(p, c), ~Commit(p, c)
      PROVE  state'[r] # "completed"
  <2>1. \/ UNCHANGED vars
        \/ \E expected : \/ Acquire(p, c, expected) \/ Checkpoint(p, c, expected)
                          \/ Operation(p, c, expected) \/ Abandon(c, expected)
    <3>1. CASE Ask(p, c) \/ Writing(p, c) \/ CloseOperation(p, c) \/ AbandonIt(p, c)
      BY <3>1 DEF Ask, Writing, CloseOperation, AbandonIt
    <3>2. CASE \/ Lookup(p, c) \/ Absorbed(p, c) \/ Granted(p, c) \/ Fence(p, c)
               \/ Breaks(p, c) \/ Completes(p, c) \/ Classify(p, c) \/ Reread(p, c)
               \/ Deliver(p, c) \/ Close(p, c) \/ Decide(p, c) \/ Verify(p, c)
      BY <3>2 DEF Lookup, Absorbed, Granted, Fence, Breaks, Completes, Classify, Reread,
                  Deliver, Close, Decide, Verify
    <3> QED
      BY <1>4, <3>1, <3>2 DEF Step
  <2> QED
    BY <1>0, <2>1, OnlyCommitsComplete
<1> QED
  BY <1>1, <1>2, <1>3, <1>4 DEF ExecNext, Lane

\* InterruptHonoured for every number of executors, runs and failures: the commit
\* names the revision the executor last read, an interrupt moves it, and every
\* road by which the executor learns the new one (terminal-commit.ts re-reading
\* the record, the fence, the catch) makes the outcome an interruption.
THEOREM Honoured == ExecSpec => InterruptHonoured
<1>1. ExecInit => Init /\ EInv
  BY ExecInitImplements
<1>2. ExecInit => AwareInv
  <2> SUFFICES ASSUME ExecInit PROVE AwareInv
    OBVIOUS
  <2>1. /\ seen = [p \in Lanes |-> Unread] /\ task = [p \in Lanes |-> None]
    BY DEF ExecInit
  <2>2. Unread \in Views
    BY DEF Unread, Views, RunStates
  <2> QED
    BY <2>1, <2>2, StoreAssumption DEF AwareInv
<1>3. ExecSpec => []TypeOK
  BY ExecutorsImplementStore, TypeCorrect, PTL
<1>4. TypeOK /\ EInv /\ AwareInv /\ [ExecNext]_execVars
        => [\A r \in Runs :
              state[r] = "interrupt_requested" => state'[r] # "completed"]_execVars
  BY StepsHonour
<1> QED
  BY <1>1, <1>2, <1>3, <1>4, StepsImplement, StepsAware, PTL DEF ExecSpec, InterruptHonoured

-----------------------------------------------------------------------------
(* One answer, and nobody left in silence *)

\* A process runs a run once at a time: the coordinator of runtime-submit.ts and
\* runtime-recovery.ts executes one job per key, and a run has one key.
OneJobPerRun == \A p, q \in Lanes :
  p # q /\ task[p] # None /\ task[p] = task[q] => LabelOf[p] # LabelOf[q]

OutTypes ==
  /\ tickets \in [Runs -> Nat]
  /\ reports \in [Runs -> SUBSET Results]
  /\ delivered \in [Runs -> Nat]
  /\ author \in [Runs -> Lanes \cup {None}]

\* A lane that was granted the lease of its run r has the only lease of r under its
\* label, so a terminal it finds under that label is the one it committed.
Holds(p, r) ==
  /\ lease[p].run = r
  /\ owner[r] = LabelOf[p] =>
       /\ token[r] = lease[p].token
       /\ state[r] \in Terminal => author[r] = p /\ delivered[r] = 0

\* What a lane knows of its run in each phase.
Knows(p, r) ==
  /\ pc[p] # "idle"
  /\ pc[p] \in Executing \cup {"granted"} => Holds(p, r)
  /\ pc[p] \in Executing => seen[p].token = lease[p].token
  /\ pc[p] = "deliver" => state[r] \in Outcomes /\ owner[r] = LabelOf[p]
  /\ pc[p] = "announce" => state[r] = "abandoned"
  /\ pc[p] = "absorbed" => into[r] # None
  /\ pc[p] = "decide" =>
       /\ seen[p].state \notin Active => state[r] \in Terminal
       /\ seen[p].owner # None => token[r] # 0
       /\ state[r] \in Acquired /\ owner[r] = LabelOf[p] => seen[p].owner = LabelOf[p]

\* What the store says of a run.
Standing(r) ==
  /\ state[r] \in {"absent", "queued", "abandoned"} => owner[r] = None
  /\ state[r] \in Acquired \/ owner[r] # None => token[r] # 0
  /\ state[r] = "absent" => tickets[r] = 0
  /\ state[r] \notin Terminal => delivered[r] = 0
  /\ state[r] \in Outcomes => delivered[r] <= 1

KnowInv ==
  /\ OutTypes
  /\ \A p \in Lanes, r \in Runs : task[p] = r => Knows(p, r)
  /\ \A r \in Runs : Standing(r)

\* What one step of a lane does to the store and to what was published of its run.
Effect(p, r) ==
  \/ UNCHANGED <<vars, author, delivered>>
  \/ Acquire(p, r, revision[r]) /\ UNCHANGED <<author, delivered>>
  \/ /\ Checkpoint(p, r, revision[r]) \/ Operation(p, r, revision[r])
     /\ UNCHANGED <<author, delivered>>
  \/ /\ \E outcome \in Outcomes, taken \in Claims(r) : Finish(p, r, revision[r], outcome, taken)
     /\ author' = [author EXCEPT ![r] = p] /\ UNCHANGED delivered
  \/ /\ Abandon(r, revision[r])
     /\ author' = [author EXCEPT ![r] = p] /\ UNCHANGED delivered
  \/ /\ pc[p] \in {"deliver", "announce"}
     /\ delivered' = [delivered EXCEPT ![r] = @ + 1]
     /\ UNCHANGED <<vars, author>>

\* What a lane q that does not move may find changed of its run.
Elsewhere(q, c) ==
  /\ lease'[q] = lease[q]
  /\ owner'[c] = LabelOf[q] => owner[c] = LabelOf[q] /\ token'[c] = token[c]
  /\ owner'[c] = LabelOf[q] =>
       /\ state'[c] \in Terminal => state[c] \in Terminal
       /\ state'[c] \in Acquired => state[c] \in Acquired
  /\ state[c] \in Terminal =>
       /\ state'[c] = state[c] /\ author'[c] = author[c] /\ owner'[c] = owner[c]
       /\ owner[c] = LabelOf[q] => delivered'[c] = delivered[c]
  /\ into[c] # None => into'[c] # None
  /\ token[c] # 0 => token'[c] # 0

LEMMA KnowsFramed ==
  ASSUME NEW q \in Lanes, NEW c \in Runs, Knows(q, c), Elsewhere(q, c),
         pc'[q] = pc[q], seen'[q] = seen[q]
  PROVE  Knows(q, c)'
<1>1. \A s : s \in Outcomes \cup {"abandoned"} => s \in Terminal
  BY DEF Terminal
<1>2. pc[q] \in Executing \cup {"granted"} => Holds(q, c)'
  BY DEF Knows, Holds, Elsewhere
<1> QED
  BY <1>1, <1>2 DEF Knows, Elsewhere

\* Runs apart: nobody shares the label of a lane that has the run's ticket.
LEMMA EffectElsewhere ==
  ASSUME TypeOK, KnowInv, OneJobPerRun,
         NEW p \in Lanes, NEW r \in Runs, task[p] = r, Effect(p, r),
         NEW q \in Lanes, q # p, NEW c \in Runs, task[q] = c
  PROVE  Elsewhere(q, c)
<1> USE DEF TypeOK
<1>0. /\ c = r => LabelOf[p] # LabelOf[q]
      /\ LabelOf[p] \in Labels /\ LabelOf[q] \in Labels /\ LabelOf[q] # None
      /\ Standing(r) /\ Standing(c) /\ OutTypes
      /\ r # None
  BY StoreAssumption DEF OneJobPerRun, KnowInv
<1>1. CASE UNCHANGED <<vars, author, delivered>>
  BY <1>1 DEF vars, leaseVars, Elsewhere
<1>2. CASE Acquire(p, r, revision[r]) /\ UNCHANGED <<author, delivered>>
  <2>1. /\ state[r] = "queued" /\ UNCHANGED <<into, author, delivered>>
        /\ state' = [state EXCEPT ![r] = "running"]
        /\ owner' = [owner EXCEPT ![r] = LabelOf[p]]
        /\ token' = [token EXCEPT ![r] = token[r] + 1]
        /\ lease' = [lease EXCEPT ![p] = [run |-> r, token |-> token[r] + 1]]
    BY <1>2 DEF Acquire
  <2> QED
    BY <1>0, <2>1 DEF Elsewhere, Terminal, Outcomes
<1>3. CASE /\ Checkpoint(p, r, revision[r]) \/ Operation(p, r, revision[r])
           /\ UNCHANGED <<author, delivered>>
  BY <1>3 DEF Checkpoint, Operation, leaseVars, Elsewhere
<1>4. CASE /\ \E outcome \in Outcomes, taken \in Claims(r) :
                Finish(p, r, revision[r], outcome, taken)
           /\ author' = [author EXCEPT ![r] = p] /\ UNCHANGED delivered
  <2>1. PICK outcome \in Outcomes, taken \in Claims(r) :
               Finish(p, r, revision[r], outcome, taken)
    BY <1>4
  <2> DEFINE absorbed == Absorbable(taken)
  <2>2. absorbed \subseteq Runs \ {r} /\ \A d \in absorbed : state[d] = "queued"
    BY AbsorbsOthers
  <2>3. /\ state[r] \in Acquired /\ owner[r] = LabelOf[p]
        /\ state' = [d \in Runs |-> IF d = r THEN outcome
                                    ELSE IF d \in absorbed THEN "superseded" ELSE state[d]]
        /\ into' = [d \in Runs |-> IF d \in absorbed THEN r ELSE into[d]]
        /\ UNCHANGED <<owner, token, lease>>
    BY <2>1 DEF Finish, HoldsLease, leaseVars
  <2> HIDE DEF absorbed
  <2>4. CASE c = r
    BY <1>0, <2>2, <2>3, <2>4 DEF Elsewhere, Terminal, Outcomes, Acquired
  <2>5. CASE c # r
    <3>1. c \in absorbed => owner[c] = None /\ state[c] \notin Terminal
      BY <1>0, <2>2 DEF Standing, Terminal, Outcomes
    <3>2. author'[c] = author[c] /\ delivered'[c] = delivered[c]
      BY <1>0, <1>4, <2>5 DEF OutTypes
    <3> QED
      BY <1>0, <2>3, <2>5, <3>1, <3>2 DEF Elsewhere
  <2> QED
    BY <2>4, <2>5
<1>5. CASE /\ Abandon(r, revision[r])
           /\ author' = [author EXCEPT ![r] = p] /\ UNCHANGED delivered
  <2>1. /\ state[r] \in Active /\ UNCHANGED <<token, lease, into, delivered>>
        /\ state' = [state EXCEPT ![r] = "abandoned"]
        /\ owner' = [owner EXCEPT ![r] = None]
    BY <1>5 DEF Abandon, Recover
  <2> QED
    BY <1>0, <1>5, <2>1 DEF Elsewhere, OutTypes, Terminal, Outcomes, Active, Acquired
<1>6. CASE /\ pc[p] \in {"deliver", "announce"}
           /\ delivered' = [delivered EXCEPT ![r] = @ + 1]
           /\ UNCHANGED <<vars, author>>
  <2>1. c = r => owner[c] # LabelOf[q]
    BY <1>0, <1>6 DEF KnowInv, Knows, Standing
  <2>2. delivered \in [Runs -> Nat]
    BY <1>0 DEF OutTypes
  <2> QED
    BY <1>6, <2>1, <2>2 DEF vars, leaseVars, Elsewhere
<1> QED
  BY <1>1, <1>2, <1>3, <1>4, <1>5, <1>6 DEF Effect

\* What the host does is not of a lane's label either.
LEMMA HostElsewhere ==
  ASSUME TypeOK, KnowInv, Host, NEW q \in Lanes, NEW c \in Runs
  PROVE  Elsewhere(q, c)
<1> USE DEF TypeOK
<1>0. LabelOf[q] \in Labels /\ LabelOf[q] # None /\ UNCHANGED <<author, delivered>>
  BY StoreAssumption DEF Host, outVars
<1>1. ASSUME NEW k \in Keys, NEW r \in Runs, NEW priority \in BOOLEAN,
             NEW created \in Stamps, Accept(k, r, priority, created)
      PROVE  Elsewhere(q, c)
  BY <1>0, <1>1 DEF Accept, leaseVars, Elsewhere, Terminal, Outcomes, Acquired
<1>2. ASSUME NEW k \in Keys, NEW r \in Runs, Coalesce(k, r)
      PROVE  Elsewhere(q, c)
  BY <1>0, <1>2 DEF Coalesce, leaseVars, Elsewhere
<1>3. ASSUME NEW r \in Runs, Interrupt(r, revision[r])
      PROVE  Elsewhere(q, c)
  BY <1>0, <1>3 DEF Interrupt, leaseVars, Elsewhere, Terminal, Outcomes, Acquired
<1>4. ASSUME NEW r \in Runs, NEW next, Recover(r, revision[r], next)
      PROVE  Elsewhere(q, c)
  BY <1>0, <1>4 DEF Recover, leaseVars, Elsewhere, Terminal, Outcomes, Active, Acquired
<1> QED
  BY <1>1, <1>2, <1>3, <1>4 DEF Host, Admission, Requeue, Abandon

-----------------------------------------------------------------------------
(* What is published, and by whom *)

\* Standing says nothing of the lanes: it is kept by an effect or by the host.
LEMMA EffectStanding ==
  ASSUME TypeOK, KnowInv, NEW p \in Lanes, NEW r \in Runs, task[p] = r, Effect(p, r),
         UNCHANGED tickets,
         NEW c \in Runs
  PROVE  Standing(c)'
<1> USE DEF TypeOK
<1>0. /\ Standing(r) /\ Standing(c) /\ OutTypes /\ LabelOf[p] \in Labels
      /\ Knows(p, r)
  BY StoreAssumption DEF KnowInv
<1>1. CASE UNCHANGED <<vars, author, delivered>>
  BY <1>0, <1>1 DEF vars, leaseVars, Standing
<1>2. CASE Acquire(p, r, revision[r]) /\ UNCHANGED <<author, delivered>>
  <2>1. /\ state[r] = "queued" /\ UNCHANGED delivered
        /\ state' = [state EXCEPT ![r] = "running"]
        /\ owner' = [owner EXCEPT ![r] = LabelOf[p]]
        /\ token' = [token EXCEPT ![r] = token[r] + 1]
    BY <1>2 DEF Acquire
  <2> QED
    BY <1>0, <2>1 DEF Standing, Terminal, Outcomes
<1>3. CASE /\ Checkpoint(p, r, revision[r]) \/ Operation(p, r, revision[r])
           /\ UNCHANGED <<author, delivered>>
  BY <1>0, <1>3 DEF Checkpoint, Operation, leaseVars, Standing
<1>4. CASE /\ \E outcome \in Outcomes, taken \in Claims(r) :
                Finish(p, r, revision[r], outcome, taken)
           /\ author' = [author EXCEPT ![r] = p] /\ UNCHANGED delivered
  <2>1. PICK outcome \in Outcomes, taken \in Claims(r) :
               Finish(p, r, revision[r], outcome, taken)
    BY <1>4
  <2>2. \A d \in Absorbable(taken) : state[d] = "queued"
    BY AbsorbsOthers
  <2>3. /\ state[r] \in Acquired
        /\ state'[c] \in {state[c]} \/ (c = r /\ state'[c] \in Outcomes)
             \/ (state[c] = "queued" /\ state'[c] = "superseded")
        /\ UNCHANGED <<owner, token, delivered>>
    BY <1>4, <2>1, <2>2 DEF Finish, leaseVars
  <2> QED
    BY <1>0, <2>3 DEF Standing, Terminal, Outcomes, Acquired, OutTypes
<1>5. CASE /\ Abandon(r, revision[r])
           /\ author' = [author EXCEPT ![r] = p] /\ UNCHANGED delivered
  <2>1. /\ state[r] \in Active /\ UNCHANGED <<token, delivered>>
        /\ state' = [state EXCEPT ![r] = "abandoned"]
        /\ owner' = [owner EXCEPT ![r] = None]
    BY <1>5 DEF Abandon, Recover
  <2> QED
    BY <1>0, <2>1 DEF Standing, Terminal, Outcomes, Active, Acquired
<1>6. CASE /\ pc[p] \in {"deliver", "announce"}
           /\ delivered' = [delivered EXCEPT ![r] = @ + 1]
           /\ UNCHANGED <<vars, author>>
  <2>1. CASE c = r
    <3>1. state[r] \in Terminal
      BY <1>0, <1>6 DEF Knows, Terminal
    <3>2. state[r] \in Outcomes => delivered[r] = 0
      <4>1. state[r] \in Outcomes => pc[p] = "deliver"
        BY <1>0, <1>6 DEF Knows, Outcomes
      <4> QED
        BY <1>0, <3>1, <4>1 DEF Knows, Holds, Executing
    <3> QED
      BY <1>0, <1>6, <2>1, <3>1, <3>2 DEF vars, leaseVars, Standing, OutTypes
  <2>2. CASE c # r
    BY <1>0, <1>6, <2>2 DEF vars, leaseVars, Standing, OutTypes
  <2> QED
    BY <2>1, <2>2
<1> QED
  BY <1>1, <1>2, <1>3, <1>4, <1>5, <1>6 DEF Effect

LEMMA HostStanding ==
  ASSUME TypeOK, KnowInv, Host, NEW c \in Runs
  PROVE  Standing(c)'
<1> USE DEF TypeOK
<1>0. Standing(c) /\ OutTypes /\ UNCHANGED <<author, delivered, tickets>>
  BY DEF KnowInv, Host, outVars
<1>1. ASSUME NEW k \in Keys, NEW r \in Runs, NEW priority \in BOOLEAN,
             NEW created \in Stamps, Accept(k, r, priority, created)
      PROVE  Standing(c)'
  BY <1>0, <1>1 DEF Accept, leaseVars, Standing, Terminal, Outcomes, Acquired
<1>2. ASSUME NEW k \in Keys, NEW r \in Runs, Coalesce(k, r)
      PROVE  Standing(c)'
  BY <1>0, <1>2 DEF Coalesce, leaseVars, Standing
<1>3. ASSUME NEW r \in Runs, Interrupt(r, revision[r])
      PROVE  Standing(c)'
  BY <1>0, <1>3 DEF Interrupt, leaseVars, Standing, Terminal, Outcomes, Acquired
<1>4. ASSUME NEW r \in Runs, NEW next \in {"queued", "abandoned"},
             Recover(r, revision[r], next)
      PROVE  Standing(c)'
  BY <1>0, <1>4 DEF Recover, leaseVars, Standing, Terminal, Outcomes, Active, Acquired
<1> QED
  BY <1>1, <1>2, <1>3, <1>4 DEF Host, Admission, Requeue, Abandon

-----------------------------------------------------------------------------
(* What the lane that moves knows afterwards *)

\* The phases in which a lane relies on nothing.
Free == Phases \ (Executing \cup {"idle", "granted", "announce", "absorbed", "decide"})

LEMMA FreeKnows ==
  ASSUME NEW p \in Lanes, NEW r \in Runs, pc'[p] \in Free
  PROVE  Knows(p, r)'
BY DEF Free, Knows, Executing

\* A lane goes on executing while the store and what was published stay.
LEMMA StillKnows ==
  ASSUME NEW p \in Lanes, NEW r \in Runs, Knows(p, r),
         pc[p] \in Executing \cup {"granted"}, UNCHANGED <<vars, author, delivered>>,
         pc'[p] \in Executing, seen'[p].token = lease[p].token,
         pc'[p] = "deliver" => state[r] \in Outcomes /\ owner[r] = LabelOf[p]
  PROVE  Knows(p, r)'
BY DEF Knows, Holds, vars, leaseVars, Executing

\* How a lane's own variables move.
LEMMA Moves ==
  ASSUME LaneInv, seen \in [Lanes -> Views], NEW p \in Lanes
  PROVE  /\ \A next, why, view : Goes(p, next, why, view) =>
              /\ pc'[p] = next /\ seen'[p] = view /\ UNCHANGED <<task, delivered, reports>>
              /\ \A q \in Lanes \ {p} : pc'[q] = pc[q] /\ seen'[q] = seen[q]
         /\ \A again : Retries(p, again) =>
              /\ pc'[p] = again /\ UNCHANGED <<task, seen, delivered, reports>>
              /\ \A q \in Lanes \ {p} : pc'[q] = pc[q]
         /\ \A result : Ends(p, result) =>
              /\ task'[p] = None /\ pc'[p] = "idle"
              /\ \A q \in Lanes \ {p} :
                   pc'[q] = pc[q] /\ seen'[q] = seen[q] /\ task'[q] = task[q]
BY DEF LaneInv, LaneTypes, Goes, Retries, Ends

\* Every step leaves the other lanes as they are, and p with its ticket or idle.
Alone(p, r) ==
  /\ \A q \in Lanes \ {p} : pc'[q] = pc[q] /\ seen'[q] = seen[q] /\ task'[q] = task[q]
  /\ task'[p] = r \/ (task'[p] = None /\ pc'[p] = "idle")

\* What a step keeps of what the lane knows, and what it does to the rest.
Sound(p, r) == Effect(p, r) /\ Alone(p, r) /\ (task'[p] = r => Knows(p, r)')

LEMMA ThrowsSound ==
  ASSUME LaneInv, seen \in [Lanes -> Views], NEW p \in Lanes, NEW r \in Runs, task[p] = r,
         UNCHANGED <<vars, author>>, NEW again \in Free, NEW next \in Free, NEW why,
         Throws(p, again, next, why)
  PROVE  Sound(p, r)
<1>1. pc'[p] \in Free /\ Alone(p, r) /\ UNCHANGED delivered
  BY Moves DEF Throws, Alone
<1> QED
  BY <1>1, FreeKnows DEF Sound, Effect

LEMMA AcquiringSound ==
  ASSUME TypeOK, TypeOK', LaneInv, AwareInv, KnowInv, NEW p \in Lanes, NEW r \in Runs,
         task[p] = r, Lookup(p, r) \/ Absorbed(p, r) \/ Ask(p, r) \/ Granted(p, r)
  PROVE  Sound(p, r)
<1>0. /\ {"lookup", "absorbed", "acquire", "close"} \subseteq Phases
      /\ {"lookup", "acquire", "close"} \subseteq Free
      /\ Knows(p, r) /\ seen \in [Lanes -> Views] /\ r # None
  BY StoreAssumption DEF Free, Phases, Acquiring, Closing, Executing, KnowInv, AwareInv
<1>1. CASE Lookup(p, r)
  <2>1. UNCHANGED <<vars, author>> /\ pc[p] = "lookup"
    BY <1>1 DEF Lookup, Quiet
  <2>2. CASE into[r] # None /\ Goes(p, "absorbed", "none", View(r))
    <3>1. pc'[p] = "absorbed" /\ Alone(p, r) /\ UNCHANGED delivered
      BY <1>0, <2>2, Moves DEF Alone
    <3> QED
      BY <2>1, <2>2, <3>1 DEF Sound, Effect, Knows, Executing, vars
  <2>3. CASE Goes(p, "acquire", "none", View(r))
    <3>1. pc'[p] = "acquire" /\ Alone(p, r) /\ UNCHANGED delivered
      BY <1>0, <2>3, Moves DEF Alone
    <3> QED
      BY <1>0, <2>1, <3>1, FreeKnows DEF Sound, Effect
  <2>4. CASE Throws(p, "lookup", "close", "store")
    BY <1>0, <2>1, <2>4, ThrowsSound
  <2> QED
    BY <1>1, <2>2, <2>3, <2>4 DEF Lookup
<1>2. CASE Absorbed(p, r)
  <2>1. UNCHANGED <<vars, author>> /\ pc[p] = "absorbed"
    BY <1>2 DEF Absorbed, Quiet
  <2>2. CASE Ends(p, "settled") /\ UNCHANGED delivered
    BY <1>0, <2>1, <2>2, Moves DEF Sound, Effect, Alone
  <2>3. CASE Retries(p, "absorbed")
    <3>1. pc'[p] = "absorbed" /\ Alone(p, r) /\ UNCHANGED delivered
      BY <1>0, <2>3, Moves DEF Alone
    <3> QED
      BY <1>0, <2>1, <3>1 DEF Sound, Effect, Knows, Executing, vars
  <2>4. CASE Goes(p, "close", "store", seen[p])
    <3>1. pc'[p] = "close" /\ Alone(p, r) /\ UNCHANGED delivered
      BY <1>0, <2>4, Moves DEF Alone
    <3> QED
      BY <1>0, <2>1, <3>1, FreeKnows DEF Sound, Effect
  <2> QED
    BY <1>2, <2>2, <2>3, <2>4 DEF Absorbed, Throws
<1>3. CASE Ask(p, r)
  <2>0. UNCHANGED author
    BY <1>3 DEF Ask, Quiet
  <2>1. CASE /\ Acquire(p, r, seen[p].revision)
             /\ pc' = [pc EXCEPT ![p] = "granted"]
             /\ UNCHANGED <<task, seen, fails, reason, claim, reports, delivered>>
    <3>1. /\ seen[p].revision = revision[r] /\ state'[r] = "running"
          /\ token'[r] = token[r] + 1
          /\ lease'[p] = [run |-> r, token |-> token[r] + 1]
      BY <2>1 DEF Acquire, Writes, TypeOK
    <3>2. pc'[p] = "granted" /\ Alone(p, r)
      BY <1>0, <2>1 DEF Alone, LaneInv, LaneTypes
    <3>3. Knows(p, r)'
      BY <3>1, <3>2 DEF Knows, Holds, Executing, Terminal, Outcomes
    <3> QED
      BY <2>0, <2>1, <3>1, <3>2, <3>3 DEF Sound, Effect
  <2>2. CASE Goes(p, "close", "conflict", seen[p]) /\ UNCHANGED vars
    <3>1. pc'[p] = "close" /\ Alone(p, r) /\ UNCHANGED delivered
      BY <1>0, <2>2, Moves DEF Alone
    <3> QED
      BY <1>0, <2>0, <2>2, <3>1, FreeKnows DEF Sound, Effect
  <2>3. CASE Throws(p, "acquire", "close", "store") /\ UNCHANGED vars
    BY <1>0, <2>0, <2>3, ThrowsSound
  <2> QED
    BY <1>3, <2>1, <2>2, <2>3 DEF Ask
<1>4. CASE Granted(p, r)
  <2>1. UNCHANGED <<vars, author>> /\ pc[p] = "granted"
    BY <1>4 DEF Granted, Quiet
  <2>2. CASE Goes(p, "run", "none",
                  [state |-> "running", owner |-> LabelOf[p], token |-> lease[p].token,
                   revision |-> seen[p].revision + 1])
    <3>1. /\ pc'[p] = "run" /\ Alone(p, r) /\ UNCHANGED delivered
          /\ seen'[p].token = lease[p].token
      BY <1>0, <2>2, Moves DEF Alone
    <3>2. Knows(p, r)'
      BY <1>0, <2>1, <3>1, StillKnows DEF Executing
    <3> QED
      BY <2>1, <3>1, <3>2 DEF Sound, Effect
  <2>3. CASE Throws(p, "acquire", "close", "store")
    BY <1>0, <2>1, <2>3, ThrowsSound
  <2> QED
    BY <1>4, <2>2, <2>3 DEF Granted
<1> QED
  BY <1>1, <1>2, <1>3, <1>4

\* A lane that goes on executing with a view under its own lease.
LEMMA GoesSound ==
  ASSUME LaneInv, seen \in [Lanes -> Views], NEW p \in Lanes, NEW r \in Runs, task[p] = r,
         Knows(p, r), pc[p] \in Executing, UNCHANGED <<vars, author>>,
         NEW next \in Executing, NEW why, NEW view, view.token = lease[p].token,
         next = "deliver" => state[r] \in Outcomes /\ owner[r] = LabelOf[p],
         Goes(p, next, why, view)
  PROVE  Sound(p, r)
<1>1. pc'[p] = next /\ seen'[p] = view /\ Alone(p, r) /\ UNCHANGED delivered
  BY Moves DEF Alone
<1>2. Knows(p, r)'
  BY <1>1, StillKnows
<1> QED
  BY <1>1, <1>2 DEF Sound, Effect

LEMMA ExecutingSound ==
  ASSUME TypeOK, TypeOK', LaneInv, AwareInv, KnowInv, NEW p \in Lanes, NEW r \in Runs,
         task[p] = r,
         \/ Writing(p, r) \/ Fence(p, r) \/ Breaks(p, r) \/ Completes(p, r)
         \/ Classify(p, r) \/ CloseOperation(p, r)
  PROVE  Sound(p, r)
<1>0. /\ {"run", "classify", "closeOperation", "commit"} \subseteq Executing \ {"deliver"}
      /\ Knows(p, r) /\ seen \in [Lanes -> Views]
  BY DEF Executing, KnowInv, AwareInv
<1>a. /\ pc[p] \in Executing /\ UNCHANGED author
      /\ seen[p].token = lease[p].token /\ Holds(p, r)
  BY <1>0 DEF Writing, Fence, Breaks, Completes, Classify, CloseOperation, Quiet, Knows
<1>1. ASSUME UNCHANGED vars,
             NEW next \in {"run", "classify", "closeOperation", "commit"}, NEW why, NEW view,
             view.token = lease[p].token, Goes(p, next, why, view)
      PROVE  Sound(p, r)
  BY <1>0, <1>a, <1>1, GoesSound
<1>2. ASSUME Checkpoint(p, r, seen[p].revision) \/ Operation(p, r, seen[p].revision),
             NEW next \in {"run", "classify", "closeOperation", "commit"}, NEW why,
             NEW view \in {View(r)', seen[p]}, Goes(p, next, why, view)
      PROVE  Sound(p, r)
  <2>1. /\ revision[r] = seen[p].revision /\ UNCHANGED <<state, owner, token, lease>>
        /\ token[r] = lease[p].token
    BY <1>2 DEF Checkpoint, Operation, Writes, HoldsLease, leaseVars
  <2>2. /\ pc'[p] = next /\ Alone(p, r) /\ UNCHANGED delivered
        /\ seen'[p].token = lease[p].token
    BY <1>0, <1>a, <1>2, <2>1, Moves DEF Alone, View
  <2>3. Knows(p, r)'
    BY <1>0, <1>a, <2>1, <2>2 DEF Knows, Holds, Executing
  <2> QED
    BY <1>a, <1>2, <2>1, <2>2, <2>3 DEF Sound, Effect
<1>3. CASE Writing(p, r) \/ CloseOperation(p, r)
  BY <1>a, <1>1, <1>2, <1>3 DEF Writing, CloseOperation
<1>4. CASE Fence(p, r) \/ Breaks(p, r) \/ Completes(p, r)
  <2>1. UNCHANGED vars /\ \E next \in {"classify", "commit"} : \E why : Goes(p, next, why, seen[p])
    BY <1>4 DEF Fence, Breaks, Completes
  <2> QED
    BY <1>a, <1>1, <2>1
<1>5. CASE Classify(p, r)
  <2>1. UNCHANGED vars
    BY <1>5 DEF Classify
  <2>2. owner[r] = LabelOf[p] => View(r).token = lease[p].token
    BY <1>a DEF Holds, View
  <2>3. \E next \in {"commit", "closeOperation"} : \E why :
          \E view : view.token = lease[p].token /\ Goes(p, next, why, view)
    BY <1>5, <1>a, <2>2 DEF Classify
  <2> QED
    BY <1>1, <2>1, <2>3
<1> QED
  BY <1>3, <1>4, <1>5

LEMMA CommittingSound ==
  ASSUME TypeOK, TypeOK', EInv, AwareInv, KnowInv, NEW p \in Lanes, NEW r \in Runs,
         task[p] = r, Commit(p, r) \/ Reread(p, r) \/ Deliver(p, r)
  PROVE  Sound(p, r)
<1>0. /\ {"deliver", "commit", "reread"} \subseteq Executing
      /\ Knows(p, r) /\ seen \in [Lanes -> Views] /\ LaneInv /\ Standing(r) /\ OutTypes
      /\ r # None
  BY StoreAssumption DEF Executing, KnowInv, AwareInv, EInv
<1>1. ASSUME pc[p] \in {"commit", "reread"}, UNCHANGED <<vars, author>>, CommitThrows(p)
      PROVE  Sound(p, r)
  <2>1. CASE Retries(p, "commit")
    <3>1. pc'[p] = "commit" /\ Alone(p, r) /\ UNCHANGED <<delivered, seen>>
      BY <1>0, <2>1, Moves DEF Alone
    <3>2. Knows(p, r)'
      BY <1>0, <1>1, <3>1, StillKnows DEF Knows
    <3> QED
      BY <1>1, <3>1, <3>2 DEF Sound, Effect
  <2>2. CASE Ends(p, "unsettled") /\ UNCHANGED delivered
    BY <1>0, <1>1, <2>2, Moves DEF Sound, Effect, Alone
  <2> QED
    BY <1>1, <2>1, <2>2 DEF CommitThrows
<1>2. CASE Commit(p, r)
  <2>0. /\ pc[p] = "commit" /\ reason[p] \in Outcomes /\ Absorbs(p) \in Claims(r)
        /\ seen[p].token = lease[p].token
    BY <1>0, <1>2, ClaimsAreSound DEF Commit, LaneInv, Decided, Knows
  <2>1. CASE /\ Finish(p, r, seen[p].revision, reason[p], Absorbs(p))
             /\ author' = [author EXCEPT ![r] = p]
             /\ Goes(p, "deliver", reason[p], seen[p]) \/ CommitThrows(p)
    <3>1. /\ seen[p].revision = revision[r] /\ state[r] \in Acquired
          /\ owner[r] = LabelOf[p] /\ token[r] = lease[p].token /\ lease[p].run = r
          /\ state'[r] = reason[p] /\ UNCHANGED <<owner, token, lease>>
      BY <2>1 DEF Finish, HoldsLease, leaseVars
    <3>2. /\ Alone(p, r) /\ UNCHANGED delivered
          /\ task'[p] = r => pc'[p] \in {"deliver", "commit"} /\ seen'[p] = seen[p]
      <4>1. CASE Goes(p, "deliver", reason[p], seen[p]) \/ Retries(p, "commit")
        BY <1>0, <4>1, Moves DEF Alone
      <4>2. CASE Ends(p, "unsettled") /\ UNCHANGED delivered
        BY <1>0, <4>2, Moves DEF Alone
      <4> QED
        BY <2>1, <4>1, <4>2 DEF CommitThrows
    <3>3. author'[r] = p /\ delivered'[r] = 0
      BY <1>0, <2>1, <3>1, <3>2 DEF OutTypes, Standing, Acquired, Terminal, Outcomes
    <3>4. task'[p] = r => Knows(p, r)'
      BY <2>0, <3>1, <3>2, <3>3 DEF Knows, Holds, Executing
    <3>5. Effect(p, r)
      BY <2>0, <2>1, <3>1, <3>2 DEF Effect
    <3> QED
      BY <3>2, <3>4, <3>5 DEF Sound
  <2>2. CASE /\ pc' = [pc EXCEPT ![p] = "reread"]
             /\ UNCHANGED <<vars, task, seen, fails, reason, claim, reports, delivered, author>>
    <3>1. pc'[p] = "reread" /\ Alone(p, r)
      BY <1>0, <2>2 DEF Alone, LaneInv, LaneTypes
    <3>2. Knows(p, r)'
      BY <1>0, <2>0, <2>2, <3>1, StillKnows
    <3> QED
      BY <2>2, <3>1, <3>2 DEF Sound, Effect
  <2>3. CASE CommitThrows(p) /\ UNCHANGED <<vars, author>>
    BY <1>1, <2>0, <2>3
  <2> QED
    BY <1>2, <2>1, <2>2, <2>3 DEF Commit
<1>3. CASE Reread(p, r)
  <2>0. pc[p] = "reread" /\ UNCHANGED <<vars, author>> /\ seen[p].token = lease[p].token
    BY <1>0, <1>3 DEF Reread, Quiet, Knows
  <2>1. CASE state[r] \in Terminal /\ CommittedHere(p, r) /\ Goes(p, "deliver", reason[p], seen[p])
    <3>1. state[r] \in Outcomes /\ owner[r] = LabelOf[p]
      BY <1>0, <2>1, StoreAssumption DEF CommittedHere, Standing, Terminal
    <3> QED
      BY <1>0, <2>0, <2>1, <3>1, GoesSound
  <2>2. CASE (\E result : Ends(p, result)) /\ UNCHANGED delivered
    BY <1>0, <2>0, <2>2, Moves DEF Sound, Effect, Alone
  <2>3. CASE Reoffer(p, r)
    <3>1. /\ pc'[p] = "commit" /\ Alone(p, r) /\ seen'[p].token = lease[p].token
          /\ UNCHANGED delivered
      BY <1>0, <2>0, <2>3 DEF Reoffer, MayRetry, View, Alone, LaneInv, LaneTypes
    <3>2. Knows(p, r)'
      BY <1>0, <2>0, <3>1, StillKnows
    <3> QED
      BY <2>0, <3>1, <3>2 DEF Sound, Effect
  <2>4. CASE CommitThrows(p)
    BY <1>1, <2>0, <2>4
  <2> QED
    BY <1>3, <2>1, <2>2, <2>3, <2>4 DEF Reread
<1>4. CASE Deliver(p, r)
  BY <1>0, <1>4, Moves DEF Deliver, Quiet, Sound, Effect, Alone
<1> QED
  BY <1>2, <1>3, <1>4

LEMMA ClosingSound ==
  ASSUME TypeOK, TypeOK', LaneInv, AwareInv, KnowInv, NEW p \in Lanes, NEW r \in Runs,
         task[p] = r, Close(p, r) \/ Decide(p, r) \/ AbandonIt(p, r) \/ Verify(p, r)
  PROVE  Sound(p, r)
<1>0. /\ {"close", "abandon", "verify"} \subseteq Free
      /\ Knows(p, r) /\ seen \in [Lanes -> Views] /\ Standing(r) /\ OutTypes
      /\ r # None /\ LabelOf[p] # None /\ state[r] # "absent"
  BY StoreAssumption DEF Free, Phases, Closing, Executing, KnowInv, AwareInv, Aware
<1>1. ASSUME UNCHANGED <<vars, author>>,
             \/ \E next \in {"close", "abandon", "verify"} : \E why : Goes(p, next, why, seen[p])
             \/ \E again \in {"close", "abandon", "verify"} : Retries(p, again)
      PROVE  Sound(p, r)
  <2>1. pc'[p] \in Free /\ Alone(p, r) /\ UNCHANGED delivered
    BY <1>0, <1>1, Moves DEF Alone
  <2> QED
    BY <1>1, <2>1, FreeKnows DEF Sound, Effect
<1>2. ASSUME UNCHANGED <<vars, author>>, \E result : Ends(p, result), UNCHANGED delivered
      PROVE  Sound(p, r)
  BY <1>0, <1>2, Moves DEF Sound, Effect, Alone
<1>3. CASE Close(p, r)
  <2>0. UNCHANGED <<vars, author>>
    BY <1>3 DEF Close, Quiet
  <2>1. CASE Goes(p, "decide", reason[p], View(r))
    <3>1. pc'[p] = "decide" /\ seen'[p] = View(r) /\ Alone(p, r) /\ UNCHANGED delivered
      BY <1>0, <2>1, Moves DEF Alone
    <3>2. state[r] \notin Active => state[r] \in Terminal
      BY <1>0 DEF TypeOK, RunStates
    <3>3. Knows(p, r)'
      BY <1>0, <2>0, <3>1, <3>2
         DEF Knows, Executing, View, Standing, vars, leaseVars
    <3> QED
      BY <2>0, <3>1, <3>3 DEF Sound, Effect
  <2> QED
    BY <1>1, <1>2, <1>3, <2>0, <2>1 DEF Close
<1>4. CASE Decide(p, r)
  <2>0. UNCHANGED <<vars, author>>
    BY <1>4 DEF Decide, Quiet
  <2> QED
    BY <1>1, <1>2, <1>4, <2>0 DEF Decide
<1>5. CASE AbandonIt(p, r)
  <2>1. CASE /\ Abandon(r, seen[p].revision)
             /\ author' = [author EXCEPT ![r] = p]
             /\ Goes(p, "announce", reason[p], seen[p])
                  \/ Throws(p, "abandon", "verify", reason[p])
    <3>1. seen[p].revision = revision[r] /\ state'[r] = "abandoned"
      BY <2>1 DEF Abandon, Recover, Writes, TypeOK
    <3>2. /\ pc'[p] \in {"announce", "abandon", "verify"} /\ Alone(p, r)
          /\ UNCHANGED delivered
      BY <1>0, <2>1, Moves DEF Throws, Alone
    <3>3. Knows(p, r)'
      BY <3>1, <3>2 DEF Knows, Executing
    <3> QED
      BY <2>1, <3>1, <3>2, <3>3 DEF Sound, Effect
  <2>2. CASE /\ Goes(p, "verify", reason[p], seen[p]) \/ Throws(p, "abandon", "verify", reason[p])
             /\ UNCHANGED <<vars, author>>
    BY <1>1, <2>2 DEF Throws
  <2> QED
    BY <1>5, <2>1, <2>2 DEF AbandonIt
<1>6. CASE Verify(p, r)
  <2>0. UNCHANGED <<vars, author>>
    BY <1>6 DEF Verify, Quiet
  <2>1. CASE state[r] = "abandoned" /\ Goes(p, "announce", reason[p], seen[p])
    <3>1. pc'[p] = "announce" /\ Alone(p, r) /\ UNCHANGED delivered
      BY <1>0, <2>1, Moves DEF Alone
    <3> QED
      BY <2>0, <2>1, <3>1 DEF Sound, Effect, Knows, Executing, vars
  <2> QED
    BY <1>1, <1>2, <1>6, <2>0, <2>1 DEF Verify
<1> QED
  BY <1>3, <1>4, <1>5, <1>6

\* What a lane that does not move still knows.
LEMMA OthersKnow ==
  ASSUME KnowInv, NEW q \in Lanes, NEW c \in Runs, task[q] = c, Elsewhere(q, c),
         pc'[q] = pc[q], seen'[q] = seen[q]
  PROVE  Knows(q, c)'
BY KnowsFramed DEF KnowInv

LEMMA OutTypesKept ==
  ASSUME TypeOK, EInv, OutTypes, [ExecNext]_execVars
  PROVE  OutTypes'
<1> USE DEF OutTypes
<1>0. {"settled", "failed", "unsettled"} \subseteq Results
  BY DEF Results
<1>1. CASE UNCHANGED execVars \/ Host \/ \E l \in Labels : Crash(l)
  BY <1>1 DEF execVars, outVars, Host, Crash
<1>2. CASE \/ \E p \in Lanes, r, c \in Runs : TakesOn(p, r, c)
           \/ \E p \in Lanes : HandsBack(p)
  BY <1>2 DEF TakesOn, HandsBack, outVars
<1>3. ASSUME NEW p \in Lanes, NEW r \in Runs, Start(p, r) PROVE OutTypes'
  BY <1>3 DEF Start
<1>4. ASSUME NEW p \in Lanes, NEW r \in Runs, task[p] = r, Step(p, r) PROVE OutTypes'
  <2>1. reports' \in [Runs -> SUBSET Results]
    <3>1. \/ UNCHANGED reports
          \/ \E result \in Results : reports' = [reports EXCEPT ![task[p]] = @ \cup {result}]
      BY <1>0, <1>4
         DEF Step, Lookup, Absorbed, Ask, Granted, Writing, Fence, Breaks, Completes, Classify,
             CloseOperation, Commit, Reread, Reoffer, CommitThrows, Deliver, Close, Decide,
             AbandonIt, Verify, Throws, Goes, Retries, Ends
    <3> QED
      BY <1>4, <3>1
  <2>2. /\ UNCHANGED tickets
        /\ UNCHANGED delivered \/ delivered' = [delivered EXCEPT ![r] = @ + 1]
        /\ UNCHANGED author \/ author' = [author EXCEPT ![r] = p]
    BY <1>4 DEF Step, Lookup, Absorbed, Ask, Granted, Writing, Fence, Breaks, Completes,
                Classify, CloseOperation, Commit, Reread, Reoffer, CommitThrows, Deliver, Close,
                Decide, AbandonIt, Verify, Throws, Goes, Retries, Quiet
  <2> QED
    BY <2>1, <2>2
<1> QED
  BY <1>1, <1>2, <1>3, <1>4 DEF ExecNext, Lane

\* Every step keeps what the lanes know, while a process runs a run once at a time.
LEMMA StepsKnow ==
  TypeOK /\ TypeOK' /\ EInv /\ AwareInv /\ KnowInv /\ OneJobPerRun /\ [ExecNext]_execVars
    => KnowInv'
<1> SUFFICES ASSUME TypeOK, TypeOK', EInv, AwareInv, KnowInv, OneJobPerRun,
                    [ExecNext]_execVars
             PROVE  KnowInv'
  OBVIOUS
<1>0. OutTypes' /\ LaneInv /\ None \notin Runs
  BY OutTypesKept, StoreAssumption DEF KnowInv, EInv
<1> SUFFICES /\ \A q \in Lanes, c \in Runs : task'[q] = c => Knows(q, c)'
             /\ \A c \in Runs : Standing(c)'
  BY <1>0 DEF KnowInv
<1>1. ASSUME UNCHANGED <<vars, author, delivered, tickets>>
      PROVE  /\ \A c \in Runs : Standing(c)'
             /\ \A q \in Lanes, c \in Runs :
                  task[q] = c /\ pc'[q] = pc[q] /\ seen'[q] = seen[q] => Knows(q, c)'
  <2>1. \A c \in Runs : Standing(c)'
    BY <1>1 DEF KnowInv, Standing, vars, leaseVars
  <2>2. \A q \in Lanes, c \in Runs : Elsewhere(q, c)
    BY <1>1 DEF Elsewhere, vars, leaseVars
  <2> QED
    BY <2>1, <2>2, OthersKnow
<1>2. CASE \/ UNCHANGED execVars
           \/ \E p \in Lanes, r, c \in Runs : TakesOn(p, r, c)
           \/ \E p \in Lanes : HandsBack(p)
  <2>1. UNCHANGED <<vars, author, delivered, tickets, pc, task, seen>>
    BY <1>2 DEF execVars, laneVars, outVars, TakesOn, HandsBack
  <2> QED
    BY <1>1, <2>1
<1>3. CASE Host
  <2>1. UNCHANGED <<pc, task, seen>>
    BY <1>3 DEF Host, laneVars
  <2> QED
    BY <1>3, <2>1, HostElsewhere, HostStanding, OthersKnow
<1>4. ASSUME NEW l \in Labels, Crash(l)
      PROVE  /\ \A q \in Lanes, c \in Runs : task'[q] = c => Knows(q, c)'
             /\ \A c \in Runs : Standing(c)'
  <2>1. /\ UNCHANGED <<vars, author, delivered, tickets>>
        /\ pc' = [p \in Lanes |-> IF LabelOf[p] = l THEN "idle" ELSE pc[p]]
        /\ task' = [p \in Lanes |-> IF LabelOf[p] = l THEN None ELSE task[p]]
        /\ seen' = [p \in Lanes |-> IF LabelOf[p] = l THEN Unread ELSE seen[p]]
    BY <1>4 DEF Crash, outVars
  <2>2. \A q \in Lanes, c \in Runs : task'[q] = c =>
          task[q] = c /\ pc'[q] = pc[q] /\ seen'[q] = seen[q]
    BY <1>0, <2>1
  <2> QED
    BY <1>1, <2>1, <2>2
<1>5. ASSUME NEW p \in Lanes, NEW r \in Runs, Start(p, r)
      PROVE  /\ \A q \in Lanes, c \in Runs : task'[q] = c => Knows(q, c)'
             /\ \A c \in Runs : Standing(c)'
  <2>1. /\ UNCHANGED <<vars, author, delivered, seen>> /\ state[r] # "absent"
        /\ tickets' = [tickets EXCEPT ![r] = @ + 1]
        /\ task' = [task EXCEPT ![p] = r] /\ pc' = [pc EXCEPT ![p] = "lookup"]
    BY <1>5 DEF Start
  <2>2. \A q \in Lanes, c \in Runs : Elsewhere(q, c)
    BY <2>1 DEF Elsewhere, vars, leaseVars
  <2>3. pc'[p] \in Free
    BY <1>0, <2>1 DEF LaneInv, LaneTypes, Free, Phases, Acquiring, Executing
  <2>4. ASSUME NEW q \in Lanes, NEW c \in Runs, task'[q] = c PROVE Knows(q, c)'
    <3>1. CASE q = p
      BY <2>3, <3>1, FreeKnows
    <3>2. CASE q # p
      <4>1. task[q] = c /\ pc'[q] = pc[q] /\ seen'[q] = seen[q]
        BY <1>0, <2>1, <2>4, <3>2 DEF LaneInv, LaneTypes
      <4> QED
        BY <2>2, <4>1, OthersKnow
    <3> QED
      BY <3>1, <3>2
  <2>5. \A c \in Runs : Standing(c)'
    BY <2>1 DEF KnowInv, OutTypes, Standing, vars, leaseVars
  <2> QED
    BY <2>4, <2>5
<1>6. ASSUME NEW p \in Lanes, NEW r \in Runs, task[p] = r, Step(p, r)
      PROVE  /\ \A q \in Lanes, c \in Runs : task'[q] = c => Knows(q, c)'
             /\ \A c \in Runs : Standing(c)'
  <2>1. Sound(p, r)
    BY <1>0, <1>6, AcquiringSound, ExecutingSound, CommittingSound, ClosingSound DEF Step
  <2>2. UNCHANGED tickets
    BY <1>6 DEF Step, Lookup, Absorbed, Ask, Granted, Writing, Fence, Breaks, Completes,
                Classify, CloseOperation, Commit, Reread, Deliver, Close, Decide, AbandonIt,
                Verify, Quiet
  <2>3. ASSUME NEW q \in Lanes, NEW c \in Runs, task'[q] = c PROVE Knows(q, c)'
    <3>1. CASE q = p
      BY <1>0, <2>1, <2>3, <3>1 DEF Sound, Alone
    <3>2. CASE q # p
      <4>1. task[q] = c /\ pc'[q] = pc[q] /\ seen'[q] = seen[q]
        BY <2>1, <2>3, <3>2 DEF Sound, Alone
      <4>2. Elsewhere(q, c)
        BY <1>6, <2>1, <3>2, <4>1, EffectElsewhere DEF Sound
      <4> QED
        BY <4>1, <4>2, OthersKnow
    <3> QED
      BY <3>1, <3>2
  <2>4. \A c \in Runs : Standing(c)'
    BY <1>6, <2>1, <2>2, EffectStanding DEF Sound
  <2> QED
    BY <2>3, <2>4
<1> QED
  BY <1>2, <1>3, <1>4, <1>5, <1>6 DEF ExecNext, Lane

LEMMA ExecInitKnows == ExecInit => AwareInv /\ KnowInv
<1> SUFFICES ASSUME ExecInit PROVE AwareInv /\ KnowInv
  OBVIOUS
<1>1. /\ seen = [p \in Lanes |-> Unread] /\ task = [p \in Lanes |-> None]
      /\ None \notin Runs /\ Unread \in Views
  BY StoreAssumption DEF ExecInit, Unread, Views, RunStates
<1>2. OutTypes /\ \A r \in Runs : Standing(r)
  BY DEF ExecInit, Init, OutTypes, Standing, Acquired, Outcomes
<1> QED
  BY <1>1, <1>2 DEF AwareInv, KnowInv

\* AnswerDeliveredOnce for every number of executors, processes and lost replies,
\* as long as a process runs a run once at a time: what terminal-commit.ts takes
\* for its own commit after a lost reply (owner, fencing token) is its own, because
\* nobody else holds a lease of that run under its process's label.
THEOREM DeliveredOnce == ExecSpec /\ []OneJobPerRun => []AnswerDeliveredOnce
<1>1. ExecInit => Init /\ EInv
  BY ExecInitImplements
<1>2. ExecInit => AwareInv /\ KnowInv
  BY ExecInitKnows
<1>3. ExecSpec => []TypeOK
  BY ExecutorsImplementStore, TypeCorrect, PTL
<1>4. KnowInv => AnswerDeliveredOnce
  BY DEF KnowInv, Standing, Knows, Holds, AnswerDeliveredOnce, Executing, Terminal
<1> QED
  BY <1>1, <1>2, <1>3, <1>4, StepsImplement, StepsAware, StepsKnow, PTL DEF ExecSpec

-----------------------------------------------------------------------------
(* Nobody is left in silence *)

\* One conjunct of NoSilentStrand each: an acquired run, and one never acquired.
Backed(r) == state[r] \in Acquired =>
  \/ \E p \in Lanes : task[p] = r /\ LabelOf[p] = owner[r]
  \/ owner[r] \in down
  \/ "unsettled" \in reports[r]

Awaited(r) == state[r] = "queued" /\ token[r] = 0 /\ tickets[r] > 0 =>
  \/ \E p \in Lanes : task[p] = r
  \/ down # {}
  \/ "unsettled" \in reports[r]

\* A ticket that ends without telling its caller that the run is unsettled leaves a
\* run that its process does not own and that was acquired or settled.
LEMMA EndsHonestly ==
  ASSUME TypeOK, Bookkeeping, EInv, KnowInv, OneJobPerRun,
         NEW p \in Lanes, NEW r \in Runs, task[p] = r, Step(p, r), task'[p] # r
  PROVE  \/ "unsettled" \in reports'[r]
         \/ /\ ~(state'[r] \in Acquired /\ owner'[r] = LabelOf[p])
            /\ ~(state'[r] = "queued" /\ token'[r] = 0)
<1> DEFINE Told == "unsettled" \in reports'[r]
           Gone == /\ ~(state[r] \in Acquired /\ owner[r] = LabelOf[p])
                   /\ ~(state[r] = "queued" /\ token[r] = 0)
<1> USE DEF EInv, LaneInv, LaneTypes
<1>0. /\ Knows(p, r) /\ OutTypes /\ Standing(r)
      /\ Ends(p, "unsettled") => Told
      /\ state[r] \in Terminal => Gone
      /\ token[r] \in Nat
  BY DEF KnowInv, OutTypes, Ends, Terminal, Outcomes, Acquired, TypeOK
<1>1. (\E again : Retries(p, again)) \/ (\E next, why, view : Goes(p, next, why, view))
        => task'[p] = r
  BY DEF Retries, Goes
<1>2. UNCHANGED vars => (Gone <=> /\ ~(state'[r] \in Acquired /\ owner'[r] = LabelOf[p])
                                  /\ ~(state'[r] = "queued" /\ token'[r] = 0))
  BY DEF vars, leaseVars
<1>3. CASE Absorbed(p, r)
  <2>1. into[r] # None /\ UNCHANGED vars
    BY <1>0, <1>3 DEF Absorbed, Knows
  <2>2. state[r] \in Terminal
    BY <2>1 DEF Bookkeeping, Terminal, Outcomes
  <2> QED
    BY <1>0, <1>2, <2>1, <2>2
<1>4. CASE Commit(p, r)
  <2>1. \/ CommitThrows(p) \/ task' = task
        \/ Goes(p, "deliver", reason[p], seen[p])
    BY <1>4 DEF Commit
  <2> QED
    BY <1>0, <1>1, <2>1 DEF CommitThrows
<1>5. CASE Reread(p, r)
  <2>1. /\ UNCHANGED vars /\ seen[p].token = lease[p].token /\ Holds(p, r)
        /\ lease[p].run = r
    BY <1>0, <1>5 DEF Reread, Knows, Executing, Holds
  <2>2. CASE state[r] \notin Terminal /\ ~MayRetry(p, r)
    <3>1. token[r] # 0
      BY <1>0, <2>1, StoreAssumption DEF Bookkeeping
    <3> QED
      BY <1>2, <2>1, <2>2, <3>1 DEF MayRetry, Holds
  <2>3. CASE CommitThrows(p)
    BY <1>0, <1>1, <2>3 DEF CommitThrows
  <2>4. CASE state[r] \in Terminal
    BY <1>0, <1>2, <2>1, <2>4
  <2>5. CASE Reoffer(p, r)
    BY <2>5 DEF Reoffer
  <2> QED
    BY <1>5, <2>2, <2>3, <2>4, <2>5 DEF Reread
<1>6. CASE Deliver(p, r)
  <2>1. state[r] \in Terminal /\ UNCHANGED vars
    BY <1>0, <1>6 DEF Deliver, Knows, Terminal
  <2> QED
    BY <1>0, <1>2, <2>1
<1>7. CASE Close(p, r)
  BY <1>0, <1>1, <1>7 DEF Close
<1>8. CASE Decide(p, r)
  <2>1. UNCHANGED vars /\ pc[p] = "decide"
    BY <1>8 DEF Decide
  <2>2. CASE NotMine(p, r)
    <3>1. CASE seen[p].state \notin Active
      BY <1>0, <1>2, <2>1, <3>1 DEF Knows
    <3>2. CASE seen[p].owner \notin {None, LabelOf[p]}
      BY <1>0, <1>2, <2>1, <3>2 DEF Knows
    <3>3. CASE r \in ExecutedBy(LabelOf[p])
      <4>1. PICK q \in Lanes : LabelOf[q] = LabelOf[p] /\ pc[q] \in Executing /\ task[q] = r
        BY <3>3 DEF ExecutedBy
      <4> QED
        BY <2>1, <4>1, StoreAssumption DEF OneJobPerRun, Executing
    <3> QED
      BY <2>2, <3>1, <3>2, <3>3 DEF NotMine
  <2> QED
    BY <1>0, <1>1, <1>8, <2>2 DEF Decide
<1>9. CASE AbandonIt(p, r)
  BY <1>1, <1>9 DEF AbandonIt, Throws
<1>10. CASE Verify(p, r)
  BY <1>0, <1>1, <1>10 DEF Verify
<1>11. CASE Lookup(p, r) \/ Ask(p, r) \/ Granted(p, r) \/ Writing(p, r) \/ Fence(p, r)
              \/ Breaks(p, r) \/ Completes(p, r) \/ Classify(p, r) \/ CloseOperation(p, r)
  BY <1>1, <1>11 DEF Lookup, Ask, Granted, Writing, Fence, Breaks, Completes, Classify,
                     CloseOperation, Throws
<1> QED
  BY <1>3, <1>4, <1>5, <1>6, <1>7, <1>8, <1>9, <1>10, <1>11 DEF Step

\* What an effect makes of a run that is now acquired, or waits unacquired.
LEMMA EffectOrigins ==
  ASSUME TypeOK, KnowInv, NEW p \in Lanes, NEW r \in Runs, Effect(p, r), NEW c \in Runs
  PROVE  /\ state'[c] \in Acquired =>
              \/ state[c] \in Acquired /\ owner'[c] = owner[c]
              \/ c = r /\ owner'[c] = LabelOf[p] /\ state[c] = "queued"
         /\ state'[c] = "queued" => state[c] = "queued" /\ token'[c] = token[c]
<1> USE DEF TypeOK
<1>1. CASE UNCHANGED vars \/ Checkpoint(p, r, revision[r]) \/ Operation(p, r, revision[r])
  BY <1>1 DEF vars, leaseVars, Checkpoint, Operation
<1>2. CASE Acquire(p, r, revision[r])
  BY <1>2 DEF Acquire
<1>3. CASE \E outcome \in Outcomes, taken \in Claims(r) : Finish(p, r, revision[r], outcome, taken)
  <2>1. state'[c] # state[c] => state'[c] \in Outcomes
    BY <1>3 DEF Finish, Outcomes
  <2> QED
    BY <1>3, <2>1 DEF Finish, leaseVars, Outcomes, Acquired
<1>4. CASE Abandon(r, revision[r])
  BY <1>4 DEF Abandon, Recover, Acquired
<1> QED
  BY <1>1, <1>2, <1>3, <1>4 DEF Effect

LEMMA HostOrigins ==
  ASSUME TypeOK, KnowInv, Host, NEW c \in Runs
  PROVE  /\ state'[c] \in Acquired => state[c] \in Acquired /\ owner'[c] = owner[c]
         /\ state'[c] = "queued" /\ token'[c] = 0 /\ tickets'[c] > 0
              => state[c] = "queued" /\ token[c] = 0 /\ tickets[c] > 0
<1> USE DEF TypeOK
<1>0. Standing(c) /\ UNCHANGED tickets
  BY DEF KnowInv, Host, outVars
<1>1. ASSUME NEW k \in Keys, NEW r \in Runs, NEW priority \in BOOLEAN,
             NEW created \in Stamps, Accept(k, r, priority, created)
      PROVE  /\ state'[c] \in Acquired => state[c] \in Acquired /\ owner'[c] = owner[c]
             /\ state'[c] = "queued" /\ token'[c] = 0 /\ tickets'[c] > 0
                  => state[c] = "queued" /\ token[c] = 0 /\ tickets[c] > 0
  BY <1>0, <1>1 DEF Accept, leaseVars, Standing, Acquired
<1>2. CASE \E k \in Keys, r \in Runs : Coalesce(k, r)
  BY <1>0, <1>2 DEF Coalesce, leaseVars
<1>3. CASE \E r \in Runs : Interrupt(r, revision[r])
  BY <1>0, <1>3 DEF Interrupt, leaseVars, Acquired
<1>4. ASSUME NEW r \in Runs, NEW next \in {"queued", "abandoned"}, Recover(r, revision[r], next)
      PROVE  /\ state'[c] \in Acquired => state[c] \in Acquired /\ owner'[c] = owner[c]
             /\ state'[c] = "queued" /\ token'[c] = 0 /\ tickets'[c] > 0
                  => state[c] = "queued" /\ token[c] = 0 /\ tickets[c] > 0
  BY <1>0, <1>4 DEF Recover, Standing, Active, Acquired
<1> QED
  BY <1>1, <1>2, <1>3, <1>4 DEF Host, Admission, Requeue, Abandon

\* What was reported stays reported.
LEMMA ReportsGrow ==
  ASSUME EInv, OutTypes, [ExecNext]_execVars, NEW c \in Runs, "unsettled" \in reports[c]
  PROVE  "unsettled" \in reports'[c]
<1> USE DEF OutTypes
<1>1. \/ UNCHANGED reports
      \/ \E p \in Lanes : \E result : reports' = [reports EXCEPT ![task[p]] = @ \cup {result}]
  <2>1. CASE UNCHANGED execVars \/ Host \/ \E l \in Labels : Crash(l)
    BY <2>1 DEF execVars, outVars, Host, Crash
  <2>2. CASE \/ \E p \in Lanes, r \in Runs : Start(p, r)
             \/ \E p \in Lanes, r, d \in Runs : TakesOn(p, r, d)
             \/ \E p \in Lanes : HandsBack(p)
    BY <2>2 DEF Start, TakesOn, HandsBack, outVars
  <2>3. ASSUME NEW p \in Lanes, NEW r \in Runs, Step(p, r)
        PROVE  \/ UNCHANGED reports
               \/ \E result : reports' = [reports EXCEPT ![task[p]] = @ \cup {result}]
    BY <2>3 DEF Step, Lookup, Absorbed, Ask, Granted, Writing, Fence, Breaks, Completes,
                Classify, CloseOperation, Commit, Reread, Reoffer, CommitThrows, Deliver,
                Close, Decide, AbandonIt, Verify, Throws, Goes, Retries, Ends
  <2> QED
    BY <2>1, <2>2, <2>3 DEF ExecNext, Lane
<1> QED
  BY <1>1

LEMMA StepsStrandNobody ==
  TypeOK /\ TypeOK' /\ Bookkeeping /\ EInv /\ AwareInv /\ KnowInv /\ OneJobPerRun
         /\ NoSilentStrand /\ [ExecNext]_execVars
    => NoSilentStrand'
<1> SUFFICES ASSUME TypeOK, TypeOK', Bookkeeping, EInv, AwareInv, KnowInv, OneJobPerRun,
                    NoSilentStrand, [ExecNext]_execVars, NEW c \in Runs
             PROVE  Backed(c)' /\ Awaited(c)'
  BY DEF NoSilentStrand, Backed, Awaited
<1>0. /\ LaneInv /\ Backed(c) /\ Awaited(c) /\ OutTypes /\ c # None
      /\ "unsettled" \in reports[c] => "unsettled" \in reports'[c]
  BY ReportsGrow, StoreAssumption DEF EInv, KnowInv, NoSilentStrand, Backed, Awaited
<1> USE DEF LaneInv, LaneTypes
<1>1. CASE \/ UNCHANGED execVars
           \/ \E p \in Lanes, r, d \in Runs : TakesOn(p, r, d)
           \/ \E p \in Lanes : HandsBack(p)
  <2>1. UNCHANGED <<vars, task, down, tickets, reports>>
    BY <1>1 DEF execVars, laneVars, outVars, TakesOn, HandsBack
  <2> QED
    BY <1>0, <2>1 DEF Backed, Awaited, vars, leaseVars
<1>2. CASE Host
  <2>1. UNCHANGED <<task, down, tickets, reports>>
    BY <1>2 DEF Host, laneVars, outVars
  <2> QED
    BY <1>0, <1>2, <2>1, HostOrigins DEF Backed, Awaited
<1>3. ASSUME NEW l \in Labels, Crash(l) PROVE Backed(c)' /\ Awaited(c)'
  <2>1. /\ UNCHANGED <<vars, tickets, reports>> /\ down' = down \cup {l}
        /\ task' = [p \in Lanes |-> IF LabelOf[p] = l THEN None ELSE task[p]]
    BY <1>3 DEF Crash, outVars
  <2>2. \A p \in Lanes : task[p] = c => task'[p] = c \/ LabelOf[p] = l
    BY <2>1
  <2> QED
    BY <1>0, <2>1, <2>2 DEF Backed, Awaited, vars, leaseVars
<1>4. ASSUME NEW p \in Lanes, NEW r \in Runs, Start(p, r) PROVE Backed(c)' /\ Awaited(c)'
  <2>1. /\ UNCHANGED <<vars, down, reports>> /\ pc[p] = "idle"
        /\ tickets' = [tickets EXCEPT ![r] = @ + 1]
        /\ task' = [task EXCEPT ![p] = r]
    BY <1>4 DEF Start
  <2>2. task[p] # c
    BY <2>1 DEF KnowInv, Knows
  <2>3. \A q \in Lanes : task[q] = c => task'[q] = c
    BY <2>1, <2>2
  <2>4. c # r => tickets'[c] = tickets[c]
    BY <1>0, <2>1 DEF OutTypes
  <2> QED
    BY <1>0, <2>1, <2>3, <2>4 DEF Backed, Awaited, vars, leaseVars
<1>5. ASSUME NEW p \in Lanes, NEW r \in Runs, task[p] = r, Step(p, r)
      PROVE  Backed(c)' /\ Awaited(c)'
  <2>1. Sound(p, r)
    BY <1>0, <1>5, AcquiringSound, ExecutingSound, CommittingSound, ClosingSound DEF Step
  <2>2. UNCHANGED <<tickets, down>>
    BY <1>5 DEF Step, Lookup, Absorbed, Ask, Granted, Writing, Fence, Breaks, Completes,
                Classify, CloseOperation, Commit, Reread, Deliver, Close, Decide, AbandonIt,
                Verify, Quiet
  <2>3. /\ \A q \in Lanes \ {p} : task'[q] = task[q]
        /\ Effect(p, r)
    BY <2>1 DEF Sound, Alone
  <2>4. /\ state'[c] \in Acquired =>
             \/ state[c] \in Acquired /\ owner'[c] = owner[c]
             \/ c = r /\ owner'[c] = LabelOf[p] /\ state[c] = "queued"
        /\ state'[c] = "queued" => state[c] = "queued" /\ token'[c] = token[c]
    BY <2>3, EffectOrigins
  <2>5. CASE task'[p] = r \/ c # r
    <3>1. \A q \in Lanes : task[q] = c => task'[q] = c
      BY <1>5, <2>3, <2>5
    <3>2. CASE c = r /\ owner'[c] = LabelOf[p]
      BY <1>0, <2>2, <2>4, <2>5, <3>1, <3>2 DEF Backed, Awaited
    <3>3. CASE c # r \/ owner'[c] # LabelOf[p]
      BY <1>0, <2>2, <2>4, <3>1, <3>3 DEF Backed, Awaited
    <3> QED
      BY <3>2, <3>3
  <2>6. CASE task'[p] # r /\ c = r
    <3>1. CASE "unsettled" \in reports'[c]
      BY <3>1 DEF Backed, Awaited
    <3>2. CASE /\ ~(state'[c] \in Acquired /\ owner'[c] = LabelOf[p])
               /\ ~(state'[c] = "queued" /\ token'[c] = 0)
      <4>1. Awaited(c)'
        BY <3>2 DEF Awaited
      <4>2. Backed(c)'
        BY <1>0, <2>2, <2>3, <2>4, <2>6, <3>2 DEF Backed
      <4> QED
        BY <4>1, <4>2
    <3> QED
      BY <1>5, <2>6, <3>1, <3>2, EndsHonestly
  <2> QED
    BY <2>5, <2>6
<1> QED
  BY <1>1, <1>2, <1>3, <1>4, <1>5 DEF ExecNext, Lane

\* NoSilentStrand for every number of executors, processes and lost replies, under
\* the same hypothesis: a ticket ends without a word only where its process does not
\* own the run and the run was acquired or settled (run-unacquired.ts, the last
\* branches of terminal-commit.ts).
THEOREM NobodyStranded == ExecSpec /\ []OneJobPerRun => []NoSilentStrand
<1>1. ExecInit => Init /\ EInv
  BY ExecInitImplements
<1>2. ExecInit => AwareInv /\ KnowInv /\ NoSilentStrand
  BY ExecInitKnows DEF ExecInit, Init, NoSilentStrand, Acquired
<1>3. ExecSpec => []TypeOK /\ []Bookkeeping
  BY ExecutorsImplementStore, TypeCorrect, Kept, PTL
<1> QED
  BY <1>1, <1>2, <1>3, StepsImplement, StepsAware, StepsKnow, StepsStrandNobody, PTL
     DEF ExecSpec

\* With one lane in each process, as in the checked instance, nothing is assumed.
COROLLARY OneLaneEach ==
  ASSUME \A p, q \in Lanes : LabelOf[p] = LabelOf[q] => p = q
  PROVE  ExecSpec => [](AnswerDeliveredOnce /\ NoSilentStrand)
<1>1. OneJobPerRun
  BY DEF OneJobPerRun
<1>2. ExecSpec => []OneJobPerRun
  BY <1>1, PTL
<1> QED
  BY <1>2, DeliveredOnce, NobodyStranded, PTL

=============================================================================
