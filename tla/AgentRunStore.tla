---------------------------- MODULE AgentRunStore ----------------------------
(***************************************************************************)
(* The durable run store of one conversation                               *)
(* (packages/core/src/agent-runtime/store-reduce-*.ts, store-mutate.ts).   *)
(*                                                                         *)
(* Every operation is one transaction: load the head and the records, let  *)
(* a pure reducer decide, compare-and-swap the head version, save.  So an  *)
(* operation is one atomic action here, and a `conflict` or a TypeError    *)
(* is a disabled action.                                                   *)
(*                                                                         *)
(* The callers are not modelled: any lane (one executor slot of one        *)
(* runtime) may call anything at any time, with whatever revision it       *)
(* believes in and the lease it was last granted, and anybody may          *)
(* interrupt, requeue or abandon.  What holds here holds however the       *)
(* runtimes above interleave, crash or restart.                            *)
(*                                                                         *)
(* Messages are named by the idempotency key that admitted them; an        *)
(* answer is named by the fencing token its author presented.              *)
(***************************************************************************)
EXTENDS Integers, FiniteSets

CONSTANTS
  Runs,        \* run identities
  Keys,        \* idempotency keys; a key also names the input it admits
  Lanes,       \* executors: each remembers the one lease it was last granted
  Labels,      \* owner labels (AgentRun.ownerId)
  LabelOf,     \* the label each lane presents; labels may be reused
  Stamps,      \* createdAt: times taken by clients, not by the store
  MaxVersion,  \* bound on the head version, hence on the mutations applied
  None

ASSUME StoreAssumption ==
  /\ LabelOf \in [Lanes -> Labels]
  /\ Stamps \subseteq Nat
  /\ MaxVersion \in Nat
  /\ None \notin Runs \cup Labels

VARIABLES
  version,    \* AgentRuntimeHead.version
  state,      \* [Runs -> AgentRun.state]; "absent": never admitted
  revision,   \* AgentRun.revision
  owner,      \* AgentRun.ownerId
  token,      \* AgentRun.fencingToken; 0: never acquired
  seq,        \* AgentRun.executionSequence; 0: undefined
  admission,  \* what orders a run in the queue, fixed when it is admitted
  inputs,     \* AgentRun.inputMessageIds, as a set: it only ever grows
  into,       \* AgentRun.absorbedIntoRunId
  receipt,    \* admission receipts: [Keys -> the run assigned]
  answer,     \* [Runs -> token that wrote the assistant message; 0: nobody]
  lease       \* [Lanes -> the run and token last granted to the lane]

acceptVars == <<admission, receipt>>   \* written by admissions only
leaseVars  == <<owner, token, seq, lease>>
vars == <<version, state, revision, inputs, into, answer, acceptVars, leaseVars>>

-----------------------------------------------------------------------------
(* Run states *)

Acquired == {"running", "interrupt_requested"}
Active   == Acquired \cup {"queued"}

\* What an executor may commit, and what only another operation writes.
Outcomes == {"completed", "interrupted", "superseded", "failed", "cancelled"}
Terminal == Outcomes \cup {"abandoned"}

RunStates == Active \cup Terminal \cup {"absent"}

Admissions == [priority : BOOLEAN,   \* queuePriority
               created  : Nat,       \* createdAt
               arrived  : Nat]       \* head version of the admission

\* Mutant: the owner label alone decides.
HoldsLease_ByLabel(p, r) == lease[p].run = r /\ owner[r] = LabelOf[p]

\* A mutation without a fencingToken is not compared by it (store-reduce-run.ts:68,
\* 106); the runtime passes the token it was granted with every one of its own.
HoldsLease(p, r) ==
  /\ lease[p].run = r
  /\ owner[r] = LabelOf[p]
  /\ token[r] = lease[p].token

-----------------------------------------------------------------------------
(* Durable run order *)

Started(r) == seq[r] # 0 \/ state[r] # "queued"

\* createdAt, then the place of the first input in the history.
ByAdmission(a, b) ==
  \/ admission[a].created < admission[b].created
  \/ /\ admission[a].created = admission[b].created
     /\ admission[a].arrived < admission[b].arrived

AheadInQueue(a, b) ==
  IF admission[a].priority # admission[b].priority
    THEN admission[a].priority
    ELSE ByAdmission(a, b)

\* Mutant: a requeued run goes back to its place in the queue.
Before_ByAdmission(a, b) == AheadInQueue(a, b)

Before(a, b) ==
  IF seq[a] # 0 /\ seq[b] # 0 /\ seq[a] # seq[b] THEN seq[a] < seq[b]
  ELSE IF Started(a) # Started(b) THEN Started(a)
  ELSE IF Started(a) THEN ByAdmission(a, b)
  ELSE AheadInQueue(a, b)

\* Mutant: only a run being executed blocks.
Blocks_Acquired(c, r) == c # r /\ state[c] \in Acquired

Blocks(c, r) ==
  /\ c # r
  /\ \/ state[c] \in Acquired
     \/ state[c] = "queued" /\ Before(c, r)

-----------------------------------------------------------------------------
Init ==
  /\ version = 0
  /\ state = [r \in Runs |-> "absent"]
  /\ revision = [r \in Runs |-> 0]
  /\ owner = [r \in Runs |-> None]
  /\ token = [r \in Runs |-> 0]
  /\ seq = [r \in Runs |-> 0]
  /\ admission = [r \in Runs |-> [priority |-> FALSE, created |-> 0, arrived |-> 0]]
  /\ inputs = [r \in Runs |-> {}]
  /\ into = [r \in Runs |-> None]
  /\ receipt = [k \in Keys |-> None]
  /\ answer = [r \in Runs |-> 0]
  /\ lease = [p \in Lanes |-> [run |-> None, token |-> 0]]

\* The head compare-and-swap every applied mutation performs.
Applied ==
  /\ version < MaxVersion
  /\ version' = version + 1

\* A mutation of run r by a caller that named its current revision.
Writes(r, expected) ==
  /\ revision[r] = expected
  /\ Applied
  /\ revision' = [revision EXCEPT ![r] = expected + 1]

\* Mutant: the receipt is not consulted.
Fresh_Unchecked(k) == k \in Keys

\* No receipt for the key: otherwise the admission is a duplicate.
Fresh(k) == receipt[k] = None

\* Mutant: a run being executed still takes inputs.
Joinable_Active(r) == state[r] \in Active

Joinable(r) == state[r] = "queued" /\ owner[r] = None

(* Admission: a key already receipted is a duplicate and changes nothing. *)
Accept(k, r, priority, created) ==
  /\ Fresh(k)
  /\ state[r] = "absent"
  /\ Applied
  /\ state' = [state EXCEPT ![r] = "queued"]
  /\ admission' = [admission EXCEPT ![r] =
       [priority |-> priority, created |-> created, arrived |-> version + 1]]
  /\ inputs' = [inputs EXCEPT ![r] = {k}]
  /\ receipt' = [receipt EXCEPT ![k] = r]
  /\ UNCHANGED <<revision, into, answer, leaseVars>>

Coalesce(k, r) ==
  /\ Fresh(k)
  /\ Joinable(r)
  /\ Writes(r, revision[r])
  /\ inputs' = [inputs EXCEPT ![r] = @ \cup {k}]
  /\ receipt' = [receipt EXCEPT ![k] = r]
  /\ UNCHANGED <<state, admission, into, answer, leaseVars>>

Acquire(p, r, expected) ==
  /\ state[r] = "queued"
  /\ \A c \in Runs : ~Blocks(c, r)
  /\ Writes(r, expected)
  /\ state' = [state EXCEPT ![r] = "running"]
  /\ seq' = [seq EXCEPT ![r] = IF seq[r] = 0 THEN version + 1 ELSE seq[r]]
  /\ owner' = [owner EXCEPT ![r] = LabelOf[p]]
  /\ token' = [token EXCEPT ![r] = token[r] + 1]
  /\ lease' = [lease EXCEPT ![p] = [run |-> r, token |-> token[r] + 1]]
  /\ UNCHANGED <<inputs, into, answer, acceptVars>>

Checkpoint(p, r, expected) ==
  /\ state[r] = "running"
  /\ HoldsLease(p, r)
  /\ Writes(r, expected)
  /\ answer' = [answer EXCEPT ![r] = lease[p].token]
  /\ UNCHANGED <<state, inputs, into, acceptVars, leaseVars>>

Operation(p, r, expected) ==
  /\ state[r] \in Acquired
  /\ HoldsLease(p, r)
  /\ Writes(r, expected)
  /\ UNCHANGED <<state, inputs, into, answer, acceptVars, leaseVars>>

Interrupt(r, expected) ==
  /\ state[r] = "running"
  /\ Writes(r, expected)
  /\ state' = [state EXCEPT ![r] = "interrupt_requested"]
  /\ UNCHANGED <<inputs, into, answer, acceptVars, leaseVars>>

(* Recovery releases the owner and keeps the token and the sequence. *)
Recover(r, expected, next) ==
  /\ state[r] \in Active
  /\ Writes(r, expected)
  /\ state' = [state EXCEPT ![r] = next]
  /\ owner' = [owner EXCEPT ![r] = None]
  /\ UNCHANGED <<token, seq, lease, inputs, into, answer, acceptVars>>

Requeue(r, expected, replaySafe) ==
  /\ state[r] # "queued" => replaySafe
  /\ Recover(r, expected, "queued")

Abandon(r, expected) == Recover(r, expected, "abandoned")

\* Mutant: a successor is absorbed whatever became of it.
Absorbable_Unchecked(claim) == {c \in DOMAIN claim : inputs[c] = claim[c]}

\* claim[c]: the inputs of c the caller says its answer covers.  A successor
\* that left the queue, or was coalesced since, is dropped from the commit.
Absorbable(claim) ==
  {c \in DOMAIN claim : state[c] = "queued" /\ inputs[c] = claim[c]}

MayAbsorb(claim, outcome) == DOMAIN claim # {} => outcome = "completed"

Finish(p, r, expected, outcome, claim) ==
  LET absorbed == Absorbable(claim) IN
  /\ state[r] \in Acquired
  /\ HoldsLease(p, r)
  /\ MayAbsorb(claim, outcome)
  /\ revision[r] = expected
  /\ Applied
  /\ revision' = [c \in Runs |->
       IF c \in absorbed \cup {r} THEN revision[c] + 1 ELSE revision[c]]
  /\ state' = [c \in Runs |-> IF c = r THEN outcome
                              ELSE IF c \in absorbed THEN "superseded" ELSE state[c]]
  /\ into' = [c \in Runs |-> IF c \in absorbed THEN r ELSE into[c]]
  /\ inputs' = [inputs EXCEPT ![r] = @ \cup UNION {inputs[c] : c \in absorbed}]
  /\ answer' = [answer EXCEPT ![r] = lease[p].token]
  /\ UNCHANGED <<acceptVars, leaseVars>>

\* One claim per successor and never the run itself: the code throws on both.
Claims(r) == UNION {[C -> (SUBSET Keys) \ {{}}] : C \in SUBSET (Runs \ {r})}

Admission ==
  \E k \in Keys, r \in Runs :
    \/ \E priority \in BOOLEAN, created \in Stamps : Accept(k, r, priority, created)
    \/ Coalesce(k, r)

\* A call that names any revision but the current one is a conflict.
Control ==
  \E r \in Runs :
    \/ Interrupt(r, revision[r])
    \/ \E replaySafe \in BOOLEAN : Requeue(r, revision[r], replaySafe)
    \/ Abandon(r, revision[r])

Execution ==
  \E p \in Lanes, r \in Runs :
    \/ Acquire(p, r, revision[r])
    \/ Checkpoint(p, r, revision[r])
    \/ Operation(p, r, revision[r])
    \/ /\ HoldsLease(p, r)
       /\ \E outcome \in Outcomes, claim \in Claims(r) :
            Finish(p, r, revision[r], outcome, claim)

Next == Admission \/ Control \/ Execution

Spec == Init /\ [][Next]_vars

-----------------------------------------------------------------------------
(* Properties *)

TypeOK ==
  /\ version \in 0 .. MaxVersion
  /\ state \in [Runs -> RunStates]
  /\ revision \in [Runs -> Nat]
  /\ owner \in [Runs -> Labels \cup {None}]
  /\ token \in [Runs -> Nat]
  /\ seq \in [Runs -> Nat]
  /\ admission \in [Runs -> Admissions]
  /\ inputs \in [Runs -> SUBSET Keys]
  /\ into \in [Runs -> Runs \cup {None}]
  /\ receipt \in [Keys -> Runs \cup {None}]
  /\ answer \in [Runs -> Nat]
  /\ lease \in [Lanes -> [run : Runs \cup {None}, token : Nat]]

\* A turn is open from its first acquisition until it is settled, the time it
\* spends back in the queue after a recovery included.
Open(r) == state[r] \in Active /\ seq[r] # 0

\* A conversation has at most one open turn: no other run starts while one is
\* running, interrupting, or requeued after a crash (blocked acquisition in
\* reduceAcquire together with the durable order of orderRuns).
OneOpenTurn ==
  /\ \A r \in Runs : state[r] \in Acquired => Open(r)
  /\ \A a, b \in Runs : Open(a) /\ Open(b) => a = b

\* A lease is never granted twice, so an executor that lost its lease cannot be
\* mistaken for the one that has it even when both present the same owner label
\* (recovery carries fencingToken forward; acquisition adds one).
LeasesDiffer ==
  \A p, q \in Lanes : lease[p] = lease[q] /\ lease[p].run # None => p = q

\* Nothing an executor writes lands once a later lease of the run was granted:
\* the text stored for a run only ever comes from its newest lease, and an
\* answer that was committed is that lease's (the token test of every reducer).
FencedAnswers ==
  [][\A r \in Runs :
       /\ answer'[r] # answer[r] => answer'[r] = token[r]
       /\ state[r] \in Active /\ state'[r] \in Outcomes /\ into'[r] = None
            => answer'[r] = token[r]]_vars

Record(r) == <<state[r], revision[r], owner[r], token[r], seq[r], admission[r],
               inputs[r], into[r], answer[r]>>

\* A settled run, its record and its answer never change again, whoever still
\* holds a lease, recovers it or offers to absorb it.
SettledIsFinal ==
  [][\A r \in Runs : state[r] \in Terminal => Record(r)' = Record(r)]_vars

\* Every write to a run moves its revision by one, also the write another run's
\* commit makes to it: a compare-and-swap on the revision misses no write.
RevisionCountsWrites ==
  [][\A r \in Runs : state[r] # "absent" /\ Record(r)' # Record(r)
                       => revision'[r] = revision[r] + 1]_vars

\* An absorbed run was answered whole by a run that completed, and that run was
\* not itself absorbed (reduceTerminal commits both records in one mutation).
AbsorptionSound ==
  \A r \in Runs : into[r] # None =>
    /\ state[r] = "superseded"
    /\ state[into[r]] = "completed" /\ into[into[r]] = None
    /\ inputs[r] \subseteq inputs[into[r]]

\* An input is answered once: two runs share an input only if one absorbed the
\* other (a coalesced or absorbed input is never also left to a second run).
AnsweredOnce ==
  \A a, b \in Runs :
    a # b /\ inputs[a] \cap inputs[b] # {} => into[a] = b \/ into[b] = a

\* What a repeated admission is told: the run of its receipt, or the run that
\* absorbed it (duplicateAdmission follows absorbedIntoRunId once).
AdmittedRun(k) ==
  IF into[receipt[k]] = None THEN receipt[k] ELSE into[receipt[k]]

\* A repeated admission always reaches the one run that carries its input, and
\* one step of absorbedIntoRunId is enough to reach it.
DuplicateFindsItsRun ==
  \A k \in Keys : receipt[k] # None =>
    k \in inputs[AdmittedRun(k)] /\ into[AdmittedRun(k)] = None

\* Turns start in queue order: when a run first starts, every run admitted by
\* then and ahead of it has started earlier, or was settled without starting.
StartsInOrder ==
  \A a, b \in Runs :
    /\ seq[b] # 0
    /\ admission[a].arrived \in 1 .. seq[b] - 1
    /\ AheadInQueue(a, b)
    => IF seq[a] # 0 THEN seq[a] < seq[b] ELSE state[a] \in Terminal

\* What the properties above rest on: an identity not admitted yet has no
\* history, sequences and arrivals are versions of the past, only a superseded
\* run points elsewhere, and a lease was granted from the tokens of its run.
Bookkeeping ==
  /\ \A r \in Runs :
       /\ state[r] = "absent" =>
            seq[r] = 0 /\ inputs[r] = {} /\ into[r] = None /\ admission[r].arrived = 0
       /\ seq[r] <= version /\ admission[r].arrived <= version
       /\ into[r] # None => state[r] = "superseded"
  /\ \A p \in Lanes : lease[p].run # None => lease[p].token \in 1 .. token[lease[p].run]

\* Only admitted inputs are carried by runs.
OnlyAdmitted == \A r \in Runs : \A k \in inputs[r] : receipt[k] # None

\* A run that was admitted is the run of a receipt.
HasReceipt == \A r \in Runs : state[r] # "absent" => \E k \in Keys : receipt[k] = r

-----------------------------------------------------------------------------
(* The store implements ConversationTurns *)

openRuns == {r \in Runs : Open(r)}
openTurn == IF openRuns = {} THEN None ELSE CHOOSE r \in openRuns : TRUE
turnHeld == \E r \in Runs : state[r] \in Acquired
settledTurns == {r \in Runs : state[r] \in Terminal}
inputCarrier == [k \in Keys |-> IF receipt[k] = None THEN None ELSE AdmittedRun(k)]

Turns == INSTANCE ConversationTurns
           WITH open <- openTurn, held <- turnHeld, leases <- token,
                settled <- settledTurns, carrier <- inputCarrier

\* Every mutation of the store is one step of the abstract turns or none: leases,
\* recovery, absorption and settlement do to the turns what the abstraction says.
ImplementsTurns == Turns!Spec

=============================================================================
