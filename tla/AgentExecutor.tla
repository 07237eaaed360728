---------------------------- MODULE AgentExecutor ----------------------------
(***************************************************************************)
(* The executors over the run store: what a runtime does with one run from *)
(* the moment its ticket starts until the ticket ends                      *)
(* (packages/core/src/agent-runtime/run-*.ts, terminal-commit.ts).         *)
(*                                                                         *)
(* A lane is one slot of one runtime process: a label is that process's    *)
(* runtimeEpoch, and several lanes may belong to one process.  Every await *)
(* of a store call is a point where other lanes, the host and the other    *)
(* processes act, so a lane only knows what it read last (`seen`).         *)
(*                                                                         *)
(* A store call may throw, with its effect applied (the reply was lost) or *)
(* not; a conflict is an answer and is not retried.  A process may crash.  *)
(* The host may admit, interrupt, requeue and abandon at any time, with    *)
(* evidence that may be wrong.                                             *)
(*                                                                         *)
(* The model's text (parts, usage, events other than `terminal`) is left   *)
(* out.                                                                    *)
(***************************************************************************)
EXTENDS AgentRunStore

CONSTANTS
  MaxFailures,  \* retries of a store call that throws
  MaxTickets,   \* bound on the tickets started for each run
  MaxRevision   \* bound on the revision of each run at which drafts and the host still write

ASSUME ExecutorAssumption ==
  /\ MaxFailures \in Nat
  /\ MaxTickets \in [Runs -> Nat]
  /\ MaxRevision \in [Runs -> Nat]

VARIABLES
  pc,         \* [Lanes -> Phases]
  task,       \* [Lanes -> the run of the lane's ticket]
  seen,       \* [Lanes -> the record as the lane last read it]
  fails,      \* [Lanes -> failures of the call being retried]
  reason,     \* [Lanes -> why the lane is closing, or the outcome it will commit]
  claim,      \* [Lanes -> the successors taken into the prompt: run -> inputs]
  down,       \* labels whose process crashed
  tickets,    \* [Runs -> tickets started]
  reports,    \* [Runs -> what the tickets ended with]
  delivered,  \* [Runs -> `terminal` events published]
  author      \* [Runs -> the lane that settled the record; None: the host]

laneVars == <<pc, task, seen, fails, reason, claim>>
outVars  == <<tickets, reports, delivered, author>>
execVars == <<vars, laneVars, outVars, down>>

-----------------------------------------------------------------------------
\* From the reply to its acquisition until its terminal commit returned.
Executing == {"run", "classify", "closeOperation", "commit", "reread", "deliver"}

\* Before ownership, and the run closed from outside.
Acquiring == {"lookup", "absorbed", "acquire", "granted"}
Closing   == {"close", "decide", "abandon", "verify", "announce"}

Phases == {"idle"} \cup Executing \cup Acquiring \cup Closing

Reasons == {"none", "conflict", "store", "stale"} \cup Outcomes
Results == {"settled", "failed", "unsettled"}

View(r) == [state |-> state[r], owner |-> owner[r], token |-> token[r], revision |-> revision[r]]
Unread  == [state |-> "absent", owner |-> None, token |-> 0, revision |-> 0]

\* The set `executing` of one process.
ExecutedBy(l) == {task[p] : p \in {q \in Lanes : LabelOf[q] = l /\ pc[q] \in Executing}}

NoClaim == [c \in {} |-> {}]

ExecInit ==
  /\ Init
  /\ pc = [p \in Lanes |-> "idle"]
  /\ task = [p \in Lanes |-> None]
  /\ seen = [p \in Lanes |-> Unread]
  /\ fails = [p \in Lanes |-> 0]
  /\ reason = [p \in Lanes |-> "none"]
  /\ claim = [p \in Lanes |-> NoClaim]
  /\ down = {}
  /\ tickets = [r \in Runs |-> 0]
  /\ reports = [r \in Runs |-> {}]
  /\ delivered = [r \in Runs |-> 0]
  /\ author = [r \in Runs |-> None]

-----------------------------------------------------------------------------
(* How a lane moves.  Each conjunct names the lane variables it changes. *)

\* The lane goes on with a fresh retry budget.
Goes(p, next, why, view) ==
  /\ pc' = [pc EXCEPT ![p] = next]
  /\ reason' = [reason EXCEPT ![p] = why]
  /\ seen' = [seen EXCEPT ![p] = view]
  /\ fails' = [fails EXCEPT ![p] = 0]
  /\ UNCHANGED <<task, claim, reports, delivered>>

\* The ticket ends; nothing of it stays in the process.
Ends(p, result) ==
  /\ pc' = [pc EXCEPT ![p] = "idle"]
  /\ task' = [task EXCEPT ![p] = None]
  /\ seen' = [seen EXCEPT ![p] = Unread]
  /\ fails' = [fails EXCEPT ![p] = 0]
  /\ reason' = [reason EXCEPT ![p] = "none"]
  /\ claim' = [claim EXCEPT ![p] = NoClaim]
  /\ reports' = [reports EXCEPT ![task[p]] = @ \cup {result}]

\* Mutant: the budget is not spent.
Retries_Forever(p, again) ==
  /\ pc' = [pc EXCEPT ![p] = again]
  /\ UNCHANGED <<task, seen, fails, reason, claim, reports, delivered>>

\* A call threw and is tried again, from the phase `again`.
Retries(p, again) ==
  /\ fails[p] < MaxFailures
  /\ fails' = [fails EXCEPT ![p] = @ + 1]
  /\ pc' = [pc EXCEPT ![p] = again]
  /\ UNCHANGED <<task, seen, reason, claim, reports, delivered>>

\* withStoreRetries: retried from `again`, then the lane goes on with `next`.
Throws(p, again, next, why) ==
  \/ Retries(p, again)
  \/ fails[p] = MaxFailures /\ Goes(p, next, why, seen[p])

Quiet == UNCHANGED <<tickets, author, down>>

\* The answer of a store that refuses what the lane asked with what it has seen.
AcquireConflict(p, r) ==
  \/ revision[r] # seen[p].revision
  \/ state[r] # "queued"
  \/ \E c \in Runs : Blocks(c, r)

LeaseConflict(p, r, states) ==
  \/ revision[r] # seen[p].revision
  \/ state[r] \notin states
  \/ ~HoldsLease(p, r)

-----------------------------------------------------------------------------
(* Before ownership *)

\* A ticket starts: of a submission, of a resume, or of a recovery.
Start(p, r) ==
  /\ pc[p] = "idle"
  /\ LabelOf[p] \notin down
  /\ state[r] # "absent"
  /\ tickets[r] < MaxTickets[r]
  /\ tickets' = [tickets EXCEPT ![r] = @ + 1]
  /\ task' = [task EXCEPT ![p] = r]
  /\ pc' = [pc EXCEPT ![p] = "lookup"]
  /\ UNCHANGED <<vars, seen, fails, reason, claim, reports, delivered, author, down>>

Lookup(p, r) ==
  /\ pc[p] = "lookup"
  /\ \/ into[r] # None /\ Goes(p, "absorbed", "none", View(r))
     \/ into[r] = None /\ Goes(p, "acquire", "none", View(r))
     \/ Throws(p, "lookup", "close", "store")
  /\ UNCHANGED vars /\ Quiet

\* The run's input was answered by another run, whose result is this ticket's.
Absorbed(p, r) ==
  /\ pc[p] = "absorbed"
  /\ \/ Ends(p, "settled") /\ UNCHANGED delivered
     \/ Throws(p, "absorbed", "close", "store")
  /\ UNCHANGED vars /\ Quiet

Ask(p, r) ==
  /\ pc[p] = "acquire"
  /\ \/ /\ Acquire(p, r, seen[p].revision)
        /\ pc' = [pc EXCEPT ![p] = "granted"]
        /\ UNCHANGED <<task, seen, fails, reason, claim, reports, delivered>>
     \/ /\ AcquireConflict(p, r)
        /\ Goes(p, "close", "conflict", seen[p])
        /\ UNCHANGED vars
     \/ Throws(p, "acquire", "close", "store") /\ UNCHANGED vars
  /\ Quiet

\* The store granted the lease: the reply arrives, or is lost.
Granted(p, r) ==
  /\ pc[p] = "granted"
  /\ \/ Goes(p, "run", "none",
             [state |-> "running", owner |-> LabelOf[p], token |-> lease[p].token,
              revision |-> seen[p].revision + 1])
     \/ Throws(p, "acquire", "close", "store")
  /\ UNCHANGED vars /\ Quiet

-----------------------------------------------------------------------------
(* Execution *)

\* A draft, a checkpoint, or the record of an operation.
Writing(p, r) ==
  /\ pc[p] = "run"
  /\ \/ /\ revision[r] < MaxRevision[r]
        /\ Checkpoint(p, r, seen[p].revision) \/ Operation(p, r, seen[p].revision)
        /\ \/ Goes(p, "run", "none", View(r)')
           \/ Goes(p, "classify", "failed", seen[p])
     \/ /\ LeaseConflict(p, r, {"running"})
        /\ Goes(p, "classify", "failed", seen[p])
        /\ UNCHANGED vars
  /\ Quiet

\* The check before every tool call: an expected token, owner and state.
Fence(p, r) ==
  /\ pc[p] = "run"
  /\ \/ /\ owner[r] # LabelOf[p] \/ token[r] # seen[p].token \/ state[r] \notin Acquired
        /\ Goes(p, "classify", "stale", seen[p])
     \/ /\ owner[r] = LabelOf[p] /\ token[r] = seen[p].token
        /\ state[r] = "interrupt_requested"
        /\ Goes(p, "classify", "interrupted", seen[p])
  /\ UNCHANGED vars /\ Quiet

\* A failure of a tool, the provider or the runtime, or the lane's own signal.
Breaks(p, r) ==
  /\ pc[p] = "run"
  /\ \E why \in Outcomes \ {"completed"} : Goes(p, "classify", why, seen[p])
  /\ UNCHANGED vars /\ Quiet

\* The stream ends without a throw.
Completes(p, r) ==
  /\ pc[p] = "run"
  /\ \E why \in Outcomes : Goes(p, "commit", why, seen[p])
  /\ UNCHANGED vars /\ Quiet

\* At a step boundary the run takes the inputs of a successor that still waits for
\* its ticket into the prompt; a provider retry hands them back.
TakesOn(p, r, c) ==
  /\ pc[p] = "run"
  /\ c # r /\ state[c] = "queued" /\ tickets[c] = 0
  /\ claim' = [claim EXCEPT ![p] =
       [d \in DOMAIN claim[p] \cup {c} |-> IF d = c THEN inputs[c] ELSE claim[p][d]]]
  /\ UNCHANGED <<vars, pc, task, seen, fails, reason, outVars, down>>

HandsBack(p) ==
  /\ pc[p] = "run" /\ DOMAIN claim[p] # {}
  /\ claim' = [claim EXCEPT ![p] = NoClaim]
  /\ UNCHANGED <<vars, pc, task, seen, fails, reason, outVars, down>>

\* A throw becomes an outcome; a durable interrupt is adopted when it can be read.
Classify(p, r) ==
  LET durable == owner[r] = LabelOf[p] /\ state[r] = "interrupt_requested"
      next    == IF reason[p] = "stale" THEN "commit" ELSE "closeOperation"
      outcome(interrupted) ==
        IF reason[p] = "stale" \/ (reason[p] = "failed" /\ interrupted)
          THEN "interrupted" ELSE reason[p]
  IN
  /\ pc[p] = "classify"
  /\ \/ Goes(p, next, outcome(durable), IF durable THEN View(r) ELSE seen[p])
     \/ Goes(p, next, outcome(FALSE), seen[p])
  /\ UNCHANGED vars /\ Quiet

\* The open operation, if any, is closed; what that meets is not worth the terminal.
CloseOperation(p, r) ==
  /\ pc[p] = "closeOperation"
  /\ \/ Goes(p, "commit", reason[p], seen[p]) /\ UNCHANGED vars
     \/ /\ revision[r] < MaxRevision[r]
        /\ Operation(p, r, seen[p].revision)
        /\ Goes(p, "commit", reason[p], View(r)') \/ Goes(p, "commit", reason[p], seen[p])
  /\ Quiet

-----------------------------------------------------------------------------
(* The terminal commit *)

\* The candidate absorbs only when it completes.
Absorbs(p) == IF reason[p] = "completed" THEN claim[p] ELSE NoClaim

\* A thrown attempt: the loop goes round again, and gives up after its budget.
CommitThrows(p) ==
  \/ Retries(p, "commit")
  \/ fails[p] = MaxFailures /\ Ends(p, "unsettled") /\ UNCHANGED delivered

Commit(p, r) ==
  /\ pc[p] = "commit"
  /\ \/ /\ Finish(p, r, seen[p].revision, reason[p], Absorbs(p))
        /\ author' = [author EXCEPT ![r] = p]
        /\ \/ Goes(p, "deliver", reason[p], seen[p])
           \/ CommitThrows(p)
     \/ /\ LeaseConflict(p, r, Acquired)
        /\ pc' = [pc EXCEPT ![p] = "reread"]
        /\ UNCHANGED <<vars, task, seen, fails, reason, claim, reports, delivered, author>>
     \/ CommitThrows(p) /\ UNCHANGED <<vars, author>>
  /\ UNCHANGED <<tickets, down>>

\* The run is still this executor's to commit.
MayRetry(p, r) ==
  /\ state[r] \in Acquired
  /\ owner[r] = LabelOf[p]
  /\ token[r] = seen[p].token

\* Mutant: any terminal found after a failed attempt is taken for the lane's own.
CommittedHere_AfterFailure(p, r) == fails[p] > 0 /\ state[r] \in Terminal

\* A terminal found after a lost reply is this executor's own.
CommittedHere(p, r) ==
  /\ fails[p] > 0
  /\ owner[r] = LabelOf[p]
  /\ token[r] = seen[p].token

\* Mutant: the same candidate is offered again under the new revision.
Reoffer_Unchanged(p, r) ==
  /\ MayRetry(p, r)
  /\ seen' = [seen EXCEPT ![p] = View(r)]
  /\ pc' = [pc EXCEPT ![p] = "commit"]
  /\ UNCHANGED <<task, fails, reason, claim, reports, delivered>>

\* interruptedCandidate: a supersede survives, what was taken on does not.
Reoffer(p, r) ==
  /\ MayRetry(p, r)
  /\ seen' = [seen EXCEPT ![p] = View(r)]
  /\ pc' = [pc EXCEPT ![p] = "commit"]
  /\ IF state[r] = "interrupt_requested"
       THEN /\ reason' = [reason EXCEPT ![p] =
                 IF @ = "superseded" THEN @ ELSE "interrupted"]
            /\ claim' = [claim EXCEPT ![p] = NoClaim]
       ELSE UNCHANGED <<reason, claim>>
  /\ UNCHANGED <<task, fails, reports, delivered>>

Reread(p, r) ==
  /\ pc[p] = "reread"
  /\ \/ /\ state[r] \in Terminal /\ CommittedHere(p, r)
        /\ Goes(p, "deliver", reason[p], seen[p])
     \/ /\ state[r] \in Terminal /\ ~CommittedHere(p, r)
        /\ Ends(p, "settled") /\ UNCHANGED delivered
     \/ Reoffer(p, r)
     \/ /\ state[r] \notin Terminal /\ ~MayRetry(p, r)
        /\ Ends(p, "failed") /\ UNCHANGED delivered
     \/ CommitThrows(p)
  /\ UNCHANGED vars /\ Quiet

\* The `terminal` event, by whoever holds the terminal; then the ticket ends.
Deliver(p, r) ==
  /\ pc[p] \in {"deliver", "announce"}
  /\ delivered' = [delivered EXCEPT ![r] = @ + 1]
  /\ Ends(p, "settled")
  /\ UNCHANGED vars /\ Quiet

-----------------------------------------------------------------------------
(* The run closed from outside by an executor that could not acquire it *)

Close(p, r) ==
  /\ pc[p] = "close"
  /\ \/ Goes(p, "decide", reason[p], View(r))
     \/ Retries(p, "close")
     \/ fails[p] = MaxFailures /\ Ends(p, "unsettled") /\ UNCHANGED delivered
  /\ UNCHANGED vars /\ Quiet

\* Mutant: a run with an owner is always somebody else's.
NotMine_Owned(p, r) ==
  seen[p].state \notin Active \/ seen[p].owner # None

\* Settled, another process's, or executed here: theirs to settle.
NotMine(p, r) ==
  \/ seen[p].state \notin Active
  \/ seen[p].owner \notin {None, LabelOf[p]}
  \/ r \in ExecutedBy(LabelOf[p])

Decide(p, r) ==
  /\ pc[p] = "decide"
  /\ \/ NotMine(p, r) /\ Ends(p, "failed") /\ UNCHANGED delivered
     \/ /\ ~NotMine(p, r)
        /\ reason[p] = "conflict" /\ seen[p].owner = None
        /\ Ends(p, "unsettled") /\ UNCHANGED delivered
     \/ /\ ~NotMine(p, r)
        /\ reason[p] = "store" \/ seen[p].owner = LabelOf[p]
        /\ Goes(p, "abandon", reason[p], seen[p])
  /\ UNCHANGED vars /\ Quiet

AbandonIt(p, r) ==
  /\ pc[p] = "abandon"
  /\ \/ /\ Abandon(r, seen[p].revision)
        /\ author' = [author EXCEPT ![r] = p]
        /\ \/ Goes(p, "announce", reason[p], seen[p])
           \/ Throws(p, "abandon", "verify", reason[p])
     \/ /\ revision[r] # seen[p].revision \/ state[r] \notin Active
        /\ Goes(p, "verify", reason[p], seen[p])
        /\ UNCHANGED <<vars, author>>
     \/ Throws(p, "abandon", "verify", reason[p]) /\ UNCHANGED <<vars, author>>
  /\ UNCHANGED <<tickets, down>>

\* A reply lost after the write leaves nothing to read but the record itself.
Verify(p, r) ==
  /\ pc[p] = "verify"
  /\ \/ state[r] = "abandoned" /\ Goes(p, "announce", reason[p], seen[p])
     \/ /\ state[r] # "abandoned" \/ fails[p] = MaxFailures
        /\ Ends(p, "unsettled") /\ UNCHANGED delivered
     \/ Retries(p, "verify")
  /\ UNCHANGED vars /\ Quiet

-----------------------------------------------------------------------------
(* The host and the processes *)

Host ==
  /\ \/ Admission
     \/ \E r \in Runs :
          /\ revision[r] < MaxRevision[r]
          /\ \/ Interrupt(r, revision[r])
             \/ Requeue(r, revision[r], TRUE)
             \/ Abandon(r, revision[r])
  /\ UNCHANGED <<laneVars, outVars, down>>

Crash(l) ==
  /\ l \notin down
  /\ down' = down \cup {l}
  /\ LET dead == {p \in Lanes : LabelOf[p] = l} IN
     /\ pc' = [p \in Lanes |-> IF p \in dead THEN "idle" ELSE pc[p]]
     /\ task' = [p \in Lanes |-> IF p \in dead THEN None ELSE task[p]]
     /\ seen' = [p \in Lanes |-> IF p \in dead THEN Unread ELSE seen[p]]
     /\ fails' = [p \in Lanes |-> IF p \in dead THEN 0 ELSE fails[p]]
     /\ reason' = [p \in Lanes |-> IF p \in dead THEN "none" ELSE reason[p]]
     /\ claim' = [p \in Lanes |-> IF p \in dead THEN NoClaim ELSE claim[p]]
  /\ UNCHANGED <<vars, outVars>>

Step(p, r) ==
  \/ Lookup(p, r) \/ Absorbed(p, r) \/ Ask(p, r) \/ Granted(p, r)
  \/ Writing(p, r) \/ Fence(p, r) \/ Breaks(p, r) \/ Completes(p, r)
  \/ Classify(p, r) \/ CloseOperation(p, r)
  \/ Commit(p, r) \/ Reread(p, r) \/ Deliver(p, r)
  \/ Close(p, r) \/ Decide(p, r) \/ AbandonIt(p, r) \/ Verify(p, r)

Lane(p) == \E r \in Runs : task[p] = r /\ Step(p, r)

ExecNext ==
  \/ Host
  \/ \E l \in Labels : Crash(l)
  \/ \E p \in Lanes, r \in Runs : Start(p, r)
  \/ \E p \in Lanes : Lane(p)
  \/ \E p \in Lanes, r, c \in Runs : task[p] = r /\ TakesOn(p, r, c)
  \/ \E p \in Lanes : HandsBack(p)

ExecSpec == ExecInit /\ [][ExecNext]_execVars

\* Calls return or throw, timers fire, and a stream ends.
FairExecSpec == ExecSpec /\ \A p \in Lanes : WF_execVars(Lane(p))

-----------------------------------------------------------------------------
(* Properties *)

Views == [state : RunStates, owner : Labels \cup {None}, token : Nat, revision : Nat]

ExecTypeOK ==
  /\ TypeOK
  /\ pc \in [Lanes -> Phases]
  /\ task \in [Lanes -> Runs \cup {None}]
  /\ \A p \in Lanes : pc[p] = "idle" <=> task[p] = None
  /\ seen \in [Lanes -> Views]
  /\ fails \in [Lanes -> 0 .. MaxFailures]
  /\ reason \in [Lanes -> Reasons]
  /\ \A p \in Lanes : DOMAIN claim[p] \subseteq Runs
  /\ down \subseteq Labels
  /\ \A r \in Runs : tickets[r] \in 0 .. MaxTickets[r]
  /\ reports \in [Runs -> SUBSET Results]
  /\ delivered \in [Runs -> Nat]
  /\ author \in [Runs -> Lanes \cup {None}]

\* A turn's answer is published at most once and by the executor that committed
\* it, however many replies were lost, executors raced or processes recovered.
AnswerDeliveredOnce ==
  \A r \in Runs :
    /\ state[r] \in Outcomes => delivered[r] <= 1
    /\ \A p \in Lanes :
         pc[p] = "deliver" /\ task[p] = r => author[r] = p /\ delivered[r] = 0

\* Once an interrupt of a run is recorded, its lease never completes it: the
\* executor cannot learn the new revision without learning of the interrupt.
InterruptHonoured ==
  [][\A r \in Runs :
       state[r] = "interrupt_requested" => state'[r] # "completed"]_execVars

\* A run is never left in silence with nobody behind it.  One that has an owner
\* has a ticket in that process, and one never acquired has its ticket; or else
\* the process died, or a caller was told that the run is unsettled.
NoSilentStrand ==
  \A r \in Runs :
    /\ state[r] \in Acquired =>
         \/ \E p \in Lanes : task[p] = r /\ LabelOf[p] = owner[r]
         \/ owner[r] \in down
         \/ "unsettled" \in reports[r]
    /\ state[r] = "queued" /\ token[r] = 0 /\ tickets[r] > 0 =>
         \/ \E p \in Lanes : task[p] = r
         \/ down # {}
         \/ "unsettled" \in reports[r]

\* What run-unacquired.ts says: a run executed here or by another process is
\* theirs to settle.  So the write that follows the last one an executor knows
\* of is never another lane's closing of the run.
ExecutedRunsAreTheirs ==
  \A p \in Lanes : \A r \in Runs :
    task[p] = r /\ pc[p] \in Executing /\ revision[r] = seen[p].revision + 1
      => author[r] \in {None, p}

\* Every ticket ends, with a result or an error, whatever the store does: they
\* are finitely many, so at last every lane is idle.
TicketsEnd == <>[](\A p \in Lanes : pc[p] = "idle")

=============================================================================
