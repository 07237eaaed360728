-------------------------- MODULE NotificationOutbox --------------------------
(***************************************************************************)
(* The durable outbox of packages/core/src/application/notification-       *)
(* outbox.ts with the action plans of notification-delivery.ts: a queue    *)
(* and its receipts behind one atomic store.update, and executors that     *)
(* claim the oldest due item under a lease, carry out the actions of its   *)
(* plan one by one with a checkpoint before and after each, and then       *)
(* acknowledge, retry or drop it.                                          *)
(*                                                                         *)
(* An executor is one outbox of one process.  Its passes run one after the *)
(* other on flushTail; a pass that a timer began sets the next timer when  *)
(* it ends.  Clocks are abstracted: a lease is over, and a backoff passed, *)
(* at a step of their own.  An executor works on one item at a time, so    *)
(* the executor stands for the identity of its lease.                      *)
(***************************************************************************)
EXTENDS Naturals, Sequences, SequencesExt, FiniteSets

CONSTANTS
  Keys,         \* notification keys
  Executors,    \* outboxes over one store
  Deployments,  \* the executors whose version has the plan, one set for each rollout
  PlanSize,     \* actions of a plan
  MaxAttempts,  \* maxAttempts
  MaxQueue,     \* maxQueue
  Retained,     \* retainReceipts
  MaxEnqueues,  \* bound: notifications that are accepted
  MaxCalls,     \* bound: start() and flush() calls, and stop() calls before a start()
  MaxFaults,    \* bound: deaths, leases that run out under an executor at work,
                \* and store operations that throw
  None

ASSUME OutboxAssumption ==
  /\ Deployments \subseteq SUBSET Executors
  /\ PlanSize \in Nat /\ MaxAttempts \in Nat \ {0} /\ MaxQueue \in Nat
  /\ Retained \in Nat
  /\ MaxEnqueues \in Nat /\ MaxCalls \in Nat /\ MaxFaults \in Nat
  /\ None \notin Executors /\ None \notin Keys

VARIABLES
  queue,      \* the keys in the queue, oldest first
  receipts,   \* the keys acknowledged, newest first
  attempts, due, lease, over, confirmed, projected,  \* the fields of an item
  knows,      \* the executors whose version has the plan
  running,    \* between start() and stop()
  interrupted,
  passes,     \* the passes chained on flushTail, the active one first
  kept,       \* the timer that the handle names is pending
  lost,       \* pending timers whose handle was overwritten
  stopping,   \* for each stop() that waits, the passes before it
  pc,         \* where the active pass is
  item,       \* the key it claimed
  have,       \* the receipts of the plan as it knows them
  cause,      \* what it rejects the item for
  performed,  \* history: the actions done for a key since it was enqueued
  spent       \* what is used up of the bounds

storeVars == <<queue, receipts, attempts, due, lease, over, confirmed, projected>>
loopVars == <<knows, running, interrupted, passes, kept, lost, stopping>>
passVars == <<pc, item, have, cause>>
outboxVars == <<storeVars, loopVars, passVars, performed, spent>>

Dues == {"now", "backoff", "poll"}
Causes == {"none", "retryable", "terminal", "version"}
PCs == {"idle", "action", "sending", "sent", "project", "projected",
        "acknowledge", "reject"}
Budget == [enqueues |-> MaxEnqueues, calls |-> MaxCalls, faults |-> MaxFaults]

OutboxTypeOK ==
  /\ queue \in Seq(Keys) /\ Len(queue) <= MaxQueue /\ IsInjective(queue)
  /\ receipts \in Seq(Keys) /\ Len(receipts) <= Retained
  /\ ToSet(queue) \cap ToSet(receipts) = {}
  /\ attempts \in [Keys -> Nat]
  /\ due \in [Keys -> Dues]
  /\ lease \in [Keys -> Executors \cup {None}]
  /\ over \in [Keys -> BOOLEAN]
  /\ confirmed \in [Keys -> 0..PlanSize]
  /\ projected \in [Keys -> BOOLEAN]
  /\ knows \in Deployments
  /\ running \in [Executors -> BOOLEAN]
  /\ interrupted \in [Executors -> BOOLEAN]
  /\ passes \in [Executors -> Seq({"scheduled", "manual"})]
  /\ kept \in [Executors -> BOOLEAN]
  /\ lost \in [Executors -> Nat]
  /\ stopping \in [Executors -> Seq(Nat)]
  /\ pc \in [Executors -> PCs]
  /\ item \in [Executors -> Keys \cup {None}]
  /\ have \in [Executors -> 0..PlanSize]
  /\ cause \in [Executors -> Causes]
  /\ performed \in [Keys -> 0..PlanSize]
  /\ DOMAIN spent = DOMAIN Budget

OutboxInit ==
  /\ queue = <<>> /\ receipts = <<>>
  /\ attempts = [k \in Keys |-> 0]
  /\ due = [k \in Keys |-> "now"]
  /\ lease = [k \in Keys |-> None]
  /\ over = [k \in Keys |-> FALSE]
  /\ confirmed = [k \in Keys |-> 0]
  /\ projected = [k \in Keys |-> FALSE]
  /\ knows \in Deployments
  /\ running = [o \in Executors |-> FALSE]
  /\ interrupted = [o \in Executors |-> FALSE]
  /\ passes = [o \in Executors |-> <<>>]
  /\ kept = [o \in Executors |-> FALSE]
  /\ lost = [o \in Executors |-> 0]
  /\ stopping = [o \in Executors |-> <<>>]
  /\ pc = [o \in Executors |-> "idle"]
  /\ item = [o \in Executors |-> None]
  /\ have = [o \in Executors |-> 0]
  /\ cause = [o \in Executors |-> "none"]
  /\ performed = [k \in Keys |-> 0]
  /\ spent = [b \in DOMAIN Budget |-> 0]

Spend(b) == spent[b] < Budget[b] /\ spent' = [spent EXCEPT ![b] = @ + 1]

-------------------------------------------------------------------------------
(* The store *)

Queued(k) == k \in ToSet(queue)
Prefix(s, n) == SubSeq(s, 1, IF Len(s) < n THEN Len(s) ELSE n)
Place(k) == CHOOSE i \in DOMAIN queue : queue[i] = k
Without(k) == IF Queued(k) THEN RemoveAt(queue, Place(k)) ELSE queue

\* The live item under this lease, if there is one.
Owns(o) == item[o] # None /\ Queued(item[o]) /\ lease[item[o]] = o

Claimable_Unleased(k) == due[k] = "now" /\ lease[k] = None
Claimable(k) == due[k] = "now" /\ (lease[k] = None \/ over[k])

\* Their places in the queue: claimDue takes the oldest.
Due == {i \in DOMAIN queue : Claimable(queue[i])}
Oldest(i) == i \in Due /\ \A j \in Due : i <= j

\* An item that leaves the queue takes its fields along; a receipt keeps the
\* delivery, until it is not retained any more.
Leave(gone) ==
  /\ attempts' = [k \in Keys |-> IF k \in gone THEN 0 ELSE attempts[k]]
  /\ due' = [k \in Keys |-> IF k \in gone THEN "now" ELSE due[k]]
  /\ lease' = [k \in Keys |-> IF k \in gone THEN None ELSE lease[k]]
  /\ over' = [k \in Keys |-> over[k] /\ k \notin gone]

Forget(gone) ==
  /\ confirmed' = [k \in Keys |-> IF k \in gone THEN 0 ELSE confirmed[k]]
  /\ projected' = [k \in Keys |-> projected[k] /\ k \notin gone]
  /\ performed' = [k \in Keys |-> IF k \in gone THEN 0 ELSE performed[k]]

\* The key is queued, or its receipt is retained.
Known(k) == Queued(k) \/ k \in ToSet(receipts)

\* An item is queued once, and not again while its receipt is retained.  It may
\* supersede another, also one that is being delivered.
Enqueue(k) ==
  /\ ~Known(k)
  /\ Spend("enqueues")
  /\ \E old \in ToSet(queue) \cup {None} :
       /\ queue' = Append(Without(old), k)
       /\ Len(queue') <= MaxQueue
       /\ Leave({old}) /\ Forget({old})
  /\ UNCHANGED <<receipts, loopVars, passVars>>

-------------------------------------------------------------------------------
(* A pass *)

\* The pass is over: the next one on the chain may begin, a stop() that waited
\* for it is one nearer, and one that a timer began sets a timer, whose handle
\* replaces the one of a timer still pending.
PassEnds(o) ==
  /\ pc' = [pc EXCEPT ![o] = "idle"]
  /\ item' = [item EXCEPT ![o] = None]
  /\ have' = [have EXCEPT ![o] = 0]
  /\ cause' = [cause EXCEPT ![o] = "none"]
  /\ passes' = [passes EXCEPT ![o] = Tail(@)]
  /\ stopping' = [stopping EXCEPT ![o] = [i \in DOMAIN @ |-> @[i] - 1]]
  /\ IF Head(passes[o]) = "scheduled" /\ running[o]
       THEN /\ kept' = [kept EXCEPT ![o] = TRUE]
            /\ lost' = [lost EXCEPT ![o] = IF kept[o] THEN @ + 1 ELSE @]
       ELSE UNCHANGED <<kept, lost>>
  /\ UNCHANGED <<knows, running, interrupted>>

At(o, here) == pc[o] = here

GoesTo(o, there) ==
  pc' = [pc EXCEPT ![o] = there] /\ UNCHANGED <<item, have, cause, loopVars>>

Rejects(o, why) ==
  /\ pc' = [pc EXCEPT ![o] = "reject"]
  /\ cause' = [cause EXCEPT ![o] = why]
  /\ UNCHANGED <<item, have, loopVars>>

\* Back to the head of the loop of the pass.
NextItem(o) ==
  /\ pc' = [pc EXCEPT ![o] = "idle"]
  /\ item' = [item EXCEPT ![o] = None]
  /\ have' = [have EXCEPT ![o] = 0]
  /\ cause' = [cause EXCEPT ![o] = "none"]
  /\ UNCHANGED loopVars

\* What the executor writes is written under its lease, and extends it.
Checkpoint_Blind(o) == over' = [over EXCEPT ![item[o]] = FALSE]
Checkpoint(o) == Owns(o) /\ over' = [over EXCEPT ![item[o]] = FALSE]

LeaseLost(o) ==
  ~Owns(o) /\ PassEnds(o) /\ UNCHANGED <<storeVars, performed, spent>>

\* A stop() that waited for the pass before goes on before the next one begins.
Returning(o) == stopping[o] # <<>> /\ Head(stopping[o]) = 0

\* The head of the loop of the pass.
Asks(o) == At(o, "idle") /\ passes[o] # <<>> /\ ~Returning(o)

\* claimNext: the oldest due item, one attempt more, under a new lease.  A plan
\* this executor does not know is rejected at once.
Claim(o) ==
  /\ Asks(o) /\ ~interrupted[o]
  /\ \E i \in DOMAIN queue : LET k == queue[i] IN
     /\ Oldest(i)
     /\ attempts' = [attempts EXCEPT ![k] = @ + 1]
     /\ lease' = [lease EXCEPT ![k] = o]
     /\ over' = [over EXCEPT ![k] = FALSE]
     /\ item' = [item EXCEPT ![o] = k]
     /\ have' = [have EXCEPT ![o] = confirmed[k]]
  /\ IF o \notin knows
       THEN /\ pc' = [pc EXCEPT ![o] = "reject"]
            /\ cause' = [cause EXCEPT ![o] = "version"]
       ELSE pc' = [pc EXCEPT ![o] = "action"] /\ UNCHANGED cause
  /\ UNCHANGED <<queue, receipts, due, confirmed, projected, loopVars, performed, spent>>

NothingDue(o) ==
  /\ Asks(o) /\ (interrupted[o] \/ Due = {})
  /\ PassEnds(o)
  /\ UNCHANGED <<storeVars, performed, spent>>

\* The next action of the plan, unless stop() was called: the lease is checked
\* and extended, and the action is sent.
NextAction(o) ==
  /\ At(o, "action") /\ have[o] < PlanSize
  /\ \/ /\ interrupted[o]
        /\ PassEnds(o)
        /\ UNCHANGED <<storeVars, performed, spent>>
     \/ /\ ~interrupted[o]
        /\ LeaseLost(o)
     \/ /\ ~interrupted[o]
        /\ Checkpoint(o)
        /\ GoesTo(o, "sending")
        /\ UNCHANGED <<queue, receipts, attempts, due, lease, confirmed, projected,
                       performed, spent>>

Sent(o) ==
  /\ At(o, "sending")
  /\ \/ /\ performed' = [performed EXCEPT ![item[o]] =
                           IF Queued(item[o]) /\ @ <= have[o]
                             THEN have[o] + 1 ELSE @]
        /\ GoesTo(o, "sent")
     \/ /\ \E why \in {"retryable", "terminal"} : Rejects(o, why)
        /\ UNCHANGED performed
  /\ UNCHANGED <<storeVars, spent>>

\* The receipt of the action, under the lease.
Confirm(o) ==
  /\ At(o, "sent")
  /\ \/ LeaseLost(o)
     \/ /\ Checkpoint(o)
        /\ confirmed' = [confirmed EXCEPT ![item[o]] = have[o] + 1]
        /\ have' = [have EXCEPT ![o] = @ + 1]
        /\ pc' = [pc EXCEPT ![o] = "action"]
        /\ UNCHANGED <<queue, receipts, attempts, due, lease, projected, item, cause,
                       loopVars, performed, spent>>

\* The plan is done; the item is read again, and projected once.  A delivery that
\* stop() interrupts here is not finished, and not acknowledged.
PlanDone_Finished(o) ==
  /\ At(o, "action") /\ have[o] = PlanSize
  /\ IF interrupted[o]
       THEN GoesTo(o, "acknowledge")
       ELSE IF ~Owns(o)
       THEN PassEnds(o)
       ELSE GoesTo(o, IF projected[item[o]] THEN "acknowledge" ELSE "project")
  /\ UNCHANGED <<storeVars, performed, spent>>
PlanDone(o) ==
  /\ At(o, "action") /\ have[o] = PlanSize
  /\ IF interrupted[o] \/ ~Owns(o)
       THEN PassEnds(o)
       ELSE GoesTo(o, IF projected[item[o]] THEN "acknowledge" ELSE "project")
  /\ UNCHANGED <<storeVars, performed, spent>>

Project(o) ==
  /\ At(o, "project")
  /\ GoesTo(o, "projected") \/ \E why \in {"retryable", "terminal"} : Rejects(o, why)
  /\ UNCHANGED <<storeVars, performed, spent>>

MarkProjected(o) ==
  /\ At(o, "projected")
  /\ \/ LeaseLost(o)
     \/ /\ Checkpoint(o)
        /\ projected' = [projected EXCEPT ![item[o]] = TRUE]
        /\ GoesTo(o, "acknowledge")
        /\ UNCHANGED <<queue, receipts, attempts, due, lease, confirmed, performed, spent>>

Acknowledge(o) ==
  /\ At(o, "acknowledge")
  /\ IF Owns(o)
       THEN /\ queue' = Without(item[o])
            /\ receipts' = Prefix(<<item[o]>> \o receipts, Retained)
            /\ Leave({item[o]})
            /\ Forget(ToSet(<<item[o]>> \o receipts) \ ToSet(receipts'))
       ELSE UNCHANGED <<storeVars, performed>>
  /\ NextItem(o)
  /\ UNCHANGED spent

-------------------------------------------------------------------------------
(* A failure *)

\* A plan of a version unknown here spends no attempt of its own; those lost before
\* with their executor or their lease stay spent.
SpentBy(o) == attempts[item[o]] - (IF cause[o] = "version" THEN 1 ELSE 0)

\* dropReason: an unknown version counts as retryable.
Drops(o) == cause[o] = "terminal" \/ SpentBy(o) >= MaxAttempts

\* reject(): only the holder of the lease drops the item or puts it back.  The
\* host is told of a drop, and a callback that throws ends the pass.
Reject(o) ==
  /\ At(o, "reject")
  /\ \/ /\ ~Owns(o)
        /\ NextItem(o)
        /\ UNCHANGED <<storeVars, performed>>
     \/ /\ Owns(o) /\ Drops(o)
        /\ queue' = Without(item[o])
        /\ Leave({item[o]}) /\ Forget({item[o]})
        /\ NextItem(o) \/ PassEnds(o)
        /\ UNCHANGED receipts
     \/ /\ Owns(o) /\ ~Drops(o)
        /\ attempts' = [attempts EXCEPT ![item[o]] = SpentBy(o)]
        /\ due' = [due EXCEPT ![item[o]] =
                     IF cause[o] = "version" THEN "poll" ELSE "backoff"]
        /\ lease' = [lease EXCEPT ![item[o]] = None]
        /\ over' = [over EXCEPT ![item[o]] = FALSE]
        /\ NextItem(o)
        /\ UNCHANGED <<queue, receipts, confirmed, projected, performed>>
  /\ UNCHANGED spent

\* An operation of the store throws, with nothing written: the item is rejected
\* with that error, or the pass ends with it.
StoreThrows(o) ==
  /\ Spend("faults")
  /\ \/ Asks(o) /\ ~interrupted[o] /\ PassEnds(o)
     \/ At(o, "reject") /\ PassEnds(o)
     \/ /\ \/ At(o, "action") /\ ~interrupted[o]
           \/ \E here \in {"sent", "projected", "acknowledge"} : At(o, here)
        /\ \E why \in {"retryable", "terminal"} : Rejects(o, why)
  /\ UNCHANGED <<storeVars, knows, performed>>

-------------------------------------------------------------------------------
(* start(), stop(), flush() and the timers *)

Chain(o, pass) == passes' = [passes EXCEPT ![o] = Append(@, pass)]

Start(o) ==
  /\ ~running[o]
  /\ Spend("calls")
  /\ running' = [running EXCEPT ![o] = TRUE]
  /\ interrupted' = [interrupted EXCEPT ![o] = FALSE]
  /\ Chain(o, "scheduled")
  /\ UNCHANGED <<storeVars, knows, kept, lost, stopping, passVars, performed>>

Flush(o) ==
  /\ Spend("calls")
  /\ Chain(o, "manual")
  /\ UNCHANGED <<storeVars, knows, running, interrupted, kept, lost, stopping, passVars,
                 performed>>

Fires(o) ==
  /\ \/ kept[o] /\ kept' = [kept EXCEPT ![o] = FALSE] /\ UNCHANGED lost
     \/ lost[o] > 0 /\ lost' = [lost EXCEPT ![o] = @ - 1] /\ UNCHANGED kept
  /\ Chain(o, "scheduled")
  /\ UNCHANGED <<storeVars, knows, running, interrupted, stopping, passVars, performed, spent>>

\* stop() without a start() holds back the passes that flush() began.
Stop(o) ==
  /\ IF running[o] THEN UNCHANGED spent ELSE Spend("calls")
  /\ running' = [running EXCEPT ![o] = FALSE]
  /\ interrupted' = [interrupted EXCEPT ![o] = TRUE]
  /\ kept' = [kept EXCEPT ![o] = FALSE]
  /\ stopping' = [stopping EXCEPT ![o] = Append(@, Len(passes[o]))]
  /\ UNCHANGED <<storeVars, knows, passes, lost, passVars, performed>>

StopReturns(o) ==
  /\ Returning(o)
  /\ stopping' = [stopping EXCEPT ![o] = Tail(@)]
  /\ interrupted' = [interrupted EXCEPT ![o] = FALSE]
  /\ UNCHANGED <<storeVars, knows, running, passes, kept, lost, passVars, performed, spent>>

-------------------------------------------------------------------------------
(* Time, and the death of a process, which may be started again *)

Works(k) == \E o \in Executors : item[o] = k /\ lease[k] = o

LeaseOver(k) ==
  /\ Queued(k) /\ lease[k] # None /\ ~over[k]
  /\ IF Works(k) THEN Spend("faults") ELSE UNCHANGED spent
  /\ over' = [over EXCEPT ![k] = TRUE]
  /\ UNCHANGED <<queue, receipts, attempts, due, lease, confirmed, projected, loopVars,
                 passVars, performed>>

\* A plan nobody knew waits a poll interval, never within the same pass.
BackoffOver(k) ==
  /\ Queued(k) /\ due[k] # "now"
  /\ due[k] = "poll" => \A o \in Executors : o \in knows \/ passes[o] = <<>>
  /\ due' = [due EXCEPT ![k] = "now"]
  /\ UNCHANGED <<queue, receipts, attempts, lease, over, confirmed, projected, loopVars,
                 passVars, performed, spent>>

Crash(o) ==
  /\ Spend("faults")
  /\ pc' = [pc EXCEPT ![o] = "idle"]
  /\ item' = [item EXCEPT ![o] = None]
  /\ have' = [have EXCEPT ![o] = 0]
  /\ cause' = [cause EXCEPT ![o] = "none"]
  /\ running' = [running EXCEPT ![o] = FALSE]
  /\ interrupted' = [interrupted EXCEPT ![o] = FALSE]
  /\ passes' = [passes EXCEPT ![o] = <<>>]
  /\ kept' = [kept EXCEPT ![o] = FALSE]
  /\ lost' = [lost EXCEPT ![o] = 0]
  /\ stopping' = [stopping EXCEPT ![o] = <<>>]
  /\ UNCHANGED <<storeVars, knows, performed>>

-------------------------------------------------------------------------------
PassStep(o) ==
  \/ Claim(o) \/ NothingDue(o) \/ NextAction(o) \/ Sent(o)
  \/ Confirm(o) \/ PlanDone(o) \/ Project(o) \/ MarkProjected(o)
  \/ Acknowledge(o) \/ Reject(o)

OutboxNext ==
  \/ \E k \in Keys : Enqueue(k) \/ LeaseOver(k) \/ BackoffOver(k)
  \/ \E o \in Executors :
       \/ PassStep(o) \/ StoreThrows(o)
       \/ Start(o) \/ Flush(o) \/ Fires(o) \/ Stop(o) \/ StopReturns(o) \/ Crash(o)

OutboxSpec == OutboxInit /\ [][OutboxNext]_outboxVars

\* Every call returns or throws, every timer fires, and time passes.
OutboxFairness ==
  /\ \A o \in Executors :
       /\ WF_outboxVars(PassStep(o))
       /\ WF_outboxVars(Fires(o))
       /\ WF_outboxVars(StopReturns(o))
  /\ \A k \in Keys :
       /\ WF_outboxVars(~Works(k) /\ LeaseOver(k))
       /\ WF_outboxVars(BackoffOver(k))

FairOutboxSpec == OutboxSpec /\ OutboxFairness

-------------------------------------------------------------------------------
\* An action whose receipt is recorded is never sent again: a crash, a takeover
\* or a retry resumes the plan after it (notification-delivery.ts).
RecordedIsNotResent ==
  [][\A o \in Executors :
       pc'[o] = "sending" /\ pc[o] # "sending"
         => have[o] >= confirmed[item[o]]]_outboxVars

\* An acknowledged notification had every action of its plan carried out and its
\* projection made, whatever stopped, expired or threw on the way.
AcknowledgedWhole ==
  \A k \in ToSet(receipts) : performed[k] = PlanSize /\ projected[k]

\* Nobody runs who knows the plan, or somebody does who does not.
Unattended ==
  \/ \A o \in knows : ~running[o]
  \/ \E o \in Executors \ knows : running[o] \/ passes[o] # <<>>

\* Once only executors that know the plan run, every notification leaves the
\* queue: delivered, dropped or superseded, whoever died with it on the way.
ItemsLeave == \A k \in Keys : Queued(k) ~> ~Queued(k) \/ Unattended

\* What the comment on `interrupted` says of stop(), "claims nothing more": once
\* it has returned, no timer's pass claims until start() is called again.
StoppedClaimsNothing ==
  [][\A o \in Executors :
       item[o] = None /\ item'[o] # None /\ Head(passes[o]) = "scheduled"
         => running[o] \/ stopping[o] # <<>>]_outboxVars

\* What the comment on `unknownPlan` says of a plan that an executor does not know:
\* it "waits, attempts untouched" for one that knows it, and is not dropped here.
UnknownPlansWait ==
  [][\A o \in Executors :
       pc[o] = "reject" /\ cause[o] = "version" /\ pc'[o] # "reject" /\ Owns(o)
         => item[o] \in ToSet(queue')]_outboxVars
===============================================================================
