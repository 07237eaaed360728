-------------------------- MODULE RuntimeAdmission --------------------------
(***************************************************************************)
(* One runtime and one conversation key: from submit() to the ticket's     *)
(* result (packages/core/src/agent-runtime/runtime-submit.ts,              *)
(* admission-lanes.ts, coordinator.ts, runtime-admission-gate.ts,          *)
(* runtime-recovery.ts, runtime-control.ts, injection.ts).                 *)
(*                                                                         *)
(* JavaScript runs one callback at a time, so what happens between two     *)
(* awaits is one action: the reservation at submit, the gate re-checked    *)
(* with the store call that follows, the handoff with the abort and the    *)
(* start it causes.  A store call is one action at the moment it commits.  *)
(*                                                                         *)
(* The execution of a run is reduced to what AgentExecutor shows of it:    *)
(* it reads the revision, acquires or loses, and commits one outcome.  Of  *)
(* its provider attempts there is what injection needs: the boundary that  *)
(* takes waiting inputs on, and the retry that hands them back.            *)
(***************************************************************************)
EXTENDS AgentRunStore, SequencesExt

CONSTANTS
  RunOf,       \* [Keys -> Runs]: the run identity a submission proposes
  Elsewhere,   \* keys that another process may admit first
  TwinOf,      \* [Elsewhere -> Runs]: under these identities
  Self,        \* the executor of this runtime, a lane of the store
  Hosts        \* the applications around the runtime that are considered:
               \*   keys        the submissions there are
               \*   elsewhere   those another process may admit first
               \*   coalescing  config.runs.coalescePending
               \*   policies    the input policies in use
               \*   recovers    whether recover() is called in this process
               \*   interrupts  whether runs are interrupted
               \*   lossy       whether a store call may throw, done or not
               \*   budgeted    whether close() is given a forceTimeoutMs

InputPolicies == {"queue", "interrupt", "interrupt-next", "supersede", "inject"}

ASSUME AdmissionAssumption ==
  /\ RunOf \in [Keys -> Runs]
  /\ \A k, j \in Keys : RunOf[k] = RunOf[j] => k = j
  /\ Elsewhere \subseteq Keys
  /\ TwinOf \in [Elsewhere -> Runs]
  /\ \A k \in Elsewhere, j \in Keys : TwinOf[k] # RunOf[j]
  /\ Self \in Lanes
  /\ IsFiniteSet(Runs) /\ IsFiniteSet(Keys)
  /\ 0 .. Cardinality(Keys) \subseteq Stamps
  /\ Keys \cap Runs = {}
  /\ None \notin Keys
  /\ \A h \in Hosts :
       /\ h.elsewhere \subseteq Elsewhere \cap h.keys /\ h.keys \subseteq Keys
       /\ h.policies \subseteq InputPolicies
       /\ {h.coalescing, h.recovers, h.interrupts, h.lossy, h.budgeted} \subseteq BOOLEAN

VARIABLES
  host,       \* the application around the runtime
  phase,      \* [Keys -> where the submission is]
  policy,     \* [Keys -> its input policy]
  stamp,      \* [Keys -> its createdAt, taken when submit() was called]
  plan,       \* [Keys -> the reservation of its run in the admission lane]
  result,     \* [Keys -> what its ticket ended with]
  clock,      \* submissions so far
  laneState,  \* the admission lane of the key: head, pending, acceptance tail
  queue,      \* the coordinator's queue of jobs
  active,     \* the job being executed, or None
  stage,      \* where it is
  signal,     \* its abort reason
  read,       \* the revision it read
  offered,    \* inputs a run in flight may take on
  absorbed,   \* inputs the active run will claim to have answered
  taken,      \* inputs its current attempt took, and its provider was shown
  closing,    \* where close() is
  awaited,    \* admissions that close() waits for
  stranded,   \* whether it gave some of them up
  todo,       \* runs that recover() has still to decide
  step,       \* where it is with the first of them
  scheduled,  \* runs it resumed
  recovered,  \* whether it has been called
  stops       \* durable interrupts whose process signal is still to come

subVars  == <<phase, policy, stamp, plan, result, clock, laneState>>
jobVars  == <<queue, active, stage, signal, read>>
takeVars == <<offered, absorbed, taken>>
endVars  == <<closing, awaited, stranded>>
recVars  == <<todo, step, scheduled, recovered>>
hostVars == <<stops, host>>
admissionVars == <<vars, subVars, jobVars, takeVars, endVars, recVars, hostVars>>

Entered == {"entered", "cleared", "written"}
Phases  == {"new", "attached", "ticketed", "done"} \cup Entered
Reasons == {"none", "answered", "refused", "closed", "conflict", "duplicate",
            "unsettled", "failed"}
Signals == {"none", "user-interrupt", "supersede", "shutdown"}

\* A submission without a reservation always schedules its own run.
NoPlan == [run |-> None, schedules |-> TRUE, previous |-> None]
Idle   == [head |-> None, pending |-> None, tail |-> None]

\* A job is a submission, or a run that recover() resumes.
RunFor(j) == IF j \in Keys THEN RunOf[j] ELSE j
Urgent(j) == j \in Keys /\ policy[j] = "interrupt-next"

AdmissionInit ==
  /\ Init
  /\ host \in Hosts
  /\ phase = [s \in Keys |-> "new"]
  /\ policy = [s \in Keys |-> "queue"]
  /\ stamp = [s \in Keys |-> 0]
  /\ plan = [s \in Keys |-> NoPlan]
  /\ result = [s \in Keys |-> "none"]
  /\ clock = 0
  /\ laneState = Idle
  /\ queue = <<>> /\ active = None /\ stage = "idle" /\ signal = "none" /\ read = 0
  /\ offered = {} /\ absorbed = {} /\ taken = {}
  /\ closing = "open" /\ awaited = {} /\ stranded = FALSE
  /\ todo = <<>> /\ step = "idle" /\ scheduled = {} /\ recovered = FALSE
  /\ stops = {}

-----------------------------------------------------------------------------
(* The admission lane *)

Reserve(s) ==
  LET head == laneState.head  pending == laneState.pending
      run  == IF head = None \/ pending = None THEN RunOf[s] ELSE pending
  IN
  /\ plan' = [plan EXCEPT ![s] =
       [run |-> run, schedules |-> head = None \/ pending = None,
        previous |-> laneState.tail]]
  /\ laneState' = [head    |-> IF head = None THEN run ELSE head,
                   pending |-> IF head = None THEN pending ELSE run,
                   tail    |-> s]

\* The lane once the admissions of the runs R are settled.
Settled(R) ==
  LET h == IF laneState.head \in R THEN None ELSE laneState.head
      p == IF laneState.pending \in R THEN None ELSE laneState.pending
  IN IF h = None /\ p = None THEN Idle
     ELSE [head    |-> IF h = None THEN p ELSE h,
           pending |-> IF h = None THEN None ELSE p,
           tail    |-> laneState.tail]

\* Mutant: acceptances are not serialized.
AcceptanceDone_Always(s) == s \in Keys \cup {None}

\* acceptanceDone: resolved when the admission of s is over, however it ended.
AcceptanceDone(s) == s # None => phase[s] \notin Entered

-----------------------------------------------------------------------------
(* Tickets *)

\* Mutant: the head settles everyone who coalesced.
Followers_Everyone(S) == {f \in Keys : phase[f] = "attached" /\ S # {}}

\* Mutant: nobody is told.
Followers_Nobody(S) == {f \in S : FALSE}

\* The completion of a reserved run is the result of everyone coalesced into it.
Followers(S) ==
  {f \in Keys : /\ phase[f] = "attached"
                /\ \E s \in S : plan[f].run = RunOf[s]}

\* forgetTicket: a ticket that ends withdraws the offers of its run.
Withdrawn(told) ==
  {o \in offered : \E s \in told :
     /\ policy[s] = "inject" /\ phase[s] \in {"written", "attached", "ticketed"}
     /\ receipt[o] = receipt[s]}

Tell(S, why) ==
  LET told == S \cup Followers(S) IN
  /\ offered' = offered \ Withdrawn(told)
  /\ phase' = [s \in Keys |-> IF s \in told THEN "done" ELSE phase[s]]
  /\ result' = [s \in Keys |-> IF s \in told THEN why ELSE result[s]]
  /\ laneState' = Settled({RunOf[s] : s \in S})

\* A submission that coalesced has no admission of its own to settle.
Refuse(s, why) ==
  /\ IF plan[s].schedules
       THEN Tell({s}, why)
       ELSE /\ phase' = [phase EXCEPT ![s] = "done"]
            /\ result' = [result EXCEPT ![s] = why]
            /\ offered' = offered \ Withdrawn({s})
            /\ UNCHANGED laneState
  /\ UNCHANGED <<policy, stamp, plan, clock, absorbed, taken>>

Moves(s, next) ==
  /\ phase' = [phase EXCEPT ![s] = next]
  /\ UNCHANGED <<policy, stamp, plan, result, clock, laneState>>

-----------------------------------------------------------------------------
(* The coordinator *)

\* AbortController: the first reason stays.
Aborted(why) == IF active # None /\ signal = "none" THEN why ELSE signal

Starts(j, rest) ==
  /\ queue' = rest
  /\ active' = j
  /\ stage' = IF j = None THEN "idle" ELSE "create"
  /\ signal' = "none"
  /\ read' = 0
  /\ absorbed' = {} /\ taken' = {}

AbortFor(how) ==
  CASE how \in {"interrupt", "interrupt-next"} -> Aborted("user-interrupt")
    [] how = "supersede" -> Aborted("supersede")
    [] OTHER -> signal

\* Mutant: an urgent job waits its turn.
Enqueue_InOrder(j, how) ==
  IF active = None
    THEN Starts(j, queue)
    ELSE /\ queue' = Append(queue, j)
         /\ signal' = AbortFor(how)
         /\ UNCHANGED <<active, stage, read, absorbed, taken>>

\* Where an urgent job goes: the place of the first ordinary one, or the end.
FirstOrdinary(i) ==
  /\ i \in 1 .. Len(queue) + 1
  /\ \A h \in 1 .. i - 1 : Urgent(queue[h])
  /\ i \in DOMAIN queue => ~Urgent(queue[i])

\* submit on the coordinator: abort, queue by priority, start if the lane is free.
Enqueue(j, how) ==
  IF active = None
    THEN Starts(j, queue)
    ELSE /\ IF how = "interrupt-next"
              THEN \E i \in 1 .. Len(queue) + 1 :
                     FirstOrdinary(i) /\ queue' = InsertAt(queue, i, j)
              ELSE queue' = Append(queue, j)
         /\ signal' = AbortFor(how)
         /\ UNCHANGED <<active, stage, read, absorbed, taken>>

StartNext == IF queue = <<>> THEN Starts(None, queue) ELSE Starts(Head(queue), Tail(queue))

\* The item recover() is at is over; a resumed one was acquired.
ItemOver(resumed) ==
  /\ todo' = Tail(todo)
  /\ step' = "idle"
  /\ scheduled' = scheduled \cup resumed
  /\ UNCHANGED recovered

AcquisitionSettles(j, resumed) ==
  IF step = "wait" /\ Head(todo) = j THEN ItemOver(resumed) ELSE UNCHANGED recVars

\* The active job ends: its tickets are told and the next one starts.
JobEnds(why, resumed) ==
  /\ IF active \in Keys
       THEN Tell({active}, why) /\ UNCHANGED <<policy, stamp, plan, clock>>
       ELSE UNCHANGED <<subVars, offered>>
  /\ StartNext
  /\ AcquisitionSettles(active, resumed)
  /\ UNCHANGED <<endVars, hostVars>>

-----------------------------------------------------------------------------
(* submit() *)

Submit(s, how) ==
  /\ s \in host.keys /\ how \in host.policies
  /\ phase[s] = "new" /\ closing = "open"
  /\ phase' = [phase EXCEPT ![s] = "entered"]
  /\ policy' = [policy EXCEPT ![s] = how]
  /\ clock' = clock + 1
  /\ stamp' = [stamp EXCEPT ![s] = clock']
  /\ IF host.coalescing /\ how # "interrupt-next" THEN Reserve(s) ELSE UNCHANGED <<plan, laneState>>
  /\ UNCHANGED <<vars, result, jobVars, takeVars, endVars, recVars, hostVars>>

\* After the acceptance before it and the preflight: the gate again, then the
\* store call.
Preflight(s) ==
  /\ phase[s] = "entered" /\ AcceptanceDone(plan[s].previous)
  /\ \/ closing = "open" /\ Moves(s, "cleared") /\ UNCHANGED takeVars
     \/ closing # "open" /\ Refuse(s, "closed")
     \/ Refuse(s, "refused")
  /\ UNCHANGED <<vars, jobVars, endVars, recVars, hostVars>>

\* A new run, or one more input of the pending run.
Admit(s) == IF plan[s].schedules
              THEN Accept(s, RunOf[s], policy[s] = "interrupt-next", stamp[s])
              ELSE Coalesce(s, plan[s].run)

\* What a duplicate ends with: the answer of the run that has its input.
Duplicate(s) == IF state[AdmittedRun(s)] \in Terminal THEN "answered" ELSE "duplicate"

\* acceptInputAndAssignRun: it is not retried.
Write(s) ==
  /\ phase[s] = "cleared"
  /\ \/ Admit(s) /\ Moves(s, "written") /\ UNCHANGED takeVars
     \/ host.lossy /\ (Admit(s) \/ UNCHANGED vars) /\ Refuse(s, "refused")
     \/ /\ ~plan[s].schedules /\ Fresh(s) /\ ~Joinable(plan[s].run)
        /\ Refuse(s, "conflict")
        /\ UNCHANGED vars
     \/ /\ ~Fresh(s)
        /\ Refuse(s, Duplicate(s))
        /\ UNCHANGED vars
  /\ UNCHANGED <<jobVars, endVars, recVars, hostVars>>

Offer(s) == offered' = IF policy[s] = "inject" THEN offered \cup {s} ELSE offered

\* The admission events are published and the input is offered; then the run is
\* handed off.
HandOff(s) ==
  /\ phase[s] = "written"
  /\ \/ /\ plan[s].schedules /\ closing \in {"open", "draining"}
        /\ Moves(s, "ticketed")
        /\ Offer(s)
        /\ Enqueue(s, policy[s])
     \/ /\ plan[s].schedules /\ closing \notin {"open", "draining"}
        /\ Refuse(s, "closed")
        /\ UNCHANGED jobVars
     \/ /\ ~plan[s].schedules
        /\ \E t \in Keys :
             /\ RunOf[t] = plan[s].run
             /\ IF phase[t] = "done"
                  THEN Refuse(s, result[t])
                  ELSE Moves(s, "attached") /\ Offer(s) /\ UNCHANGED <<absorbed, taken>>
        /\ UNCHANGED jobVars
  /\ UNCHANGED <<vars, endVars, recVars, hostVars>>

-----------------------------------------------------------------------------
(* The active job *)

\* A reserved run waits for the inputs that may still join it.
Create ==
  /\ stage = "create"
  /\ active \in Keys /\ plan[active].run # None => AcceptanceDone(laneState.tail)
  /\ stage' = "lookup"
  /\ UNCHANGED <<vars, subVars, queue, active, signal, read, takeVars, endVars, recVars, hostVars>>

\* Mutant: a run that starts leaves its own inputs on offer.
Executes_Offered(r) == UNCHANGED offered

\* A run that executes is no longer one that another run may take on.
Executes(r) == offered' = {o \in offered : receipt[o] # r}

\* The run is read; one whose inputs were taken on has its answer already.
Lookup ==
  LET r == RunFor(active) IN
  /\ stage = "lookup"
  /\ \/ /\ into[r] = None
        /\ Executes(r)
        /\ read' = revision[r]
        /\ stage' = "acquire"
        /\ UNCHANGED <<subVars, queue, active, signal, absorbed, taken, recVars, endVars, hostVars>>
     \/ /\ into[r] # None
        /\ JobEnds("answered", {r})
  /\ UNCHANGED vars

AcquireRun ==
  LET r == RunFor(active) IN
  /\ stage = "acquire"
  /\ \/ /\ Acquire(Self, r, read)
        /\ stage' = "run"
        /\ AcquisitionSettles(active, {r})
        /\ UNCHANGED <<subVars, queue, active, signal, read, takeVars, endVars, hostVars>>
     \/ /\ state[r] # "queued" \/ revision[r] # read \/ \E c \in Runs : Blocks(c, r)
        /\ JobEnds(IF state[r] = "queued" THEN "unsettled" ELSE "failed", {})
        /\ UNCHANGED vars

AttemptUnchanged == UNCHANGED <<vars, subVars, jobVars, endVars, recVars, hostVars>>

\* A model boundary: whatever the other runs of the key offer is taken on.
TakeOn ==
  LET others == {o \in offered : receipt[o] # RunFor(active)} IN
  /\ stage = "run" /\ others # {}
  /\ offered' = offered \ others
  /\ absorbed' = absorbed \cup others
  /\ taken' = taken \cup others
  /\ AttemptUnchanged

\* Mutant: what was handed back is still claimed.
Retry_StillClaims ==
  /\ stage = "run" /\ taken # {}
  /\ offered' = offered \cup taken
  /\ taken' = {}
  /\ UNCHANGED absorbed
  /\ AttemptUnchanged

\* A provider error that is retried drops what the attempt said, and hands back
\* what it took.
Retry ==
  /\ stage = "run" /\ taken # {}
  /\ offered' = offered \cup taken
  /\ absorbed' = absorbed \ taken
  /\ taken' = {}
  /\ AttemptUnchanged

\* The run as it is committed: an abort or a durable interrupt has its say,
\* unless the run was past asking for it.
Endings(r) ==
  CASE state[r] = "interrupt_requested" ->
         IF signal = "supersede" THEN {"superseded", "interrupted"} ELSE {"interrupted"}
    [] signal = "user-interrupt" -> {"completed", "failed", "interrupted"}
    [] signal = "supersede" -> {"completed", "failed", "superseded"}
    [] signal = "shutdown" -> {"completed", "failed", "cancelled"}
    [] OTHER -> {"completed", "failed"}

\* Only a run that completed claims the inputs it took on, grouped by their runs.
Claimed(outcome) ==
  [c \in IF outcome = "completed" THEN {receipt[s] : s \in absorbed} ELSE {} |->
     {s \in absorbed : receipt[s] = c}]

FinishRun ==
  LET r == RunFor(active) IN
  /\ stage = "run"
  /\ \E outcome \in Endings(r) : Finish(Self, r, revision[r], outcome, Claimed(outcome))
  /\ JobEnds("answered", {})

-----------------------------------------------------------------------------
(* recover() *)

\* The recoverable runs in the durable order.
ActiveRuns == {r \in Runs : state[r] \in Active}
InDurableOrder(q) == \A i, j \in DOMAIN q : i < j => Before(q[i], q[j])

RecoveryUnchanged == UNCHANGED <<vars, subVars, jobVars, takeVars, endVars, hostVars>>

StartRecovery ==
  /\ host.recovers /\ ~recovered /\ closing = "open"
  /\ recovered' = TRUE
  /\ \E q \in [1 .. Cardinality(ActiveRuns) -> ActiveRuns] :
       InDurableOrder(q) /\ todo' = q
  /\ UNCHANGED <<step, scheduled>>
  /\ RecoveryUnchanged

\* One item: its place in the queue is read again, then the host decides.
NextItem ==
  /\ todo # <<>> /\ step = "idle"
  /\ IF closing # "open"
       THEN todo' = <<>> /\ UNCHANGED <<step, scheduled, recovered>>
       ELSE LET r == Head(todo) IN
            \/ /\ state[r] \in Active
               /\ \E c \in ActiveRuns \ scheduled : c # r /\ Before(c, r)
               /\ ItemOver({})
            \/ /\ state[r] \in Active =>
                     \A c \in ActiveRuns \ scheduled : c = r \/ ~Before(c, r)
               /\ step' = "decide"
               /\ UNCHANGED <<todo, scheduled, recovered>>
  /\ RecoveryUnchanged

\* After decide() the gate is read again: what follows may write.
Decided ==
  /\ step = "decide"
  /\ \/ closing = "open" /\ \E next \in {"abandon", "requeue", "resume"} : step' = next
        /\ UNCHANGED <<todo, scheduled, recovered>>
     \/ ItemOver({})
  /\ RecoveryUnchanged

\* abandon or requeue, with the revision of the scan: it may have moved.  A run that was
\* acquired at the scan is one that this process executes, and recover() decides on it
\* by itself only to skip it; the evidence that a decide() must give to touch it
\* (runtime.ts:95-96: staleOwner, replaySafe) is false of it, so no host does.
Decision ==
  LET r == Head(todo) IN
  /\ \/ step = "abandon" /\ state[r] = "queued" /\ Abandon(r, revision[r]) /\ ItemOver({})
     \/ /\ step = "requeue" /\ state[r] = "queued" /\ Requeue(r, revision[r], TRUE)
        /\ step' = "resume"
        /\ UNCHANGED <<todo, scheduled, recovered>>
     \/ step \in {"abandon", "requeue"} /\ ItemOver({}) /\ UNCHANGED vars
  /\ UNCHANGED <<subVars, jobVars, takeVars, endVars, hostVars>>

\* resumeAgentRun: the gate, then loadRun, then a ticket; the item waits until
\* the run is acquired.
Resume ==
  /\ step = "resume"
  /\ IF closing = "open"
       THEN step' = "load" /\ UNCHANGED <<todo, scheduled, recovered>>
       ELSE ItemOver({})
  /\ RecoveryUnchanged

Load ==
  LET r == Head(todo) IN
  /\ step = "load"
  /\ IF state[r] = "queued" /\ closing \in {"open", "draining"}
       THEN /\ step' = "wait"
            /\ Enqueue(r, "queue")
            /\ UNCHANGED <<todo, scheduled, recovered>>
       ELSE ItemOver({}) /\ UNCHANGED <<jobVars, absorbed, taken>>
  /\ UNCHANGED <<vars, subVars, offered, endVars, hostVars>>

-----------------------------------------------------------------------------
(* interrupt() and close() *)

\* The durable request; the process signal follows once it is published.
InterruptRun(r) ==
  /\ host.interrupts
  /\ Interrupt(r, revision[r])
  /\ stops' = stops \cup {r}
  /\ UNCHANGED <<subVars, jobVars, takeVars, endVars, recVars, host>>

\* stop(key): whatever is active on the key by then.
Stop(r) ==
  /\ r \in stops
  /\ stops' = stops \ {r}
  /\ signal' = Aborted("user-interrupt")
  /\ UNCHANGED <<vars, subVars, queue, active, stage, read, takeVars, endVars, recVars, host>>

\* Mutant: an admission is waited for until its ticket ends.
Released_WithItsTicket(a) ==
  IF a \in Keys THEN phase[a] = "done" ELSE step = "idle" \/ Head(todo) # a

\* An admission is released by a refusal or by its handoff; an item of recover()
\* when it is over, which for a resumed run is its acquisition.
Released(a) ==
  IF a \in Keys THEN phase[a] \notin Entered ELSE step = "idle" \/ Head(todo) # a

\* Mutant: the gate holds the items of recover() only.
Inside_Items == IF step = "idle" THEN {} ELSE {Head(todo)}

\* admissionsInFlight: what is past the gate and not released.
Inside == {s \in Keys : phase[s] \in Entered}
            \cup (IF step = "idle" THEN {} ELSE {Head(todo)})

Close ==
  /\ closing = "open"
  /\ closing' = "draining"
  /\ awaited' = Inside
  /\ offered' = {}
  /\ UNCHANGED <<vars, subVars, jobVars, absorbed, taken, stranded, recVars, hostVars>>

\* The drain is over, or its budget is spent: the coordinator rejects what waits
\* and aborts the active run, at once or after the grace period.
Drain ==
  LET late     == {a \in awaited : ~Released(a)}
      rejected == ToSet(queue) IN
  /\ closing = "draining"
  /\ late = {} \/ host.budgeted
  /\ stranded' = (late # {})
  /\ Tell(rejected \cap Keys, "closed")
  /\ queue' = <<>>
  /\ IF step = "wait" /\ Head(todo) \in rejected THEN ItemOver({}) ELSE UNCHANGED recVars
  /\ \/ closing' = "grace" /\ UNCHANGED signal
     \/ closing' = "aborted" /\ signal' = Aborted("shutdown")
  /\ UNCHANGED <<vars, policy, stamp, plan, clock, active, stage, read, absorbed, taken, awaited,
                 hostVars>>

GraceEnds ==
  /\ closing = "grace" /\ active # None
  /\ closing' = "aborted"
  /\ signal' = Aborted("shutdown")
  /\ UNCHANGED <<vars, subVars, queue, active, stage, read, takeVars, awaited, stranded, recVars,
                 hostVars>>

Return ==
  /\ \/ closing \in {"grace", "aborted"} /\ active = None
     \/ closing = "aborted" /\ host.budgeted
  /\ closing' = IF active = None /\ ~stranded THEN "settled" ELSE "timedOut"
  /\ UNCHANGED <<vars, subVars, jobVars, takeVars, awaited, stranded, recVars, hostVars>>

\* Another process admits the same input first.
AdmittedElsewhere(k) ==
  /\ k \in host.elsewhere
  /\ Accept(k, TwinOf[k], FALSE, clock)
  /\ UNCHANGED <<subVars, jobVars, takeVars, endVars, recVars, hostVars>>

-----------------------------------------------------------------------------
Submission(s) == Preflight(s) \/ Write(s) \/ HandOff(s)
Starting   == Create \/ Lookup \/ AcquireRun
Recovering == NextItem \/ Decided \/ Decision \/ Resume \/ Load
Stopping   == Drain \/ GraceEnds \/ Return

AdmissionNext ==
  \/ \E s \in Keys : (\E how \in InputPolicies : Submit(s, how)) \/ Submission(s)
  \/ Starting \/ TakeOn \/ Retry \/ FinishRun
  \/ StartRecovery \/ Recovering
  \/ \E r \in Runs : InterruptRun(r) \/ Stop(r)
  \/ Close \/ Stopping
  \/ \E k \in Elsewhere : AdmittedElsewhere(k)

AdmissionSpec == AdmissionInit /\ [][AdmissionNext]_admissionVars

\* Calls return or throw, timers fire, and an aborted run ends.
FairAdmission ==
  /\ \A s \in Keys : WF_admissionVars(Submission(s))
  /\ WF_admissionVars(Starting)
  /\ WF_admissionVars(Recovering)
  /\ WF_admissionVars(Stopping)
  /\ \A r \in Runs : WF_admissionVars(Stop(r))
  /\ WF_admissionVars(signal # "none" /\ FinishRun)

\* A run may go on until it is aborted.
FairAdmissionSpec == AdmissionSpec /\ FairAdmission

-----------------------------------------------------------------------------
(* Properties *)

AdmissionTypeOK ==
  /\ TypeOK /\ host \in Hosts
  /\ phase \in [Keys -> Phases]
  /\ policy \in [Keys -> InputPolicies]
  /\ stamp \in [Keys -> Nat] /\ clock \in Nat
  /\ plan \in [Keys -> [run : Runs \cup {None}, schedules : BOOLEAN,
                       previous : Keys \cup {None}]]
  /\ result \in [Keys -> Reasons]
  /\ \A s \in Keys : phase[s] = "done" <=> result[s] # "none"
  /\ laneState \in [head : Runs \cup {None}, pending : Runs \cup {None},
                    tail : Keys \cup {None}]
  /\ queue \in Seq(Keys \cup Runs)
  /\ active \in Keys \cup Runs \cup {None}
  /\ stage \in {"idle", "create", "lookup", "acquire", "run"}
  /\ active = None <=> stage = "idle"
  /\ active = None => queue = <<>>
  /\ signal \in Signals /\ read \in Nat
  /\ absorbed \subseteq Keys /\ taken \subseteq Keys /\ offered \subseteq Keys \ taken
  /\ closing \in {"open", "draining", "grace", "aborted", "settled", "timedOut"}
  /\ awaited \subseteq Keys \cup Runs /\ stranded \in BOOLEAN
  /\ todo \in Seq(Runs)
  /\ step \in {"idle", "decide", "abandon", "requeue", "resume", "load", "wait"}
  /\ step # "idle" => todo # <<>>
  /\ scheduled \subseteq Runs /\ stops \subseteq Runs /\ recovered \in BOOLEAN

\* A ticket that resolves was answered: the run that carries its input is settled,
\* also when the input was coalesced, or admitted by another process before.
AnswersAreTheirs ==
  \A s \in Keys : result[s] = "answered" =>
    /\ receipt[s] # None
    /\ state[AdmittedRun(s)] \in Terminal
    /\ s \in inputs[AdmittedRun(s)]

\* What a queue means where the lane accepts one input at a time: the ticket of an
\* admitted run does not end with the run still waiting and nothing in this process
\* behind it.  Without coalescePending, with urgent input, with another process, a
\* recovery or a lost reply it may (README, disagreements).
NoneLeftBehind ==
     /\ host.coalescing /\ host.policies \subseteq {"queue", "inject"}
     /\ ~host.lossy /\ host.elsewhere = {} /\ ~host.recovers
  => \A s \in Keys : result[s] # "unsettled"

\* An absorbed input was shown to the provider in the very attempt whose answer was
\* committed, not in one that was thrown away (run-model-attempts.ts:318).
AbsorbedWereShown ==
  [][\A r \in Runs : into'[r] # into[r] => inputs[r] \subseteq taken]_admissionVars

\* Until close(), what a run may take on is an input still waiting for its own run:
\* never one that is being answered, or was (run-acquisition.ts:32-36).  After recover()
\* it may be one that was abandoned, which the store drops from the commit.
OffersAreWaiting ==
     closing = "open" /\ ~recovered
  => \A o \in offered : state[receipt[o]] = "queued"

\* An ordinary submission never starts while an urgent one waits (coordinator.ts).
UrgentFirst ==
  [][active' # active /\ active' \in Keys /\ ~Urgent(active')
       => \A i \in DOMAIN queue' : ~Urgent(queue'[i])]_admissionVars

\* A close() that reported settlement is the end: this runtime admits nothing and
\* touches no run afterwards.
ClosedIsQuiet ==
  [][closing = "settled" =>
       \A r \in Runs :
         \/ Record(r)' = Record(r)
         \/ state[r] = "absent" /\ \E k \in Elsewhere : r = TwinOf[k]]_admissionVars

\* Where every run ends of itself, every submission ends: it is answered, or its
\* caller is told why not.
SubmissionsEnd ==
  WF_admissionVars(FinishRun)
    => <>[](\A s \in Keys : phase[s] \in {"new", "done"})

\* What docs/guide/agent-runtime.md says of a close() without budgets: it aborts
\* the active run, and so waits for a settlement that comes.  With a budget it does so
\* too beside a recover() whose item waits for that very run (runtime-recovery.ts:222).
CloseAborts ==
  <>[](closing \in {"draining", "grace"} => active = None \/ signal # "none")

=============================================================================
