------------------------- MODULE ApplicationKernel -------------------------
(***************************************************************************)
(* One application: the lifetime createApplication gives its resources     *)
(* (packages/core/src/application/kernel-*.ts): start and activation, the  *)
(* rollback of a failed start, subtree restarts, admission and the bounded *)
(* shutdown, with what the resources do between the calls.                 *)
(*                                                                         *)
(* Three programs share the kernel's state: the start chain, the restart   *)
(* chain, the shutdown.  JavaScript runs one of them from one await to the *)
(* next, so `turn` names the program that is running and everything else   *)
(* waits for it.  A hook of a resource is a call and, any time later or    *)
(* never, its settlement.                                                  *)
(*                                                                         *)
(* The resources are the environment: a start() that resolves has opened a *)
(* generation, a close() or force() that resolves has closed those that    *)
(* were open when it was called.                                           *)
(***************************************************************************)
EXTENDS Integers, FiniteSets, SequencesExt

CONSTANTS
  Order,       \* the resources in start order, a topological order
  DependsOn,   \* [Resources -> SUBSET Resources]
  Required,    \* the resources without `required: false`
  LongLived,   \* the resources whose start() returns a completion
  Reporters,   \* the resources that report their health
  Forceable,   \* the resources with a force() hook
  EarlyRestarts, \* whether the host calls restart() before start() has settled
  MaxRestarts, \* bound: calls of restart()
  MaxPending   \* bound: operations in flight

Resources == ToSet(Order)

ASSUME KernelAssumption ==
  /\ Order \in Seq(Resources) /\ IsInjective(Order)
  /\ DependsOn \in [Resources -> SUBSET Resources]
  /\ \A i \in DOMAIN Order : DependsOn[Order[i]] \subseteq {Order[j] : j \in 1 .. i - 1}
  /\ \A r \in Required : DependsOn[r] \subseteq Required
  /\ Required \cup LongLived \cup Reporters \cup Forceable \subseteq Resources
  /\ EarlyRestarts \in BOOLEAN
  /\ MaxRestarts \in Nat /\ MaxPending \in Nat

VARIABLES
  lifecycle, accepting, pending, shutdownRequested, activationComplete,
  \* the records: two functions and the sets of resources with a flag
  state, healthy, reported, attempted, activated, closeInvoked, closed, published,
  chain,          \* the start chain and the restart chain: where, and what is left
  subtree,        \* what the restart in flight replaces, in start order
  restartAborted, \* its abort signal
  queue,          \* restarts behind it
  restarts,       \* calls of restart() so far
  down,           \* the shutdown: where, and what is left of its sweep
  forced, gracefulFailed,
  forcing,        \* resources whose forced cleanup is awaited
  result,         \* what shutdown() returned
  turn,           \* the program that is running, or "none"
  gen,            \* starts of each resource so far
  live,           \* its open generations
  closing,        \* those its last close() or force() was asked to close
  watched,        \* those whose completion the kernel still observes
  handle,         \* the generation of each dependency it was handed
  raced           \* history: a restart overlapped startup or shutdown

kernelVars == <<lifecycle, accepting, shutdownRequested, activationComplete>>
recordVars == <<state, healthy, reported, attempted, activated, closeInvoked, closed, published>>
restartVars == <<subtree, restartAborted, queue, restarts>>
downVars == <<down, forced, gracefulFailed, forcing, result>>
worldVars == <<gen, live, closing, watched, handle>>
vars == <<kernelVars, pending, recordVars, chain, restartVars, downVars, turn, worldVars, raced>>

Chains == {"start", "restart"}
Generations == 0 .. MaxRestarts + 1
Lifecycles == {"created", "starting", "ready", "draining", "stopping", "stopped", "failed"}
States == {"registered", "starting", "ready", "stopping", "stopped", "failed"}
ChainPCs == {"idle", "starting", "start", "ready", "activating", "activate", "closing",
             "stopAdmission", "drain", "close", "failed", "rollback", "rollbackClose", "done"}
DownPCs == {"idle", "startPromise", "stopping", "stopAdmission", "pending", "draining", "drain",
            "closing", "close", "force", "done"}
NoHandle == [r \in Resources |-> 0]

\* isReady(): what the snapshot calls ready.
ReadyWhen(l, s, h) == l = "ready" /\ \A r \in Required : s[r] = "ready" /\ r \in h
Ready == ReadyWhen(lifecycle, state, healthy)

Init ==
  /\ lifecycle = "created" /\ accepting = FALSE /\ pending = 0
  /\ shutdownRequested = FALSE /\ activationComplete = FALSE
  /\ state = [r \in Resources |-> "registered"]
  /\ healthy = {} /\ reported = {} /\ attempted = {} /\ activated = {} /\ closeInvoked = {} /\ closed = {}
  /\ published = NoHandle
  /\ chain = [c \in Chains |-> [pc |-> "idle", todo |-> <<>>]]
  /\ subtree = <<>> /\ restartAborted = FALSE /\ queue = <<>> /\ restarts = 0
  /\ down = [pc |-> "idle", todo |-> <<>>]
  /\ forced = FALSE /\ gracefulFailed = FALSE /\ forcing = {} /\ result = "none"
  /\ turn = "none"
  /\ gen = NoHandle
  /\ live = [r \in Resources |-> {}] /\ closing = live /\ watched = live
  /\ handle = [r \in Resources |-> NoHandle]
  /\ raced = FALSE

At(c, pc) == chain[c].pc = pc
Goes(c, pc, todo) == chain' = [chain EXCEPT ![c] = [pc |-> pc, todo |-> todo]]
Current(c) == Head(chain[c].todo)
Left(c) == Tail(chain[c].todo)
Entries(c) == IF c = "start" THEN Order ELSE subtree

\* The abort signal of a chain: the shutdown's, and a restart's own.
Interrupted(c) == shutdownRequested \/ (c = "restart" /\ restartAborted)

\* The record of a resource that failed in a phase.
MarkFailed(r) ==
  /\ state' = [state EXCEPT ![r] = "failed"]
  /\ healthy' = healthy \ {r}

\* A close() or force() is asked to close what is open now, and may do so.
AskToClose(rs) == closing' = [r \in Resources |-> IF r \in rs THEN live[r] ELSE closing[r]]
HasClosed(r) ==
  /\ live' = [live EXCEPT ![r] = @ \ closing[r]]
  /\ closing' = [closing EXCEPT ![r] = {}]

-----------------------------------------------------------------------------
(* start(): startEach and activateEach, which a restart runs as well *)

Start ==
  /\ turn = "none" /\ lifecycle = "created"
  /\ lifecycle' = "starting"
  /\ Goes("start", "starting", Order) /\ turn' = "start"
  /\ UNCHANGED <<accepting, shutdownRequested, activationComplete, pending, recordVars,
                 restartVars, downVars, worldVars, raced>>

\* A chain that was interrupted throws before it touches the next resource.
Interrupt(c) ==
  /\ turn = c /\ chain[c].pc \in {"starting", "activating"}
  /\ Interrupted(c) /\ chain[c].todo # <<>>
  /\ Goes(c, "failed", <<>>)
  /\ UNCHANGED <<kernelVars, pending, recordVars, restartVars, downVars, turn, worldVars, raced>>

\* A dependency that is not ready fails its dependant without calling it.
DependencyFailed(r) == \E d \in DependsOn[r] : state[d] # "ready"

StartBlocked(c) ==
  /\ turn = c /\ At(c, "starting") /\ chain[c].todo # <<>> /\ ~Interrupted(c)
  /\ LET r == Current(c) IN
       /\ DependencyFailed(r)
       /\ MarkFailed(r)
       /\ IF r \in Required THEN Goes(c, "failed", <<>>) ELSE Goes(c, "starting", Left(c))
  /\ UNCHANGED <<kernelVars, pending, reported, attempted, activated, closeInvoked, closed,
                 published, restartVars, downVars, turn, worldVars, raced>>

\* start() is called; the resource reads the values of its dependencies.
CallStart(c) ==
  /\ turn = c /\ At(c, "starting") /\ chain[c].todo # <<>> /\ ~Interrupted(c)
  /\ LET r == Current(c) IN
       /\ ~DependencyFailed(r)
       /\ attempted' = attempted \cup {r}
       /\ state' = [state EXCEPT ![r] = "starting"]
       /\ gen' = [gen EXCEPT ![r] = @ + 1]
       /\ handle' = [handle EXCEPT ![r] =
                       [d \in Resources |-> IF d \in DependsOn[r] THEN published[d] ELSE 0]]
  /\ Goes(c, "start", chain[c].todo) /\ turn' = "none"
  /\ UNCHANGED <<kernelVars, pending, healthy, reported, activated, closeInvoked, closed,
                 published, restartVars, downVars, live, closing, watched, raced>>

\* The record becomes ready; a report made during start() stands.
BecomesReady(c, r) ==
  /\ state' = [state EXCEPT ![r] = "ready"]
  /\ healthy' = IF r \in reported THEN healthy ELSE healthy \cup {r}
  /\ Goes(c, "starting", Left(c))

Watch(r) == watched' = IF r \in LongLived THEN [watched EXCEPT ![r] = @ \cup {gen[r]}] ELSE watched

\* start() resolves, with or without a value, with or without a readiness to
\* wait for.  An interrupted chain drops what it returned.
StartResolves(c) ==
  /\ turn = "none" /\ At(c, "start")
  /\ LET r == Current(c) IN
       /\ live' = [live EXCEPT ![r] = @ \cup {gen[r]}]
       /\ \/ /\ Interrupted(c)
             /\ Goes(c, "failed", <<>>) /\ turn' = c
             /\ UNCHANGED <<state, healthy, published, watched>>
          \/ /\ ~Interrupted(c)
             /\ published' \in {published, [published EXCEPT ![r] = gen[r]]}
             /\ \/ /\ BecomesReady(c, r) /\ Watch(r) /\ turn' = c
                \/ /\ Goes(c, "ready", chain[c].todo)
                   /\ UNCHANGED <<state, healthy, watched, turn>>
  /\ UNCHANGED <<kernelVars, pending, reported, attempted, activated, closeInvoked, closed,
                 restartVars, downVars, gen, closing, handle, raced>>

ReadyResolves(c) ==
  /\ turn = "none" /\ At(c, "ready")
  /\ Watch(Current(c)) /\ turn' = c
  /\ IF Interrupted(c)
     THEN Goes(c, "failed", <<>>) /\ UNCHANGED <<state, healthy>>
     ELSE BecomesReady(c, Current(c))
  /\ UNCHANGED <<kernelVars, pending, reported, attempted, activated, closeInvoked, closed,
                 published, restartVars, downVars, gen, live, closing, handle, raced>>

\* start() or its readiness rejects, or the completion settles first: the
\* resource failed and, at worst, left something open.
StartRejects(c) ==
  /\ turn = "none" /\ chain[c].pc \in {"start", "ready"}
  /\ LET r == Current(c) IN
       /\ live' = [live EXCEPT ![r] = @ \cup {gen[r]}]
       /\ MarkFailed(r)
       /\ IF Interrupted(c) \/ r \in Required THEN Goes(c, "failed", <<>>)
          ELSE Goes(c, "starting", Left(c))
  /\ turn' = c
  /\ UNCHANGED <<kernelVars, pending, reported, attempted, activated, closeInvoked, closed,
                 published, restartVars, downVars, gen, closing, watched, handle, raced>>

\* Every start was tried: the activations follow.
AllStarted(c) ==
  /\ turn = c /\ At(c, "starting") /\ chain[c].todo = <<>>
  /\ lifecycle' = IF c = "start" THEN "ready" ELSE lifecycle
  /\ Goes(c, "activating", Entries(c))
  /\ UNCHANGED <<accepting, shutdownRequested, activationComplete, pending, recordVars,
                 restartVars, downVars, turn, worldVars, raced>>

ActivationBlocked(r) == \E d \in DependsOn[r] : state[d] # "ready" \/ d \notin activated

\* A resource that is not ready is passed over; one whose dependency is not
\* ready and activated fails.
SkipActivation(c) ==
  /\ turn = c /\ At(c, "activating") /\ chain[c].todo # <<>> /\ ~Interrupted(c)
  /\ LET r == Current(c) IN
       \/ /\ state[r] # "ready"
          /\ Goes(c, "activating", Left(c)) /\ UNCHANGED <<state, healthy>>
       \/ /\ state[r] = "ready" /\ ActivationBlocked(r)
          /\ MarkFailed(r)
          /\ IF r \in Required THEN Goes(c, "failed", <<>>) ELSE Goes(c, "activating", Left(c))
  /\ UNCHANGED <<kernelVars, pending, reported, attempted, activated, closeInvoked, closed,
                 published, restartVars, downVars, turn, worldVars, raced>>

CallActivate(c) ==
  /\ turn = c /\ At(c, "activating") /\ chain[c].todo # <<>> /\ ~Interrupted(c)
  /\ state[Current(c)] = "ready" /\ ~ActivationBlocked(Current(c))
  /\ Goes(c, "activate", chain[c].todo) /\ turn' = "none"
  /\ UNCHANGED <<kernelVars, pending, recordVars, restartVars, downVars, worldVars, raced>>

ActivateResolves(c) ==
  /\ turn = "none" /\ At(c, "activate")
  /\ turn' = c
  /\ LET r == Current(c) IN
       IF Interrupted(c)
       THEN Goes(c, "failed", <<>>) /\ UNCHANGED <<state, healthy, activated>>
       ELSE /\ activated' = activated \cup {r}
            /\ IF r \in Required /\ (state[r] # "ready" \/ r \notin healthy)
               THEN MarkFailed(r) /\ Goes(c, "failed", <<>>)
               ELSE Goes(c, "activating", Left(c)) /\ UNCHANGED <<state, healthy>>
  /\ UNCHANGED <<kernelVars, pending, reported, attempted, closeInvoked, closed, published,
                 restartVars, downVars, worldVars, raced>>

ActivateRejects(c) ==
  /\ turn = "none" /\ At(c, "activate")
  /\ MarkFailed(Current(c)) /\ turn' = c
  /\ IF Interrupted(c) \/ Current(c) \in Required THEN Goes(c, "failed", <<>>)
     ELSE Goes(c, "activating", Left(c))
  /\ UNCHANGED <<kernelVars, pending, reported, attempted, activated, closeInvoked, closed,
                 published, restartVars, downVars, worldVars, raced>>

\* The restart queued behind the one that returns.
NextTurn(q) == IF q = <<>> THEN "none" ELSE "restart"

\* Every activation was tried.  Only the start chain looks at readiness and
\* opens admission.
AllActivated(c) ==
  /\ turn = c /\ At(c, "activating") /\ chain[c].todo = <<>>
  /\ \/ /\ c = "start" /\ ~shutdownRequested /\ Ready
        /\ activationComplete' = TRUE /\ accepting' = TRUE
        /\ Goes(c, "done", <<>>) /\ turn' = "none"
        /\ UNCHANGED <<subtree, restartAborted>>
     \/ /\ c = "start" /\ (shutdownRequested \/ ~Ready)
        /\ Goes(c, "failed", <<>>)
        /\ UNCHANGED <<activationComplete, accepting, turn, subtree, restartAborted>>
     \/ /\ c = "restart"
        /\ Goes(c, "idle", <<>>) /\ turn' = NextTurn(queue)
        /\ subtree' = <<>> /\ restartAborted' = FALSE
        /\ UNCHANGED <<activationComplete, accepting>>
  /\ UNCHANGED <<lifecycle, shutdownRequested, pending, recordVars, queue, restarts, downVars,
                 worldVars, raced>>

-----------------------------------------------------------------------------
(* The rollback of a failed start: close, and only close, in reverse order *)

\* A shutdown that overtook the start does the closing itself.
StartFails ==
  /\ turn = "start" /\ At("start", "failed")
  /\ IF shutdownRequested
     THEN Goes("start", "done", <<>>) /\ turn' = "none"
     ELSE Goes("start", "rollback", Reverse(Order)) /\ UNCHANGED turn
  /\ UNCHANGED <<kernelVars, pending, recordVars, restartVars, downVars, worldVars, raced>>

\* Only a resource that was attempted and is not closed is taken down.
IsUp(r) == r \in attempted /\ r \notin closed

RollbackNext ==
  /\ turn = "start" /\ At("start", "rollback") /\ chain["start"].todo # <<>>
  /\ LET r == Current("start") IN
       IF IsUp(r)
       THEN /\ state' = [state EXCEPT ![r] = "stopping"]
            /\ closeInvoked' = closeInvoked \cup {r}
            /\ AskToClose({r})
            /\ Goes("start", "rollbackClose", chain["start"].todo) /\ turn' = "none"
       ELSE /\ Goes("start", "rollback", Left("start"))
            /\ UNCHANGED <<state, closeInvoked, closing, turn>>
  /\ UNCHANGED <<kernelVars, pending, healthy, reported, attempted, activated, closed, published,
                 restartVars, downVars, gen, live, watched, handle, raced>>

RollbackCloses ==
  /\ turn = "none" /\ At("start", "rollbackClose")
  /\ LET r == Current("start") IN
       /\ closed' = closed \cup {r}
       /\ state' = [state EXCEPT ![r] = "stopped"]
       /\ HasClosed(r)
  /\ Goes("start", "rollback", Left("start")) /\ turn' = "start"
  /\ UNCHANGED <<kernelVars, pending, healthy, reported, attempted, activated, closeInvoked,
                 published, restartVars, downVars, gen, watched, handle, raced>>

\* A close that rejects lets the rollback go on; one that outlives the budget
\* ends it.
RollbackFails ==
  /\ turn = "none" /\ At("start", "rollbackClose")
  /\ state' = [state EXCEPT ![Current("start")] = "failed"]
  /\ \E rest \in {Left("start"), <<>>} : Goes("start", "rollback", rest)
  /\ turn' = "start"
  /\ UNCHANGED <<kernelVars, pending, healthy, reported, attempted, activated, closeInvoked,
                 closed, published, restartVars, downVars, worldVars, raced>>

RolledBack ==
  /\ turn = "start" /\ At("start", "rollback") /\ chain["start"].todo = <<>>
  /\ lifecycle' = "failed" /\ accepting' = FALSE
  /\ Goes("start", "done", <<>>) /\ turn' = "none"
  /\ UNCHANGED <<shutdownRequested, activationComplete, pending, recordVars, restartVars,
                 downVars, worldVars, raced>>

-----------------------------------------------------------------------------
(* Admission and health: what callers and resources do meanwhile *)

Acquire ==
  /\ turn = "none" /\ accepting /\ Ready
  /\ pending < MaxPending
  /\ pending' = pending + 1
  /\ UNCHANGED <<kernelVars, recordVars, chain, restartVars, downVars, turn, worldVars, raced>>

\* A lease that was released twice counts once.
Release ==
  /\ turn = "none" /\ pending > 0
  /\ pending' = pending - 1
  /\ UNCHANGED <<kernelVars, recordVars, chain, restartVars, downVars, turn, worldVars, raced>>

\* Code of the resource can run: a generation is open or being opened.
Runs(r) == live[r] # {} \/ \E c \in Chains : At(c, "start") /\ Current(c) = r

\* Whether admission is open after a report.
Opens_UntilStopped(s, h) == activationComplete /\ ReadyWhen("ready", s, h)
Opens(s, h) == activationComplete /\ ~shutdownRequested /\ ReadyWhen(lifecycle, s, h)

\* reportHealth(); a repeated report that changes nothing is ignored, which
\* here is a step that changes nothing.
ReportHealth(r) ==
  /\ turn = "none" /\ r \in Reporters /\ Runs(r) /\ state[r] # "stopped"
  /\ healthy' \in {healthy \cup {r}, healthy \ {r}}
  /\ reported' = reported \cup {r}
  /\ \E now \in {healthy'} : accepting' = Opens(state, now)
  /\ UNCHANGED <<lifecycle, shutdownRequested, activationComplete, pending, state, attempted,
                 activated, closeInvoked, closed, published, chain, restartVars, downVars, turn,
                 worldVars, raced>>

\* markLateCompletion(): a long-lived resource ended after it was ready.
LateCompletion(r) ==
  /\ turn = "none"
  /\ \E g \in watched[r] : watched' = [watched EXCEPT ![r] = @ \ {g}]
  /\ IF shutdownRequested \/ state[r] \in {"stopping", "stopped"}
     THEN UNCHANGED <<state, healthy, accepting>>
     ELSE /\ MarkFailed(r)
          /\ \E s \in {state'}, h \in {healthy'} :
               accepting' = (activationComplete /\ ReadyWhen(lifecycle, s, h))
  /\ UNCHANGED <<lifecycle, shutdownRequested, activationComplete, pending, reported, attempted,
                 activated, closeInvoked, closed, published, chain, restartVars, downVars, turn,
                 gen, live, closing, handle, raced>>

-----------------------------------------------------------------------------
(* restart(): one subtree, closed in reverse order, erased, started again *)

\* restart() queues behind the restart in flight; the next one runs as soon as
\* that has returned.
Restart(r) ==
  /\ turn = "none" /\ restarts < MaxRestarts
  /\ EarlyRestarts \/ At("start", "done")
  /\ restarts' = restarts + 1 /\ queue' = Append(queue, r)
  /\ turn' = IF At("restart", "idle") THEN "restart" ELSE "none"
  /\ UNCHANGED <<kernelVars, pending, recordVars, chain, subtree, restartAborted, downVars,
                 worldVars, raced>>

\* The resource named and all that depend on it, in start order.
WithDependants(rs) == \A x \in Resources : DependsOn[x] \cap rs # {} => x \in rs
Dependants(r) ==
  {x \in Resources :
     \A rs \in SUBSET Resources : r \in rs /\ WithDependants(rs) => x \in rs}
InStartOrder(s) ==
  \A i, j \in DOMAIN s : i < j =>
    \E k, l \in DOMAIN Order : k < l /\ Order[k] = s[i] /\ Order[l] = s[j]

\* A restart during shutdown or before readiness is refused.
Refuse ==
  /\ turn = "restart" /\ At("restart", "idle")
  /\ shutdownRequested \/ lifecycle # "ready"
  /\ queue' = Tail(queue) /\ turn' = NextTurn(queue')
  /\ UNCHANGED <<kernelVars, pending, recordVars, chain, subtree, restartAborted, restarts,
                 downVars, worldVars, raced>>

RunRestart ==
  /\ turn = "restart" /\ At("restart", "idle")
  /\ ~shutdownRequested /\ lifecycle = "ready"
  /\ queue' = Tail(queue)
  /\ \E s \in SetToSeqs(Dependants(Head(queue))) :
       /\ InStartOrder(s) /\ subtree' = s
       /\ Goes("restart", "closing", Reverse(s))
  /\ raced' = (raced \/ ~At("start", "done"))
  /\ UNCHANGED <<kernelVars, pending, recordVars, restartAborted, restarts, downVars, turn,
                 worldVars>>

\* The record goes back to a resource that was never started.
Erase_StaysClosed(r) ==
  /\ closed' = closed \cup {r} /\ closeInvoked' = closeInvoked \ {r}
  /\ attempted' = attempted \ {r} /\ activated' = activated \ {r}
  /\ state' = [state EXCEPT ![r] = "registered"] /\ healthy' = healthy \ {r}
  /\ reported' = reported \ {r} /\ published' = [published EXCEPT ![r] = 0]
Erase_KeepsValue(r) ==
  /\ closed' = closed \ {r} /\ closeInvoked' = closeInvoked \ {r}
  /\ attempted' = attempted \ {r} /\ activated' = activated \ {r}
  /\ state' = [state EXCEPT ![r] = "registered"] /\ healthy' = healthy \ {r}
  /\ reported' = reported \ {r} /\ UNCHANGED published
Erase(r) ==
  /\ closed' = closed \ {r} /\ closeInvoked' = closeInvoked \ {r}
  /\ attempted' = attempted \ {r} /\ activated' = activated \ {r}
  /\ state' = [state EXCEPT ![r] = "registered"] /\ healthy' = healthy \ {r}
  /\ reported' = reported \ {r} /\ published' = [published EXCEPT ![r] = 0]

\* closeOne(): a resource that is up goes through its phases, another is erased.
CloseOne ==
  /\ turn = "restart" /\ At("restart", "closing") /\ chain["restart"].todo # <<>>
  /\ IF IsUp(Current("restart"))
     THEN /\ Goes("restart", "stopAdmission", chain["restart"].todo) /\ turn' = "none"
          /\ UNCHANGED recordVars
     ELSE Erase(Current("restart")) /\ Goes("restart", "closing", Left("restart")) /\ UNCHANGED turn
  /\ UNCHANGED <<kernelVars, pending, restartVars, downVars, worldVars, raced>>

PhaseResolves ==
  /\ turn = "none" /\ chain["restart"].pc \in {"stopAdmission", "drain"}
  /\ IF At("restart", "drain")
     THEN /\ Goes("restart", "close", chain["restart"].todo)
          /\ closeInvoked' = closeInvoked \cup {Current("restart")}
          /\ AskToClose({Current("restart")})
     ELSE Goes("restart", "drain", chain["restart"].todo) /\ UNCHANGED <<closeInvoked, closing>>
  /\ UNCHANGED <<kernelVars, pending, state, healthy, reported, attempted, activated, closed,
                 published, restartVars, downVars, turn, gen, live, watched, handle, raced>>

CloseResolves ==
  /\ turn = "none" /\ At("restart", "close")
  /\ Erase(Current("restart")) /\ HasClosed(Current("restart"))
  /\ Goes("restart", "closing", Left("restart")) /\ turn' = "restart"
  /\ UNCHANGED <<kernelVars, pending, restartVars, downVars, gen, watched, handle, raced>>

\* A phase rejects, or the budget of the restart ends while it is awaited.
PhaseFails_Swallowed ==
  /\ turn = "none" /\ chain["restart"].pc \in {"stopAdmission", "drain", "close"}
  /\ Erase(Current("restart"))
  /\ Goes("restart", "closing", Left("restart")) /\ turn' = "restart"
  /\ UNCHANGED <<kernelVars, pending, restartVars, downVars, worldVars, raced>>
PhaseFails ==
  /\ turn = "none" /\ chain["restart"].pc \in {"stopAdmission", "drain", "close"}
  /\ Goes("restart", "failed", <<>>) /\ turn' = "restart"
  /\ UNCHANGED <<kernelVars, pending, recordVars, restartVars, downVars, worldVars, raced>>

\* The budget ends while a start or an activation is awaited: its signal aborts.
RestartTimeout ==
  /\ turn = "none" /\ ~restartAborted
  /\ chain["restart"].pc \in {"start", "ready", "activate"}
  /\ restartAborted' = TRUE
  /\ UNCHANGED <<kernelVars, pending, recordVars, chain, subtree, queue, restarts, downVars, turn,
                 worldVars, raced>>

Closed ==
  /\ turn = "restart" /\ At("restart", "closing") /\ chain["restart"].todo = <<>>
  /\ Goes("restart", "starting", subtree)
  /\ UNCHANGED <<kernelVars, pending, recordVars, restartVars, downVars, turn, worldVars, raced>>

\* The restart returns `failed`; nothing is rolled back.
RestartFails ==
  /\ turn = "restart" /\ At("restart", "failed")
  /\ Goes("restart", "idle", <<>>) /\ turn' = NextTurn(queue)
  /\ subtree' = <<>> /\ restartAborted' = FALSE
  /\ UNCHANGED <<kernelVars, pending, recordVars, queue, restarts, downVars, worldVars, raced>>

-----------------------------------------------------------------------------
(* shutdown(): four sweeps under one grace budget, then force *)

DownAt(pc) == down.pc = pc
DownGoes(pc, todo) == down' = [pc |-> pc, todo |-> todo]
NextDown == Head(down.todo)
Abandoned == forced \/ gracefulFailed

Shutdown ==
  /\ turn = "none" /\ DownAt("idle")
  /\ shutdownRequested' = TRUE /\ accepting' = FALSE
  /\ lifecycle' = IF lifecycle = "created" THEN "stopping" ELSE "draining"
  /\ gracefulFailed' = \E r \in attempted : r \in closeInvoked /\ r \notin closed
  /\ IF At("start", "idle")
     THEN DownGoes("stopping", Reverse(Order)) /\ turn' = "down"
     ELSE DownGoes("startPromise", <<>>) /\ UNCHANGED turn
  /\ raced' = (raced \/ ~At("restart", "idle"))
  /\ UNCHANGED <<activationComplete, pending, recordVars, chain, restartVars, forced, forcing,
                 result, worldVars>>

\* The start promise settled.
StartAwaited ==
  /\ turn = "none" /\ DownAt("startPromise") /\ At("start", "done")
  /\ DownGoes("stopping", Reverse(Order)) /\ turn' = "down"
  /\ UNCHANGED <<kernelVars, pending, recordVars, chain, restartVars, forced, gracefulFailed,
                 forcing, result, worldVars, raced>>

\* The grace deadline, or a second signal: whatever is awaited is not awaited
\* any longer, and no sweep calls another hook.
ForceNow_ButOperations ==
  /\ turn = "none" /\ down.pc \notin {"idle", "pending", "force", "done"}
  /\ forced' = TRUE
  /\ DownGoes("stopping", <<>>) /\ turn' = "down"
  /\ UNCHANGED <<kernelVars, pending, recordVars, chain, restartVars, gracefulFailed, forcing,
                 result, worldVars, raced>>
ForceNow ==
  /\ turn = "none" /\ down.pc \notin {"idle", "force", "done"}
  /\ forced' = TRUE
  /\ DownGoes("stopping", <<>>) /\ turn' = "down"
  /\ UNCHANGED <<kernelVars, pending, recordVars, chain, restartVars, gracefulFailed, forcing,
                 result, worldVars, raced>>

\* The head of a sweep's loop: what it passes over, and what ends it early.
Stops == {"stopping", "draining", "closing"}
Breaks == forced \/ (gracefulFailed /\ ~DownAt("stopping"))
Passes(r) == ~IsUp(r) \/ (DownAt("closing") /\ r \in closeInvoked)

Remaining ==
  LET first == SelectInSeq(down.todo, LAMBDA r : ~Passes(r)) IN
  IF first = 0 THEN <<>> ELSE SubSeq(down.todo, first, Len(down.todo))

SweepCalls ==
  /\ turn = "down" /\ down.pc \in Stops /\ ~Breaks /\ Remaining # <<>>
  /\ turn' = "none"
  /\ LET r == Head(Remaining) IN
       \/ /\ DownAt("stopping")
          /\ DownGoes("stopAdmission", Remaining)
          /\ UNCHANGED <<state, closeInvoked, closing>>
       \/ /\ DownAt("draining")
          /\ DownGoes("drain", Remaining)
          /\ state' = [state EXCEPT ![r] = "stopping"]
          /\ UNCHANGED <<closeInvoked, closing>>
       \/ /\ DownAt("closing")
          /\ DownGoes("close", Remaining)
          /\ closeInvoked' = closeInvoked \cup {r} /\ AskToClose({r})
          /\ UNCHANGED state
  /\ UNCHANGED <<kernelVars, pending, healthy, reported, attempted, activated, closed, published,
                 chain, restartVars, forced, gracefulFailed, forcing, result, gen, live, watched,
                 handle, raced>>

Hooks == {"stopAdmission", "drain", "close"}
LoopOf == [stopAdmission |-> "stopping", drain |-> "draining", close |-> "closing"]

HookResolves ==
  /\ turn = "none" /\ down.pc \in Hooks
  /\ DownGoes(LoopOf[down.pc], Tail(down.todo)) /\ turn' = "down"
  /\ IF DownAt("close")
     THEN /\ closed' = closed \cup {NextDown}
          /\ state' = [state EXCEPT ![NextDown] = "stopped"]
          /\ HasClosed(NextDown)
     ELSE UNCHANGED <<closed, state, live, closing>>
  /\ UNCHANGED <<kernelVars, pending, healthy, reported, attempted, activated, closeInvoked,
                 published, chain, restartVars, forced, gracefulFailed, forcing, result, gen,
                 watched, handle, raced>>

\* A hook that rejects abandons the graceful path.
HookRejects ==
  /\ turn = "none" /\ down.pc \in Hooks
  /\ gracefulFailed' = TRUE
  /\ DownGoes(LoopOf[down.pc], Tail(down.todo)) /\ turn' = "down"
  /\ state' = IF DownAt("close") THEN [state EXCEPT ![NextDown] = "failed"] ELSE state
  /\ UNCHANGED <<kernelVars, pending, healthy, reported, attempted, activated, closeInvoked, closed,
                 published, chain, restartVars, forced, forcing, result, worldVars, raced>>

\* A sweep is over: the operations in flight are awaited between the first and
\* the second, and the lifecycle moves on before the last.
SweepEnds ==
  /\ turn = "down" /\ down.pc \in {"stopping", "draining"}
  /\ Remaining = <<>> \/ Breaks
  /\ IF DownAt("stopping") /\ ~Abandoned
     THEN DownGoes("pending", <<>>) /\ turn' = "none" /\ UNCHANGED lifecycle
     ELSE DownGoes("closing", Reverse(Order)) /\ lifecycle' = "stopping" /\ UNCHANGED turn
  /\ UNCHANGED <<accepting, shutdownRequested, activationComplete, pending, recordVars, chain,
                 restartVars, forced, gracefulFailed, forcing, result, worldVars, raced>>

\* waitForPending(): every lease was released.
PendingOver_AtOnce ==
  /\ turn = "none" /\ DownAt("pending")
  /\ DownGoes("draining", Reverse(Order)) /\ turn' = "down"
  /\ UNCHANGED <<kernelVars, pending, recordVars, chain, restartVars, forced, gracefulFailed,
                 forcing, result, worldVars, raced>>
PendingOver ==
  /\ turn = "none" /\ DownAt("pending") /\ pending = 0
  /\ DownGoes("draining", Reverse(Order)) /\ turn' = "down"
  /\ UNCHANGED <<kernelVars, pending, recordVars, chain, restartVars, forced, gracefulFailed,
                 forcing, result, worldVars, raced>>

\* The cleanup the result reports.
CleanupComplete == attempted \subseteq closed
Returns(outcome) ==
  /\ result' = outcome
  /\ lifecycle' = IF CleanupComplete THEN "stopped" ELSE "failed"
  /\ DownGoes("done", <<>>) /\ turn' = "none"

Clean ==
  /\ turn = "down" /\ DownAt("closing") /\ Remaining = <<>> /\ ~Abandoned
  /\ Returns("clean")
  /\ UNCHANGED <<accepting, shutdownRequested, activationComplete, pending, recordVars, chain,
                 restartVars, forced, gracefulFailed, forcing, worldVars, raced>>

\* forceOne() for all at once: force() where there is one, else close() unless
\* it was called before.
ForceSweep ==
  /\ turn = "down" /\ DownAt("closing") /\ Abandoned
  /\ forcing' = {r \in Resources : IsUp(r) /\ (r \in Forceable \/ r \notin closeInvoked)}
  /\ closeInvoked' = closeInvoked \cup (forcing' \ Forceable)
  /\ AskToClose(forcing')
  /\ DownGoes("force", <<>>) /\ turn' = "none"
  /\ UNCHANGED <<kernelVars, pending, state, healthy, reported, attempted, activated, closed,
                 published, chain, restartVars, forced, gracefulFailed, result, gen, live, watched,
                 handle, raced>>

ForceResolves(r) ==
  /\ turn = "none" /\ DownAt("force") /\ r \in forcing
  /\ forcing' = forcing \ {r}
  /\ closed' = closed \cup {r} /\ state' = [state EXCEPT ![r] = "stopped"] /\ HasClosed(r)
  /\ UNCHANGED <<kernelVars, pending, healthy, reported, attempted, activated, closeInvoked,
                 published, chain, restartVars, down, forced, gracefulFailed, result, turn, gen,
                 watched, handle, raced>>

\* A forced cleanup rejects, or the force deadline ends them all.
ForceFails ==
  /\ turn = "none" /\ DownAt("force") /\ forcing # {}
  /\ \/ forcing' = {}
     \/ \E r \in forcing : forcing' = forcing \ {r}
  /\ UNCHANGED <<kernelVars, pending, recordVars, chain, restartVars, down, forced, gracefulFailed,
                 result, turn, worldVars, raced>>

ForceEnds ==
  /\ turn = "none" /\ DownAt("force") /\ forcing = {}
  /\ Returns("forced")
  /\ UNCHANGED <<accepting, shutdownRequested, activationComplete, pending, recordVars, chain,
                 restartVars, forced, gracefulFailed, forcing, worldVars, raced>>

-----------------------------------------------------------------------------
(* The application *)

\* The program that has the turn goes on to its next await.
Callback ==
  \/ \E c \in Chains :
       \/ Interrupt(c) \/ StartBlocked(c) \/ CallStart(c) \/ AllStarted(c)
       \/ SkipActivation(c) \/ CallActivate(c) \/ AllActivated(c)
  \/ StartFails \/ RollbackNext \/ RolledBack
  \/ Refuse \/ RunRestart \/ CloseOne \/ Closed \/ RestartFails
  \/ SweepCalls \/ SweepEnds \/ Clean \/ ForceSweep

\* A hook of a resource settles.
StartSettles(c) ==
  StartResolves(c) \/ ReadyResolves(c) \/ StartRejects(c) \/ ActivateResolves(c) \/ ActivateRejects(c)
Settles ==
  \/ \E c \in Chains : StartSettles(c)
  \/ RollbackCloses \/ RollbackFails
  \/ PhaseResolves \/ CloseResolves \/ PhaseFails
  \/ HookResolves \/ HookRejects
  \/ ForceFails \/ \E r \in Resources : ForceResolves(r)

\* Callers and resources, whenever no callback runs.
Outside ==
  \/ Start \/ Acquire \/ Release \/ Shutdown \/ ForceNow
  \/ \E r \in Resources : Restart(r) \/ LateCompletion(r) \/ ReportHealth(r)

\* What the kernel does by itself when an await of its own is over.
Resumes == RestartTimeout \/ StartAwaited \/ PendingOver \/ ForceEnds

Next == Callback \/ Settles \/ Outside \/ Resumes

Spec == Init /\ [][Next]_vars

\* Fairness: callbacks run on, timers fire, and an await of the kernel whose
\* condition holds is over some time.  Nothing is assumed of the resources.
FairSpec ==
  /\ Spec
  /\ WF_vars(Callback) /\ WF_vars(Resumes) /\ WF_vars(ForceNow)
  /\ WF_vars(ForceFails /\ forcing' = {})

-----------------------------------------------------------------------------
(* Properties *)

KernelTypeOK ==
  /\ lifecycle \in Lifecycles /\ pending \in 0 .. MaxPending
  /\ {accepting, shutdownRequested, activationComplete} \subseteq BOOLEAN
  /\ state \in [Resources -> States]
  /\ healthy \subseteq Resources /\ reported \subseteq Resources /\ attempted \subseteq Resources
  /\ activated \subseteq Resources /\ closeInvoked \subseteq Resources /\ closed \subseteq Resources
  /\ published \in [Resources -> Generations] /\ gen \in [Resources -> Generations]
  /\ \A c \in Chains : chain[c].pc \in ChainPCs /\ ToSet(chain[c].todo) \subseteq Resources
  /\ ToSet(subtree) \subseteq Resources /\ ToSet(queue) \subseteq Resources
  /\ restartAborted \in BOOLEAN /\ restarts \in 0 .. MaxRestarts
  /\ down.pc \in DownPCs /\ ToSet(down.todo) \subseteq Resources
  /\ {forced, gracefulFailed, raced} \subseteq BOOLEAN /\ forcing \subseteq Resources
  /\ result \in {"none", "clean", "forced"}
  /\ turn \in Chains \cup {"none", "down"}
  /\ \A f \in {live, closing, watched} : f \in [Resources -> SUBSET Generations]
  /\ handle \in [Resources -> [Resources -> Generations]]

\* Shutdown wins every race: once it is requested no report, completion, start
\* or restart reopens admission, admits an operation or brings a resource up.
StaysShut ==
  shutdownRequested =>
    /\ ~accepting' /\ pending' <= pending
    /\ attempted' \subseteq attempted /\ activated' \subseteq activated
AdmissionStaysShut == [][StaysShut]_vars

\* On the graceful path no resource is drained or closed by the shutdown while
\* an admitted operation is still in flight.
OperationsDrainFirst ==
  down.pc \in {"draining", "drain", "closing", "close"} /\ ~Abandoned => pending = 0

\* Two generations of one resource are never open at once.
OneGeneration == \A r \in Resources : Cardinality(live[r]) <= 1

\* A resource that is ready holds handles of open generations only: whatever is
\* closed or replaced takes its dependants down first, and a value that was
\* published by a closed generation is not handed out.
HandlesOpen ==
  \A r \in Resources : state[r] = "ready" =>
    \A d \in DependsOn[r] : handle[r][d] \in live[d] \cup {0}
HandlesAreLive == raced \/ Abandoned \/ HandlesOpen

\* Every open generation is one the kernel will still close: none is open that
\* the shutdown believes it has dealt with, unless the grace ended.
NoneForgotten == forced \/ \A r \in Resources : live[r] # {} => IsUp(r)

\* That holds unless a restart overlapped the startup or the shutdown.
GenerationsKnown == raced \/ NoneForgotten

\* When readiness is complete, no restart is in flight and the snapshot says
\* ready, admission is open.
ReadinessAdmits ==
  activationComplete /\ Ready /\ ~shutdownRequested /\ At("restart", "idle") => accepting

\* shutdown() returns within its budgets, whatever the resources, the callers,
\* a start or a restart do.
ShutdownEnds == shutdownRequested ~> result # "none"

=============================================================================
