--------------------------- MODULE TelegramUpdates ---------------------------
(***************************************************************************)
(* The durable intake of webhook updates of packages/core/src/telegram:    *)
(* the records and rules of a fenced, durable store (update-store.ts), and *)
(* the intakes over it (update-intake.ts, update-intake-work.ts): a line   *)
(* for each chat, slots shared by attempts and the delivery of exhausted   *)
(* updates, sweeps, and start() and close().                               *)
(*                                                                         *)
(* An update is its update_id.  Every update has one time that matters at  *)
(* a time (the grace of a pending one, the retry of a failed one, the      *)
(* lease of one being handled, the retention of a settled one): ripe says  *)
(* that it has passed.  A renewal keeps a lease from it, so a lease ripens *)
(* under a live attempt only as a fault.  Steps that only this process     *)
(* sees are joined to the step of the store that follows: the handler's    *)
(* return to the record of it.  The sweep of the interval, and sweep(),    *)
(* are one step: what one read and finds taken when it joins a line, the   *)
(* store refuses.  The sweep of start() is one step for each page, for     *)
(* what arrives, or is swept, meanwhile.                                   *)
(***************************************************************************)
EXTENDS Naturals, Sequences, SequencesExt, FiniteSets, FiniteSetsExt

CONSTANTS
  Intakes,        \* processes with an intake over the store
  Updates,        \* update ids
  Chats,
  ChatOf,         \* the chat of an update
  MaxAttempts,    \* maxAttempts
  MaxConcurrent,  \* maxConcurrent
  Sites           \* the intakes, the updates and the bounds of a behaviour

\* The bounds: updates recorded, again after a prune included, and start() calls;
\* calls of sweep() at another time than the interval's; deaths, leases lost under a
\* live attempt, store operations that throw, exhaustions whose handler fails.
Bounds == {"calls", "sweeps", "faults"}

ASSUME UpdatesAssumption ==
  /\ Updates \subseteq Nat \ {0} /\ IsFiniteSet(Updates)
  /\ IsFiniteSet(Intakes)
  /\ ChatOf \in [Updates -> Chats]
  /\ MaxAttempts \in Nat \ {0} /\ MaxConcurrent \in Nat \ {0}
  /\ Sites \subseteq (SUBSET Intakes) \X (SUBSET Updates) \X [Bounds -> Nat]

VARIABLES
  site,      \* the intakes and updates there are, and the bounds
  record,    \* the state of an update's record
  attempts,
  claimId,   \* the claim the record names, 0 for none
  ripe,
  started,
  closing,   \* close() waits, or has returned
  starting,  \* the read of start(): the rows read, and the last of them
  arrivals,  \* what waits for the read of start()
  adding,    \* recorded by accept(), which has not gone on yet
  line,      \* the updates an intake holds, in the order they joined
  at,        \* where an update is in its line
  mine,      \* the claim of that attempt
  job,       \* the delivery of an exhausted update
  told,      \* the claim that delivery is about
  waiting,   \* who waits for a slot, first come first served
  cursor,    \* exhaustionCursor
  handled,   \* history: the handler of the claim the record names has returned, or
             \* the exhaustion handler for it
  backlog,   \* history: updates left by others at start(), whose turn has not come,
             \* but for those a sweep() called during its read overtook
  spent

recordVars == <<record, attempts, claimId, ripe>>
workVars == <<line, at, mine, job, told, waiting>>
loopVars == <<started, closing, starting, arrivals, cursor>>
bounds == <<site, spent>>
updateVars == <<recordVars, loopVars, adding, workVars, handled, backlog, bounds>>

Owed == {"pending", "processing", "failed", "exhausted"}
Settled == {"completed", "acknowledged"}
Places == {"none", "joined", "slot", "turn", "claim", "handle"}
\* A claim is named by an id that none of those still held has.
ClaimIds == 1..(2 * Cardinality(Intakes) + 2)
NotStarting == [reads |-> FALSE, after |-> 0, rows |-> {}]

UpdateTypeOK ==
  /\ site \in Sites
  /\ record \in [Updates -> Owed \cup Settled \cup {"none"}]
  /\ attempts \in [Updates -> 0..MaxAttempts]
  /\ claimId \in [Updates -> ClaimIds \cup {0}]
  /\ ripe \in [Updates -> BOOLEAN]
  /\ started \in [Intakes -> BOOLEAN]
  /\ closing \in [Intakes -> {"no", "waits", "returned"}]
  /\ starting \in [Intakes -> [reads : BOOLEAN, after : Updates \cup {0},
                               rows : SUBSET Updates]]
  /\ arrivals \in [Intakes -> SUBSET Updates]
  /\ adding \in [Intakes -> SUBSET Updates]
  /\ line \in [Intakes -> Seq(Updates)]
  /\ at \in [Intakes -> [Updates -> Places]]
  /\ mine \in [Intakes -> [Updates -> ClaimIds \cup {0}]]
  /\ job \in [Intakes -> [Updates -> {"none", "slot", "handle", "acknowledge"}]]
  /\ told \in [Intakes -> [Updates -> ClaimIds \cup {0}]]
  /\ waiting \in [Intakes -> Seq({"attempt", "job"} \X Updates)]
  /\ cursor \in [Intakes -> Updates \cup {0}]
  /\ handled \in [Updates -> BOOLEAN]
  /\ backlog \in [Intakes -> SUBSET Updates]
  /\ \A p \in Intakes : \A u \in Updates :
       at[p][u] # "none" <=> u \in ToSet(line[p])

UpdatesInit ==
  /\ site \in Sites
  /\ record = [u \in Updates |-> "none"]
  /\ attempts = [u \in Updates |-> 0]
  /\ claimId = [u \in Updates |-> 0]
  /\ ripe = [u \in Updates |-> FALSE]
  /\ started = [p \in Intakes |-> FALSE]
  /\ closing = [p \in Intakes |-> "no"]
  /\ starting = [p \in Intakes |-> NotStarting]
  /\ arrivals = [p \in Intakes |-> {}]
  /\ adding = [p \in Intakes |-> {}]
  /\ line = [p \in Intakes |-> <<>>]
  /\ at = [p \in Intakes |-> [u \in Updates |-> "none"]]
  /\ mine = [p \in Intakes |-> [u \in Updates |-> 0]]
  /\ job = [p \in Intakes |-> [u \in Updates |-> "none"]]
  /\ told = [p \in Intakes |-> [u \in Updates |-> 0]]
  /\ waiting = [p \in Intakes |-> <<>>]
  /\ cursor = [p \in Intakes |-> 0]
  /\ handled = [u \in Updates |-> FALSE]
  /\ backlog = [p \in Intakes |-> {}]
  /\ spent = [b \in Bounds |-> 0]

Spend(b) ==
  /\ spent[b] < site[3][b]
  /\ spent' = [spent EXCEPT ![b] = @ + 1]
  /\ UNCHANGED site

-------------------------------------------------------------------------------
(* The records *)

Claimable_Leaseless(u) ==
  record[u] = "pending" \/ (record[u] = "failed" /\ ripe[u])

\* isClaimable
Claimable(u) ==
  \/ record[u] = "pending"
  \/ record[u] \in {"failed", "processing"} /\ ripe[u]

\* What due() returns: a pending record only after its grace, but to start().
DueNow(u, first) == Claimable(u) /\ (record[u] = "pending" => first \/ ripe[u])

Holds_AnyClaim(u, claim) == record[u] = "processing" /\ ~ripe[u] /\ claim # 0

\* The claim still holds the record, and its lease has not run out.
Holds(u, claim) == record[u] = "processing" /\ ~ripe[u] /\ claimId[u] = claim

\* The attempt is recorded as ended in this state, by the claim that holds it.
Records(u, claim, state) ==
  /\ Holds(u, claim)
  /\ record' = [record EXCEPT ![u] = state]
  /\ UNCHANGED <<attempts, claimId, ripe>>

Refused(u, claim) == ~Holds(u, claim) /\ UNCHANGED recordVars

NewClaim(u) ==
  CHOOSE c \in ClaimIds :
    c # claimId[u] /\ \A p \in Intakes : c \notin {mine[p][u], told[p][u]}

\* claimOwned: one attempt more, under an id of its own.
Claimed(u) ==
  /\ Claimable(u) /\ attempts[u] < MaxAttempts
  /\ record' = [record EXCEPT ![u] = "processing"]
  /\ attempts' = [attempts EXCEPT ![u] = @ + 1]
  /\ claimId' = [claimId EXCEPT ![u] = NewClaim(u)]
  /\ ripe' = [ripe EXCEPT ![u] = FALSE]
  /\ handled' = [handled EXCEPT ![u] = FALSE]

\* Its attempts are spent by leases that ran out: abandoned, under the claim it had.
Abandoned(u) ==
  /\ Claimable(u) /\ attempts[u] >= MaxAttempts
  /\ record' = [record EXCEPT ![u] = "exhausted"]
  /\ ripe' = [ripe EXCEPT ![u] = FALSE]
  /\ UNCHANGED <<attempts, claimId, handled>>

-------------------------------------------------------------------------------
(* Lines and slots *)

Has(p, u) == at[p][u] # "none"

\* What an intake holds a slot for.
Busy(p) ==
  Cardinality({u \in Updates : at[p][u] \in {"turn", "claim", "handle"}})
    + Cardinality({u \in Updates : job[p][u] \in {"handle", "acknowledge"}})

InOrder(s) == \A i, j \in DOMAIN s : i < j => s[i] < s[j]

\* Those of the updates the intake does not hold join their lines, in order.
Join(p, new) ==
  LET joins == IF started[p] THEN {u \in new : ~Has(p, u)} ELSE {} IN
  /\ \E s \in SetToSeqs(joins) : InOrder(s) /\ line' = [line EXCEPT ![p] = @ \o s]
  /\ at' = [at EXCEPT ![p] = [u \in Updates |-> IF u \in joins THEN "joined" ELSE @[u]]]

\* A slot is given back: whoever waits first has it.
Release(p, places, jobs, queue) ==
  IF queue = <<>>
    THEN at' = places /\ job' = jobs /\ waiting' = [waiting EXCEPT ![p] = queue]
    ELSE LET next == Head(queue) IN
         /\ waiting' = [waiting EXCEPT ![p] = Tail(queue)]
         /\ IF next[1] = "attempt"
              THEN at' = [places EXCEPT ![p][next[2]] = "turn"] /\ job' = jobs
              ELSE at' = places /\ job' = [jobs EXCEPT ![p][next[2]] = "handle"]

Place(p, u) == CHOOSE i \in DOMAIN line[p] : line[p][i] = u

\* The attempt is over: its slot is free, and the next of its chat is first.
LeavesTo(p, u, jobs, queue) ==
  /\ line' = [line EXCEPT ![p] = RemoveAt(@, Place(p, u))]
  /\ mine' = [mine EXCEPT ![p][u] = 0]
  /\ Release(p, [at EXCEPT ![p][u] = "none"], jobs, queue)
  /\ backlog' = [backlog EXCEPT ![p] = @ \ {u}]

Leaves(p, u) == LeavesTo(p, u, job, waiting[p]) /\ UNCHANGED told

Goes(p, u, place) == at' = [at EXCEPT ![p][u] = place]

First_AtOnce(p, u) == u \in ToSet(line[p])

\* No update of the same chat joined the line before it.
First(p, u) ==
  \A i, j \in DOMAIN line[p] :
    line[p][j] = u /\ i < j => ChatOf[line[p][i]] # ChatOf[u]

WaitsForSlot(p, u) ==
  /\ at[p][u] = "joined" /\ First(p, u) /\ Busy(p) >= MaxConcurrent
  /\ Goes(p, u, "slot")
  /\ waiting' = [waiting EXCEPT ![p] = Append(@, <<"attempt", u>>)]
  /\ UNCHANGED <<recordVars, loopVars, adding, line, mine, job, told, handled, backlog, bounds>>

\* It has its slot.  After close() the update stays recorded for the next start.
Turn(p, u) ==
  /\ \/ at[p][u] = "turn"
     \/ at[p][u] = "joined" /\ First(p, u) /\ Busy(p) < MaxConcurrent
  /\ \/ /\ started[p]
        /\ Goes(p, u, "claim")
        /\ UNCHANGED <<line, mine, job, told, waiting, backlog>>
     \/ ~started[p] /\ Leaves(p, u)
  /\ UNCHANGED <<recordVars, loopVars, adding, handled, bounds>>

-------------------------------------------------------------------------------
(* An attempt *)

Claim(p, u) ==
  /\ at[p][u] = "claim"
  /\ Claimed(u)
  /\ mine' = [mine EXCEPT ![p][u] = claimId'[u]]
  /\ Goes(p, u, "handle")
  /\ backlog' = [backlog EXCEPT ![p] = @ \ {u}]
  /\ UNCHANGED <<loopVars, adding, line, job, told, waiting, bounds>>

NotClaimed(p, u) ==
  /\ at[p][u] = "claim"
  /\ \/ Abandoned(u)
     \/ ~Claimable(u) /\ UNCHANGED <<recordVars, handled>>
  /\ Leaves(p, u)
  /\ UNCHANGED <<loopVars, adding, bounds>>

HandlerReturned(u, claim) ==
  handled' = [handled EXCEPT ![u] = @ \/ claim = claimId[u]]

\* The handler has returned, or failed for a retry or, on the last attempt, without:
\* a failure whose lease is lost is refused, whichever it was.
Settles(p, u) ==
  /\ at[p][u] = "handle"
  /\ LET claim == mine[p][u] IN
     \/ /\ Records(u, claim, "completed") \/ Refused(u, claim)
        /\ HandlerReturned(u, claim)
     \/ /\ \/ Records(u, claim, "failed") /\ attempts[u] < MaxAttempts
           \/ Refused(u, claim)
        /\ UNCHANGED handled
  /\ Leaves(p, u)
  /\ UNCHANGED <<loopVars, adding, bounds>>

\* A final failure: the record keeps it until it is acknowledged.  Its delivery
\* asks for a slot while the attempt still has its own.
Exhausts(p, u) ==
  /\ at[p][u] = "handle"
  /\ Records(u, mine[p][u], "exhausted")
  /\ IF started[p] /\ job[p][u] = "none"
       THEN /\ told' = [told EXCEPT ![p][u] = mine[p][u]]
            /\ IF Busy(p) < MaxConcurrent
                 THEN LeavesTo(p, u, [job EXCEPT ![p][u] = "handle"], waiting[p])
                 ELSE LeavesTo(p, u, [job EXCEPT ![p][u] = "slot"],
                               Append(waiting[p], <<"job", u>>))
       ELSE Leaves(p, u)
  /\ UNCHANGED <<loopVars, adding, handled, bounds>>

\* An operation of the store throws, with or without its effect, and is reported.
StoreThrows(p, u) ==
  /\ Spend("faults")
  /\ \/ /\ at[p][u] = "claim"
        /\ \/ Claimed(u)
           \/ UNCHANGED <<recordVars, handled>>
     \/ /\ at[p][u] = "handle"
        /\ Records(u, mine[p][u], "completed") \/ UNCHANGED recordVars
        /\ HandlerReturned(u, mine[p][u])
     \/ /\ at[p][u] = "handle"
        /\ \/ Records(u, mine[p][u], "failed") /\ attempts[u] < MaxAttempts
           \/ Records(u, mine[p][u], "exhausted")
           \/ UNCHANGED recordVars
        /\ UNCHANGED handled
  /\ Leaves(p, u)
  /\ UNCHANGED <<loopVars, adding>>

-------------------------------------------------------------------------------
(* The delivery of an exhausted update *)

JobEnds(p, u) ==
  /\ told' = [told EXCEPT ![p][u] = 0]
  /\ Release(p, at, [job EXCEPT ![p][u] = "none"], waiting[p])
  /\ UNCHANGED <<line, mine, backlog>>

\* A handler that fails leaves the record as it is, for a later sweep.
JobHandled(p, u) ==
  /\ job[p][u] = "handle"
  /\ \/ /\ HandlerReturned(u, told[p][u])
        /\ job' = [job EXCEPT ![p][u] = "acknowledge"]
        /\ UNCHANGED <<line, at, mine, told, waiting, backlog, bounds>>
     \/ Spend("faults") /\ JobEnds(p, u) /\ UNCHANGED handled
  /\ UNCHANGED <<recordVars, loopVars, adding>>

\* acknowledgeExhaustion, which may throw with nothing written.
Acknowledges(p, u) ==
  /\ job[p][u] = "acknowledge"
  /\ \/ /\ IF record[u] = "exhausted" /\ claimId[u] = told[p][u]
             THEN /\ record' = [record EXCEPT ![u] = "acknowledged"]
                  /\ ripe' = [ripe EXCEPT ![u] = FALSE]
                  /\ UNCHANGED <<attempts, claimId>>
             ELSE UNCHANGED recordVars
        /\ UNCHANGED bounds
     \/ Spend("faults") /\ UNCHANGED recordVars
  /\ JobEnds(p, u)
  /\ UNCHANGED <<loopVars, adding, handled>>

-------------------------------------------------------------------------------
(* accept() *)

\* The update is recorded before Telegram is answered; one recorded already is not.
Accept(p, u) ==
  /\ p \in site[1] /\ u \in site[2]
  /\ record[u] = "none" /\ \A q \in Intakes : u \notin adding[q]
  /\ Spend("calls")
  /\ record' = [record EXCEPT ![u] = "pending"]
  /\ adding' = [adding EXCEPT ![p] = @ \cup {u}]
  /\ backlog' = [q \in Intakes |-> backlog[q] \ {u}]
  /\ UNCHANGED <<attempts, claimId, ripe, loopVars, workVars, handled>>

Arrives_AtOnce(p, u) ==
  /\ u \in adding[p]
  /\ adding' = [adding EXCEPT ![p] = @ \ {u}]
  /\ Join(p, {u})
  /\ UNCHANGED <<recordVars, started, closing, starting, arrivals, cursor, mine, job, told,
                 waiting, handled, backlog, bounds>>

Arrives(p, u) ==
  /\ u \in adding[p]
  /\ adding' = [adding EXCEPT ![p] = @ \ {u}]
  /\ IF starting[p].reads  \* what arrives waits for it
       THEN /\ arrivals' = [arrivals EXCEPT ![p] = @ \cup {u}]
            /\ UNCHANGED <<line, at>>
       ELSE Join(p, {u}) /\ UNCHANGED arrivals
  /\ UNCHANGED <<recordVars, started, closing, starting, cursor, mine, job, told, waiting,
                 handled, backlog, bounds>>

-------------------------------------------------------------------------------
(* Sweeps *)

Started(p) == starting' = [starting EXCEPT ![p] = NotStarting]

\* A start() while another one is under way is that one.
Start(p) ==
  /\ p \in site[1] /\ ~started[p] /\ ~starting[p].reads
  /\ Spend("calls")
  /\ started' = [started EXCEPT ![p] = TRUE]
  /\ closing' = [closing EXCEPT ![p] = "no"]
  /\ starting' = [starting EXCEPT ![p].reads = TRUE]
  /\ backlog' = [backlog EXCEPT ![p] =
                   IF line[p] = <<>> THEN {u \in Updates : record[u] = "pending"} ELSE {}]
  /\ UNCHANGED <<recordVars, arrivals, cursor, adding, workVars, handled>>

Due(p) == {u \in Updates : u > starting[p].after /\ DueNow(u, TRUE)}

\* A page of what is due; what the intake holds is passed over.
ReadsPage(p) ==
  /\ starting[p].reads /\ started[p] /\ Due(p) # {}
  /\ starting' = [starting EXCEPT ![p].after = Max(Due(p)),
                                  ![p].rows = @ \cup {u \in Due(p) : ~Has(p, u)}]
  /\ UNCHANGED <<recordVars, started, closing, arrivals, cursor, adding, workVars,
                 handled, backlog, bounds>>

\* One page of exhausted updates, after those of the sweep before, or from the first.
Exhausted(after) == {u \in Updates : u > after /\ record[u] = "exhausted"}
Page(p) == IF Exhausted(cursor[p]) # {} THEN Exhausted(cursor[p]) ELSE Exhausted(0)

\* Those without a delivery here have one, in an intake that is started, and wait for
\* a slot when none is free.
Deliver(p) ==
  IF Page(p) = {}
    THEN cursor' = [cursor EXCEPT ![p] = 0] /\ UNCHANGED <<job, told, waiting>>
    ELSE LET u == Min(Page(p)) IN
         /\ cursor' = [cursor EXCEPT ![p] = u]
         /\ IF job[p][u] # "none" \/ ~started[p]
              THEN UNCHANGED <<job, told, waiting>>
              ELSE /\ told' = [told EXCEPT ![p][u] = claimId[u]]
                   /\ IF Busy(p) < MaxConcurrent
                        THEN /\ job' = [job EXCEPT ![p][u] = "handle"]
                             /\ UNCHANGED waiting
                        ELSE /\ job' = [job EXCEPT ![p][u] = "slot"]
                             /\ waiting' = [waiting EXCEPT ![p] = Append(@, <<"job", u>>)]

\* What was settled longer ago than retainMs is forgotten.
Forgotten == {u \in Updates : record[u] \in Settled /\ ripe[u]}
Prune ==
  /\ record' = [u \in Updates |-> IF u \in Forgotten THEN "none" ELSE record[u]]
  /\ attempts' = [u \in Updates |-> IF u \in Forgotten THEN 0 ELSE attempts[u]]
  /\ claimId' = [u \in Updates |-> IF u \in Forgotten THEN 0 ELSE claimId[u]]
  /\ handled' = [u \in Updates |-> handled[u] /\ u \notin Forgotten]
  /\ ripe' = [u \in Updates |-> ripe[u] /\ u \notin Forgotten]

\* The empty page: the rows and what arrived meanwhile join in one pass.
StartEnds(p) ==
  /\ starting[p].reads /\ started[p] /\ Due(p) = {}
  /\ Join(p, starting[p].rows \cup arrivals[p])
  /\ Deliver(p) /\ Prune
  /\ arrivals' = [arrivals EXCEPT ![p] = {}]
  /\ Started(p)
  /\ UNCHANGED <<started, closing, adding, mine, backlog, bounds>>

\* The store throws, before or after the rows have joined, and start() did not
\* start; or close() came before the read ended.  What arrived stays recorded.
StartBreaks(p) ==
  /\ starting[p].reads
  /\ \/ ~started[p] /\ UNCHANGED <<line, at, bounds>>
     \/ /\ Spend("faults")
        /\ \/ UNCHANGED <<line, at>>
           \/ Due(p) = {} /\ Join(p, starting[p].rows \cup arrivals[p])
  /\ started' = [started EXCEPT ![p] = FALSE]
  /\ arrivals' = [arrivals EXCEPT ![p] = {}]
  /\ Started(p)
  /\ UNCHANGED <<recordVars, closing, cursor, adding, mine, job, told, waiting, handled,
                 backlog>>

\* What others left, and start() reads, when newer ones of its chat join before it.
Overtaken(p, new) ==
  {v \in backlog[p] :
     /\ starting[p].reads /\ ~Has(p, v) /\ v \notin new
     /\ \E u \in new : ~Has(p, u) /\ ChatOf[u] = ChatOf[v] /\ v < u}

\* sweep(), when it finds something.
Sweeps(p) ==
  /\ \E u \in Updates : DueNow(u, FALSE) \/ record[u] = "exhausted" \/ u \in Forgotten
  /\ LET new == {u \in Updates : DueNow(u, FALSE)} IN
       /\ Join(p, new)
       /\ backlog' = [backlog EXCEPT ![p] = @ \ Overtaken(p, new)]
  /\ Deliver(p) /\ Prune
  /\ UNCHANGED <<started, closing, starting, arrivals, adding, mine>>

\* The interval is set when the read of start() has ended.
Interval(p) == started[p] /\ ~starting[p].reads /\ Sweeps(p) /\ UNCHANGED bounds

\* sweep() may be called at any time.  While start() reads, what has ripened joins at
\* once; an intake that is not started only goes on in the pages of exhausted updates,
\* and prunes.  At any other time it does what the interval does.
Sweep(p) ==
  \/ Interval(p)
  \/ /\ p \in site[1] /\ (starting[p].reads \/ ~started[p])
     /\ Spend("sweeps") /\ Sweeps(p)

\* close() stops the timer, and waits for the read of start() and for the work.
Close(p) ==
  /\ started[p]
  /\ started' = [started EXCEPT ![p] = FALSE]
  /\ closing' = [closing EXCEPT ![p] = "waits"]
  /\ backlog' = [backlog EXCEPT ![p] = {}]
  /\ UNCHANGED <<recordVars, starting, arrivals, cursor, adding, workVars, handled, bounds>>

Drained_Lines(p) == line[p] = <<>>

Drained(p) == line[p] = <<>> /\ \A u \in Updates : job[p][u] = "none"

CloseReturns(p) ==
  /\ closing[p] = "waits"
  /\ ~starting[p].reads /\ Drained(p)
  /\ closing' = [closing EXCEPT ![p] = "returned"]
  /\ UNCHANGED <<recordVars, started, starting, arrivals, cursor, adding, workVars,
                 handled, backlog, bounds>>

-------------------------------------------------------------------------------
(* Time, and the death of a process *)

Attended(u) ==
  \E p \in Intakes : at[p][u] = "handle" /\ mine[p][u] = claimId[u]

Ripens(u) ==
  /\ record[u] \in {"pending", "processing", "failed"} \cup Settled /\ ~ripe[u]
  /\ IF record[u] = "processing" /\ Attended(u) THEN Spend("faults") ELSE UNCHANGED bounds
  /\ ripe' = [ripe EXCEPT ![u] = TRUE]
  /\ UNCHANGED <<record, attempts, claimId, loopVars, adding, workVars, handled,
                 backlog>>

Crash(p) ==
  /\ p \in site[1] /\ Spend("faults")
  /\ started' = [started EXCEPT ![p] = FALSE]
  /\ closing' = [closing EXCEPT ![p] = "no"]
  /\ Started(p)
  /\ arrivals' = [arrivals EXCEPT ![p] = {}]
  /\ adding' = [adding EXCEPT ![p] = {}]
  /\ line' = [line EXCEPT ![p] = <<>>]
  /\ at' = [at EXCEPT ![p] = [u \in Updates |-> "none"]]
  /\ mine' = [mine EXCEPT ![p] = [u \in Updates |-> 0]]
  /\ job' = [job EXCEPT ![p] = [u \in Updates |-> "none"]]
  /\ told' = [told EXCEPT ![p] = [u \in Updates |-> 0]]
  /\ waiting' = [waiting EXCEPT ![p] = <<>>]
  /\ cursor' = [cursor EXCEPT ![p] = 0]
  /\ backlog' = [backlog EXCEPT ![p] = {}]
  /\ UNCHANGED <<recordVars, handled>>

-------------------------------------------------------------------------------
Attempt(p, u) ==
  \/ WaitsForSlot(p, u) \/ Turn(p, u) \/ Claim(p, u) \/ NotClaimed(p, u)
  \/ Settles(p, u) \/ Exhausts(p, u)

Delivery(p, u) == JobHandled(p, u) \/ Acknowledges(p, u)

Starting(p) == ReadsPage(p) \/ StartEnds(p) \/ StartBreaks(p)

UpdatesNext ==
  \/ \E p \in Intakes, u \in Updates :
       \/ Attempt(p, u) \/ Delivery(p, u) \/ StoreThrows(p, u)
       \/ Accept(p, u) \/ Arrives(p, u)
  \/ \E p \in Intakes :
       Start(p) \/ Starting(p) \/ Sweep(p) \/ Close(p) \/ CloseReturns(p) \/ Crash(p)
  \/ \E u \in Updates : Ripens(u)

UpdatesSpec == UpdatesInit /\ [][UpdatesNext]_updateVars

\* Every call and every handler ends, the interval goes on, and time passes.
UpdatesFairness ==
  /\ \A p \in Intakes :
       /\ WF_updateVars(Starting(p)) /\ WF_updateVars(Interval(p))
       /\ \A u \in Updates :
            /\ WF_updateVars(Attempt(p, u))
            /\ WF_updateVars(Delivery(p, u))
            /\ WF_updateVars(Arrives(p, u))
  /\ \A u \in Updates : WF_updateVars(~Attended(u) /\ Ripens(u))

FairUpdatesSpec == UpdatesSpec /\ UpdatesFairness

-------------------------------------------------------------------------------
\* What update-intake.ts says of the order of a chat after a crash: an intake that
\* starts with nothing in its lines attempts no update of a chat before those a
\* dead process left pending there have had their turn, but for those that a sweep()
\* called while it reads found not ripe and overtook.
BacklogFirst ==
  [][\A p \in Intakes : \A u \in Updates :
       at[p][u] = "claim" /\ at'[p][u] = "handle" =>
         \A v \in backlog[p] :
           ChatOf[v] = ChatOf[u] /\ v < u => record[v] # "pending"]_updateVars

\* Updates of one chat run one after another in an intake, across its restarts.
OneOfAChat ==
  \A p \in Intakes : \A u, v \in Updates :
    at[p][u] \notin {"none", "joined"} /\ at[p][v] \notin {"none", "joined"}
      /\ ChatOf[u] = ChatOf[v] => u = v

\* A record is settled only for an attempt of its own: the handler of that very
\* claim returned, or the host was told of its exhaustion.  So nothing that was
\* accepted is forgotten unhandled, and a stale attempt settles nothing.
SettledIsHandled ==
  \A u \in Updates : record[u] \in Settled => handled[u]

\* A close() that has returned is the end: no start() reads, and no attempt and no
\* delivery of an exhausted update is left in the intake, until the next start().
ClosedIsIdle ==
  \A p \in Intakes : closing[p] = "returned" =>
    /\ ~starting[p].reads
    /\ \A u \in Updates : at[p][u] = "none" /\ job[p][u] = "none"

\* What update-intake.ts:331 says of the read: "Rows join their lines in one pass,
\* merged with `waiting`, so nothing runs ahead of the read."  While start() reads, no
\* update is claimed ahead of an older one of its chat that is read and waits to join.
\* It fails, by a sweep() called meanwhile.
NothingAheadOfTheRead ==
  [][\A p \in Intakes : \A u \in Updates :
       starting[p].reads /\ at[p][u] = "claim" /\ at'[p][u] = "handle" =>
         \A v \in starting[p].rows :
           ~Has(p, v) /\ ChatOf[v] = ChatOf[u] /\ v < u => record[v] # "pending"]_updateVars

\* Every update that was accepted is handled or its exhaustion is acknowledged,
\* whatever died with it, as long as some intake runs.
UpdatesSettle ==
  \A u \in Updates :
    record[u] \in Owed ~> record[u] \notin Owed \/ \A p \in Intakes : ~started[p]
===============================================================================
