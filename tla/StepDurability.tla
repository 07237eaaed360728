---------------------------- MODULE StepDurability ----------------------------
(***************************************************************************)
(* The durable steps, effects and parks of packages/core/src/durability:   *)
(* calls of one process that replay what the ledger of the conversation    *)
(* records (engine.ts, effect.ts, parks.ts, ledger.ts), and deliver(),     *)
(* which any process may call.                                             *)
(*                                                                         *)
(* A name stands for its durable key, and the ledger is what is recorded   *)
(* under each: nothing reads the records of two keys together.  One        *)
(* process at a time makes the calls, which is what its execution lease    *)
(* gives it (contract.ts); a crash ends all of them, and the process that  *)
(* follows has only the ledger.  A read goes on to the end of the ledger,  *)
(* so nothing older than the read is seen.                                 *)
(***************************************************************************)
EXTENDS Naturals, Sequences, SequencesExt, FiniteSets

CONSTANTS
  Names,       \* durable keys
  Kinds,       \* what the names are: [Names -> {"step", "effect", "sleep", "wait"}]
  Calls,       \* calls that run at the same time
  Deliverers,  \* deliver() calls that run at the same time
  Local,       \* those of the process that waits
  Values,      \* what a body returns, and payloads
  MaxCalls,    \* bound: calls of either sort
  MaxFaults    \* bound: deaths, and store operations that throw

ASSUME DurabilityAssumption ==
  /\ Kinds \subseteq [Names -> {"step", "effect", "sleep", "wait"}]
  /\ Names # {} /\ Values # {}
  /\ Local \subseteq Deliverers
  /\ Values \cap {"none", "intent", "accepted", "uncertain", "park", "awake"} = {}
  /\ MaxCalls \in Nat /\ MaxFaults \in Nat

VARIABLES
  kind,
  ledger,     \* the records of a name, oldest first
  over,       \* the recorded deadline has passed
  pc,         \* where a call is
  name,       \* the name it was made for
  value,      \* what its body returned
  woken,      \* calls whose waiter was woken
  told,       \* names whose subscribers are still to hear of another process's write
  sends,      \* where a deliver() is
  delivers,   \* the name it delivers to, and the payload
  happened,   \* the effect reached the recipient
  ran,        \* history: run() was called
  returned,   \* history: what calls returned, of this process and of earlier ones
  delivered,  \* history: a deliver() has returned
  spent

callVars == <<pc, name, value, woken>>
deliverVars == <<told, sends, delivers, delivered>>
worldVars == <<over, happened>>
historyVars == <<ran, returned>>
durabilityVars ==
  <<kind, ledger, callVars, deliverVars, worldVars, historyVars, spent>>

Records == Values \cup {"intent", "accepted", "uncertain", "park"}
Answers == Values \cup {"accepted", "uncertain", "awake"}
PCs == {"idle", "joined", "read", "body", "record", "intent", "run", "accept",
        "reconcile", "found", "absent", "park", "sleep", "wait"}
Budget == [calls |-> MaxCalls, faults |-> MaxFaults]

\* No key is parked twice, and a finished effect is never intended again.
DurabilityTypeOK ==
  /\ kind \in Kinds
  /\ ledger \in [Names -> Seq(Records)]
  /\ over \in [Names -> BOOLEAN]
  /\ pc \in [Calls -> PCs]
  /\ name \in [Calls -> Names]
  /\ value \in [Calls -> Values \cup {"none"}]
  /\ woken \subseteq Calls
  /\ told \subseteq Names
  /\ sends \in [Deliverers -> {"idle", "read", "append"}]
  /\ delivers \in [Deliverers -> Names \X Values]
  /\ happened \subseteq ran /\ ran \subseteq Names
  /\ returned \in [Names -> SUBSET Answers]
  /\ delivered \subseteq Names
  /\ DOMAIN spent = DOMAIN Budget
  /\ \A n \in Names : \A i, j \in DOMAIN ledger[n] :
       ledger[n][i] = ledger[n][j] /\ ledger[n][i] \in {"intent", "park"} => i = j

DurabilityInit ==
  /\ kind \in Kinds
  /\ ledger = [n \in Names |-> <<>>]
  /\ over = [n \in Names |-> FALSE]
  /\ pc = [c \in Calls |-> "idle"]
  /\ name \in [Calls -> {CHOOSE n \in Names : TRUE}]
  /\ value = [c \in Calls |-> "none"]
  /\ woken = {} /\ told = {}
  /\ sends = [d \in Deliverers |-> "idle"]
  /\ delivers \in [Deliverers -> {CHOOSE x \in Names \X Values : TRUE}]
  /\ happened = {} /\ ran = {}
  /\ returned = [n \in Names |-> {}]
  /\ delivered = {}
  /\ spent = [b \in DOMAIN Budget |-> 0]

Spend(b) == spent[b] < Budget[b] /\ spent' = [spent EXCEPT ![b] = @ + 1]

-------------------------------------------------------------------------------
(* The ledger *)

Has(n, r) == r \in ToSet(ledger[n])

\* Where a name has records of this sort.
Of(n, rs) == {i \in DOMAIN ledger[n] : ledger[n][i] \in rs}

\* The last result of a step, the first outcome of an effect, the first delivery.
StepResult(n) == ledger[n][Max(Of(n, Values))]
Outcome(n) == ledger[n][Min(Of(n, {"accepted", "uncertain"}))]
Delivery_Last(n) == ledger[n][Max(Of(n, Values))]
Delivery(n) == ledger[n][Min(Of(n, Values))]

Recorded(n) == Of(n, Values) # {}
Ended(n) == Of(n, {"accepted", "uncertain"}) # {}

Appends(n, r) == ledger' = [ledger EXCEPT ![n] = Append(@, r)]

-------------------------------------------------------------------------------
(* A call *)

InFlight(n) == {c \in Calls : pc[c] \notin {"idle", "joined"} /\ name[c] = n}

\* The call is over, and with it those that joined it.
Over(c) ==
  LET gone == {d \in Calls : d = c \/ (pc[d] = "joined" /\ name[d] = name[c])} IN
  /\ pc' = [d \in Calls |-> IF d \in gone THEN "idle" ELSE pc[d]]
  /\ value' = [value EXCEPT ![c] = "none"]
  /\ woken' = woken \ {c}
  /\ UNCHANGED name

Returns(c, answer) ==
  /\ Over(c)
  /\ returned' = [returned EXCEPT ![name[c]] = @ \cup {answer}]

Throws(c) == Over(c) /\ UNCHANGED returned

Goes(c, there) == pc' = [pc EXCEPT ![c] = there] /\ UNCHANGED <<name, returned>>

GoesTo(c, there) == Goes(c, there) /\ UNCHANGED <<value, woken>>

\* step(), effect(), sleep() or waitFor(): a second call for the name joins the
\* first, whichever object of the process made it.
Call(c, n) ==
  /\ pc[c] = "idle"
  /\ Spend("calls")
  /\ name' = [name EXCEPT ![c] = n]
  /\ pc' = [pc EXCEPT ![c] = IF InFlight(n) = {} THEN "read" ELSE "joined"]
  /\ UNCHANGED <<kind, ledger, value, woken, deliverVars, worldVars, historyVars>>

Is(c, k) == kind[name[c]] = k

\* What the read of the ledger leads to.  The waiter of a wait is there before it.
Read(c) ==
  /\ pc[c] = "read"
  /\ LET n == name[c] IN
     \/ /\ Is(c, "step")
        /\ IF Recorded(n) THEN Returns(c, StepResult(n)) ELSE GoesTo(c, "body")
     \/ /\ Is(c, "effect")
        /\ IF Ended(n)
             THEN Returns(c, Outcome(n))
             ELSE GoesTo(c, IF Has(n, "intent") THEN "reconcile" ELSE "intent")
     \/ /\ Is(c, "sleep")
        /\ GoesTo(c, IF Has(n, "park") THEN "sleep" ELSE "park")
     \/ /\ Is(c, "wait")
        /\ IF Recorded(n)
             THEN Returns(c, Delivery(n))
             ELSE GoesTo(c, IF Has(n, "park") THEN "wait" ELSE "park")
  /\ UNCHANGED <<kind, ledger, deliverVars, worldVars, ran, spent>>

Unrecorded == <<kind, ledger, deliverVars, worldVars, ran, spent>>

\* The body of a step returns, or throws with nothing recorded.
Body(c) ==
  /\ pc[c] = "body"
  /\ \/ /\ \E v \in Values : value' = [value EXCEPT ![c] = v]
        /\ Goes(c, "record")
        /\ UNCHANGED woken
     \/ Throws(c)
  /\ UNCHANGED Unrecorded

Record(c) ==
  /\ pc[c] = "record"
  /\ Appends(name[c], value[c])
  /\ Returns(c, value[c])
  /\ UNCHANGED <<kind, deliverVars, worldVars, ran, spent>>

-------------------------------------------------------------------------------
(* An effect *)

\* The intent is recorded first.
Intent_Unrecorded(c) ==
  /\ pc[c] = "intent"
  /\ ran' = ran \cup {name[c]}
  /\ GoesTo(c, "run")
  /\ UNCHANGED <<kind, ledger, deliverVars, worldVars, spent>>
Intent(c) ==
  /\ pc[c] = "intent"
  /\ Appends(name[c], "intent")
  /\ ran' = ran \cup {name[c]}
  /\ GoesTo(c, "run")
  /\ UNCHANGED <<kind, deliverVars, worldVars, spent>>

\* run() returns what the recipient named the effect, or throws, or its proof
\* cannot be kept; then the intent stands alone.
Run(c) ==
  /\ pc[c] = "run"
  /\ \/ name[c] \in happened /\ GoesTo(c, "accept")
     \/ Throws(c)
  /\ UNCHANGED Unrecorded

\* The recipient has a record, or it has none; or the question fails, times out
\* or is abandoned.
Reconcile(c) ==
  /\ pc[c] = "reconcile"
  /\ \/ GoesTo(c, IF name[c] \in happened THEN "found" ELSE "absent")
     \/ Throws(c)
  /\ UNCHANGED Unrecorded

Settle(c) ==
  /\ pc[c] \in {"accept", "found", "absent"}
  /\ LET outcome == IF pc[c] = "absent" THEN "uncertain" ELSE "accepted" IN
     Appends(name[c], outcome) /\ Returns(c, outcome)
  /\ UNCHANGED <<kind, deliverVars, worldVars, ran, spent>>

\* A request that is out arrives, maybe after its caller has gone.
Happens(n) ==
  /\ n \in ran \ happened
  /\ happened' = happened \cup {n}
  /\ UNCHANGED <<kind, ledger, callVars, deliverVars, over, historyVars, spent>>

-------------------------------------------------------------------------------
(* A park *)

Park(c) ==
  /\ pc[c] = "park"
  /\ Appends(name[c], "park")
  /\ GoesTo(c, IF Is(c, "sleep") THEN "sleep" ELSE "wait")
  /\ UNCHANGED <<kind, deliverVars, worldVars, ran, spent>>

DeadlinePasses(n) ==
  /\ kind[n] = "sleep" /\ Has(n, "park") /\ ~over[n]
  /\ over' = [over EXCEPT ![n] = TRUE]
  /\ UNCHANGED <<kind, ledger, callVars, deliverVars, happened, historyVars, spent>>

Awakes(c) ==
  /\ pc[c] = "sleep" /\ over[name[c]]
  /\ Returns(c, "awake")
  /\ UNCHANGED Unrecorded

\* A waiter that was woken is replaced by another before the ledger is read again.
Rereads(c) ==
  /\ pc[c] = "wait" /\ c \in woken
  /\ Goes(c, "read")
  /\ woken' = woken \ {c}
  /\ UNCHANGED value
  /\ UNCHANGED Unrecorded

\* The signal of a call that is parked, or about to wait, or that found nothing
\* recorded and has not begun its body.  What is recorded stays.
Abort(c) ==
  /\ \/ pc[c] \in {"sleep", "wait"}
     \/ pc[c] = "read" /\ Is(c, "wait")
     \/ pc[c] = "read" /\ Is(c, "step") /\ ~Recorded(name[c])
     \/ pc[c] = "read" /\ Is(c, "effect") /\ ~Ended(name[c])
  /\ Throws(c)
  /\ UNCHANGED Unrecorded

\* A call that joined an effect gives up alone.
GivesUp(c) ==
  /\ pc[c] = "joined" /\ Is(c, "effect")
  /\ GoesTo(c, "idle")
  /\ UNCHANGED Unrecorded

\* An operation of the store throws, with or without its effect.
StoreThrows(c) ==
  /\ Spend("faults")
  /\ LET n == name[c] IN
     \/ pc[c] = "read" /\ UNCHANGED ledger
     \/ /\ pc[c] \in {"record", "intent", "accept", "found", "absent", "park"}
        /\ \/ UNCHANGED ledger
           \/ pc[c] = "record" /\ Appends(n, value[c])
           \/ pc[c] \in {"intent", "park"} /\ Appends(n, pc[c])
           \/ pc[c] \in {"accept", "found"} /\ Appends(n, "accepted")
           \/ pc[c] = "absent" /\ Appends(n, "uncertain")
  /\ Throws(c)
  /\ UNCHANGED <<kind, deliverVars, worldVars, ran>>

-------------------------------------------------------------------------------
(* deliver() *)

Waiting_Parked(n) == {c \in Calls : name[c] = n /\ pc[c] = "wait"}

\* The waiters registered for a name: from before the read.
Waiting(n) ==
  {c \in Calls : name[c] = n /\ kind[n] = "wait" /\ pc[c] \in {"read", "park", "wait"}}

Deliver(d, n, v) ==
  /\ kind[n] = "wait" /\ sends[d] = "idle"
  /\ Spend("calls")
  /\ sends' = [sends EXCEPT ![d] = "read"]
  /\ delivers' = [delivers EXCEPT ![d] = <<n, v>>]
  /\ UNCHANGED <<kind, ledger, callVars, told, delivered, worldVars, historyVars>>

\* The waiters of its own process are woken; those elsewhere hear of the write.
Notifies(d) ==
  LET n == delivers[d][1] IN
  /\ IF d \in Local
       THEN woken' = woken \cup Waiting(n) /\ UNCHANGED told
       ELSE told' = told \cup {n} /\ UNCHANGED woken
  /\ sends' = [sends EXCEPT ![d] = "idle"]
  /\ delivered' = delivered \cup {n}

DeliverReads(d) ==
  /\ sends[d] = "read"
  /\ \/ Recorded(delivers[d][1]) /\ Notifies(d)
     \/ /\ ~Recorded(delivers[d][1])
        /\ sends' = [sends EXCEPT ![d] = "append"]
        /\ UNCHANGED <<woken, told, delivered>>
  /\ UNCHANGED <<kind, ledger, pc, name, value, delivers, worldVars, historyVars, spent>>

DeliverAppends(d) ==
  /\ sends[d] = "append"
  /\ Appends(delivers[d][1], delivers[d][2])
  /\ Notifies(d)
  /\ UNCHANGED <<kind, pc, name, value, delivers, worldVars, historyVars, spent>>

\* It throws, or its process dies: recorded or not, nobody is woken.
DeliverFails(d) ==
  /\ sends[d] # "idle"
  /\ Spend("faults")
  /\ \/ UNCHANGED ledger
     \/ sends[d] = "append" /\ Appends(delivers[d][1], delivers[d][2])
  /\ sends' = [sends EXCEPT ![d] = "idle"]
  /\ UNCHANGED <<kind, callVars, told, delivers, delivered, worldVars, historyVars>>

\* The subscription of a waiter.
Hears(n) ==
  /\ n \in told
  /\ told' = told \ {n}
  /\ woken' = woken \cup Waiting(n)
  /\ UNCHANGED <<kind, ledger, pc, name, value, sends, delivers, delivered, worldVars,
                 historyVars, spent>>

-------------------------------------------------------------------------------
Crash ==
  /\ Spend("faults")
  /\ pc' = [c \in Calls |-> "idle"]
  /\ value' = [c \in Calls |-> "none"]
  /\ woken' = {}
  /\ sends' = [d \in Deliverers |-> IF d \in Local THEN "idle" ELSE sends[d]]
  /\ UNCHANGED <<kind, ledger, name, told, delivers, delivered, worldVars, historyVars>>

Execute(c) ==
  \/ Read(c) \/ Body(c) \/ Record(c) \/ Intent(c) \/ Run(c) \/ Reconcile(c) \/ Settle(c)
  \/ Park(c) \/ Awakes(c) \/ Rereads(c)

DurabilityNext ==
  \/ \E c \in Calls :
       \/ Execute(c) \/ Abort(c) \/ GivesUp(c) \/ StoreThrows(c)
       \/ \E n \in Names : Call(c, n)
  \/ \E d \in Deliverers :
       \/ DeliverReads(d) \/ DeliverAppends(d) \/ DeliverFails(d)
       \/ \E n \in Names, v \in Values : Deliver(d, n, v)
  \/ \E n \in Names : Happens(n) \/ DeadlinePasses(n) \/ Hears(n)
  \/ Crash

DurabilitySpec == DurabilityInit /\ [][DurabilityNext]_durabilityVars

\* Every operation of the store and every handler ends, notifications arrive, and
\* deadlines pass.
DurabilityFairness ==
  /\ \A c \in Calls : WF_durabilityVars(Execute(c))
  /\ \A d \in Deliverers : WF_durabilityVars(DeliverReads(d) \/ DeliverAppends(d))
  /\ \A n \in Names : WF_durabilityVars(DeadlinePasses(n)) /\ WF_durabilityVars(Hears(n))

FairDurabilitySpec == DurabilitySpec /\ DurabilityFairness

-------------------------------------------------------------------------------
\* run() is called at most once for a name: not again after it threw, after the
\* process died in it, or after the reply to a record of it was lost (effect.ts).
RunOnce ==
  [][\A c \in Calls : pc[c] # "run" /\ pc'[c] = "run" => name[c] \notin ran]_durabilityVars

\* What one call returned, every later call returns: the result of a step, the
\* payload of a wait, accepted or uncertain, across crashes, lost replies and
\* deliveries that race.
OneAnswer == \A n \in Names : Cardinality(returned[n]) <= 1

\* A wait ends once a deliver() for it has returned, wherever the delivery landed
\* between the calls of the wait; and a sleep ends, by the deadline first recorded.
WaitsEnd ==
  \A c \in Calls :
    pc[c] # "idle" /\ (kind[name[c]] = "wait" => name[c] \in delivered) ~> pc[c] = "idle"
===============================================================================
