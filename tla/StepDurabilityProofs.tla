-------------------------- MODULE StepDurabilityProofs --------------------------
(***************************************************************************)
(* An effect runs at most once, and every call for a name returns the same,*)
(* for any number of names, calls, deliveries, crashes and lost replies.   *)
(***************************************************************************)
EXTENDS StepDurability, FiniteSetTheorems, TLAPS

\* What the invariant rests on: where the calls and the records are.
Shapes ==
  /\ ledger \in [Names -> Seq(Records)]
  /\ pc \in [Calls -> PCs]
  /\ name \in [Calls -> Names]
  /\ value \in [Calls -> Values \cup {"none"}]
  /\ delivers \in [Deliverers -> Names \X Values]
  /\ \A c \in Calls : pc[c] = "record" => value[c] \in Values

\* A call that reads or writes the ledger has its name to itself.
Works(c) == pc[c] \notin {"idle", "joined"}
Alone == \A c, d \in Calls : Works(c) /\ Works(d) /\ name[c] = name[d] => c = d

\* Whatever ran had its intent recorded first, ...
Intended == \A n \in ran : n \in Names /\ Has(n, "intent")

\* ... and a call about to record an intent has read that there is none.
NotYet == \A c \in Calls : pc[c] = "intent" => ~Has(name[c], "intent")

\* RunOnce is not inductive without these: a call that has read an empty ledger
\* still finds it without an intent when it writes its own, because nobody else
\* writes one meanwhile.
DInv == Shapes /\ Alone /\ Intended /\ NotYet

\* What a step of call c does to the calls: the others stay or end with it.
Moves(c) ==
  /\ pc' \in [Calls -> PCs]
  /\ name' = name
  /\ value' \in [Calls -> Values \cup {"none"}]
  /\ \A d \in Calls \ {c} : pc'[d] \in {pc[d], "idle"}
  /\ \A d \in Calls : pc'[d] = "record" => value'[d] \in Values

\* A record that is appended is the only one added.
LEMMA AppendHas ==
  ASSUME NEW n \in Names, NEW r \in Records, ledger \in [Names -> Seq(Records)],
         Appends(n, r)
  PROVE  /\ ledger' \in [Names -> Seq(Records)]
         /\ \A m \in Names : \A x : Has(m, x)' <=> Has(m, x) \/ (m = n /\ x = r)
<1>1. ledger[n] \in Seq(Records)
  OBVIOUS
<1>2. ledger' = [ledger EXCEPT ![n] = Append(ledger[n], r)]
  BY DEF Appends
<1>3. Append(ledger[n], r) \in Seq(Records)
  BY <1>1
<1>4. ledger' \in [Names -> Seq(Records)]
  BY <1>2, <1>3
<1>5. ASSUME NEW m \in Names, NEW x
      PROVE  Has(m, x)' <=> Has(m, x) \/ (m = n /\ x = r)
  <2>1. CASE m # n
    BY <1>2, <2>1 DEF Has, ToSet
  <2>2. CASE m = n
    <3>1. ledger'[n] = Append(ledger[n], r)
      BY <1>2
    <3>2. /\ Len(ledger'[n]) = Len(ledger[n]) + 1
          /\ \A i \in 1..Len(ledger[n]) : ledger'[n][i] = ledger[n][i]
          /\ ledger'[n][Len(ledger[n]) + 1] = r
      BY <3>1, <1>1
    <3>3. /\ DOMAIN ledger'[n] = 1..(Len(ledger[n]) + 1)
          /\ DOMAIN ledger[n] = 1..Len(ledger[n])
          /\ Len(ledger[n]) \in Nat
      BY <1>1, <1>4, <3>2
    <3>4. ASSUME Has(n, x)'
          PROVE  Has(n, x) \/ x = r
      <4>1. PICK i \in DOMAIN ledger'[n] : x = ledger'[n][i]
        BY <3>4 DEF Has, ToSet
      <4>2. CASE i = Len(ledger[n]) + 1
        BY <4>1, <4>2, <3>2
      <4>3. CASE i \in 1..Len(ledger[n])
        BY <4>1, <4>3, <3>2, <3>3 DEF Has, ToSet
      <4> QED
        BY <4>1, <4>2, <4>3, <3>3
    <3>5. ASSUME Has(n, x)
          PROVE  Has(n, x)'
      <4>1. PICK i \in 1..Len(ledger[n]) : x = ledger[n][i]
        BY <3>5, <3>3 DEF Has, ToSet
      <4>2. i \in DOMAIN ledger'[n] /\ x = ledger'[n][i]
        BY <4>1, <3>2, <3>3
      <4> QED
        BY <4>2 DEF Has, ToSet
    <3>6. Has(n, r)'
      <4>1. Len(ledger[n]) + 1 \in DOMAIN ledger'[n]
        BY <3>3
      <4> QED
        BY <4>1, <3>2 DEF Has, ToSet
    <3> QED
      BY <2>2, <3>4, <3>5, <3>6
  <2> QED
    BY <2>1, <2>2
<1> QED
  BY <1>4, <1>5

-------------------------------------------------------------------------------
\* The end of a call.
LEMMA OverMoves ==
  ASSUME Shapes, NEW c \in Calls, Over(c)
  PROVE  Moves(c) /\ pc'[c] = "idle"
<1> DEFINE gone == {d \in Calls : d = c \/ (pc[d] = "joined" /\ name[d] = name[c])}
<1>1. /\ pc' = [d \in Calls |-> IF d \in gone THEN "idle" ELSE pc[d]]
      /\ value' = [value EXCEPT ![c] = "none"]
      /\ name' = name
  BY DEF Over
<1>2. \A d \in Calls : pc'[d] \in {pc[d], "idle"}
  BY <1>1
<1>3. pc'[c] = "idle"
  BY <1>1
<1>4. pc' \in [Calls -> PCs]
  BY <1>1 DEF Shapes, PCs
<1>5. value' \in [Calls -> Values \cup {"none"}]
  BY <1>1 DEF Shapes
<1>6. \A d \in Calls : pc'[d] = "record" => value'[d] \in Values
  BY <1>1, <1>2, <1>3 DEF Shapes
<1> QED
  BY <1>1, <1>2, <1>3, <1>4, <1>5, <1>6 DEF Moves

\* A call that goes on.
LEMMA GoesMoves ==
  ASSUME Shapes, NEW c \in Calls, NEW there \in PCs, Goes(c, there),
         value' \in [Calls -> Values \cup {"none"}],
         \A d \in Calls \ {c} : value'[d] = value[d],
         there = "record" => value'[c] \in Values
  PROVE  Moves(c) /\ pc'[c] = there
BY DEF Goes, Shapes, Moves

\* A step of a call that had its name to itself leaves every call so.
LEMMA AloneKept ==
  ASSUME Alone, NEW c \in Calls, Works(c), Moves(c)
  PROVE  Alone'
BY DEF Alone, Works, Moves

\* A step that records nothing.
LEMMA Unwritten ==
  ASSUME DInv, NEW c \in Calls, Works(c), Moves(c),
         ledger' = ledger, delivers' = delivers, ran' = ran,
         pc'[c] = "intent" => ~Has(name[c], "intent")
  PROVE  DInv'
<1>1. Shapes'
  BY DEF DInv, Shapes, Moves
<1>2. Alone'
  BY AloneKept DEF DInv
<1>3. Intended'
  BY DEF DInv, Intended, Has
<1>4. NotYet'
  BY DEF DInv, NotYet, Has, Moves
<1> QED
  BY <1>1, <1>2, <1>3, <1>4 DEF DInv

\* A call that ends and records nothing.
LEMMA Ends ==
  ASSUME DInv, NEW c \in Calls, Works(c), Over(c),
         ledger' = ledger, delivers' = delivers, ran' = ran
  PROVE  DInv'
BY OverMoves, Unwritten DEF DInv

\* A record of the call that has the name to itself, and with an intent, the run.
LEMMA Written ==
  ASSUME DInv, NEW c \in Calls, Works(c), Moves(c), pc'[c] # "intent",
         NEW r \in Records, Appends(name[c], r), delivers' = delivers,
         ran' = ran \/ (r = "intent" /\ ran' = ran \cup {name[c]})
  PROVE  DInv'
<1>1. /\ name[c] \in Names
      /\ ledger \in [Names -> Seq(Records)]
  BY DEF DInv, Shapes
<1>2. /\ ledger' \in [Names -> Seq(Records)]
      /\ \A m \in Names : \A x : Has(m, x)' <=> Has(m, x) \/ (m = name[c] /\ x = r)
  BY <1>1, AppendHas
<1>3. Shapes'
  BY <1>2 DEF DInv, Shapes, Moves
<1>4. Alone'
  BY AloneKept DEF DInv
<1>5. Intended'
  BY <1>1, <1>2 DEF DInv, Intended
<1>6. NotYet'
  <2> SUFFICES ASSUME NEW d \in Calls, pc'[d] = "intent"
               PROVE  ~Has(name[d], "intent")'
    BY DEF NotYet
  <2>1. d # c /\ pc[d] = "intent" /\ name'[d] = name[d]
    BY DEF Moves
  <2>2. name[d] # name[c]
    BY <2>1 DEF DInv, Alone, Works
  <2>3. ~Has(name[d], "intent")
    BY <2>1 DEF DInv, NotYet
  <2>4. name[d] \in Names
    BY DEF DInv, Shapes
  <2>5. \A m \in Names : m # name[c] => (Has(m, "intent")' <=> Has(m, "intent"))
    BY <1>2
  <2> QED
    BY <2>1, <2>2, <2>3, <2>4, <2>5 DEF Has
<1> QED
  BY <1>3, <1>4, <1>5, <1>6 DEF DInv

\* A call that ends with a record.
LEMMA EndsWith ==
  ASSUME DInv, NEW c \in Calls, Works(c), Over(c),
         NEW r \in Records, Appends(name[c], r), delivers' = delivers, ran' = ran
  PROVE  DInv'
BY OverMoves, Written DEF DInv

\* What is known without the calls: a step that leaves them alone.
LEMMA CallsUntouched ==
  ASSUME DInv, UNCHANGED <<pc, name, value, ledger, ran>>,
         delivers' \in [Deliverers -> Names \X Values]
  PROVE  DInv'
BY DEF DInv, Shapes, Alone, Works, Intended, NotYet, Has

-------------------------------------------------------------------------------
\* The initial states satisfy the invariant.
LEMMA InitDInv == DurabilityInit => DInv
<1> SUFFICES ASSUME DurabilityInit PROVE DInv
  OBVIOUS
<1>1. (CHOOSE n \in Names : TRUE) \in Names
  BY DurabilityAssumption
<1>2. (CHOOSE x \in Names \X Values : TRUE) \in Names \X Values
  <2>1. PICK n \in Names, v \in Values : TRUE
    BY DurabilityAssumption
  <2>2. <<n, v>> \in Names \X Values
    OBVIOUS
  <2> QED
    BY <2>2
<1>3. name \in [Calls -> Names] /\ delivers \in [Deliverers -> Names \X Values]
  BY <1>1, <1>2 DEF DurabilityInit
<1>4. Shapes
  BY <1>3 DEF DurabilityInit, Shapes, PCs
<1> QED
  BY <1>4 DEF DurabilityInit, DInv, Alone, Works, Intended, NotYet

\* Every step of a call that executes preserves the invariant.
LEMMA ExecuteDInv ==
  ASSUME DInv, NEW c \in Calls, Execute(c)
  PROVE  DInv'
<1> USE DEF deliverVars
<1>0. Shapes
  BY DEF DInv
<1>1. CASE Read(c)
  <2>1. Works(c) /\ ledger' = ledger /\ delivers' = delivers /\ ran' = ran
    BY <1>1 DEF Read, Works
  <2>2. CASE Over(c)
    BY <2>1, <2>2, Ends
  <2>3. ASSUME NEW there \in {"body", "reconcile", "intent", "sleep", "wait", "park"},
               GoesTo(c, there), there = "intent" => ~Has(name[c], "intent")
        PROVE  DInv'
    <3>1. Moves(c) /\ pc'[c] = there
      BY <1>0, <2>3, GoesMoves DEF GoesTo, PCs, Shapes
    <3> QED
      BY <2>1, <2>3, <3>1, Unwritten
  <2>4. \/ Over(c)
        \/ \E there \in {"body", "reconcile", "intent", "sleep", "wait", "park"} :
             GoesTo(c, there) /\ (there = "intent" => ~Has(name[c], "intent"))
    BY <1>1 DEF Read, Returns
  <2> QED
    BY <2>2, <2>3, <2>4
<1>2. CASE Body(c)
  <2>1. /\ Works(c) /\ ledger' = ledger /\ delivers' = delivers /\ ran' = ran
    BY <1>2 DEF Body, Unrecorded, Works
  <2>2. CASE Throws(c)
    BY <2>1, <2>2, Ends DEF Throws
  <2>3. ASSUME NEW v \in Values, value' = [value EXCEPT ![c] = v], Goes(c, "record")
        PROVE  DInv'
    <3>1. /\ value' \in [Calls -> Values \cup {"none"}]
          /\ \A d \in Calls \ {c} : value'[d] = value[d]
          /\ value'[c] \in Values
      BY <1>0, <2>3 DEF Shapes
    <3>2. Moves(c) /\ pc'[c] = "record"
      BY <1>0, <2>3, <3>1, GoesMoves DEF PCs
    <3> QED
      BY <2>1, <3>2, Unwritten
  <2> QED
    BY <1>2, <2>2, <2>3 DEF Body
<1>3. CASE Record(c)
  <2>1. value[c] \in Records /\ Works(c)
    BY <1>0, <1>3 DEF Record, Shapes, Records, Works
  <2> QED
    BY <1>3, <2>1, EndsWith DEF Record, Returns
<1>4. CASE Intent(c)
  <2>1. Works(c) /\ "intent" \in Records
    BY <1>4 DEF Intent, Works, Records
  <2>2. Moves(c) /\ pc'[c] = "run"
    BY <1>0, <1>4, GoesMoves DEF Intent, GoesTo, PCs, Shapes
  <2> QED
    BY <1>4, <2>1, <2>2, Written DEF Intent
<1>5. CASE Run(c)
  <2>1. Works(c) /\ ledger' = ledger /\ delivers' = delivers /\ ran' = ran
    BY <1>5 DEF Run, Unrecorded, Works
  <2>2. CASE GoesTo(c, "accept")
    <3>1. Moves(c) /\ pc'[c] = "accept"
      BY <1>0, <2>2, GoesMoves DEF GoesTo, PCs, Shapes
    <3> QED
      BY <2>1, <3>1, Unwritten
  <2> QED
    BY <1>5, <2>1, <2>2, Ends DEF Run, Throws
<1>6. CASE Reconcile(c)
  <2>1. Works(c) /\ ledger' = ledger /\ delivers' = delivers /\ ran' = ran
    BY <1>6 DEF Reconcile, Unrecorded, Works
  <2>2. ASSUME NEW there \in {"found", "absent"}, GoesTo(c, there)
        PROVE  DInv'
    <3>1. Moves(c) /\ pc'[c] = there
      BY <1>0, <2>2, GoesMoves DEF GoesTo, PCs, Shapes
    <3> QED
      BY <2>1, <2>2, <3>1, Unwritten
  <2> QED
    BY <1>6, <2>1, <2>2, Ends DEF Reconcile, Throws
<1>7. CASE Settle(c)
  <2>1. Works(c)
    BY <1>7 DEF Settle, Works
  <2>2. PICK outcome \in {"accepted", "uncertain"} :
          Appends(name[c], outcome) /\ Over(c)
    BY <1>7 DEF Settle, Returns
  <2> QED
    BY <1>7, <2>1, <2>2, EndsWith DEF Settle, Records
<1>8. CASE Park(c)
  <2>1. Works(c) /\ "park" \in Records
    BY <1>8 DEF Park, Works, Records
  <2>2. PICK there \in {"sleep", "wait"} : GoesTo(c, there)
    BY <1>8 DEF Park
  <2>3. Moves(c) /\ pc'[c] = there
    BY <1>0, <2>2, GoesMoves DEF GoesTo, PCs, Shapes
  <2> QED
    BY <1>8, <2>1, <2>2, <2>3, Written DEF Park
<1>9. CASE Awakes(c)
  BY <1>9, Ends DEF Awakes, Returns, Unrecorded, Works
<1>10. CASE Rereads(c)
  <2>1. Works(c) /\ ledger' = ledger /\ delivers' = delivers /\ ran' = ran
    BY <1>10 DEF Rereads, Unrecorded, Works
  <2>2. Moves(c) /\ pc'[c] = "read"
    BY <1>0, <1>10, GoesMoves DEF Rereads, PCs, Shapes
  <2> QED
    BY <2>1, <2>2, Unwritten
<1> QED
  BY <1>1, <1>2, <1>3, <1>4, <1>5, <1>6, <1>7, <1>8, <1>9, <1>10 DEF Execute

\* A call that begins has the name to itself, or joins the one that has.
LEMMA CallDInv ==
  ASSUME DInv, NEW c \in Calls, NEW n \in Names, Call(c, n)
  PROVE  DInv'
<1> DEFINE there == IF InFlight(n) = {} THEN "read" ELSE "joined"
<1>1. /\ pc[c] = "idle"
      /\ name' = [name EXCEPT ![c] = n]
      /\ pc' = [pc EXCEPT ![c] = there]
      /\ UNCHANGED <<ledger, value, delivers, ran>>
  BY DEF Call, deliverVars, historyVars
<1>2. Shapes'
  BY <1>1 DEF DInv, Shapes, PCs
<1>3. Alone'
  <2> SUFFICES ASSUME NEW d \in Calls, NEW e \in Calls, Works(d)', Works(e)',
                      name'[d] = name'[e]
               PROVE  d = e
    BY DEF Alone, Works
  <2>1. \A x \in Calls \ {c} : pc'[x] = pc[x] /\ name'[x] = name[x]
    BY <1>1 DEF DInv, Shapes
  <2>2. pc'[c] = there /\ name'[c] = n
    BY <1>1 DEF DInv, Shapes
  <2>3. ASSUME NEW x \in Calls \ {c}, Works(x)', Works(c)'
        PROVE  name'[x] # name'[c]
    <3>1. InFlight(n) = {}
      BY <2>2, <2>3 DEF Works
    <3>2. Works(x)
      BY <2>1, <2>3 DEF Works
    <3> QED
      BY <2>1, <2>2, <3>1, <3>2 DEF InFlight, Works
  <2> QED
    BY <2>1, <2>3 DEF DInv, Alone, Works
<1>4. Intended' /\ NotYet'
  BY <1>1 DEF DInv, Shapes, Intended, NotYet, Has
<1> QED
  BY <1>2, <1>3, <1>4 DEF DInv

\* The store throws, with or without its effect.
LEMMA StoreThrowsDInv ==
  ASSUME DInv, NEW c \in Calls, StoreThrows(c)
  PROVE  DInv'
<1>1. Over(c) /\ delivers' = delivers /\ ran' = ran
  BY DEF StoreThrows, Throws, deliverVars
<1>2. Works(c)
  BY DEF StoreThrows, Works
<1>3. \/ ledger' = ledger
      \/ pc[c] = "record" /\ Appends(name[c], value[c])
      \/ \E r \in {"intent", "park", "accepted", "uncertain"} : Appends(name[c], r)
  BY DEF StoreThrows
<1>4. CASE pc[c] = "record" /\ Appends(name[c], value[c])
  <2>1. value[c] \in Records
    BY <1>4 DEF DInv, Shapes, Records
  <2> QED
    BY <1>1, <1>2, <1>4, <2>1, EndsWith
<1>5. ASSUME NEW r \in {"intent", "park", "accepted", "uncertain"}, Appends(name[c], r)
      PROVE  DInv'
  <2>1. r \in Records
    BY <1>5 DEF Records
  <2> QED
    BY <1>1, <1>2, <1>5, <2>1, EndsWith
<1> QED
  BY <1>1, <1>2, <1>3, <1>4, <1>5, Ends

\* What a delivery appends is a payload.
LEMMA DeliveryDInv ==
  ASSUME DInv, NEW d \in Deliverers, Appends(delivers[d][1], delivers[d][2]),
         UNCHANGED <<pc, name, value, delivers, ran>>
  PROVE  DInv'
<1>1. /\ delivers[d][1] \in Names
      /\ delivers[d][2] \in Values
      /\ ledger \in [Names -> Seq(Records)]
  BY DEF DInv, Shapes
<1>2. delivers[d][2] \in Records /\ delivers[d][2] # "intent"
  BY <1>1, DurabilityAssumption DEF Records
<1>3. /\ ledger' \in [Names -> Seq(Records)]
      /\ \A m \in Names : \A x :
           Has(m, x)' <=> Has(m, x) \/ (m = delivers[d][1] /\ x = delivers[d][2])
  BY <1>1, <1>2, AppendHas
<1>4. \A m \in Names : Has(m, "intent")' <=> Has(m, "intent")
  BY <1>2, <1>3
<1>5. Shapes'
  BY <1>3 DEF DInv, Shapes
<1>6. Alone'
  BY DEF DInv, Alone, Works
<1>7. Intended'
  BY <1>4 DEF DInv, Intended
<1>8. NotYet'
  <2> SUFFICES ASSUME NEW c \in Calls, pc[c] = "intent"
               PROVE  ~Has(name[c], "intent")'
    BY DEF NotYet
  <2>1. name[c] \in Names /\ ~Has(name[c], "intent")
    BY DEF DInv, Shapes, NotYet
  <2> QED
    BY <1>4, <2>1 DEF Has
<1> QED
  BY <1>5, <1>6, <1>7, <1>8 DEF DInv

\* Every step preserves the invariant.
LEMMA NextDInv == DInv /\ [DurabilityNext]_durabilityVars => DInv'
<1> SUFFICES ASSUME DInv, [DurabilityNext]_durabilityVars PROVE DInv'
  OBVIOUS
<1> USE DEF deliverVars, callVars, historyVars
<1>1. CASE UNCHANGED durabilityVars
  BY <1>1, CallsUntouched DEF durabilityVars, DInv, Shapes
<1>2. ASSUME NEW c \in Calls, Abort(c) PROVE DInv'
  BY <1>2, Ends DEF Abort, Throws, Unrecorded, Works
<1>3. ASSUME NEW c \in Calls, GivesUp(c) PROVE DInv'
  <2>1. /\ pc' = [pc EXCEPT ![c] = "idle"]
        /\ UNCHANGED <<name, value, ledger, delivers, ran>>
    BY <1>3 DEF GivesUp, GoesTo, Goes, Unrecorded
  <2>2. Shapes'
    BY <2>1 DEF DInv, Shapes, PCs
  <2>3. \A d \in Calls : Works(d)' => Works(d)
    BY <2>1 DEF DInv, Shapes, Works
  <2>4. Alone'
    BY <2>1, <2>3 DEF DInv, Alone
  <2>5. Intended' /\ NotYet'
    BY <2>1 DEF DInv, Shapes, Intended, NotYet, Has
  <2> QED
    BY <2>2, <2>4, <2>5 DEF DInv
<1>4. ASSUME NEW d \in Deliverers, NEW n \in Names, NEW v \in Values, Deliver(d, n, v)
      PROVE  DInv'
  BY <1>4, CallsUntouched DEF Deliver, DInv, Shapes
<1>5. ASSUME NEW d \in Deliverers, DeliverReads(d) PROVE DInv'
  BY <1>5, CallsUntouched DEF DeliverReads, DInv, Shapes
<1>6. ASSUME NEW d \in Deliverers, DeliverAppends(d) PROVE DInv'
  BY <1>6, DeliveryDInv DEF DeliverAppends
<1>7. ASSUME NEW d \in Deliverers, DeliverFails(d) PROVE DInv'
  BY <1>7, DeliveryDInv, CallsUntouched DEF DeliverFails, DInv, Shapes
<1>8. ASSUME NEW n \in Names, Happens(n) \/ DeadlinePasses(n) \/ Hears(n) PROVE DInv'
  BY <1>8, CallsUntouched DEF Happens, DeadlinePasses, Hears, DInv, Shapes
<1>9. CASE Crash
  <2>1. /\ pc' = [c \in Calls |-> "idle"]
        /\ value' = [c \in Calls |-> "none"]
        /\ UNCHANGED <<ledger, name, delivers, ran>>
    BY <1>9 DEF Crash
  <2>2. Shapes'
    BY <2>1 DEF DInv, Shapes, PCs
  <2>3. Alone' /\ NotYet'
    BY <2>1 DEF Alone, NotYet, Works
  <2>4. Intended'
    BY <2>1 DEF DInv, Intended, Has
  <2> QED
    BY <2>2, <2>3, <2>4 DEF DInv
<1> QED
  BY <1>1, <1>2, <1>3, <1>4, <1>5, <1>6, <1>7, <1>8, <1>9,
     ExecuteDInv, CallDInv, StoreThrowsDInv DEF DurabilityNext

-------------------------------------------------------------------------------
\* The inductive invariant: a call that records or reads has its name to itself,
\* and an effect that ran has its intent in the ledger (effect.ts).
THEOREM DurabilityInvariant == DurabilitySpec => []DInv
BY InitDInv, NextDInv, PTL DEF DurabilitySpec

\* A call runs the effect only as it records the intent.
LEMMA OnlyIntentRuns ==
  ASSUME Shapes, DurabilityNext, NEW c \in Calls, pc[c] # "run", pc'[c] = "run"
  PROVE  pc[c] = "intent"
<1> USE DEF callVars
<1>1. ASSUME NEW d \in Calls, Over(d) PROVE FALSE
  <2>1. pc'[c] \in {pc[c], "idle"}
    BY <1>1 DEF Over
  <2> QED
    BY <2>1
<1>2. ASSUME NEW d \in Calls, NEW there \in PCs \ {"run"}, Goes(d, there) PROVE FALSE
  BY <1>2 DEF Goes, Shapes
<1>3. ASSUME pc' = pc PROVE FALSE
  BY <1>3
<1>4. ASSUME NEW d \in Calls, Execute(d) PROVE pc[c] = "intent"
  <2>1. \/ Over(d)
        \/ \E there \in PCs \ {"run"} : Goes(d, there)
        \/ Intent(d)
    <3>1. CASE Read(d)
      BY <3>1 DEF Read, Returns, GoesTo, PCs
    <3>2. CASE Body(d) \/ Run(d) \/ Reconcile(d) \/ Settle(d)
      BY <3>2 DEF Body, Run, Reconcile, Settle, Throws, Returns, GoesTo, PCs
    <3>3. CASE Park(d) \/ Rereads(d) \/ Awakes(d) \/ Record(d)
      BY <3>3 DEF Park, Rereads, Awakes, Record, Returns, GoesTo, PCs
    <3> QED
      BY <1>4, <3>1, <3>2, <3>3 DEF Execute
  <2>2. CASE Intent(d)
    BY <2>2 DEF Intent, GoesTo, Goes, Shapes
  <2> QED
    BY <1>1, <1>2, <2>1, <2>2
<1>5. ASSUME NEW d \in Calls, Abort(d) \/ GivesUp(d) \/ StoreThrows(d) PROVE FALSE
  <2>1. Over(d) \/ Goes(d, "idle")
    BY <1>5 DEF Abort, GivesUp, StoreThrows, Throws, GoesTo
  <2> QED
    BY <1>1, <1>2, <2>1 DEF PCs
<1>6. ASSUME NEW d \in Calls, NEW n \in Names, Call(d, n) PROVE FALSE
  BY <1>6 DEF Call, Shapes
<1>7. ASSUME NEW d \in Deliverers, NEW n \in Names, NEW v \in Values, Deliver(d, n, v)
      PROVE  FALSE
  BY <1>7, <1>3 DEF Deliver
<1>8. ASSUME NEW d \in Deliverers, DeliverReads(d) \/ DeliverAppends(d) \/ DeliverFails(d)
      PROVE  FALSE
  BY <1>8, <1>3 DEF DeliverReads, DeliverAppends, DeliverFails
<1>9. ASSUME NEW n \in Names, Happens(n) \/ DeadlinePasses(n) \/ Hears(n) PROVE FALSE
  BY <1>9, <1>3 DEF Happens, DeadlinePasses, Hears
<1>10. ASSUME Crash PROVE FALSE
  BY <1>10 DEF Crash
<1> QED
  BY <1>4, <1>5, <1>6, <1>7, <1>8, <1>9, <1>10 DEF DurabilityNext

\* An effect never runs twice: not after it threw, after a crash, after a lost
\* reply, for any number of names, calls and deliveries (effect.ts).
THEOREM RunsOnce == DurabilitySpec => RunOnce
<1> DEFINE A == \A c \in Calls : pc[c] # "run" /\ pc'[c] = "run" => name[c] \notin ran
<1>1. ASSUME DInv, [DurabilityNext]_durabilityVars
      PROVE  [A]_durabilityVars
  <2> SUFFICES ASSUME DurabilityNext, NEW c \in Calls, pc[c] # "run", pc'[c] = "run"
               PROVE  name[c] \notin ran
    BY <1>1
  <2>1. pc[c] = "intent"
    BY <1>1, OnlyIntentRuns DEF DInv
  <2> QED
    BY <1>1, <2>1 DEF DInv, NotYet, Intended
<1> QED
  BY <1>1, DurabilityInvariant, PTL DEF DurabilitySpec, RunOnce


-------------------------------------------------------------------------------
(* Every call returns the same *)

\* Where a call can be: a body runs only while the step has no result, and an effect is
\* run or reconciled only while it has no outcome.
Placed(c) ==
  /\ pc[c] \in {"body", "record"} => Is(c, "step") /\ ~Recorded(name[c])
  /\ pc[c] \in {"intent", "run", "accept", "reconcile", "found", "absent"} =>
       Is(c, "effect") /\ ~Ended(name[c])
  /\ pc[c] = "park" => Is(c, "sleep") \/ Is(c, "wait")
  /\ pc[c] = "sleep" => Is(c, "sleep")

\* A deliver() is for a wait.
Sent == \A d \in Deliverers : sends[d] # "idle" => kind[delivers[d][1]] = "wait"

\* What is delivered has a first delivery.
Firsts ==
  \A n \in Names : Recorded(n) =>
    \E i \in Of(n, Values) : \A j \in Of(n, Values) : i <= j

\* What a replay returns, once something final is recorded.
Answer(n) ==
  CASE kind[n] = "step" -> StepResult(n)
    [] kind[n] = "effect" -> Outcome(n)
    [] kind[n] = "wait" -> Delivery(n)
    [] OTHER -> "awake"

Final(n) ==
  /\ kind[n] \in {"step", "wait"} => Recorded(n)
  /\ kind[n] = "effect" => Ended(n)

\* What was returned is what a replay returns.
Stable == \A n \in Names : \A a \in returned[n] : Final(n) /\ a = Answer(n)

AInv ==
  /\ kind \in [Names -> {"step", "effect", "sleep", "wait"}]
  /\ DOMAIN returned = Names
  /\ \A c \in Calls : Placed(c)
  /\ Sent /\ Firsts /\ Stable

\* What may be recorded next: a step's result once, an outcome once and no intent
\* behind it, and a delivery behind another.
Allowed(n, r) ==
  \/ kind[n] = "step" /\ r \in Values /\ ~Recorded(n)
  \/ kind[n] = "effect" /\ r \in {"intent", "accepted", "uncertain"} /\ ~Ended(n)
  \/ kind[n] = "sleep" /\ r = "park"
  \/ kind[n] = "wait" /\ (r = "park" \/ r \in Values)

\* A record that is appended is the last, and what was recorded stays.
LEMMA AppendOf ==
  ASSUME NEW n \in Names, NEW r \in Records, ledger \in [Names -> Seq(Records)],
         Appends(n, r)
  PROVE  /\ \A m \in Names : \A rs : m # n => Of(m, rs)' = Of(m, rs)
         /\ \A m \in Names \ {n} : ledger'[m] = ledger[m]
         /\ \A i \in DOMAIN ledger[n] : ledger'[n][i] = ledger[n][i]
         /\ ledger'[n][Len(ledger[n]) + 1] = r
         /\ \A rs : r \notin rs => Of(n, rs)' = Of(n, rs)
         /\ \A rs : r \in rs => Of(n, rs)' = Of(n, rs) \cup {Len(ledger[n]) + 1}
         /\ \A i \in DOMAIN ledger[n] : i \in Nat /\ i <= Len(ledger[n])
<1>1. ledger[n] \in Seq(Records)
  OBVIOUS
<1>2. ledger' = [ledger EXCEPT ![n] = Append(ledger[n], r)]
  BY DEF Appends
<1>3. /\ ledger'[n] = Append(ledger[n], r)
      /\ \A m \in Names \ {n} : ledger'[m] = ledger[m]
  BY <1>2
<1>4. /\ DOMAIN ledger'[n] = 1..(Len(ledger[n]) + 1)
      /\ DOMAIN ledger[n] = 1..Len(ledger[n])
      /\ Len(ledger[n]) \in Nat
      /\ \A i \in 1..Len(ledger[n]) : ledger'[n][i] = ledger[n][i]
      /\ ledger'[n][Len(ledger[n]) + 1] = r
  BY <1>1, <1>3
<1>5. \A m \in Names : \A rs : m # n => Of(m, rs)' = Of(m, rs)
  BY <1>3 DEF Of
<1>6. ASSUME NEW rs
      PROVE  /\ r \notin rs => Of(n, rs)' = Of(n, rs)
             /\ r \in rs => Of(n, rs)' = Of(n, rs) \cup {Len(ledger[n]) + 1}
  <2> DEFINE l == Len(ledger[n])
  <2>1. \A i : i \in 1..(l + 1) <=> i \in 1..l \/ i = l + 1
    BY <1>4
  <2>2. l + 1 \notin 1..l
    BY <1>4
  <2> HIDE DEF l
  <2>3. \A i : i \in Of(n, rs)' <=> i \in 1..(l + 1) /\ ledger'[n][i] \in rs
    BY <1>4 DEF Of, l
  <2>4. \A i : i \in Of(n, rs) <=> i \in 1..l /\ ledger[n][i] \in rs
    BY <1>4 DEF Of, l
  <2>5. /\ \A i \in 1..l : ledger'[n][i] = ledger[n][i]
        /\ ledger'[n][l + 1] = r
    BY <1>4 DEF l
  <2> QED
    BY <2>1, <2>2, <2>3, <2>4, <2>5 DEF l
<1> QED
  BY <1>3, <1>4, <1>5, <1>6

\* The only record of its sort is the first and the last.
LEMMA OnlyOne ==
  ASSUME NEW i \in Nat
  PROVE  Max({i}) = i /\ Min({i}) = i
BY DEF Max, Min

\* A later delivery is not the first.
LEMMA FirstStays ==
  ASSUME NEW S \in SUBSET Nat, NEW i \in S, \A j \in S : i <= j
  PROVE  Min(S) = i
<1>1. Min(S) = CHOOSE x \in S : \A y \in S : x <= y
  BY DEF Min
<1>2. Min(S) \in S /\ \A y \in S : Min(S) <= y
  BY <1>1
<1>3. Min(S) <= i /\ i <= Min(S)
  BY <1>2
<1>4. Min(S) \in Nat /\ i \in Nat
  BY <1>2
<1> QED
  BY <1>3, <1>4

\* What is allowed changes no answer that was final, and makes the one it records final.
LEMMA AllowedKeeps ==
  ASSUME Shapes, AInv, NEW n \in Names, NEW r \in Records, Appends(n, r), Allowed(n, r),
         kind' = kind
  PROVE  /\ Firsts'
         /\ \A m \in Names : Final(m) => Final(m)' /\ Answer(m)' = Answer(m)
         /\ kind[n] = "step" \/ (kind[n] = "effect" /\ r # "intent") =>
              Final(n)' /\ Answer(n)' = r
         /\ \A m \in Names \ {n} :
              (Recorded(m)' <=> Recorded(m)) /\ (Ended(m)' <=> Ended(m))
         /\ r = "intent" => (Ended(n)' <=> Ended(n))
<1> DEFINE l == Len(ledger[n])
           Outcomes == {"accepted", "uncertain"}
<1>0. ledger \in [Names -> Seq(Records)] /\ kind \in [Names -> {"step", "effect", "sleep", "wait"}]
  BY DEF Shapes, AInv
<1>1. /\ \A m \in Names : \A rs : m # n => Of(m, rs)' = Of(m, rs)
      /\ \A m \in Names \ {n} : ledger'[m] = ledger[m]
      /\ \A i \in DOMAIN ledger[n] : ledger'[n][i] = ledger[n][i]
      /\ ledger'[n][l + 1] = r
      /\ \A rs : r \notin rs => Of(n, rs)' = Of(n, rs)
      /\ \A rs : r \in rs => Of(n, rs)' = Of(n, rs) \cup {l + 1}
      /\ \A i \in DOMAIN ledger[n] : i \in Nat /\ i <= l
  BY <1>0, AppendOf
<1>2. l \in Nat
  BY <1>0
<1>3. \A rs : Of(n, rs) \subseteq DOMAIN ledger[n]
  BY DEF Of
<1>4. "intent" \notin Outcomes /\ "park" \notin Outcomes
  OBVIOUS
<1>5. "intent" \notin Values /\ "park" \notin Values /\ Values \cap Outcomes = {}
  BY DurabilityAssumption
<1> HIDE DEF l
<1>6. Firsts'
  <2> SUFFICES ASSUME NEW m \in Names, Recorded(m)'
               PROVE  \E i \in Of(m, Values)' : \A j \in Of(m, Values)' : i <= j
    BY DEF Firsts
  <2>1. CASE Of(m, Values)' = Of(m, Values)
    BY <2>1 DEF AInv, Firsts, Recorded
  <2>2. CASE m = n /\ r \in Values
    <3>1. Of(n, Values)' = Of(n, Values) \cup {l + 1}
      BY <1>1, <2>2
    <3>2. CASE Recorded(n)
      <4>1. PICK i \in Of(n, Values) : \A j \in Of(n, Values) : i <= j
        BY <3>2 DEF AInv, Firsts
      <4>2. i <= l + 1
        BY <1>1, <1>2, <1>3
      <4> QED
        BY <2>2, <3>1, <4>1, <4>2
    <3>3. CASE ~Recorded(n)
      BY <1>2, <2>2, <3>1, <3>3 DEF Recorded
    <3> QED
      BY <3>2, <3>3
  <2> QED
    BY <1>1, <2>1, <2>2
<1>7. \A m \in Names \ {n} :
        /\ Recorded(m)' <=> Recorded(m)
        /\ Ended(m)' <=> Ended(m)
  BY <1>1 DEF Recorded, Ended
<1>8. r = "intent" => (Ended(n)' <=> Ended(n))
  BY <1>1, <1>4 DEF Ended
<1>9. kind[n] = "step" \/ (kind[n] = "effect" /\ r # "intent") => Final(n)' /\ Answer(n)' = r
  <2>1. CASE kind[n] = "step"
    <3>1. r \in Values /\ Of(n, Values)' = {l + 1}
      BY <1>1, <2>1 DEF Allowed, Recorded
    <3>2. StepResult(n)' = r
      BY <1>1, <1>2, <3>1, OnlyOne DEF StepResult
    <3> QED
      BY <2>1, <3>1, <3>2 DEF Final, Answer, Recorded
  <2>2. CASE kind[n] = "effect" /\ r # "intent"
    <3>1. r \in Outcomes /\ Of(n, Outcomes)' = {l + 1}
      BY <1>1, <2>2 DEF Allowed, Ended
    <3>2. Outcome(n)' = r
      <4>1. l + 1 \in Nat
        BY <1>2
      <4>2. Min(Of(n, Outcomes)') = l + 1
        BY <3>1, <4>1, OnlyOne
      <4>3. Outcome(n)' = ledger'[n][Min(Of(n, Outcomes)')]
        BY DEF Outcome
      <4> QED
        BY <1>1, <4>2, <4>3
    <3>3. Final(n)'
      BY <2>2, <3>1 DEF Final, Ended
    <3>4. Answer(n)' = Outcome(n)'
      BY <2>2 DEF Answer
    <3> QED
      BY <3>2, <3>3, <3>4
  <2> QED
    BY <2>1, <2>2
<1>10. ASSUME NEW m \in Names, Final(m)
       PROVE  Final(m)' /\ Answer(m)' = Answer(m)
  <2>1. CASE m # n
    <3>1. \A rs : Of(m, rs)' = Of(m, rs)
      BY <1>1, <2>1
    <3>2. ledger'[m] = ledger[m]
      BY <1>1, <2>1
    <3> QED
      BY <1>10, <3>1, <3>2 DEF Final, Answer, Recorded, Ended, StepResult, Outcome, Delivery
  <2>2. CASE m = n /\ kind[n] = "effect"
    BY <1>10, <2>2 DEF Final, Allowed
  <2>3. CASE m = n /\ kind[n] = "wait"
    <3>1. PICK i \in Of(n, Values) : \A j \in Of(n, Values) : i <= j
      BY <1>10, <2>3 DEF AInv, Firsts, Final
    <3>2. Of(n, Values) \subseteq Nat /\ i <= l + 1
      BY <1>1, <1>2, <1>3
    <3>3. Min(Of(n, Values)) = i
      BY <3>1, <3>2, FirstStays
    <3>4. Of(n, Values)' \in {Of(n, Values), Of(n, Values) \cup {l + 1}}
      BY <1>1
    <3>5. Min(Of(n, Values)') = i
      <4>1. Of(n, Values)' \in SUBSET Nat /\ i \in Of(n, Values)'
        BY <1>2, <3>1, <3>2, <3>4
      <4>2. \A j \in Of(n, Values)' : i <= j
        BY <3>1, <3>2, <3>4
      <4> QED
        BY <4>1, <4>2, FirstStays
    <3>6. Delivery(n)' = Delivery(n)
      BY <1>1, <1>3, <3>1, <3>3, <3>5 DEF Delivery
    <3>7. Recorded(n)'
      BY <3>1, <3>4 DEF Recorded
    <3> QED
      BY <2>3, <3>6, <3>7 DEF Final, Answer
  <2>4. CASE m = n /\ kind[n] = "sleep"
    BY <2>4 DEF Final, Answer
  <2>5. CASE m = n /\ kind[n] = "step"
    BY <1>10, <2>5 DEF Final, Allowed
  <2> QED
    BY <1>0, <2>1, <2>2, <2>3, <2>4, <2>5
<1> QED
  BY <1>6, <1>7, <1>8, <1>9, <1>10


\* With nothing recorded, nothing changes what is final.
LEMMA AnswersKept ==
  ASSUME AInv, UNCHANGED <<kind, ledger>>
  PROVE  /\ Firsts'
         /\ \A m \in Names : (Recorded(m)' <=> Recorded(m)) /\ (Ended(m)' <=> Ended(m))
         /\ \A m \in Names : (Final(m)' <=> Final(m)) /\ Answer(m)' = Answer(m)
         /\ returned' = returned => Stable'
<1>1. \A m \in Names : \A rs : Of(m, rs)' = Of(m, rs)
  BY DEF Of
<1>2. \A m \in Names : (Recorded(m)' <=> Recorded(m)) /\ (Ended(m)' <=> Ended(m))
  BY <1>1 DEF Recorded, Ended
<1>3. Firsts'
  BY <1>1, <1>2 DEF AInv, Firsts
<1>4. \A m \in Names : (Final(m)' <=> Final(m))
  BY <1>2 DEF Final
<1>5. \A m \in Names : Answer(m)' = Answer(m)
  BY <1>1 DEF Answer, StepResult, Outcome, Delivery
<1>6. returned' = returned => Stable'
  BY <1>4, <1>5 DEF AInv, Stable
<1> QED
  BY <1>2, <1>3, <1>4, <1>5, <1>6

\* A step of the call that has the name to itself: what it records is allowed, and what
\* it returns is what a replay returns.
LEMMA CallAInv ==
  ASSUME Shapes, Alone, AInv, NEW c \in Calls, Works(c), Moves(c), Placed(c)',
         UNCHANGED <<kind, sends, delivers>>,
         \/ ledger' = ledger
         \/ \E r \in Records : Appends(name[c], r) /\ Allowed(name[c], r),
         \/ returned' = returned
         \/ \E a :
              /\ returned' = [returned EXCEPT ![name[c]] = @ \cup {a}]
              /\ Final(name[c])' /\ a = Answer(name[c])'
  PROVE  AInv'
<1>0. name' = name /\ name[c] \in Names
  BY DEF Shapes, Moves
<1> PICK n \in Names : n = name[c]
  BY <1>0
<1>1. /\ Firsts'
      /\ \A m \in Names : Final(m) => Final(m)' /\ Answer(m)' = Answer(m)
      /\ \A m \in Names \ {n} :
           (Recorded(m)' <=> Recorded(m)) /\ (Ended(m)' <=> Ended(m))
  <2>1. CASE ledger' = ledger
    BY <2>1, AnswersKept
  <2>2. CASE \E r \in Records : Appends(n, r) /\ Allowed(n, r)
    BY <1>0, <2>2, AllowedKeeps
  <2> QED
    BY <2>1, <2>2
<1>2. \A d \in Calls : Placed(d)'
  <2> SUFFICES ASSUME NEW d \in Calls \ {c} PROVE Placed(d)'
    OBVIOUS
  <2>1. pc'[d] \in {pc[d], "idle"} /\ name[d] \in Names
    BY DEF Moves, Shapes
  <2>2. CASE Works(d) /\ pc'[d] = pc[d]
    <3>1. name[d] # n
      BY <2>2 DEF Alone
    <3>2. (Recorded(name[d])' <=> Recorded(name[d])) /\ (Ended(name[d])' <=> Ended(name[d]))
      BY <1>0, <1>1, <2>1, <3>1
    <3>3. Placed(d)
      BY DEF AInv
    <3> QED
      BY <1>0, <2>2, <3>2, <3>3 DEF Placed, Is
  <2>3. CASE ~Works(d) \/ pc'[d] = "idle"
    BY <2>1, <2>3 DEF Placed, Works
  <2> QED
    BY <2>1, <2>2, <2>3
<1>3. Sent'
  BY DEF AInv, Sent
<1>4. Stable'
  <2>1. \A m \in Names : \A a \in returned[m] : Final(m)' /\ a = Answer(m)'
    BY <1>1 DEF AInv, Stable
  <2>2. ASSUME NEW m \in Names, NEW a \in returned'[m] PROVE Final(m)' /\ a = Answer(m)'
    <3>1. CASE returned' = returned
      BY <2>1, <3>1
    <3>2. CASE \E b :
                 /\ returned' = [returned EXCEPT ![n] = @ \cup {b}]
                 /\ Final(n)' /\ b = Answer(n)'
      <4>1. PICK b : /\ returned' = [returned EXCEPT ![n] = @ \cup {b}]
                                 /\ Final(n)' /\ b = Answer(n)'
        BY <3>2
      <4>2. a \in returned[m] \/ (m = n /\ a = b)
        BY <4>1 DEF AInv
      <4> QED
        BY <2>1, <4>1, <4>2
    <3> QED
      BY <1>0, <3>1, <3>2
  <2> QED
    BY <2>2 DEF Stable
<1>5. DOMAIN returned' = Names
  BY DEF AInv
<1> QED
  BY <1>1, <1>2, <1>3, <1>4, <1>5 DEF AInv

\* A call that is over, with nothing returned.
LEMMA ThrowsAInv ==
  ASSUME Shapes, Alone, AInv, NEW c \in Calls, Works(c), Throws(c),
         UNCHANGED <<kind, sends, delivers>>,
         \/ ledger' = ledger
         \/ \E r \in Records : Appends(name[c], r) /\ Allowed(name[c], r)
  PROVE  AInv'
<1>1. Moves(c) /\ pc'[c] = "idle" /\ returned' = returned
  BY OverMoves DEF Throws
<1>2. Placed(c)'
  BY <1>1 DEF Placed
<1> QED
  BY <1>1, <1>2, CallAInv

\* A call that goes on, with nothing recorded.
LEMMA GoesAInv ==
  ASSUME Shapes, Alone, AInv, NEW c \in Calls, Works(c), Moves(c), Placed(c)',
         UNCHANGED <<kind, sends, delivers, ledger, returned>>
  PROVE  AInv'
BY CallAInv

\* A call that returns what is recorded.
LEMMA ReturnsAInv ==
  ASSUME Shapes, Alone, AInv, NEW c \in Calls, Works(c), NEW a, Returns(c, a),
         UNCHANGED <<kind, sends, delivers, ledger>>,
         Final(name[c]), a = Answer(name[c])
  PROVE  AInv'
<1>1. Moves(c) /\ pc'[c] = "idle"
  BY OverMoves DEF Returns
<1>2. Placed(c)'
  BY <1>1 DEF Placed
<1>3. returned' = [returned EXCEPT ![name[c]] = @ \cup {a}] /\ name' = name
  BY <1>1 DEF Returns, Moves
<1>4. Final(name[c])' /\ a = Answer(name[c])'
  BY <1>3 DEF Final, Answer, Recorded, Ended, StepResult, Outcome, Delivery, Of
<1>5. Final(name[c])' <=> Final(name[c])
  BY <1>3 DEF Final, Recorded, Ended, Of
<1> QED
  BY <1>1, <1>2, <1>3, <1>4, <1>5, CallAInv

\* A call that records its answer and returns it.
LEMMA SettlesAInv ==
  ASSUME Shapes, Alone, AInv, NEW c \in Calls, Works(c), NEW a \in Records, Returns(c, a),
         Appends(name[c], a), Allowed(name[c], a),
         Is(c, "step") \/ (Is(c, "effect") /\ a # "intent"),
         UNCHANGED <<kind, sends, delivers>>
  PROVE  AInv'
<1>1. Moves(c) /\ pc'[c] = "idle" /\ name' = name
  BY OverMoves DEF Returns, Moves
<1>2. Placed(c)'
  BY <1>1 DEF Placed
<1>3. name[c] \in Names
  BY DEF Shapes
<1>4. Final(name[c])' /\ Answer(name[c])' = a
  BY <1>1, <1>3, AllowedKeeps DEF Is
<1> QED
  BY <1>1, <1>2, <1>4, CallAInv DEF Returns


\* The read of the ledger, and what it leads to.
LEMMA ReadAInv ==
  ASSUME Shapes, Alone, AInv, NEW c \in Calls, Read(c)
  PROVE  AInv'
<1> USE DEF deliverVars
<1> DEFINE n == name[c]
<1>1. Works(c) /\ UNCHANGED <<kind, sends, delivers, ledger>>
  BY DEF Read, Works
<1>2. ASSUME NEW there \in {"body", "reconcile", "intent", "sleep", "wait", "park"},
             GoesTo(c, there), there = "body" => Is(c, "step") /\ ~Recorded(n),
             there \in {"reconcile", "intent"} => Is(c, "effect") /\ ~Ended(n),
             there = "park" => Is(c, "sleep") \/ Is(c, "wait"),
             there = "sleep" => Is(c, "sleep")
      PROVE  AInv'
  <2>1. Moves(c) /\ pc'[c] = there /\ name' = name /\ returned' = returned
    BY <1>2, GoesMoves DEF GoesTo, Goes, PCs, Shapes
  <2>2. (Recorded(n)' <=> Recorded(n)) /\ (Ended(n)' <=> Ended(n))
    BY <1>1, <2>1 DEF Recorded, Ended, Of
  <2>3. Placed(c)'
    BY <1>1, <1>2, <2>1, <2>2 DEF Placed, Is
  <2> QED
    BY <1>1, <2>1, <2>3, GoesAInv
<1>3. CASE Is(c, "step") /\ Recorded(n) /\ Returns(c, StepResult(n))
  <2>1. Final(n) /\ Answer(n) = StepResult(n)
    BY <1>3 DEF Is, Final, Answer
  <2> QED
    BY <1>1, <1>3, <2>1, ReturnsAInv
<1>4. CASE Is(c, "effect") /\ Ended(n) /\ Returns(c, Outcome(n))
  <2>1. Final(n) /\ Answer(n) = Outcome(n)
    BY <1>4 DEF Is, Final, Answer
  <2> QED
    BY <1>1, <1>4, <2>1, ReturnsAInv
<1>5. CASE Is(c, "wait") /\ Recorded(n) /\ Returns(c, Delivery(n))
  <2>1. Final(n) /\ Answer(n) = Delivery(n)
    BY <1>5 DEF Is, Final, Answer
  <2> QED
    BY <1>1, <1>5, <2>1, ReturnsAInv
<1>6. CASE Is(c, "step") /\ ~Recorded(n) /\ GoesTo(c, "body")
  BY <1>2, <1>6
<1>7. CASE Is(c, "effect") /\ ~Ended(n) /\ (GoesTo(c, "reconcile") \/ GoesTo(c, "intent"))
  BY <1>2, <1>7
<1>8. CASE Is(c, "sleep") /\ (GoesTo(c, "sleep") \/ GoesTo(c, "park"))
  BY <1>2, <1>8
<1>9. CASE Is(c, "wait") /\ (GoesTo(c, "wait") \/ GoesTo(c, "park"))
  BY <1>2, <1>9
<1> QED
  BY <1>3, <1>4, <1>5, <1>6, <1>7, <1>8, <1>9 DEF Read

\* The steps behind the read.
LEMMA ExecuteAInv ==
  ASSUME Shapes, Alone, AInv, NEW c \in Calls, Execute(c)
  PROVE  AInv'
<1> USE DEF deliverVars, Unrecorded
<1> DEFINE n == name[c]
<1>0. Placed(c)
  BY DEF AInv
<1>1. CASE Body(c)
  <2>1. Works(c) /\ UNCHANGED <<kind, sends, delivers, ledger>>
    BY <1>1 DEF Body, Works
  <2>2. CASE Throws(c)
    BY <2>1, <2>2, ThrowsAInv
  <2>3. ASSUME NEW v \in Values, value' = [value EXCEPT ![c] = v], Goes(c, "record")
        PROVE  AInv'
    <3>1. /\ value' \in [Calls -> Values \cup {"none"}]
          /\ \A d \in Calls \ {c} : value'[d] = value[d]
          /\ value'[c] \in Values
      BY <2>3 DEF Shapes
    <3>2. Moves(c) /\ pc'[c] = "record"
      BY <2>3, <3>1, GoesMoves DEF PCs
    <3>3. name' = name /\ returned' = returned
      BY <2>3 DEF Goes
    <3>4. Placed(c)'
      BY <1>0, <1>1, <2>1, <3>2, <3>3 DEF Body, Placed, Is, Recorded, Of
    <3> QED
      BY <2>1, <3>2, <3>3, <3>4, GoesAInv
  <2> QED
    BY <1>1, <2>2, <2>3 DEF Body
<1>2. CASE Record(c)
  <2>1. value[c] \in Values /\ Works(c) /\ Is(c, "step") /\ ~Recorded(n)
    BY <1>0, <1>2 DEF Record, Shapes, Works, Placed
  <2>2. Allowed(n, value[c]) /\ value[c] \in Records
    BY <2>1 DEF Allowed, Is, Records
  <2>3. UNCHANGED <<kind, sends, delivers>> /\ Appends(n, value[c]) /\ Returns(c, value[c])
    BY <1>2 DEF Record
  <2> QED
    BY <2>1, <2>2, <2>3, SettlesAInv
<1>3. CASE Intent(c)
  <2>1. Works(c) /\ "intent" \in Records /\ Is(c, "effect") /\ ~Ended(n)
    BY <1>0, <1>3 DEF Intent, Works, Records, Placed
  <2>2. Moves(c) /\ pc'[c] = "run" /\ name' = name /\ returned' = returned
    BY <1>3, GoesMoves DEF Intent, GoesTo, Goes, PCs, Shapes
  <2>3. Allowed(n, "intent") /\ Appends(n, "intent") /\ UNCHANGED <<kind, sends, delivers>>
    BY <1>3, <2>1 DEF Allowed, Is, Intent
  <2>4. ~Ended(n)'
    BY <2>1, <2>2, <2>3, AllowedKeeps DEF Shapes
  <2>5. Placed(c)'
    BY <2>1, <2>2, <2>3, <2>4 DEF Placed, Is
  <2> QED
    BY <2>1, <2>2, <2>3, <2>5, CallAInv
<1>4. CASE Run(c) \/ Reconcile(c)
  <2>1. /\ Works(c) /\ UNCHANGED <<kind, sends, delivers, ledger>>
        /\ Is(c, "effect") /\ ~Ended(n)
    BY <1>0, <1>4 DEF Run, Reconcile, Works, Placed
  <2>2. CASE Throws(c)
    BY <2>1, <2>2, ThrowsAInv
  <2>3. ASSUME NEW there \in {"accept", "found", "absent"}, GoesTo(c, there)
        PROVE  AInv'
    <3>1. Moves(c) /\ pc'[c] = there /\ name' = name /\ returned' = returned
      BY <2>3, GoesMoves DEF GoesTo, Goes, PCs, Shapes
    <3>2. Placed(c)'
      BY <2>1, <2>3, <3>1 DEF Placed, Is, Ended, Of
    <3> QED
      BY <2>1, <3>1, <3>2, GoesAInv
  <2> QED
    BY <1>4, <2>2, <2>3 DEF Run, Reconcile
<1>5. CASE Settle(c)
  <2>1. Works(c) /\ Is(c, "effect") /\ ~Ended(n)
    BY <1>0, <1>5 DEF Settle, Works, Placed
  <2>2. PICK outcome \in {"accepted", "uncertain"} :
          Appends(n, outcome) /\ Returns(c, outcome)
    BY <1>5 DEF Settle
  <2>3. outcome \in Records /\ Allowed(n, outcome) /\ outcome # "intent"
    BY <2>1 DEF Records, Allowed, Is
  <2>4. UNCHANGED <<kind, sends, delivers>>
    BY <1>5 DEF Settle
  <2> QED
    BY <2>1, <2>2, <2>3, <2>4, SettlesAInv
<1>6. CASE Park(c)
  <2>1. Works(c) /\ "park" \in Records /\ (Is(c, "sleep") \/ Is(c, "wait"))
    BY <1>0, <1>6 DEF Park, Works, Records, Placed
  <2>2. PICK there \in {"sleep", "wait"} :
          GoesTo(c, there) /\ (there = "sleep" => Is(c, "sleep"))
    BY <1>6 DEF Park
  <2>3. Moves(c) /\ pc'[c] = there /\ name' = name /\ returned' = returned
    BY <2>2, GoesMoves DEF GoesTo, Goes, PCs, Shapes
  <2>4. Appends(n, "park") /\ Allowed(n, "park") /\ UNCHANGED <<kind, sends, delivers>>
    BY <1>6, <2>1 DEF Park, Allowed, Is
  <2>5. Placed(c)'
    BY <2>2, <2>3, <2>4 DEF Placed, Is
  <2> QED
    BY <2>1, <2>3, <2>4, <2>5, CallAInv
<1>7. CASE Awakes(c)
  <2>1. Works(c) /\ Is(c, "sleep") /\ Returns(c, "awake")
    BY <1>0, <1>7 DEF Awakes, Works, Placed
  <2>2. Final(n) /\ Answer(n) = "awake"
    BY <2>1 DEF Is, Final, Answer
  <2>3. UNCHANGED <<kind, sends, delivers, ledger>>
    BY <1>7 DEF Awakes
  <2> QED
    BY <2>1, <2>2, <2>3, ReturnsAInv
<1>8. CASE Rereads(c)
  <2>1. Works(c) /\ UNCHANGED <<kind, sends, delivers, ledger, returned>>
    BY <1>8 DEF Rereads, Works, Goes
  <2>2. Moves(c) /\ pc'[c] = "read"
    BY <1>8, GoesMoves DEF Rereads, PCs, Shapes
  <2>3. Placed(c)'
    BY <2>2 DEF Placed
  <2> QED
    BY <2>1, <2>2, <2>3, GoesAInv
<1> QED
  BY <1>1, <1>2, <1>3, <1>4, <1>5, <1>6, <1>7, <1>8, ReadAInv DEF Execute

\* The store throws, with or without its effect.
LEMMA StoreThrowsAInv ==
  ASSUME Shapes, Alone, AInv, NEW c \in Calls, StoreThrows(c)
  PROVE  AInv'
<1> DEFINE n == name[c]
<1>1. Throws(c) /\ Works(c) /\ UNCHANGED <<kind, sends, delivers>>
  BY DEF StoreThrows, Works, deliverVars
<1>2. Placed(c)
  BY DEF AInv
<1>3. CASE pc[c] = "record" /\ Appends(n, value[c])
  <2>1. value[c] \in Records /\ Allowed(n, value[c])
    BY <1>2, <1>3 DEF Shapes, Records, Allowed, Placed, Is
  <2> QED
    BY <1>1, <1>3, <2>1, ThrowsAInv
<1>4. CASE pc[c] = "park" /\ Appends(n, "park")
  <2>1. "park" \in Records /\ Allowed(n, "park")
    BY <1>2, <1>4 DEF Records, Allowed, Placed, Is
  <2> QED
    BY <1>1, <1>4, <2>1, ThrowsAInv
<1>5. ASSUME NEW r \in {"intent", "accepted", "uncertain"}, Appends(n, r),
             pc[c] \in {"intent", "accept", "found", "absent"}
      PROVE  AInv'
  <2>1. r \in Records /\ Allowed(n, r)
    BY <1>2, <1>5 DEF Records, Allowed, Placed, Is
  <2> QED
    BY <1>1, <1>5, <2>1, ThrowsAInv
<1>6. \/ ledger' = ledger
      \/ pc[c] = "record" /\ Appends(n, value[c])
      \/ pc[c] = "park" /\ Appends(n, "park")
      \/ /\ pc[c] \in {"intent", "accept", "found", "absent"}
         /\ \E r \in {"intent", "accepted", "uncertain"} : Appends(n, r)
  BY DEF StoreThrows
<1> QED
  BY <1>1, <1>3, <1>4, <1>5, <1>6, ThrowsAInv

\* A step that leaves the calls alone, and may deliver.
LEMMA OthersAInv ==
  ASSUME Shapes, AInv, UNCHANGED <<kind, pc, name, returned>>, Sent',
         \/ ledger' = ledger
         \/ \E n \in Names, v \in Values : kind[n] = "wait" /\ Appends(n, v)
  PROVE  AInv'
<1>1. CASE ledger' = ledger
  <2>1. \A c \in Calls : Placed(c)'
    BY <1>1, AnswersKept DEF AInv, Placed, Is, Shapes
  <2> QED
    BY <1>1, <2>1, AnswersKept DEF AInv
<1>2. ASSUME NEW n \in Names, NEW v \in Values, kind[n] = "wait", Appends(n, v)
      PROVE  AInv'
  <2>1. v \in Records /\ Allowed(n, v)
    BY <1>2 DEF Records, Allowed
  <2>2. /\ Firsts'
        /\ \A m \in Names : Final(m) => Final(m)' /\ Answer(m)' = Answer(m)
        /\ \A m \in Names \ {n} :
             (Recorded(m)' <=> Recorded(m)) /\ (Ended(m)' <=> Ended(m))
    BY <1>2, <2>1, AllowedKeeps
  <2>3. \A c \in Calls : Placed(c)'
    BY <1>2, <2>2 DEF AInv, Placed, Is, Shapes
  <2>4. Stable'
    BY <2>2 DEF AInv, Stable
  <2> QED
    BY <2>2, <2>3, <2>4 DEF AInv
<1> QED
  BY <1>1, <1>2

\* Every step.
LEMMA NextAInv ==
  ASSUME DInv, AInv, [DurabilityNext]_durabilityVars
  PROVE  AInv'
<1> USE DEF deliverVars, callVars, historyVars
<1>0. Shapes /\ Alone
  BY DEF DInv
<1>1. CASE UNCHANGED durabilityVars
  BY <1>0, <1>1, OthersAInv DEF durabilityVars, AInv, Sent
<1>2. ASSUME NEW c \in Calls, Abort(c) PROVE AInv'
  BY <1>0, <1>2, ThrowsAInv DEF Abort, Unrecorded, Works
<1>3. ASSUME NEW c \in Calls, GivesUp(c) PROVE AInv'
  <2>1. /\ pc' = [pc EXCEPT ![c] = "idle"]
        /\ UNCHANGED <<kind, name, ledger, sends, delivers, returned>>
    BY <1>3 DEF GivesUp, GoesTo, Goes, Unrecorded
  <2>2. \A d \in Calls : Placed(d)'
    BY <1>0, <2>1 DEF AInv, Placed, Is, Recorded, Ended, Of, Shapes
  <2> QED
    BY <2>1, <2>2, AnswersKept DEF AInv, Sent
<1>4. ASSUME NEW c \in Calls, NEW n \in Names, Call(c, n) PROVE AInv'
  <2>1. /\ pc' = [pc EXCEPT ![c] = IF InFlight(n) = {} THEN "read" ELSE "joined"]
        /\ name' = [name EXCEPT ![c] = n]
        /\ UNCHANGED <<kind, ledger, sends, delivers, returned>>
    BY <1>4 DEF Call
  <2>2. \A d \in Calls : Placed(d)'
    BY <1>0, <2>1 DEF AInv, Placed, Is, Recorded, Ended, Of, Shapes
  <2> QED
    BY <2>1, <2>2, AnswersKept DEF AInv, Sent
<1>5. ASSUME NEW d \in Deliverers, NEW n \in Names, NEW v \in Values, Deliver(d, n, v)
      PROVE  AInv'
  <2>1. Sent'
    <3>1. /\ delivers' = [delivers EXCEPT ![d] = <<n, v>>]
          /\ sends' = [sends EXCEPT ![d] = "read"]
          /\ kind[n] = "wait" /\ kind' = kind
      BY <1>5 DEF Deliver
    <3>2. \A e \in Deliverers : e # d => delivers'[e] = delivers[e] /\ sends'[e] \in {sends[e], "read"}
      BY <1>0, <3>1 DEF Shapes
    <3>3. delivers'[d][1] = n
      BY <1>0, <3>1 DEF Shapes
    <3>4. \A e \in Deliverers : e # d /\ sends'[e] # "idle" => sends[e] # "idle"
      BY <3>1
    <3> QED
      BY <3>1, <3>2, <3>3, <3>4 DEF AInv, Sent
  <2> QED
    BY <1>0, <1>5, <2>1, OthersAInv DEF Deliver
<1>6. ASSUME NEW d \in Deliverers, DeliverReads(d) \/ DeliverAppends(d) \/ DeliverFails(d)
      PROVE  AInv'
  <2>1. /\ UNCHANGED <<kind, pc, name, returned, delivers>>
        /\ sends[d] # "idle"
        /\ \E there \in {"idle", "append"} : sends' = [sends EXCEPT ![d] = there]
        /\ ledger' = ledger \/ Appends(delivers[d][1], delivers[d][2])
    BY <1>6 DEF DeliverReads, DeliverAppends, DeliverFails, Notifies
  <2>2. Sent'
    BY <2>1 DEF AInv, Sent
  <2>3. delivers[d][1] \in Names /\ delivers[d][2] \in Values /\ kind[delivers[d][1]] = "wait"
    BY <1>0, <2>1 DEF Shapes, AInv, Sent
  <2> QED
    BY <1>0, <2>1, <2>2, <2>3, OthersAInv
<1>7. ASSUME NEW n \in Names, Happens(n) \/ DeadlinePasses(n) \/ Hears(n) PROVE AInv'
  BY <1>0, <1>7, OthersAInv DEF Happens, DeadlinePasses, Hears, AInv, Sent
<1>8. CASE Crash
  <2>1. /\ pc' = [c \in Calls |-> "idle"]
        /\ sends' = [d \in Deliverers |-> IF d \in Local THEN "idle" ELSE sends[d]]
        /\ UNCHANGED <<kind, ledger, name, delivers, returned>>
    BY <1>8 DEF Crash
  <2>2. (\A c \in Calls : Placed(c)') /\ Sent'
    BY <2>1 DEF AInv, Placed, Sent
  <2> QED
    BY <2>1, <2>2, AnswersKept DEF AInv
<1> QED
  BY <1>0, <1>1, <1>2, <1>3, <1>4, <1>5, <1>6, <1>7, <1>8, ExecuteAInv, StoreThrowsAInv
  DEF DurabilityNext

\* Nothing was returned before the first call.
LEMMA InitAInv == DurabilityInit => AInv
<1> SUFFICES ASSUME DurabilityInit PROVE AInv
  OBVIOUS
<1>1. \A n \in Names : \A rs : Of(n, rs) = {}
  BY DEF DurabilityInit, Of
<1>2. kind \in [Names -> {"step", "effect", "sleep", "wait"}]
  BY DurabilityAssumption DEF DurabilityInit
<1> QED
  BY <1>1, <1>2 DEF DurabilityInit, AInv, Placed, Sent, Firsts, Stable, Recorded

\* What one call returned, every later call returns, for any number of names, calls,
\* deliveries that race, crashes and lost replies: the last result of a step is the only
\* one, the outcome of an effect too, and the first delivery of a wait stays the first
\* (engine.ts, effect.ts, ledger.ts).
THEOREM OneAnswerEach == DurabilitySpec => []OneAnswer
<1>1. ASSUME AInv PROVE OneAnswer
  <2> SUFFICES ASSUME NEW n \in Names PROVE Cardinality(returned[n]) <= 1
    BY DEF OneAnswer
  <2>1. returned[n] = {} \/ returned[n] = {Answer(n)}
    BY <1>1 DEF AInv, Stable
  <2> QED
    BY <2>1, FS_EmptySet, FS_Singleton
<1>2. DInv /\ AInv /\ [DurabilityNext]_durabilityVars => AInv'
  BY NextAInv
<1> QED
  BY <1>1, <1>2, InitAInv, DurabilityInvariant, PTL DEF DurabilitySpec

===============================================================================
