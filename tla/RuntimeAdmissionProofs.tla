------------------------ MODULE RuntimeAdmissionProofs ------------------------
(***************************************************************************)
(* The runtime's admission implements the run store: whatever submissions, *)
(* the coordinator, recover(), close() and other processes do to one       *)
(* conversation is one mutation of its store or none.                      *)
(*                                                                         *)
(* What a ticket answers is then the store's answer, urgent work goes      *)
(* first, and a close() that reported settlement is followed by nothing.   *)
(* The lane of coalescePending keeps submissions in the order in which     *)
(* they were made, so that what waits is offered, and nobody is left       *)
(* behind.                                                                 *)
(***************************************************************************)
EXTENDS RuntimeAdmission, AgentRunStoreProofs, SequenceTheorems, FiniteSetTheorems

-----------------------------------------------------------------------------
(* The inductive invariant *)

Steps == {"idle", "decide", "abandon", "requeue", "resume", "load", "wait"}
Stages == {"idle", "create", "lookup", "acquire", "run"}

\* A submission: its reservation names a run, and the clock counts submissions.
Submitted ==
  /\ phase \in [Keys -> Phases]
  /\ policy \in [Keys -> InputPolicies]
  /\ stamp \in [Keys -> 0 .. Cardinality(Keys)]
  /\ clock = Cardinality({s \in Keys : phase[s] # "new"})
  /\ plan \in [Keys -> [run : Runs \cup {None}, schedules : BOOLEAN,
                        previous : Keys \cup {None}]]
  /\ \A s \in Keys : ~plan[s].schedules => plan[s].run # None
  /\ result \in [Keys -> Reasons]
  /\ laneState \in [head : Runs \cup {None}, pending : Runs \cup {None},
                    tail : Keys \cup {None}]

\* The coordinator's jobs are submissions and runs, and the lane is free only when
\* nothing waits.
Coordinated ==
  /\ queue \in Seq(Keys \cup Runs)
  /\ active \in Keys \cup Runs \cup {None}
  /\ stage \in Stages
  /\ active = None <=> stage = "idle"
  /\ active = None => queue = <<>>

\* recover() is at a run of its scan.
Scanning ==
  /\ todo \in Seq(Runs) /\ step \in Steps
  /\ step # "idle" => todo # <<>>
  /\ ~recovered => todo = <<>>

Jobs == ToSet(queue) \cup {active}

\* Where each input is: a run of this runtime is admitted by its own submission,
\* and a submission whose input is in knows in which run.
Origins ==
  /\ \A k \in Keys : receipt[k] # None => state[receipt[k]] # "absent"
  /\ \A s \in Keys :
       /\ state[RunOf[s]] # "absent" => receipt[s] = RunOf[s]
       /\ phase[s] \in {"new", "entered", "cleared"} => state[RunOf[s]] = "absent"
       /\ phase[s] \in {"written", "attached", "ticketed"} =>
            receipt[s] = IF plan[s].schedules THEN RunOf[s] ELSE plan[s].run
       /\ phase[s] = "attached" => ~plan[s].schedules
  /\ \A s \in Keys \cap Jobs : receipt[s] = RunOf[s]

\* What is on offer or was taken on is in the store; what was taken on is of
\* another run than the one that took it.
Offers ==
  /\ taken = absorbed
  /\ offered \subseteq Keys /\ taken \subseteq Keys
  /\ \A o \in offered \cup taken : receipt[o] # None
  /\ \A o \in taken : receipt[o] # RunFor(active)

AdmissionInv == Submitted /\ Coordinated /\ Scanning /\ Origins /\ Offers

-----------------------------------------------------------------------------
(* The sequences *)

LEMMA ElementsOf ==
  ASSUME NEW S, NEW s \in Seq(S)
  PROVE  /\ ToSet(s) \subseteq S
         /\ ToSet(s) = {s[i] : i \in 1 .. Len(s)}
         /\ Len(s) \in Nat /\ DOMAIN s = 1 .. Len(s)
         /\ s # <<>> => Len(s) > 0
BY LenProperties, ElementOfSeq, EmptySeq DEF ToSet

LEMMA TailIs ==
  ASSUME NEW S, NEW s \in Seq(S), s # <<>>
  PROVE  /\ Head(s) \in S /\ Head(s) = s[1] /\ 1 \in DOMAIN s
         /\ Tail(s) \in Seq(S) /\ Len(Tail(s)) = Len(s) - 1
         /\ \A i \in 1 .. Len(Tail(s)) : Tail(s)[i] = s[i + 1]
         /\ ToSet(Tail(s)) \cup {Head(s)} \subseteq ToSet(s)
<1> DEFINE t == Tail(s)
<1>1. /\ Head(s) \in S /\ t \in Seq(S) /\ Len(t) = Len(s) - 1
      /\ \A i \in 1 .. Len(t) : t[i] = s[i + 1]
  BY HeadTailProperties
<1>2. Len(s) \in Nat /\ Len(s) > 0 /\ DOMAIN s = 1 .. Len(s)
  BY ElementsOf
<1>3. Head(s) = s[1]
  BY DEF Head
<1> HIDE DEF t
<1>4. ToSet(t) = {t[i] : i \in 1 .. Len(t)} /\ ToSet(s) = {s[i] : i \in 1 .. Len(s)}
  BY <1>1, ElementsOf
<1>5. ASSUME NEW x \in ToSet(t)  PROVE x \in ToSet(s)
  <2>1. PICK i \in 1 .. Len(t) : x = t[i]
    BY <1>4
  <2>2. i + 1 \in 1 .. Len(s) /\ x = s[i + 1]
    BY <1>1, <1>2, <2>1
  <2> QED
    BY <1>4, <2>2
<1>6. Head(s) \in ToSet(s) /\ 1 \in DOMAIN s
  BY <1>2, <1>3, <1>4
<1> QED
  BY <1>1, <1>3, <1>5, <1>6 DEF t

LEMMA AppendIs ==
  ASSUME NEW S, NEW s \in Seq(S), NEW e \in S
  PROVE  /\ Append(s, e) \in Seq(S) /\ Len(Append(s, e)) = Len(s) + 1
         /\ \A i \in 1 .. Len(s) : Append(s, e)[i] = s[i]
         /\ Append(s, e)[Len(s) + 1] = e
         /\ ToSet(Append(s, e)) = ToSet(s) \cup {e}
<1> DEFINE t == Append(s, e)
<1>1. /\ t \in Seq(S) /\ Len(t) = Len(s) + 1 /\ Len(s) \in Nat
      /\ \A j \in 1 .. Len(s) : t[j] = s[j]
      /\ t[Len(s) + 1] = e
  BY AppendProperties, LenProperties
<1>2. ToSet(t) = {t[i] : i \in 1 .. Len(t)} /\ ToSet(s) = {s[i] : i \in 1 .. Len(s)}
  BY <1>1, ElementsOf
<1> HIDE DEF t
<1>3. \A j \in 1 .. Len(t) : j \in 1 .. Len(s) \/ j = Len(s) + 1
  BY <1>1
<1>4. ToSet(t) = ToSet(s) \cup {e}
  BY <1>1, <1>2, <1>3
<1> QED
  BY <1>1, <1>4 DEF t

\* One more element at a place of a sequence.
LEMMA InsertionIs ==
  ASSUME NEW S, NEW s \in Seq(S), NEW e \in S, NEW i \in 1 .. Len(s) + 1
  PROVE  /\ InsertAt(s, i, e) \in Seq(S) /\ Len(InsertAt(s, i, e)) = Len(s) + 1
         /\ \A j \in 1 .. Len(s) + 1 :
              InsertAt(s, i, e)[j] = IF j < i THEN s[j] ELSE IF j = i THEN e ELSE s[j - 1]
         /\ ToSet(InsertAt(s, i, e)) = ToSet(s) \cup {e}
<1> DEFINE a == SubSeq(s, 1, i - 1)
           c == <<e>>
           b == SubSeq(s, i, Len(s))
           t == InsertAt(s, i, e)
<1>1. Len(s) \in Nat /\ i \in Nat /\ \A j \in 1 .. Len(s) : s[j] \in S
  BY LenProperties, ElementOfSeq
<1>2. a \in Seq(S) /\ Len(a) = i - 1 /\ \A j \in 1 .. i - 1 : a[j] = s[j]
  <2>1. \A j \in 1 .. i - 1 : s[j] \in S
    BY <1>1
  <2>2. /\ a \in Seq(S) /\ Len(a) = IF 1 <= i - 1 THEN i - 1 - 1 + 1 ELSE 0
        /\ \A j \in 1 .. i - 1 - 1 + 1 : a[j] = s[1 + j - 1]
    BY <1>1, <2>1, SubSeqProperties
  <2> HIDE DEF a
  <2> QED
    BY <1>1, <2>2
<1>3. /\ b \in Seq(S) /\ Len(b) = Len(s) - i + 1
      /\ \A j \in 1 .. Len(s) - i + 1 : b[j] = s[i + j - 1]
  <2>1. \A j \in i .. Len(s) : s[j] \in S
    BY <1>1
  <2>2. /\ b \in Seq(S) /\ Len(b) = IF i <= Len(s) THEN Len(s) - i + 1 ELSE 0
        /\ \A j \in 1 .. Len(s) - i + 1 : b[j] = s[i + j - 1]
    BY <1>1, <2>1, SubSeqProperties
  <2> HIDE DEF b
  <2> QED
    BY <1>1, <2>2
<1>4. c \in Seq(S) /\ Len(c) = 1 /\ c[1] = e
  OBVIOUS
<1>5. t = (a \o c) \o b
  BY DEF InsertAt
<1> HIDE DEF a, b, c, t
<1>6. /\ a \o c \in Seq(S) /\ Len(a \o c) = i
      /\ \A j \in 1 .. i : (a \o c)[j] = IF j <= i - 1 THEN a[j] ELSE c[j - (i - 1)]
  <2>1. /\ a \o c \in Seq(S) /\ Len(a \o c) = Len(a) + Len(c)
        /\ \A j \in 1 .. Len(a) + Len(c) :
             (a \o c)[j] = IF j <= Len(a) THEN a[j] ELSE c[j - Len(a)]
    BY <1>2, <1>4, ConcatProperties
  <2>2. Len(a) + Len(c) = i
    BY <1>1, <1>2, <1>4
  <2> QED
    BY <1>2, <2>1, <2>2
<1>7. /\ t \in Seq(S) /\ Len(t) = Len(s) + 1
      /\ \A j \in 1 .. Len(s) + 1 : t[j] = IF j <= i THEN (a \o c)[j] ELSE b[j - i]
  <2> DEFINE d == a \o c
  <2>1. d \in Seq(S) /\ b \in Seq(S) /\ t = d \o b /\ Len(d) = i
    BY <1>3, <1>5, <1>6
  <2>2. Len(d) + Len(b) = Len(s) + 1
    BY <1>1, <1>3, <1>6
  <2> HIDE DEF d
  <2>3. /\ d \o b \in Seq(S) /\ Len(d \o b) = Len(d) + Len(b)
        /\ \A j \in 1 .. Len(d) + Len(b) :
             (d \o b)[j] = IF j <= Len(d) THEN d[j] ELSE b[j - Len(d)]
    BY <2>1, ConcatProperties
  <2>4. /\ t \in Seq(S) /\ Len(t) = Len(s) + 1
        /\ \A j \in 1 .. Len(s) + 1 : t[j] = IF j <= i THEN d[j] ELSE b[j - i]
    BY <2>1, <2>2, <2>3
  <2> QED
    BY <2>4 DEF d
<1>8. ASSUME NEW j \in 1 .. Len(s) + 1
      PROVE  t[j] = IF j < i THEN s[j] ELSE IF j = i THEN e ELSE s[j - 1]
  <2>1. CASE j < i
    <3>1. j \in 1 .. i /\ j \in 1 .. i - 1 /\ j <= i /\ j <= i - 1
      BY <1>1, <2>1
    <3> QED
      BY <1>2, <1>6, <1>7, <2>1, <3>1
  <2>2. CASE j = i
    <3>1. j \in 1 .. i /\ ~(j <= i - 1) /\ j - (i - 1) = 1 /\ j <= i /\ ~(j < i)
      BY <1>1, <2>2
    <3> QED
      BY <1>4, <1>6, <1>7, <2>2, <3>1
  <2>3. CASE j > i
    <3>1. /\ j - i \in 1 .. Len(s) - i + 1 /\ ~(j <= i) /\ i + (j - i) - 1 = j - 1
          /\ ~(j < i) /\ j # i
      BY <1>1, <2>3
    <3>2. t[j] = b[j - i] /\ b[j - i] = s[i + (j - i) - 1]
      BY <1>3, <1>7, <3>1
    <3> QED
      BY <3>1, <3>2
  <2> QED
    BY <1>1, <2>1, <2>2, <2>3
<1>9. ToSet(t) = ToSet(s) \cup {e}
  <2>1. ToSet(t) = {t[j] : j \in 1 .. Len(s) + 1} /\ ToSet(s) = {s[j] : j \in 1 .. Len(s)}
    BY <1>7, ElementsOf
  <2>2. ASSUME NEW x \in ToSet(t)  PROVE x \in ToSet(s) \cup {e}
    <3>1. PICK j \in 1 .. Len(s) + 1 : x = t[j]
      BY <2>1
    <3>2. j < i => j \in 1 .. Len(s)
      BY <1>1
    <3>3. j > i => j - 1 \in 1 .. Len(s)
      BY <1>1
    <3> QED
      BY <1>1, <1>8, <2>1, <3>1, <3>2, <3>3
  <2>3. ASSUME NEW x \in ToSet(s)  PROVE x \in ToSet(t)
    <3>1. PICK j \in 1 .. Len(s) : x = s[j]
      BY <2>1
    <3>2. CASE j < i
      BY <1>1, <1>8, <2>1, <3>1, <3>2
    <3>3. CASE j >= i
      <4>1. j + 1 \in 1 .. Len(s) + 1 /\ ~(j + 1 < i) /\ j + 1 # i /\ (j + 1) - 1 = j
        BY <1>1, <3>3
      <4>2. t[j + 1] = s[j]
        BY <1>8, <4>1
      <4> QED
        BY <2>1, <3>1, <4>1, <4>2
    <3> QED
      BY <1>1, <3>2, <3>3
  <2>4. e \in ToSet(t)
    <3>1. t[i] = e
      BY <1>1, <1>8
    <3> QED
      BY <2>1, <3>1
  <2> QED
    BY <2>2, <2>3, <2>4
<1> QED
  BY <1>7, <1>8, <1>9 DEF t

-----------------------------------------------------------------------------
(* What a step asks of the store *)

LEMMA JobRuns ==
  ASSUME Coordinated, active # None
  PROVE  RunFor(active) \in Runs
BY AdmissionAssumption DEF Coordinated, RunFor

\* The run that a submission's input is for.
Where(s) == IF plan[s].schedules THEN RunOf[s] ELSE plan[s].run

LEMMA AdmitIs ==
  ASSUME TypeOK, Submitted, NEW s \in Keys, Admit(s)
  PROVE  /\ Next /\ Where(s) \in Runs /\ receipt[s] = None
         /\ receipt' = [receipt EXCEPT ![s] = Where(s)]
         /\ plan[s].schedules => /\ state[RunOf[s]] = "absent"
                                 /\ state' = [state EXCEPT ![RunOf[s]] = "queued"]
         /\ ~plan[s].schedules => state' = state /\ state[plan[s].run] = "queued"
<1> USE AdmissionAssumption
<1>1. CASE plan[s].schedules
  <2>1. Accept(s, RunOf[s], policy[s] = "interrupt-next", stamp[s])
    BY <1>1 DEF Admit
  <2>2. /\ RunOf[s] \in Runs /\ stamp[s] \in Stamps
        /\ (policy[s] = "interrupt-next") \in BOOLEAN
    BY DEF Submitted
  <2>3. Next
    BY <2>1, <2>2 DEF Next, Admission
  <2> QED
    BY <1>1, <2>1, <2>2, <2>3 DEF Accept, Fresh, Where
<1>2. CASE ~plan[s].schedules
  <2>1. Coalesce(s, plan[s].run) /\ plan[s].run \in Runs
    BY <1>2 DEF Admit, Submitted
  <2>2. Next
    BY <2>1 DEF Next, Admission
  <2> QED
    BY <1>2, <2>1, <2>2 DEF Coalesce, Fresh, Joinable, Where
<1> QED
  BY <1>1, <1>2

LEMMA ElsewhereIs ==
  ASSUME TypeOK, Submitted, NEW k \in Elsewhere, AdmittedElsewhere(k)
  PROVE  /\ Next /\ k \in Keys /\ TwinOf[k] \in Runs
         /\ receipt[k] = None /\ receipt' = [receipt EXCEPT ![k] = TwinOf[k]]
         /\ state[TwinOf[k]] = "absent"
         /\ state' = [state EXCEPT ![TwinOf[k]] = "queued"]
<1> USE AdmissionAssumption
<1>1. k \in Keys /\ TwinOf[k] \in Runs /\ Accept(k, TwinOf[k], FALSE, clock)
  BY DEF AdmittedElsewhere
<1>2. clock \in 0 .. Cardinality(Keys)
  <2>1. {s \in Keys : phase[s] # "new"} \subseteq Keys
    OBVIOUS
  <2> QED
    BY <2>1, FS_Subset, FS_CardinalityType DEF Submitted
<1>3. Next
  BY <1>1, <1>2 DEF Next, Admission
<1> QED
  BY <1>1, <1>3 DEF Accept, Fresh

\* Records stay where they are, receipts too, and what is settled stays settled.
Calm ==
  /\ receipt' = receipt
  /\ \A r \in Runs : /\ state'[r] = "absent" <=> state[r] = "absent"
                     /\ state[r] \in Terminal => state'[r] \in Terminal

LEMMA StillIsCalm == UNCHANGED vars => Calm
BY DEF vars, acceptVars, Calm

LEMMA EndingsAre == ASSUME NEW r PROVE Endings(r) \subseteq Outcomes
BY DEF Endings, Outcomes

LEMMA ClaimedIs ==
  ASSUME TypeOK, Offers, NEW outcome
  PROVE  Claimed(outcome) \in Claims(RunFor(active))
<1> DEFINE C == IF outcome = "completed" THEN {receipt[s] : s \in absorbed} ELSE {}
           f == [c \in C |-> {s \in absorbed : receipt[s] = c}]
<1>1. Claimed(outcome) = f
  BY DEF Claimed
<1>2. C \subseteq Runs \ {RunFor(active)}
  BY DEF Offers, TypeOK
<1>3. \A c \in C : {s \in absorbed : receipt[s] = c} \in (SUBSET Keys) \ {{}}
  BY DEF Offers
<1> HIDE DEF C
<1>4. f \in [C -> (SUBSET Keys) \ {{}}]
  BY <1>3
<1> QED
  BY <1>1, <1>2, <1>4 DEF Claims

LEMMA FinishIs ==
  ASSUME TypeOK, Coordinated, Offers, FinishRun
  PROVE  /\ Next /\ Calm /\ RunFor(active) \in Runs
         /\ state'[RunFor(active)] \in Terminal
<1> DEFINE r == RunFor(active)
<1>1. r \in Runs
  BY JobRuns DEF FinishRun, Coordinated
<1>2. PICK outcome \in Endings(r) : Finish(Self, r, revision[r], outcome, Claimed(outcome))
  BY DEF FinishRun
<1>3. outcome \in Outcomes /\ Claimed(outcome) \in Claims(r) /\ Self \in Lanes
  BY EndingsAre, ClaimedIs, AdmissionAssumption
<1>4. HoldsLease(Self, r)
  BY <1>2 DEF Finish
<1> DEFINE claim == Claimed(outcome)
           gone == Absorbable(claim)
<1>5. Next
  BY <1>1, <1>2, <1>3, <1>4 DEF Next, Execution
<1>6. gone \subseteq Runs \ {r} /\ \A c \in gone : state[c] = "queued"
  BY <1>1, <1>3, AbsorbsOthers
<1>7. /\ state' = [c \in Runs |-> IF c = r THEN outcome
                                  ELSE IF c \in gone THEN "superseded" ELSE state[c]]
      /\ state[r] \in Acquired /\ receipt' = receipt
  BY <1>2 DEF Finish, acceptVars
<1> HIDE DEF gone, claim, r
<1>8. Calm
  BY <1>1, <1>3, <1>6, <1>7 DEF Calm, Terminal, Outcomes, Acquired
<1>9. state'[r] \in Terminal
  BY <1>1, <1>3, <1>7 DEF Terminal
<1> QED
  BY <1>1, <1>5, <1>8, <1>9 DEF r

LEMMA AcquireIs ==
  ASSUME TypeOK, NEW r \in Runs, NEW e, Acquire(Self, r, e)
  PROVE  Next /\ Calm
<1>1. e = revision[r] /\ Self \in Lanes
  BY AdmissionAssumption DEF Acquire, Writes
<1>2. Next
  BY <1>1 DEF Next, Execution
<1> QED
  BY <1>2 DEF Acquire, Calm, TypeOK, acceptVars, Terminal, Outcomes

LEMMA ControlIs ==
  ASSUME TypeOK, NEW r \in Runs,
         \/ Interrupt(r, revision[r])
         \/ Requeue(r, revision[r], TRUE)
         \/ Abandon(r, revision[r])
  PROVE  Next /\ Calm
<1>1. Next
  BY DEF Next, Control
<1> QED
  BY <1>1 DEF Interrupt, Requeue, Abandon, Recover, Calm, TypeOK, acceptVars, Terminal,
              Outcomes, Active, Acquired

-----------------------------------------------------------------------------
(* What the parts of a step do *)

LaneStates == [head : Runs \cup {None}, pending : Runs \cup {None}, tail : Keys \cup {None}]

LEMMA SettledIs ==
  ASSUME Submitted, NEW R
  PROVE  Settled(R) \in LaneStates
BY DEF Submitted, Settled, LaneStates, Idle

\* The submissions T end with a reason.
Ending(T, why) ==
  /\ UNCHANGED <<policy, stamp, plan, clock>>
  /\ phase' = [s \in Keys |-> IF s \in T THEN "done" ELSE phase[s]]
  /\ result' = [s \in Keys |-> IF s \in T THEN why ELSE result[s]]
  /\ laneState' \in LaneStates
  /\ offered' \subseteq offered

LEMMA TellEnds ==
  ASSUME Submitted, NEW S, NEW why, Tell(S, why),
         UNCHANGED <<policy, stamp, plan, clock>>
  PROVE  Ending(S \cup Followers(S), why)
<1>1. laneState' \in LaneStates
  BY SettledIs DEF Tell
<1> QED
  BY <1>1 DEF Tell, Ending

LEMMA RefuseEnds ==
  ASSUME Submitted, NEW s \in Keys, NEW why, Refuse(s, why)
  PROVE  /\ Ending(IF plan[s].schedules THEN {s} \cup Followers({s}) ELSE {s}, why)
         /\ UNCHANGED <<absorbed, taken>>
<1>1. CASE plan[s].schedules
  BY <1>1, TellEnds DEF Refuse
<1>2. CASE ~plan[s].schedules
  <2>1. laneState' \in LaneStates
    BY <1>2 DEF Refuse, Submitted, LaneStates
  <2>2. offered' \subseteq offered
    BY <1>2 DEF Refuse
  <2>3. /\ phase' = [x \in Keys |-> IF x \in {s} THEN "done" ELSE phase[x]]
        /\ result' = [x \in Keys |-> IF x \in {s} THEN why ELSE result[x]]
    BY <1>2 DEF Refuse, Submitted
  <2> QED
    BY <1>2, <2>1, <2>2, <2>3 DEF Ending, Refuse
<1> QED
  BY <1>1, <1>2

\* The submissions stay or move on; none is new that was not.
LEMMA SubmittedKept ==
  ASSUME Submitted, UNCHANGED <<policy, stamp, plan, clock>>,
         phase' \in [Keys -> Phases], result' \in [Keys -> Reasons],
         laneState' \in LaneStates,
         \A s \in Keys : phase'[s] = "new" <=> phase[s] = "new"
  PROVE  Submitted'
<1>1. {s \in Keys : phase'[s] # "new"} = {s \in Keys : phase[s] # "new"}
  OBVIOUS
<1> QED
  BY <1>1 DEF Submitted, LaneStates

LEMMA EndingKeeps ==
  ASSUME Submitted, NEW T, NEW why \in Reasons, Ending(T, why),
         \A s \in Keys : s \in T => phase[s] # "new"
  PROVE  Submitted'
<1>1. phase' \in [Keys -> Phases] /\ result' \in [Keys -> Reasons]
  BY DEF Ending, Submitted, Phases
<1>2. \A s \in Keys : phase'[s] = "new" <=> phase[s] = "new"
  BY DEF Ending
<1> QED
  BY <1>1, <1>2, SubmittedKept DEF Ending

LEMMA SubmittedStays ==
  ASSUME Submitted, UNCHANGED subVars
  PROVE  Submitted'
BY SubmittedKept DEF Submitted, subVars, LaneStates

LEMMA MovesIs ==
  ASSUME Submitted, NEW s \in Keys, phase[s] # "new",
         NEW next \in Phases \ {"new"}, Moves(s, next)
  PROVE  Submitted'
<1>1. /\ phase' \in [Keys -> Phases] /\ result' \in [Keys -> Reasons]
      /\ laneState' \in LaneStates
      /\ \A x \in Keys : phase'[x] = "new" <=> phase[x] = "new"
  BY DEF Moves, Submitted, LaneStates
<1> QED
  BY <1>1, SubmittedKept DEF Moves

LEMMA StartsIs ==
  ASSUME NEW j \in Keys \cup Runs \cup {None}, NEW rest \in Seq(Keys \cup Runs),
         Starts(j, rest), j = None => rest = <<>>
  PROVE  /\ Coordinated' /\ absorbed' = {} /\ taken' = {} /\ active' = j
         /\ Jobs' = ToSet(rest) \cup {j}
BY DEF Starts, Coordinated, Jobs, Stages

LEMMA StartNextIs ==
  ASSUME Coordinated, StartNext
  PROVE  /\ Coordinated' /\ absorbed' = {} /\ taken' = {}
         /\ Jobs' \subseteq Jobs \cup {None}
<1>1. CASE queue = <<>>
  <2>1. Starts(None, queue) /\ queue \in Seq(Keys \cup Runs)
    BY <1>1 DEF StartNext, Coordinated
  <2> QED
    BY <1>1, <2>1, StartsIs DEF Jobs
<1>2. CASE queue # <<>>
  <2>1. Starts(Head(queue), Tail(queue)) /\ queue \in Seq(Keys \cup Runs)
    BY <1>2 DEF StartNext, Coordinated
  <2>2. /\ Head(queue) \in Keys \cup Runs /\ Tail(queue) \in Seq(Keys \cup Runs)
        /\ ToSet(Tail(queue)) \cup {Head(queue)} \subseteq ToSet(queue)
    BY <1>2, <2>1, TailIs
  <2>3. Head(queue) # None
    BY <2>2, StoreAssumption, AdmissionAssumption
  <2> QED
    BY <2>1, <2>2, <2>3, StartsIs DEF Jobs
<1> QED
  BY <1>1, <1>2

LEMMA EnqueueIs ==
  ASSUME Coordinated, NEW j \in Keys \cup Runs, NEW how, Enqueue(j, how)
  PROVE  /\ Coordinated'
         /\ Jobs' \subseteq Jobs \cup {j}
         /\ \/ active' = active /\ UNCHANGED <<absorbed, taken>>
            \/ absorbed' = {} /\ taken' = {}
<1>0. queue \in Seq(Keys \cup Runs) /\ j # None
  BY StoreAssumption, AdmissionAssumption DEF Coordinated
<1>1. CASE active = None
  BY <1>0, <1>1, StartsIs DEF Enqueue, Jobs, Coordinated
<1>2. CASE active # None
  <2>1. queue' \in Seq(Keys \cup Runs) /\ ToSet(queue') = ToSet(queue) \cup {j}
    <3>1. CASE how = "interrupt-next"
      <4>1. PICK i \in 1 .. Len(queue) + 1 : queue' = InsertAt(queue, i, j)
        BY <1>2, <3>1 DEF Enqueue
      <4>2. /\ InsertAt(queue, i, j) \in Seq(Keys \cup Runs)
            /\ ToSet(InsertAt(queue, i, j)) = ToSet(queue) \cup {j}
        <5> DEFINE K == Keys \cup Runs
        <5>1. queue \in Seq(K) /\ j \in K
          BY <1>0
        <5> HIDE DEF K
        <5>2. /\ InsertAt(queue, i, j) \in Seq(K)
              /\ ToSet(InsertAt(queue, i, j)) = ToSet(queue) \cup {j}
          BY <5>1, InsertionIs
        <5> QED
          BY <5>2 DEF K
      <4> QED
        BY <4>1, <4>2
    <3>2. CASE how # "interrupt-next"
      <4>1. queue' = Append(queue, j)
        BY <1>2, <3>2 DEF Enqueue
      <4>2. /\ Append(queue, j) \in Seq(Keys \cup Runs)
            /\ ToSet(Append(queue, j)) = ToSet(queue) \cup {j}
        BY <1>0, AppendIs
      <4> QED
        BY <4>1, <4>2
    <3> QED
      BY <3>1, <3>2
  <2>2. UNCHANGED <<active, stage, absorbed, taken>>
    BY <1>2 DEF Enqueue
  <2>3. Coordinated'
    BY <1>2, <2>1, <2>2 DEF Coordinated
  <2> QED
    BY <2>1, <2>2, <2>3 DEF Jobs
<1> QED
  BY <1>1, <1>2

LEMMA ItemOverIs ==
  ASSUME Scanning, todo # <<>>, NEW resumed, ItemOver(resumed)
  PROVE  Scanning'
<1>1. Tail(todo) \in Seq(Runs)
  BY TailIs DEF Scanning
<1> QED
  BY <1>1 DEF Scanning, ItemOver, Steps

LEMMA SettlesIs ==
  ASSUME Scanning, NEW j, NEW resumed, AcquisitionSettles(j, resumed)
  PROVE  Scanning'
<1>1. CASE step = "wait" /\ Head(todo) = j
  BY <1>1, ItemOverIs DEF AcquisitionSettles, Scanning
<1>2. CASE ~(step = "wait" /\ Head(todo) = j)
  BY <1>2 DEF AcquisitionSettles, Scanning, recVars
<1> QED
  BY <1>1, <1>2

LEMMA ScanStays == Scanning /\ UNCHANGED recVars => Scanning'
BY DEF Scanning, recVars

LEMMA JobsStay ==
  ASSUME Coordinated, UNCHANGED <<queue, active, stage>>
  PROVE  Coordinated' /\ Jobs' = Jobs
BY DEF Coordinated, Jobs

\* Inputs stay where they are as submissions move on and jobs begin and end.
LEMMA OriginsKept ==
  ASSUME TypeOK, TypeOK', Submitted, Submitted', Origins, Calm, plan' = plan,
         \A s \in Keys :
           \/ phase'[s] = phase[s] \/ phase'[s] = "done"
           \/ phase[s] = "entered" /\ phase'[s] = "cleared"
           \/ /\ phase[s] = "written"
              /\ \/ phase'[s] = "ticketed"
                 \/ phase'[s] = "attached" /\ ~plan[s].schedules,
         \A s \in Keys \cap Jobs' : s \in Jobs \/ receipt[s] = RunOf[s]
  PROVE  Origins'
<1>1. ASSUME NEW k \in Keys, receipt'[k] # None  PROVE state'[receipt'[k]] # "absent"
  BY <1>1 DEF Origins, Calm, TypeOK
<1>2. ASSUME NEW s \in Keys
      PROVE  /\ state'[RunOf[s]] # "absent" => receipt'[s] = RunOf[s]
             /\ phase'[s] \in {"new", "entered", "cleared"} => state'[RunOf[s]] = "absent"
             /\ phase'[s] \in {"written", "attached", "ticketed"} =>
                  receipt'[s] = IF plan'[s].schedules THEN RunOf[s] ELSE plan'[s].run
             /\ phase'[s] = "attached" => ~plan'[s].schedules
  BY AdmissionAssumption DEF Origins, Calm
<1>3. ASSUME NEW s \in Keys \cap Jobs'  PROVE receipt'[s] = RunOf[s]
  BY DEF Origins, Calm
<1> QED
  BY <1>1, <1>2, <1>3 DEF Origins

\* A job of the coordinator was admitted, and so was submitted.
LEMMA JobsAreIn ==
  ASSUME Origins, NEW s \in Keys \cap Jobs
  PROVE  phase[s] \notin {"new", "entered", "cleared"} /\ receipt[s] = RunOf[s]
BY AdmissionAssumption, StoreAssumption DEF Origins

\* Offers are withdrawn, made by admitted submissions or handed back; a run that
\* starts has taken nothing on.
LEMMA OffersKept ==
  ASSUME Offers, taken' = absorbed',
         \A k \in Keys : receipt[k] # None => receipt'[k] = receipt[k],
         offered' \subseteq offered \cup taken \cup {o \in Keys : receipt'[o] # None},
         taken' = {} \/ (taken' = taken /\ active' = active)
  PROVE  Offers'
BY DEF Offers, RunFor

\* One more input is in the store: a submission's own, or another process's.
LEMMA OriginsAdmit ==
  ASSUME TypeOK, Submitted, Origins, NEW k \in Keys, NEW w \in Runs,
         receipt[k] = None, receipt' = [receipt EXCEPT ![k] = w],
         state'[w] = "queued", \A r \in Runs : r # w => state'[r] = state[r],
         plan' = plan, UNCHANGED <<queue, active>>,
         \A s \in Keys \ {k} : phase'[s] = phase[s] \/ phase'[s] = "done",
         \/ (\A s \in Keys : w # RunOf[s]) /\ phase'[k] = phase[k]
         \/ /\ w = Where(k) /\ phase[k] = "cleared" /\ phase'[k] \in {"written", "done"}
            /\ plan[k].schedules \/ state[w] = "queued"
  PROVE  Origins'
<1> USE AdmissionAssumption, StoreAssumption
<1>0. k \notin Jobs /\ state[RunOf[k]] = "absent" /\ w # None
  BY DEF Origins
<1>1. ASSUME NEW s \in Keys, receipt'[s] # None  PROVE state'[receipt'[s]] # "absent"
  BY <1>1 DEF Origins, TypeOK
<1>2. ASSUME NEW s \in Keys, s # k
      PROVE  /\ receipt'[s] = receipt[s]
             /\ state'[RunOf[s]] # "absent" => state[RunOf[s]] # "absent"
  <2>1. receipt'[s] = receipt[s]
    BY <1>2 DEF TypeOK
  <2>2. CASE w # RunOf[s]
    BY <2>1, <2>2
  <2>3. CASE w = RunOf[s]
    <3>1. w = Where(k) /\ (plan[k].schedules \/ state[w] = "queued") /\ w # RunOf[k]
      BY <1>2, <2>3
    <3>2. state[w] = "queued"
      BY <3>1 DEF Where
    <3> QED
      BY <2>1, <2>3, <3>2
  <2> QED
    BY <2>2, <2>3
<1>3. ASSUME NEW s \in Keys, s # k
      PROVE  /\ state'[RunOf[s]] # "absent" => receipt'[s] = RunOf[s]
             /\ phase'[s] \in {"new", "entered", "cleared"} => state'[RunOf[s]] = "absent"
             /\ phase'[s] \in {"written", "attached", "ticketed"} =>
                  receipt'[s] = IF plan'[s].schedules THEN RunOf[s] ELSE plan'[s].run
             /\ phase'[s] = "attached" => ~plan'[s].schedules
  BY <1>2, <1>3 DEF Origins
<1>4. /\ state'[RunOf[k]] # "absent" => receipt'[k] = RunOf[k]
      /\ phase'[k] \in {"new", "entered", "cleared"} => state'[RunOf[k]] = "absent"
      /\ phase'[k] \in {"written", "attached", "ticketed"} =>
           receipt'[k] = IF plan'[k].schedules THEN RunOf[k] ELSE plan'[k].run
      /\ phase'[k] = "attached" => ~plan'[k].schedules
  <2>1. receipt'[k] = w
    BY DEF TypeOK
  <2>2. CASE (\A s \in Keys : w # RunOf[s]) /\ phase'[k] = phase[k]
    <3>1. state'[RunOf[k]] = "absent" /\ plan'[k] = plan[k] /\ phase'[k] = phase[k]
      BY <1>0, <2>2
    <3>2. phase[k] \notin {"written", "attached", "ticketed"}
      BY DEF Origins, Submitted
    <3> QED
      BY <3>1, <3>2
  <2>3. CASE /\ w = Where(k) /\ phase[k] = "cleared" /\ phase'[k] \in {"written", "done"}
             /\ plan[k].schedules \/ state[w] = "queued"
    BY <1>0, <2>1, <2>3 DEF Where
  <2> QED
    BY <2>2, <2>3
<1>5. ASSUME NEW s \in Keys \cap Jobs'  PROVE receipt'[s] = RunOf[s]
  BY <1>0, <1>2 DEF Origins, Jobs
<1> QED
  BY <1>1, <1>3, <1>4, <1>5 DEF Origins

-----------------------------------------------------------------------------
(* The steps of a submission *)

LEMMA SubmitKeeps ==
  ASSUME TypeOK, AdmissionInv, NEW s \in Keys, NEW how \in InputPolicies, Submit(s, how)
  PROVE  UNCHANGED vars /\ AdmissionInv'
<1> USE AdmissionAssumption DEF AdmissionInv
<1>0. /\ UNCHANGED <<vars, result, jobVars, takeVars, endVars, recVars, hostVars>>
      /\ phase[s] = "new" /\ phase' = [phase EXCEPT ![s] = "entered"]
      /\ policy' = [policy EXCEPT ![s] = how]
      /\ clock' = clock + 1 /\ stamp' = [stamp EXCEPT ![s] = clock']
      /\ Reserve(s) \/ UNCHANGED <<plan, laneState>>
  BY DEF Submit
<1> DEFINE old == {x \in Keys : phase[x] # "new"}
           now == {x \in Keys : phase'[x] # "new"}
<1>1. now = old \cup {s} /\ s \notin old /\ old \subseteq Keys
  BY <1>0 DEF Submitted
<1>2. clock = Cardinality(old)
  BY DEF Submitted
<1> HIDE DEF old, now
<1>3. IsFiniteSet(old) /\ Cardinality(now) = clock + 1
  BY <1>1, <1>2, FS_Subset, FS_AddElement
<1>4. Cardinality(now) <= Cardinality(Keys) /\ Cardinality(old) \in Nat
      /\ Cardinality(Keys) \in Nat
  BY <1>1, <1>3, FS_Subset, FS_CardinalityType
<1>5. clock' \in 0 .. Cardinality(Keys) /\ clock' = Cardinality(now)
  BY <1>0, <1>2, <1>3, <1>4
<1>6. /\ plan' \in [Keys -> [run : Runs \cup {None}, schedules : BOOLEAN,
                             previous : Keys \cup {None}]]
      /\ \A x \in Keys : ~plan'[x].schedules => plan'[x].run # None
      /\ laneState' \in LaneStates
      /\ \A x \in Keys : x # s => plan'[x] = plan[x]
  <2>1. CASE Reserve(s)
    <3> DEFINE run == IF laneState.head = None \/ laneState.pending = None
                        THEN RunOf[s] ELSE laneState.pending
               entry == [run |-> run,
                         schedules |-> laneState.head = None \/ laneState.pending = None,
                         previous |-> laneState.tail]
    <3>1. /\ plan' = [plan EXCEPT ![s] = entry]
          /\ laneState' = [head    |-> IF laneState.head = None THEN run ELSE laneState.head,
                           pending |-> IF laneState.head = None THEN laneState.pending
                                       ELSE run,
                           tail    |-> s]
      BY <2>1 DEF Reserve
    <3>2. /\ laneState.head \in Runs \cup {None} /\ laneState.pending \in Runs \cup {None}
          /\ laneState.tail \in Keys \cup {None} /\ run \in Runs
      BY DEF Submitted
    <3>3. /\ entry \in [run : Runs \cup {None}, schedules : BOOLEAN,
                        previous : Keys \cup {None}]
          /\ entry.run # None
      BY <3>2, StoreAssumption
    <3> HIDE DEF run, entry
    <3> QED
      BY <3>1, <3>2, <3>3 DEF Submitted, LaneStates
  <2>2. CASE UNCHANGED <<plan, laneState>>
    BY <2>2 DEF Submitted, LaneStates
  <2> QED
    BY <1>0, <2>1, <2>2
<1>7. Submitted'
  <2>1. phase' \in [Keys -> Phases] /\ policy' \in [Keys -> InputPolicies]
    BY <1>0 DEF Submitted, Phases, Entered
  <2>2. stamp' \in [Keys -> 0 .. Cardinality(Keys)] /\ result' = result
    BY <1>0, <1>5 DEF Submitted
  <2> QED
    BY <1>5, <1>6, <2>1, <2>2 DEF Submitted, LaneStates, now
<1>8. Origins'
  <2>1. /\ receipt' = receipt /\ state' = state /\ Jobs' = Jobs
        /\ \A x \in Keys : x # s => phase'[x] = phase[x] /\ plan'[x] = plan[x]
        /\ phase'[s] = "entered"
    BY <1>0, <1>6 DEF vars, acceptVars, jobVars, Jobs, Submitted
  <2> QED
    BY <1>0, <2>1 DEF Origins
<1>9. Coordinated' /\ Scanning'
  BY <1>0, ScanStays, JobsStay DEF jobVars
<1>10. Offers'
  BY <1>0, OffersKept DEF vars, acceptVars, takeVars, jobVars, Offers
<1> QED
  BY <1>0, <1>7, <1>8, <1>9, <1>10

\* A submission ends, and its followers with it, at a step that is calm.
LEMMA RefuseKeeps ==
  ASSUME TypeOK, TypeOK', AdmissionInv, NEW s \in Keys, NEW why \in Reasons,
         phase[s] # "new", Refuse(s, why), Calm, UNCHANGED <<jobVars, recVars>>
  PROVE  AdmissionInv'
<1> USE DEF AdmissionInv
<1> DEFINE T == IF plan[s].schedules THEN {s} \cup Followers({s}) ELSE {s}
<1>1. Ending(T, why) /\ UNCHANGED <<absorbed, taken>>
  BY RefuseEnds
<1>2. \A x \in Keys : x \in T => phase[x] # "new"
  BY DEF Followers
<1> HIDE DEF T
<1>3. Submitted'
  BY <1>1, <1>2, EndingKeeps
<1>4. Coordinated' /\ Jobs' = Jobs /\ Scanning'
  BY JobsStay, ScanStays DEF jobVars
<1>5. Origins'
  BY <1>1, <1>3, <1>4, OriginsKept DEF Ending
<1>6. Offers'
  BY <1>1, OffersKept DEF Ending, Calm, jobVars, Offers
<1> QED
  BY <1>3, <1>4, <1>5, <1>6

LEMMA PreflightKeeps ==
  ASSUME TypeOK, AdmissionInv, NEW s \in Keys, Preflight(s)
  PROVE  UNCHANGED vars /\ AdmissionInv'
<1> USE DEF AdmissionInv
<1>1. /\ UNCHANGED <<vars, jobVars, endVars, recVars, hostVars>> /\ phase[s] = "entered"
      /\ TypeOK' /\ Calm
  BY StillIsCalm, TypesStay DEF Preflight
<1>2. CASE Moves(s, "cleared") /\ UNCHANGED takeVars
  <2>1. Submitted'
    BY <1>1, <1>2, MovesIs DEF Phases, Entered
  <2>2. Coordinated' /\ Jobs' = Jobs /\ Scanning'
    BY <1>1, JobsStay, ScanStays DEF jobVars
  <2>3. /\ plan' = plan
        /\ \A x \in Keys : \/ phase'[x] = phase[x]
                           \/ phase[x] = "entered" /\ phase'[x] = "cleared"
    <3>1. phase' = [phase EXCEPT ![s] = "cleared"] /\ phase \in [Keys -> Phases]
          /\ plan' = plan /\ phase[s] = "entered"
      BY <1>1, <1>2 DEF Moves, Submitted
    <3> QED
      BY <3>1
  <2>4. Origins'
    BY <1>1, <2>1, <2>2, <2>3, OriginsKept
  <2>5. Offers'
    BY <1>1, <1>2, OffersKept DEF takeVars, jobVars, Offers, Calm
  <2> QED
    BY <1>1, <2>1, <2>2, <2>4, <2>5
<1>3. CASE Refuse(s, "closed") \/ Refuse(s, "refused")
  BY <1>1, <1>3, RefuseKeeps DEF Reasons
<1> QED
  BY <1>1, <1>2, <1>3 DEF Preflight

LEMMA WriteKeeps ==
  ASSUME TypeOK, AdmissionInv, NEW s \in Keys, Write(s)
  PROVE  [Next]_vars /\ AdmissionInv'
<1> USE DEF AdmissionInv
<1>1. /\ UNCHANGED <<jobVars, endVars, recVars, hostVars>> /\ phase[s] = "cleared"
  BY DEF Write
<1>2. CASE Admit(s) /\ ((Moves(s, "written") /\ UNCHANGED takeVars) \/ Refuse(s, "refused"))
  <2>1. /\ Next /\ Where(s) \in Runs /\ receipt[s] = None
        /\ receipt' = [receipt EXCEPT ![s] = Where(s)]
        /\ plan[s].schedules => /\ state[RunOf[s]] = "absent"
                                /\ state' = [state EXCEPT ![RunOf[s]] = "queued"]
        /\ ~plan[s].schedules => state' = state /\ state[plan[s].run] = "queued"
    BY <1>2, AdmitIs
  <2>2. TypeOK'
    BY <2>1, TypesStay
  <2>3. /\ Submitted' /\ plan' = plan /\ taken' = absorbed' /\ offered' \subseteq offered
        /\ taken' = taken /\ phase'[s] \in {"written", "done"}
        /\ \A x \in Keys \ {s} : phase'[x] = phase[x] \/ phase'[x] = "done"
    <3>1. CASE Moves(s, "written") /\ UNCHANGED takeVars
      <4>1. Submitted'
        BY <1>1, <3>1, MovesIs DEF Phases, Entered
      <4> QED
        BY <3>1, <4>1 DEF Moves, takeVars, Submitted, Offers
    <3>2. CASE Refuse(s, "refused")
      <4> DEFINE T == IF plan[s].schedules THEN {s} \cup Followers({s}) ELSE {s}
      <4>1. Ending(T, "refused") /\ UNCHANGED <<absorbed, taken>> /\ s \in T
        BY <3>2, RefuseEnds
      <4>2. \A x \in Keys : x \in T => phase[x] # "new"
        BY <1>1 DEF Followers
      <4> HIDE DEF T
      <4>3. Submitted'
        BY <4>1, <4>2, EndingKeeps DEF Reasons
      <4> QED
        BY <4>1, <4>3 DEF Ending, Offers
    <3> QED
      BY <1>2, <3>1, <3>2
  <2>4. /\ state'[Where(s)] = "queued"
        /\ \A r \in Runs : r # Where(s) => state'[r] = state[r]
        /\ plan[s].schedules \/ state[Where(s)] = "queued"
    BY <2>1 DEF Where, TypeOK
  <2>5. Coordinated' /\ Scanning' /\ UNCHANGED <<queue, active>>
    BY <1>1, JobsStay, ScanStays DEF jobVars
  <2>6. Origins'
    BY <1>1, <2>1, <2>3, <2>4, <2>5, OriginsAdmit
  <2>7. Offers'
    BY <2>1, <2>3, <2>5, OffersKept DEF TypeOK
  <2> QED
    BY <2>1, <2>3, <2>5, <2>6, <2>7
<1>3. CASE /\ UNCHANGED vars
           /\ Refuse(s, "refused") \/ Refuse(s, "conflict") \/ Refuse(s, Duplicate(s))
  <2>1. Calm /\ TypeOK' /\ {"refused", "conflict", Duplicate(s)} \subseteq Reasons
    BY <1>3, StillIsCalm, TypesStay DEF Reasons, Duplicate
  <2> QED
    BY <1>1, <1>3, <2>1, RefuseKeeps
<1> QED
  BY <1>2, <1>3 DEF Write

LEMMA HandOffKeeps ==
  ASSUME TypeOK, AdmissionInv, NEW s \in Keys, HandOff(s)
  PROVE  UNCHANGED vars /\ AdmissionInv'
<1> USE DEF AdmissionInv
<1>1. /\ UNCHANGED <<vars, endVars, recVars, hostVars>> /\ phase[s] = "written"
      /\ TypeOK' /\ Calm
  BY StillIsCalm, TypesStay DEF HandOff
<1>2. receipt[s] = Where(s) /\ receipt' = receipt /\ Where(s) # None
  BY <1>1, AdmissionAssumption, StoreAssumption DEF Origins, Where, Calm, Submitted
<1>3. CASE plan[s].schedules /\ Moves(s, "ticketed") /\ Offer(s) /\ Enqueue(s, policy[s])
  <2>1. Submitted'
    BY <1>1, <1>3, MovesIs DEF Phases, Entered
  <2>2. /\ Coordinated' /\ Jobs' \subseteq Jobs \cup {s}
        /\ \/ active' = active /\ UNCHANGED <<absorbed, taken>>
           \/ absorbed' = {} /\ taken' = {}
    BY <1>3, EnqueueIs
  <2>3. /\ plan' = plan
        /\ \A x \in Keys : \/ phase'[x] = phase[x]
                           \/ phase[x] = "written" /\ phase'[x] = "ticketed"
    <3>1. phase' = [phase EXCEPT ![s] = "ticketed"] /\ phase \in [Keys -> Phases]
          /\ plan' = plan /\ phase[s] = "written"
      BY <1>1, <1>3 DEF Moves, Submitted
    <3> QED
      BY <3>1
  <2>4. \A x \in Keys \cap Jobs' : x \in Jobs \/ receipt[x] = RunOf[x]
    BY <1>2, <1>3, <2>2 DEF Where
  <2>5. Origins'
    BY <1>1, <2>1, <2>3, <2>4, OriginsKept
  <2>6. offered' \subseteq offered \cup {s}
    BY <1>3 DEF Offer
  <2>7. Offers'
    BY <1>2, <2>2, <2>6, OffersKept DEF Offers
  <2> QED
    BY <1>1, <2>1, <2>2, <2>5, <2>7, ScanStays
<1>4. CASE Refuse(s, "closed") /\ UNCHANGED jobVars
  BY <1>1, <1>4, RefuseKeeps DEF Reasons
<1>5. CASE /\ ~plan[s].schedules /\ UNCHANGED jobVars
           /\ Moves(s, "attached") /\ Offer(s) /\ UNCHANGED <<absorbed, taken>>
  <2>1. Submitted'
    BY <1>1, <1>5, MovesIs DEF Phases, Entered
  <2>2. Coordinated' /\ Jobs' = Jobs /\ Scanning'
    BY <1>1, <1>5, JobsStay, ScanStays DEF jobVars
  <2>3. /\ plan' = plan
        /\ \A x \in Keys : \/ phase'[x] = phase[x]
                           \/ /\ phase[x] = "written" /\ phase'[x] = "attached"
                              /\ ~plan[x].schedules
    BY <1>1, <1>5 DEF Moves, Submitted
  <2>4. Origins'
    BY <1>1, <2>1, <2>2, <2>3, OriginsKept
  <2>5. offered' \subseteq offered \cup {s}
    BY <1>5 DEF Offer
  <2>6. Offers'
    BY <1>2, <1>5, <2>5, OffersKept DEF Offers, jobVars
  <2> QED
    BY <1>1, <2>1, <2>2, <2>4, <2>6
<1>6. CASE /\ UNCHANGED jobVars
           /\ \E t \in Keys : Refuse(s, result[t])
  <2>1. PICK t \in Keys : Refuse(s, result[t])
    BY <1>6
  <2>2. result[t] \in Reasons
    BY DEF Submitted
  <2> QED
    BY <1>1, <1>6, <2>1, <2>2, RefuseKeeps
<1> QED
  BY <1>1, <1>3, <1>4, <1>5, <1>6 DEF HandOff

LEMMA ElsewhereKeeps ==
  ASSUME TypeOK, AdmissionInv, NEW k \in Elsewhere, AdmittedElsewhere(k)
  PROVE  Next /\ AdmissionInv'
<1> USE DEF AdmissionInv
<1>1. /\ Next /\ k \in Keys /\ TwinOf[k] \in Runs
      /\ receipt[k] = None /\ receipt' = [receipt EXCEPT ![k] = TwinOf[k]]
      /\ state' = [state EXCEPT ![TwinOf[k]] = "queued"]
  BY ElsewhereIs
<1>2. UNCHANGED <<subVars, jobVars, takeVars, endVars, recVars, hostVars>>
  BY DEF AdmittedElsewhere
<1>3. Submitted' /\ Coordinated' /\ Scanning'
  BY <1>2, SubmittedStays, JobsStay, ScanStays DEF jobVars
<1>4. /\ state'[TwinOf[k]] = "queued"
      /\ \A r \in Runs : r # TwinOf[k] => state'[r] = state[r]
      /\ \A s \in Keys : TwinOf[k] # RunOf[s]
  BY <1>1, AdmissionAssumption DEF TypeOK
<1>5. plan' = plan /\ phase' = phase /\ UNCHANGED <<queue, active>>
  BY <1>2 DEF subVars, jobVars
<1>6. Origins'
  BY <1>1, <1>4, <1>5, OriginsAdmit
<1>7. Offers'
  BY <1>1, <1>2, OffersKept DEF TypeOK, takeVars, jobVars, Offers
<1> QED
  BY <1>1, <1>3, <1>6, <1>7

-----------------------------------------------------------------------------
(* The steps of the coordinator's job *)

\* What touches neither submissions nor what was taken on.
LEMMA UntouchedKeeps ==
  ASSUME TypeOK, TypeOK', AdmissionInv, Calm, UNCHANGED <<subVars, absorbed, taken>>,
         UNCHANGED <<queue, active>>, offered' \subseteq offered, Coordinated', Scanning'
  PROVE  AdmissionInv'
<1> USE DEF AdmissionInv
<1>1. Submitted' /\ Jobs' = Jobs
  BY SubmittedStays DEF subVars, Jobs
<1>2. Origins'
  BY <1>1, OriginsKept DEF subVars
<1>3. Offers'
  BY OffersKept DEF Offers, Calm
<1> QED
  BY <1>1, <1>2, <1>3

LEMMA JobEndsKeeps ==
  ASSUME TypeOK, TypeOK', AdmissionInv, Calm, active # None,
         NEW why \in Reasons, NEW resumed, JobEnds(why, resumed)
  PROVE  AdmissionInv'
<1> USE DEF AdmissionInv
<1>1. /\ Submitted' /\ plan' = plan /\ offered' \subseteq offered
      /\ \A s \in Keys : phase'[s] = phase[s] \/ phase'[s] = "done"
  <2>1. CASE active \in Keys
    <3> DEFINE T == {active} \cup Followers({active})
    <3>1. Ending(T, why)
      BY <2>1, TellEnds DEF JobEnds
    <3>2. \A s \in Keys : s \in T => phase[s] # "new"
      BY JobsAreIn DEF Jobs, Followers
    <3> HIDE DEF T
    <3>3. Submitted'
      BY <3>1, <3>2, EndingKeeps
    <3> QED
      BY <3>1, <3>3 DEF Ending
  <2>2. CASE active \notin Keys
    <3>1. UNCHANGED <<subVars, offered>>
      BY <2>2 DEF JobEnds
    <3>2. Submitted'
      BY <3>1, SubmittedStays
    <3> QED
      BY <3>1, <3>2 DEF subVars
  <2> QED
    BY <2>1, <2>2
<1>2. /\ Coordinated' /\ absorbed' = {} /\ taken' = {}
      /\ Jobs' \subseteq Jobs \cup {None}
  BY StartNextIs DEF JobEnds
<1>3. Scanning'
  BY SettlesIs DEF JobEnds
<1>4. Origins'
  BY <1>1, <1>2, OriginsKept, AdmissionAssumption
<1>5. Offers'
  BY <1>1, <1>2, OffersKept DEF Calm
<1> QED
  BY <1>1, <1>2, <1>3, <1>4, <1>5

LEMMA StartingKeeps ==
  ASSUME TypeOK, AdmissionInv, Starting
  PROVE  [Next]_vars /\ AdmissionInv'
<1> USE DEF AdmissionInv
<1>1. CASE Create
  <2>1. /\ UNCHANGED <<vars, subVars, queue, active, takeVars, recVars>>
        /\ stage = "create" /\ stage' = "lookup"
    BY <1>1 DEF Create
  <2>2. TypeOK' /\ Calm
    BY <2>1, TypesStay, StillIsCalm
  <2>3. Coordinated' /\ Scanning'
    BY <2>1, ScanStays DEF Coordinated, Stages
  <2> QED
    BY <2>1, <2>2, <2>3, UntouchedKeeps DEF takeVars
<1>2. CASE Lookup
  <2>1. UNCHANGED vars /\ stage = "lookup" /\ TypeOK' /\ Calm
    BY <1>2, TypesStay, StillIsCalm DEF Lookup
  <2>2. active # None
    BY <2>1 DEF Coordinated
  <2>3. CASE JobEnds("answered", {RunFor(active)})
    BY <2>1, <2>2, <2>3, JobEndsKeeps DEF Reasons
  <2>4. CASE /\ Executes(RunFor(active)) /\ stage' = "acquire"
             /\ UNCHANGED <<subVars, queue, active, absorbed, taken, recVars>>
    <3>1. Coordinated' /\ Scanning' /\ offered' \subseteq offered
      BY <2>1, <2>4, ScanStays DEF Coordinated, Stages, Executes
    <3> QED
      BY <2>1, <2>4, <3>1, UntouchedKeeps
  <2> QED
    BY <1>2, <2>1, <2>3, <2>4 DEF Lookup
<1>3. CASE AcquireRun
  <2>1. stage = "acquire" /\ active # None /\ RunFor(active) \in Runs
    BY <1>3, JobRuns DEF AcquireRun, Coordinated
  <2>2. CASE /\ Acquire(Self, RunFor(active), read) /\ stage' = "run"
             /\ AcquisitionSettles(active, {RunFor(active)})
             /\ UNCHANGED <<subVars, queue, active, takeVars>>
    <3>1. Next /\ Calm /\ TypeOK'
      BY <2>1, <2>2, AcquireIs, TypesStay
    <3>2. Coordinated' /\ Scanning'
      BY <2>1, <2>2, SettlesIs DEF Coordinated, Stages
    <3> QED
      BY <2>2, <3>1, <3>2, UntouchedKeeps DEF takeVars
  <2>3. CASE /\ JobEnds(IF state[RunFor(active)] = "queued" THEN "unsettled" ELSE "failed", {})
             /\ UNCHANGED vars
    <3>1. TypeOK' /\ Calm
      BY <2>3, TypesStay, StillIsCalm
    <3>2. (IF state[RunFor(active)] = "queued" THEN "unsettled" ELSE "failed") \in Reasons
      BY DEF Reasons
    <3> QED
      BY <2>1, <2>3, <3>1, <3>2, JobEndsKeeps
  <2> QED
    BY <1>3, <2>2, <2>3 DEF AcquireRun
<1> QED
  BY <1>1, <1>2, <1>3 DEF Starting

LEMMA AttemptKeeps ==
  ASSUME TypeOK, AdmissionInv, TakeOn \/ Retry
  PROVE  UNCHANGED vars /\ AdmissionInv'
<1> USE DEF AdmissionInv
<1>1. /\ UNCHANGED <<vars, subVars, jobVars, recVars>> /\ TypeOK' /\ Calm
  BY TypesStay, StillIsCalm DEF TakeOn, Retry, AttemptUnchanged
<1>2. Submitted' /\ Coordinated' /\ Jobs' = Jobs /\ Scanning'
  BY <1>1, SubmittedStays, JobsStay, ScanStays DEF jobVars
<1>3. Origins'
  BY <1>1, <1>2, OriginsKept DEF subVars
<1>4. receipt' = receipt /\ active' = active
  BY <1>1 DEF Calm, jobVars
<1>5. Offers'
  <2>1. CASE TakeOn
    <3> DEFINE others == {o \in offered : receipt[o] # RunFor(active)}
    <3>1. /\ offered' = offered \ others /\ absorbed' = absorbed \cup others
          /\ taken' = taken \cup others
      BY <2>1 DEF TakeOn
    <3>2. \A o \in others : o \in offered /\ receipt[o] # RunFor(active)
      OBVIOUS
    <3> HIDE DEF others
    <3> QED
      BY <1>4, <3>1, <3>2 DEF Offers, RunFor
  <2>2. CASE Retry
    BY <1>4, <2>2, OffersKept DEF Retry, Offers
  <2> QED
    BY <2>1, <2>2
<1> QED
  BY <1>1, <1>2, <1>3, <1>5

LEMMA FinishKeeps ==
  ASSUME TypeOK, AdmissionInv, FinishRun
  PROVE  Next /\ AdmissionInv'
<1> USE DEF AdmissionInv
<1>1. Next /\ Calm /\ TypeOK'
  BY FinishIs, TypesStay
<1>2. JobEnds("answered", {}) /\ active # None
  BY DEF FinishRun, Coordinated
<1> QED
  BY <1>1, <1>2, JobEndsKeeps DEF Reasons

-----------------------------------------------------------------------------
(* The steps of recover() *)

LEMMA ScanIs ==
  ASSUME NEW q \in [1 .. Cardinality(ActiveRuns) -> ActiveRuns]
  PROVE  q \in Seq(Runs)
<1>1. ActiveRuns \subseteq Runs
  BY DEF ActiveRuns
<1>2. Cardinality(ActiveRuns) \in Nat
  BY <1>1, AdmissionAssumption, FS_Subset, FS_CardinalityType
<1> QED
  BY <1>1, <1>2

LEMMA RecoveringKeeps ==
  ASSUME TypeOK, AdmissionInv, StartRecovery \/ Recovering
  PROVE  [Next]_vars /\ AdmissionInv'
<1> USE DEF AdmissionInv
<1>0. step # "idle" => Head(todo) \in Runs
  BY TailIs DEF Scanning
<1>1. CASE StartRecovery
  <2>1. UNCHANGED <<vars, subVars, jobVars, takeVars>> /\ TypeOK' /\ Calm
    BY <1>1, TypesStay, StillIsCalm DEF StartRecovery, RecoveryUnchanged
  <2>2. PICK q \in [1 .. Cardinality(ActiveRuns) -> ActiveRuns] : todo' = q
    BY <1>1 DEF StartRecovery
  <2>3. todo' \in Seq(Runs) /\ step' = step /\ step = "idle" /\ recovered' = TRUE
    BY <1>1, <2>2, ScanIs DEF StartRecovery, Scanning
  <2>4. Scanning' /\ Coordinated'
    BY <2>1, <2>3, JobsStay DEF Scanning, jobVars
  <2> QED
    BY <2>1, <2>4, UntouchedKeeps DEF jobVars, takeVars
<1>2. CASE NextItem \/ Decided \/ Resume
  <2>1. UNCHANGED <<vars, subVars, jobVars, takeVars>> /\ TypeOK' /\ Calm
    BY <1>2, TypesStay, StillIsCalm DEF NextItem, Decided, Resume, RecoveryUnchanged
  <2>2. todo # <<>>
    BY <1>2 DEF NextItem, Decided, Resume, Scanning
  <2>3. \/ ItemOver({})
        \/ todo' = <<>> /\ step' = step /\ recovered' = recovered /\ step = "idle"
        \/ todo' = todo /\ recovered' = recovered
           /\ step' \in {"decide", "abandon", "requeue", "resume", "load"}
    BY <1>2 DEF NextItem, Decided, Resume
  <2>4. Scanning'
    <3>1. CASE ItemOver({})
      BY <2>2, <3>1, ItemOverIs
    <3>2. CASE todo' = <<>> /\ step' = step /\ recovered' = recovered /\ step = "idle"
      <4>1. todo' \in Seq(Runs) /\ step' = "idle"
        BY <3>2
      <4> QED
        BY <3>2, <4>1 DEF Scanning, Steps
    <3>3. CASE /\ todo' = todo /\ recovered' = recovered
               /\ step' \in {"decide", "abandon", "requeue", "resume", "load"}
      BY <2>2, <3>3 DEF Scanning, Steps
    <3> QED
      BY <2>3, <3>1, <3>2, <3>3
  <2>5. Coordinated'
    BY <2>1, JobsStay DEF jobVars
  <2> QED
    BY <2>1, <2>4, <2>5, UntouchedKeeps DEF jobVars, takeVars
<1>3. CASE Decision
  <2>1. UNCHANGED <<subVars, jobVars, takeVars>> /\ step # "idle" /\ todo # <<>>
    BY <1>3 DEF Decision, Scanning
  <2>2. \/ ItemOver({})
        \/ todo' = todo /\ recovered' = recovered /\ step' = "resume"
    BY <1>3 DEF Decision
  <2>3. Scanning'
    BY <2>1, <2>2, ItemOverIs DEF Scanning, Steps
  <2>4. [Next]_vars /\ Calm
    BY <1>0, <1>3, <2>1, ControlIs, StillIsCalm DEF Decision
  <2>5. Coordinated' /\ TypeOK'
    BY <2>1, <2>4, JobsStay, TypesStay DEF jobVars
  <2> QED
    BY <2>1, <2>3, <2>4, <2>5, UntouchedKeeps DEF jobVars, takeVars
<1>4. CASE Load
  <2>1. /\ UNCHANGED <<vars, subVars, offered>> /\ step = "load" /\ todo # <<>>
        /\ TypeOK' /\ Calm
    BY <1>4, TypesStay, StillIsCalm DEF Load, Scanning
  <2>2. CASE ItemOver({}) /\ UNCHANGED <<jobVars, absorbed, taken>>
    <3>1. Scanning' /\ Coordinated'
      BY <2>1, <2>2, ItemOverIs, JobsStay DEF jobVars
    <3> QED
      BY <2>1, <2>2, <3>1, UntouchedKeeps DEF jobVars
  <2>3. CASE /\ step' = "wait" /\ Enqueue(Head(todo), "queue")
             /\ UNCHANGED <<todo, scheduled, recovered>>
    <3>1. Head(todo) \in Runs /\ Scanning'
      BY <1>0, <2>1, <2>3 DEF Scanning, Steps
    <3>2. /\ Coordinated' /\ Jobs' \subseteq Jobs \cup {Head(todo)}
          /\ \/ active' = active /\ UNCHANGED <<absorbed, taken>>
             \/ absorbed' = {} /\ taken' = {}
      BY <2>3, <3>1, EnqueueIs
    <3>3. \A s \in Keys \cap Jobs' : s \in Jobs
      BY <3>1, <3>2, AdmissionAssumption
    <3>4. Submitted' /\ plan' = plan /\ phase' = phase
      BY <2>1, SubmittedStays DEF subVars
    <3>5. Origins'
      BY <2>1, <3>3, <3>4, OriginsKept
    <3>6. Offers'
      BY <2>1, <3>2, OffersKept DEF Offers, Calm
    <3> QED
      BY <2>1, <3>1, <3>2, <3>4, <3>5, <3>6
  <2> QED
    BY <1>4, <2>1, <2>2, <2>3 DEF Load
<1> QED
  BY <1>1, <1>2, <1>3, <1>4 DEF Recovering

-----------------------------------------------------------------------------
(* The steps of interrupt() and close() *)

LEMMA InterruptKeeps ==
  ASSUME TypeOK, AdmissionInv, NEW r \in Runs, InterruptRun(r) \/ Stop(r)
  PROVE  [Next]_vars /\ AdmissionInv'
<1> USE DEF AdmissionInv
<1>1. UNCHANGED <<subVars, queue, active, stage, takeVars, recVars>>
  BY DEF InterruptRun, Stop, jobVars
<1>2. [Next]_vars /\ Calm
  BY ControlIs, StillIsCalm DEF InterruptRun, Stop
<1>3. Coordinated' /\ Scanning' /\ TypeOK'
  BY <1>1, <1>2, JobsStay, ScanStays, TypesStay
<1> QED
  BY <1>1, <1>2, <1>3, UntouchedKeeps DEF takeVars

LEMMA CloseKeeps ==
  ASSUME TypeOK, AdmissionInv, Close \/ GraceEnds \/ Return
  PROVE  UNCHANGED vars /\ AdmissionInv'
<1> USE DEF AdmissionInv
<1>1. /\ UNCHANGED <<vars, subVars, queue, active, stage, absorbed, taken, recVars>>
      /\ offered' \subseteq offered
  BY DEF Close, GraceEnds, Return, jobVars, takeVars
<1>2. Coordinated' /\ Scanning' /\ TypeOK' /\ Calm
  BY <1>1, StillIsCalm, JobsStay, ScanStays, TypesStay
<1> QED
  BY <1>1, <1>2, UntouchedKeeps

LEMMA DrainKeeps ==
  ASSUME TypeOK, AdmissionInv, Drain
  PROVE  UNCHANGED vars /\ AdmissionInv'
<1> USE DEF AdmissionInv
<1> DEFINE S == ToSet(queue) \cap Keys
           T == S \cup Followers(S)
<1>1. /\ Tell(S, "closed") /\ queue' = <<>>
      /\ IF step = "wait" /\ Head(todo) \in ToSet(queue)
           THEN ItemOver({}) ELSE UNCHANGED recVars
      /\ UNCHANGED <<vars, policy, stamp, plan, clock, active, stage, absorbed, taken>>
  BY DEF Drain
<1>2. Ending(T, "closed")
  BY <1>1, TellEnds
<1>3. \A s \in Keys : s \in T => phase[s] # "new"
  BY JobsAreIn DEF Jobs, Followers
<1> HIDE DEF S, T
<1>4. TypeOK' /\ Calm
  BY <1>1, TypesStay, StillIsCalm
<1>5. Submitted'
  BY <1>2, <1>3, EndingKeeps DEF Reasons
<1>6. Scanning'
  <2>1. CASE step = "wait" /\ Head(todo) \in ToSet(queue)
    BY <1>1, <2>1, ItemOverIs DEF Scanning
  <2>2. CASE ~(step = "wait" /\ Head(todo) \in ToSet(queue))
    BY <1>1, <2>2, ScanStays
  <2> QED
    BY <2>1, <2>2
<1>7. Coordinated' /\ Jobs' \subseteq Jobs
  <2>1. queue' \in Seq(Keys \cup Runs) /\ ToSet(queue') = {}
    BY <1>1 DEF ToSet
  <2> QED
    BY <1>1, <2>1 DEF Coordinated, Jobs
<1>8. Origins'
  BY <1>2, <1>4, <1>5, <1>7, OriginsKept DEF Ending
<1>9. Offers'
  BY <1>1, <1>2, <1>4, OffersKept DEF Ending, Offers, Calm
<1> QED
  BY <1>1, <1>5, <1>6, <1>7, <1>8, <1>9

-----------------------------------------------------------------------------
(* The runtime implements the store *)

LEMMA AdmissionStarts == AdmissionInit => TypeOK /\ AdmissionInv
<1> USE StoreAssumption, AdmissionAssumption
<1> SUFFICES ASSUME AdmissionInit PROVE TypeOK /\ AdmissionInv
  OBVIOUS
<1>1. TypeOK
  BY DEF AdmissionInit, Init, TypeOK, RunStates, Admissions
<1>2. Submitted
  <2>1. {s \in Keys : phase[s] # "new"} = {}
    BY DEF AdmissionInit
  <2>2. Cardinality({}) = 0 /\ 0 \in 0 .. Cardinality(Keys)
    BY FS_EmptySet, FS_CardinalityType
  <2> QED
    BY <2>1, <2>2 DEF AdmissionInit, Submitted, Phases, InputPolicies, Reasons, NoPlan, Idle
<1>3. Coordinated /\ Scanning
  BY DEF AdmissionInit, Coordinated, Scanning, Stages, Steps
<1>4. Origins
  BY DEF AdmissionInit, Init, Origins, Jobs, ToSet
<1>5. Offers
  BY DEF AdmissionInit, Offers
<1> QED
  BY <1>1, <1>2, <1>3, <1>4, <1>5 DEF AdmissionInv

\* Every step of the runtime is one mutation of the store or none.
LEMMA AdmissionStep ==
  TypeOK /\ AdmissionInv /\ [AdmissionNext]_admissionVars => [Next]_vars /\ AdmissionInv'
<1> SUFFICES ASSUME TypeOK, AdmissionInv, [AdmissionNext]_admissionVars
             PROVE  [Next]_vars /\ AdmissionInv'
  OBVIOUS
<1>1. CASE UNCHANGED admissionVars
  <2>1. UNCHANGED <<vars, subVars, jobVars, takeVars, recVars>>
    BY <1>1 DEF admissionVars
  <2>2. Calm /\ TypeOK' /\ Coordinated' /\ Scanning'
    BY <2>1, StillIsCalm, TypesStay, JobsStay, ScanStays DEF AdmissionInv, jobVars
  <2> QED
    BY <2>1, <2>2, UntouchedKeeps DEF jobVars, takeVars
<1>2. CASE AdmissionNext
  <2>1. ASSUME NEW s \in Keys, NEW how \in InputPolicies, Submit(s, how)
        PROVE  [Next]_vars /\ AdmissionInv'
    BY <2>1, SubmitKeeps
  <2>2. ASSUME NEW s \in Keys, Submission(s)
        PROVE  [Next]_vars /\ AdmissionInv'
    BY <2>2, PreflightKeeps, WriteKeeps, HandOffKeeps DEF Submission
  <2>3. ASSUME NEW r \in Runs, InterruptRun(r) \/ Stop(r)
        PROVE  [Next]_vars /\ AdmissionInv'
    BY <2>3, InterruptKeeps
  <2>4. ASSUME NEW k \in Elsewhere, AdmittedElsewhere(k)
        PROVE  [Next]_vars /\ AdmissionInv'
    BY <2>4, ElsewhereKeeps
  <2>5. CASE Starting
    BY <2>5, StartingKeeps
  <2>6. CASE TakeOn \/ Retry
    BY <2>6, AttemptKeeps
  <2>7. CASE FinishRun
    BY <2>7, FinishKeeps
  <2>8. CASE StartRecovery \/ Recovering
    BY <2>8, RecoveringKeeps
  <2>9. CASE Close \/ Stopping
    BY <2>9, CloseKeeps, DrainKeeps DEF Stopping
  <2> QED
    BY <1>2, <2>1, <2>2, <2>3, <2>4, <2>5, <2>6, <2>7, <2>8, <2>9 DEF AdmissionNext
<1> QED
  BY <1>1, <1>2

THEOREM AdmissionSound == AdmissionSpec => [](TypeOK /\ AdmissionInv)
<1>1. TypeOK /\ AdmissionInv /\ [AdmissionNext]_admissionVars => (TypeOK /\ AdmissionInv)'
  BY AdmissionStep, TypesStay
<1> QED
  BY <1>1, AdmissionStarts, PTL DEF AdmissionSpec

\* Whatever submissions, the coordinator, recover(), close() and another process do
\* to one conversation, its store sees a run of mutations that it allows: with the
\* theorems of the store, the properties of the store hold under this runtime.
THEOREM AdmissionImplementsStore == AdmissionSpec => Spec
<1>1. AdmissionInit => Init
  BY DEF AdmissionInit
<1>2. TypeOK /\ AdmissionInv /\ [AdmissionNext]_admissionVars => [Next]_vars
  BY AdmissionStep
<1> QED
  BY <1>1, <1>2, AdmissionSound, PTL DEF AdmissionSpec, Spec

-----------------------------------------------------------------------------
(* What a ticket answers *)

\* A receipt, once written, stays.
LEMMA ReceiptsStay ==
  ASSUME TypeOK, [Next]_vars, NEW k \in Keys, receipt[k] # None
  PROVE  receipt'[k] = receipt[k]
<1>1. CASE UNCHANGED vars
  BY <1>1 DEF vars, acceptVars
<1>2. CASE Next
  <2>1. ASSUME NEW x \in Keys, receipt[x] = None, NEW r \in Runs,
               receipt' = [receipt EXCEPT ![x] = r]
        PROVE  receipt'[k] = receipt[k]
    BY <2>1 DEF TypeOK
  <2>2. CASE Admission
    BY <2>1, <2>2 DEF Admission, Accept, Coalesce, Fresh
  <2>3. CASE Control
    BY <2>3 DEF Control, Interrupt, Requeue, Abandon, Recover, acceptVars
  <2>4. CASE Execution
    BY <2>4 DEF Execution, Acquire, Checkpoint, Operation, Finish, acceptVars
  <2> QED
    BY <1>2, <2>2, <2>3, <2>4 DEF Next
<1> QED
  BY <1>1, <1>2

\* Whoever was told of an answer has an input in the store, and its run is settled.
Told == \A s \in Keys :
  result[s] = "answered" => receipt[s] # None /\ state[receipt[s]] \in Terminal

\* A submission may be told now: its run is settled by this step or before.
LEMMA ToldKept ==
  ASSUME TypeOK, [Next]_vars, Told,
         \A s \in Keys : \/ result'[s] = result[s] \/ result'[s] # "answered"
                         \/ receipt'[s] # None /\ state'[receipt'[s]] \in Terminal
  PROVE  Told'
<1> SUFFICES ASSUME NEW s \in Keys, result'[s] = "answered"
             PROVE  receipt'[s] # None /\ state'[receipt'[s]] \in Terminal
  BY DEF Told
<1>1. CASE result'[s] = result[s]
  <2>1. receipt[s] # None /\ state[receipt[s]] \in Terminal /\ receipt[s] \in Runs
    BY <1>1 DEF Told, TypeOK
  <2>2. receipt'[s] = receipt[s] /\ state'[receipt[s]] \in Terminal
    BY <2>1, ReceiptsStay, SettledRemains
  <2> QED
    BY <2>1, <2>2
<1>2. CASE result'[s] # result[s]
  BY <1>2
<1> QED
  BY <1>1, <1>2

\* The input of an attached submission is in the run it coalesced into.
LEMMA FollowersAreThere ==
  ASSUME Origins, Submitted, NEW s \in Keys, NEW f \in Followers({s})
  PROVE  f \in Keys /\ receipt[f] = RunOf[s] /\ state[RunOf[s]] # "absent"
BY AdmissionAssumption, StoreAssumption DEF Origins, Submitted, Followers

LEMMA EndTells ==
  ASSUME TypeOK, AdmissionInv, Told, [Next]_vars, Calm, active # None,
         NEW why, NEW resumed, JobEnds(why, resumed),
         why = "answered" => state'[RunFor(active)] \in Terminal
  PROVE  Told'
<1> USE DEF AdmissionInv
<1>1. CASE active \in Keys
  <2> DEFINE T == {active} \cup Followers({active})
  <2>1. Ending(T, why)
    BY <1>1, TellEnds DEF JobEnds
  <2>2. \A s \in Keys : s \in T => receipt[s] = RunOf[active]
    BY <1>1, JobsAreIn, FollowersAreThere DEF Jobs
  <2>3. RunOf[active] = RunFor(active) /\ RunOf[active] # None
    BY <1>1, AdmissionAssumption, StoreAssumption DEF RunFor
  <2> HIDE DEF T
  <2>4. \A s \in Keys : result'[s] = IF s \in T THEN why ELSE result[s]
    BY <2>1 DEF Ending
  <2> QED
    BY <2>2, <2>3, <2>4, ToldKept DEF Calm
<1>2. CASE active \notin Keys
  <2>1. result' = result
    BY <1>2 DEF JobEnds, subVars
  <2> QED
    BY <2>1, ToldKept
<1> QED
  BY <1>1, <1>2

\* A refusal that is not an answer, and one that is: the submission's run is settled,
\* and nobody has coalesced into it.
LEMMA RefusalTells ==
  ASSUME TypeOK, AdmissionInv, Told, [Next]_vars, NEW s \in Keys, NEW why,
         Refuse(s, why),
         why # "answered"
           \/ /\ receipt'[s] # None /\ state'[receipt'[s]] \in Terminal
              /\ plan[s].schedules => Followers({s}) = {}
  PROVE  Told'
<1> DEFINE T == IF plan[s].schedules THEN {s} \cup Followers({s}) ELSE {s}
<1>1. Ending(T, why)
  BY RefuseEnds DEF AdmissionInv
<1>2. why = "answered" => T = {s}
  OBVIOUS
<1> HIDE DEF T
<1>3. \A x \in Keys : result'[x] = IF x \in T THEN why ELSE result[x]
  BY <1>1 DEF Ending
<1> QED
  BY <1>2, <1>3, ToldKept

LEMMA WriteTells ==
  ASSUME TypeOK, Bookkeeping, AdmissionInv, Told, NEW s \in Keys, Write(s)
  PROVE  Told'
<1> USE DEF AdmissionInv
<1>1. [Next]_vars /\ phase[s] = "cleared"
  BY WriteKeeps DEF Write
<1>2. CASE Moves(s, "written")
  BY <1>1, <1>2, ToldKept DEF Moves
<1>3. CASE Refuse(s, "refused") \/ Refuse(s, "conflict")
  BY <1>1, <1>3, RefusalTells
<1>4. CASE ~Fresh(s) /\ Refuse(s, Duplicate(s)) /\ UNCHANGED vars
  <2>1. receipt[s] # None /\ receipt[s] \in Runs /\ receipt' = receipt /\ state' = state
    BY <1>4 DEF Fresh, TypeOK, vars, acceptVars
  <2>2. Followers({s}) = {}
    BY <1>1, FollowersAreThere DEF Origins
  <2>3. Duplicate(s) = "answered" => state[receipt[s]] \in Terminal
    BY <2>1 DEF Duplicate, AdmittedRun, Bookkeeping, Terminal, Outcomes
  <2> QED
    BY <1>1, <1>4, <2>1, <2>2, <2>3, RefusalTells
<1> QED
  BY <1>2, <1>3, <1>4 DEF Write

LEMMA HandOffTells ==
  ASSUME TypeOK, AdmissionInv, Told, NEW s \in Keys, HandOff(s)
  PROVE  Told'
<1> USE DEF AdmissionInv
<1>1. UNCHANGED vars /\ [Next]_vars /\ phase[s] = "written"
  BY DEF HandOff
<1>2. CASE Moves(s, "ticketed") \/ Moves(s, "attached")
  BY <1>1, <1>2, ToldKept DEF Moves
<1>3. CASE Refuse(s, "closed")
  BY <1>1, <1>3, RefusalTells
<1>4. CASE /\ ~plan[s].schedules
           /\ \E t \in Keys : RunOf[t] = plan[s].run /\ Refuse(s, result[t])
  <2>1. PICK t \in Keys : RunOf[t] = plan[s].run /\ Refuse(s, result[t])
    BY <1>4
  <2>2. receipt[s] = RunOf[t] /\ RunOf[t] \in Runs /\ RunOf[t] # None
    BY <1>1, <1>4, <2>1, AdmissionAssumption, StoreAssumption DEF Origins
  <2>3. state[RunOf[t]] # "absent" /\ receipt[t] = RunOf[t]
    BY <2>2 DEF Origins
  <2>4. result[t] = "answered" => state[receipt[s]] \in Terminal
    BY <2>2, <2>3 DEF Told
  <2>5. receipt' = receipt /\ state' = state
    BY <1>1 DEF vars, acceptVars
  <2> QED
    BY <1>1, <1>4, <2>1, <2>2, <2>4, <2>5, RefusalTells
<1> QED
  BY <1>2, <1>3, <1>4 DEF HandOff

LEMMA TellsAnswers ==
  TypeOK /\ Bookkeeping /\ AdmissionInv /\ Told /\ [AdmissionNext]_admissionVars => Told'
<1> SUFFICES ASSUME TypeOK, Bookkeeping, AdmissionInv, Told, [AdmissionNext]_admissionVars
             PROVE  Told'
  OBVIOUS
<1> USE DEF AdmissionInv
<1>1. [Next]_vars
  BY AdmissionStep
<1>2. CASE result' = result
  BY <1>1, <1>2, ToldKept
<1>3. ASSUME NEW s \in Keys, Preflight(s)  PROVE Told'
  BY <1>1, <1>2, <1>3, RefusalTells DEF Preflight, Moves
<1>4. ASSUME NEW s \in Keys, Submission(s)  PROVE Told'
  BY <1>3, <1>4, WriteTells, HandOffTells DEF Submission
<1>5. CASE Lookup
  <2>1. UNCHANGED vars /\ Calm /\ active # None /\ RunFor(active) \in Runs
    BY <1>5, StillIsCalm, JobRuns DEF Lookup, Coordinated
  <2>2. CASE into[RunFor(active)] # None /\ JobEnds("answered", {RunFor(active)})
    <3>1. state'[RunFor(active)] \in Terminal
      BY <2>1, <2>2 DEF Bookkeeping, Terminal, Outcomes, vars
    <3> QED
      BY <1>1, <2>1, <2>2, <3>1, EndTells
  <2>3. CASE UNCHANGED subVars
    BY <1>2, <2>3 DEF subVars
  <2> QED
    BY <1>5, <2>2, <2>3 DEF Lookup
<1>6. CASE AcquireRun
  <2>1. active # None /\ ("unsettled" # "answered" /\ "failed" # "answered")
    BY <1>6 DEF AcquireRun, Coordinated
  <2>2. CASE UNCHANGED subVars
    BY <1>2, <2>2 DEF subVars
  <2>3. CASE /\ JobEnds(IF state[RunFor(active)] = "queued" THEN "unsettled" ELSE "failed", {})
             /\ UNCHANGED vars
    <3>1. Calm
      BY <2>3, StillIsCalm
    <3>2. (IF state[RunFor(active)] = "queued" THEN "unsettled" ELSE "failed") # "answered"
      OBVIOUS
    <3> QED
      BY <1>1, <2>1, <2>3, <3>1, <3>2, EndTells
  <2> QED
    BY <1>6, <2>2, <2>3 DEF AcquireRun
<1>7. CASE FinishRun
  BY <1>1, <1>7, FinishIs, EndTells DEF FinishRun, Coordinated
<1>8. CASE Drain
  <2> DEFINE S == ToSet(queue) \cap Keys
             T == S \cup Followers(S)
  <2>1. Tell(S, "closed")
    BY <1>8 DEF Drain
  <2>2. result' = [s \in Keys |-> IF s \in T THEN "closed" ELSE result[s]]
    BY <2>1 DEF Tell
  <2> HIDE DEF S, T
  <2> QED
    BY <1>1, <2>2, ToldKept
<1>9. CASE \/ UNCHANGED admissionVars \/ Create \/ TakeOn \/ Retry
           \/ StartRecovery \/ Recovering \/ Close \/ GraceEnds \/ Return
           \/ \E s \in Keys, how \in InputPolicies : Submit(s, how)
           \/ \E r \in Runs : InterruptRun(r) \/ Stop(r)
           \/ \E k \in Elsewhere : AdmittedElsewhere(k)
  <2>1. result' = result
    BY <1>9 DEF admissionVars, subVars, Create, TakeOn, Retry, AttemptUnchanged,
                StartRecovery, RecoveryUnchanged, Recovering, NextItem, Decided, Decision,
                Resume, Load, Close, GraceEnds, Return, Submit, InterruptRun, Stop,
                AdmittedElsewhere
  <2> QED
    BY <1>2, <2>1
<1> QED
  BY <1>4, <1>5, <1>6, <1>7, <1>8, <1>9 DEF AdmissionNext, Starting, Stopping

\* The store's own invariants, under the runtime.
LEMMA StoreUnderRuntime == AdmissionSpec => [](TypeOK /\ Bookkeeping /\ Carriage)
BY AdmissionImplementsStore, TypeCorrect, Kept, CarriageKept, PTL

\* A ticket that resolves was answered: its input is in the store, the run that
\* carries the input, as the store would tell a duplicate, is settled.
THEOREM TicketsAreAnswered == AdmissionSpec => []AnswersAreTheirs
<1>1. AdmissionInit => Told
  BY DEF AdmissionInit, Told
<1>2. AdmissionSpec => []Told
  BY <1>1, AdmissionSound, StoreUnderRuntime, TellsAnswers, PTL DEF AdmissionSpec
<1>3. TypeOK /\ Carriage /\ Told => AnswersAreTheirs
  <2> SUFFICES ASSUME TypeOK, Carriage, Told, NEW s \in Keys, result[s] = "answered"
               PROVE  /\ receipt[s] # None /\ state[AdmittedRun(s)] \in Terminal
                      /\ s \in inputs[AdmittedRun(s)]
    BY DEF AnswersAreTheirs
  <2>1. receipt[s] \in Runs /\ receipt[s] # None /\ state[receipt[s]] \in Terminal
    BY DEF Told, TypeOK
  <2>2. s \in inputs[AdmittedRun(s)]
    BY <2>1 DEF Carriage, DuplicateFindsItsRun
  <2>3. into[receipt[s]] # None => state[into[receipt[s]]] \in Terminal
    BY <2>1 DEF Carriage, AbsorptionSound, Terminal, Outcomes
  <2> QED
    BY <2>1, <2>2, <2>3 DEF AdmittedRun
<1> QED
  BY <1>2, <1>3, StoreUnderRuntime, PTL

-----------------------------------------------------------------------------
(* What an absorbed input was shown to *)

\* Who asks the store for what.
LEMMA StoreIsAsked ==
  ASSUME AdmissionNext
  PROVE  \/ UNCHANGED vars
         \/ \E s \in Keys : phase[s] = "cleared" /\ Admit(s)
         \/ \E k \in Elsewhere : AdmittedElsewhere(k)
         \/ /\ stage = "acquire" /\ Acquire(Self, RunFor(active), read)
            /\ stage' = "run" /\ active' = active
         \/ FinishRun
         \/ \E r \in Runs : Interrupt(r, revision[r])
         \/ step # "idle" /\ \E r \in {Head(todo)} :
              state[r] = "queued" /\ (Requeue(r, revision[r], TRUE) \/ Abandon(r, revision[r]))
<1>1. ASSUME NEW s \in Keys, Submission(s)
      PROVE  UNCHANGED vars \/ (phase[s] = "cleared" /\ Admit(s))
  BY <1>1 DEF Submission, Preflight, Write, HandOff
<1>2. CASE Starting
  BY <1>2 DEF Starting, Create, Lookup, AcquireRun
<1>3. CASE Recovering
  BY <1>3 DEF Recovering, NextItem, Decided, Decision, Resume, Load, RecoveryUnchanged
<1>4. ASSUME NEW s \in Keys, NEW how \in InputPolicies, Submit(s, how)
      PROVE  UNCHANGED vars
  BY <1>4 DEF Submit
<1>5. ASSUME NEW r \in Runs, InterruptRun(r) \/ Stop(r)
      PROVE  UNCHANGED vars \/ Interrupt(r, revision[r])
  BY <1>5 DEF InterruptRun, Stop
<1>6. CASE TakeOn \/ Retry \/ StartRecovery \/ Close \/ Stopping
  BY <1>6 DEF TakeOn, Retry, AttemptUnchanged, StartRecovery, RecoveryUnchanged, Close,
              Stopping, Drain, GraceEnds, Return
<1> QED
  BY <1>1, <1>2, <1>3, <1>4, <1>5, <1>6 DEF AdmissionNext

\* Only a commit absorbs.
LEMMA OnlyFinishAbsorbs ==
  ASSUME [AdmissionNext]_admissionVars
  PROVE  into' = into \/ FinishRun
<1>1. CASE UNCHANGED admissionVars
  BY <1>1 DEF admissionVars, vars
<1>2. CASE AdmissionNext
  <2>1. ASSUME NEW s \in Keys, Admit(s)  PROVE into' = into
    BY <2>1 DEF Admit, Accept, Coalesce
  <2>2. ASSUME NEW k \in Elsewhere, AdmittedElsewhere(k)  PROVE into' = into
    BY <2>2 DEF AdmittedElsewhere, Accept
  <2>3. ASSUME Acquire(Self, RunFor(active), read)  PROVE into' = into
    BY <2>3 DEF Acquire
  <2>4. ASSUME NEW r, \/ Interrupt(r, revision[r]) \/ Requeue(r, revision[r], TRUE)
                      \/ Abandon(r, revision[r])
        PROVE  into' = into
    BY <2>4 DEF Interrupt, Requeue, Abandon, Recover
  <2> QED
    BY <1>2, <2>1, <2>2, <2>3, <2>4, StoreIsAsked DEF vars
<1> QED
  BY <1>1, <1>2

\* What a commit absorbs are inputs of the attempt that it commits: the inputs of a run
\* are compared with the claim, the claim names what the execution took on, and a retry
\* has handed back what the attempts before it took.
THEOREM AbsorbedInputsWereShown == AdmissionSpec => AbsorbedWereShown
<1>1. TypeOK /\ AdmissionInv /\ [AdmissionNext]_admissionVars
        => [\A r \in Runs : into'[r] # into[r] => inputs[r] \subseteq taken]_admissionVars
  <2> SUFFICES ASSUME TypeOK, AdmissionInv, [AdmissionNext]_admissionVars,
                      NEW r \in Runs, into'[r] # into[r]
               PROVE  inputs[r] \subseteq taken
    OBVIOUS
  <2>1. FinishRun
    BY OnlyFinishAbsorbs
  <2>2. PICK outcome \in Endings(RunFor(active)) :
          Finish(Self, RunFor(active), revision[RunFor(active)], outcome, Claimed(outcome))
    BY <2>1 DEF FinishRun
  <2> DEFINE claim == Claimed(outcome)
  <2>3. into' = [c \in Runs |-> IF c \in Absorbable(claim) THEN RunFor(active) ELSE into[c]]
    BY <2>2 DEF Finish
  <2>4. r \in DOMAIN claim /\ inputs[r] = claim[r]
    BY <2>3 DEF Absorbable
  <2>5. claim[r] \subseteq absorbed
    BY <2>4 DEF Claimed
  <2> QED
    BY <2>4, <2>5 DEF AdmissionInv, Offers
<1> QED
  BY <1>1, AdmissionSound, PTL DEF AdmissionSpec, AbsorbedWereShown

-----------------------------------------------------------------------------
(* Urgent submissions go first *)

Ordered == \A i, j \in DOMAIN queue : i < j /\ Urgent(queue[j]) => Urgent(queue[i])

\* A job of the coordinator keeps its urgency: submit() sets the policy of a new one.
LEMMA UrgencyStays ==
  ASSUME AdmissionInv, [AdmissionNext]_admissionVars, NEW j \in Jobs'
  PROVE  j \in Keys => policy'[j] = policy[j]
<1>1. CASE policy' = policy
  BY <1>1
<1>2. ASSUME NEW s \in Keys, NEW how \in InputPolicies, Submit(s, how)
      PROVE  j \in Keys => policy'[j] = policy[j]
  <2>1. phase[s] = "new" /\ policy' = [policy EXCEPT ![s] = how]
    BY <1>2 DEF Submit
  <2>2. j \in Keys => phase[j] # "new"
    BY <1>2, JobsAreIn, JobsStay DEF Submit, jobVars, AdmissionInv
  <2> QED
    BY <2>1, <2>2 DEF AdmissionInv, Submitted
<1>3. ASSUME NEW s \in Keys, Submission(s)  PROVE policy' = policy
  BY <1>3 DEF Submission, Preflight, Write, HandOff, Moves, Refuse
<1>4. CASE UNCHANGED admissionVars
  BY <1>1, <1>4 DEF admissionVars, subVars
<1>5. CASE Starting \/ FinishRun
  BY <1>1, <1>5 DEF Starting, Create, Lookup, AcquireRun, FinishRun, JobEnds, subVars
<1>6. CASE TakeOn \/ Retry \/ StartRecovery \/ Recovering \/ Close \/ Stopping
  BY <1>1, <1>6 DEF TakeOn, Retry, AttemptUnchanged, StartRecovery, RecoveryUnchanged,
       Recovering, NextItem, Decided, Decision, Resume, Load, Close, Stopping, Drain,
       GraceEnds, Return, subVars
<1>7. ASSUME NEW r \in Runs, InterruptRun(r) \/ Stop(r)  PROVE policy' = policy
  BY <1>7 DEF InterruptRun, Stop, subVars
<1>8. ASSUME NEW k \in Elsewhere, AdmittedElsewhere(k)  PROVE policy' = policy
  BY <1>8 DEF AdmittedElsewhere, subVars
<1> QED
  BY <1>1, <1>2, <1>3, <1>4, <1>5, <1>6, <1>7, <1>8 DEF AdmissionNext

\* What a step does to the queue: nothing, one job more or less, or nothing is left.
QueueMoves ==
  \/ UNCHANGED <<queue, active>>
  \/ queue' = <<>> /\ active' = active
  \/ StartNext
  \/ \E j \in Keys \cup Runs, how \in InputPolicies :
       (how = "interrupt-next" <=> Urgent(j)) /\ Enqueue(j, how)

LEMMA StepsOfTheQueue ==
  ASSUME AdmissionInv, [AdmissionNext]_admissionVars
  PROVE  QueueMoves
<1>1. CASE UNCHANGED <<queue, active>>
  BY <1>1 DEF QueueMoves
<1>2. ASSUME NEW s \in Keys, Submission(s)  PROVE QueueMoves
  <2>1. CASE UNCHANGED jobVars
    BY <1>1, <2>1 DEF jobVars
  <2>2. CASE Enqueue(s, policy[s])
    <3>1. (policy[s] = "interrupt-next" <=> Urgent(s)) /\ policy[s] \in InputPolicies
      BY DEF Urgent, AdmissionInv, Submitted
    <3> QED
      BY <2>2, <3>1 DEF QueueMoves
  <2> QED
    BY <1>2, <2>1, <2>2 DEF Submission, Preflight, Write, HandOff
<1>3. CASE Load
  <2>1. CASE UNCHANGED jobVars
    BY <1>1, <2>1 DEF jobVars
  <2>2. CASE step = "load" /\ Enqueue(Head(todo), "queue")
    <3>1. Head(todo) \in Runs
      BY <2>2, TailIs DEF AdmissionInv, Scanning
    <3>2. ~Urgent(Head(todo)) /\ "queue" \in InputPolicies
      BY <3>1, AdmissionAssumption DEF Urgent, InputPolicies
    <3> QED
      BY <2>2, <3>1, <3>2 DEF QueueMoves
  <2> QED
    BY <1>3, <2>1, <2>2 DEF Load
<1>4. CASE Starting \/ FinishRun
  BY <1>4 DEF Starting, Create, Lookup, AcquireRun, FinishRun, JobEnds, QueueMoves
<1>5. CASE Drain
  BY <1>5 DEF Drain, QueueMoves
<1>6. CASE \/ UNCHANGED admissionVars \/ TakeOn \/ Retry \/ StartRecovery \/ NextItem
           \/ Decided \/ Decision \/ Resume \/ Close \/ GraceEnds \/ Return
           \/ \E s \in Keys, how \in InputPolicies : Submit(s, how)
           \/ \E r \in Runs : InterruptRun(r) \/ Stop(r)
           \/ \E k \in Elsewhere : AdmittedElsewhere(k)
  <2>1. UNCHANGED <<queue, active>>
    BY <1>6 DEF admissionVars, jobVars, TakeOn, Retry, AttemptUnchanged,
                StartRecovery, RecoveryUnchanged, NextItem, Decided, Decision,
                Resume, Close, GraceEnds, Return, Submit, InterruptRun, Stop,
                AdmittedElsewhere
  <2> QED
    BY <1>1, <2>1
<1> QED
  BY <1>2, <1>3, <1>4, <1>5, <1>6 DEF AdmissionNext, Recovering, Stopping

\* The queue is ordered still, read with the policies of before the step.
LEMMA OrderedMoves ==
  ASSUME Coordinated, Ordered, QueueMoves
  PROVE  /\ \A i, j \in DOMAIN queue' : i < j /\ Urgent(queue'[j]) => Urgent(queue'[i])
         /\ active' # active /\ active' \in Keys /\ ~Urgent(active')
              => \A i \in DOMAIN queue' : ~Urgent(queue'[i])
<1> DEFINE InOrder == \A i, j \in DOMAIN queue' :
                        i < j /\ Urgent(queue'[j]) => Urgent(queue'[i])
           First == active' # active /\ active' \in Keys /\ ~Urgent(active')
                      => \A i \in DOMAIN queue' : ~Urgent(queue'[i])
<1>0. queue \in Seq(Keys \cup Runs) /\ Len(queue) \in Nat /\ DOMAIN queue = 1 .. Len(queue)
  BY ElementsOf DEF Coordinated
<1>1. CASE UNCHANGED <<queue, active>>
  BY <1>1 DEF Ordered
<1>2. CASE queue' = <<>>
  BY <1>2
<1>3. CASE queue # <<>> /\ Starts(Head(queue), Tail(queue))
  <2> DEFINE t == Tail(queue)
  <2>1. /\ Head(queue) = queue[1] /\ 1 \in DOMAIN queue /\ Len(t) = Len(queue) - 1
        /\ \A i \in 1 .. Len(t) : t[i] = queue[i + 1]
        /\ t \in Seq(Keys \cup Runs)
    BY <1>0, <1>3, TailIs
  <2>2. queue' = t /\ active' = Head(queue)
    BY <1>3 DEF Starts
  <2> HIDE DEF t
  <2>3. DOMAIN t = 1 .. Len(t)
    BY <2>1, ElementsOf
  <2>4. \A i \in DOMAIN t : i + 1 \in DOMAIN queue /\ t[i] = queue[i + 1] /\ i \in Nat /\ i > 0
    BY <1>0, <2>1, <2>3
  <2>5. InOrder
    <3> SUFFICES ASSUME NEW i \in DOMAIN t, NEW j \in DOMAIN t, i < j, Urgent(t[j])
                 PROVE  Urgent(t[i])
      BY <2>2
    <3>1. i + 1 < j + 1 /\ Urgent(queue[j + 1])
      BY <2>4
    <3> QED
      BY <2>4, <3>1 DEF Ordered
  <2>6. First
    <3> SUFFICES ASSUME NEW i \in DOMAIN t, Urgent(t[i])  PROVE Urgent(queue[1])
      BY <2>1, <2>2
    <3>1. 1 < i + 1 /\ Urgent(queue[i + 1])
      BY <2>4
    <3> QED
      BY <2>1, <2>4, <3>1 DEF Ordered
  <2> QED
    BY <2>5, <2>6
<1>4. ASSUME NEW k \in Keys \cup Runs, NEW how \in InputPolicies,
             how = "interrupt-next" <=> Urgent(k), Enqueue(k, how)
      PROVE  InOrder /\ First
  <2>1. CASE active = None
    <3>1. queue' = <<>>
      BY <1>4, <2>1 DEF Enqueue, Starts, Coordinated
    <3> QED
      BY <1>2, <3>1
  <2>2. CASE active # None /\ how # "interrupt-next"
    <3> DEFINE t == Append(queue, k)
    <3>1. /\ t \in Seq(Keys \cup Runs) /\ Len(t) = Len(queue) + 1
          /\ \A i \in 1 .. Len(queue) : t[i] = queue[i]
          /\ t[Len(queue) + 1] = k
      BY <1>0, AppendIs
    <3>2. queue' = t /\ active' = active /\ ~Urgent(k)
      BY <1>4, <2>2 DEF Enqueue
    <3> HIDE DEF t
    <3>3. DOMAIN t = 1 .. Len(queue) + 1
      BY <3>1, ElementsOf
    <3>4. InOrder
      <4> SUFFICES ASSUME NEW i \in 1 .. Len(queue) + 1, NEW j \in 1 .. Len(queue) + 1,
                          i < j, Urgent(t[j])
                   PROVE  Urgent(t[i])
        BY <3>2, <3>3
      <4>1. j # Len(queue) + 1
        BY <3>1, <3>2
      <4>2. i \in DOMAIN queue /\ j \in DOMAIN queue
        BY <1>0, <4>1
      <4> QED
        BY <1>0, <3>1, <4>2 DEF Ordered
    <3> QED
      BY <3>2, <3>4
  <2>3. CASE active # None /\ how = "interrupt-next"
    <3>1. PICK f \in 1 .. Len(queue) + 1 : FirstOrdinary(f) /\ queue' = InsertAt(queue, f, k)
      BY <1>4, <2>3 DEF Enqueue
    <3> DEFINE t == InsertAt(queue, f, k)
    <3>2. /\ t \in Seq(Keys \cup Runs) /\ Len(t) = Len(queue) + 1
          /\ \A i \in 1 .. Len(queue) + 1 :
               t[i] = IF i < f THEN queue[i] ELSE IF i = f THEN k ELSE queue[i - 1]
      <4> DEFINE K == Keys \cup Runs
      <4>1. queue \in Seq(K) /\ k \in K
        BY <1>0
      <4> HIDE DEF K
      <4>2. /\ t \in Seq(K) /\ Len(t) = Len(queue) + 1
            /\ \A i \in 1 .. Len(queue) + 1 :
                 t[i] = IF i < f THEN queue[i] ELSE IF i = f THEN k ELSE queue[i - 1]
        BY <4>1, InsertionIs
      <4> QED
        BY <4>2 DEF K
    <3>3. queue' = t /\ active' = active /\ Urgent(k)
      BY <1>4, <2>3, <3>1 DEF Enqueue
    <3> HIDE DEF t
    <3>4. DOMAIN t = 1 .. Len(queue) + 1
      BY <3>2, ElementsOf
    <3>5. /\ \A h \in 1 .. f - 1 : Urgent(queue[h])
          /\ f \in DOMAIN queue => ~Urgent(queue[f])
      BY <3>1 DEF FirstOrdinary
    <3>6. \A h \in DOMAIN queue : h >= f => ~Urgent(queue[h])
      <4> SUFFICES ASSUME NEW h \in DOMAIN queue, h >= f, Urgent(queue[h])  PROVE FALSE
        OBVIOUS
      <4>1. f \in DOMAIN queue
        BY <1>0
      <4>2. h = f \/ f < h
        BY <1>0
      <4> QED
        BY <3>5, <4>1, <4>2 DEF Ordered
    <3>7. InOrder
      <4> SUFFICES ASSUME NEW i \in 1 .. Len(queue) + 1, NEW j \in 1 .. Len(queue) + 1,
                          i < j, Urgent(t[j])
                   PROVE  Urgent(t[i])
        BY <3>3, <3>4
      <4>1. j <= f
        <5> SUFFICES ASSUME j > f  PROVE FALSE
          BY <1>0
        <5>1. t[j] = queue[j - 1] /\ j - 1 \in DOMAIN queue /\ j - 1 >= f
          BY <1>0, <3>2
        <5> QED
          BY <3>6, <5>1
      <4>2. i \in 1 .. f - 1 /\ t[i] = queue[i]
        BY <1>0, <3>2, <4>1
      <4> QED
        BY <3>5, <4>2
    <3> QED
      BY <3>3, <3>7
  <2> QED
    BY <2>1, <2>2, <2>3
<1> QED
  BY <1>1, <1>2, <1>3, <1>4 DEF QueueMoves, StartNext, Starts

\* An ordinary submission never starts while an urgent one waits: the urgent jobs are
\* a prefix of the queue, and the queue starts from its head.
THEOREM UrgentGoFirst == AdmissionSpec => UrgentFirst
<1> DEFINE Goes == active' # active /\ active' \in Keys /\ ~Urgent(active')
                     => \A i \in DOMAIN queue' : ~Urgent(queue'[i])
<1>1. AdmissionInit => Ordered
  BY DEF AdmissionInit, Ordered
<1>2. AdmissionInv /\ AdmissionInv' /\ Ordered /\ [AdmissionNext]_admissionVars
        => Ordered' /\ [Goes]_admissionVars
  <2> SUFFICES ASSUME AdmissionInv, AdmissionInv', Ordered, [AdmissionNext]_admissionVars
               PROVE  Ordered' /\ Goes
    OBVIOUS
  <2>1. /\ \A i, j \in DOMAIN queue' : i < j /\ Urgent(queue'[j]) => Urgent(queue'[i])
        /\ Goes
    BY StepsOfTheQueue, OrderedMoves DEF AdmissionInv
  <2>2. ASSUME NEW i \in DOMAIN queue'  PROVE Urgent(queue[i])' <=> Urgent(queue'[i])
    <3>1. queue'[i] \in Jobs'
      <4>1. queue' \in Seq(Keys \cup Runs)
        BY DEF AdmissionInv, Coordinated
      <4>2. ToSet(queue') = {queue'[h] : h \in 1 .. Len(queue')} /\ DOMAIN queue' = 1 .. Len(queue')
        BY <4>1, ElementsOf
      <4> QED
        BY <4>2 DEF Jobs
    <3> QED
      BY <3>1, UrgencyStays DEF Urgent
  <2> QED
    BY <2>1, <2>2 DEF Ordered
<1> QED
  BY <1>1, <1>2, AdmissionSound, PTL DEF AdmissionSpec, UrgentFirst

-----------------------------------------------------------------------------
(* After a close() that reported settlement *)

\* Only the active job has acquired its run.
Executing == \A r \in Runs : state[r] \in Acquired => stage = "run" /\ RunFor(active) = r

\* close() waits for all that is past the gate.
Guarded == closing # "open" =>
  /\ \A s \in Keys : phase[s] \in Entered => s \in awaited
  /\ step # "idle" => Head(todo) \in awaited

\* Once it has waited nothing is queued, and nothing past the gate that it did not
\* give up.
Drained == closing \notin {"open", "draining"} =>
  /\ queue = <<>>
  /\ ~stranded => step = "idle" /\ \A s \in Keys : phase[s] \notin Entered

Ended == closing = "settled" => active = None /\ ~stranded

Closings == {"open", "draining", "grace", "aborted", "settled", "timedOut"}
Quiet == closing \in Closings /\ Guarded /\ Drained /\ Ended

\* Nothing passes the gate any more, nothing is queued, and what is free stays free.
LEMMA NothingEnters ==
  ASSUME Quiet, UNCHANGED endVars,
         closing # "open" =>
           /\ \A s \in Keys : phase'[s] \in Entered => phase[s] \in Entered
           /\ step' # "idle" => step # "idle" /\ Head(todo') = Head(todo),
         closing \notin {"open", "draining"} => queue' = <<>>,
         closing = "settled" => active' = None
  PROVE  Quiet'
BY DEF Quiet, Guarded, Drained, Ended, endVars

LEMMA SubmissionIsQuiet ==
  ASSUME AdmissionInv, Quiet, NEW s \in Keys, Submission(s)
  PROVE  Quiet'
<1> USE DEF AdmissionInv
<1>1. UNCHANGED endVars /\ UNCHANGED recVars /\ phase[s] \in Entered
  BY DEF Submission, Preflight, Write, HandOff, Entered
<1>2. ASSUME NEW next \in Phases, Moves(s, next)
      PROVE  \A x \in Keys : phase'[x] \in Entered => phase[x] \in Entered
  BY <1>1, <1>2 DEF Moves, Submitted
<1>3. ASSUME NEW why, Refuse(s, why)
      PROVE  \A x \in Keys : phase'[x] \in Entered => phase[x] \in Entered
  <2>1. \A x \in Keys : phase'[x] = phase[x] \/ phase'[x] = "done"
    BY <1>3, RefuseEnds DEF Ending
  <2> QED
    BY <2>1 DEF Entered
<1>4. \A x \in Keys : phase'[x] \in Entered => phase[x] \in Entered
  <2>1. {"cleared", "written", "ticketed", "attached"} \subseteq Phases
    BY DEF Phases, Entered
  <2>2. CASE Preflight(s)
    BY <1>2, <1>3, <2>1, <2>2 DEF Preflight
  <2>3. CASE Write(s)
    BY <1>2, <1>3, <2>1, <2>3 DEF Write
  <2>4. CASE HandOff(s)
    BY <1>2, <1>3, <2>1, <2>4 DEF HandOff
  <2> QED
    BY <2>2, <2>3, <2>4 DEF Submission
<1>5. \/ UNCHANGED <<queue, active>>
      \/ closing \in {"open", "draining"}
  BY DEF Submission, Preflight, Write, HandOff, jobVars
<1>6. closing \notin {"open", "draining"} => queue' = <<>>
  BY <1>5 DEF Quiet, Drained
<1>7. closing = "settled" => active' = None
  BY <1>5 DEF Quiet, Ended
<1> QED
  BY <1>1, <1>4, <1>6, <1>7, NothingEnters DEF recVars

LEMMA JobIsQuiet ==
  ASSUME AdmissionInv, Quiet, Starting \/ FinishRun
  PROVE  Quiet'
<1> USE DEF AdmissionInv
<1>1. UNCHANGED endVars /\ active # None
  BY DEF Starting, Create, Lookup, AcquireRun, FinishRun, JobEnds, Coordinated
<1>2. closing # "settled"
  BY <1>1 DEF Quiet, Ended
<1>3. \A s \in Keys : phase'[s] \in Entered => phase[s] \in Entered
  <2>1. CASE UNCHANGED subVars
    BY <2>1 DEF subVars
  <2>2. CASE \E why : Tell({active}, why)
    BY <2>2 DEF Tell, Entered
  <2> QED
    BY <2>1, <2>2 DEF Starting, Create, Lookup, AcquireRun, FinishRun, JobEnds
<1>4. step' # "idle" => step # "idle" /\ Head(todo') = Head(todo)
  <2>1. UNCHANGED recVars \/ \E j, resumed : AcquisitionSettles(j, resumed)
    BY DEF Starting, Create, Lookup, AcquireRun, FinishRun, JobEnds
  <2> QED
    BY <2>1 DEF recVars, AcquisitionSettles, ItemOver
<1>5. queue = <<>> => queue' = <<>>
  <2>1. queue' = queue \/ StartNext
    BY DEF Starting, Create, Lookup, AcquireRun, FinishRun, JobEnds
  <2> QED
    BY <2>1 DEF StartNext, Starts
<1>6. closing \notin {"open", "draining"} => queue' = <<>>
  BY <1>5 DEF Quiet, Drained
<1> QED
  BY <1>1, <1>2, <1>3, <1>4, <1>6, NothingEnters

LEMMA RecoveryIsQuiet ==
  ASSUME AdmissionInv, Quiet, StartRecovery \/ Recovering
  PROVE  Quiet'
<1> USE DEF AdmissionInv
<1>1. UNCHANGED endVars /\ phase' = phase
  BY DEF StartRecovery, Recovering, NextItem, Decided, Decision, Resume, Load,
         RecoveryUnchanged, subVars
<1>2. closing # "open" => (step' # "idle" => step # "idle" /\ Head(todo') = Head(todo))
  BY DEF StartRecovery, Recovering, NextItem, Decided, Decision, Resume, Load, ItemOver
<1>3. UNCHANGED <<queue, active>> \/ closing \in {"open", "draining"}
  BY DEF StartRecovery, Recovering, NextItem, Decided, Decision, Resume, Load,
         RecoveryUnchanged, jobVars
<1>4. closing \notin {"open", "draining"} => queue' = <<>>
  BY <1>3 DEF Quiet, Drained
<1>5. closing = "settled" => active' = None
  BY <1>3 DEF Quiet, Ended
<1> QED
  BY <1>1, <1>2, <1>4, <1>5, NothingEnters

LEMMA CloseIsQuiet ==
  ASSUME AdmissionInv, Quiet, Close
  PROVE  Quiet'
<1>1. closing' = "draining" /\ awaited' = Inside /\ phase' = phase /\ step' = step /\ todo' = todo
  BY DEF Close, subVars, recVars
<1>2. Guarded'
  BY <1>1 DEF Guarded, Inside
<1> QED
  BY <1>1, <1>2 DEF Quiet, Drained, Ended, Closings

LEMMA DrainIsQuiet ==
  ASSUME AdmissionInv, Quiet, Drain
  PROVE  Quiet'
<1> USE DEF AdmissionInv
<1> DEFINE late == {a \in awaited : ~Released(a)}
<1>1. /\ closing = "draining" /\ stranded' = (late # {}) /\ queue' = <<>>
      /\ closing' \in {"grace", "aborted"} /\ awaited' = awaited
      /\ Tell(ToSet(queue) \cap Keys, "closed")
      /\ ItemOver({}) \/ UNCHANGED recVars
  BY DEF Drain
<1>2. \A s \in Keys : phase'[s] \in Entered => phase[s] \in Entered
  BY <1>1 DEF Tell, Entered
<1>3. step' # "idle" => step # "idle" /\ Head(todo') = Head(todo)
  BY <1>1 DEF ItemOver, recVars
<1>4. Guarded'
  BY <1>1, <1>2, <1>3 DEF Quiet, Guarded
<1>5. late = {} => step = "idle" /\ \A s \in Keys : phase[s] \notin Entered
  <2> SUFFICES ASSUME late = {}  PROVE step = "idle" /\ \A s \in Keys : phase[s] \notin Entered
    OBVIOUS
  <2>1. \A a \in awaited : Released(a)
    OBVIOUS
  <2>2. \A s \in Keys : phase[s] \notin Entered
    BY <1>1, <2>1 DEF Quiet, Guarded, Released
  <2>3. CASE step # "idle"
    <3>1. Head(todo) \in awaited /\ Head(todo) \in Runs
      BY <1>1, <2>3, TailIs DEF Quiet, Guarded, Scanning
    <3>2. Head(todo) \notin Keys
      BY <3>1, AdmissionAssumption
    <3> QED
      BY <2>1, <2>3, <3>1, <3>2 DEF Released
  <2> QED
    BY <2>2, <2>3
<1>6. Drained'
  BY <1>1, <1>2, <1>3, <1>5 DEF Drained
<1> QED
  BY <1>1, <1>4, <1>6 DEF Quiet, Ended, Closings

LEMMA ReturnIsQuiet ==
  ASSUME AdmissionInv, Quiet, GraceEnds \/ Return
  PROVE  Quiet'
<1>1. /\ closing \in {"grace", "aborted"} /\ closing' \in {"aborted", "settled", "timedOut"}
      /\ closing' = "settled" => active = None /\ ~stranded
      /\ UNCHANGED <<phase, step, todo, queue, active, awaited, stranded>>
  BY DEF GraceEnds, Return, subVars, jobVars, recVars
<1> QED
  BY <1>1 DEF Quiet, Guarded, Drained, Ended, Closings

LEMMA StaysQuiet ==
  AdmissionInv /\ Quiet /\ [AdmissionNext]_admissionVars => Quiet'
<1> SUFFICES ASSUME AdmissionInv, Quiet, [AdmissionNext]_admissionVars  PROVE Quiet'
  OBVIOUS
<1>1. ASSUME NEW s \in Keys, NEW how \in InputPolicies, Submit(s, how)  PROVE Quiet'
  BY <1>1, NothingEnters DEF Submit, jobVars, recVars, Quiet, Drained, Ended
<1>2. CASE \/ UNCHANGED admissionVars \/ TakeOn \/ Retry
           \/ \E r \in Runs : InterruptRun(r) \/ Stop(r)
           \/ \E k \in Elsewhere : AdmittedElsewhere(k)
  <2>1. UNCHANGED <<endVars, phase, queue, active, recVars>>
    BY <1>2 DEF admissionVars, subVars, jobVars, TakeOn, Retry, AttemptUnchanged,
                InterruptRun, Stop, AdmittedElsewhere
  <2> QED
    BY <2>1, NothingEnters DEF recVars, Quiet, Drained, Ended
<1> QED
  BY <1>1, <1>2, SubmissionIsQuiet, JobIsQuiet, RecoveryIsQuiet, CloseIsQuiet, DrainIsQuiet,
     ReturnIsQuiet DEF AdmissionNext, Stopping

\* A job leaves its execution by the commit only.
LEMMA StageStays ==
  ASSUME AdmissionInv, [AdmissionNext]_admissionVars
  PROVE  UNCHANGED <<stage, active>> \/ stage # "run" \/ FinishRun
<1> USE DEF AdmissionInv
<1>1. ASSUME NEW j, NEW how, Enqueue(j, how)  PROVE UNCHANGED <<stage, active>> \/ stage # "run"
  BY <1>1 DEF Enqueue, Coordinated
<1>2. ASSUME NEW s \in Keys, Submission(s)  PROVE UNCHANGED <<stage, active>> \/ stage # "run"
  BY <1>1, <1>2 DEF Submission, Preflight, Write, HandOff, jobVars
<1>3. CASE Load
  BY <1>1, <1>3 DEF Load, jobVars
<1>4. CASE Starting
  BY <1>4 DEF Starting, Create, Lookup, AcquireRun
<1>5. CASE \/ UNCHANGED admissionVars \/ TakeOn \/ Retry \/ StartRecovery \/ NextItem
           \/ Decided \/ Decision \/ Resume \/ Close \/ Drain \/ GraceEnds \/ Return
           \/ \E s \in Keys, how \in InputPolicies : Submit(s, how)
           \/ \E r \in Runs : InterruptRun(r) \/ Stop(r)
           \/ \E k \in Elsewhere : AdmittedElsewhere(k)
  BY <1>5 DEF admissionVars, jobVars, TakeOn, Retry, AttemptUnchanged,
              StartRecovery, RecoveryUnchanged, NextItem, Decided, Decision,
              Resume, Close, Drain, GraceEnds, Return, Submit, InterruptRun, Stop,
              AdmittedElsewhere
<1> QED
  BY <1>2, <1>3, <1>4, <1>5 DEF AdmissionNext, Recovering, Stopping

LEMMA ExecutesAlone ==
  TypeOK /\ AdmissionInv /\ Executing /\ [AdmissionNext]_admissionVars => Executing'
<1> SUFFICES ASSUME TypeOK, AdmissionInv, Executing, [AdmissionNext]_admissionVars
             PROVE  Executing'
  OBVIOUS
<1> USE DEF AdmissionInv
<1>1. CASE FinishRun
  <2> DEFINE r == RunFor(active)
  <2>1. PICK outcome \in Endings(r) : Finish(Self, r, revision[r], outcome, Claimed(outcome))
    BY <1>1 DEF FinishRun
  <2>2. outcome \notin Acquired
    BY EndingsAre DEF Outcomes, Acquired
  <2>3. /\ state[r] \in Acquired
        /\ \A c \in Runs : state'[c] \in {IF c = r THEN outcome ELSE state[c], "superseded"}
    BY <2>1 DEF Finish
  <2> HIDE DEF r
  <2>4. \A c \in Runs : state'[c] \notin Acquired
    BY <2>2, <2>3 DEF Executing, Acquired, r
  <2> QED
    BY <2>4 DEF Executing
<1>2. CASE ~FinishRun /\ \A c \in Runs : state'[c] \in Acquired => state[c] \in Acquired
  <2>1. UNCHANGED <<stage, active>> \/ stage # "run"
    BY <1>2, StageStays
  <2> QED
    BY <1>2, <2>1 DEF Executing, RunFor
<1>3. CASE /\ stage = "acquire" /\ Acquire(Self, RunFor(active), read)
           /\ stage' = "run" /\ active' = active
  <2>1. \A c \in Runs : state[c] \notin Acquired
    BY <1>3 DEF Executing
  <2>2. state' = [state EXCEPT ![RunFor(active)] = "running"]
    BY <1>3 DEF Acquire
  <2>3. \A c \in Runs : state'[c] \in Acquired => c = RunFor(active)
    BY <2>1, <2>2 DEF TypeOK
  <2> QED
    BY <1>3, <2>3 DEF Executing, RunFor
<1>4. CASE AdmissionNext
  <2>1. ASSUME NEW s \in Keys, Admit(s)
        PROVE  \A c \in Runs : state'[c] \in Acquired => state[c] \in Acquired
    BY <2>1 DEF Admit, Accept, Coalesce, TypeOK, Acquired
  <2>2. ASSUME NEW k \in Elsewhere, AdmittedElsewhere(k)
        PROVE  \A c \in Runs : state'[c] \in Acquired => state[c] \in Acquired
    BY <2>2 DEF AdmittedElsewhere, Accept, TypeOK, Acquired
  <2>3. ASSUME NEW r, \/ Interrupt(r, revision[r]) \/ Requeue(r, revision[r], TRUE)
                      \/ Abandon(r, revision[r])
        PROVE  \A c \in Runs : state'[c] \in Acquired => state[c] \in Acquired
    BY <2>3 DEF Interrupt, Requeue, Abandon, Recover, TypeOK, Acquired
  <2>4. UNCHANGED vars => \A c \in Runs : state'[c] \in Acquired => state[c] \in Acquired
    BY DEF vars
  <2> QED
    BY <1>1, <1>2, <1>3, <1>4, <2>1, <2>2, <2>3, <2>4, StoreIsAsked
<1>5. CASE UNCHANGED admissionVars
  BY <1>1, <1>2, <1>5 DEF admissionVars, vars
<1> QED
  BY <1>4, <1>5

\* A close() that reported settlement is the end: the lane is free, nothing is queued
\* or past the gate, no run is acquired, and so no step writes to the store but the
\* admission of another process.
THEOREM SettledCloseIsQuiet == AdmissionSpec => ClosedIsQuiet
<1> DEFINE Unwritten(r) == \/ Record(r)' = Record(r)
                           \/ state[r] = "absent" /\ \E k \in Elsewhere : r = TwinOf[k]
<1>1. AdmissionInit => Quiet /\ Executing
  BY AdmissionAssumption DEF AdmissionInit, Init, Quiet, Closings, Guarded, Drained, Ended,
                             Executing, Acquired
<1>2. TypeOK /\ AdmissionInv /\ Quiet /\ Executing /\ [AdmissionNext]_admissionVars
        => Quiet' /\ Executing'
  BY StaysQuiet, ExecutesAlone
<1>3. TypeOK /\ AdmissionInv /\ Quiet /\ Executing /\ [AdmissionNext]_admissionVars
        => [closing = "settled" => \A r \in Runs : Unwritten(r)]_admissionVars
  <2> SUFFICES ASSUME TypeOK, AdmissionInv, Quiet, Executing, AdmissionNext,
                      closing = "settled", NEW r \in Runs
               PROVE  Unwritten(r)
    BY DEF admissionVars
  <2>1. /\ active = None /\ stage = "idle" /\ step = "idle"
        /\ \A s \in Keys : phase[s] \notin Entered
        /\ \A c \in Runs : state[c] \notin Acquired
    BY DEF Quiet, Drained, Ended, Executing, AdmissionInv, Coordinated
  <2>2. \A s \in Keys : phase[s] # "cleared"
    BY <2>1 DEF Entered
  <2>3. ~FinishRun
    BY <2>1 DEF FinishRun
  <2>4. \A c \in Runs : ~Interrupt(c, revision[c])
    BY <2>1 DEF Interrupt, Acquired
  <2>5. UNCHANGED vars => Unwritten(r)
    BY DEF vars, acceptVars, leaseVars, Record
  <2>6. ASSUME NEW k \in Elsewhere, AdmittedElsewhere(k)  PROVE Unwritten(r)
    <3>1. /\ state[TwinOf[k]] = "absent" /\ state' = [state EXCEPT ![TwinOf[k]] = "queued"]
          /\ \E e : admission' = [admission EXCEPT ![TwinOf[k]] = e]
          /\ inputs' = [inputs EXCEPT ![TwinOf[k]] = {k}]
          /\ UNCHANGED <<revision, into, answer, leaseVars>>
      BY <2>6 DEF AdmittedElsewhere, Accept
    <3>2. CASE r = TwinOf[k]
      BY <3>1, <3>2
    <3>3. CASE r # TwinOf[k]
      BY <3>1, <3>3 DEF Record, leaseVars, TypeOK
    <3> QED
      BY <3>2, <3>3
  <2> QED
    BY <2>1, <2>2, <2>3, <2>4, <2>5, <2>6, StoreIsAsked
<1> QED
  BY <1>1, <1>2, <1>3, AdmissionSound, PTL DEF AdmissionSpec, ClosedIsQuiet

-----------------------------------------------------------------------------
(* The admission lane *)

Reserved(s) == plan[s].run # None
\* The submission that schedules the run it reserved: the others coalesce into it.
Leads(s) == Reserved(s) /\ plan[s].schedules
InLane == {laneState.head, laneState.pending} \ {None}

\* Submissions are stamped in the order in which they were made.
Stamped ==
  /\ \A s \in Keys : stamp[s] <= clock
  /\ \A s \in Keys : phase[s] = "new" <=> stamp[s] = 0
  /\ \A s, t \in Keys : stamp[s] = stamp[t] /\ stamp[s] # 0 => s = t

\* A reservation is of the submission's own run, or of a run that an earlier one
\* leads; an urgent submission has none.
Planned(s) ==
  /\ phase[s] = "new" => plan[s] = NoPlan
  /\ Reserved(s) => /\ ~Urgent(s)
                    /\ IF plan[s].schedules THEN plan[s].run = RunOf[s]
                       ELSE \E t \in Keys : /\ Leads(t) /\ plan[s].run = RunOf[t]
                                            /\ stamp[t] < stamp[s]

\* The lane holds the runs of the leaders that are not over, the older one first.
Housed ==
  /\ laneState.head = None => laneState = Idle
  /\ laneState.head # None => laneState.tail # None /\ Reserved(laneState.tail)
  /\ \A t \in Keys : RunOf[t] \in InLane <=> Leads(t) /\ phase[t] # "done"
  /\ \A r \in InLane : \E t \in Keys : r = RunOf[t]
  /\ \A h, p \in Keys :
       laneState.head = RunOf[h] /\ laneState.pending = RunOf[p] => stamp[h] < stamp[p]

\* Acceptances wait for each other in a chain that leaves out nobody whose run is in
\* the lane: whoever is past its turn has all of those before it past the gate.
Chained ==
  /\ \A u \in Keys : plan[u].run \in InLane => stamp[u] <= stamp[laneState.tail]
  /\ \A u, v \in Keys : plan[u].run \in InLane /\ Reserved(v) /\ stamp[u] < stamp[v] =>
       /\ plan[v].previous \in Keys /\ Reserved(plan[v].previous)
       /\ stamp[u] <= stamp[plan[v].previous]
       /\ phase[v] # "entered" => phase[u] \notin Entered

LaneInv == Stamped /\ (\A s \in Keys : Planned(s)) /\ Housed /\ Chained

\* What every step but a submission does to the lane: the leaders S are over, and
\* submissions move on in their turn.
Leaving(S) ==
  /\ laneState' = Settled({RunOf[s] : s \in S})
  /\ \A s \in S : phase'[s] = "done"
  /\ \A t \in Keys \ S : Leads(t) /\ phase'[t] = "done" => phase[t] = "done"

InTurn == \A s \in Keys : phase'[s] # phase[s] =>
  /\ phase[s] \notin {"new", "done"} /\ phase'[s] \notin {"new", "entered"}
  /\ phase'[s] \in Entered => phase[s] \in Entered
  /\ phase'[s] = "cleared" => phase[s] = "entered"
  /\ phase[s] = "entered" => AcceptanceDone(plan[s].previous)

LaneStep ==
  UNCHANGED <<policy, stamp, plan, clock>> /\ InTurn /\ \E S \in SUBSET Keys : Leaving(S)

LEMMA LaneStepKeeps ==
  ASSUME Submitted, LaneInv, LaneStep
  PROVE  LaneInv'
<1> USE AdmissionAssumption, StoreAssumption DEF LaneInv
<1>1. PICK S \in SUBSET Keys : Leaving(S)
  BY DEF LaneStep
<1>2. UNCHANGED <<policy, stamp, plan, clock>> /\ InTurn
  BY DEF LaneStep
<1> DEFINE R == {RunOf[s] : s \in S}
<1>3. \A t \in Keys : RunOf[t] \in R <=> t \in S
  OBVIOUS
<1>4. Stamped' /\ \A s \in Keys : Planned(s)'
  <2>1. Stamped'
    BY <1>2 DEF Stamped, InTurn
  <2>2. \A s \in Keys : Planned(s)'
    BY <1>2 DEF Planned, Leads, Reserved, InTurn, Urgent
  <2> QED
    BY <2>1, <2>2
<1>5. laneState' = Settled(R)
  BY <1>1 DEF Leaving
<1> HIDE DEF R
<1>6. /\ InLane' = InLane \ R
      /\ laneState'.head = None => laneState' = Idle
      /\ laneState'.head # None => laneState'.tail = laneState.tail /\ laneState.head # None
      /\ laneState'.pending # None =>
           laneState'.pending = laneState.pending /\ laneState'.head = laneState.head
  BY <1>5 DEF Settled, InLane, Idle, Housed, Submitted
<1>7. \A t \in Keys : phase'[t] # "done" => phase[t] # "done"
  BY <1>2 DEF InTurn
<1>8. Housed'
  <2>1. \A t \in Keys : Leads(t)' = Leads(t)
    BY <1>2 DEF Leads, Reserved
  <2>2. \A t \in Keys : RunOf[t] \in InLane' <=> Leads(t)' /\ phase'[t] # "done"
    BY <1>1, <1>3, <1>6, <1>7, <2>1 DEF Housed, Leaving
  <2>3. \A r \in InLane' : \E t \in Keys : r = RunOf[t]
    BY <1>6 DEF Housed
  <2>4. \A h, p \in Keys :
          laneState'.head = RunOf[h] /\ laneState'.pending = RunOf[p] => stamp'[h] < stamp'[p]
    BY <1>2, <1>6 DEF Housed
  <2>5. /\ laneState'.head = None => laneState' = Idle
        /\ laneState'.head # None => laneState'.tail # None /\ Reserved(laneState.tail)'
    <3>1. laneState'.head # None => laneState'.tail = laneState.tail /\ laneState.head # None
      BY <1>6
    <3>2. laneState.head # None => laneState.tail # None /\ plan[laneState.tail].run # None
      BY DEF Housed, Reserved
    <3>3. plan' = plan
      BY <1>2
    <3>4. laneState'.head # None => laneState'.tail # None /\ plan'[laneState'.tail].run # None
      BY <3>1, <3>2, <3>3
    <3> QED
      BY <1>6, <3>4 DEF Reserved
  <2> QED
    BY <2>2, <2>3, <2>4, <2>5 DEF Housed
<1>9. Chained'
  <2>1. \A u \in Keys : plan[u].run \in InLane' => stamp[u] <= stamp[laneState'.tail]
    <3> SUFFICES ASSUME NEW u \in Keys, plan[u].run \in InLane'
                 PROVE  stamp[u] <= stamp[laneState'.tail]
      OBVIOUS
    <3>1. laneState'.head # None
      <4>1. Idle.head = None /\ Idle.pending = None
        BY DEF Idle
      <4> QED
        BY <1>6, <4>1 DEF InLane
    <3>2. laneState'.tail = laneState.tail /\ plan[u].run \in InLane
      BY <1>6, <3>1
    <3> QED
      BY <3>2 DEF Chained
  <2>2. ASSUME NEW u \in Keys, NEW v \in Keys, plan[u].run \in InLane, Reserved(v),
               stamp[u] < stamp[v], phase'[v] # "entered"
        PROVE  phase'[u] \notin Entered
    <3>1. phase[u] \notin Entered => phase'[u] \notin Entered
      BY <1>2 DEF InTurn
    <3>2. CASE phase[v] # "entered"
      BY <2>2, <3>1, <3>2 DEF Chained
    <3>3. CASE phase[v] = "entered"
      <4> DEFINE w == plan[v].previous
      <4>1. w \in Keys /\ Reserved(w) /\ stamp[u] <= stamp[w] /\ phase[w] \notin Entered
        BY <1>2, <2>2, <3>3 DEF Chained, InTurn, AcceptanceDone
      <4>2. stamp[u] # 0 /\ stamp[u] \in Nat /\ stamp[w] \in Nat
        <5>1. phase[u] # "new"
          BY <2>2 DEF Planned, InLane, NoPlan
        <5> QED
          BY <4>1, <5>1, FS_CardinalityType DEF Stamped, Submitted
      <4>3. u = w \/ stamp[u] < stamp[w]
        BY <4>1, <4>2 DEF Stamped
      <4>4. phase[u] \notin Entered
        BY <2>2, <4>1, <4>3 DEF Chained, Entered
      <4> QED
        BY <3>1, <4>4
    <3> QED
      BY <3>2, <3>3
  <2>3. \A u, v \in Keys : plan[u].run \in InLane' /\ Reserved(v) /\ stamp[u] < stamp[v] =>
          /\ plan[v].previous \in Keys /\ Reserved(plan[v].previous)
          /\ stamp[u] <= stamp[plan[v].previous]
          /\ phase'[v] # "entered" => phase'[u] \notin Entered
    BY <1>6, <2>2 DEF Chained
  <2> QED
    BY <1>2, <2>1, <2>3 DEF Chained, Reserved
<1> QED
  BY <1>4, <1>8, <1>9


\* A submission comes last in the lane, or does not enter it.
LEMMA LaneSubmit ==
  ASSUME Submitted, LaneInv, NEW s \in Keys, NEW how, Submit(s, how)
  PROVE  LaneInv'
<1> USE AdmissionAssumption, StoreAssumption DEF LaneInv
<1>1. /\ phase[s] = "new" /\ phase' = [phase EXCEPT ![s] = "entered"]
      /\ clock' = clock + 1 /\ stamp' = [stamp EXCEPT ![s] = clock']
      /\ policy' = [policy EXCEPT ![s] = how]
      /\ (Reserve(s) /\ how # "interrupt-next") \/ UNCHANGED <<plan, laneState>>
  BY DEF Submit
<1>2. /\ phase'[s] = "entered" /\ \A t \in Keys \ {s} : phase'[t] = phase[t]
      /\ stamp'[s] = clock + 1 /\ \A t \in Keys \ {s} : stamp'[t] = stamp[t]
      /\ \A t \in Keys : stamp[t] \in Nat /\ stamp[t] <= clock
      /\ clock \in Nat
      /\ policy'[s] = how /\ \A t \in Keys \ {s} : policy'[t] = policy[t]
  <2>1. {t \in Keys : phase[t] # "new"} \subseteq Keys
    OBVIOUS
  <2>2. clock \in Nat /\ Cardinality(Keys) \in Nat
    BY <2>1, FS_Subset, FS_CardinalityType DEF Submitted
  <2>3. \A t \in Keys : stamp[t] \in Nat /\ stamp[t] <= clock
    BY <2>2 DEF Submitted, Stamped
  <2> QED
    BY <1>1, <2>2, <2>3 DEF Submitted
<1>3. ~Reserved(s) /\ plan[s] = NoPlan
  <2>1. plan[s] = NoPlan
    BY <1>1 DEF Planned
  <2>2. NoPlan.run = None
    BY DEF NoPlan
  <2> QED
    BY <2>1, <2>2 DEF Reserved
<1>4. /\ Stamped'
      /\ \A u \in Keys \ {s} : stamp'[u] < stamp'[s]
  <2>1. \A t \in Keys : stamp'[t] <= clock'
    BY <1>1, <1>2
  <2>2. \A t \in Keys : phase'[t] = "new" <=> stamp'[t] = 0
    BY <1>2 DEF Stamped
  <2>3. ASSUME NEW x \in Keys, NEW y \in Keys, stamp'[x] = stamp'[y], stamp'[x] # 0
        PROVE  x = y
    <3>1. CASE x = s \/ y = s
      BY <1>2, <2>3, <3>1
    <3>2. CASE x # s /\ y # s
      BY <1>2, <2>3, <3>2 DEF Stamped
    <3> QED
      BY <3>1, <3>2
  <2> QED
    BY <1>2, <2>1, <2>2, <2>3 DEF Stamped
<1>5. \A t \in Keys : /\ Reserved(t) => t # s
                      /\ Leads(t) => t # s
                      /\ RunOf[t] \in InLane => t # s
  BY <1>3 DEF Leads, Housed
<1>6. \A u \in Keys : plan[u].run \in InLane => Reserved(u) /\ u # s
  BY <1>5 DEF InLane, Reserved
<1>7. \A u \in Keys \ {s} : plan[u].run # RunOf[s]
  BY <1>5 DEF Planned, Reserved
<1>8. CASE UNCHANGED <<plan, laneState>>
  <2>1. InLane' = InLane /\ \A t \in Keys : Leads(t)' = Leads(t) /\ Reserved(t)' = Reserved(t)
    BY <1>8 DEF InLane, Leads, Reserved
  <2>2. \A t \in Keys : Planned(t)'
    <3>1. ASSUME NEW t \in Keys \ {s}  PROVE Planned(t)'
      BY <1>2, <1>5, <1>8, <2>1, <3>1 DEF Planned, Urgent
    <3>2. Planned(s)'
      BY <1>2, <1>3, <2>1 DEF Planned
    <3> QED
      BY <3>1, <3>2
  <2>3. Housed'
    <3>1. \A t \in Keys : RunOf[t] \in InLane' <=> Leads(t)' /\ phase'[t] # "done"
      BY <1>2, <1>5, <2>1 DEF Housed
    <3>2. \A h, p \in Keys :
            laneState'.head = RunOf[h] /\ laneState'.pending = RunOf[p] => stamp'[h] < stamp'[p]
      <4> SUFFICES ASSUME NEW h \in Keys, NEW p \in Keys,
                          laneState.head = RunOf[h], laneState.pending = RunOf[p]
                   PROVE  stamp'[h] < stamp'[p]
        BY <1>8
      <4>1. RunOf[h] \in InLane /\ RunOf[p] \in InLane
        BY DEF InLane
      <4> QED
        BY <1>2, <1>5, <4>1 DEF Housed
    <3>3. /\ laneState'.head = None => laneState' = Idle
          /\ laneState'.head # None => laneState'.tail # None /\ Reserved(laneState.tail)'
      BY <1>8 DEF Housed, Reserved
    <3>4. \A r \in InLane' : \E t \in Keys : r = RunOf[t]
      BY <2>1 DEF Housed
    <3> QED
      BY <3>1, <3>2, <3>3, <3>4 DEF Housed
  <2>4. Chained'
    <3>1. ASSUME NEW u \in Keys, plan'[u].run \in InLane'
          PROVE  stamp'[u] <= stamp'[laneState'.tail]
      <4>1. u # s /\ plan[u].run \in InLane
        BY <1>6, <1>8, <2>1, <3>1
      <4>2. laneState.head # None
        <5>1. Idle.head = None /\ Idle.pending = None
          BY DEF Idle
        <5> QED
          BY <4>1, <5>1 DEF Housed, InLane
      <4>3. laneState.tail \in Keys \ {s}
        BY <1>5, <4>2 DEF Housed, Submitted
      <4> QED
        BY <1>2, <1>8, <4>1, <4>3 DEF Chained
    <3>2. ASSUME NEW u \in Keys, NEW v \in Keys, plan'[u].run \in InLane', Reserved(v)',
                 stamp'[u] < stamp'[v]
          PROVE  /\ plan'[v].previous \in Keys /\ Reserved(plan[v].previous)'
                 /\ stamp'[u] <= stamp'[plan'[v].previous]
                 /\ phase'[v] # "entered" => phase'[u] \notin Entered
      <4>1. /\ u # s /\ plan[u].run \in InLane /\ v # s /\ Reserved(v)
            /\ stamp[u] < stamp[v]
        BY <1>2, <1>5, <1>6, <1>8, <2>1, <3>2
      <4>2. /\ plan[v].previous \in Keys /\ Reserved(plan[v].previous)
            /\ stamp[u] <= stamp[plan[v].previous]
            /\ phase[v] # "entered" => phase[u] \notin Entered
        BY <4>1 DEF Chained
      <4>3. plan[v].previous # s
        BY <1>5, <4>2
      <4> QED
        BY <1>2, <1>8, <4>1, <4>2, <4>3 DEF Reserved
    <3> QED
      BY <3>1, <3>2 DEF Chained
  <2> QED
    BY <1>4, <2>2, <2>3, <2>4
<1>9. CASE Reserve(s) /\ how # "interrupt-next"
  <2> DEFINE hd == laneState.head  pd == laneState.pending
             leads == hd = None \/ pd = None
             run == IF leads THEN RunOf[s] ELSE pd
  <2>1. /\ plan'[s] = [run |-> run, schedules |-> leads, previous |-> laneState.tail]
        /\ \A t \in Keys \ {s} : plan'[t] = plan[t]
        /\ laneState' = [head    |-> IF hd = None THEN run ELSE hd,
                         pending |-> IF hd = None THEN pd ELSE run,
                         tail    |-> s]
    BY <1>9 DEF Reserve, Submitted
  <2>2. /\ hd = None => pd = None /\ laneState.tail = None
        /\ hd # None => laneState.tail \in Keys \ {s} /\ Reserved(laneState.tail)
    <3>1. Idle.pending = None /\ Idle.tail = None
      BY DEF Idle
    <3> QED
      BY <1>5, <3>1 DEF Housed, Submitted
  <2>3. /\ run # None /\ hd \in Runs \cup {None} /\ pd \in Runs \cup {None}
        /\ InLane = {hd, pd} \ {None}
    BY DEF Submitted, InLane
  <2> HIDE DEF hd, pd
  <2>4. InLane' = InLane \cup {run} /\ laneState'.tail = s /\ laneState'.head # None
        /\ (~leads => run \in InLane) /\ (leads => run = RunOf[s])
    <3>1. InLane' = {laneState'.head, laneState'.pending} \ {None}
      BY DEF InLane
    <3> QED
      BY <2>1, <2>2, <2>3, <3>1
  <2>11. /\ plan'[s].run = run /\ plan'[s].schedules = leads
         /\ (leads => plan'[s].run = RunOf[s]) /\ (~leads => run = pd)
    BY <2>1, <2>4
  <2> HIDE DEF leads, run
  <2>5. /\ Reserved(s)' /\ (Leads(s)' <=> leads)
        /\ \A t \in Keys \ {s} : (Leads(t)' <=> Leads(t)) /\ (Reserved(t)' <=> Reserved(t))
    BY <2>1, <2>3, <2>11 DEF Leads, Reserved
  <2>6. \A t \in Keys \ {s} : RunOf[t] \in InLane' <=> RunOf[t] \in InLane
    BY <2>4
  <2>7. \A t \in Keys : Planned(t)'
    <3>1. ASSUME NEW t \in Keys \ {s}  PROVE Planned(t)'
      BY <1>2, <1>5, <2>1, <2>5 DEF Planned, Urgent
    <3>2. Planned(s)'
      <4>1. CASE leads
        BY <1>2, <1>9, <2>11, <4>1 DEF Planned, Urgent
      <4>2. CASE ~leads
        <5>1. PICK t \in Keys : run = RunOf[t] /\ Leads(t)
          BY <2>4, <4>2 DEF Housed
        <5>2. t # s /\ Leads(t)'
          BY <1>5, <2>5, <5>1
        <5>3. stamp'[t] < stamp'[s]
          BY <1>4, <5>2
        <5> QED
          BY <1>2, <1>9, <2>11, <4>2, <5>1, <5>2, <5>3 DEF Planned, Urgent
      <4> QED
        BY <4>1, <4>2
    <3> QED
      BY <3>1, <3>2
  <2>8. Housed'
    <3>1. \A t \in Keys : RunOf[t] \in InLane' <=> Leads(t)' /\ phase'[t] # "done"
      <4>1. ASSUME NEW t \in Keys \ {s}
            PROVE  RunOf[t] \in InLane' <=> Leads(t)' /\ phase'[t] # "done"
        BY <1>2, <2>5, <2>6 DEF Housed
      <4>2. RunOf[s] \in InLane' <=> leads
        BY <1>5, <2>4
      <4> QED
        BY <1>2, <2>5, <4>1, <4>2
    <3>2. \A r \in InLane' : \E t \in Keys : r = RunOf[t]
      BY <2>4 DEF Housed
    <3>3. ASSUME NEW h \in Keys, NEW p \in Keys,
                 laneState'.head = RunOf[h], laneState'.pending = RunOf[p]
          PROVE  stamp'[h] < stamp'[p]
      <4>1. hd # None /\ hd = RunOf[h] /\ run = RunOf[p]
        BY <2>1, <2>2, <3>3
      <4>2. h # s
        BY <1>5, <2>3, <4>1
      <4>3. CASE leads
        <5>1. p = s
          BY <2>4, <4>1, <4>3
        <5> QED
          BY <1>4, <4>2, <5>1
      <4>4. CASE ~leads
        <5>1. p # s /\ pd = RunOf[p]
          BY <1>5, <2>3, <2>4, <2>11, <4>1, <4>4
        <5> QED
          BY <1>2, <4>1, <4>2, <5>1 DEF Housed, hd, pd
      <4> QED
        BY <4>3, <4>4
    <3>4. laneState'.tail # None /\ Reserved(s)'
      BY <2>4, <2>5
    <3>5. laneState'.tail # None /\ Reserved(laneState.tail)'
      BY <2>1, <2>3, <2>4, <3>4 DEF Reserved
    <3> QED
      BY <2>4, <3>1, <3>2, <3>3, <3>5 DEF Housed
  <2>9. Chained'
    <3>1. \A u \in Keys : stamp'[u] <= stamp'[s]
      BY <1>2, <1>4
    <3>2. \A u \in Keys \ {s} : plan'[u].run \in InLane' => plan[u].run \in InLane
      BY <1>7, <2>1, <2>4
    <3>3. ASSUME NEW u \in Keys, NEW v \in Keys, plan'[u].run \in InLane', Reserved(v)',
                 stamp'[u] < stamp'[v]
          PROVE  /\ plan'[v].previous \in Keys /\ Reserved(plan[v].previous)'
                 /\ stamp'[u] <= stamp'[plan'[v].previous]
                 /\ phase'[v] # "entered" => phase'[u] \notin Entered
      <4>1. u # s
        BY <1>2, <1>4, <3>3
      <4>2. plan[u].run \in InLane /\ stamp'[u] = stamp[u] /\ phase'[u] = phase[u]
        BY <1>2, <3>2, <3>3, <4>1
      <4>3. CASE v = s
        <5>1. hd # None
          BY <2>2, <2>3, <4>2
        <5>2. /\ plan'[s].previous = laneState.tail /\ laneState.tail \in Keys \ {s}
              /\ Reserved(laneState.tail) /\ plan'[laneState.tail] = plan[laneState.tail]
          BY <2>1, <2>2, <5>1
        <5>3. stamp[u] <= stamp[laneState.tail]
          BY <4>2 DEF Chained
        <5> QED
          BY <1>2, <4>2, <4>3, <5>2, <5>3 DEF Reserved
      <4>4. CASE v # s
        <5>1. /\ plan[v].previous \in Keys /\ Reserved(plan[v].previous)
              /\ stamp[u] <= stamp[plan[v].previous]
              /\ phase[v] # "entered" => phase[u] \notin Entered
          BY <1>2, <2>5, <3>3, <4>2, <4>4 DEF Chained
        <5>2. plan[v].previous # s /\ plan'[v] = plan[v]
          BY <1>5, <2>1, <4>4, <5>1
        <5>3. plan'[plan[v].previous] = plan[plan[v].previous]
          BY <2>1, <5>1, <5>2
        <5> QED
          BY <1>2, <4>2, <4>4, <5>1, <5>2, <5>3 DEF Reserved
      <4> QED
        BY <4>3, <4>4
    <3> QED
      BY <2>4, <3>1, <3>3 DEF Chained
  <2> QED
    BY <1>4, <2>7, <2>8, <2>9
<1> QED
  BY <1>1, <1>8, <1>9


LEMMA SettledNobody ==
  ASSUME Submitted, Housed
  PROVE  Settled({}) = laneState
<1>1. Settled({}) = IF laneState.head = None /\ laneState.pending = None THEN Idle
                    ELSE [head    |-> IF laneState.head = None THEN laneState.pending
                                      ELSE laneState.head,
                          pending |-> IF laneState.head = None THEN None ELSE laneState.pending,
                          tail    |-> laneState.tail]
  BY DEF Settled
<1>2. CASE laneState.head = None
  <2>1. laneState = Idle /\ Idle.pending = None
    BY <1>2 DEF Housed, Idle
  <2> QED
    BY <1>1, <1>2, <2>1
<1>3. CASE laneState.head # None
  BY <1>1, <1>3 DEF Submitted
<1> QED
  BY <1>2, <1>3

LEMMA NobodyLeaves ==
  ASSUME Submitted, Housed, UNCHANGED <<policy, stamp, plan, clock, laneState>>, InTurn,
         \A t \in Keys : Leads(t) /\ phase'[t] = "done" => phase[t] = "done"
  PROVE  LaneStep
<1>1. {RunOf[s] : s \in {}} = {}
  OBVIOUS
<1>2. Leaving({})
  BY <1>1, SettledNobody DEF Leaving
<1> QED
  BY <1>2 DEF LaneStep

LEMMA TellLeaves ==
  ASSUME Submitted, Origins, NEW S \in SUBSET Keys, NEW why, Tell(S, why),
         UNCHANGED <<policy, stamp, plan, clock>>,
         \A s \in S : /\ phase[s] # "new"
                      /\ phase[s] = "entered" => AcceptanceDone(plan[s].previous)
  PROVE  LaneStep
<1> DEFINE T == S \cup Followers(S)
<1>1. /\ phase' = [s \in Keys |-> IF s \in T THEN "done" ELSE phase[s]]
      /\ laneState' = Settled({RunOf[s] : s \in S})
  BY DEF Tell
<1>2. /\ T \subseteq Keys /\ S \subseteq T
      /\ \A s \in T \ S : phase[s] = "attached" /\ ~plan[s].schedules
  BY DEF Followers, Origins
<1> HIDE DEF T
<1>3. \A s \in Keys : phase'[s] = IF s \in T THEN "done" ELSE phase[s]
  BY <1>1
<1>4. InTurn
  BY <1>2, <1>3 DEF InTurn, Entered
<1>5. Leaving(S)
  BY <1>1, <1>2, <1>3 DEF Leaving, Leads
<1> QED
  BY <1>4, <1>5 DEF LaneStep

LEMMA RefuseLeaves ==
  ASSUME Submitted, Origins, Housed, NEW s \in Keys, NEW why, Refuse(s, why),
         phase[s] # "new", phase[s] = "entered" => AcceptanceDone(plan[s].previous)
  PROVE  LaneStep
<1>1. CASE plan[s].schedules
  <2>1. Tell({s}, why) /\ UNCHANGED <<policy, stamp, plan, clock>>
    BY <1>1 DEF Refuse
  <2> QED
    BY <2>1, TellLeaves
<1>2. CASE ~plan[s].schedules
  <2>1. /\ phase' = [phase EXCEPT ![s] = "done"]
        /\ UNCHANGED <<policy, stamp, plan, clock, laneState>>
    BY <1>2 DEF Refuse
  <2>2. \A t \in Keys : phase'[t] = IF t = s THEN "done" ELSE phase[t]
    BY <2>1 DEF Submitted
  <2>3. InTurn /\ \A t \in Keys : Leads(t) /\ phase'[t] = "done" => phase[t] = "done"
    BY <1>2, <2>2 DEF InTurn, Leads, Entered
  <2> QED
    BY <2>1, <2>3, NobodyLeaves
<1> QED
  BY <1>1, <1>2

LEMMA MovesOn ==
  ASSUME Submitted, Housed, NEW s \in Keys, NEW next \in Phases, Moves(s, next),
         \/ phase[s] = "entered" /\ next = "cleared" /\ AcceptanceDone(plan[s].previous)
         \/ phase[s] = "cleared" /\ next = "written"
         \/ phase[s] = "written" /\ next \in {"ticketed", "attached"}
  PROVE  LaneStep
<1>1. /\ phase' = [phase EXCEPT ![s] = next]
      /\ UNCHANGED <<policy, stamp, plan, clock, laneState>>
  BY DEF Moves
<1>2. \A t \in Keys : phase'[t] = IF t = s THEN next ELSE phase[t]
  BY <1>1 DEF Submitted
<1>3. InTurn /\ \A t \in Keys : Leads(t) /\ phase'[t] = "done" => phase[t] = "done"
  BY <1>2 DEF InTurn, Entered
<1> QED
  BY <1>1, <1>3, NobodyLeaves

LEMMA LaneStays ==
  ASSUME Submitted, Housed, UNCHANGED subVars
  PROVE  LaneStep
BY NobodyLeaves DEF subVars, InTurn

LEMMA JobLeaves ==
  ASSUME AdmissionInv, Housed, active # None, NEW why, NEW resumed, JobEnds(why, resumed)
  PROVE  LaneStep
<1> USE DEF AdmissionInv
<1>1. CASE active \in Keys
  <2>1. Tell({active}, why) /\ UNCHANGED <<policy, stamp, plan, clock>>
    BY <1>1 DEF JobEnds
  <2>2. phase[active] \notin {"new", "entered"}
    BY <1>1, JobsAreIn DEF Jobs
  <2> QED
    BY <1>1, <2>1, <2>2, TellLeaves
<1>2. CASE active \notin Keys
  BY <1>2, LaneStays DEF JobEnds
<1> QED
  BY <1>1, <1>2

LEMMA LaneMoves ==
  ASSUME AdmissionInv, LaneInv, [AdmissionNext]_admissionVars,
         ~ \E s \in Keys, how \in InputPolicies : Submit(s, how)
  PROVE  LaneStep
<1> USE DEF AdmissionInv, LaneInv
<1>1. CASE UNCHANGED subVars
  BY <1>1, LaneStays
<1>2. ASSUME NEW s \in Keys, Preflight(s)  PROVE LaneStep
  <2>1. phase[s] = "entered" /\ AcceptanceDone(plan[s].previous)
    BY <1>2 DEF Preflight
  <2> QED
    BY <1>2, <2>1, RefuseLeaves, MovesOn DEF Preflight, Phases, Entered
<1>3. ASSUME NEW s \in Keys, Write(s)  PROVE LaneStep
  <2>1. phase[s] = "cleared" /\ "written" \in Phases
    BY <1>3 DEF Write, Phases, Entered
  <2>2. Moves(s, "written") \/ \E why : Refuse(s, why)
    BY <1>3 DEF Write
  <2> QED
    BY <2>1, <2>2, RefuseLeaves, MovesOn
<1>4. ASSUME NEW s \in Keys, HandOff(s)  PROVE LaneStep
  <2>1. phase[s] = "written" /\ {"ticketed", "attached"} \subseteq Phases
    BY <1>4 DEF HandOff, Phases
  <2>2. Moves(s, "ticketed") \/ Moves(s, "attached") \/ \E why : Refuse(s, why)
    BY <1>4 DEF HandOff
  <2> QED
    BY <2>1, <2>2, RefuseLeaves, MovesOn
<1>5. CASE Lookup
  BY <1>1, <1>5, JobLeaves DEF Lookup, Coordinated
<1>6. CASE AcquireRun
  BY <1>1, <1>6, JobLeaves DEF AcquireRun, Coordinated
<1>7. CASE FinishRun
  BY <1>7, JobLeaves DEF FinishRun, Coordinated
<1>8. CASE Drain
  <2>1. /\ Tell(ToSet(queue) \cap Keys, "closed")
        /\ UNCHANGED <<policy, stamp, plan, clock>>
    BY <1>8 DEF Drain
  <2>2. \A s \in ToSet(queue) \cap Keys : phase[s] \notin {"new", "entered"}
    BY JobsAreIn DEF Jobs
  <2> QED
    BY <2>1, <2>2, TellLeaves
<1>9. CASE \/ UNCHANGED admissionVars \/ Create \/ TakeOn \/ Retry
           \/ StartRecovery \/ Recovering \/ Close \/ GraceEnds \/ Return
           \/ \E r \in Runs : InterruptRun(r) \/ Stop(r)
           \/ \E k \in Elsewhere : AdmittedElsewhere(k)
  <2>1. UNCHANGED subVars
    BY <1>9 DEF admissionVars, Create, TakeOn, Retry, AttemptUnchanged,
                StartRecovery, RecoveryUnchanged, Recovering, NextItem, Decided, Decision,
                Resume, Load, Close, GraceEnds, Return, InterruptRun, Stop,
                AdmittedElsewhere
  <2> QED
    BY <1>1, <2>1
<1> QED
  BY <1>2, <1>3, <1>4, <1>5, <1>6, <1>7, <1>8, <1>9
     DEF AdmissionNext, Submission, Starting, Stopping

LEMMA LaneKept ==
  AdmissionInv /\ LaneInv /\ [AdmissionNext]_admissionVars => LaneInv'
<1> SUFFICES ASSUME AdmissionInv, LaneInv, [AdmissionNext]_admissionVars
             PROVE  LaneInv'
  OBVIOUS
<1>1. CASE \E s \in Keys, how \in InputPolicies : Submit(s, how)
  BY <1>1, LaneSubmit DEF AdmissionInv
<1>2. CASE ~ \E s \in Keys, how \in InputPolicies : Submit(s, how)
  BY <1>2, LaneMoves, LaneStepKeeps DEF AdmissionInv
<1> QED
  BY <1>1, <1>2

LEMMA LaneStarts == AdmissionInit => LaneInv
<1> SUFFICES ASSUME AdmissionInit  PROVE LaneInv
  OBVIOUS
<1>1. /\ phase = [s \in Keys |-> "new"] /\ stamp = [s \in Keys |-> 0]
      /\ plan = [s \in Keys |-> NoPlan] /\ laneState = Idle /\ clock = 0
  BY DEF AdmissionInit
<1>2. /\ Idle.head = None /\ Idle.pending = None /\ NoPlan.run = None
      /\ \A s \in Keys : plan[s].run = None
  BY <1>1 DEF Idle, NoPlan
<1>3. InLane = {} /\ \A s \in Keys : ~Reserved(s) /\ ~Leads(s)
  BY <1>1, <1>2 DEF InLane, Reserved, Leads
<1>4. Housed
  BY <1>1, <1>2, <1>3, AdmissionAssumption, StoreAssumption DEF Housed
<1>5. Chained
  BY <1>3 DEF Chained
<1> QED
  BY <1>1, <1>3, <1>4, <1>5 DEF LaneInv, Stamped, Planned


-----------------------------------------------------------------------------
(* The order of the jobs *)

\* No job is there twice.
Once ==
  /\ \A i, j \in DOMAIN queue : queue[i] = queue[j] => i = j
  /\ active \notin ToSet(queue)

Ahead(h, p) == h = active \/ \E i, j \in DOMAIN queue : i < j /\ queue[i] = h /\ queue[j] = p

LEMMA QueueGrows ==
  ASSUME Coordinated, Once, active # None, NEW s \in (Keys \cup Runs) \ Jobs, NEW how,
         Enqueue(s, how)
  PROVE  /\ active' = active /\ ToSet(queue') = ToSet(queue) \cup {s}
         /\ Once'
         /\ \A h, p \in Keys : Ahead(h, p) => Ahead(h, p)'
         /\ how # "interrupt-next" => \A h \in Jobs : Ahead(h, s)'
<1> DEFINE K == Keys \cup Runs
           n == Len(queue)
<1>0. queue \in Seq(K) /\ n \in Nat /\ DOMAIN queue = 1 .. n /\ s \in K
      /\ ToSet(queue) = {queue[i] : i \in 1 .. n}
  BY ElementsOf DEF Coordinated
<1>1. active' = active
  BY DEF Enqueue
<1>2. \E f \in 1 .. n + 1 :
        /\ queue' \in Seq(K) /\ Len(queue') = n + 1 /\ ToSet(queue') = ToSet(queue) \cup {s}
        /\ \A i \in 1 .. n + 1 :
             queue'[i] = IF i < f THEN queue[i] ELSE IF i = f THEN s ELSE queue[i - 1]
        /\ how # "interrupt-next" => f = n + 1
  <2> HIDE DEF K
  <2>1. CASE how = "interrupt-next"
    <3>1. PICK f \in 1 .. n + 1 : queue' = InsertAt(queue, f, s)
      BY <2>1 DEF Enqueue
    <3>2. /\ InsertAt(queue, f, s) \in Seq(K) /\ Len(InsertAt(queue, f, s)) = n + 1
          /\ \A i \in 1 .. n + 1 :
               InsertAt(queue, f, s)[i] =
                 IF i < f THEN queue[i] ELSE IF i = f THEN s ELSE queue[i - 1]
          /\ ToSet(InsertAt(queue, f, s)) = ToSet(queue) \cup {s}
      <4>1. queue \in Seq(K) /\ s \in K
        BY <1>0
      <4> QED
        BY <4>1, InsertionIs
    <3> QED
      BY <2>1, <3>1, <3>2
  <2>2. CASE how # "interrupt-next"
    <3>1. queue' = Append(queue, s)
      BY <2>2 DEF Enqueue
    <3>2. /\ Append(queue, s) \in Seq(K) /\ Len(Append(queue, s)) = n + 1
          /\ \A i \in 1 .. n : Append(queue, s)[i] = queue[i]
          /\ Append(queue, s)[n + 1] = s
          /\ ToSet(Append(queue, s)) = ToSet(queue) \cup {s}
      BY <1>0, AppendIs
    <3>3. \A i \in 1 .. n + 1 : i \in 1 .. n \/ i = n + 1
      BY <1>0
    <3>4. \A i \in 1 .. n + 1 :
            queue'[i] = IF i < n + 1 THEN queue[i] ELSE IF i = n + 1 THEN s ELSE queue[i - 1]
      BY <1>0, <3>1, <3>2, <3>3
    <3>5. n + 1 \in 1 .. n + 1
      BY <1>0
    <3> QED
      BY <3>1, <3>2, <3>4, <3>5
  <2> QED
    BY <2>1, <2>2
<1>3. PICK f \in 1 .. n + 1 :
        /\ queue' \in Seq(K) /\ Len(queue') = n + 1 /\ ToSet(queue') = ToSet(queue) \cup {s}
        /\ \A i \in 1 .. n + 1 :
             queue'[i] = IF i < f THEN queue[i] ELSE IF i = f THEN s ELSE queue[i - 1]
        /\ how # "interrupt-next" => f = n + 1
  BY <1>2
<1>4. DOMAIN queue' = 1 .. n + 1
  <2> HIDE DEF K
  <2> QED
    BY <1>3, ElementsOf
<1>5. \A i \in 1 .. n : queue[i] # s
  BY <1>0 DEF Jobs
<1> HIDE DEF n, K
<1>6. Once'
  <2>1. ASSUME NEW i \in 1 .. n + 1, NEW j \in 1 .. n + 1, queue'[i] = queue'[j]
        PROVE  i = j
    <3> DEFINE g(x) == IF x < f THEN x ELSE x - 1
    <3>1. \A x \in 1 .. n + 1 : x # f => g(x) \in 1 .. n /\ queue'[x] = queue[g(x)]
      BY <1>0, <1>3
    <3>2. CASE i = f \/ j = f
      BY <1>3, <1>5, <2>1, <3>1, <3>2
    <3>3. CASE i # f /\ j # f
      <4>1. g(i) = g(j)
        <5>1. queue[g(i)] = queue[g(j)] /\ g(i) \in 1 .. n /\ g(j) \in 1 .. n
          BY <2>1, <3>1, <3>3
        <5> HIDE DEF g
        <5> QED
          BY <1>0, <5>1 DEF Once
      <4> QED
        BY <1>0, <1>3, <3>3, <4>1
    <3> QED
      BY <3>2, <3>3
  <2>2. active' \notin ToSet(queue')
    BY <1>1, <1>3 DEF Once, Jobs
  <2> QED
    BY <1>4, <2>1, <2>2 DEF Once
<1>7. \A i \in 1 .. n : \E x \in 1 .. n + 1 :
        x = (IF i < f THEN i ELSE i + 1) /\ queue'[x] = queue[i]
  <2> SUFFICES ASSUME NEW i \in 1 .. n
               PROVE  \E x \in 1 .. n + 1 :
                        x = (IF i < f THEN i ELSE i + 1) /\ queue'[x] = queue[i]
    OBVIOUS
  <2>1. CASE i < f
    BY <1>0, <1>3, <2>1
  <2>2. CASE ~(i < f)
    <3>1. i + 1 \in 1 .. n + 1 /\ ~(i + 1 < f) /\ i + 1 # f /\ i + 1 - 1 = i
      BY <1>0, <2>2
    <3> QED
      BY <1>3, <2>2, <3>1
  <2> QED
    BY <2>1, <2>2
<1>8. ASSUME NEW h \in Keys, NEW p \in Keys, Ahead(h, p)  PROVE Ahead(h, p)'
  <2>1. CASE h = active
    BY <1>1, <2>1 DEF Ahead
  <2>2. CASE h # active
    <3>1. PICK i \in 1 .. n, j \in 1 .. n : i < j /\ queue[i] = h /\ queue[j] = p
      BY <1>0, <1>8, <2>2 DEF Ahead
    <3>2. PICK x \in 1 .. n + 1 : x = (IF i < f THEN i ELSE i + 1) /\ queue'[x] = queue[i]
      BY <1>7
    <3>3. PICK y \in 1 .. n + 1 : y = (IF j < f THEN j ELSE j + 1) /\ queue'[y] = queue[j]
      BY <1>7
    <3>4. x < y
      BY <1>0, <3>1, <3>2, <3>3
    <3> QED
      BY <1>4, <3>1, <3>2, <3>3, <3>4 DEF Ahead
  <2> QED
    BY <2>1, <2>2
<1>9. ASSUME how # "interrupt-next", NEW h \in Jobs  PROVE Ahead(h, s)'
  <2>1. CASE h = active
    BY <1>1, <2>1 DEF Ahead
  <2>2. CASE h # active
    <3>1. PICK i \in 1 .. n : queue[i] = h
      BY <1>0, <2>2 DEF Jobs
    <3>2. f = n + 1 /\ i < n + 1 /\ n + 1 \in 1 .. n + 1 /\ i \in 1 .. n + 1
      BY <1>0, <1>3, <1>9
    <3>3. queue'[i] = h /\ queue'[n + 1] = s
      BY <1>0, <1>3, <3>1, <3>2
    <3> QED
      BY <1>4, <3>2, <3>3 DEF Ahead
  <2> QED
    BY <2>1, <2>2
<1> QED
  BY <1>1, <1>3, <1>6, <1>8, <1>9

LEMMA QueueShrinks ==
  ASSUME Coordinated, Once, queue # <<>>, Starts(Head(queue), Tail(queue))
  PROVE  /\ active' \in ToSet(queue) /\ ToSet(queue') = ToSet(queue) \ {active'}
         /\ Once'
         /\ \A h, p \in Keys : h # active /\ Ahead(h, p) => p # active' /\ Ahead(h, p)'
<1> DEFINE K == Keys \cup Runs
           n == Len(queue)
           t == Tail(queue)
<1>0. queue \in Seq(K) /\ n \in Nat /\ DOMAIN queue = 1 .. n
      /\ ToSet(queue) = {queue[i] : i \in 1 .. n}
  BY ElementsOf DEF Coordinated
<1>1. /\ Head(queue) = queue[1] /\ 1 \in 1 .. n /\ Len(t) = n - 1
      /\ \A i \in 1 .. Len(t) : t[i] = queue[i + 1]
      /\ t \in Seq(K)
  BY <1>0, TailIs
<1>2. queue' = t /\ active' = queue[1]
  BY <1>1 DEF Starts
<1>3. DOMAIN t = 1 .. n - 1 /\ ToSet(t) = {t[i] : i \in 1 .. n - 1}
  <2> HIDE DEF t, K
  <2> QED
    BY <1>1, ElementsOf
<1> HIDE DEF t, K, n
<1>4. \A i \in 1 .. n : \A j \in 1 .. n : queue[i] = queue[j] => i = j
  BY <1>0 DEF Once
<1>5. \A i \in 1 .. n - 1 : i + 1 \in 1 .. n /\ i + 1 # 1 /\ t[i] = queue[i + 1]
  BY <1>0, <1>1
<1>6. ToSet(t) = ToSet(queue) \ {queue[1]}
  <2>1. ASSUME NEW x \in ToSet(t)  PROVE x \in ToSet(queue) /\ x # queue[1]
    <3>1. PICK i \in 1 .. n - 1 : x = t[i]
      BY <1>3
    <3> QED
      BY <1>0, <1>1, <1>4, <1>5, <3>1
  <2>2. ASSUME NEW x \in ToSet(queue), x # queue[1]  PROVE x \in ToSet(t)
    <3>1. PICK i \in 1 .. n : x = queue[i]
      BY <1>0
    <3>2. i - 1 \in 1 .. n - 1 /\ i - 1 + 1 = i
      BY <1>0, <2>2, <3>1
    <3>3. t[i - 1] = x
      BY <1>5, <3>1, <3>2
    <3> QED
      BY <1>3, <3>2, <3>3
  <2> QED
    BY <2>1, <2>2
<1>7. Once'
  <2>1. ASSUME NEW i \in 1 .. n - 1, NEW j \in 1 .. n - 1, t[i] = t[j]  PROVE i = j
    <3>1. i + 1 = j + 1
      BY <1>4, <1>5, <2>1
    <3> QED
      BY <1>0, <3>1
  <2> QED
    BY <1>2, <1>3, <1>6, <2>1 DEF Once
<1>8. ASSUME NEW h \in Keys, NEW p \in Keys, h # active, Ahead(h, p)
      PROVE  p # active' /\ Ahead(h, p)'
  <2>1. PICK i \in 1 .. n, j \in 1 .. n : i < j /\ queue[i] = h /\ queue[j] = p
    BY <1>0, <1>8 DEF Ahead
  <2>2. j - 1 \in 1 .. n - 1 /\ j - 1 + 1 = j /\ j # 1
    BY <1>0, <2>1
  <2>3. p # active' /\ t[j - 1] = p
    BY <1>1, <1>2, <1>4, <1>5, <2>1, <2>2
  <2>4. CASE i = 1
    BY <1>2, <2>1, <2>3, <2>4 DEF Ahead
  <2>5. CASE i # 1
    <3>1. i - 1 \in 1 .. n - 1 /\ i - 1 + 1 = i /\ i - 1 < j - 1
      BY <1>0, <2>1, <2>5
    <3>2. t[i - 1] = h
      BY <1>5, <2>1, <3>1
    <3> QED
      BY <1>2, <1>3, <2>2, <2>3, <3>1, <3>2 DEF Ahead
  <2> QED
    BY <2>3, <2>4, <2>5
<1>9. queue[1] \in ToSet(queue)
  BY <1>0, <1>1
<1> QED
  BY <1>2, <1>6, <1>7, <1>8, <1>9


-----------------------------------------------------------------------------
(* The jobs and the lane *)

\* Without recover() the jobs are the submissions that hold a ticket of their own, each
\* there once, and the run of the lane's head is ahead of the pending one.
Lined ==
  /\ active \in Keys \cup {None} /\ ToSet(queue) \subseteq Keys
  /\ \A t \in Keys : phase[t] = "ticketed" <=> t \in Jobs
  /\ Once
  /\ \A h, p \in Keys : laneState.head = RunOf[h] /\ laneState.pending = RunOf[p] =>
       p # active /\ (p \in ToSet(queue) => Ahead(h, p))

\* Nobody is still about to join a run that was looked up.
Joined ==
  stage \in {"lookup", "acquire", "run"} =>
    \A u \in Keys : plan[u].run = RunOf[active] => phase[u] \notin Entered

InLine == ~recovered => Lined /\ Joined

\* recover() is started once, is not undone, and decides nothing before.
LEMMA RecoveredStays ==
  ASSUME AdmissionInv, [AdmissionNext]_admissionVars
  PROVE  /\ Recovering => recovered /\ recovered'
         /\ recovered' = recovered \/ Recovering \/ StartRecovery
<1> USE DEF AdmissionInv
<1> DEFINE Same == recovered' = recovered
<1>1. Recovering => recovered /\ recovered'
  BY DEF Recovering, NextItem, Decided, Decision, Resume, Load, ItemOver, Scanning
<1>3. ASSUME NEW j, NEW resumed, AcquisitionSettles(j, resumed)  PROVE Same
  BY <1>3 DEF AcquisitionSettles, ItemOver, recVars
<1>4. ASSUME NEW s \in Keys, Submission(s)  PROVE Same
  BY <1>4 DEF Submission, Preflight, Write, HandOff, recVars
<1>5. UNCHANGED recVars => Same
  BY DEF recVars
<1>6. ASSUME NEW why, NEW resumed, JobEnds(why, resumed)  PROVE Same
  BY <1>3, <1>6 DEF JobEnds
<1>7. ASSUME Lookup  PROVE Same
  <2>1. UNCHANGED recVars \/ \E resumed : JobEnds("answered", resumed)
    BY <1>7 DEF Lookup
  <2> QED
    BY <1>5, <1>6, <2>1
<1>8. ASSUME AcquireRun  PROVE Same
  <2>1. \/ \E resumed : AcquisitionSettles(active, resumed)
        \/ \E why, resumed : JobEnds(why, resumed)
    BY <1>8 DEF AcquireRun
  <2> QED
    BY <1>3, <1>6, <2>1
<1>9. ASSUME FinishRun  PROVE Same
  BY <1>6, <1>9 DEF FinishRun
<1>10. ASSUME Drain  PROVE Same
  BY <1>10 DEF Drain, ItemOver, recVars
<1>11. ASSUME \/ UNCHANGED admissionVars \/ Create \/ TakeOn \/ Retry
              \/ Close \/ GraceEnds \/ Return
       PROVE  Same
  BY <1>11 DEF admissionVars, recVars, Create, TakeOn, Retry, AttemptUnchanged, Close,
               GraceEnds, Return
<1>12. ASSUME NEW s \in Keys, NEW how \in InputPolicies, Submit(s, how)  PROVE Same
  BY <1>12 DEF Submit, recVars
<1>13. ASSUME NEW r \in Runs, InterruptRun(r) \/ Stop(r)  PROVE Same
  BY <1>13 DEF InterruptRun, Stop, recVars
<1>14. ASSUME NEW k \in Elsewhere, AdmittedElsewhere(k)  PROVE Same
  BY <1>14 DEF AdmittedElsewhere, recVars
<1> HIDE DEF Same
<1>15. Same \/ Recovering \/ StartRecovery
  BY <1>4, <1>7, <1>8, <1>9, <1>10, <1>11, <1>12, <1>13, <1>14
     DEF AdmissionNext, Starting, Stopping
<1> QED
  BY <1>1, <1>15 DEF Same

LEMMA NotRecovered ==
  ASSUME AdmissionInv, [AdmissionNext]_admissionVars, ~recovered'
  PROVE  ~recovered /\ step = "idle" /\ ~Recovering /\ ~StartRecovery
<1>1. ~StartRecovery
  BY DEF StartRecovery
<1>2. ~Recovering
  BY RecoveredStays
<1>3. recovered' = recovered
  BY <1>1, <1>2, RecoveredStays
<1> QED
  BY <1>1, <1>2, <1>3 DEF AdmissionInv, Scanning

\* Whom the lane still has after a step it had before.
LEMMA LaneShrinks ==
  ASSUME AdmissionInv, LaneInv, LaneStep, NEW h \in Keys, NEW p \in Keys,
         laneState'.head = RunOf[h], laneState'.pending = RunOf[p]
  PROVE  /\ laneState.head = RunOf[h] /\ laneState.pending = RunOf[p]
         /\ phase'[h] # "done" /\ phase'[p] # "done"
<1> USE AdmissionAssumption, StoreAssumption DEF AdmissionInv
<1>1. PICK S \in SUBSET Keys : Leaving(S)
  BY DEF LaneStep
<1>2. laneState' = Settled({RunOf[s] : s \in S})
  BY <1>1 DEF Leaving
<1>3. RunOf[h] # None /\ RunOf[p] # None
  OBVIOUS
<1>4. laneState.head = RunOf[h] /\ laneState.pending = RunOf[p]
  BY <1>2, <1>3 DEF Settled, Idle
<1>5. LaneInv'
  BY LaneStepKeeps
<1>6. RunOf[h] \in InLane' /\ RunOf[p] \in InLane'
  BY <1>3 DEF InLane
<1>7. phase'[h] # "done" /\ phase'[p] # "done"
  BY <1>5, <1>6 DEF LaneInv, Housed
<1> QED
  BY <1>4, <1>7

LEMMA LinedStays ==
  ASSUME Lined, UNCHANGED <<queue, active>>,
         \A t \in Keys : phase'[t] = "ticketed" <=> phase[t] = "ticketed",
         \A h, p \in Keys : laneState'.head = RunOf[h] /\ laneState'.pending = RunOf[p] =>
           p \notin Jobs \/ (laneState.head = RunOf[h] /\ laneState.pending = RunOf[p])
  PROVE  Lined'
<1>1. Jobs' = Jobs /\ Once' /\ \A h, p \in Keys : Ahead(h, p)' <=> Ahead(h, p)
  BY DEF Lined, Jobs, Once, Ahead
<1>2. ASSUME NEW h \in Keys, NEW p \in Keys,
             laneState'.head = RunOf[h], laneState'.pending = RunOf[p]
      PROVE  p # active' /\ (p \in ToSet(queue') => Ahead(h, p)')
  BY <1>1, <1>2 DEF Lined, Jobs
<1> QED
  BY <1>1, <1>2 DEF Lined

\* Who is told, but for those of the queue, holds no ticket of its own.
LEMMA RefusedAreNotJobs ==
  ASSUME Submitted, NEW s \in Keys, phase[s] # "ticketed", NEW why, Refuse(s, why)
  PROVE  \A t \in Keys : phase'[t] = "ticketed" <=> phase[t] = "ticketed"
<1> DEFINE T == IF plan[s].schedules THEN {s} \cup Followers({s}) ELSE {s}
<1>1. Ending(T, why)
  BY RefuseEnds
<1>2. \A t \in Keys : t \in T => phase[t] # "ticketed"
  BY DEF Followers
<1> HIDE DEF T
<1> QED
  BY <1>1, <1>2 DEF Ending


\* The pending run's leader comes to the coordinator after the head's.
LEMMA PendingComesLater ==
  ASSUME AdmissionInv, LaneInv, Lined, NEW h \in Keys, NEW p \in Keys,
         Reserved(p), phase[p] \notin {"new", "entered"}, RunOf[h] \in InLane,
         stamp[h] < stamp[p]
  PROVE  h \in Jobs
<1> USE AdmissionAssumption, StoreAssumption DEF AdmissionInv, LaneInv
<1>1. Leads(h) /\ phase[h] # "done" /\ plan[h].run = RunOf[h]
  BY DEF Housed, Leads, Planned
<1>2. phase[h] \notin Entered
  BY <1>1 DEF Chained
<1>3. phase[h] # "new"
  <2>1. NoPlan.run = None
    BY DEF NoPlan
  <2> QED
    BY <1>1, <2>1 DEF Planned
<1>4. phase[h] # "attached"
  BY <1>1 DEF Origins, Leads
<1>5. phase[h] \in Phases
  BY DEF Submitted
<1> QED
  BY <1>2, <1>3, <1>4, <1>5, <1>1 DEF Lined, Phases

LEMMA HandOffLines ==
  ASSUME AdmissionInv, LaneInv, Lined, LaneStep, NEW s \in Keys, HandOff(s)
  PROVE  Lined'
<1> USE AdmissionAssumption, StoreAssumption DEF AdmissionInv
<1>1. phase[s] = "written"
  BY DEF HandOff
<1>2. \A h, p \in Keys : laneState'.head = RunOf[h] /\ laneState'.pending = RunOf[p] =>
        laneState.head = RunOf[h] /\ laneState.pending = RunOf[p]
  BY LaneShrinks
<1>3. CASE UNCHANGED jobVars /\ \E why : Refuse(s, why)
  BY <1>1, <1>2, <1>3, RefusedAreNotJobs, LinedStays DEF jobVars
<1>4. CASE UNCHANGED jobVars /\ Moves(s, "attached")
  <2>1. phase' = [phase EXCEPT ![s] = "attached"] /\ phase \in [Keys -> Phases]
    BY <1>4 DEF Moves, Submitted
  <2>2. \A t \in Keys : phase'[t] = "ticketed" <=> phase[t] = "ticketed"
    BY <1>1, <2>1
  <2> QED
    BY <1>2, <1>4, <2>2, LinedStays DEF jobVars
<1>5. CASE plan[s].schedules /\ Moves(s, "ticketed") /\ Enqueue(s, policy[s])
  <2>1. phase' = [phase EXCEPT ![s] = "ticketed"] /\ laneState' = laneState
    BY <1>5 DEF Moves
  <2>2. \A t \in Keys : phase'[t] = "ticketed" <=> t = s \/ phase[t] = "ticketed"
    BY <2>1 DEF Submitted
  <2>3. s \notin Jobs
    BY <1>1 DEF Lined
  <2>4. \A h, p \in Keys : laneState.head = RunOf[h] /\ laneState.pending = RunOf[p] =>
          /\ RunOf[h] \in InLane /\ Reserved(p) /\ stamp[h] < stamp[p]
    <3> SUFFICES ASSUME NEW h \in Keys, NEW p \in Keys,
                        laneState.head = RunOf[h], laneState.pending = RunOf[p]
                 PROVE  RunOf[h] \in InLane /\ Reserved(p) /\ stamp[h] < stamp[p]
      OBVIOUS
    <3>1. RunOf[h] \in InLane /\ RunOf[p] \in InLane
      BY DEF InLane
    <3> QED
      BY <3>1 DEF LaneInv, Housed, Leads
  <2>5. CASE active = None
    <3>1. queue = <<>> /\ queue' = queue /\ active' = s
      BY <1>5, <2>5 DEF Enqueue, Starts, Coordinated
    <3>2. ToSet(queue) = {} /\ DOMAIN queue = {}
      BY <3>1, ElementsOf DEF Coordinated, ToSet
    <3>3. ASSUME NEW h \in Keys, NEW p \in Keys,
                 laneState.head = RunOf[h], laneState.pending = RunOf[p]
          PROVE  p # s
      <4> SUFFICES ASSUME p = s  PROVE FALSE
        OBVIOUS
      <4>1. h \in Jobs
        BY <1>1, <2>4, <3>3, PendingComesLater
      <4> QED
        BY <2>5, <3>2, <4>1 DEF Jobs
    <3> QED
      BY <2>1, <2>2, <2>5, <3>1, <3>2, <3>3 DEF Lined, Once, Jobs
  <2>6. CASE active # None
    <3>1. /\ active' = active /\ ToSet(queue') = ToSet(queue) \cup {s}
          /\ Once'
          /\ \A h, p \in Keys : Ahead(h, p) => Ahead(h, p)'
          /\ policy[s] # "interrupt-next" => \A h \in Jobs : Ahead(h, s)'
      BY <1>5, <2>3, <2>6, QueueGrows DEF Lined
    <3>2. ASSUME NEW h \in Keys, NEW p \in Keys,
                 laneState.head = RunOf[h], laneState.pending = RunOf[p]
          PROVE  p # active /\ (p \in ToSet(queue') => Ahead(h, p)')
      <4>1. CASE p # s
        BY <3>1, <3>2, <4>1 DEF Lined
      <4>2. CASE p = s
        <5>1. h \in Jobs
          BY <1>1, <2>4, <3>2, <4>2, PendingComesLater
        <5>2. policy[s] # "interrupt-next"
          BY <2>4, <3>2, <4>2 DEF LaneInv, Planned, Urgent
        <5> QED
          BY <2>3, <3>1, <4>2, <5>1, <5>2 DEF Jobs
      <4> QED
        BY <4>1, <4>2
    <3> QED
      BY <2>1, <2>2, <3>1, <3>2 DEF Lined, Jobs
  <2> QED
    BY <2>5, <2>6
<1> QED
  BY <1>3, <1>4, <1>5 DEF HandOff

LEMMA JobEndsLines ==
  ASSUME AdmissionInv, LaneInv, Lined, LaneStep, active # None,
         NEW why, NEW resumed, JobEnds(why, resumed)
  PROVE  Lined'
<1> USE AdmissionAssumption, StoreAssumption DEF AdmissionInv
<1> DEFINE T == {active} \cup Followers({active})
<1>1. active \in Keys /\ Ending(T, why) /\ StartNext
  BY TellEnds DEF JobEnds, Lined
<1>2. \A t \in Keys : t \in T => t = active \/ phase[t] = "attached"
  BY DEF Followers
<1>3. active \in T
  OBVIOUS
<1> HIDE DEF T
<1>4. \A t \in Keys : phase'[t] = "ticketed" <=> t # active /\ phase[t] = "ticketed"
  BY <1>1, <1>2, <1>3 DEF Ending
<1>5. phase'[active] = "done"
  BY <1>1, <1>3 DEF Ending
<1>6. \A h, p \in Keys : laneState'.head = RunOf[h] /\ laneState'.pending = RunOf[p] =>
        /\ laneState.head = RunOf[h] /\ laneState.pending = RunOf[p]
        /\ h # active /\ p # active
  BY <1>5, LaneShrinks
<1>7. CASE queue = <<>>
  <2>1. queue' = <<>> /\ active' = None /\ ToSet(queue) = {} /\ DOMAIN queue = {}
    BY <1>1, <1>7, ElementsOf DEF StartNext, Starts, Coordinated, ToSet
  <2> QED
    BY <1>4, <1>7, <2>1 DEF Lined, Jobs, Once
<1>8. CASE queue # <<>>
  <2>1. /\ active' \in ToSet(queue) /\ ToSet(queue') = ToSet(queue) \ {active'}
        /\ Once'
        /\ \A h, p \in Keys : h # active /\ Ahead(h, p) => p # active' /\ Ahead(h, p)'
    BY <1>1, <1>8, QueueShrinks DEF StartNext, Lined
  <2>2. ASSUME NEW h \in Keys, NEW p \in Keys,
               laneState'.head = RunOf[h], laneState'.pending = RunOf[p]
        PROVE  p # active' /\ (p \in ToSet(queue') => Ahead(h, p)')
    <3>1. /\ laneState.head = RunOf[h] /\ laneState.pending = RunOf[p]
          /\ h # active /\ p # active
      BY <1>6, <2>2
    <3>2. p \in ToSet(queue) => Ahead(h, p)
      BY <3>1 DEF Lined
    <3> QED
      BY <2>1, <3>1, <3>2
  <2>3. Jobs' = Jobs \ {active}
    BY <2>1 DEF Jobs, Lined, Once
  <2> QED
    BY <1>4, <2>1, <2>2, <2>3 DEF Lined
<1> QED
  BY <1>7, <1>8

LEMMA DrainLines ==
  ASSUME AdmissionInv, LaneInv, Lined, LaneStep, Drain
  PROVE  Lined'
<1> USE AdmissionAssumption, StoreAssumption DEF AdmissionInv
<1> DEFINE S == ToSet(queue) \cap Keys
           T == S \cup Followers(S)
<1>1. Ending(T, "closed") /\ queue' = <<>> /\ active' = active
  BY TellEnds DEF Drain
<1>2. \A t \in Keys : t \in T => t \in ToSet(queue) \/ phase[t] = "attached"
  BY DEF Followers
<1>3. ToSet(queue) \subseteq T
  BY DEF Lined
<1> HIDE DEF T
<1>4. \A t \in Keys : phase'[t] = "ticketed" <=> t = active
  BY <1>1, <1>2, <1>3 DEF Ending, Lined, Jobs, Once
<1>5. ToSet(queue') = {} /\ DOMAIN queue' = {}
  BY <1>1 DEF ToSet
<1>6. \A h, p \in Keys : laneState'.head = RunOf[h] /\ laneState'.pending = RunOf[p] =>
        laneState.head = RunOf[h] /\ laneState.pending = RunOf[p]
  BY LaneShrinks
<1> QED
  BY <1>1, <1>4, <1>5, <1>6 DEF Lined, Jobs, Once

LEMMA SubmitLines ==
  ASSUME AdmissionInv, LaneInv, Lined, NEW s \in Keys, NEW how, Submit(s, how)
  PROVE  Lined'
<1> USE AdmissionAssumption, StoreAssumption DEF AdmissionInv
<1>1. /\ phase[s] = "new" /\ phase' = [phase EXCEPT ![s] = "entered"]
      /\ UNCHANGED <<queue, active>>
      /\ Reserve(s) \/ UNCHANGED laneState
  BY DEF Submit, jobVars
<1>2. \A t \in Keys : phase'[t] = "ticketed" <=> phase[t] = "ticketed"
  BY <1>1 DEF Submitted
<1>3. s \notin Jobs
  BY <1>1 DEF Lined
<1>4. ASSUME NEW h \in Keys, NEW p \in Keys,
             laneState'.head = RunOf[h], laneState'.pending = RunOf[p]
      PROVE  p \notin Jobs \/ (laneState.head = RunOf[h] /\ laneState.pending = RunOf[p])
  <2>1. CASE UNCHANGED laneState
    BY <1>4, <2>1
  <2>2. CASE Reserve(s)
    <3> DEFINE hd == laneState.head  pd == laneState.pending
               run == IF hd = None \/ pd = None THEN RunOf[s] ELSE pd
    <3>1. /\ laneState'.head = IF hd = None THEN run ELSE hd
          /\ laneState'.pending = IF hd = None THEN pd ELSE run
      BY <2>2 DEF Reserve
    <3>2. hd = None => pd = None
      BY DEF LaneInv, Housed, Idle
    <3>3. RunOf[p] # None
      OBVIOUS
    <3> HIDE DEF hd, pd
    <3>4. hd = RunOf[h] /\ run = RunOf[p]
      BY <1>4, <3>1, <3>2, <3>3
    <3>5. p = s \/ pd = RunOf[p]
      BY <3>4
    <3> QED
      BY <1>3, <3>4, <3>5 DEF hd, pd
  <2> QED
    BY <1>1, <2>1, <2>2
<1> QED
  BY <1>1, <1>2, <1>4, LinedStays


LEMMA LinedKept ==
  ASSUME AdmissionInv, LaneInv, Lined, [AdmissionNext]_admissionVars, ~recovered'
  PROVE  Lined'
<1> USE DEF AdmissionInv
<1>1. ~Recovering /\ ~StartRecovery
  BY NotRecovered
<1>2. CASE \E s \in Keys, how \in InputPolicies : Submit(s, how)
  BY <1>2, SubmitLines
<1>3. CASE ~ \E s \in Keys, how \in InputPolicies : Submit(s, how)
  <2>1. LaneStep
    BY <1>3, LaneMoves
  <2>2. \A h, p \in Keys : laneState'.head = RunOf[h] /\ laneState'.pending = RunOf[p] =>
          laneState.head = RunOf[h] /\ laneState.pending = RunOf[p]
    BY <2>1, LaneShrinks
  <2>3. CASE UNCHANGED <<phase, queue, active>>
    BY <2>2, <2>3, LinedStays
  <2>4. ASSUME NEW s \in Keys, Preflight(s) \/ Write(s)  PROVE Lined'
    <3>1. phase[s] \in {"entered", "cleared"} /\ UNCHANGED jobVars
      BY <2>4 DEF Preflight, Write
    <3>2. Moves(s, "cleared") \/ Moves(s, "written") \/ \E why : Refuse(s, why)
      BY <2>4 DEF Preflight, Write
    <3>3. \A t \in Keys : phase'[t] = "ticketed" <=> phase[t] = "ticketed"
      <4>1. CASE \E why : Refuse(s, why)
        BY <3>1, <4>1, RefusedAreNotJobs
      <4>2. CASE Moves(s, "cleared") \/ Moves(s, "written")
        BY <3>1, <4>2 DEF Moves, Submitted
      <4> QED
        BY <3>2, <4>1, <4>2
    <3> QED
      BY <2>2, <3>1, <3>3, LinedStays DEF jobVars
  <2>5. ASSUME NEW s \in Keys, HandOff(s)  PROVE Lined'
    BY <2>1, <2>5, HandOffLines
  <2>6. ASSUME active # None, NEW why, NEW resumed, JobEnds(why, resumed)  PROVE Lined'
    BY <2>1, <2>6, JobEndsLines
  <2>7. CASE Lookup
    BY <2>3, <2>6, <2>7 DEF Lookup, Coordinated, subVars
  <2>8. CASE AcquireRun
    BY <2>3, <2>6, <2>8 DEF AcquireRun, Coordinated, subVars
  <2>9. CASE FinishRun
    BY <2>6, <2>9 DEF FinishRun, Coordinated
  <2>10. CASE Drain
    BY <2>1, <2>10, DrainLines
  <2>11. CASE \/ UNCHANGED admissionVars \/ Create \/ TakeOn \/ Retry
              \/ Close \/ GraceEnds \/ Return
    BY <2>3, <2>11 DEF admissionVars, subVars, jobVars, Create, TakeOn, Retry,
                       AttemptUnchanged, Close, GraceEnds, Return
  <2>12. ASSUME NEW r \in Runs, InterruptRun(r) \/ Stop(r)  PROVE Lined'
    BY <2>3, <2>12 DEF InterruptRun, Stop, subVars, jobVars
  <2>13. ASSUME NEW k \in Elsewhere, AdmittedElsewhere(k)  PROVE Lined'
    BY <2>3, <2>13 DEF AdmittedElsewhere, subVars, jobVars
  <2> QED
    BY <1>1, <1>3, <2>4, <2>5, <2>7, <2>8, <2>9, <2>10, <2>11, <2>12, <2>13
       DEF AdmissionNext, Submission, Starting, Stopping
<1> QED
  BY <1>2, <1>3

\* A job that has a reservation leads its run.
LEMMA JobsLead ==
  ASSUME AdmissionInv, LaneInv, Lined, NEW a \in Keys \cap Jobs, NEW u \in Keys,
         plan[u].run = RunOf[a]
  PROVE  Leads(a) /\ RunOf[a] \in InLane /\ phase[a] = "ticketed"
<1> USE AdmissionAssumption, StoreAssumption
<1>1. Reserved(u)
  BY DEF Reserved
<1>2. Leads(a)
  <2>1. CASE plan[u].schedules
    BY <1>1, <2>1 DEF LaneInv, Planned, Leads
  <2>2. CASE ~plan[u].schedules
    BY <1>1, <2>2 DEF LaneInv, Planned
  <2> QED
    BY <2>1, <2>2
<1>3. phase[a] = "ticketed"
  BY DEF Lined
<1> QED
  BY <1>2, <1>3 DEF LaneInv, Housed

LEMMA CreateJoins ==
  ASSUME AdmissionInv, LaneInv, Lined, Create
  PROVE  Joined'
<1> USE AdmissionAssumption, StoreAssumption DEF AdmissionInv
<1>1. /\ stage = "create" /\ active' = active /\ UNCHANGED subVars
      /\ plan[active].run # None => AcceptanceDone(laneState.tail)
  BY DEF Create, Lined, Coordinated
<1>2. active \in Keys \cap Jobs
  BY <1>1 DEF Lined, Coordinated, Jobs
<1>3. ASSUME NEW u \in Keys, plan[u].run = RunOf[active]  PROVE phase[u] \notin Entered
  <2>1. Leads(active) /\ RunOf[active] \in InLane
    BY <1>2, <1>3, JobsLead
  <2>2. stamp[u] <= stamp[laneState.tail]
    BY <1>3, <2>1 DEF LaneInv, Chained
  <2>3. laneState.tail \in Keys /\ Reserved(laneState.tail)
    <3>1. laneState.head # None
      <4>1. Idle.head = None /\ Idle.pending = None
        BY DEF Idle
      <4> QED
        BY <2>1, <4>1 DEF LaneInv, Housed, InLane
    <3> QED
      BY <3>1 DEF LaneInv, Housed, Submitted
  <2>4. phase[laneState.tail] \notin Entered
    BY <1>1, <2>1, <2>3 DEF AcceptanceDone, Leads, Reserved
  <2>5. CASE u = laneState.tail
    BY <2>4, <2>5
  <2>6. CASE u # laneState.tail
    <3>1. stamp[u] # 0
      <4>1. phase[u] # "new"
        <5>1. NoPlan.run = None
          BY DEF NoPlan
        <5>2. plan[u].run # None
          BY <1>2, <1>3
        <5>3. phase[u] = "new" => plan[u] = NoPlan
          BY DEF LaneInv, Planned
        <5> QED
          BY <5>1, <5>2, <5>3
      <4> QED
        BY <4>1 DEF LaneInv, Stamped
    <3>2. /\ stamp[u] \in 0 .. Cardinality(Keys) /\ stamp[laneState.tail] \in 0 .. Cardinality(Keys)
          /\ Cardinality(Keys) \in Nat
      BY <2>3, FS_CardinalityType DEF Submitted
    <3>3. stamp[u] # stamp[laneState.tail]
      BY <2>3, <2>6, <3>1 DEF LaneInv, Stamped
    <3>4. stamp[u] < stamp[laneState.tail]
      BY <2>2, <3>2, <3>3
    <3> QED
      BY <1>3, <2>1, <2>3, <2>4, <3>4 DEF LaneInv, Chained, Entered
  <2> QED
    BY <2>5, <2>6
<1> QED
  BY <1>1, <1>3 DEF Joined, subVars

LEMMA SubmitJoins ==
  ASSUME AdmissionInv, LaneInv, Lined, Joined, NEW s \in Keys, NEW how, Submit(s, how)
  PROVE  Joined'
<1> USE AdmissionAssumption, StoreAssumption DEF AdmissionInv
<1>1. /\ phase[s] = "new" /\ phase' = [phase EXCEPT ![s] = "entered"]
      /\ UNCHANGED <<active, stage>>
      /\ Reserve(s) \/ UNCHANGED plan
  BY DEF Submit, jobVars
<1> SUFFICES ASSUME stage \in {"lookup", "acquire", "run"}, NEW u \in Keys,
                    plan'[u].run = RunOf[active]
             PROVE  phase'[u] \notin Entered
  BY <1>1 DEF Joined
<1>2. active \in Keys \cap Jobs /\ phase[active] = "ticketed"
  BY DEF Lined, Coordinated, Jobs
<1>3. CASE u # s
  <2>1. plan'[u] = plan[u] /\ phase'[u] = phase[u]
    BY <1>1, <1>3 DEF Reserve, Submitted
  <2> QED
    BY <2>1 DEF Joined
<1>4. CASE u = s
  <2>1. plan[s].run = None
    <3>1. plan[s] = NoPlan
      BY <1>1 DEF LaneInv, Planned
    <3>2. NoPlan.run = None
      BY DEF NoPlan
    <3> QED
      BY <3>1, <3>2
  <2>2. Reserve(s)
    BY <1>1, <1>2, <1>4, <2>1
  <2> DEFINE hd == laneState.head  pd == laneState.pending
             run == IF hd = None \/ pd = None THEN RunOf[s] ELSE pd
  <2>3. plan'[s].run = run
    BY <2>2 DEF Reserve, Submitted
  <2> HIDE DEF hd, pd
  <2>4. CASE hd = None \/ pd = None
    <3>1. RunOf[s] = RunOf[active]
      BY <1>4, <2>3, <2>4
    <3> QED
      BY <1>1, <1>2, <3>1
  <2>5. CASE ~(hd = None \/ pd = None)
    <3>1. pd = RunOf[active]
      BY <1>4, <2>3, <2>5
    <3>2. hd \in InLane
      BY <2>5 DEF InLane, hd
    <3>3. PICK h \in Keys : hd = RunOf[h]
      BY <3>2 DEF LaneInv, Housed
    <3> QED
      BY <1>2, <3>1, <3>3 DEF Lined, hd, pd
  <2> QED
    BY <2>4, <2>5
<1> QED
  BY <1>3, <1>4

\* A job is looked up by Create alone.
LEMMA StageMoves ==
  ASSUME AdmissionInv, [AdmissionNext]_admissionVars
  PROVE  \/ Create
         \/ stage' \notin {"lookup", "acquire", "run"}
         \/ active' = active /\ stage \in {"lookup", "acquire", "run"}
<1> DEFINE Goal == \/ stage' \notin {"lookup", "acquire", "run"}
                   \/ active' = active /\ stage \in {"lookup", "acquire", "run"}
<1>1. CASE UNCHANGED <<active, stage>>
  BY <1>1
<1>2. ASSUME NEW j, NEW how, Enqueue(j, how)  PROVE Goal
  BY <1>2 DEF Enqueue, Starts
<1>3. ASSUME StartNext  PROVE Goal
  BY <1>3 DEF StartNext, Starts
<1>4. ASSUME NEW s \in Keys, Submission(s)  PROVE Goal
  <2>1. UNCHANGED jobVars \/ \E how : Enqueue(s, how)
    BY <1>4 DEF Submission, Preflight, Write, HandOff
  <2> QED
    BY <1>2, <2>1 DEF jobVars
<1>5. ASSUME Recovering  PROVE Goal
  <2>1. UNCHANGED jobVars \/ \E j, how : Enqueue(j, how)
    BY <1>5 DEF Recovering, NextItem, Decided, Decision, Resume, Load, RecoveryUnchanged
  <2> QED
    BY <1>2, <2>1 DEF jobVars
<1>6. ASSUME Lookup \/ AcquireRun \/ FinishRun  PROVE Goal
  BY <1>3, <1>6 DEF Lookup, AcquireRun, FinishRun, JobEnds
<1>7. ASSUME \/ UNCHANGED admissionVars \/ TakeOn \/ Retry \/ StartRecovery
             \/ Close \/ Drain \/ GraceEnds \/ Return
      PROVE  UNCHANGED <<active, stage>>
  BY <1>7 DEF admissionVars, jobVars, TakeOn, Retry, AttemptUnchanged, StartRecovery,
              RecoveryUnchanged, Close, Drain, GraceEnds, Return
<1>8. ASSUME NEW s \in Keys, NEW how \in InputPolicies, Submit(s, how)
      PROVE  UNCHANGED <<active, stage>>
  BY <1>8 DEF Submit, jobVars
<1>9. ASSUME NEW r \in Runs, InterruptRun(r) \/ Stop(r)  PROVE UNCHANGED <<active, stage>>
  BY <1>9 DEF InterruptRun, Stop, jobVars
<1>10. ASSUME NEW k \in Elsewhere, AdmittedElsewhere(k)  PROVE UNCHANGED <<active, stage>>
  BY <1>10 DEF AdmittedElsewhere, jobVars
<1> QED
  BY <1>1, <1>4, <1>5, <1>6, <1>7, <1>8, <1>9, <1>10 DEF AdmissionNext, Starting, Stopping

LEMMA InLineKept ==
  AdmissionInv /\ LaneInv /\ InLine /\ [AdmissionNext]_admissionVars => InLine'
<1> SUFFICES ASSUME AdmissionInv, LaneInv, InLine, [AdmissionNext]_admissionVars, ~recovered'
             PROVE  Lined' /\ Joined'
  BY DEF InLine
<1>1. Lined /\ Joined
  BY NotRecovered DEF InLine
<1>2. ASSUME Create  PROVE Joined'
  BY <1>1, <1>2, CreateJoins
<1>3. ASSUME \E s \in Keys, how \in InputPolicies : Submit(s, how)  PROVE Joined'
  BY <1>1, <1>3, SubmitJoins
<1>4. CASE ~Create /\ ~ \E s \in Keys, how \in InputPolicies : Submit(s, how)
  <2>1. UNCHANGED plan /\ InTurn
    BY <1>4, LaneMoves DEF LaneStep
  <2>2. \/ stage' \notin {"lookup", "acquire", "run"}
        \/ active' = active /\ stage \in {"lookup", "acquire", "run"}
    BY <1>4, StageMoves
  <2>3. \A u \in Keys : phase'[u] \in Entered => phase[u] \in Entered
    BY <2>1 DEF InTurn
  <2>4. Joined'
    BY <1>1, <2>1, <2>2, <2>3 DEF Joined
  <2> QED
    BY <1>1, <2>4, LinedKept
<1> QED
  BY <1>1, <1>2, <1>3, <1>4, LinedKept

LEMMA InLineStarts == AdmissionInit => InLine
<1> SUFFICES ASSUME AdmissionInit  PROVE Lined /\ Joined
  BY DEF InLine
<1>1. /\ phase = [s \in Keys |-> "new"] /\ laneState = Idle /\ stage = "idle"
      /\ queue = <<>> /\ active = None
  BY DEF AdmissionInit
<1>2. ToSet(queue) = {} /\ DOMAIN queue = {} /\ Idle.head = None
  BY <1>1 DEF ToSet, Idle
<1> QED
  BY <1>1, <1>2, AdmissionAssumption, StoreAssumption DEF Lined, Joined, Jobs, Once


-----------------------------------------------------------------------------
(* What is on offer waits *)

\* An input on offer, or taken on by the attempt under way, is accepted for a run that
\* is still queued, and so is an input about to be offered; nothing is on offer of a run
\* that is being executed.
Waiting ==
  /\ offered \cap taken = {}
  /\ stage # "run" => taken = {}
  /\ \A o \in offered \cup taken :
       phase[o] # "new" /\ phase[o] \notin Entered /\ state[receipt[o]] = "queued"
  /\ \A u, t \in Keys :
       phase[u] = "written" /\ RunOf[t] = Where(u) /\ phase[t] # "done" =>
         state[RunOf[t]] = "queued"
  /\ stage \in {"acquire", "run"} => \A o \in offered : receipt[o] # RunFor(active)

OffersWait == closing = "open" /\ ~recovered => Waiting

\* Queued runs stay queued, and nothing more is offered.
LEMMA WaitingStays ==
  ASSUME TypeOK, Offers, Waiting, LaneStep,
         \A r \in Runs : state[r] = "queued" => state'[r] = "queued",
         \A k \in Keys : receipt[k] # None => receipt'[k] = receipt[k],
         \A u \in Keys : phase'[u] = "written" => phase[u] = "written",
         offered' \cup taken' \subseteq offered \cup taken,
         offered' \cap taken' = {},
         stage' # "run" => taken' = {},
         stage' \in {"acquire", "run"} => \A o \in offered' : receipt[o] # RunFor(active')
  PROVE  Waiting'
<1> USE AdmissionAssumption
<1>1. InTurn /\ plan' = plan
  BY DEF LaneStep
<1>2. \A o \in offered \cup taken : o \in Keys /\ receipt[o] # None /\ receipt'[o] = receipt[o]
                                    /\ receipt[o] \in Runs
  BY DEF Offers, TypeOK
<1>3. ASSUME NEW o \in offered' \cup taken'
      PROVE  phase'[o] # "new" /\ phase'[o] \notin Entered /\ state'[receipt'[o]] = "queued"
  BY <1>1, <1>2 DEF Waiting, InTurn
<1>4. ASSUME NEW u \in Keys, NEW t \in Keys, phase'[u] = "written", RunOf[t] = Where(u)',
             phase'[t] # "done"
      PROVE  state'[RunOf[t]] = "queued"
  <2>1. phase[u] = "written" /\ RunOf[t] = Where(u) /\ phase[t] # "done"
    BY <1>1, <1>4 DEF InTurn, Where
  <2> QED
    BY <2>1 DEF Waiting
<1>5. stage' \in {"acquire", "run"} => \A o \in offered' : receipt'[o] # RunFor(active')
  BY <1>2
<1> QED
  BY <1>3, <1>4, <1>5 DEF Waiting, RunFor

LEMMA SubmitWaits ==
  ASSUME AdmissionInv, Waiting, NEW s \in Keys, NEW how, Submit(s, how)
  PROVE  Waiting'
<1> USE AdmissionAssumption DEF AdmissionInv
<1>1. /\ phase[s] = "new" /\ phase' = [phase EXCEPT ![s] = "entered"]
      /\ UNCHANGED <<vars, jobVars, takeVars>>
      /\ Reserve(s) \/ UNCHANGED plan
  BY DEF Submit
<1>2. /\ UNCHANGED <<offered, taken, stage, active, state, receipt>>
  BY <1>1 DEF vars, acceptVars, jobVars, takeVars
<1>3. \A u \in Keys : u # s => phase'[u] = phase[u] /\ plan'[u] = plan[u]
  BY <1>1 DEF Reserve, Submitted
<1>4. phase'[s] = "entered"
  BY <1>1 DEF Submitted
<1>5. ASSUME NEW o \in offered \cup taken
      PROVE  phase'[o] # "new" /\ phase'[o] \notin Entered
  <2>1. o \in Keys /\ o # s
    BY <1>1 DEF Waiting, Offers
  <2> QED
    BY <1>3, <2>1 DEF Waiting
<1>6. ASSUME NEW u \in Keys, NEW t \in Keys, phase'[u] = "written", RunOf[t] = Where(u)',
             phase'[t] # "done"
      PROVE  state[RunOf[t]] = "queued"
  <2>1. u # s
    BY <1>4, <1>6
  <2>2. phase[u] = "written" /\ RunOf[t] = Where(u) /\ phase[t] # "done"
    BY <1>1, <1>3, <1>6, <2>1 DEF Where
  <2> QED
    BY <2>2 DEF Waiting
<1> QED
  BY <1>2, <1>5, <1>6 DEF Waiting, RunFor

LEMMA WriteWaits ==
  ASSUME TypeOK, AdmissionInv, Waiting, LaneStep, NEW s \in Keys, Write(s)
  PROVE  Waiting'
<1> USE AdmissionAssumption DEF AdmissionInv
<1>1. phase[s] = "cleared" /\ UNCHANGED jobVars
  BY DEF Write
<1>2. CASE Admit(s)
  <2>1. /\ receipt[s] = None /\ receipt' = [receipt EXCEPT ![s] = Where(s)]
        /\ Where(s) \in Runs
        /\ state'[Where(s)] = "queued"
        /\ \A r \in Runs : state[r] = "queued" => state'[r] = "queued"
    BY <1>2, AdmitIs DEF Where, TypeOK
  <2>2. \A k \in Keys : receipt[k] # None => receipt'[k] = receipt[k]
    BY <2>1 DEF TypeOK
  <2>3. /\ taken' = taken /\ offered' \subseteq offered
        /\ \A u \in Keys : phase'[u] = "written" => u = s \/ phase[u] = "written"
        /\ (\E why : Refuse(s, why)) => phase'[s] # "written"
    <3>1. CASE \E why : Refuse(s, why)
      <4> DEFINE T == IF plan[s].schedules THEN {s} \cup Followers({s}) ELSE {s}
      <4>1. PICK why : Ending(T, why) /\ UNCHANGED <<absorbed, taken>>
        BY <3>1, RefuseEnds
      <4>2. s \in T
        OBVIOUS
      <4> HIDE DEF T
      <4> QED
        BY <4>1, <4>2 DEF Ending
    <3>2. CASE Moves(s, "written") /\ UNCHANGED takeVars /\ ~\E why : Refuse(s, why)
      BY <3>2 DEF Moves, Submitted, takeVars
    <3>3. (Moves(s, "written") /\ UNCHANGED takeVars) \/ \E why : Refuse(s, why)
      BY DEF Write
    <3> QED
      BY <3>1, <3>2, <3>3
  <2>4. \A o \in offered \cup taken : o \in Keys /\ receipt[o] # None /\ receipt[o] \in Runs
    BY DEF Offers, TypeOK
  <2>5. ASSUME NEW o \in offered' \cup taken'
        PROVE  phase'[o] # "new" /\ phase'[o] \notin Entered /\ state'[receipt'[o]] = "queued"
    <3>1. o \in offered \cup taken /\ receipt'[o] = receipt[o] /\ state'[receipt[o]] = "queued"
      BY <2>1, <2>2, <2>3, <2>4 DEF Waiting
    <3> QED
      BY <2>4, <3>1 DEF Waiting, LaneStep, InTurn
  <2>6. ASSUME NEW u \in Keys, NEW t \in Keys, phase'[u] = "written", RunOf[t] = Where(u)',
               phase'[t] # "done"
        PROVE  state'[RunOf[t]] = "queued"
    <3>1. Where(u)' = Where(u) /\ phase[t] # "done"
      BY <2>6 DEF LaneStep, InTurn, Where
    <3>2. CASE u = s
      BY <2>1, <2>6, <3>1, <3>2
    <3>3. CASE u # s
      BY <2>1, <2>3, <2>6, <3>1, <3>3 DEF Waiting
    <3> QED
      BY <3>2, <3>3
  <2>7. UNCHANGED <<active, stage>> /\ \A o \in offered' : receipt'[o] = receipt[o]
    BY <1>1, <2>2, <2>3, <2>4 DEF jobVars
  <2> QED
    BY <2>3, <2>5, <2>6, <2>7 DEF Waiting, RunFor
<1>3. CASE UNCHANGED vars /\ \E why : Refuse(s, why)
  <2> DEFINE T == IF plan[s].schedules THEN {s} \cup Followers({s}) ELSE {s}
  <2>1. PICK why : Ending(T, why) /\ UNCHANGED <<absorbed, taken>>
    BY <1>3, RefuseEnds
  <2> HIDE DEF T
  <2>2. /\ offered' \subseteq offered /\ taken' = taken
        /\ \A u \in Keys : phase'[u] = "written" => phase[u] = "written"
    BY <2>1 DEF Ending
  <2>3. UNCHANGED <<active, stage, state, receipt>>
    BY <1>1, <1>3 DEF jobVars, vars, acceptVars
  <2> QED
    BY <2>2, <2>3, WaitingStays DEF Waiting
<1> QED
  BY <1>2, <1>3 DEF Write

LEMMA HandOffWaits ==
  ASSUME TypeOK, AdmissionInv, LaneInv, Lined, Joined, Waiting, LaneStep,
         NEW s \in Keys, HandOff(s)
  PROVE  Waiting'
<1> USE AdmissionAssumption, StoreAssumption DEF AdmissionInv
<1>1. phase[s] = "written" /\ UNCHANGED <<state, receipt, plan>> /\ InTurn
  BY DEF HandOff, LaneStep, vars, acceptVars
<1>2. receipt[s] = Where(s)
  BY <1>1 DEF Origins, Where
<1>3. s \notin Jobs /\ s \notin offered \cup taken
  BY <1>1 DEF Lined, Waiting, Entered
<1>4. CASE UNCHANGED jobVars /\ \E why : Refuse(s, why)
  <2> DEFINE T == IF plan[s].schedules THEN {s} \cup Followers({s}) ELSE {s}
  <2>1. PICK why : Ending(T, why) /\ UNCHANGED <<absorbed, taken>>
    BY <1>4, RefuseEnds
  <2> HIDE DEF T
  <2>2. /\ offered' \subseteq offered /\ taken' = taken
        /\ \A u \in Keys : phase'[u] = "written" => phase[u] = "written"
    BY <2>1 DEF Ending
  <2>3. UNCHANGED <<active, stage>>
    BY <1>4 DEF jobVars
  <2> QED
    BY <1>1, <2>2, <2>3, WaitingStays DEF Waiting
\* The input that is offered waits, and for another run than the active one.
<1>5. ASSUME NEW next \in {"ticketed", "attached"}, Moves(s, next), Offer(s),
             state[Where(s)] = "queued",
             \/ /\ UNCHANGED <<active, stage, taken>>
                /\ stage \in {"acquire", "run"} => Where(s) # RunFor(active)
             \/ stage' = "create" /\ taken' = {}
      PROVE  Waiting'
  <2>1. phase' = [phase EXCEPT ![s] = next] /\ offered' \subseteq offered \cup {s}
    BY <1>5 DEF Moves, Offer
  <2>2. phase'[s] = next /\ \A u \in Keys : u # s => phase'[u] = phase[u]
    BY <2>1 DEF Submitted
  <2>3. ASSUME NEW o \in offered' \cup taken'
        PROVE  phase'[o] # "new" /\ phase'[o] \notin Entered /\ state[receipt[o]] = "queued"
    <3>1. CASE o = s
      BY <1>2, <1>5, <2>2, <3>1 DEF Entered
    <3>2. CASE o # s
      <4>1. o \in offered \cup taken /\ o \in Keys
        BY <1>5, <2>1, <2>3, <3>2 DEF Offers
      <4> QED
        BY <2>2, <3>2, <4>1 DEF Waiting
    <3> QED
      BY <3>1, <3>2
  <2>4. ASSUME NEW u \in Keys, NEW t \in Keys, phase'[u] = "written", RunOf[t] = Where(u)',
               phase'[t] # "done"
        PROVE  state[RunOf[t]] = "queued"
    <3>1. phase[u] = "written" /\ RunOf[t] = Where(u) /\ phase[t] # "done"
      BY <1>1, <2>2, <2>4 DEF InTurn, Where
    <3> QED
      BY <3>1 DEF Waiting
  <2>5. CASE stage' = "create" /\ taken' = {}
    BY <1>1, <2>3, <2>4, <2>5 DEF Waiting
  <2>6. CASE /\ UNCHANGED <<active, stage, taken>>
             /\ stage \in {"acquire", "run"} => Where(s) # RunFor(active)
    <3>1. stage' \in {"acquire", "run"} => \A o \in offered' : receipt'[o] # RunFor(active)
      BY <1>1, <1>2, <2>1, <2>6 DEF Waiting
    <3>2. offered' \cap taken' = {}
      BY <1>3, <2>1, <2>6 DEF Waiting
    <3> QED
      BY <1>1, <2>3, <2>4, <2>6, <3>1, <3>2 DEF Waiting, RunFor
  <2> QED
    BY <1>5, <2>5, <2>6
<1>6. CASE plan[s].schedules /\ Moves(s, "ticketed") /\ Offer(s) /\ Enqueue(s, policy[s])
  <2>1. Where(s) = RunOf[s] /\ state[Where(s)] = "queued"
    BY <1>1, <1>6 DEF Where, Waiting
  <2>2. CASE active = None
    BY <1>5, <1>6, <2>1, <2>2 DEF Enqueue, Starts
  <2>3. CASE active # None
    <3>1. active \in Keys /\ active # s /\ UNCHANGED <<active, stage, taken>>
      BY <1>3, <1>6, <2>3 DEF Enqueue, Lined, Jobs
    <3>2. Where(s) # RunFor(active)
      BY <2>1, <3>1 DEF RunFor
    <3> QED
      BY <1>5, <1>6, <2>1, <3>1, <3>2
  <2> QED
    BY <2>2, <2>3
<1>7. CASE /\ ~plan[s].schedules /\ UNCHANGED <<jobVars, absorbed, taken>>
           /\ \E t \in Keys : RunOf[t] = plan[s].run /\ phase[t] # "done"
           /\ Moves(s, "attached") /\ Offer(s)
  <2>1. Where(s) = plan[s].run /\ state[Where(s)] = "queued"
    BY <1>1, <1>7 DEF Where, Waiting
  <2>2. stage \in {"acquire", "run"} => Where(s) # RunFor(active)
    <3>1. stage # "idle" => active \in Keys
      BY DEF Lined, Coordinated
    <3> QED
      BY <1>1, <2>1, <3>1 DEF Joined, RunFor, Entered
  <2> QED
    BY <1>5, <1>7, <2>1, <2>2 DEF jobVars
<1> QED
  BY <1>4, <1>6, <1>7 DEF HandOff


\* A job that ends has taken on nothing the next one could commit.
LEMMA JobEndsWaits ==
  ASSUME TypeOK, AdmissionInv, Waiting, LaneStep, active # None, UNCHANGED vars,
         NEW why, NEW resumed, JobEnds(why, resumed)
  PROVE  Waiting'
<1>1. taken' = {} /\ stage' \notin {"acquire", "run"}
  BY DEF JobEnds, StartNext, Starts
<1>2. offered' \subseteq offered
  BY DEF JobEnds, Tell
<1>3. \A u \in Keys : phase'[u] = "written" => phase[u] = "written"
  BY DEF LaneStep, InTurn, JobEnds, Tell, subVars
<1> QED
  BY <1>1, <1>2, <1>3, WaitingStays DEF AdmissionInv, vars, acceptVars

LEMMA AcquireWaits ==
  ASSUME TypeOK, AdmissionInv, Lined, Joined, Waiting, LaneStep, AcquireRun
  PROVE  Waiting'
<1> USE AdmissionAssumption, StoreAssumption DEF AdmissionInv
<1>1. stage = "acquire" /\ active \in Keys /\ active # None
  BY DEF AcquireRun, Lined, Coordinated
<1>2. CASE \E why : JobEnds(why, {}) /\ UNCHANGED vars
  BY <1>1, <1>2, JobEndsWaits
<1>3. CASE /\ Acquire(Self, RunFor(active), read) /\ stage' = "run"
           /\ UNCHANGED <<subVars, active, takeVars>>
  <2> DEFINE r == RunFor(active)
  <2>1. /\ r = RunOf[active] /\ r \in Runs
        /\ receipt' = receipt /\ \A c \in Runs : c # r => state'[c] = state[c]
    BY <1>1, <1>3 DEF RunFor, Acquire, acceptVars, TypeOK
  <2> HIDE DEF r
  <2>2. UNCHANGED <<phase, plan, offered, taken, active>> /\ taken = {}
    BY <1>1, <1>3 DEF subVars, takeVars, Waiting
  <2>3. \A o \in offered : receipt[o] # r /\ o \in Keys /\ receipt[o] \in Runs
    BY <1>1 DEF Waiting, Offers, TypeOK, r
  <2>4. ASSUME NEW o \in offered
        PROVE  phase[o] # "new" /\ phase[o] \notin Entered /\ state'[receipt[o]] = "queued"
    BY <2>1, <2>3 DEF Waiting
  <2>5. ASSUME NEW u \in Keys, NEW t \in Keys, phase[u] = "written", RunOf[t] = Where(u),
               phase[t] # "done"
        PROVE  state'[RunOf[t]] = "queued"
    <3>1. RunOf[t] # r
      <4>1. phase[active] = "ticketed"
        BY <1>1 DEF Lined, Jobs
      <4>2. CASE plan[u].schedules
        BY <1>1, <2>1, <2>5, <4>1, <4>2 DEF Where
      <4>3. CASE ~plan[u].schedules
        BY <1>1, <2>1, <2>5, <4>3 DEF Where, Joined, Entered
      <4> QED
        BY <4>2, <4>3
    <3> QED
      BY <2>1, <2>5, <3>1 DEF Waiting
  <2>6. \A u \in Keys : Where(u)' = Where(u)
    BY <2>2 DEF Where
  <2> QED
    BY <1>3, <2>1, <2>2, <2>3, <2>4, <2>5, <2>6 DEF Waiting, RunFor, r
<1> QED
  BY <1>2, <1>3 DEF AcquireRun

\* A commit answers the runs it absorbs whole, with what the attempt took on: none of
\* their inputs is on offer, or about to be.
LEMMA FinishWaits ==
  ASSUME TypeOK, Bookkeeping, Carriage, AdmissionInv, Waiting, LaneStep, FinishRun
  PROVE  Waiting'
<1> USE AdmissionAssumption, StoreAssumption DEF AdmissionInv
<1> DEFINE r == RunFor(active)
<1>1. stage = "run" /\ active # None /\ r \in Runs
  BY JobRuns DEF FinishRun, Coordinated
<1>2. PICK outcome \in Endings(r) : Finish(Self, r, revision[r], outcome, Claimed(outcome))
  BY DEF FinishRun
<1> DEFINE gone == Absorbable(Claimed(outcome))
<1>3. /\ state[r] \in Acquired /\ receipt' = receipt
      /\ \A c \in Runs : c # r /\ c \notin gone => state'[c] = state[c]
  BY <1>2 DEF Finish, acceptVars
<1>4. \A c \in gone : state[c] = "queued" /\ inputs[c] \subseteq taken
  BY DEF Absorbable, Claimed, Offers
<1> HIDE DEF gone, r
<1>5. \A k \in Keys : receipt[k] \in gone => k \in taken
  <2> SUFFICES ASSUME NEW k \in Keys, receipt[k] \in gone  PROVE k \in taken
    OBVIOUS
  <2>1. receipt[k] \in Runs \cup {None}
    BY DEF TypeOK
  <2>2. state[receipt[k]] = "queued" /\ inputs[receipt[k]] \subseteq taken
    BY <1>4
  <2>3. receipt[k] \in Runs
    <3>1. gone \subseteq Runs
      <4>1. Claimed(outcome) \in Claims(r)
        BY ClaimedIs DEF r
      <4> QED
        BY <1>1, <4>1, AbsorbsOthers DEF gone
    <3> QED
      BY <3>1
  <2>4. into[receipt[k]] = None
    BY <2>2, <2>3 DEF Bookkeeping
  <2>5. k \in inputs[receipt[k]]
    BY <2>3, <2>4 DEF Carriage, DuplicateFindsItsRun, AdmittedRun
  <2> QED
    BY <2>2, <2>5
<1>6. taken' = {} /\ offered' \subseteq offered /\ stage' \notin {"acquire", "run"}
  BY DEF FinishRun, JobEnds, StartNext, Starts, Tell
<1>7. \A u \in Keys : phase'[u] = "written" => phase[u] = "written"
  BY DEF LaneStep, InTurn, FinishRun, JobEnds, Tell, subVars
<1>8. plan' = plan /\ InTurn
  BY DEF LaneStep
<1>9. ASSUME NEW o \in offered'
      PROVE  phase'[o] # "new" /\ phase'[o] \notin Entered /\ state'[receipt[o]] = "queued"
  <2>1. o \in offered /\ o \in Keys /\ o \notin taken /\ receipt[o] \in Runs /\ receipt[o] # r
    BY <1>1, <1>6 DEF Waiting, Offers, TypeOK, r
  <2>2. state'[receipt[o]] = state[receipt[o]]
    BY <1>3, <1>5, <2>1
  <2> QED
    BY <1>8, <2>1, <2>2 DEF Waiting, InTurn
<1>10. ASSUME NEW u \in Keys, NEW t \in Keys, phase'[u] = "written", RunOf[t] = Where(u)',
              phase'[t] # "done"
       PROVE  state'[RunOf[t]] = "queued"
  <2>1. phase[u] = "written" /\ RunOf[t] = Where(u) /\ phase[t] # "done"
    BY <1>7, <1>8, <1>10 DEF InTurn, Where
  <2>2. state[RunOf[t]] = "queued" /\ RunOf[t] # r
    BY <1>3, <2>1 DEF Waiting, Acquired
  <2>3. receipt[u] = RunOf[t] /\ u \notin taken
    BY <2>1 DEF Origins, Where, Waiting, Entered
  <2> QED
    BY <1>3, <1>5, <2>2, <2>3
<1> QED
  BY <1>3, <1>6, <1>9, <1>10 DEF Waiting

LEMMA StartingWaits ==
  ASSUME TypeOK, AdmissionInv, Lined, Joined, Waiting, LaneStep, Starting
  PROVE  Waiting'
<1> USE DEF AdmissionInv
<1>1. CASE Create
  <2>1. UNCHANGED <<vars, subVars, active, takeVars>> /\ stage' = "lookup" /\ stage # "run"
    BY <1>1 DEF Create
  <2>2. UNCHANGED <<state, receipt, phase, offered, taken, active>>
    BY <2>1 DEF vars, acceptVars, subVars, takeVars
  <2> QED
    BY <2>1, <2>2, WaitingStays DEF Waiting
<1>2. CASE Lookup
  <2>1. UNCHANGED vars /\ stage = "lookup" /\ active # None
    BY <1>2 DEF Lookup, Coordinated
  <2>2. CASE JobEnds("answered", {RunFor(active)})
    BY <2>1, <2>2, JobEndsWaits
  <2>3. CASE /\ Executes(RunFor(active)) /\ stage' = "acquire"
             /\ UNCHANGED <<subVars, active, taken>>
    <3>1. /\ offered' = {o \in offered : receipt[o] # RunFor(active)}
          /\ UNCHANGED <<state, receipt, phase>> /\ taken' = {}
      BY <2>1, <2>3 DEF Executes, vars, acceptVars, subVars, Waiting
    <3> QED
      BY <2>3, <3>1, WaitingStays
  <2> QED
    BY <1>2, <2>1, <2>2, <2>3 DEF Lookup
<1> QED
  BY <1>1, <1>2, AcquireWaits DEF Starting

LEMMA AttemptWaits ==
  ASSUME TypeOK, AdmissionInv, Waiting, LaneStep, TakeOn \/ Retry
  PROVE  Waiting'
<1> USE DEF AdmissionInv
<1>1. /\ UNCHANGED <<state, receipt, phase, active, stage>> /\ stage = "run"
  BY DEF TakeOn, Retry, AttemptUnchanged, vars, acceptVars, subVars, jobVars
<1>2. CASE TakeOn
  <2> DEFINE others == {o \in offered : receipt[o] # RunFor(active)}
  <2>1. offered' = offered \ others /\ taken' = taken \cup others /\ others \subseteq offered
    BY <1>2 DEF TakeOn
  <2> HIDE DEF others
  <2>2. offered' \cap taken' = {} /\ offered' \cup taken' \subseteq offered \cup taken
    BY <2>1 DEF Waiting
  <2> QED
    BY <1>1, <2>1, <2>2, WaitingStays DEF Waiting
<1>3. CASE Retry
  <2>1. offered' = offered \cup taken /\ taken' = {}
    BY <1>3 DEF Retry
  <2> QED
    BY <1>1, <2>1, WaitingStays DEF Waiting, Offers
<1> QED
  BY <1>2, <1>3

LEMMA OffersWaitKept ==
  TypeOK /\ Bookkeeping /\ Carriage /\ AdmissionInv /\ LaneInv /\ InLine /\ OffersWait
    /\ [AdmissionNext]_admissionVars => OffersWait'
<1> SUFFICES ASSUME TypeOK, Bookkeeping, Carriage, AdmissionInv, LaneInv, InLine, OffersWait,
                    [AdmissionNext]_admissionVars, closing' = "open", ~recovered'
             PROVE  Waiting'
  BY DEF OffersWait
<1> USE DEF AdmissionInv
<1>1. ~Recovering /\ ~StartRecovery /\ Lined /\ Joined /\ (closing = "open" => Waiting)
  BY NotRecovered DEF InLine, OffersWait
<1>2. ASSUME closing = "open", \E s \in Keys, how \in InputPolicies : Submit(s, how)
      PROVE  Waiting'
  BY <1>1, <1>2, SubmitWaits
<1>3. ASSUME closing = "open", ~ \E s \in Keys, how \in InputPolicies : Submit(s, how)
      PROVE  Waiting'
  <2>1. LaneStep /\ Waiting
    BY <1>1, <1>3, LaneMoves
  <2>2. ASSUME UNCHANGED <<subVars, jobVars, takeVars>>,
               \A r \in Runs : state[r] = "queued" => state'[r] = "queued",
               \A k \in Keys : receipt[k] # None => receipt'[k] = receipt[k]
        PROVE  Waiting'
    BY <2>1, <2>2, WaitingStays DEF subVars, jobVars, takeVars, Waiting
  <2>3. ASSUME NEW s \in Keys, Submission(s)  PROVE Waiting'
    <3>1. CASE Preflight(s)
      <4>1. phase[s] = "entered" /\ UNCHANGED <<active, stage, state, receipt>>
        BY <3>1 DEF Preflight, jobVars, vars, acceptVars
      <4>2. /\ offered' \subseteq offered /\ taken' = taken
            /\ \A u \in Keys : phase'[u] = "written" => phase[u] = "written"
        <5>1. CASE \E why : Refuse(s, why)
          <6> DEFINE T == IF plan[s].schedules THEN {s} \cup Followers({s}) ELSE {s}
          <6>1. PICK why : Ending(T, why) /\ UNCHANGED <<absorbed, taken>>
            BY <5>1, RefuseEnds
          <6> HIDE DEF T
          <6> QED
            BY <6>1 DEF Ending
        <5>2. CASE Moves(s, "cleared") /\ UNCHANGED takeVars
          BY <5>2 DEF Moves, Submitted, takeVars
        <5> QED
          BY <3>1, <5>1, <5>2 DEF Preflight
      <4> QED
        BY <2>1, <4>1, <4>2, WaitingStays DEF Waiting
    <3> QED
      BY <1>1, <2>1, <2>3, <3>1, WriteWaits, HandOffWaits DEF Submission
  <2>4. CASE UNCHANGED admissionVars
    BY <2>2, <2>4 DEF admissionVars, vars, acceptVars
  <2>5. ASSUME NEW r \in Runs, InterruptRun(r)  PROVE Waiting'
    <3>1. /\ UNCHANGED <<subVars, jobVars, takeVars>> /\ state[r] = "running"
          /\ state' = [state EXCEPT ![r] = "interrupt_requested"] /\ receipt' = receipt
      BY <2>5 DEF InterruptRun, Interrupt, acceptVars
    <3>2. \A c \in Runs : state[c] = "queued" => state'[c] = "queued"
      BY <3>1 DEF TypeOK
    <3> QED
      BY <2>2, <3>1, <3>2
  <2>6. ASSUME NEW r \in Runs, Stop(r)  PROVE Waiting'
    <3>1. UNCHANGED <<state, receipt, phase, active, stage, offered, taken>>
      BY <2>6 DEF Stop, vars, acceptVars, subVars, takeVars
    <3> QED
      BY <2>1, <3>1, WaitingStays DEF Waiting
  <2>7. ASSUME NEW k \in Elsewhere, AdmittedElsewhere(k)  PROVE Waiting'
    <3>1. UNCHANGED <<subVars, jobVars, takeVars>>
      BY <2>7 DEF AdmittedElsewhere
    <3>2. /\ receipt[k] = None /\ receipt' = [receipt EXCEPT ![k] = TwinOf[k]]
          /\ state[TwinOf[k]] = "absent" /\ state' = [state EXCEPT ![TwinOf[k]] = "queued"]
      BY <2>7, ElsewhereIs
    <3>3. /\ \A c \in Runs : state[c] = "queued" => state'[c] = "queued"
          /\ \A x \in Keys : receipt[x] # None => receipt'[x] = receipt[x]
      BY <3>2 DEF TypeOK
    <3> QED
      BY <2>2, <3>1, <3>3
  <2>8. ~Close /\ ~Stopping
    BY <1>3 DEF Close, Stopping, Drain, GraceEnds, Return
  <2> QED
    BY <1>1, <1>3, <2>1, <2>3, <2>4, <2>5, <2>6, <2>7, <2>8, StartingWaits, AttemptWaits,
       FinishWaits DEF AdmissionNext
<1>4. closing = "open"
  <2>1. CASE UNCHANGED closing
    BY <2>1
  <2>2. CASE Close \/ Stopping
    BY <2>2 DEF Close, Stopping, Drain, GraceEnds, Return
  <2>3. ASSUME NEW s \in Keys, Submission(s)  PROVE UNCHANGED closing
    BY <2>3 DEF Submission, Preflight, Write, HandOff, endVars
  <2>4. ASSUME Starting \/ FinishRun  PROVE UNCHANGED closing
    BY <2>4 DEF Starting, Create, Lookup, AcquireRun, FinishRun, JobEnds, endVars
  <2>5. ASSUME TakeOn \/ Retry \/ UNCHANGED admissionVars  PROVE UNCHANGED closing
    BY <2>5 DEF TakeOn, Retry, AttemptUnchanged, admissionVars, endVars
  <2>6. ASSUME NEW s \in Keys, NEW how \in InputPolicies, Submit(s, how)
        PROVE  UNCHANGED closing
    BY <2>6 DEF Submit, endVars
  <2>7. ASSUME NEW r \in Runs, InterruptRun(r) \/ Stop(r)  PROVE UNCHANGED closing
    BY <2>7 DEF InterruptRun, Stop, endVars
  <2>8. ASSUME NEW k \in Elsewhere, AdmittedElsewhere(k)  PROVE UNCHANGED closing
    BY <2>8 DEF AdmittedElsewhere, endVars
  <2> QED
    BY <1>1, <2>1, <2>2, <2>3, <2>4, <2>5, <2>6, <2>7, <2>8 DEF AdmissionNext
<1> QED
  BY <1>2, <1>3, <1>4

LEMMA OffersWaitStarts == AdmissionInit => OffersWait
BY DEF AdmissionInit, OffersWait, Waiting

\* The lane and its jobs, for every host and every number of submissions.
LEMMA LaneSound == AdmissionSpec => [](LaneInv /\ InLine)
BY LaneStarts, InLineStarts, LaneKept, InLineKept, AdmissionSound, PTL DEF AdmissionSpec

\* Until close() and without recover(), what a run may take on is an input whose own run
\* is still queued: whoever executes a run has withdrawn its offers, nobody is about to
\* join it, and a commit absorbs no run of which an input is still on offer.
THEOREM OfferedInputsWait == AdmissionSpec => []OffersAreWaiting
<1>1. AdmissionSpec => []OffersWait
  BY OffersWaitStarts, OffersWaitKept, LaneSound, AdmissionSound, StoreUnderRuntime, PTL
     DEF AdmissionSpec
<1>2. OffersWait => OffersAreWaiting
  BY DEF OffersWait, Waiting, OffersAreWaiting
<1> QED
  BY <1>1, <1>2, PTL


-----------------------------------------------------------------------------
(* Nobody is left behind *)

\* The application NoneLeftBehind is about: every input is reserved in the lane, and
\* nothing but this process's submissions writes to the queue.
Plain ==
  /\ host.coalescing /\ host.policies \subseteq {"queue", "inject"}
  /\ ~host.lossy /\ host.elsewhere = {} /\ ~host.recovers

\* There a queued run is one that a submission of this process leads, ordered by the
\* time of its submission; while the runtime is open the leader is not over; and the
\* active job is the first of them, with the revision it read.
Serial ==
  /\ \A s \in Keys : phase[s] # "new" => Reserved(s)
  /\ \A s \in Keys : phase[s] \in {"new", "entered", "cleared"} => receipt[s] = None
  /\ \A r \in Runs : state[r] = "queued" =>
       /\ seq[r] = 0 /\ admission[r].priority = FALSE
       /\ \E t \in Keys : /\ r = RunOf[t] /\ Leads(t) /\ admission[r].created = stamp[t]
                          /\ phase[t] = "done" => closing \notin {"open", "draining"}
  /\ stage = "acquire" => read = revision[RunFor(active)]
  /\ active # None =>
       \A t \in Keys : state[RunOf[t]] = "queued" => stamp[active] <= stamp[t]
  /\ \A s \in Keys : result[s] # "unsettled"

InSeries == Plain => ~recovered /\ Serial

LEMMA HostStays ==
  ASSUME [AdmissionNext]_admissionVars
  PROVE  host' = host
<1> DEFINE Same == host' = host
<1>1. ASSUME NEW s \in Keys, Submission(s)  PROVE Same
  BY <1>1 DEF Submission, Preflight, Write, HandOff, hostVars
<1>2. ASSUME Starting \/ FinishRun  PROVE Same
  BY <1>2 DEF Starting, Create, Lookup, AcquireRun, FinishRun, JobEnds, hostVars
<1>3. ASSUME Recovering \/ StartRecovery  PROVE Same
  BY <1>3 DEF Recovering, NextItem, Decided, Decision, Resume, Load, StartRecovery,
              RecoveryUnchanged, hostVars
<1>4. ASSUME TakeOn \/ Retry \/ Close \/ Stopping \/ UNCHANGED admissionVars  PROVE Same
  BY <1>4 DEF TakeOn, Retry, AttemptUnchanged, Close, Stopping, Drain, GraceEnds, Return,
              admissionVars, hostVars
<1>5. ASSUME NEW s \in Keys, NEW how \in InputPolicies, Submit(s, how)  PROVE Same
  BY <1>5 DEF Submit, hostVars
<1>6. ASSUME NEW r \in Runs, InterruptRun(r) \/ Stop(r)  PROVE Same
  BY <1>6 DEF InterruptRun, Stop
<1>7. ASSUME NEW k \in Elsewhere, AdmittedElsewhere(k)  PROVE Same
  BY <1>7 DEF AdmittedElsewhere, hostVars
<1> HIDE DEF Same
<1>8. Same
  BY <1>1, <1>2, <1>3, <1>4, <1>5, <1>6, <1>7 DEF AdmissionNext
<1> QED
  BY <1>8 DEF Same

\* The jobs of a plain host lead the runs of the lane.
LEMMA JobsAreInLane ==
  ASSUME AdmissionInv, LaneInv, Lined, Serial, NEW a \in Keys \cap Jobs
  PROVE  Leads(a) /\ RunOf[a] \in InLane /\ phase[a] = "ticketed"
<1>1. phase[a] = "ticketed" /\ Reserved(a)
  BY DEF Lined, Serial
<1>2. plan[a].run = RunOf[a]
  BY <1>1 DEF AdmissionInv, Origins, LaneInv, Planned
<1> QED
  BY <1>2, JobsLead

\* The runs that are queued while the runtime is open are the lane's.
LEMMA QueuedAreInLane ==
  ASSUME LaneInv, Serial, closing \in {"open", "draining"},
         NEW t \in Keys, state[RunOf[t]] = "queued"
  PROVE  RunOf[t] \in InLane
<1> USE AdmissionAssumption
<1>1. PICK u \in Keys : RunOf[t] = RunOf[u] /\ Leads(u) /\ phase[u] # "done"
  BY DEF Serial
<1> QED
  BY <1>1 DEF LaneInv, Housed

\* What no step but a submission or its admission changes for the worse.
LEMMA SerialStays ==
  ASSUME TypeOK, AdmissionInv, Serial, LaneStep,
         \A s \in Keys : phase'[s] \in {"new", "entered", "cleared"} => receipt'[s] = receipt[s],
         \A r \in Runs : state'[r] = "queued" =>
           state[r] = "queued" /\ seq'[r] = seq[r] /\ admission'[r] = admission[r],
         \A t \in Keys : Leads(t) /\ phase'[t] = "done" /\ phase[t] # "done"
                           /\ state'[RunOf[t]] = "queued" => closing' \notin {"open", "draining"},
         closing \notin {"open", "draining"} => closing' \notin {"open", "draining"},
         stage' = "acquire" => read' = revision'[RunFor(active')],
         active' # None => \/ active' = active
                           \/ \A t \in Keys : state'[RunOf[t]] = "queued" =>
                                stamp[active'] <= stamp[t],
         \A s \in Keys : result'[s] = "unsettled" => result[s] = "unsettled"
  PROVE  Serial'
<1> USE AdmissionAssumption
<1>1. UNCHANGED <<plan, stamp>> /\ InTurn
  BY DEF LaneStep
<1>2. \A t \in Keys : Leads(t)' = Leads(t) /\ Reserved(t)' = Reserved(t)
  BY <1>1 DEF Leads, Reserved
<1>3. \A s \in Keys : phase'[s] # "new" => Reserved(s)'
  BY <1>1, <1>2 DEF Serial, InTurn
<1>4. \A s \in Keys : phase'[s] \in {"new", "entered", "cleared"} => receipt'[s] = None
  BY <1>1 DEF Serial, InTurn
<1>5. ASSUME NEW r \in Runs, state'[r] = "queued"
      PROVE  /\ seq'[r] = 0 /\ admission'[r].priority = FALSE
             /\ \E t \in Keys : /\ r = RunOf[t] /\ Leads(t)' /\ admission'[r].created = stamp'[t]
                                /\ phase'[t] = "done" => closing' \notin {"open", "draining"}
  <2>1. state[r] = "queued" /\ seq'[r] = seq[r] /\ admission'[r] = admission[r]
    BY <1>5
  <2>2. PICK t \in Keys : /\ r = RunOf[t] /\ Leads(t) /\ admission[r].created = stamp[t]
                          /\ phase[t] = "done" => closing \notin {"open", "draining"}
    BY <2>1 DEF Serial
  <2>3. phase'[t] = "done" => closing' \notin {"open", "draining"}
    BY <1>5, <2>2
  <2>4. Leads(t)' /\ admission'[r].created = stamp'[t]
    BY <1>1, <1>2, <2>1, <2>2
  <2> QED
    BY <2>1, <2>2, <2>3, <2>4 DEF Serial
<1>6. active' # None =>
        \A t \in Keys : state'[RunOf[t]] = "queued" => stamp'[active'] <= stamp'[t]
  BY <1>1 DEF Serial
<1>7. stage' = "acquire" => read' = revision'[RunFor(active)']
  BY DEF RunFor
<1>8. \A s \in Keys : result'[s] # "unsettled"
  BY DEF Serial
<1> QED
  BY <1>3, <1>4, <1>5, <1>6, <1>7, <1>8 DEF Serial

\* What the invariants shown above say of a state without recover().
Settling ==
  TypeOK /\ Bookkeeping /\ AdmissionInv /\ LaneInv /\ Lined /\ Joined /\ Quiet /\ Executing

\* Steps after which every submission and every job is where it was.
LEMMA SerialStill ==
  ASSUME Settling, Serial, LaneStep, UNCHANGED <<phase, result, receipt, active>>,
         \A r \in Runs : state'[r] = "queued" =>
           state[r] = "queued" /\ seq'[r] = seq[r] /\ admission'[r] = admission[r],
         closing \notin {"open", "draining"} => closing' \notin {"open", "draining"},
         stage' = "acquire" => read' = revision'[RunFor(active)]
  PROVE  Serial'
<1>1. TypeOK /\ AdmissionInv
  BY DEF Settling
<1>2. stage' = "acquire" => read' = revision'[RunFor(active')]
  OBVIOUS
<1>3. \A s \in Keys : result'[s] = "unsettled" => result[s] = "unsettled"
  OBVIOUS
<1>4. \A s \in Keys : phase'[s] \in {"new", "entered", "cleared"} => receipt'[s] = receipt[s]
  OBVIOUS
<1>5. \A t \in Keys : Leads(t) /\ phase'[t] = "done" /\ phase[t] # "done"
                        /\ state'[RunOf[t]] = "queued" => closing' \notin {"open", "draining"}
  OBVIOUS
<1>6. active' # None => \/ active' = active
                        \/ \A t \in Keys : state'[RunOf[t]] = "queued" =>
                             stamp[active'] <= stamp[t]
  OBVIOUS
<1> QED
  BY <1>1, <1>2, <1>3, <1>4, <1>5, <1>6, SerialStays

\* The active job finds its run as it was read, and nobody before it.
LEMMA FirstMayStart ==
  ASSUME Settling, Serial, stage = "acquire", state[RunFor(active)] = "queued"
  PROVE  /\ revision[RunFor(active)] = read
         /\ \A c \in Runs : ~Blocks(c, RunFor(active))
<1> USE AdmissionAssumption, StoreAssumption
<1>1. active \in Keys /\ RunFor(active) = RunOf[active] /\ RunOf[active] \in Runs
  BY DEF Settling, AdmissionInv, Coordinated, Lined, RunFor
<1>2. revision[RunFor(active)] = read
  BY DEF Serial
<1>3. ASSUME NEW c \in Runs, Blocks(c, RunOf[active])  PROVE FALSE
  <2>1. /\ c # RunOf[active]
        /\ (state[c] \in Acquired \/ (state[c] = "queued" /\ Before(c, RunOf[active])))
    BY <1>3 DEF Blocks
  <2>2. state[c] = "queued" /\ Before(c, RunOf[active])
    <3>1. state[c] \notin Acquired
      BY DEF Settling, Executing
    <3> QED
      BY <2>1, <3>1
  <2>3. PICK t \in Keys : c = RunOf[t] /\ Leads(t) /\ admission[c].created = stamp[t]
    BY <2>2 DEF Serial
  <2>4. /\ seq[c] = 0 /\ seq[RunOf[active]] = 0 /\ state[RunOf[active]] = "queued"
        /\ admission[c].priority = FALSE /\ admission[RunOf[active]].priority = FALSE
    BY <1>1, <2>2 DEF Serial
  <2>5. ByAdmission(c, RunOf[active])
    BY <2>2, <2>4 DEF Before, Started, AheadInQueue
  <2>6. admission[RunOf[active]].created = stamp[active]
    BY <1>1, <2>4 DEF Serial
  <2>7. stamp[t] <= stamp[active]
    <3>1. stamp[t] \in Nat /\ stamp[active] \in Nat
      BY <1>1 DEF Settling, AdmissionInv, Submitted
    <3>2. stamp[t] < stamp[active] \/ stamp[t] = stamp[active]
      BY <2>3, <2>5, <2>6 DEF ByAdmission
    <3> QED
      BY <3>1, <3>2
  <2>8. stamp[active] <= stamp[t]
    BY <1>1, <2>2, <2>3 DEF Serial
  <2>9. stamp[active] = stamp[t]
    <3>1. stamp[t] \in Nat /\ stamp[active] \in Nat
      BY <1>1 DEF Settling, AdmissionInv, Submitted
    <3> QED
      BY <2>7, <2>8, <3>1
  <2>10. stamp[t] # 0
    <3>1. NoPlan.run = None
      BY DEF NoPlan
    <3>2. phase[t] # "new"
      BY <2>3, <3>1 DEF Settling, LaneInv, Planned, Leads, Reserved
    <3> QED
      BY <3>2 DEF Settling, LaneInv, Stamped
  <2>11. t = active
    BY <1>1, <2>9, <2>10 DEF Settling, LaneInv, Stamped
  <2> QED
    BY <2>1, <2>3, <2>11
<1> QED
  BY <1>1, <1>2, <1>3

\* The job that follows is the first of those still waiting.
LEMMA NextIsFirst ==
  ASSUME Settling, Serial, StartNext, queue # <<>>, active # None,
         NEW t \in Keys, t # active, state[RunOf[t]] = "queued"
  PROVE  t = active'
<1> USE AdmissionAssumption, StoreAssumption
<1>1. closing \in {"open", "draining"}
  BY DEF Settling, Quiet, Drained
<1>2. RunOf[t] \in InLane
  BY <1>1, QueuedAreInLane DEF Settling
<1>3. active' = Head(queue) /\ active' \in ToSet(queue)
  BY TailIs DEF StartNext, Starts, Settling, AdmissionInv, Coordinated
<1>4. active \in Keys \cap Jobs /\ active' \in Keys \cap Jobs /\ active' # active
  BY <1>3 DEF Settling, Lined, Jobs, Once
<1>5. RunOf[active] \in InLane
  BY <1>4, JobsAreInLane DEF Settling
<1> DEFINE n == Head(queue)
<1>6. n \in Keys \cap Jobs /\ n # active
  BY <1>3, <1>4
<1> HIDE DEF n
<1>7. RunOf[n] \in InLane
  BY <1>6, JobsAreInLane DEF Settling
<1>8. RunOf[n] # RunOf[active] /\ RunOf[t] # RunOf[active]
  BY <1>4, <1>6
<1>9. RunOf[t] = RunOf[n]
  BY <1>2, <1>5, <1>7, <1>8 DEF InLane
<1> QED
  BY <1>3, <1>6, <1>9 DEF n

LEMMA JobEndsSerial ==
  ASSUME Settling, Serial, LaneStep, active # None, TypeOK,
         NEW why, why # "unsettled", NEW resumed, JobEnds(why, resumed),
         receipt' = receipt, state'[RunFor(active)] # "queued",
         \A r \in Runs : state'[r] = "queued" =>
           state[r] = "queued" /\ seq'[r] = seq[r] /\ admission'[r] = admission[r]
  PROVE  Serial'
<1> USE AdmissionAssumption, StoreAssumption
<1> DEFINE T == {active} \cup Followers({active})
<1>1. active \in Keys /\ RunFor(active) = RunOf[active]
  BY DEF Settling, Lined, RunFor
<1>2. Ending(T, why) /\ StartNext /\ closing' = closing
  BY <1>1, TellEnds DEF JobEnds, Settling, AdmissionInv, endVars
<1>3. \A t \in Keys : t \in T => t = active \/ ~Leads(t)
  BY DEF Followers, Settling, AdmissionInv, Origins, Leads
<1> HIDE DEF T
<1>4. /\ \A t \in Keys : phase'[t] = IF t \in T THEN "done" ELSE phase[t]
      /\ \A t \in Keys : result'[t] = IF t \in T THEN why ELSE result[t]
  BY <1>2 DEF Ending
<1>5. \A s \in Keys : result'[s] = "unsettled" => result[s] = "unsettled"
  BY <1>4
<1>6. \A t \in Keys : Leads(t) /\ phase'[t] = "done" /\ phase[t] # "done"
                        /\ state'[RunOf[t]] = "queued" => closing' \notin {"open", "draining"}
  BY <1>1, <1>3, <1>4
<1>7. stage' # "acquire"
  BY <1>2 DEF StartNext, Starts
<1>8. ASSUME active' # None, NEW t \in Keys, state'[RunOf[t]] = "queued"
      PROVE  stamp[active'] <= stamp[t]
  <2>1. queue # <<>>
    BY <1>2, <1>8 DEF StartNext, Starts
  <2>2. t # active /\ state[RunOf[t]] = "queued"
    BY <1>1, <1>8
  <2>3. t = active'
    BY <1>2, <2>1, <2>2, NextIsFirst
  <2> QED
    BY <2>3 DEF Settling, AdmissionInv, Submitted
<1>9. active' # None => \/ active' = active
                        \/ \A t \in Keys : state'[RunOf[t]] = "queued" =>
                             stamp[active'] <= stamp[t]
  BY <1>8
<1>10. closing \notin {"open", "draining"} => closing' \notin {"open", "draining"}
  BY <1>2
<1>11. stage' = "acquire" => read' = revision'[RunFor(active')]
  BY <1>7
<1>12. \A s \in Keys : phase'[s] \in {"new", "entered", "cleared"} => receipt'[s] = receipt[s]
  OBVIOUS
<1> QED
  BY <1>5, <1>6, <1>9, <1>10, <1>11, <1>12, SerialStays DEF Settling

LEMMA FinishSerial ==
  ASSUME Settling, Serial, LaneStep, FinishRun
  PROVE  Serial'
<1> DEFINE r == RunFor(active)
<1>1. /\ receipt' = receipt /\ state'[r] \in Terminal /\ r \in Runs
  BY FinishIs DEF Settling, AdmissionInv, Calm
<1>2. PICK outcome \in Endings(r) : Finish(Self, r, revision[r], outcome, Claimed(outcome))
  BY DEF FinishRun
<1> DEFINE gone == Absorbable(Claimed(outcome))
<1>3. /\ state' = [c \in Runs |-> IF c = r THEN outcome
                                  ELSE IF c \in gone THEN "superseded" ELSE state[c]]
      /\ UNCHANGED <<admission, seq>>
  BY <1>2 DEF Finish, acceptVars, leaseVars
<1> HIDE DEF gone
<1>4. outcome # "queued"
  BY EndingsAre DEF Outcomes
<1>5. \A c \in Runs : state'[c] = "queued" =>
        state[c] = "queued" /\ seq'[c] = seq[c] /\ admission'[c] = admission[c]
  BY <1>3, <1>4
<1>6. state'[RunFor(active)] # "queued"
  BY <1>1 DEF Terminal, Outcomes
<1>7. active # None /\ JobEnds("answered", {}) /\ TypeOK
  BY DEF FinishRun, Settling, AdmissionInv, Coordinated
<1> HIDE DEF r
<1> QED
  BY <1>1, <1>5, <1>6, <1>7, JobEndsSerial

LEMMA StartingSerial ==
  ASSUME Settling, Serial, LaneStep, Starting
  PROVE  Serial'
<1> DEFINE r == RunFor(active)
<1>1. active # None /\ r \in Runs /\ TypeOK
  BY JobRuns DEF Starting, Create, Lookup, AcquireRun, Settling, AdmissionInv, Coordinated
<1>2. UNCHANGED vars => /\ receipt' = receipt
                        /\ \A c \in Runs : state'[c] = "queued" =>
                             state[c] = "queued" /\ seq'[c] = seq[c] /\ admission'[c] = admission[c]
  BY DEF vars, acceptVars, leaseVars
<1>3. CASE Create
  <2>1. /\ UNCHANGED <<phase, result, active, closing>> /\ UNCHANGED vars
        /\ stage' # "acquire"
    BY <1>3 DEF Create, subVars, endVars
  <2> QED
    BY <1>2, <2>1, SerialStill
<1>4. CASE Lookup
  <2>1. UNCHANGED vars
    BY <1>4 DEF Lookup
  <2>2. CASE into[r] = None
    <3>1. /\ UNCHANGED <<phase, result, active, closing>> /\ read' = revision[r]
      BY <1>4, <2>2 DEF Lookup, subVars, endVars
    <3>2. revision' = revision
      BY <2>1 DEF vars
    <3>3. read' = revision'[RunFor(active)]
      BY <3>1, <3>2
    <3> QED
      BY <1>2, <2>1, <3>1, <3>3, SerialStill
  <2>3. CASE into[r] # None
    <3>1. JobEnds("answered", {r})
      BY <1>4, <2>3 DEF Lookup
    <3>2. state[r] = "superseded"
      BY <1>1, <2>3 DEF Settling, Bookkeeping
    <3>3. state'[RunFor(active)] # "queued"
      BY <2>1, <3>2 DEF vars
    <3> HIDE DEF r
    <3> QED
      BY <1>1, <1>2, <2>1, <3>1, <3>3, JobEndsSerial
  <2> QED
    BY <2>2, <2>3
<1>5. CASE AcquireRun
  <2>1. CASE Acquire(Self, r, read) /\ stage' = "run"
    <3>1. /\ state' = [state EXCEPT ![r] = "running"]
          /\ seq' = [seq EXCEPT ![r] = IF seq[r] = 0 THEN version + 1 ELSE seq[r]]
          /\ UNCHANGED <<admission, receipt>>
      BY <2>1 DEF Acquire, acceptVars
    <3>2. UNCHANGED <<phase, result, active, closing>>
      <4>1. JobEnds(IF state[r] = "queued" THEN "unsettled" ELSE "failed", {}) => stage' # "run"
        BY DEF JobEnds, StartNext, Starts
      <4> QED
        BY <1>5, <2>1, <4>1 DEF AcquireRun, subVars, endVars
    <3>3. \A c \in Runs : state'[c] = "queued" =>
            state[c] = "queued" /\ seq'[c] = seq[c] /\ admission'[c] = admission[c]
      BY <1>1, <3>1 DEF TypeOK
    <3> QED
      BY <2>1, <3>1, <3>2, <3>3, SerialStill
  <2>2. CASE ~(Acquire(Self, r, read) /\ stage' = "run")
    <3>1. /\ stage = "acquire" /\ UNCHANGED vars
          /\ state[r] # "queued" \/ revision[r] # read \/ \E c \in Runs : Blocks(c, r)
          /\ JobEnds(IF state[r] = "queued" THEN "unsettled" ELSE "failed", {})
      BY <1>5, <2>2 DEF AcquireRun
    <3>2. state[r] # "queued"
      BY <3>1, FirstMayStart
    <3>3. JobEnds("failed", {}) /\ state'[RunFor(active)] # "queued"
      BY <3>1, <3>2 DEF vars
    <3> HIDE DEF r
    <3> QED
      BY <1>1, <1>2, <3>1, <3>3, JobEndsSerial
  <2> QED
    BY <2>1, <2>2
<1> QED
  BY <1>3, <1>4, <1>5 DEF Starting

\* Steps that leave the jobs and the store alone.
LEMMA SerialWithout ==
  ASSUME Settling, Serial, LaneStep, UNCHANGED vars, UNCHANGED jobVars,
         closing \notin {"open", "draining"} => closing' \notin {"open", "draining"},
         \A t \in Keys : Leads(t) /\ phase'[t] = "done" /\ phase[t] # "done"
                           /\ state[RunOf[t]] = "queued" => closing' \notin {"open", "draining"},
         \A s \in Keys : result'[s] = "unsettled" => result[s] = "unsettled"
  PROVE  Serial'
<1>1. /\ UNCHANGED <<state, seq, admission, receipt, revision>>
      /\ UNCHANGED <<active, stage, read>>
  BY DEF vars, acceptVars, leaseVars, jobVars
<1>2. TypeOK /\ AdmissionInv
  BY DEF Settling
<1>3. stage' = "acquire" => read' = revision'[RunFor(active')]
  BY <1>1 DEF Serial
<1>4. /\ \A s \in Keys : phase'[s] \in {"new", "entered", "cleared"} => receipt'[s] = receipt[s]
      /\ \A r \in Runs : state'[r] = "queued" =>
           state[r] = "queued" /\ seq'[r] = seq[r] /\ admission'[r] = admission[r]
      /\ \A t \in Keys : Leads(t) /\ phase'[t] = "done" /\ phase[t] # "done"
                           /\ state'[RunOf[t]] = "queued" => closing' \notin {"open", "draining"}
  BY <1>1
<1>5. active' # None => \/ active' = active
                        \/ \A t \in Keys : state'[RunOf[t]] = "queued" =>
                             stamp[active'] <= stamp[t]
  BY <1>1
<1> QED
  BY <1>2, <1>3, <1>4, <1>5, SerialStays

LEMMA RefuseSerial ==
  ASSUME Settling, Serial, LaneStep, UNCHANGED vars, UNCHANGED jobVars, closing' = closing,
         NEW s \in Keys, NEW why, why # "unsettled", Refuse(s, why),
         Leads(s) /\ state[RunOf[s]] = "queued" => closing \notin {"open", "draining"}
  PROVE  Serial'
<1> DEFINE T == IF plan[s].schedules THEN {s} \cup Followers({s}) ELSE {s}
<1>1. Ending(T, why)
  BY RefuseEnds DEF Settling, AdmissionInv
<1>2. \A t \in Keys : t \in T => t = s \/ ~Leads(t)
  BY DEF Followers, Settling, AdmissionInv, Origins, Leads
<1> HIDE DEF T
<1>3. /\ \A t \in Keys : phase'[t] = IF t \in T THEN "done" ELSE phase[t]
      /\ \A t \in Keys : result'[t] = IF t \in T THEN why ELSE result[t]
  BY <1>1 DEF Ending
<1>4. \A x \in Keys : result'[x] = "unsettled" => result[x] = "unsettled"
  BY <1>3
<1>5. \A t \in Keys : Leads(t) /\ phase'[t] = "done" /\ phase[t] # "done"
                        /\ state[RunOf[t]] = "queued" => closing' \notin {"open", "draining"}
  BY <1>2, <1>3
<1> QED
  BY <1>4, <1>5, SerialWithout

LEMMA MovesSerial ==
  ASSUME Settling, Serial, LaneStep, UNCHANGED vars, UNCHANGED jobVars, closing' = closing,
         NEW s \in Keys, NEW next, next # "done", Moves(s, next)
  PROVE  Serial'
<1>1. /\ phase' = [phase EXCEPT ![s] = next] /\ result' = result
  BY DEF Moves
<1>2. \A t \in Keys : phase'[t] = "done" => phase[t] = "done"
  BY <1>1 DEF Settling, AdmissionInv, Submitted
<1> QED
  BY <1>1, <1>2, SerialWithout

LEMMA PreflightSerial ==
  ASSUME Settling, Serial, LaneStep, NEW s \in Keys, Preflight(s)
  PROVE  Serial'
<1>1. /\ phase[s] = "entered" /\ UNCHANGED vars /\ UNCHANGED jobVars /\ closing' = closing
      /\ Moves(s, "cleared") \/ Refuse(s, "closed") \/ Refuse(s, "refused")
  BY DEF Preflight, endVars
<1>2. state[RunOf[s]] # "queued"
  BY <1>1 DEF Settling, AdmissionInv, Origins
<1> QED
  BY <1>1, <1>2, RefuseSerial, MovesSerial

\* A run is accepted behind those that wait.
LEMMA AcceptSerial ==
  ASSUME Settling, Serial, LaneStep, NEW s \in Keys, phase[s] = "cleared",
         plan[s].schedules, Admit(s), Moves(s, "written"), UNCHANGED jobVars, closing' = closing
  PROVE  Serial'
<1> USE AdmissionAssumption, StoreAssumption
<1> DEFINE new == RunOf[s]
<1>1. /\ Accept(s, new, policy[s] = "interrupt-next", stamp[s]) /\ new \in Runs
  BY DEF Admit
<1>2. /\ phase' = [phase EXCEPT ![s] = "written"] /\ UNCHANGED <<stamp, plan, result>>
  BY DEF Moves
<1>3. \A t \in Keys : /\ phase'[t] = IF t = s THEN "written" ELSE phase[t]
                      /\ Leads(t)' = Leads(t) /\ Reserved(t)' = Reserved(t)
  BY <1>2 DEF Settling, AdmissionInv, Submitted, Leads, Reserved
<1>4. Leads(s) /\ ~Urgent(s)
  <2>1. Reserved(s)
    BY DEF Serial
  <2> QED
    BY <2>1 DEF Leads, Settling, LaneInv, Planned
<1>5. /\ state[new] = "absent" /\ seq[new] = 0 /\ UNCHANGED <<seq, revision>>
      /\ \A r \in Runs : state'[r] = IF r = new THEN "queued" ELSE state[r]
      /\ \A r \in Runs : r # new => admission'[r] = admission[r]
      /\ admission'[new].created = stamp[s]
      /\ admission'[new].priority = FALSE
      /\ \A k \in Keys : k # s => receipt'[k] = receipt[k]
  <2>1. /\ state[new] = "absent" /\ UNCHANGED <<seq, revision>>
        /\ state' = [state EXCEPT ![new] = "queued"]
        /\ receipt' = [receipt EXCEPT ![s] = new]
    BY <1>1 DEF Accept, leaseVars
  <2>2. policy[s] # "interrupt-next"
    BY <1>4 DEF Urgent
  <2>3. Accept(s, new, FALSE, stamp[s])
    <3> DEFINE urgent == policy[s] = "interrupt-next"
    <3>1. Accept(s, new, urgent, stamp[s])
      BY <1>1
    <3>2. urgent = FALSE
      BY <2>2
    <3> HIDE DEF urgent
    <3> QED
      BY <3>1, <3>2
  <2>4. admission' = [admission EXCEPT ![new] =
          [priority |-> FALSE, created |-> stamp[s], arrived |-> version + 1]]
    BY <2>3 DEF Accept
  <2>5. admission'[new].created = stamp[s] /\ admission'[new].priority = FALSE
    BY <1>1, <2>4 DEF Settling, TypeOK
  <2>6. seq[new] = 0
    BY <1>1, <2>1 DEF Settling, Bookkeeping
  <2> HIDE DEF new
  <2>7. \A r \in Runs : r # new => admission'[r] = admission[r]
    BY <2>4 DEF Settling, TypeOK
  <2>8. \A k \in Keys : k # s => receipt'[k] = receipt[k]
    BY <2>1 DEF Settling, TypeOK
  <2>9. \A r \in Runs : state'[r] = IF r = new THEN "queued" ELSE state[r]
    BY <2>1 DEF Settling, TypeOK
  <2> QED
    BY <2>1, <2>5, <2>6, <2>7, <2>8, <2>9
<1>6. \A x \in Keys : phase'[x] # "new" => Reserved(x)'
  BY <1>3, <1>4 DEF Serial, Leads
<1>7. \A x \in Keys : phase'[x] \in {"new", "entered", "cleared"} => receipt'[x] = None
  BY <1>3, <1>5 DEF Serial
<1>8. ASSUME NEW r \in Runs, state'[r] = "queued"
      PROVE  /\ seq'[r] = 0 /\ admission'[r].priority = FALSE
             /\ \E t \in Keys : /\ r = RunOf[t] /\ Leads(t)' /\ admission'[r].created = stamp'[t]
                                /\ phase'[t] = "done" => closing' \notin {"open", "draining"}
  <2>1. CASE r = new
    <3>1. phase'[s] # "done" /\ Leads(s)' /\ admission'[r].created = stamp'[s]
      BY <1>2, <1>3, <1>4, <1>5, <2>1
    <3> QED
      BY <1>5, <2>1, <3>1
  <2>2. CASE r # new
    <3>1. state[r] = "queued" /\ seq'[r] = seq[r] /\ admission'[r] = admission[r]
      BY <1>5, <1>8, <2>2
    <3>2. PICK t \in Keys : /\ r = RunOf[t] /\ Leads(t) /\ admission[r].created = stamp[t]
                            /\ phase[t] = "done" => closing \notin {"open", "draining"}
      BY <3>1 DEF Serial
    <3>3. t # s
      BY <2>2, <3>2
    <3>4. /\ Leads(t)' /\ admission'[r].created = stamp'[t]
          /\ phase'[t] = "done" => closing' \notin {"open", "draining"}
      BY <1>2, <1>3, <3>1, <3>2, <3>3
    <3> QED
      BY <3>1, <3>2, <3>4 DEF Serial
  <2> QED
    BY <2>1, <2>2
<1>9. stage' = "acquire" => read' = revision'[RunFor(active)']
  BY <1>5 DEF Serial, jobVars, RunFor
<1>10. ASSUME active # None, NEW t \in Keys, state'[RunOf[t]] = "queued"
       PROVE  stamp[active] <= stamp[t]
  <2>1. CASE t # s
    <3>1. state[RunOf[t]] = "queued"
      BY <1>5, <1>10, <2>1
    <3> QED
      BY <1>10, <3>1 DEF Serial
  <2>2. CASE t = s
    <3>1. active \in Keys \cap Jobs
      BY <1>10 DEF Settling, Lined, Jobs
    <3>2. Leads(active) /\ phase[active] = "ticketed"
      BY <3>1, JobsAreInLane DEF Settling
    <3>3. RunOf[s] \in InLane
      BY <1>4 DEF Settling, LaneInv, Housed
    <3>4. ~(stamp[s] < stamp[active])
      <4> SUFFICES ASSUME stamp[s] < stamp[active]  PROVE FALSE
        OBVIOUS
      <4>1. s \in Jobs
        BY <3>1, <3>2, <3>3, PendingComesLater DEF Settling, Leads
      <4> QED
        BY <4>1 DEF Settling, Lined
    <3>5. stamp[s] \in Nat /\ stamp[active] \in Nat
      BY <3>1 DEF Settling, AdmissionInv, Submitted
    <3> QED
      BY <2>2, <3>4, <3>5
  <2> QED
    BY <2>1, <2>2
<1>11. active' # None =>
         \A t \in Keys : state'[RunOf[t]] = "queued" => stamp'[active'] <= stamp'[t]
  BY <1>2, <1>10 DEF jobVars
<1>12. \A x \in Keys : result'[x] # "unsettled"
  BY <1>2 DEF Serial
<1> HIDE DEF new
<1> QED
  BY <1>6, <1>7, <1>8, <1>9, <1>11, <1>12 DEF Serial

LEMMA WriteSerial ==
  ASSUME Settling, Serial, LaneStep, ~host.lossy, NEW s \in Keys, Write(s)
  PROVE  Serial'
<1> USE AdmissionAssumption, StoreAssumption
<1>1. /\ phase[s] = "cleared" /\ UNCHANGED jobVars /\ closing' = closing
      /\ receipt[s] = None /\ Fresh(s)
  BY DEF Write, endVars, Serial, Fresh
<1>2. CASE Admit(s) /\ Moves(s, "written") /\ plan[s].schedules
  BY <1>1, <1>2, AcceptSerial
<1>3. CASE Admit(s) /\ Moves(s, "written") /\ ~plan[s].schedules
  <2> DEFINE r == plan[s].run
  <2>1. Coalesce(s, r) /\ r \in Runs
    BY <1>3 DEF Admit, Settling, AdmissionInv, Submitted
  <2>2. /\ receipt' = [receipt EXCEPT ![s] = r] /\ UNCHANGED <<state, admission, seq>>
        /\ revision' = [revision EXCEPT ![r] = revision[r] + 1]
    BY <2>1 DEF Coalesce, Writes, leaseVars
  <2>3. /\ phase' = [phase EXCEPT ![s] = "written"] /\ result' = result
    BY <1>3 DEF Moves
  <2>4. \A x \in Keys : phase'[x] \in {"new", "entered", "cleared"} => receipt'[x] = receipt[x]
    BY <2>2, <2>3 DEF Settling, AdmissionInv, Submitted, TypeOK
  <2>5. \A t \in Keys : phase'[t] = "done" => phase[t] = "done"
    BY <2>3 DEF Settling, AdmissionInv, Submitted
  <2>6. ASSUME stage' = "acquire"  PROVE read' = revision'[RunFor(active')]
    <3>1. stage = "acquire" /\ active' = active /\ read' = read
      BY <1>1, <2>6 DEF jobVars
    <3>2. active \in Keys /\ RunFor(active) = RunOf[active]
      BY <3>1 DEF Settling, AdmissionInv, Coordinated, Lined, RunFor
    <3>3. r # RunOf[active]
      BY <1>1, <3>1 DEF Settling, Joined, Entered
    <3>4. revision'[RunOf[active]] = revision[RunOf[active]]
      BY <2>2, <3>3 DEF Settling, TypeOK
    <3>5. RunFor(active') = RunOf[active]
      BY <3>1, <3>2
    <3> QED
      BY <3>1, <3>2, <3>4, <3>5 DEF Serial
  <2>7. active' = active
    BY <1>1 DEF jobVars
  <2>8. \A c \in Runs : state'[c] = "queued" =>
          state[c] = "queued" /\ seq'[c] = seq[c] /\ admission'[c] = admission[c]
    BY <2>2
  <2>9. /\ \A t \in Keys : Leads(t) /\ phase'[t] = "done" /\ phase[t] # "done"
                             /\ state'[RunOf[t]] = "queued" => closing' \notin {"open", "draining"}
        /\ \A x \in Keys : result'[x] = "unsettled" => result[x] = "unsettled"
        /\ closing \notin {"open", "draining"} => closing' \notin {"open", "draining"}
    BY <1>1, <2>3, <2>5
  <2> HIDE DEF r
  <2>10. active' # None => \/ active' = active
                           \/ \A t \in Keys : state'[RunOf[t]] = "queued" =>
                                stamp[active'] <= stamp[t]
    BY <2>7
  <2>11. TypeOK /\ AdmissionInv
    BY DEF Settling
  <2> QED
    BY <2>4, <2>6, <2>8, <2>9, <2>10, <2>11, SerialStays
<1>4. CASE ~plan[s].schedules /\ Refuse(s, "conflict") /\ UNCHANGED vars
  BY <1>1, <1>4, RefuseSerial DEF Leads
<1> QED
  BY <1>1, <1>2, <1>3, <1>4 DEF Write

\* The job that a free lane starts is the first of those still waiting.
LEMMA FirstStarts ==
  ASSUME Settling, Serial, closing \in {"open", "draining"}, active = None,
         NEW s \in Keys, phase[s] = "written", NEW t \in Keys, state[RunOf[t]] = "queued"
  PROVE  stamp[s] <= stamp[t]
<1> USE AdmissionAssumption, StoreAssumption
<1>1. RunOf[t] \in InLane
  BY QueuedAreInLane DEF Settling
<1>2. queue = <<>>
  BY DEF Settling, AdmissionInv, Coordinated
<1>3. ToSet(queue) = {}
  BY <1>2 DEF ToSet
<1>4. t \notin Jobs
  BY <1>3 DEF Jobs
<1>5. Reserved(s)
  BY DEF Serial
<1>6. ~(stamp[t] < stamp[s])
  BY <1>1, <1>4, <1>5, PendingComesLater DEF Settling
<1>7. stamp[s] \in Nat /\ stamp[t] \in Nat
  BY DEF Settling, AdmissionInv, Submitted
<1> QED
  BY <1>6, <1>7

LEMMA HandOffSerial ==
  ASSUME Settling, Serial, LaneStep, NEW s \in Keys, HandOff(s)
  PROVE  Serial'
<1> USE AdmissionAssumption, StoreAssumption
<1>1. phase[s] = "written" /\ UNCHANGED vars /\ closing' = closing
  BY DEF HandOff, endVars
<1>2. CASE /\ plan[s].schedules /\ closing \in {"open", "draining"}
           /\ Moves(s, "ticketed") /\ Enqueue(s, policy[s])
  <2>1. /\ phase' = [phase EXCEPT ![s] = "ticketed"] /\ result' = result
    BY <1>2 DEF Moves
  <2>2. \A t \in Keys : phase'[t] = "done" => phase[t] = "done"
    BY <2>1 DEF Settling, AdmissionInv, Submitted
  <2>3. /\ receipt' = receipt /\ revision' = revision
        /\ \A r \in Runs : state'[r] = "queued" =>
             state[r] = "queued" /\ seq'[r] = seq[r] /\ admission'[r] = admission[r]
    BY <1>1 DEF vars, acceptVars, leaseVars
  <2>4. stage' = "acquire" => read' = revision'[RunFor(active')]
    <3>1. stage' = "acquire" => UNCHANGED <<stage, active, read>>
      BY <1>2 DEF Enqueue, Starts
    <3> QED
      BY <2>3, <3>1 DEF Serial
  <2>5. active' # None => \/ active' = active
                          \/ \A t \in Keys : state'[RunOf[t]] = "queued" =>
                               stamp[active'] <= stamp[t]
    <3>1. active' = active \/ (active = None /\ active' = s)
      BY <1>2 DEF Enqueue, Starts
    <3>2. active = None => \A t \in Keys : state[RunOf[t]] = "queued" => stamp[s] <= stamp[t]
      BY <1>1, <1>2, FirstStarts
    <3> QED
      BY <2>3, <3>1, <3>2
  <2>6. /\ \A x \in Keys : phase'[x] \in {"new", "entered", "cleared"} => receipt'[x] = receipt[x]
        /\ \A t \in Keys : Leads(t) /\ phase'[t] = "done" /\ phase[t] # "done"
                             /\ state'[RunOf[t]] = "queued" => closing' \notin {"open", "draining"}
        /\ \A x \in Keys : result'[x] = "unsettled" => result[x] = "unsettled"
        /\ closing \notin {"open", "draining"} => closing' \notin {"open", "draining"}
    BY <1>1, <2>1, <2>2, <2>3
  <2>7. TypeOK /\ AdmissionInv
    BY DEF Settling
  <2> QED
    BY <2>3, <2>4, <2>5, <2>6, <2>7, SerialStays
<1>3. CASE /\ closing \notin {"open", "draining"} /\ Refuse(s, "closed") /\ UNCHANGED jobVars
  BY <1>1, <1>3, RefuseSerial
<1>4. CASE /\ ~plan[s].schedules /\ UNCHANGED jobVars
           /\ Moves(s, "attached") \/ \E t \in Keys : Refuse(s, result[t])
  <2>1. \A t \in Keys : result[t] # "unsettled"
    BY DEF Serial
  <2> QED
    BY <1>1, <1>4, <2>1, RefuseSerial, MovesSerial DEF Leads
<1> QED
  BY <1>2, <1>3, <1>4 DEF HandOff

LEMMA DrainSerial ==
  ASSUME Settling, Serial, LaneStep, Drain
  PROVE  Serial'
<1> DEFINE S == ToSet(queue) \cap Keys
           T == S \cup Followers(S)
<1>1. /\ Ending(T, "closed") /\ closing' \in {"grace", "aborted"}
      /\ UNCHANGED vars /\ UNCHANGED <<active, stage, read>>
  BY TellEnds DEF Drain, Settling, AdmissionInv
<1> HIDE DEF T
<1>2. \A s \in Keys : result'[s] = "unsettled" => result[s] = "unsettled"
  BY <1>1 DEF Ending
<1>3. /\ UNCHANGED <<receipt, revision, state, seq, admission>> /\ TypeOK /\ AdmissionInv
  BY <1>1 DEF vars, acceptVars, leaseVars, Settling
<1>4. stage' = "acquire" => read' = revision'[RunFor(active')]
  BY <1>1, <1>3 DEF Serial
<1>5. /\ \A x \in Keys : phase'[x] \in {"new", "entered", "cleared"} => receipt'[x] = receipt[x]
      /\ \A r \in Runs : state'[r] = "queued" =>
           state[r] = "queued" /\ seq'[r] = seq[r] /\ admission'[r] = admission[r]
      /\ \A t \in Keys : Leads(t) /\ phase'[t] = "done" /\ phase[t] # "done"
                           /\ state'[RunOf[t]] = "queued" => closing' \notin {"open", "draining"}
      /\ closing \notin {"open", "draining"} => closing' \notin {"open", "draining"}
      /\ active' # None => \/ active' = active
                           \/ \A t \in Keys : state'[RunOf[t]] = "queued" =>
                                stamp[active'] <= stamp[t]
  BY <1>1, <1>3
<1> QED
  BY <1>2, <1>3, <1>4, <1>5, SerialStays

LEMMA SubmitSerial ==
  ASSUME Settling, Serial, Plain, NEW s \in Keys, NEW how, Submit(s, how)
  PROVE  Serial'
<1> USE AdmissionAssumption, StoreAssumption
<1>1. /\ phase[s] = "new" /\ Reserve(s)
      /\ phase' = [phase EXCEPT ![s] = "entered"] /\ stamp' = [stamp EXCEPT ![s] = clock']
      /\ UNCHANGED <<result, closing>> /\ UNCHANGED vars /\ UNCHANGED jobVars
  BY DEF Submit, Plain, endVars
<1>2. /\ \A t \in Keys \ {s} : phase'[t] = phase[t] /\ stamp'[t] = stamp[t] /\ plan'[t] = plan[t]
      /\ phase'[s] = "entered" /\ plan'[s].run # None
  <2>1. \A t \in Keys \ {s} : phase'[t] = phase[t] /\ stamp'[t] = stamp[t] /\ plan'[t] = plan[t]
    BY <1>1 DEF Reserve, Settling, AdmissionInv, Submitted
  <2>2. phase'[s] = "entered"
    BY <1>1 DEF Settling, AdmissionInv, Submitted
  <2>3. plan'[s].run # None
    BY <1>1 DEF Reserve, Settling, AdmissionInv, Submitted
  <2> QED
    BY <2>1, <2>2, <2>3
<1>3. UNCHANGED <<state, seq, admission, receipt, revision>> /\ UNCHANGED <<active, stage, read>>
  BY <1>1 DEF vars, acceptVars, leaseVars, jobVars
<1>4. ~Leads(s) /\ state[RunOf[s]] = "absent" /\ receipt[s] = None /\ s # active
  <2>1. NoPlan.run = None
    BY DEF NoPlan
  <2>2. ~Leads(s)
    BY <1>1, <2>1 DEF Settling, LaneInv, Planned, Leads, Reserved
  <2>3. state[RunOf[s]] = "absent" /\ receipt[s] = None
    BY <1>1 DEF Settling, AdmissionInv, Origins, Serial
  <2>4. s # active
    BY <1>1 DEF Settling, Lined, Jobs
  <2> QED
    BY <2>2, <2>3, <2>4
<1>5. \A t \in Keys \ {s} : Leads(t)' = Leads(t) /\ Reserved(t)' = Reserved(t)
  BY <1>2 DEF Leads, Reserved
<1>6. \A x \in Keys : phase'[x] # "new" => Reserved(x)'
  BY <1>2, <1>5 DEF Serial, Reserved
<1>7. \A x \in Keys : phase'[x] \in {"new", "entered", "cleared"} => receipt'[x] = None
  BY <1>2, <1>3, <1>4 DEF Serial
<1>8. ASSUME NEW r \in Runs, state'[r] = "queued"
      PROVE  /\ seq'[r] = 0 /\ admission'[r].priority = FALSE
             /\ \E t \in Keys : /\ r = RunOf[t] /\ Leads(t)' /\ admission'[r].created = stamp'[t]
                                /\ phase'[t] = "done" => closing' \notin {"open", "draining"}
  <2>1. PICK t \in Keys : /\ r = RunOf[t] /\ Leads(t) /\ admission[r].created = stamp[t]
                          /\ phase[t] = "done" => closing \notin {"open", "draining"}
    BY <1>3, <1>8 DEF Serial
  <2>2. t # s
    BY <1>4, <2>1
  <2>3. /\ Leads(t)' /\ admission'[r].created = stamp'[t]
        /\ phase'[t] = "done" => closing' \notin {"open", "draining"}
    BY <1>1, <1>2, <1>3, <1>5, <2>1, <2>2
  <2> QED
    BY <1>3, <1>8, <2>1, <2>3 DEF Serial
<1>9. stage' = "acquire" => read' = revision'[RunFor(active)']
  BY <1>3 DEF Serial, RunFor
<1>10. ASSUME active' # None, NEW t \in Keys, state'[RunOf[t]] = "queued"
       PROVE  stamp'[active'] <= stamp'[t]
  <2>1. t # s /\ active \in Keys \ {s}
    BY <1>3, <1>4, <1>10 DEF Settling, Lined
  <2>2. stamp[active] <= stamp[t]
    BY <1>3, <1>10 DEF Serial
  <2> QED
    BY <1>2, <1>3, <2>1, <2>2
<1>11. \A x \in Keys : result'[x] # "unsettled"
  BY <1>1 DEF Serial
<1> QED
  BY <1>6, <1>7, <1>8, <1>9, <1>10, <1>11 DEF Serial

\* Whatever else happens while nobody submits.
LEMMA OthersSerial ==
  ASSUME Settling, Serial, LaneStep,
         \/ UNCHANGED admissionVars \/ TakeOn \/ Retry
         \/ Close \/ GraceEnds \/ Return
         \/ \E r \in Runs : InterruptRun(r) \/ Stop(r)
  PROVE  Serial'
<1>1. CASE \/ UNCHANGED admissionVars \/ TakeOn \/ Retry \/ Close \/ GraceEnds \/ Return
           \/ \E r \in Runs : Stop(r)
  <2>1. UNCHANGED <<phase, result, active, stage, read>> /\ UNCHANGED vars
    BY <1>1 DEF admissionVars, subVars, jobVars, TakeOn, Retry, AttemptUnchanged, Close,
                GraceEnds, Return, Stop
  <2>2. UNCHANGED <<state, seq, admission, receipt, revision>>
    BY <2>1 DEF vars, acceptVars, leaseVars
  <2>3. closing \notin {"open", "draining"} => closing' \notin {"open", "draining"}
    BY <1>1 DEF admissionVars, endVars, TakeOn, Retry, AttemptUnchanged, Close,
                GraceEnds, Return, Stop
  <2>4. stage' = "acquire" => read' = revision'[RunFor(active)]
    BY <2>1, <2>2 DEF Serial
  <2>5. \A r \in Runs : state'[r] = "queued" =>
          state[r] = "queued" /\ seq'[r] = seq[r] /\ admission'[r] = admission[r]
    BY <2>2
  <2> QED
    BY <2>1, <2>2, <2>3, <2>4, <2>5, SerialStill
<1>2. ASSUME NEW r \in Runs, InterruptRun(r)  PROVE Serial'
  <2>1. /\ state[r] = "running" /\ state' = [state EXCEPT ![r] = "interrupt_requested"]
        /\ UNCHANGED <<receipt, admission, seq>>
    BY <1>2 DEF InterruptRun, Interrupt, acceptVars, leaseVars
  <2>2. UNCHANGED <<phase, result, active, stage, closing>>
    BY <1>2 DEF InterruptRun, subVars, jobVars, endVars
  <2>3. stage = "run"
    BY <2>1 DEF Settling, Executing, Acquired
  <2>4. \A c \in Runs : state'[c] = "queued" =>
          state[c] = "queued" /\ seq'[c] = seq[c] /\ admission'[c] = admission[c]
    BY <2>1 DEF Settling, TypeOK
  <2> QED
    BY <2>1, <2>2, <2>3, <2>4, SerialStill
<1> QED
  BY <1>1, <1>2

LEMMA InSeriesKept ==
  ASSUME TypeOK, Bookkeeping, AdmissionInv, LaneInv, InLine, Quiet, Executing, InSeries,
         [AdmissionNext]_admissionVars
  PROVE  InSeries'
<1>1. host' = host
  BY HostStays
<1> SUFFICES ASSUME Plain  PROVE ~recovered' /\ Serial'
  BY <1>1 DEF InSeries, Plain
<1>2. Settling /\ Serial /\ ~recovered
  BY DEF InSeries, InLine, Settling
<1>3. ~StartRecovery /\ ~Recovering
  BY <1>2, RecoveredStays DEF StartRecovery, Plain
<1>4. ~recovered'
  <2>1. recovered' = recovered
    BY <1>3, RecoveredStays
  <2> QED
    BY <1>2, <2>1
<1>5. \A k \in Elsewhere : ~AdmittedElsewhere(k)
  BY DEF AdmittedElsewhere, Plain
<1>6. CASE \E s \in Keys, how \in InputPolicies : Submit(s, how)
  BY <1>2, <1>4, <1>6, SubmitSerial
<1>7. CASE ~ \E s \in Keys, how \in InputPolicies : Submit(s, how)
  <2>1. LaneStep
    BY <1>7, LaneMoves
  <2>2. ASSUME NEW s \in Keys, Submission(s)  PROVE Serial'
    BY <1>2, <2>1, <2>2, PreflightSerial, WriteSerial, HandOffSerial DEF Submission, Plain
  <2>3. ASSUME Starting  PROVE Serial'
    BY <1>2, <2>1, <2>3, StartingSerial
  <2>4. ASSUME FinishRun  PROVE Serial'
    BY <1>2, <2>1, <2>4, FinishSerial
  <2>5. ASSUME Drain  PROVE Serial'
    BY <1>2, <2>1, <2>5, DrainSerial
  <2>6. ASSUME \/ UNCHANGED admissionVars \/ TakeOn \/ Retry
               \/ Close \/ GraceEnds \/ Return
               \/ \E r \in Runs : InterruptRun(r) \/ Stop(r)
        PROVE  Serial'
    BY <1>2, <2>1, <2>6, OthersSerial
  <2>7. Serial'
    BY <1>3, <1>5, <1>7, <2>2, <2>3, <2>4, <2>5, <2>6 DEF AdmissionNext, Stopping
  <2> QED
    BY <1>4, <2>7
<1> QED
  BY <1>6, <1>7

LEMMA InSeriesStarts == AdmissionInit => InSeries
<1> SUFFICES ASSUME AdmissionInit, Plain  PROVE ~recovered /\ Serial
  BY DEF InSeries
<1> QED
  BY AdmissionAssumption, StoreAssumption DEF AdmissionInit, Init, Serial

\* Where every input is reserved in the lane and nobody else writes to the queue, no
\* ticket ends with its run still waiting: the jobs start in the order of their
\* submissions, so the active one is the first of the runs that wait, and nothing moves
\* its revision between its look-up and its acquisition.
THEOREM NobodyLeft == AdmissionSpec => []NoneLeftBehind
<1>1. AdmissionInit => Quiet /\ Executing
  BY AdmissionAssumption DEF AdmissionInit, Init, Quiet, Closings, Guarded, Drained, Ended,
                             Executing, Acquired
<1>2. TypeOK /\ AdmissionInv /\ Quiet /\ Executing /\ [AdmissionNext]_admissionVars
        => Quiet' /\ Executing'
  BY StaysQuiet, ExecutesAlone
<1>3. AdmissionSpec => [](Quiet /\ Executing)
  BY <1>1, <1>2, AdmissionSound, PTL DEF AdmissionSpec
<1>4. AdmissionSpec => []InSeries
  BY <1>3, InSeriesStarts, InSeriesKept, LaneSound, AdmissionSound, StoreUnderRuntime, PTL
     DEF AdmissionSpec
<1>5. InSeries => NoneLeftBehind
  BY DEF InSeries, Plain, Serial, NoneLeftBehind
<1> QED
  BY <1>4, <1>5, PTL

===============================================================================
