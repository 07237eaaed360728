--------------------------- MODULE DeliveryProofs ---------------------------
(***************************************************************************)
(* What is delivered, by the two components that keep telling somebody.    *)
(*                                                                         *)
(* The outbox delivers a notification whole, and no recorded action twice: *)
(* only the holder of an item's lease writes its receipts, so what it      *)
(* knows of them is what is recorded, and it acknowledges when it knows    *)
(* them all.                                                               *)
(*                                                                         *)
(* A client of a watched read shows as live only the answer: the values on *)
(* its connection follow each other, the last one is the source's, and the *)
(* source that is live reads again what changed.                           *)
(***************************************************************************)
EXTENDS NotificationOutbox, WatchedRead, FiniteSetTheorems, SequenceTheorems,
        WellFoundedInduction, TLAPS

-----------------------------------------------------------------------------
(* The queue and the receipts as sequences *)

\* One place left out of a sequence without repetitions leaves out one element.
LEMMA RemovalIs ==
  ASSUME NEW S, NEW s \in Seq(S), IsInjective(s), NEW i \in DOMAIN s
  PROVE  /\ RemoveAt(s, i) \in Seq(S)
         /\ ToSet(RemoveAt(s, i)) = ToSet(s) \ {s[i]}
         /\ IsInjective(RemoveAt(s, i))
<1> DEFINE t == RemoveAt(s, i)
<1>1. /\ t \in Seq(S) /\ Len(t) = Len(s) - 1 /\ Len(s) \in Nat /\ i \in 1 .. Len(s)
      /\ \A j \in 1 .. Len(t) : t[j] = IF j < i THEN s[j] ELSE s[j + 1]
  <2> DEFINE a == SubSeq(s, 1, i - 1)
             b == SubSeq(s, i + 1, Len(s))
  <2>1. Len(s) \in Nat /\ i \in 1 .. Len(s) /\ \A j \in 1 .. Len(s) : s[j] \in S
    BY LenProperties, ElementOfSeq
  <2>2. a \in Seq(S) /\ Len(a) = i - 1 /\ \A j \in 1 .. i - 1 : a[j] = s[j]
    <3>1. \A j \in 1 .. i - 1 : s[j] \in S
      BY <2>1
    <3>2. /\ a \in Seq(S) /\ Len(a) = IF 1 <= i - 1 THEN i - 1 - 1 + 1 ELSE 0
          /\ \A j \in 1 .. i - 1 - 1 + 1 : a[j] = s[1 + j - 1]
      BY <2>1, <3>1, SubSeqProperties
    <3> HIDE DEF a
    <3> QED
      BY <2>1, <3>2
  <2>3. b \in Seq(S) /\ Len(b) = Len(s) - i /\ \A j \in 1 .. Len(s) - i : b[j] = s[i + j]
    <3>1. \A j \in i + 1 .. Len(s) : s[j] \in S
      BY <2>1
    <3>2. /\ b \in Seq(S)
          /\ Len(b) = IF i + 1 <= Len(s) THEN Len(s) - (i + 1) + 1 ELSE 0
          /\ \A j \in 1 .. Len(s) - (i + 1) + 1 : b[j] = s[i + 1 + j - 1]
      BY <2>1, <3>1, SubSeqProperties
    <3> HIDE DEF b
    <3>3. \A j \in 1 .. Len(s) - i : j \in 1 .. Len(s) - (i + 1) + 1 /\ i + 1 + j - 1 = i + j
      BY <2>1
    <3>4. \A j \in 1 .. Len(s) - i : b[j] = s[i + j]
      BY <3>2, <3>3
    <3> QED
      BY <2>1, <3>2, <3>4
  <2>4. t = a \o b
    BY DEF RemoveAt
  <2> HIDE DEF a, b, t
  <2>5. /\ a \o b \in Seq(S) /\ Len(a \o b) = Len(a) + Len(b)
        /\ \A j \in 1 .. Len(a) + Len(b) :
             (a \o b)[j] = IF j <= Len(a) THEN a[j] ELSE b[j - Len(a)]
    BY <2>2, <2>3, ConcatProperties
  <2>6. Len(t) = Len(s) - 1 /\ t \in Seq(S)
    BY <2>1, <2>2, <2>3, <2>4, <2>5
  <2>7. ASSUME NEW j \in 1 .. Len(t)  PROVE t[j] = IF j < i THEN s[j] ELSE s[j + 1]
    <3>1. CASE j < i
      BY <2>1, <2>2, <2>3, <2>4, <2>5, <2>6, <3>1
    <3>2. CASE j >= i
      <4>1. /\ j - (i - 1) \in 1 .. Len(s) - i
            /\ j \in 1 .. Len(a) + Len(b) /\ ~(j <= Len(a)) /\ Len(a) = i - 1
        BY <2>1, <2>2, <2>3, <2>6, <3>2
      <4>4. t[j] = b[j - (i - 1)]
        BY <2>4, <2>5, <4>1
      <4>2. b[j - (i - 1)] = s[i + (j - (i - 1))]
        BY <2>3, <4>1
      <4>3. i + (j - (i - 1)) = j + 1 /\ ~(j < i)
        BY <2>1, <2>6, <3>2
      <4> QED
        BY <4>2, <4>3, <4>4
    <3> QED
      BY <2>1, <3>1, <3>2
  <2> QED
    BY <2>1, <2>6, <2>7
<1> HIDE DEF t
<1>0. DOMAIN s = 1 .. Len(s) /\ DOMAIN t = 1 .. Len(t)
  BY <1>1, LenProperties
<1>2. \A j \in 1 .. Len(t) : \E m \in 1 .. Len(s) : m # i /\ t[j] = s[m]
  BY <1>1
<1>3. \A m \in 1 .. Len(s) : m # i => \E j \in 1 .. Len(t) : t[j] = s[m]
  <2> TAKE m \in 1 .. Len(s)
  <2>1. CASE m < i
    BY <1>1, <2>1
  <2>2. CASE m > i
    <3>1. m - 1 \in 1 .. Len(t) /\ t[m - 1] = s[m]
      BY <1>1, <2>2
    <3> QED
      BY <3>1
  <2> QED
    BY <1>1, <2>1, <2>2
<1>4. ToSet(t) = ToSet(s) \ {s[i]}
  <2>1. \A m \in 1 .. Len(s) : m # i => s[m] # s[i]
    BY <1>0, <1>1 DEF IsInjective
  <2>2. ToSet(t) = {t[j] : j \in 1 .. Len(t)} /\ ToSet(s) = {s[j] : j \in 1 .. Len(s)}
    BY <1>0 DEF ToSet
  <2>3. ASSUME NEW x \in ToSet(t)  PROVE x \in ToSet(s) \ {s[i]}
    <3>1. PICK j \in 1 .. Len(t) : x = t[j]
      BY <2>2
    <3>2. PICK m \in 1 .. Len(s) : m # i /\ t[j] = s[m]
      BY <1>2
    <3> QED
      BY <2>1, <2>2, <3>1, <3>2
  <2>4. ASSUME NEW x \in ToSet(s) \ {s[i]}  PROVE x \in ToSet(t)
    <3>1. PICK m \in 1 .. Len(s) : x = s[m] /\ m # i
      BY <2>2
    <3>2. PICK j \in 1 .. Len(t) : t[j] = s[m]
      BY <1>3, <3>1
    <3> QED
      BY <2>2, <3>1, <3>2
  <2> QED
    BY <2>3, <2>4
<1>5. IsInjective(t)
  <2> SUFFICES ASSUME NEW a \in 1 .. Len(t), NEW b \in 1 .. Len(t), a < b, t[a] = t[b]
               PROVE  FALSE
    BY <1>0, <1>1 DEF IsInjective
  <2> DEFINE At_(j) == IF j < i THEN j ELSE j + 1
  <2>1. /\ At_(a) \in 1 .. Len(s) /\ At_(b) \in 1 .. Len(s) /\ At_(a) # At_(b)
        /\ t[a] = s[At_(a)] /\ t[b] = s[At_(b)]
    BY <1>1
  <2> QED
    BY <1>0, <2>1 DEF IsInjective
<1> QED
  BY <1>1, <1>4, <1>5 DEF t

\* An element that is new at the end.
LEMMA AppendIs ==
  ASSUME NEW S, NEW s \in Seq(S), NEW e \in S, e \notin ToSet(s), IsInjective(s)
  PROVE  /\ Append(s, e) \in Seq(S)
         /\ ToSet(Append(s, e)) = ToSet(s) \cup {e}
         /\ IsInjective(Append(s, e))
<1> DEFINE t == Append(s, e)
<1>1. /\ t \in Seq(S) /\ Len(t) = Len(s) + 1 /\ Len(s) \in Nat
      /\ \A j \in 1 .. Len(s) : t[j] = s[j]
      /\ t[Len(s) + 1] = e
  OBVIOUS
<1> HIDE DEF t
<1>2. ToSet(t) = ToSet(s) \cup {e}
  BY <1>1 DEF ToSet
<1>3. IsInjective(t)
  BY <1>1 DEF IsInjective, ToSet
<1> QED
  BY <1>1, <1>2, <1>3 DEF t

\* What is retained of a sequence is part of it.
LEMMA PrefixIs ==
  ASSUME NEW S, NEW s \in Seq(S), NEW n \in Nat
  PROVE  Prefix(s, n) \in Seq(S) /\ ToSet(Prefix(s, n)) \subseteq ToSet(s)
<1> DEFINE m == IF Len(s) < n THEN Len(s) ELSE n
           t == Prefix(s, n)
<1>1. m \in 0 .. Len(s) /\ t = SubSeq(s, 1, m)
  BY DEF Prefix
<1>2. t \in Seq(S) /\ Len(t) = m /\ \A j \in 1 .. m : t[j] = s[j]
  BY <1>1
<1> QED
  BY <1>1, <1>2 DEF ToSet

\* An element put in front of a sequence.
LEMMA ConsIs ==
  ASSUME NEW S, NEW s \in Seq(S), NEW e \in S
  PROVE  <<e>> \o s \in Seq(S) /\ ToSet(<<e>> \o s) = ToSet(s) \cup {e}
<1> DEFINE t == <<e>> \o s
<1>1. /\ t \in Seq(S) /\ Len(t) = Len(s) + 1 /\ Len(s) \in Nat /\ t[1] = e
      /\ \A j \in 1 .. Len(s) : t[j + 1] = s[j]
  <2> DEFINE c == <<e>>
  <2>1. c \in Seq(S) /\ Len(c) = 1 /\ c[1] = e /\ Len(s) \in Nat
    OBVIOUS
  <2> HIDE DEF c
  <2>2. /\ c \o s \in Seq(S) /\ Len(c \o s) = Len(c) + Len(s)
        /\ \A j \in 1 .. Len(c) + Len(s) :
             (c \o s)[j] = IF j <= Len(c) THEN c[j] ELSE s[j - Len(c)]
    BY <2>1, ConcatProperties
  <2>3. \A j \in 1 .. Len(s) : j + 1 \in 1 .. 1 + Len(s) /\ ~(j + 1 <= 1) /\ j + 1 - 1 = j
    BY <2>1
  <2>4. t = c \o s
    BY DEF c
  <2> HIDE DEF t
  <2> QED
    BY <2>1, <2>2, <2>3, <2>4
<1> HIDE DEF t
<1>2. \A j \in 1 .. Len(t) : j = 1 \/ \E m \in 1 .. Len(s) : j = m + 1
  <2> TAKE j \in 1 .. Len(t)
  <2>1. j = 1 \/ (j - 1 \in 1 .. Len(s) /\ j = (j - 1) + 1)
    BY <1>1
  <2> QED
    BY <2>1
<1>3. ToSet(t) = ToSet(s) \cup {e}
  <2>1. /\ ToSet(t) = {t[j] : j \in 1 .. Len(t)} /\ ToSet(s) = {s[j] : j \in 1 .. Len(s)}
        /\ 1 \in 1 .. Len(t) /\ \A m \in 1 .. Len(s) : m + 1 \in 1 .. Len(t)
    BY <1>1, LenProperties DEF ToSet
  <2>2. ASSUME NEW x \in ToSet(t)  PROVE x \in ToSet(s) \cup {e}
    <3>1. PICK j \in 1 .. Len(t) : x = t[j]
      BY <2>1
    <3> QED
      BY <1>1, <1>2, <2>1, <3>1
  <2>3. ASSUME NEW x \in ToSet(s)  PROVE x \in ToSet(t)
    <3>1. PICK m \in 1 .. Len(s) : x = s[m]
      BY <2>1
    <3> QED
      BY <1>1, <2>1, <3>1
  <2>4. e \in ToSet(t)
    BY <1>1, <2>1
  <2> QED
    BY <2>2, <2>3, <2>4
<1> QED
  BY <1>1, <1>3 DEF t

-----------------------------------------------------------------------------
(* The inductive invariant *)

\* The invariant's own types: what no delivery depends on is left out.
Typed ==
  /\ queue \in Seq(Keys) /\ IsInjective(queue)
  /\ receipts \in Seq(Keys)
  /\ lease \in [Keys -> Executors \cup {None}]
  /\ confirmed \in [Keys -> Nat] /\ performed \in [Keys -> Nat]
  /\ projected \in [Keys -> BOOLEAN]
  /\ pc \in [Executors -> PCs]
  /\ item \in [Executors -> Keys \cup {None}]
  /\ have \in [Executors -> Nat]

\* Nobody holds what is not queued; no action is recorded that was not done;
\* a receipt is kept of what left the queue whole.
Recorded(k) ==
  /\ ~Queued(k) => lease[k] = None
  /\ confirmed[k] <= performed[k] /\ performed[k] <= PlanSize
  /\ k \in ToSet(receipts) => ~Queued(k) /\ performed[k] = PlanSize /\ projected[k]

\* An executor that still holds its item knows what is recorded of it, and is
\* where it is in the plan for a reason.
Working(o) ==
  /\ pc[o] = "idle" <=> item[o] = None
  /\ pc[o] \in {"sending", "sent"} => have[o] < PlanSize
  /\ Owns(o) =>
       /\ have[o] = confirmed[item[o]]
       /\ pc[o] = "sent" => performed[item[o]] > have[o]
       /\ pc[o] \in {"project", "projected", "acknowledge"} => have[o] = PlanSize
       /\ pc[o] = "acknowledge" => projected[item[o]]

OutboxInv ==
  /\ Typed
  /\ \A k \in Keys : Recorded(k)
  /\ \A o \in Executors : Working(o)

-----------------------------------------------------------------------------
(* The steps *)

LEMMA WithoutIs ==
  ASSUME Typed, NEW x
  PROVE  /\ Without(x) \in Seq(Keys)
         /\ ToSet(Without(x)) = ToSet(queue) \ {x}
         /\ IsInjective(Without(x))
<1>1. CASE Queued(x)
  <2>1. Place(x) \in DOMAIN queue /\ queue[Place(x)] = x
    BY <1>1 DEF Queued, ToSet, Place
  <2>2. Without(x) = RemoveAt(queue, Place(x))
    BY <1>1 DEF Without
  <2> QED
    BY <2>1, <2>2, RemovalIs DEF Typed
<1>2. CASE ~Queued(x)
  BY <1>2 DEF Without, Queued, Typed
<1> QED
  BY <1>1, <1>2

\* The keys of the queue and of the receipts are keys.
LEMMA KeysOf ==
  ASSUME NEW S, NEW s \in Seq(S)
  PROVE  /\ ToSet(s) \subseteq S
         /\ \A i \in DOMAIN s : s[i] \in ToSet(s)
BY LenProperties, ElementOfSeq DEF ToSet

\* The store and what was performed stay as they are.
Untouched == UNCHANGED <<queue, receipts, lease, confirmed, projected, performed>>

\* A step that moves one executor's delivery on, or ends it, and nothing else.
LEMMA MovesOn ==
  ASSUME OutboxInv, Untouched, NEW o \in Executors, Typed',
         \A p \in Executors \ {o} :
           pc'[p] = pc[p] /\ item'[p] = item[p] /\ have'[p] = have[p],
         \/ pc'[o] = "idle" /\ item'[o] = None
         \/ /\ item'[o] = item[o] /\ item[o] # None /\ have'[o] = have[o]
            /\ \/ pc'[o] \in {"action", "reject"}
               \/ pc'[o] = "sending" /\ have[o] < PlanSize
               \/ pc'[o] \in {"project", "projected"} /\ (Owns(o) => have[o] = PlanSize)
               \/ /\ pc'[o] = "acknowledge"
                  /\ Owns(o) => have[o] = PlanSize /\ projected[item[o]]
  PROVE  OutboxInv'
<1>1. ASSUME NEW k \in Keys  PROVE Recorded(k)'
  BY DEF OutboxInv, Untouched, Recorded, Queued
<1>2. ASSUME NEW p \in Executors  PROVE Working(p)'
  <2>1. Working(p) /\ Working(o)
    BY DEF OutboxInv
  <2>2. CASE p # o
    BY <2>1, <2>2 DEF Untouched, Working, Owns, Queued
  <2>3. CASE p = o
    BY <2>1, <2>3 DEF Untouched, Working, Owns, Queued
  <2> QED
    BY <2>2, <2>3
<1>3. Typed'
  OBVIOUS
<1> QED
  BY <1>1, <1>2, <1>3 DEF OutboxInv

\* The pass ends.
LEMMA Ends ==
  ASSUME OutboxInv, Untouched, NEW o \in Executors, PassEnds(o) \/ NextItem(o)
  PROVE  OutboxInv'
<1>0. /\ pc' = [pc EXCEPT ![o] = "idle"] /\ item' = [item EXCEPT ![o] = None]
      /\ have' = [have EXCEPT ![o] = 0]
  BY DEF PassEnds, NextItem
<1>1. Typed'
  BY <1>0 DEF OutboxInv, Typed, Untouched, PCs
<1>2. /\ pc'[o] = "idle" /\ item'[o] = None
      /\ \A p \in Executors \ {o} :
           pc'[p] = pc[p] /\ item'[p] = item[p] /\ have'[p] = have[p]
  BY <1>0 DEF OutboxInv, Typed
<1> QED
  BY <1>1, <1>2, MovesOn

\* The item is rejected.
LEMMA Rejected ==
  ASSUME OutboxInv, Untouched, NEW o \in Executors, NEW why, Rejects(o, why),
         pc[o] # "idle"
  PROVE  OutboxInv'
<1>1. Typed'
  BY DEF OutboxInv, Typed, Untouched, Rejects, PCs
<1>2. /\ pc'[o] = "reject" /\ item'[o] = item[o] /\ have'[o] = have[o]
      /\ \A p \in Executors \ {o} :
           pc'[p] = pc[p] /\ item'[p] = item[p] /\ have'[p] = have[p]
  BY DEF OutboxInv, Typed, Rejects
<1>3. item[o] # None
  BY DEF OutboxInv, Working
<1> QED
  BY <1>1, <1>2, <1>3, MovesOn

\* The pass goes from one place to another, for a reason.
LEMMA Goes ==
  ASSUME OutboxInv, Untouched, NEW o \in Executors, NEW there, GoesTo(o, there),
         pc[o] # "idle",
         \/ there \in {"action", "reject"}
         \/ there = "sending" /\ have[o] < PlanSize
         \/ there \in {"project", "projected"} /\ (Owns(o) => have[o] = PlanSize)
         \/ there = "acknowledge" /\ (Owns(o) => have[o] = PlanSize /\ projected[item[o]])
  PROVE  OutboxInv'
<1>1. Typed'
  BY DEF OutboxInv, Typed, Untouched, GoesTo, PCs
<1>2. /\ pc'[o] = there /\ item'[o] = item[o] /\ have'[o] = have[o]
      /\ \A p \in Executors \ {o} :
           pc'[p] = pc[p] /\ item'[p] = item[p] /\ have'[p] = have[p]
  BY DEF OutboxInv, Typed, GoesTo
<1>3. item[o] # None
  BY DEF OutboxInv, Working
<1> QED
  BY <1>1, <1>2, <1>3, MovesOn

\* Keys leave the queue, or their receipts are not retained any more: the store
\* forgets them, and nobody holds them.  The executors stay, or rest.
LEMMA Leaves ==
  ASSUME OutboxInv, NEW gone, NEW forgotten, Leave(gone), Forget(forgotten),
         queue' \in Seq(Keys), IsInjective(queue'), receipts' \in Seq(Keys),
         ToSet(queue) \ gone \subseteq ToSet(queue'),
         \A k \in ToSet(queue') : k \notin gone /\ k \notin ToSet(receipts'),
         \A k \in ToSet(queue) : k \in forgotten => k \in gone,
         \A k \in ToSet(receipts') :
           performed[k] = PlanSize /\ projected[k] /\ k \notin forgotten,
         pc' \in [Executors -> PCs], item' \in [Executors -> Keys \cup {None}],
         have' \in [Executors -> Nat],
         \A p \in Executors :
           \/ pc'[p] = "idle" /\ item'[p] = None
           \/ pc'[p] = pc[p] /\ item'[p] = item[p] /\ have'[p] = have[p]
  PROVE  OutboxInv'
<1> USE OutboxAssumption
<1>1. Typed'
  BY DEF OutboxInv, Typed, Leave, Forget
<1>2. ASSUME NEW k \in Keys  PROVE Recorded(k)'
  <2>1. Recorded(k) /\ Typed
    BY DEF OutboxInv
  <2>2. (~Queued(k) => lease[k] = None)'
    BY <2>1 DEF Recorded, Queued, Typed, Leave
  <2>3. (confirmed[k] <= performed[k] /\ performed[k] <= PlanSize)'
    BY <2>1 DEF Recorded, Typed, Forget
  <2>4. (k \in ToSet(receipts) => ~Queued(k) /\ performed[k] = PlanSize /\ projected[k])'
    BY <2>1 DEF Recorded, Queued, Typed, Forget
  <2> QED
    BY <2>2, <2>3, <2>4 DEF Recorded
<1>3. ASSUME NEW p \in Executors  PROVE Working(p)'
  <2>1. Working(p) /\ Typed
    BY DEF OutboxInv
  <2>2. CASE pc'[p] = "idle" /\ item'[p] = None
    BY <2>2 DEF Working, Owns
  <2>3. CASE pc'[p] = pc[p] /\ item'[p] = item[p] /\ have'[p] = have[p]
    <3>1. ASSUME Owns(p)'
          PROVE  /\ Owns(p) /\ item[p] \in Keys /\ item[p] \notin gone
                 /\ item[p] \notin forgotten
      <4>1. item[p] \in Keys /\ item[p] # None /\ item[p] \in ToSet(queue')
        BY <2>1, <2>3, <3>1 DEF Owns, Queued, Typed
      <4>2. item[p] \notin gone /\ lease[item[p]] = p
        BY <2>3, <3>1, <4>1 DEF Owns, Leave
      <4>3. item[p] \in ToSet(queue)
        BY <4>1, <4>2 DEF OutboxInv, Recorded, Queued
      <4> QED
        BY <4>1, <4>2, <4>3 DEF Owns, Queued
    <3>2. ASSUME Owns(p)'
          PROVE  /\ confirmed'[item[p]] = confirmed[item[p]]
                 /\ performed'[item[p]] = performed[item[p]]
                 /\ projected'[item[p]] = projected[item[p]]
      BY <2>1, <3>1, <3>2 DEF Forget, Typed
    <3> QED
      BY <2>1, <2>3, <3>1, <3>2 DEF Working
  <2> QED
    BY <2>2, <2>3
<1> QED
  BY <1>1, <1>2, <1>3 DEF OutboxInv

\* enqueue() adds an item that nobody works on.
LEMMA EnqueueKeeps ==
  ASSUME OutboxInv, NEW k \in Keys, Enqueue(k)
  PROVE  OutboxInv'
<1>1. PICK old \in ToSet(queue) \cup {None} :
        /\ queue' = Append(Without(old), k)
        /\ Leave({old}) /\ Forget({old})
  BY DEF Enqueue
<1>2. /\ receipts' = receipts /\ pc' = pc /\ item' = item /\ have' = have
      /\ k \notin ToSet(queue) /\ k \notin ToSet(receipts)
  BY DEF Enqueue, passVars, Known, Queued
<1>3. Typed /\ \A x \in Keys : Recorded(x)
  BY DEF OutboxInv
<1>4. /\ Without(old) \in Seq(Keys) /\ ToSet(Without(old)) = ToSet(queue) \ {old}
      /\ IsInjective(Without(old))
  BY <1>3, WithoutIs
<1>5. /\ queue' \in Seq(Keys) /\ ToSet(queue') = ToSet(Without(old)) \cup {k}
      /\ IsInjective(queue')
  BY <1>1, <1>2, <1>4, AppendIs
<1>6. ToSet(receipts) \subseteq Keys /\ ToSet(queue) \subseteq Keys
  BY <1>3, KeysOf DEF Typed
<1>7. \A x \in ToSet(receipts) : /\ performed[x] = PlanSize /\ projected[x]
                                 /\ x \notin ToSet(queue)
  BY <1>3, <1>6 DEF Recorded, Queued
<1>8. old # k /\ \A x \in ToSet(receipts) : x # old
  BY <1>2, <1>6, <1>7, OutboxAssumption
<1>9. /\ ToSet(queue) \ {old} \subseteq ToSet(queue')
      /\ \A x \in ToSet(queue') : x \notin {old} /\ x \notin ToSet(receipts')
      /\ \A x \in ToSet(receipts') :
           performed[x] = PlanSize /\ projected[x] /\ x \notin {old}
  BY <1>2, <1>4, <1>5, <1>7, <1>8
<1>10. /\ pc' \in [Executors -> PCs] /\ item' \in [Executors -> Keys \cup {None}]
       /\ have' \in [Executors -> Nat] /\ receipts' \in Seq(Keys)
       /\ \A p \in Executors : pc'[p] = pc[p] /\ item'[p] = item[p] /\ have'[p] = have[p]
  BY <1>2, <1>3 DEF Typed
<1> QED
  BY <1>1, <1>5, <1>9, <1>10, Leaves

\* An acknowledgement takes the item away and keeps a receipt of a whole plan.
LEMMA AcknowledgeKeeps ==
  ASSUME OutboxInv, NEW o \in Executors, Acknowledge(o)
  PROVE  OutboxInv'
<1>1. Typed /\ \A x \in Keys : Recorded(x)
  BY DEF OutboxInv
<1>2. CASE Owns(o)
  <2> DEFINE k == item[o]
             all == <<k>> \o receipts
             gone == ToSet(all) \ ToSet(receipts')
  <2>1. /\ queue' = Without(k) /\ receipts' = Prefix(all, Retained)
        /\ Leave({k}) /\ Forget(gone) /\ NextItem(o)
    BY <1>2 DEF Acknowledge
  <2>2. /\ k \in Keys /\ k \in ToSet(queue)
        /\ have[o] = PlanSize /\ confirmed[k] = have[o] /\ projected[k]
    BY <1>1, <1>2 DEF OutboxInv, Working, Owns, Typed, Acknowledge, At, Queued
  <2>3. performed[k] = PlanSize
    BY <1>1, <2>2, OutboxAssumption DEF Recorded, Typed
  <2>4. /\ queue' \in Seq(Keys) /\ ToSet(queue') = ToSet(queue) \ {k}
        /\ IsInjective(queue')
    BY <1>1, <2>1, WithoutIs
  <2>5. all \in Seq(Keys) /\ ToSet(all) = ToSet(receipts) \cup {k}
    BY <1>1, <2>2, ConsIs DEF Typed
  <2>6. receipts' \in Seq(Keys) /\ ToSet(receipts') \subseteq ToSet(all)
    BY <2>1, <2>5, PrefixIs, OutboxAssumption
  <2>7. ToSet(receipts) \subseteq Keys
    BY <1>1, KeysOf DEF Typed
  <2>8. \A x \in ToSet(receipts) : /\ performed[x] = PlanSize /\ projected[x]
                                   /\ x \notin ToSet(queue)
    BY <1>1, <2>7 DEF Recorded, Queued
  <2> HIDE DEF k, all
  <2>9. /\ ToSet(queue) \ {k} \subseteq ToSet(queue')
        /\ \A x \in ToSet(queue') : x \notin {k} /\ x \notin ToSet(receipts')
        /\ \A x \in ToSet(queue) : x \in gone => x \in {k}
        /\ \A x \in ToSet(receipts') :
             performed[x] = PlanSize /\ projected[x] /\ x \notin gone
    BY <2>2, <2>3, <2>4, <2>5, <2>6, <2>8
  <2>10. /\ pc' \in [Executors -> PCs] /\ item' \in [Executors -> Keys \cup {None}]
         /\ have' \in [Executors -> Nat]
         /\ \A p \in Executors :
              \/ pc'[p] = "idle" /\ item'[p] = None
              \/ pc'[p] = pc[p] /\ item'[p] = item[p] /\ have'[p] = have[p]
    BY <1>1, <2>1 DEF Typed, NextItem, PCs
  <2> HIDE DEF gone
  <2> QED
    BY <2>1, <2>4, <2>6, <2>9, <2>10, Leaves
<1>3. CASE ~Owns(o)
  BY <1>3, Ends DEF Acknowledge, Untouched, storeVars
<1> QED
  BY <1>2, <1>3

\* A rejection takes the item away and acknowledges nothing.
LEMMA RejectKeeps ==
  ASSUME OutboxInv, NEW o \in Executors, Reject(o)
  PROVE  OutboxInv'
<1>1. Typed /\ (\A x \in Keys : Recorded(x)) /\ \A p \in Executors : Working(p)
  BY DEF OutboxInv
<1>2. CASE ~Owns(o) /\ NextItem(o) /\ UNCHANGED <<storeVars, performed>>
  BY <1>2, Ends DEF Untouched, storeVars
<1>3. CASE /\ Owns(o) /\ Drops(o) /\ queue' = Without(item[o])
           /\ Leave({item[o]}) /\ Forget({item[o]})
           /\ NextItem(o) \/ PassEnds(o)
           /\ UNCHANGED receipts
  <2> DEFINE k == item[o]
  <2>1. k \in Keys /\ k \in ToSet(queue)
    BY <1>1, <1>3 DEF Owns, Typed, Queued
  <2>2. /\ queue' \in Seq(Keys) /\ ToSet(queue') = ToSet(queue) \ {k}
        /\ IsInjective(queue') /\ receipts' = receipts /\ receipts \in Seq(Keys)
    BY <1>1, <1>3, WithoutIs DEF Typed
  <2>3. ToSet(receipts) \subseteq Keys
    BY <1>1, KeysOf DEF Typed
  <2>4. \A x \in ToSet(receipts) : /\ performed[x] = PlanSize /\ projected[x]
                                   /\ x \notin ToSet(queue)
    BY <1>1, <2>3 DEF Recorded, Queued
  <2>5. /\ pc' \in [Executors -> PCs] /\ item' \in [Executors -> Keys \cup {None}]
        /\ have' \in [Executors -> Nat]
        /\ \A p \in Executors :
             \/ pc'[p] = "idle" /\ item'[p] = None
             \/ pc'[p] = pc[p] /\ item'[p] = item[p] /\ have'[p] = have[p]
    <3>1. /\ pc' = [pc EXCEPT ![o] = "idle"] /\ item' = [item EXCEPT ![o] = None]
          /\ have' = [have EXCEPT ![o] = 0]
      BY <1>3 DEF PassEnds, NextItem
    <3> QED
      BY <1>1, <3>1 DEF Typed, PCs
  <2>6. Leave({k}) /\ Forget({k})
    BY <1>3
  <2> HIDE DEF k
  <2>7. /\ ToSet(queue) \ {k} \subseteq ToSet(queue')
        /\ \A x \in ToSet(queue') : x \notin {k} /\ x \notin ToSet(receipts')
        /\ \A x \in ToSet(receipts') :
             performed[x] = PlanSize /\ projected[x] /\ x \notin {k}
    BY <2>1, <2>2, <2>4
  <2> QED
    BY <2>2, <2>5, <2>6, <2>7, Leaves
<1>4. CASE /\ Owns(o)
           /\ lease' = [lease EXCEPT ![item[o]] = None]
           /\ NextItem(o)
           /\ UNCHANGED <<queue, receipts, confirmed, projected, performed>>
  <2>1. item[o] \in Keys
    BY <1>1, <1>4 DEF Owns, Typed
  <2>2. Typed'
    BY <1>1, <1>4, <2>1 DEF Typed, NextItem, PCs
  <2>3. ASSUME NEW x \in Keys  PROVE Recorded(x)'
    BY <1>1, <1>4, <2>1 DEF Recorded, Queued, Typed
  <2>4. ASSUME NEW p \in Executors  PROVE Working(p)'
    <3>1. CASE p = o
      BY <1>1, <1>4, <3>1 DEF Working, Owns, Typed, NextItem
    <3>2. CASE p # o
      BY <1>1, <1>4, <2>1, <3>2, OutboxAssumption DEF Working, Owns, Queued, Typed, NextItem
    <3> QED
      BY <3>1, <3>2
  <2> QED
    BY <2>2, <2>3, <2>4 DEF OutboxInv
<1> QED
  BY <1>2, <1>3, <1>4 DEF Reject

\* Whoever claims an item is its only holder, and reads what is recorded of it.
LEMMA ClaimKeeps ==
  ASSUME OutboxInv, NEW o \in Executors, Claim(o)
  PROVE  OutboxInv'
<1>1. Typed /\ (\A x \in Keys : Recorded(x)) /\ \A p \in Executors : Working(p)
  BY DEF OutboxInv
<1>2. PICK i \in DOMAIN queue :
        /\ lease' = [lease EXCEPT ![queue[i]] = o]
        /\ item' = [item EXCEPT ![o] = queue[i]]
        /\ have' = [have EXCEPT ![o] = confirmed[queue[i]]]
  BY DEF Claim
<1> DEFINE k == queue[i]
<1>3. k \in Keys /\ k \in ToSet(queue)
  BY <1>1, <1>2, KeysOf DEF Typed
<1>4. /\ UNCHANGED <<queue, receipts, confirmed, projected, performed>>
      /\ \/ pc' = [pc EXCEPT ![o] = "reject"]
         \/ pc' = [pc EXCEPT ![o] = "action"]
  BY DEF Claim
<1>5. /\ lease' = [lease EXCEPT ![k] = o] /\ item' = [item EXCEPT ![o] = k]
      /\ have' = [have EXCEPT ![o] = confirmed[k]]
  BY <1>2
<1> HIDE DEF k
<1>6. Typed'
  BY <1>1, <1>3, <1>4, <1>5 DEF Typed, PCs
<1>7. ASSUME NEW x \in Keys  PROVE Recorded(x)'
  BY <1>1, <1>3, <1>4, <1>5 DEF Recorded, Queued, Typed
<1>8. ASSUME NEW p \in Executors  PROVE Working(p)'
  <2>1. CASE p = o
    <3>1. pc'[p] \in {"reject", "action"} /\ item'[p] = k /\ have'[p] = confirmed'[k]
      BY <1>1, <1>3, <1>4, <1>5, <2>1 DEF Typed
    <3> QED
      BY <1>3, <3>1, OutboxAssumption DEF Working
  <2>2. CASE p # o
    <3>1. Owns(p)' => Owns(p)
      BY <1>1, <1>3, <1>4, <1>5, <2>2 DEF Owns, Queued, Typed
    <3> QED
      BY <1>1, <1>3, <1>4, <1>5, <2>2, <3>1 DEF Working, Typed
  <2> QED
    BY <2>1, <2>2
<1> QED
  BY <1>6, <1>7, <1>8 DEF OutboxInv

\* A pass with actions left sends the next one, if it still has the lease.
LEMMA NextActionKeeps ==
  ASSUME OutboxInv, NEW o \in Executors, NextAction(o)
  PROVE  OutboxInv'
<1>1. Untouched /\ pc[o] = "action" /\ have[o] < PlanSize
  BY DEF NextAction, Untouched, storeVars, Checkpoint, LeaseLost, At
<1>2. PassEnds(o) \/ GoesTo(o, "sending")
  BY DEF NextAction, LeaseLost
<1> QED
  BY <1>1, <1>2, Ends, Goes

\* A pass with no action left goes on to the projection or the acknowledgement.
LEMMA PlanDoneKeeps ==
  ASSUME OutboxInv, NEW o \in Executors, PlanDone(o)
  PROVE  OutboxInv'
<1>1. Untouched /\ pc[o] = "action" /\ have[o] = PlanSize
  BY DEF PlanDone, Untouched, storeVars, At
<1>2. CASE interrupted[o] \/ ~Owns(o)
  BY <1>1, <1>2, Ends DEF PlanDone
<1>3. CASE ~(interrupted[o] \/ ~Owns(o)) /\ projected[item[o]]
  BY <1>1, <1>3, Goes DEF PlanDone
<1>4. CASE ~(interrupted[o] \/ ~Owns(o)) /\ ~projected[item[o]]
  BY <1>1, <1>4, Goes DEF PlanDone
<1> QED
  BY <1>2, <1>3, <1>4

\* The projection tells the host, or fails and rejects the item.
LEMMA ProjectKeeps ==
  ASSUME OutboxInv, NEW o \in Executors, Project(o)
  PROVE  OutboxInv'
<1>1. Untouched /\ pc[o] = "project" /\ (Owns(o) => have[o] = PlanSize)
  BY DEF Project, Untouched, storeVars, At, OutboxInv, Working
<1>2. CASE GoesTo(o, "projected")
  BY <1>1, <1>2, Goes
<1>3. CASE \E why \in {"retryable", "terminal"} : Rejects(o, why)
  BY <1>1, <1>3, Rejected
<1> QED
  BY <1>2, <1>3 DEF Project

\* A send returns, or throws and the item is rejected.
LEMMA SentKeeps ==
  ASSUME OutboxInv, NEW o \in Executors, Sent(o)
  PROVE  OutboxInv'
<1>1. /\ Typed /\ (\A x \in Keys : Recorded(x)) /\ (\A p \in Executors : Working(p))
      /\ pc[o] = "sending" /\ have[o] < PlanSize /\ item[o] \in Keys
  BY DEF OutboxInv, Sent, At, Working, Typed
<1>2. CASE /\ performed' = [performed EXCEPT ![item[o]] =
                              IF Queued(item[o]) /\ @ <= have[o] THEN have[o] + 1 ELSE @]
           /\ GoesTo(o, "sent") /\ UNCHANGED storeVars
  <2>1. Typed'
    BY <1>1, <1>2 DEF Typed, GoesTo, PCs, storeVars
  <2>2. ASSUME NEW x \in Keys  PROVE Recorded(x)'
    BY <1>1, <1>2, OutboxAssumption DEF Recorded, Queued, Typed, storeVars
  <2>3. ASSUME NEW p \in Executors  PROVE Working(p)'
    BY <1>1, <1>2 DEF Working, Owns, Queued, Typed, GoesTo, storeVars
  <2> QED
    BY <2>1, <2>2, <2>3 DEF OutboxInv
<1>3. CASE /\ \E why \in {"retryable", "terminal"} : Rejects(o, why)
           /\ UNCHANGED <<storeVars, performed>>
  BY <1>1, <1>3, Rejected DEF Untouched, storeVars
<1> QED
  BY <1>2, <1>3 DEF Sent

\* A receipt is written by the executor that has the lease, of the action it sent.
LEMMA ConfirmKeeps ==
  ASSUME OutboxInv, NEW o \in Executors, Confirm(o)
  PROVE  OutboxInv'
<1>1. CASE LeaseLost(o)
  BY <1>1, Ends DEF LeaseLost, Untouched, storeVars
<1>2. CASE ~LeaseLost(o)
  <2>1. /\ Owns(o) /\ pc[o] = "sent"
        /\ confirmed' = [confirmed EXCEPT ![item[o]] = have[o] + 1]
        /\ have' = [have EXCEPT ![o] = @ + 1]
        /\ pc' = [pc EXCEPT ![o] = "action"]
        /\ UNCHANGED <<queue, receipts, lease, projected, item, performed>>
    BY <1>2 DEF Confirm, Checkpoint, At
  <2>2. /\ Typed /\ (\A x \in Keys : Recorded(x)) /\ (\A p \in Executors : Working(p))
        /\ item[o] \in Keys
    BY <2>1 DEF OutboxInv, Owns, Typed
  <2>3. Typed'
    BY <2>1, <2>2 DEF Typed, PCs
  <2>4. ASSUME NEW x \in Keys  PROVE Recorded(x)'
    BY <2>1, <2>2 DEF Recorded, Queued, Typed, Working
  <2>5. ASSUME NEW p \in Executors  PROVE Working(p)'
    BY <2>1, <2>2 DEF Working, Owns, Queued, Typed
  <2> QED
    BY <2>3, <2>4, <2>5 DEF OutboxInv
<1> QED
  BY <1>1, <1>2

\* That a plan is projected is recorded once all of it is.
LEMMA MarkProjectedKeeps ==
  ASSUME OutboxInv, NEW o \in Executors, MarkProjected(o)
  PROVE  OutboxInv'
<1>1. CASE LeaseLost(o)
  BY <1>1, Ends DEF LeaseLost, Untouched, storeVars
<1>2. CASE ~LeaseLost(o)
  <2>1. /\ Owns(o) /\ pc[o] = "projected"
        /\ projected' = [projected EXCEPT ![item[o]] = TRUE]
        /\ pc' = [pc EXCEPT ![o] = "acknowledge"]
        /\ UNCHANGED <<queue, receipts, lease, confirmed, item, have, performed>>
    BY <1>2 DEF MarkProjected, Checkpoint, At, GoesTo
  <2>2. /\ Typed /\ (\A x \in Keys : Recorded(x)) /\ (\A p \in Executors : Working(p))
        /\ item[o] \in Keys
    BY <2>1 DEF OutboxInv, Owns, Typed
  <2>3. Typed'
    BY <2>1, <2>2 DEF Typed, PCs
  <2>4. ASSUME NEW x \in Keys  PROVE Recorded(x)'
    BY <2>1, <2>2 DEF Recorded, Queued, Typed, Working
  <2>5. ASSUME NEW p \in Executors  PROVE Working(p)'
    BY <2>1, <2>2 DEF Working, Owns, Queued, Typed
  <2> QED
    BY <2>3, <2>4, <2>5 DEF OutboxInv
<1> QED
  BY <1>1, <1>2

\* A store that throws ends the pass and leaves the state.
LEMMA StoreThrowsKeeps ==
  ASSUME OutboxInv, NEW o \in Executors, StoreThrows(o)
  PROVE  OutboxInv'
<1>1. Untouched
  BY DEF StoreThrows, Untouched, storeVars
<1>2. \/ PassEnds(o)
      \/ pc[o] # "idle" /\ \E why \in {"retryable", "terminal"} : Rejects(o, why)
  BY DEF StoreThrows, At
<1> QED
  BY <1>1, <1>2, Ends, Rejected

\* The death of a process ends its passes and leaves the state.
LEMMA CrashKeeps ==
  ASSUME OutboxInv, NEW o \in Executors, Crash(o)
  PROVE  OutboxInv'
<1>1. Untouched /\ Typed'
  BY DEF Crash, Untouched, storeVars, OutboxInv, Typed, PCs
<1>2. /\ pc'[o] = "idle" /\ item'[o] = None
      /\ \A p \in Executors \ {o} :
           pc'[p] = pc[p] /\ item'[p] = item[p] /\ have'[p] = have[p]
  BY DEF OutboxInv, Typed, Crash
<1> QED
  BY <1>1, <1>2, MovesOn

\* The loop's calls and timers, and time itself, touch no delivery.
LEMMA StaysKeeps ==
  ASSUME OutboxInv, UNCHANGED <<queue, receipts, lease, confirmed, projected, performed,
                                pc, item, have>>
  PROVE  OutboxInv'
<1>1. Typed'
  BY DEF OutboxInv, Typed
<1>2. ASSUME NEW k \in Keys  PROVE Recorded(k)'
  BY DEF OutboxInv, Recorded, Queued
<1>3. ASSUME NEW o \in Executors  PROVE Working(o)'
  BY DEF OutboxInv, Working, Owns, Queued
<1> QED
  BY <1>1, <1>2, <1>3 DEF OutboxInv

\* The invariant holds of an empty outbox.
LEMMA OutboxStart == OutboxInit => OutboxInv
<1> SUFFICES ASSUME OutboxInit  PROVE OutboxInv
  OBVIOUS
<1>1. Typed
  BY DEF OutboxInit, Typed, PCs, IsInjective
<1>2. ASSUME NEW k \in Keys  PROVE Recorded(k)
  BY OutboxAssumption DEF OutboxInit, Recorded, Queued, ToSet
<1>3. ASSUME NEW o \in Executors  PROVE Working(o)
  BY DEF OutboxInit, Working, Owns
<1> QED
  BY <1>1, <1>2, <1>3 DEF OutboxInv

\* Every step of the outbox keeps the invariant.
LEMMA OutboxStep == OutboxInv /\ [OutboxNext]_outboxVars => OutboxInv'
<1> SUFFICES ASSUME OutboxInv, [OutboxNext]_outboxVars  PROVE OutboxInv'
  OBVIOUS
<1>1. CASE UNCHANGED outboxVars
  BY <1>1, StaysKeeps DEF outboxVars, storeVars, passVars
<1>2. ASSUME NEW k \in Keys, Enqueue(k) \/ LeaseOver(k) \/ BackoffOver(k)
      PROVE  OutboxInv'
  <2>1. CASE Enqueue(k)
    BY <2>1, EnqueueKeeps
  <2>2. CASE LeaseOver(k)
    BY <2>2, StaysKeeps DEF LeaseOver, passVars
  <2>3. CASE BackoffOver(k)
    BY <2>3, StaysKeeps DEF BackoffOver, passVars
  <2> QED
    BY <1>2, <2>1, <2>2, <2>3
<1>3. ASSUME NEW o \in Executors, PassStep(o)  PROVE OutboxInv'
  <2>1. CASE NothingDue(o)
    BY <2>1, Ends DEF NothingDue, Untouched, storeVars
  <2> QED
    BY <1>3, <2>1, ClaimKeeps, NextActionKeeps, SentKeeps, ConfirmKeeps, PlanDoneKeeps,
       ProjectKeeps, MarkProjectedKeeps, AcknowledgeKeeps, RejectKeeps DEF PassStep
<1>4. ASSUME NEW o \in Executors,
             Start(o) \/ Flush(o) \/ Fires(o) \/ Stop(o) \/ StopReturns(o)
      PROVE  OutboxInv'
  BY <1>4, StaysKeeps
  DEF Start, Flush, Fires, Stop, StopReturns, storeVars, passVars
<1>5. ASSUME NEW o \in Executors, StoreThrows(o) \/ Crash(o)  PROVE OutboxInv'
  BY <1>5, StoreThrowsKeeps, CrashKeeps
<1> QED
  BY <1>1, <1>2, <1>3, <1>4, <1>5 DEF OutboxNext

\* What executors know of their items is so at every moment of the outbox.
THEOREM OutboxSound == OutboxSpec => []OutboxInv
<1> QED
  BY OutboxStart, OutboxStep, PTL DEF OutboxSpec

-----------------------------------------------------------------------------
(* What the outbox promises *)

\* Whatever dies, expires, throws or supersedes on the way: a receipt is only
\* ever kept of a notification whose whole plan was carried out and projected
\* (acknowledge(), notification-outbox.ts, under the lease's owner).
THEOREM ReceiptsAreWhole == OutboxSpec => []AcknowledgedWhole
<1>1. OutboxInv => AcknowledgedWhole
  <2> SUFFICES ASSUME OutboxInv, NEW k \in ToSet(receipts)
               PROVE  performed[k] = PlanSize /\ projected[k]
    BY DEF AcknowledgedWhole
  <2>1. k \in Keys
    BY KeysOf DEF OutboxInv, Typed
  <2> QED
    BY <2>1 DEF OutboxInv, Recorded
<1> QED
  BY <1>1, OutboxSound, PTL

\* Nobody sends an action that is recorded as done, also after a takeover of the
\* lease in the middle of the plan: the check of the lease before an action
\* (notification-delivery.ts) is of the lease its reading was made under.
THEOREM NothingRecordedIsResent == OutboxSpec => RecordedIsNotResent
<1>1. ASSUME OutboxInv, [OutboxNext]_outboxVars, NEW o \in Executors,
             pc'[o] = "sending", pc[o] # "sending"
      PROVE  have[o] >= confirmed[item[o]]
  <2>1. NextAction(o) /\ GoesTo(o, "sending") /\ Owns(o)
    <3>1. CASE UNCHANGED outboxVars
      BY <1>1, <3>1 DEF outboxVars, passVars
    <3>2. ASSUME NEW k \in Keys, Enqueue(k) \/ LeaseOver(k) \/ BackoffOver(k)
          PROVE  FALSE
      BY <1>1, <3>2 DEF Enqueue, LeaseOver, BackoffOver, passVars
    <3>3. ASSUME NEW p \in Executors,
                 Start(p) \/ Flush(p) \/ Fires(p) \/ Stop(p) \/ StopReturns(p)
          PROVE  FALSE
      BY <1>1, <3>3 DEF Start, Flush, Fires, Stop, StopReturns, passVars
    <3>4. ASSUME NEW p \in Executors, StoreThrows(p) \/ Crash(p)  PROVE FALSE
      BY <1>1, <3>4
      DEF StoreThrows, Crash, PassEnds, Rejects, OutboxInv, Typed
    <3>5. ASSUME NEW p \in Executors, PassStep(p), ~NextAction(p)  PROVE FALSE
      BY <1>1, <3>5
      DEF PassStep, Claim, NothingDue, Sent, Confirm, PlanDone, Project, MarkProjected,
          Acknowledge, Reject, LeaseLost, PassEnds, NextItem, GoesTo, Rejects,
          OutboxInv, Typed
    <3>6. ASSUME NEW p \in Executors, NextAction(p)
          PROVE  p = o /\ GoesTo(o, "sending") /\ Owns(o)
      BY <1>1, <3>6
      DEF NextAction, LeaseLost, PassEnds, GoesTo, Checkpoint, OutboxInv, Typed
    <3> QED
      BY <1>1, <3>1, <3>2, <3>3, <3>4, <3>5, <3>6 DEF OutboxNext
  <2> QED
    BY <1>1, <2>1 DEF OutboxInv, Working, Owns, Typed
<1>2. OutboxInv /\ [OutboxNext]_outboxVars
        => [\A o \in Executors :
              pc'[o] = "sending" /\ pc[o] # "sending"
                => have[o] >= confirmed[item[o]]]_outboxVars
  BY <1>1
<1> QED
  BY <1>2, OutboxSound, PTL DEF OutboxSpec, RecordedIsNotResent

-----------------------------------------------------------------------------
(* The watched read: what is on a connection, as sequences *)

\* The elements of a sequence without its first.
LEMMA TailParts ==
  ASSUME NEW S, NEW s \in Seq(S), s # <<>>
  PROVE  /\ Len(s) \in Nat \ {0} /\ DOMAIN s = 1 .. Len(s)
         /\ 1 \in DOMAIN s /\ Head(s) = s[1] /\ Head(s) \in S
         /\ Tail(s) \in Seq(S) /\ Len(Tail(s)) = Len(s) - 1
         /\ DOMAIN Tail(s) = 1 .. Len(s) - 1
         /\ \A i \in DOMAIN Tail(s) : i + 1 \in DOMAIN s /\ Tail(s)[i] = s[i + 1]
<1>1. /\ Len(s) \in Nat \ {0} /\ DOMAIN s = 1 .. Len(s)
      /\ Tail(s) \in Seq(S) /\ Len(Tail(s)) = Len(s) - 1
      /\ \A i \in 1 .. Len(Tail(s)) : Tail(s)[i] = s[i + 1]
  BY HeadTailProperties, EmptySeq, LenProperties
<1>2. DOMAIN Tail(s) = 1 .. Len(s) - 1
  BY <1>1, LenProperties
<1>3. Head(s) = s[1]
  OBVIOUS
<1>4. Head(s) \in S
  BY HeadTailProperties
<1> QED
  BY <1>1, <1>2, <1>3, <1>4

\* The elements of two sequences put together.
LEMMA ConcatParts ==
  ASSUME NEW S, NEW s \in Seq(S), NEW t \in Seq(S)
  PROVE  /\ s \o t \in Seq(S) /\ Len(s \o t) = Len(s) + Len(t)
         /\ Len(s) \in Nat /\ Len(t) \in Nat
         /\ DOMAIN s = 1 .. Len(s) /\ DOMAIN t = 1 .. Len(t)
         /\ DOMAIN (s \o t) = 1 .. Len(s) + Len(t)
         /\ \A i \in DOMAIN s : i \in DOMAIN (s \o t) /\ (s \o t)[i] = s[i]
         /\ \A i \in DOMAIN t : /\ Len(s) + i \in DOMAIN (s \o t)
                                /\ (s \o t)[Len(s) + i] = t[i]
         /\ \A i \in DOMAIN (s \o t) :
              i \in DOMAIN s \/ \E j \in DOMAIN t : i = Len(s) + j
<1> DEFINE r == s \o t
<1>1. /\ r \in Seq(S) /\ Len(r) = Len(s) + Len(t)
      /\ Len(s) \in Nat /\ Len(t) \in Nat
      /\ DOMAIN s = 1 .. Len(s) /\ DOMAIN t = 1 .. Len(t)
      /\ \A i \in 1 .. Len(s) + Len(t) :
           r[i] = IF i <= Len(s) THEN s[i] ELSE t[i - Len(s)]
  BY ConcatProperties, LenProperties
<1> HIDE DEF r
<1>2. DOMAIN r = 1 .. Len(s) + Len(t)
  BY <1>1, LenProperties
<1>3. \A i \in DOMAIN s : i \in DOMAIN r /\ r[i] = s[i]
  BY <1>1, <1>2
<1>4. ASSUME NEW i \in DOMAIN t
      PROVE  Len(s) + i \in DOMAIN r /\ r[Len(s) + i] = t[i]
  <2>1. /\ Len(s) + i \in 1 .. Len(s) + Len(t) /\ ~(Len(s) + i <= Len(s))
        /\ (Len(s) + i) - Len(s) = i
    BY <1>1
  <2> QED
    BY <1>1, <1>2, <2>1
<1>5. ASSUME NEW i \in DOMAIN r
      PROVE  i \in DOMAIN s \/ \E j \in DOMAIN t : i = Len(s) + j
  <2>1. CASE i > Len(s)
    <3>1. i - Len(s) \in DOMAIN t /\ i = Len(s) + (i - Len(s))
      BY <1>1, <1>2, <2>1
    <3> QED
      BY <3>1
  <2> QED
    BY <1>1, <1>2, <2>1
<1> QED
  BY <1>1, <1>2, <1>3, <1>4, <1>5 DEF r

-----------------------------------------------------------------------------
(* The invariant of the watched read *)

Answered == Values \cup {Nothing}
Pasts == UNION {[R -> Values] : R \in SUBSET Nat}
Sources ==
  [revision : Nat, value : Answered, phase : WatchPhases \cup {"none"}, past : Pasts,
   subs : SUBSET Subscribers, base : [Subscribers -> Nat], reading : Answered,
   dirty : BOOLEAN, retry : BOOLEAN, releasing : BOOLEAN]
Entries ==
  [in : BOOLEAN, listening : BOOLEAN, revision : Nat, value : Answered, print : Answered,
   opened : BOOLEAN, answered : BOOLEAN, waiting : BOOLEAN, phase : WatchPhases,
   expiring : BOOLEAN]
ValueKinds == {"full", "delta", "unchanged"}
Requests ==
  [kind : {"open"}, have : {Nothing} \cup [revision : Nat, value : Answered]]
    \cup [kind : {"close"}]
Frames ==
  [kind : ValueKinds, revision : Nat, value : Answered, base : Nat, from : Answered]
    \cup [kind : {"state"}, phase : WatchPhases]
    \cup [kind : {"accepted", "refused"}]

ClientsTyped ==
  /\ connected \in [Clients -> BOOLEAN] /\ entry \in [Clients -> Entries]
  /\ up \in [Clients -> Seq(Requests)] /\ down \in [Clients -> Seq(Frames)]
  /\ \A c \in Clients : entry[c].listening => entry[c].in

WatchTyped ==
  /\ truth \in Values /\ closed \in BOOLEAN /\ source \in Sources
  /\ ClientsTyped

IsValue(f) == f.kind \in ValueKinds

\* No value is among the frames, no open among the requests.
NoValue(d) == \A i \in DOMAIN d : ~IsValue(d[i])
NoOpen(u) == \A i \in DOMAIN u : u[i].kind # "open"

\* The hub was asked by this client, and has not let go of it.
Asked(c) == up[c] # <<>> \/ Routed(c) \/ closed

\* What the client would show once it has read what is on its way.
WouldShowLive(e, d) ==
  \/ e.phase = "live" /\ \A i \in DOMAIN d : d[i].kind # "state"
  \/ \E i \in DOMAIN d : /\ d[i].kind = "state" /\ d[i].phase = "live"
                         /\ \A j \in DOMAIN d : d[j].kind = "state" => j <= i

\* What the source knows of itself.
Kept(s) ==
  /\ s = NoSource <=> s.phase = "none"
  /\ s.value = Nothing <=> s.revision = 0
  /\ \A m \in Subscribers : s.base[m] <= s.revision
  /\ DOMAIN s.past \subseteq 1 .. s.revision - 1
  /\ s.releasing => s.subs = {}
Awaits(s) ==
  /\ s.subs # {} /\ s.dirty => s.reading # Nothing \/ s.retry
  /\ s.retry => s.phase = "unavailable" /\ s.reading = Nothing
Current(s, answer) ==
  /\ s.reading # Nothing /\ ~s.dirty => s.reading = answer
  /\ s.phase = "live" /\ s.reading = Nothing /\ ~s.dirty => s.value = answer

SourceInv ==
  /\ Kept(source) /\ Awaits(source) /\ Current(source, truth)
  /\ closed => source = NoSource

\* A client and its connection.
Talk(c) ==
  /\ ~entry[c].in => entry[c] = NoEntry
  /\ ~connected[c] => /\ up[c] = <<>> /\ down[c] = <<>> /\ ~entry[c].opened
                      /\ ~Routed(c) /\ entry[c].phase # "live"
  /\ entry[c].in /\ up[c] # <<>> => up[c][Len(up[c])].kind = "open"
  /\ connected[c] /\ entry[c].in /\ ~Asked(c) =>
       ~entry[c].opened /\ down[c] = <<>> /\ entry[c].phase # "live"
  /\ entry[c].opened /\ ~NoOpen(up[c]) => entry[c].waiting

\* A confirmation on its way is of what the client holds.
Confirms(d, v) ==
  \A i \in DOMAIN d : d[i].kind = "unchanged" =>
    /\ \A j \in DOMAIN d : j < i => ~IsValue(d[j])
    /\ v \in {Nothing, d[i].value}
FirstOpen(u, i) == u[i].kind = "open" /\ \A j \in DOMAIN u : j < i => u[j].kind # "open"

\* The next open names what is held, once nothing of the earlier one can come.
Names(u, d, v) ==
  \A i \in DOMAIN u :
    FirstOpen(u, i) /\ u[i].have # Nothing => NoValue(d) /\ v \in {Nothing, u[i].have.value}

\* Nothing is held at the open that follows a close.
Reopens(u) ==
  \A i \in DOMAIN u, j \in DOMAIN u :
    /\ u[i].kind = "close" /\ u[j].kind = "open" /\ i < j
    /\ \A k \in DOMAIN u : i < k /\ k < j => u[k].kind # "open"
    => u[j].have = Nothing

Offer(c) ==
  /\ entry[c].print = entry[c].value
  /\ Confirms(down[c], entry[c].value)
  /\ ~Routed(c) /\ ~closed => Names(up[c], down[c], entry[c].value)
  /\ Reopens(up[c])

\* Revisions rise along a connection.
Agrees(r, v, s, w) == r <= s /\ (r = s => v = w)
Rises(d) ==
  \A i \in DOMAIN d, j \in DOMAIN d :
    IsValue(d[i]) /\ IsValue(d[j]) /\ i < j =>
      Agrees(d[i].revision, d[i].value, d[j].revision, d[j].value)
Behind(r, v, s) == s # NoSource /\ Agrees(r, v, s.revision, s.value)
Reach(d, s) == \A i \in DOMAIN d : IsValue(d[i]) => Behind(d[i].revision, d[i].value, s)
Newer(d, r, v) ==
  \A i \in DOMAIN d : IsValue(d[i]) => Agrees(r, v, d[i].revision, d[i].value)
Versions(c) ==
  /\ Rises(down[c])
  /\ ~closed => Reach(down[c], source)
  /\ connected[c] /\ entry[c].in /\ entry[c].answered /\ Asked(c) =>
       /\ Newer(down[c], entry[c].revision, entry[c].value)
       /\ ~closed => Behind(entry[c].revision, entry[c].value, source)

\* Whoever is routed has the newest value, or it is the last on the way.
NoClose(u) == \A i \in DOMAIN u : u[i].kind # "close"
EndsAt(d, r) ==
  \A i \in DOMAIN d :
    /\ IsValue(d[i])
    /\ \A j \in DOMAIN d : IsValue(d[j]) => j <= i
    => d[i].revision = r
Follows(c) ==
  /\ Routed(c) =>
       /\ EndsAt(down[c], source.revision)
       /\ source.value # Nothing /\ NoValue(down[c]) /\ entry[c].in /\ NoClose(up[c]) =>
            entry[c].revision = source.revision /\ entry[c].value = source.value
       /\ ~entry[c].in => ~NoClose(up[c])
  /\ ~entry[c].in /\ up[c] # <<>> => up[c][Len(up[c])].kind = "close"

\* Whoever is routed shows as live what is live; a closed hub refuses.
Phases(c) ==
  /\ Routed(c) /\ WouldShowLive(entry[c], down[c]) => source.phase = "live"
  /\ /\ closed /\ connected[c] /\ entry[c].opened /\ NoOpen(up[c])
     /\ WouldShowLive(entry[c], down[c])
     => entry[c].waiting /\ down[c] # <<>> /\ down[c][Len(down[c])].kind = "refused"

\* While the hub holds its sources.
Held(c) == Versions(c) /\ Follows(c) /\ Phases(c)

-----------------------------------------------------------------------------
(* What the source's helpers do *)

LEMMA PastIs ==
  ASSUME NEW p
  PROVE  p \in Pasts <=> /\ DOMAIN p \subseteq Nat /\ p = [r \in DOMAIN p |-> p[r]]
                         /\ \A r \in DOMAIN p : p[r] \in Values
<1>1. p \in Pasts <=> \E R \in SUBSET Nat : p \in [R -> Values]
  BY DEF Pasts
<1>2. ASSUME NEW R \in SUBSET Nat, p \in [R -> Values]
      PROVE  /\ DOMAIN p \subseteq Nat /\ p = [r \in DOMAIN p |-> p[r]]
             /\ \A r \in DOMAIN p : p[r] \in Values
  BY <1>2
<1>3. ASSUME DOMAIN p \subseteq Nat, p = [r \in DOMAIN p |-> p[r]],
             \A r \in DOMAIN p : p[r] \in Values
      PROVE  \E R \in SUBSET Nat : p \in [R -> Values]
  <2>1. p \in [DOMAIN p -> Values]
    BY <1>3
  <2> QED
    BY <1>3, <2>1
<1> QED
  BY <1>1, <1>2, <1>3

\* A new source: opening, at revision 0, with nobody and nothing on it.
LEMMA NewSourceIs ==
  /\ NewSource \in Sources /\ NoSource \in Sources /\ NewSource # NoSource
  /\ Kept(NewSource) /\ Kept(NoSource)
  /\ NoSource.phase = "none" /\ NoSource.subs = {} /\ NoSource.revision = 0
  /\ NoSource.value = Nothing /\ NoSource.reading = Nothing /\ ~NoSource.dirty
  /\ ~NoSource.retry /\ ~NoSource.releasing
<1>1. <<>> \in Pasts /\ DOMAIN <<>> = {}
  <2>1. <<>> = [r \in {} |-> <<>>[r]] /\ DOMAIN <<>> = {}
    OBVIOUS
  <2> QED
    BY <2>1, PastIs
<1>2. NewSource \in Sources
  BY <1>1 DEF NewSource, Sources, Answered, WatchPhases
<1>3. /\ NoSource \in Sources /\ NoSource.phase = "none" /\ NoSource.subs = {}
      /\ NoSource.revision = 0 /\ NoSource.value = Nothing /\ NoSource.reading = Nothing
      /\ ~NoSource.dirty /\ ~NoSource.retry /\ ~NoSource.releasing
      /\ NoSource.past = <<>> /\ \A m \in Subscribers : NoSource.base[m] = 0
  BY <1>1 DEF NoSource, NewSource, Sources, Answered, WatchPhases
<1>4. NewSource.phase = "opening" /\ NewSource # NoSource
  BY <1>3 DEF NewSource
<1>5. Kept(NoSource)
  BY <1>1, <1>3 DEF Kept
<1>6. Kept(NewSource)
  BY <1>1, <1>4 DEF Kept, NewSource
<1> QED
  BY <1>2, <1>3, <1>4, <1>5, <1>6

\* A read starts when one is due and can be made: then nobody waits for nothing.
LEMMA PumpIs ==
  ASSUME NEW s \in Sources, NEW answer \in Values, Kept(s),
         s.retry => s.phase = "unavailable" /\ s.reading = Nothing
  PROVE  /\ Pump(s, answer) \in Sources /\ Kept(Pump(s, answer)) /\ Awaits(Pump(s, answer))
         /\ s.dirty \/ Current(s, answer) => Current(Pump(s, answer), answer)
         /\ Pump(s, answer).revision = s.revision /\ Pump(s, answer).value = s.value
         /\ Pump(s, answer).phase = s.phase /\ Pump(s, answer).subs = s.subs
         /\ Pump(s, answer) = NoSource <=> s = NoSource
<1> DEFINE p == Pump(s, answer)
<1>1. CASE s.dirty /\ s.reading = Nothing /\ ~s.retry /\ s.subs # {}
  <2>1. p = [s EXCEPT !.dirty = FALSE, !.reading = answer]
    BY <1>1 DEF Pump
  <2> HIDE DEF p
  <2>2. /\ p \in Sources /\ p.revision = s.revision /\ p.value = s.value
        /\ p.phase = s.phase /\ p.subs = s.subs /\ p.base = s.base /\ p.past = s.past
        /\ p.dirty = FALSE /\ p.reading = answer /\ p.retry = s.retry
        /\ p.releasing = s.releasing
    BY <2>1 DEF Sources, Answered
  <2>3. s # NoSource /\ p # NoSource
    BY <1>1, <2>2, NewSourceIs
  <2>4. Kept(p)
    BY <2>2, <2>3 DEF Kept
  <2>5. answer # Nothing
    BY WatchAssumption
  <2>6. Awaits(p) /\ Current(p, answer)
    BY <1>1, <2>2, <2>5 DEF Awaits, Current
  <2> QED
    BY <2>2, <2>3, <2>4, <2>6 DEF p
<1>2. CASE ~(s.dirty /\ s.reading = Nothing /\ ~s.retry /\ s.subs # {})
  <2>1. p = s
    BY <1>2 DEF Pump
  <2>2. Awaits(s)
    BY <1>2 DEF Awaits
  <2>3. s.dirty => Current(s, answer)
    BY DEF Current
  <2> QED
    BY <2>1, <2>2, <2>3
<1> QED
  BY <1>1, <1>2

\* Whoever leaves, the source is the same to those who stay.
LEMMA LeftIs ==
  ASSUME NEW s \in Sources, NEW m \in s.subs, NEW answer \in Values,
         Kept(s), Awaits(s), Current(s, answer)
  PROVE  /\ Left(s, m) \in Sources /\ Kept(Left(s, m)) /\ Awaits(Left(s, m))
         /\ Current(Left(s, m), answer)
         /\ Left(s, m).subs = s.subs \ {m} /\ s # NoSource
         /\ Left(s, m) = NoSource => ~Hold /\ s.subs = {m}
         /\ Left(s, m) # NoSource => /\ Left(s, m).revision = s.revision
                                     /\ Left(s, m).value = s.value
                                     /\ Left(s, m).phase = s.phase
<1> DEFINE rest == [s EXCEPT !.subs = @ \ {m}, !.base[m] = 0]
           gone == [rest EXCEPT !.retry = FALSE, !.releasing = TRUE]
           l == Left(s, m)
<1>0. /\ s.subs \subseteq Subscribers /\ s # NoSource
      /\ s.base \in [Subscribers -> Nat] /\ s.revision \in Nat
      /\ NoSource.phase = "none" /\ NoSource.subs = {} /\ s.phase # "none"
  BY NewSourceIs DEF Sources, Kept
<1>1. /\ rest \in Sources /\ rest.subs = s.subs \ {m} /\ rest.base = [s.base EXCEPT ![m] = 0]
      /\ rest.revision = s.revision /\ rest.value = s.value /\ rest.phase = s.phase
      /\ rest.past = s.past /\ rest.reading = s.reading /\ rest.dirty = s.dirty
      /\ rest.retry = s.retry /\ rest.releasing = s.releasing
  BY <1>0 DEF Sources
<1>2. \A n \in Subscribers : rest.base[n] <= s.revision
  BY <1>0, <1>1 DEF Kept
<1> HIDE DEF rest
<1>3. /\ gone \in Sources /\ gone.subs = rest.subs /\ gone.base = rest.base
      /\ gone.revision = rest.revision /\ gone.value = rest.value /\ gone.phase = rest.phase
      /\ gone.past = rest.past /\ gone.reading = rest.reading /\ gone.dirty = rest.dirty
      /\ gone.retry = FALSE /\ gone.releasing = TRUE
  BY <1>1 DEF Sources
<1> HIDE DEF gone
<1>4. l = IF rest.subs # {} THEN rest
          ELSE IF ~Hold /\ rest.reading = Nothing THEN NoSource ELSE gone
  BY DEF Left, rest, gone
<1> HIDE DEF l
<1>5. CASE rest.subs # {}
  <2>1. l = rest /\ rest # NoSource
    BY <1>0, <1>1, <1>4, <1>5
  <2>2. Kept(rest)
    BY <1>0, <1>1, <1>2, <1>5, <2>1 DEF Kept
  <2>3. Awaits(rest) /\ Current(rest, answer)
    BY <1>0, <1>1 DEF Awaits, Current
  <2> QED
    BY <1>0, <1>1, <2>1, <2>2, <2>3 DEF l
<1>6. CASE rest.subs = {} /\ ~Hold /\ rest.reading = Nothing
  <2>1. l = NoSource /\ s.subs = {m}
    BY <1>1, <1>4, <1>6
  <2>2. Awaits(NoSource) /\ Current(NoSource, answer)
    BY NewSourceIs DEF Awaits, Current
  <2> QED
    BY <1>0, <1>1, <1>6, <2>1, <2>2, NewSourceIs DEF l
<1>7. CASE rest.subs = {} /\ ~(~Hold /\ rest.reading = Nothing)
  <2>1. l = gone /\ gone # NoSource
    BY <1>0, <1>1, <1>3, <1>4, <1>7
  <2>2. Kept(gone)
    BY <1>0, <1>1, <1>2, <1>3, <1>7, <2>1 DEF Kept
  <2>3. Awaits(gone) /\ Current(gone, answer)
    BY <1>0, <1>1, <1>3, <1>7 DEF Awaits, Current
  <2> QED
    BY <1>0, <1>1, <1>3, <2>1, <2>2, <2>3 DEF l
<1> QED
  BY <1>5, <1>6, <1>7

\* A frame carries the value and the revision of the source, and confirms only
\* to whom it counts as up to date.
LEMMA FrameIs ==
  ASSUME NEW s \in Sources, NEW m \in Subscribers
  PROVE  /\ FrameFor(s, m) \in Frames /\ IsValue(FrameFor(s, m))
         /\ FrameFor(s, m).revision = s.revision /\ FrameFor(s, m).value = s.value
         /\ FrameFor(s, m).kind = "unchanged" => s.base[m] = s.revision /\ s.base[m] # 0
<1> DEFINE f == FrameFor(s, m)
           Is(x) == /\ x \in Frames /\ IsValue(x)
                    /\ x.revision = s.revision /\ x.value = s.value
<1>1. /\ s.revision \in Nat /\ s.value \in Answered /\ s.base[m] \in Nat /\ s.past \in Pasts
      /\ Nothing \in Answered
  BY DEF Sources, Answered
<1>2. ASSUME NEW kind \in ValueKinds
      PROVE  Is(ValueFrame(s, kind)) /\ ValueFrame(s, kind).kind = kind
  BY <1>1, <1>2 DEF ValueFrame, Frames, IsValue
<1>3. CASE s.base[m] = 0
  <2>1. f = ValueFrame(s, "full")
    BY <1>3 DEF FrameFor
  <2> HIDE DEF f
  <2>2. Is(f) /\ f.kind = "full"
    BY <1>2, <2>1 DEF ValueKinds
  <2> QED
    BY <2>2 DEF f
<1>4. CASE s.base[m] # 0 /\ s.base[m] = s.revision
  <2>1. f = ValueFrame(s, "unchanged")
    BY <1>4 DEF FrameFor
  <2> HIDE DEF f
  <2>2. Is(f)
    BY <1>2, <2>1 DEF ValueKinds
  <2> QED
    BY <1>4, <2>2 DEF f
<1>5. CASE /\ s.base[m] # 0 /\ s.base[m] # s.revision
           /\ s.base[m] \in DOMAIN s.past /\ <<s.past[s.base[m]], s.value>> \in Smaller
  <2> DEFINE v == ValueFrame(s, "delta")
  <2>1. f = [v EXCEPT !.base = s.base[m], !.from = s.past[s.base[m]]]
    BY <1>5 DEF FrameFor
  <2>2. v \in [kind : ValueKinds, revision : Nat, value : Answered, base : Nat, from : Answered]
        /\ v.revision = s.revision /\ v.value = s.value /\ v.kind = "delta"
    BY <1>1 DEF ValueFrame, ValueKinds
  <2>3. s.past[s.base[m]] \in Answered
    BY <1>1, <1>5, PastIs DEF Answered
  <2> HIDE DEF v, f
  <2>4. Is(f) /\ f.kind = "delta"
    BY <1>1, <2>1, <2>2, <2>3 DEF Frames, IsValue, ValueKinds
  <2> QED
    BY <2>4 DEF f
<1>6. CASE /\ s.base[m] # 0 /\ s.base[m] # s.revision
           /\ ~(s.base[m] \in DOMAIN s.past /\ <<s.past[s.base[m]], s.value>> \in Smaller)
  <2>1. f = ValueFrame(s, "full")
    BY <1>6 DEF FrameFor
  <2> HIDE DEF f
  <2>2. Is(f) /\ f.kind = "full"
    BY <1>2, <2>1 DEF ValueKinds
  <2> QED
    BY <2>2 DEF f
<1> QED
  BY <1>3, <1>4, <1>5, <1>6

\* A finite set of numbers that is not empty has a least one.
LEMMA LeastIs ==
  ASSUME NEW S \in SUBSET Nat, IsFiniteSet(S), S # {}
  PROVE  \E x \in S : \A y \in S : x <= y
<1> DEFINE Lower(x) == {y \in S : y < x}
           T == {Lower(x) : x \in S}
           R == StrictSubsetOrdering(S)
<1>1. IsWellFoundedOn(R, SUBSET S)
  BY FS_StrictSubsetOrderingWellFounded, FS_FiniteSubsetsOfFinite
<1>2. T \subseteq SUBSET S /\ T # {}
  OBVIOUS
<1>3. PICK A \in T : \A B \in T : <<B, A>> \notin R
  <2> HIDE DEF T, R
  <2> QED
    BY <1>1, <1>2, WFMin
<1>4. PICK x \in S : A = Lower(x)
  BY <1>3
<1>5. ASSUME NEW y \in S, y < x PROVE FALSE
  <2>1. y \in A /\ y \notin Lower(y) /\ Lower(y) \in T
    BY <1>4, <1>5
  <2>2. \A z \in S : z < y => z < x
    BY <1>5
  <2>3. Lower(y) \subseteq A /\ Lower(y) \in SUBSET S /\ A \in SUBSET S
    BY <1>4, <2>2
  <2> HIDE DEF Lower, T
  <2>4. <<Lower(y), A>> \in R
    BY <2>1, <2>3 DEF StrictSubsetOrdering
  <2> QED
    BY <1>3, <2>1, <2>4
<1> QED
  BY <1>5

\* The hub counts a client as up to date only on the value the client names.
LEMMA AdoptedIs ==
  ASSUME NEW s \in Sources, NEW held, Kept(s), s.value # Nothing
  PROVE  /\ Adopted(s, held) \in 0 .. s.revision
         /\ Adopted(s, held) = s.revision => s.value = held.value
<1> DEFINE matching == {r \in DOMAIN s.past : s.past[r] = held.value}
<1>1. /\ s.revision \in Nat /\ s.revision # 0
      /\ DOMAIN s.past \subseteq 1 .. s.revision - 1
  BY DEF Sources, Kept
<1>2. /\ matching \subseteq 1 .. s.revision - 1 /\ matching \in SUBSET Nat
      /\ IsFiniteSet(matching)
  <2>1. IsFiniteSet(1 .. s.revision - 1)
    BY <1>1, FS_Interval
  <2> QED
    BY <1>1, <2>1, FS_Subset
<1>3. matching # {} => (CHOOSE r \in matching : \A q \in matching : r <= q) \in matching
  <2> HIDE DEF matching
  <2> QED
    BY <1>2, LeastIs
<1>4. Adopted(s, held) = IF s.value = held.value THEN s.revision
                         ELSE IF held.revision \in matching THEN held.revision
                         ELSE IF matching = {} THEN 0
                         ELSE CHOOSE r \in matching : \A q \in matching : r <= q
  BY DEF Adopted
<1> HIDE DEF matching
<1>5. s.value = held.value \/ Adopted(s, held) \in matching \/ Adopted(s, held) = 0
  BY <1>3, <1>4
<1>6. s.value = held.value => Adopted(s, held) = s.revision
  BY <1>4
<1> DEFINE x == Adopted(s, held)
<1> HIDE DEF x
<1>7. x \in matching => x \in 0 .. s.revision /\ x # s.revision
  BY <1>1, <1>2
<1>8. /\ s.value = held.value \/ x \in matching \/ x = 0
      /\ s.value = held.value => x = s.revision
  BY <1>5, <1>6 DEF x
<1>9. x \in 0 .. s.revision /\ (x = s.revision => s.value = held.value)
  BY <1>1, <1>7, <1>8
<1> QED
  BY <1>9 DEF x

\* Only values of earlier revisions are remembered.
LEMMA RememberIs ==
  ASSUME NEW s \in Sources, Kept(s)
  PROVE  Remember(s) \in Pasts /\ DOMAIN Remember(s) \subseteq 1 .. s.revision
<1>1. /\ s.revision \in Nat /\ s.past \in Pasts /\ s.value \in Answered
      /\ DOMAIN s.past \subseteq 1 .. s.revision - 1
      /\ s.value = Nothing <=> s.revision = 0
  BY DEF Sources, Kept
<1>2. CASE s.value = Nothing
  BY <1>1, <1>2 DEF Remember
<1>3. CASE s.value # Nothing
  <2> DEFINE R == {q \in DOMAIN s.past \cup {s.revision} : q + Remembered > s.revision}
             p == [r \in R |-> IF r = s.revision THEN s.value ELSE s.past[r]]
  <2>1. Remember(s) = p
    BY <1>3 DEF Remember
  <2>2. R \subseteq 1 .. s.revision
    BY <1>1, <1>3
  <2>3. ASSUME NEW r \in R  PROVE p[r] \in Values
    BY <1>1, <1>3, PastIs DEF Answered
  <2>4. p = [r \in DOMAIN p |-> p[r]] /\ DOMAIN p = R
    OBVIOUS
  <2> HIDE DEF p, R
  <2>5. DOMAIN p \subseteq Nat /\ \A r \in DOMAIN p : p[r] \in Values
    BY <1>1, <2>2, <2>3, <2>4
  <2>6. p \in Pasts
    BY <2>4, <2>5, PastIs
  <2> QED
    BY <2>1, <2>2, <2>4, <2>6
<1> QED
  BY <1>2, <1>3

-----------------------------------------------------------------------------
(* What a step of the source is to those who watch *)

\* The value a newcomer is served, if there is one, comes first and is what the
\* source knows; it is confirmed only to a client that names it.
Serves(t, s, c) ==
  /\ t # <<>> /\ t[Len(t)].kind = "accepted"
  /\ \A i \in DOMAIN t : IsValue(t[i]) =>
       /\ i = 1 /\ s.value # Nothing
       /\ t[i].revision = s.revision /\ t[i].value = s.value
       /\ t[i].kind = "unchanged" =>
            up[c][1].have # Nothing /\ up[c][1].have.value = s.value
  /\ s.value # Nothing => 1 \in DOMAIN t /\ IsValue(t[1])
  /\ \A i \in DOMAIN t : t[i].kind = "state" => t[i].phase = s.phase
  /\ \E i \in DOMAIN t : t[i].kind = "state"

\* An answer to an open: the value or nothing, the state and the acknowledgement.
LEMMA ServedIs ==
  ASSUME NEW s \in Sources, NEW c \in Clients, NEW f \in Frames, s.phase \in WatchPhases,
         s.value # Nothing =>
           /\ IsValue(f) /\ f.revision = s.revision /\ f.value = s.value
           /\ f.kind = "unchanged" => up[c][1].have # Nothing /\ up[c][1].have.value = s.value,
         NEW t, t = (IF s.value = Nothing THEN <<>> ELSE <<f>>)
                      \o <<StateFrame(s.phase), [kind |-> "accepted"]>>
  PROVE  t \in Seq(Frames) /\ Serves(t, s, c)
<1> DEFINE g == StateFrame(s.phase)
           h == [kind |-> "accepted"]
<1>1. /\ g \in Frames /\ g.kind = "state" /\ g.phase = s.phase /\ ~IsValue(g)
      /\ h \in Frames /\ h.kind = "accepted" /\ ~IsValue(h)
  BY DEF StateFrame, Frames, IsValue, ValueKinds
<1>2. t = IF s.value = Nothing THEN <<g, h>> ELSE <<f, g, h>>
  OBVIOUS
<1>3. s.value # Nothing => f.kind # "state"
  BY DEF IsValue, ValueKinds
<1> HIDE DEF g, h
<1>4. CASE s.value = Nothing
  <2>1. t \in Seq(Frames) /\ t # <<>> /\ Len(t) = 2 /\ DOMAIN t = 1 .. 2
        /\ t[1] = g /\ t[2] = h
    BY <1>1, <1>2, <1>4
  <2> HIDE DEF Serves
  <2> QED
    BY <1>1, <1>4, <2>1 DEF Serves
<1>5. CASE s.value # Nothing
  <2>1. t \in Seq(Frames) /\ t # <<>> /\ Len(t) = 3 /\ DOMAIN t = 1 .. 3
        /\ t[1] = f /\ t[2] = g /\ t[3] = h
    BY <1>1, <1>2, <1>5
  <2> QED
    BY <1>1, <1>3, <1>5, <2>1 DEF Serves
<1> QED
  BY <1>4, <1>5

\* What every step may rely on.
Sound == WatchTyped /\ SourceInv

\* An open that is answered: what becomes of the source and what is sent.
LEMMA HubServes ==
  ASSUME Sound, NEW c \in Clients, HubOpens(c), ~closed, ~Routed(c)
  PROVE  /\ source' \in Sources /\ source' # NoSource
         /\ Kept(source') /\ Awaits(source') /\ Current(source', truth)
         /\ source'.subs = source.subs \cup {Now(c)}
         /\ source'.revision = source.revision /\ source'.value = source.value
         /\ source # NoSource => source'.phase = source.phase
         /\ \E t \in Seq(Frames) : Serves(t, source', c) /\ down' = [down EXCEPT ![c] = @ \o t]
<1> DEFINE held == Head(up[c]).have
           found == IF source = NoSource THEN NewSource ELSE [source EXCEPT !.releasing = FALSE]
           b == IF held = Nothing \/ found.value = Nothing THEN 0 ELSE Adopted(found, held)
           joined == [found EXCEPT !.subs = @ \cup {Now(c)}, !.base[Now(c)] = b]
           served == [joined EXCEPT !.base[Now(c)] = found.revision]
           f == FrameFor(joined, Now(c))
           t == (IF found.value = Nothing THEN <<>> ELSE <<f>>)
                  \o <<StateFrame(found.phase), [kind |-> "accepted"]>>
<1>1. /\ down' = [down EXCEPT ![c] = @ \o t]
      /\ source' = IF NeedsNoRead(found) THEN served ELSE Trigger(served, truth)
      /\ up[c] # <<>>
  BY DEF HubOpens, Answers, Hears
<1>2. /\ found \in Sources /\ found # NoSource /\ Kept(found) /\ Awaits(found)
      /\ Current(found, truth) /\ found.releasing = FALSE /\ found.subs = source.subs
      /\ found.revision = source.revision /\ found.value = source.value
      /\ source # NoSource => found.phase = source.phase
      /\ found.phase \in WatchPhases
  <2>1. CASE source = NoSource
    <3>1. found = NewSource
      BY <2>1
    <3>2. Awaits(NewSource) /\ Current(NewSource, truth)
      BY DEF Awaits, Current, NewSource
    <3>3. /\ NewSource.releasing = FALSE /\ NewSource.subs = {} /\ NewSource.revision = 0
          /\ NewSource.value = Nothing /\ NewSource.phase \in WatchPhases
      BY DEF NewSource, WatchPhases
    <3> HIDE DEF found
    <3> QED
      BY <2>1, <3>1, <3>2, <3>3, NewSourceIs
  <2>2. CASE source # NoSource
    <3>1. found = [source EXCEPT !.releasing = FALSE]
      BY <2>2
    <3> HIDE DEF found
    <3>2. /\ found \in Sources /\ found.releasing = FALSE /\ found.subs = source.subs
          /\ found.revision = source.revision /\ found.value = source.value
          /\ found.phase = source.phase /\ found.base = source.base /\ found.past = source.past
          /\ found.reading = source.reading /\ found.dirty = source.dirty
          /\ found.retry = source.retry
      BY <3>1 DEF Sound, WatchTyped, Sources
    <3>3. found # NoSource /\ found.phase # "none"
      BY <2>2, <3>2, NewSourceIs DEF Sound, SourceInv, Kept
    <3>4. Kept(found) /\ Awaits(found) /\ Current(found, truth)
      BY <2>2, <3>2, <3>3 DEF Sound, SourceInv, Kept, Awaits, Current
    <3>5. found.phase \in WatchPhases
      BY <3>2, <3>3 DEF Sources
    <3> QED
      BY <3>2, <3>3, <3>4, <3>5
  <2> QED
    BY <2>1, <2>2
<1> HIDE DEF found
<1>3. /\ found.base \in [Subscribers -> Nat] /\ Now(c) \in Subscribers
      /\ found.subs \subseteq Subscribers /\ found.revision \in Nat
      /\ \A m \in Subscribers : found.base[m] <= found.revision
  BY <1>2 DEF Sources, Now, Subscribers, Kept
<1>4. b \in 0 .. found.revision /\ (b = found.revision /\ b # 0 =>
        held # Nothing /\ found.value # Nothing /\ held.value = found.value)
  <2> HIDE DEF held
  <2> QED
    BY <1>2, <1>3, AdoptedIs
<1> HIDE DEF b
<1>5. /\ joined \in Sources /\ joined.subs = found.subs \cup {Now(c)}
      /\ joined.base = [found.base EXCEPT ![Now(c)] = b]
      /\ joined.revision = found.revision /\ joined.value = found.value
      /\ joined.phase = found.phase /\ joined.past = found.past
      /\ joined.reading = found.reading /\ joined.dirty = found.dirty
      /\ joined.retry = found.retry /\ joined.releasing = found.releasing
  <2>1. /\ found \in Sources /\ found.subs \cup {Now(c)} \in SUBSET Subscribers
        /\ [found.base EXCEPT ![Now(c)] = b] \in [Subscribers -> Nat]
    BY <1>2, <1>3, <1>4
  <2> QED
    BY <2>1 DEF Sources
<1> HIDE DEF joined
<1>6. /\ served \in Sources /\ served.subs = joined.subs
      /\ served.base = [joined.base EXCEPT ![Now(c)] = found.revision]
      /\ served.revision = joined.revision /\ served.value = joined.value
      /\ served.phase = joined.phase /\ served.past = joined.past
      /\ served.reading = joined.reading /\ served.dirty = joined.dirty
      /\ served.retry = joined.retry /\ served.releasing = joined.releasing
  BY <1>3, <1>5 DEF Sources
<1> HIDE DEF served
<1>7. \A m \in Subscribers : served.base[m] <= found.revision
  BY <1>3, <1>5, <1>6
<1>8. served # NoSource /\ served.phase # "none"
  BY <1>2, <1>5, <1>6, NewSourceIs DEF Kept
<1>9. Kept(served)
  BY <1>2, <1>5, <1>6, <1>7, <1>8 DEF Kept
<1>10. /\ source' \in Sources /\ source' # NoSource
       /\ Kept(source') /\ Awaits(source') /\ Current(source', truth)
       /\ source'.subs = served.subs /\ source'.phase = served.phase
       /\ source'.revision = served.revision /\ source'.value = served.value
  <2>1. CASE NeedsNoRead(found)
    <3>1. source' = served
      BY <1>1, <2>1
    <3>2. Awaits(served) /\ Current(served, truth)
      BY <1>2, <1>5, <1>6, <2>1 DEF Awaits, Current, NeedsNoRead
    <3> QED
      BY <1>6, <1>8, <1>9, <3>1, <3>2
  <2>2. CASE ~NeedsNoRead(found)
    <3> DEFINE stale == [served EXCEPT !.dirty = TRUE]
    <3>1. source' = Pump(stale, truth)
      BY <1>1, <2>2 DEF Trigger
    <3>2. /\ stale \in Sources /\ stale.subs = served.subs /\ stale.base = served.base
          /\ stale.revision = served.revision /\ stale.value = served.value
          /\ stale.phase = served.phase /\ stale.past = served.past
          /\ stale.reading = served.reading /\ stale.dirty = TRUE
          /\ stale.retry = served.retry /\ stale.releasing = served.releasing
      BY <1>6 DEF Sources
    <3> HIDE DEF stale
    <3>3. stale # NoSource
      BY <1>8, <3>2, NewSourceIs
    <3>4. Kept(stale)
      BY <1>8, <1>9, <3>2, <3>3 DEF Kept
    <3>5. stale.retry => stale.phase = "unavailable" /\ stale.reading = Nothing
      BY <1>2, <1>5, <1>6, <3>2 DEF Awaits
    <3>6. truth \in Values
      BY DEF Sound, WatchTyped
    <3> QED
      BY <3>1, <3>2, <3>3, <3>4, <3>5, <3>6, PumpIs
  <2> QED
    BY <2>1, <2>2
<1>11. t \in Seq(Frames) /\ Serves(t, found, c)
  <2>1. /\ f \in Frames /\ IsValue(f) /\ f.revision = found.revision /\ f.value = found.value
        /\ f.kind = "unchanged" => b = found.revision /\ b # 0
    BY <1>3, <1>5, FrameIs
  <2>2. held = up[c][1].have
    <3>1. up[c] \in Seq(Requests) /\ up[c] # <<>>
      BY <1>1 DEF Sound, WatchTyped, ClientsTyped
    <3> QED
      BY <3>1, TailParts
  <2> HIDE DEF f, held
  <2> QED
    BY <1>2, <1>4, <2>1, <2>2, ServedIs
<1>12. Serves(t, source', c)
  <2> HIDE DEF t
  <2>1. /\ source'.value = found.value /\ source'.revision = found.revision
        /\ source'.phase = found.phase
    BY <1>5, <1>6, <1>10
  <2> QED
    BY <1>11, <2>1 DEF Serves
<1> HIDE DEF t
<1> QED
  BY <1>1, <1>2, <1>5, <1>6, <1>10, <1>11, <1>12

\* One frame after another is a sequence of two.
LEMMA PairIs ==
  ASSUME NEW x, NEW y
  PROVE  <<x>> \o <<y>> = <<x, y>>
<1> DEFINE S == {x, y}
           s == <<x>>
           t == <<y>>
           r == <<x, y>>
<1>1. s \in Seq(S) /\ Len(s) = 1 /\ s[1] = x /\ t \in Seq(S) /\ Len(t) = 1 /\ t[1] = y
  OBVIOUS
<1>2. r \in Seq(S) /\ Len(r) = 2 /\ r[1] = x /\ r[2] = y
  OBVIOUS
<1> HIDE DEF S, s, t, r
<1>3. /\ s \o t \in Seq(S) /\ Len(s \o t) = 2 /\ DOMAIN s = 1 .. 1 /\ DOMAIN t = 1 .. 1
      /\ \A i \in DOMAIN s : (s \o t)[i] = s[i]
      /\ \A i \in DOMAIN t : (s \o t)[1 + i] = t[i]
  BY <1>1, ConcatParts
<1>4. \A i \in 1 .. Len(r) : r[i] = (s \o t)[i]
  <2>1. (s \o t)[1] = x /\ (s \o t)[1 + 1] = y /\ 1 + 1 = 2
    BY <1>1, <1>3
  <2> DEFINE st == s \o t
  <2>2. st[1] = x /\ st[2] = y
    BY <2>1
  <2> HIDE DEF st
  <2>3. \A i \in 1 .. Len(r) : i = 1 \/ i = 2
    BY <1>2
  <2>4. \A i \in 1 .. Len(r) : r[i] = st[i]
    BY <1>2, <2>2, <2>3
  <2> QED
    BY <2>4 DEF st
<1>5. s \o t = r
  BY <1>2, <1>3, <1>4, SeqEqual
<1> QED
  BY <1>5 DEF s, t, r

\* What a read brings: the value if it changed, first, and that the source is live.
Brings(t, s, earlier) ==
  /\ \A i \in DOMAIN t : IsValue(t[i]) =>
       /\ i = 1 /\ s.revision # earlier /\ t[i].kind # "unchanged"
       /\ t[i].revision = s.revision /\ t[i].value = s.value
  /\ s.revision # earlier => 1 \in DOMAIN t /\ IsValue(t[1])
  /\ \A i \in DOMAIN t : t[i].kind = "state" => t[i].phase = "live"

\* A read that ends: what becomes of the source and what every subscriber is sent.
LEMMA HubReads ==
  ASSUME Sound, ReadEnds
  PROVE  /\ source' \in Sources /\ source' # NoSource /\ source # NoSource
         /\ Kept(source') /\ Awaits(source') /\ Current(source', truth)
         /\ source'.subs = source.subs /\ source'.phase = "live"
         /\ source'.revision \in {source.revision, source.revision + 1}
         /\ source'.revision = source.revision => source'.value = source.value
         /\ \A c \in Clients : \E t \in Seq(Frames) :
              /\ Brings(t, source', source.revision)
              /\ down'[c] = IF Routed(c) THEN down[c] \o t ELSE down[c]
<1>1. PICK answer \in {source.reading, truth} :
         LET changed == answer # source.value
             moved == IF ~changed THEN source
                      ELSE [source EXCEPT !.past = Remember(source),
                                          !.revision = @ + 1, !.value = answer]
             values(c) == IF changed THEN <<FrameFor(moved, Now(c))>> ELSE <<>>
             states(c) == IF source.phase # "live" THEN <<StateFrame("live")>> ELSE <<>>
             sent == [moved EXCEPT !.phase = "live", !.reading = Nothing,
                        !.base = [m \in Subscribers |->
                                    IF changed /\ m \in source.subs THEN moved.revision ELSE @[m]]]
         IN
         /\ down' = Told(source, [c \in Clients |-> values(c) \o states(c)])
         /\ source' = Pump(sent, truth)
  BY DEF ReadEnds
<1> DEFINE changed == answer # source.value
           moved == IF ~changed THEN source
                    ELSE [source EXCEPT !.past = Remember(source),
                                        !.revision = @ + 1, !.value = answer]
           base == [m \in Subscribers |->
                      IF changed /\ m \in source.subs THEN moved.revision ELSE moved.base[m]]
           sent == [moved EXCEPT !.phase = "live", !.reading = Nothing, !.base = base]
           t(c) == (IF changed THEN <<FrameFor(moved, Now(c))>> ELSE <<>>)
                     \o (IF source.phase # "live" THEN <<StateFrame("live")>> ELSE <<>>)
<1>2. /\ \A c \in Clients : down'[c] = IF Routed(c) THEN down[c] \o t(c) ELSE down[c]
      /\ source' = Pump(sent, truth)
  BY <1>1 DEF Told, Routed
<1>3. /\ source \in Sources /\ source # NoSource /\ source.reading # Nothing
      /\ Kept(source) /\ Awaits(source) /\ Current(source, truth)
      /\ truth \in Values /\ answer \in Values /\ Nothing \notin Values
      /\ source.retry = FALSE /\ source.phase # "none"
  BY <1>1, WatchAssumption, NewSourceIs
  DEF ReadEnds, Sound, SourceInv, WatchTyped, Awaits, Kept, Sources, Answered
<1>4. /\ source.revision \in Nat /\ source.base \in [Subscribers -> Nat]
      /\ \A m \in Subscribers : source.base[m] <= source.revision
      /\ Remember(source) \in Pasts /\ DOMAIN Remember(source) \subseteq 1 .. source.revision
  BY <1>3, RememberIs DEF Sources, Kept
<1>5. /\ moved \in Sources /\ moved.value = answer
      /\ moved.revision = IF changed THEN source.revision + 1 ELSE source.revision
      /\ moved.past = IF changed THEN Remember(source) ELSE source.past
      /\ moved.phase = source.phase /\ moved.subs = source.subs /\ moved.base = source.base
      /\ moved.reading = source.reading /\ moved.dirty = source.dirty
      /\ moved.retry = source.retry /\ moved.releasing = source.releasing
  <2>1. CASE changed
    <3>1. moved = [source EXCEPT !.past = Remember(source),
                                 !.revision = @ + 1, !.value = answer]
      BY <2>1
    <3>2. source.revision + 1 \in Nat /\ answer \in Answered
      BY <1>3, <1>4 DEF Answered
    <3> HIDE DEF moved
    <3> QED
      BY <1>3, <1>4, <2>1, <3>1, <3>2 DEF Sources
  <2>2. CASE ~changed
    BY <1>3, <2>2
  <2> QED
    BY <2>1, <2>2
<1> HIDE DEF moved
<1>6. /\ base \in [Subscribers -> Nat] /\ moved.revision \in Nat
      /\ \A m \in Subscribers : base[m] <= moved.revision
  <2>1. moved.revision \in Nat /\ source.revision <= moved.revision
    BY <1>4, <1>5
  <2>2. \A m \in Subscribers : moved.base[m] \in Nat /\ moved.base[m] <= moved.revision
    BY <1>4, <1>5, <2>1
  <2> HIDE DEF changed
  <2> QED
    BY <2>1, <2>2
<1> HIDE DEF base
<1>7. /\ sent \in Sources /\ sent.base = base /\ sent.phase = "live" /\ sent.reading = Nothing
      /\ sent.revision = moved.revision /\ sent.value = answer /\ sent.past = moved.past
      /\ sent.subs = source.subs /\ sent.dirty = source.dirty
      /\ sent.retry = FALSE /\ sent.releasing = source.releasing
  BY <1>3, <1>5, <1>6 DEF Sources, Answered, WatchPhases
<1> HIDE DEF sent
<1>8. Kept(sent) /\ sent # NoSource
  <2>1. sent # NoSource
    BY <1>7, NewSourceIs
  <2>2. answer # Nothing /\ sent.revision # 0
    BY <1>3, <1>4, <1>5, <1>7 DEF Kept
  <2>3. DOMAIN sent.past \subseteq 1 .. sent.revision - 1
    BY <1>3, <1>4, <1>5, <1>7 DEF Kept
  <2>4. source.releasing => source.subs = {}
    BY <1>3 DEF Kept
  <2> QED
    BY <1>6, <1>7, <2>1, <2>2, <2>3, <2>4 DEF Kept
<1>9. sent.dirty \/ Current(sent, truth)
  <2>1. ~source.dirty => answer = truth
    BY <1>1, <1>3 DEF Current
  <2> QED
    BY <1>7, <2>1 DEF Current
<1>10. /\ source' \in Sources /\ source' # NoSource
       /\ Kept(source') /\ Awaits(source') /\ Current(source', truth)
       /\ source'.subs = sent.subs /\ source'.phase = sent.phase
       /\ source'.revision = sent.revision /\ source'.value = sent.value
  BY <1>2, <1>3, <1>7, <1>8, <1>9, PumpIs
<1>11. ASSUME NEW c \in Clients
       PROVE  t(c) \in Seq(Frames) /\ Brings(t(c), source', source.revision)
  <2> DEFINE f == FrameFor(moved, Now(c))
             g == StateFrame("live")
             u == (IF changed THEN <<f>> ELSE <<>>)
                    \o (IF source.phase # "live" THEN <<g>> ELSE <<>>)
  <2>0. t(c) = u
    OBVIOUS
  <2>1. Now(c) \in Subscribers
    BY DEF Now, Subscribers
  <2>2. /\ f \in Frames /\ IsValue(f) /\ f.revision = moved.revision /\ f.value = answer
        /\ changed => f.kind # "unchanged"
        /\ f.kind # "state"
    <3>1. /\ f \in Frames /\ IsValue(f) /\ f.revision = moved.revision /\ f.value = moved.value
          /\ f.kind = "unchanged" => moved.base[Now(c)] = moved.revision
      BY <1>5, <2>1, FrameIs
    <3>2. changed => moved.base[Now(c)] # moved.revision
      BY <1>4, <1>5, <2>1
    <3> QED
      BY <1>5, <3>1, <3>2 DEF IsValue, ValueKinds
  <2>3. g \in Frames /\ g.kind = "state" /\ g.phase = "live" /\ ~IsValue(g)
    BY DEF StateFrame, Frames, IsValue, ValueKinds, WatchPhases
  <2>4. /\ source'.revision = moved.revision /\ source'.value = answer
        /\ changed => source'.revision # source.revision
        /\ ~changed => source'.revision = source.revision
    BY <1>4, <1>5, <1>7, <1>10
  <2> HIDE DEF f, g, t
  <2>5. CASE changed /\ source.phase # "live"
    <3>1. u = <<f, g>>
      <4>1. u = <<f>> \o <<g>>
        BY <2>5
      <4>2. <<f>> \o <<g>> = <<f, g>>
        BY PairIs
      <4> QED
        BY <4>1, <4>2
    <3> HIDE DEF u
    <3>2. u \in Seq(Frames) /\ DOMAIN u = 1 .. 2 /\ u[1] = f /\ u[2] = g
      BY <2>2, <2>3, <3>1
    <3>3. u \in Seq(Frames) /\ Brings(u, source', source.revision)
      BY <2>2, <2>3, <2>4, <2>5, <3>2 DEF Brings
    <3> QED
      BY <2>0, <3>3 DEF u
  <2>6. CASE changed /\ ~(source.phase # "live")
    <3>1. u = <<f>>
      BY <2>6
    <3> HIDE DEF u
    <3>2. u \in Seq(Frames) /\ DOMAIN u = 1 .. 1 /\ u[1] = f
      BY <2>2, <2>3, <3>1
    <3>3. u \in Seq(Frames) /\ Brings(u, source', source.revision)
      BY <2>2, <2>3, <2>4, <2>6, <3>2 DEF Brings
    <3> QED
      BY <2>0, <3>3 DEF u
  <2>7. CASE ~changed /\ source.phase # "live"
    <3>1. u = <<g>>
      BY <2>7
    <3> HIDE DEF u
    <3>2. u \in Seq(Frames) /\ DOMAIN u = 1 .. 1 /\ u[1] = g
      BY <2>2, <2>3, <3>1
    <3>3. u \in Seq(Frames) /\ Brings(u, source', source.revision)
      BY <2>2, <2>3, <2>4, <2>7, <3>2 DEF Brings
    <3> QED
      BY <2>0, <3>3 DEF u
  <2>8. CASE ~changed /\ ~(source.phase # "live")
    <3>1. u = <<>>
      BY <2>8
    <3> HIDE DEF u
    <3>2. u \in Seq(Frames) /\ DOMAIN u = {}
      BY <2>2, <2>3, <3>1
    <3>3. u \in Seq(Frames) /\ Brings(u, source', source.revision)
      BY <2>2, <2>3, <2>4, <2>8, <3>2 DEF Brings
    <3> QED
      BY <2>0, <3>3 DEF u
  <2> QED
    BY <2>5, <2>6, <2>7, <2>8
<1>12. /\ source'.revision \in {source.revision, source.revision + 1}
       /\ source'.revision = source.revision => source'.value = source.value
  BY <1>4, <1>5, <1>7, <1>10
<1>13. \A c \in Clients : \E u \in Seq(Frames) :
         /\ Brings(u, source', source.revision)
         /\ down'[c] = IF Routed(c) THEN down[c] \o u ELSE down[c]
  <2> HIDE DEF t
  <2> QED
    BY <1>2, <1>11
<1> QED
  BY <1>3, <1>7, <1>10, <1>12, <1>13

\* A read that becomes due, is given up, or is tried again: the value stays.
LEMMA ReadIsDue ==
  ASSUME Sound, Change \/ ReadFails \/ RetryRead
  PROVE  /\ source' \in Sources /\ SourceInv' /\ truth' \in Values
         /\ source'.subs = source.subs /\ source'.revision = source.revision
         /\ source'.value = source.value
         /\ source' = NoSource <=> source = NoSource
         /\ source'.phase # source.phase => ReadFails /\ source'.phase = "unavailable"
<1>0. /\ source \in Sources /\ Kept(source) /\ Awaits(source) /\ Current(source, truth)
      /\ closed => source = NoSource
      /\ truth \in Values
      /\ NoSource.phase = "none"
      /\ source.phase = "none" <=> source = NoSource
  BY NewSourceIs DEF Sound, SourceInv, WatchTyped, Kept
<1>1. ASSUME Change  PROVE source' \in Sources /\ truth' \in Values /\ SourceInv'
                           /\ source'.subs = source.subs /\ source'.revision = source.revision
                           /\ source'.value = source.value /\ source'.phase = source.phase
  <2>1. truth' \in Values /\ closed' = closed
    BY <1>1 DEF Change
  <2>2. CASE source = NoSource
    <3>1. source' = source
      BY <1>1, <2>2 DEF Change
    <3>2. Current(source, truth')
      BY <2>2, NewSourceIs DEF Current
    <3> QED
      BY <1>0, <2>1, <3>1, <3>2 DEF SourceInv
  <2>3. CASE source # NoSource
    <3> DEFINE stale == [source EXCEPT !.dirty = TRUE]
    <3>1. source' = Pump(stale, truth')
      BY <1>1, <2>3 DEF Change, Trigger
    <3>2. /\ stale \in Sources /\ stale.subs = source.subs /\ stale.base = source.base
          /\ stale.revision = source.revision /\ stale.value = source.value
          /\ stale.phase = source.phase /\ stale.past = source.past
          /\ stale.reading = source.reading /\ stale.dirty = TRUE
          /\ stale.retry = source.retry /\ stale.releasing = source.releasing
      BY <1>0 DEF Sources
    <3> HIDE DEF stale
    <3>3. stale # NoSource
      BY <1>0, <2>3, <3>2
    <3>4. Kept(stale)
      BY <1>0, <2>3, <3>2, <3>3 DEF Kept
    <3>5. stale.retry => stale.phase = "unavailable" /\ stale.reading = Nothing
      BY <1>0, <3>2 DEF Awaits
    <3>6. /\ source' \in Sources /\ Kept(source') /\ Awaits(source')
          /\ Current(source', truth')
          /\ source'.revision = stale.revision /\ source'.value = stale.value
          /\ source'.phase = stale.phase /\ source'.subs = stale.subs
      BY <2>1, <3>1, <3>2, <3>4, <3>5, PumpIs
    <3>7. ~closed'
      BY <1>0, <2>1, <2>3
    <3> QED
      BY <2>1, <3>2, <3>6, <3>7 DEF SourceInv
  <2> QED
    BY <2>2, <2>3
<1>2. ASSUME ReadFails
      PROVE  /\ source' \in Sources /\ SourceInv' /\ truth' = truth
             /\ source'.subs = source.subs /\ source'.revision = source.revision
             /\ source'.value = source.value
             /\ source'.phase \in {source.phase, "unavailable"} /\ source # NoSource
  <2>1. /\ source # NoSource /\ source.reading # Nothing /\ closed' = closed /\ truth' = truth
        /\ source' = IF source.subs # {}
                     THEN [source EXCEPT !.reading = Nothing, !.dirty = TRUE, !.retry = TRUE,
                                         !.phase = "unavailable"]
                     ELSE [source EXCEPT !.reading = Nothing, !.dirty = TRUE]
    BY <1>2 DEF ReadFails
  <2>2. /\ source' \in Sources /\ source'.subs = source.subs /\ source'.base = source.base
        /\ source'.revision = source.revision /\ source'.value = source.value
        /\ source'.past = source.past /\ source'.releasing = source.releasing
        /\ source'.reading = Nothing /\ source'.dirty = TRUE
        /\ source.subs # {} => source'.retry = TRUE /\ source'.phase = "unavailable"
        /\ source.subs = {} => source'.retry = source.retry /\ source'.phase = source.phase
    BY <1>0, <2>1 DEF Sources, Answered, WatchPhases
  <2>3. source' # NoSource /\ source'.phase # "none"
    BY <1>0, <2>1, <2>2
  <2>4. Kept(source')
    BY <1>0, <2>1, <2>2, <2>3 DEF Kept
  <2>5. Awaits(source') /\ Current(source', truth')
    BY <1>0, <2>1, <2>2 DEF Awaits, Current
  <2> QED
    BY <1>0, <2>1, <2>2, <2>4, <2>5 DEF SourceInv
<1>3. ASSUME RetryRead
      PROVE  /\ source' \in Sources /\ SourceInv' /\ truth' = truth
             /\ source'.subs = source.subs /\ source'.revision = source.revision
             /\ source'.value = source.value /\ source'.phase = source.phase
  <2> DEFINE again == [source EXCEPT !.retry = FALSE]
  <2>1. /\ source # NoSource /\ source' = Pump(again, truth) /\ source.retry
        /\ closed' = closed /\ truth' = truth
    BY <1>3 DEF RetryRead
  <2>2. /\ again \in Sources /\ again.subs = source.subs /\ again.base = source.base
        /\ again.revision = source.revision /\ again.value = source.value
        /\ again.phase = source.phase /\ again.past = source.past
        /\ again.reading = source.reading /\ again.dirty = source.dirty
        /\ again.retry = FALSE /\ again.releasing = source.releasing
    BY <1>0 DEF Sources
  <2> HIDE DEF again
  <2>3. Kept(again)
    BY <1>0, <2>1, <2>2 DEF Kept
  <2>4. Current(again, truth)
    BY <1>0, <2>2 DEF Current
  <2>5. /\ source' \in Sources /\ Kept(source') /\ Awaits(source') /\ Current(source', truth)
        /\ source'.revision = again.revision /\ source'.value = again.value
        /\ source'.phase = again.phase /\ source'.subs = again.subs
    BY <1>0, <2>1, <2>2, <2>3, <2>4, PumpIs
  <2> QED
    BY <1>0, <2>1, <2>2, <2>5 DEF SourceInv
<1>4. SourceInv' => (source'.phase = "none" <=> source' = NoSource)
  BY DEF SourceInv, Kept
<1> QED
  BY <1>0, <1>1, <1>2, <1>3, <1>4

\* The subscriber of a connection that dropped stays, and is sent nothing more.
LEMMA DropIs ==
  ASSUME Sound, NEW c \in Clients, Disconnect(c)
  PROVE  /\ source' \in Sources /\ SourceInv'
         /\ source'.subs \ {Before(c)} = source.subs \ {Now(c), Before(c)}
         /\ source'.revision = source.revision /\ source'.value = source.value
         /\ source'.phase = source.phase
         /\ source' = NoSource <=> source = NoSource
<1>0. /\ source \in Sources /\ Kept(source) /\ Awaits(source) /\ Current(source, truth)
      /\ closed => source = NoSource
      /\ Now(c) \in Subscribers /\ Before(c) \in Subscribers /\ Now(c) # Before(c)
      /\ NoSource.phase = "none"
      /\ source.phase = "none" <=> source = NoSource
      /\ NoSource.subs = {}
  BY NewSourceIs DEF Sound, SourceInv, WatchTyped, Kept, Now, Before, Subscribers
<1>1. closed' = closed /\ truth' = truth
  BY DEF Disconnect
<1>2. CASE ~Routed(c)
  <2>1. source' = source
    BY <1>2 DEF Disconnect
  <2> QED
    BY <1>0, <1>1, <1>2, <2>1 DEF SourceInv, Routed
<1>3. CASE Routed(c)
  <2> DEFINE subs == (source.subs \ {Now(c)}) \cup {Before(c)}
             base == [source.base EXCEPT ![Now(c)] = 0]
  <2>1. source' = [source EXCEPT !.subs = subs, !.base = base]
    BY <1>0, <1>3 DEF Disconnect, Sources
  <2>2. /\ subs \in SUBSET Subscribers /\ base \in [Subscribers -> Nat] /\ subs # {}
        /\ source.subs # {} /\ subs \ {Before(c)} = source.subs \ {Now(c), Before(c)}
        /\ \A m \in Subscribers : base[m] <= source.revision
    BY <1>0, <1>3 DEF Routed, Sources, Kept
  <2> HIDE DEF subs, base
  <2>3. /\ source' \in Sources /\ source'.subs = subs /\ source'.base = base
        /\ source'.revision = source.revision /\ source'.value = source.value
        /\ source'.phase = source.phase /\ source'.past = source.past
        /\ source'.reading = source.reading /\ source'.dirty = source.dirty
        /\ source'.retry = source.retry /\ source'.releasing = source.releasing
    BY <1>0, <2>1, <2>2 DEF Sources
  <2>4. source # NoSource /\ source' # NoSource /\ ~source.releasing
    BY <1>0, <2>2, <2>3 DEF Kept
  <2>5. Kept(source')
    BY <1>0, <2>2, <2>3, <2>4 DEF Kept
  <2>6. Awaits(source') /\ Current(source', truth')
    BY <1>0, <1>1, <2>2, <2>3 DEF Awaits, Current
  <2> QED
    BY <1>0, <1>1, <2>2, <2>3, <2>4, <2>5, <2>6 DEF SourceInv
<1> QED
  BY <1>2, <1>3

\* Every step keeps what the hub says of its source.
LEMMA SourceStep ==
  ASSUME Sound, WatchNext
  PROVE  /\ source' \in Sources /\ SourceInv' /\ truth' \in Values /\ closed' \in BOOLEAN
<1>0. /\ source \in Sources /\ Kept(source) /\ Awaits(source) /\ Current(source, truth)
      /\ closed => source = NoSource
      /\ truth \in Values /\ closed \in BOOLEAN /\ NoSource \in Sources /\ Kept(NoSource)
      /\ source \in Sources /\ SourceInv
  BY NewSourceIs DEF Sound, SourceInv, WatchTyped
<1>1. \A x : Awaits(NoSource) /\ Current(NoSource, x)
  BY NewSourceIs DEF Awaits, Current
<1>2. ASSUME UNCHANGED <<truth, closed, source>>
      PROVE  source' \in Sources /\ SourceInv' /\ truth' \in Values /\ closed' \in BOOLEAN
  BY <1>0, <1>2 DEF SourceInv
<1>3. ASSUME NEW c \in Clients,
             \/ Subscribe(c) \/ Unsubscribe(c) \/ EntryExpires(c) \/ OpenTimesOut(c)
             \/ Connect(c) \/ ValueArrives(c) \/ StateArrives(c) \/ AcknowledgementArrives(c)
      PROVE  UNCHANGED <<truth, closed, source>>
  BY <1>3 DEF Subscribe, Unsubscribe, EntryExpires, OpenTimesOut, Connect, ValueArrives,
              StateArrives, AcknowledgementArrives, Arrives
<1>4. ASSUME NEW c \in Clients, Disconnect(c)
      PROVE  source' \in Sources /\ SourceInv' /\ truth' \in Values /\ closed' \in BOOLEAN
  BY <1>0, <1>4, DropIs DEF Disconnect
<1>5. ASSUME NEW m \in source.subs, UNCHANGED <<truth, closed>>, source' = Left(source, m)
      PROVE  source' \in Sources /\ SourceInv' /\ truth' \in Values /\ closed' \in BOOLEAN
  <2>1. /\ source' \in Sources /\ Kept(source') /\ Awaits(source') /\ Current(source', truth)
        /\ source # NoSource
    BY <1>0, <1>5, LeftIs
  <2> QED
    BY <1>0, <1>5, <2>1 DEF SourceInv
<1>6. ASSUME NEW c \in Clients, Detach(c)
      PROVE  source' \in Sources /\ SourceInv' /\ truth' \in Values /\ closed' \in BOOLEAN
  BY <1>5, <1>6 DEF Detach
<1>7. ASSUME NEW c \in Clients, HubCloses(c)
      PROVE  source' \in Sources /\ SourceInv' /\ truth' \in Values /\ closed' \in BOOLEAN
  <2>1. CASE Routed(c)
    BY <1>5, <1>7, <2>1 DEF HubCloses, Hears, Routed
  <2>2. CASE ~Routed(c)
    BY <1>2, <1>7, <2>2 DEF HubCloses, Hears
  <2> QED
    BY <2>1, <2>2
<1>8. ASSUME NEW c \in Clients, HubOpens(c)
      PROVE  source' \in Sources /\ SourceInv' /\ truth' \in Values /\ closed' \in BOOLEAN
  <2>0. closed' = closed /\ truth' = truth
    BY <1>8 DEF HubOpens, Hears
  <2>1. CASE closed \/ Routed(c)
    <3>1. source' = source
      BY <1>8, <2>1 DEF HubOpens
    <3> QED
      BY <1>2, <2>0, <3>1
  <2>2. CASE ~closed /\ ~Routed(c)
    BY <1>0, <1>8, <2>0, <2>2, HubServes DEF SourceInv
  <2> QED
    BY <2>1, <2>2
<1>9. ASSUME SourceExpires \/ CloseHub \/ Restart
      PROVE  source' \in Sources /\ SourceInv' /\ truth' \in Values /\ closed' \in BOOLEAN
  <2>1. source' = NoSource /\ truth' = truth /\ closed' \in BOOLEAN
    BY <1>0, <1>9 DEF SourceExpires, CloseHub, Restart
  <2> QED
    BY <1>0, <1>1, <2>1 DEF SourceInv
<1>10. ASSUME Change \/ ReadFails \/ RetryRead
       PROVE  source' \in Sources /\ SourceInv' /\ truth' \in Values /\ closed' \in BOOLEAN
  <2>1. closed' = closed
    BY <1>10 DEF Change, ReadFails, RetryRead
  <2> QED
    BY <1>0, <1>10, <2>1, ReadIsDue
<1>11. ASSUME ReadEnds
       PROVE  source' \in Sources /\ SourceInv' /\ truth' \in Values /\ closed' \in BOOLEAN
  <2>1. closed' = closed /\ truth' = truth
    BY <1>11 DEF ReadEnds
  <2>2. /\ source' \in Sources /\ source # NoSource
        /\ Kept(source') /\ Awaits(source') /\ Current(source', truth)
    BY <1>11, HubReads
  <2> QED
    BY <1>0, <2>1, <2>2 DEF SourceInv
<1> QED
  BY <1>2, <1>3, <1>4, <1>6, <1>7, <1>8, <1>9, <1>10, <1>11 DEF WatchNext

-----------------------------------------------------------------------------
(* What a client's helpers do *)

LEMMA NoEntryIs ==
  /\ NoEntry \in Entries /\ NoEntry.in = FALSE /\ NoEntry.listening = FALSE
  /\ NoEntry.value = Nothing /\ NoEntry.print = Nothing /\ NoEntry.revision = 0
  /\ NoEntry.opened = FALSE /\ NoEntry.answered = FALSE /\ NoEntry.waiting = FALSE
  /\ NoEntry.phase = "opening"
BY DEF NoEntry, Entries, Answered, WatchPhases

\* What does not change about an entry that is opened again.
LEMMA OpenedIs ==
  ASSUME NEW e \in Entries, NEW on \in BOOLEAN
  PROVE  /\ Opened(e, on) \in Entries
         /\ Opened(e, on).in = e.in /\ Opened(e, on).listening = e.listening
         /\ Opened(e, on).revision = e.revision /\ Opened(e, on).value = e.value
         /\ Opened(e, on).print = e.print
         /\ e.opened => Opened(e, on) = e /\ OpenFrames(e, on) = <<>>
         /\ ~e.opened /\ on =>
              /\ Opened(e, on).opened = TRUE /\ Opened(e, on).answered = FALSE
              /\ Opened(e, on).waiting = TRUE /\ Opened(e, on).phase = e.phase
              /\ \E r \in Requests : /\ OpenFrames(e, on) = <<r>>
                                     /\ r.kind = "open" /\ r.have = Have(e)
         /\ ~e.opened /\ ~on =>
              /\ Opened(e, on).opened = FALSE /\ Opened(e, on).answered = FALSE
              /\ Opened(e, on).phase = "unavailable" /\ OpenFrames(e, on) = <<>>
<1>1. CASE e.opened
  <2>1. Opened(e, on) = e /\ OpenFrames(e, on) = <<>>
    BY <1>1 DEF Opened, OpenFrames
  <2> QED
    BY <1>1, <2>1
<1>2. CASE ~e.opened /\ on
  <2>1. Opened(e, on) = [e EXCEPT !.opened = TRUE, !.answered = FALSE, !.waiting = TRUE]
    BY <1>2 DEF Opened
  <2>2. /\ Opened(e, on) \in Entries
        /\ Opened(e, on).in = e.in /\ Opened(e, on).listening = e.listening
        /\ Opened(e, on).revision = e.revision /\ Opened(e, on).value = e.value
        /\ Opened(e, on).print = e.print /\ Opened(e, on).phase = e.phase
        /\ Opened(e, on).opened = TRUE /\ Opened(e, on).answered = FALSE
        /\ Opened(e, on).waiting = TRUE
    BY <2>1 DEF Entries
  <2> DEFINE r == [kind |-> "open", have |-> Have(e)]
  <2>3. r \in Requests /\ r.kind = "open" /\ r.have = Have(e)
    BY DEF Requests, Have, Entries
  <2>4. OpenFrames(e, on) = <<r>>
    BY <1>2 DEF OpenFrames
  <2> QED
    BY <1>2, <2>2, <2>3, <2>4
<1>3. CASE ~e.opened /\ ~on
  <2>1. /\ Opened(e, on) = [e EXCEPT !.answered = FALSE, !.phase = "unavailable"]
        /\ OpenFrames(e, on) = <<>>
    BY <1>3 DEF Opened, OpenFrames
  <2>2. e.opened = FALSE
    BY <1>3 DEF Entries
  <2>3. /\ Opened(e, on) \in Entries
        /\ Opened(e, on).in = e.in /\ Opened(e, on).listening = e.listening
        /\ Opened(e, on).revision = e.revision /\ Opened(e, on).value = e.value
        /\ Opened(e, on).print = e.print /\ Opened(e, on).phase = "unavailable"
        /\ Opened(e, on).opened = FALSE /\ Opened(e, on).answered = FALSE
    BY <2>1, <2>2 DEF Entries, WatchPhases
  <2> QED
    BY <1>3, <2>1, <2>3
<1> QED
  BY <1>1, <1>2, <1>3

\* A close is sent on a connection that is there, and on no other.
LEMMA ClosingIs ==
  ASSUME NEW on \in BOOLEAN
  PROVE  /\ on => \E r \in Requests : CloseFrames(on) = <<r>> /\ r.kind = "close"
         /\ ~on => CloseFrames(on) = <<>>
BY DEF CloseFrames, Requests

-----------------------------------------------------------------------------
(* What the ends of a connection do to what is on it *)

LEMMA OneMore ==
  ASSUME NEW S, NEW s \in Seq(S), NEW x \in S
  PROVE  /\ s \o <<x>> \in Seq(S) /\ Len(s) \in Nat /\ Len(s \o <<x>>) = Len(s) + 1
         /\ s \o <<x>> # <<>>
         /\ DOMAIN s = 1 .. Len(s) /\ DOMAIN (s \o <<x>>) = 1 .. Len(s) + 1
         /\ \A i \in DOMAIN s : i \in DOMAIN (s \o <<x>>) /\ (s \o <<x>>)[i] = s[i]
         /\ (s \o <<x>>)[Len(s) + 1] = x
<1>1. <<x>> \in Seq(S) /\ Len(<<x>>) = 1 /\ DOMAIN <<x>> = 1 .. 1 /\ <<x>>[1] = x
  OBVIOUS
<1> DEFINE t == <<x>>
           r == s \o t
<1> HIDE DEF t
<1>2. /\ r \in Seq(S) /\ Len(r) = Len(s) + 1 /\ Len(s) \in Nat
      /\ DOMAIN s = 1 .. Len(s) /\ DOMAIN r = 1 .. Len(s) + 1
      /\ \A i \in DOMAIN s : i \in DOMAIN r /\ r[i] = s[i]
      /\ \A i \in DOMAIN t : r[Len(s) + i] = t[i]
  BY <1>1, ConcatParts DEF t
<1>3. r[Len(s) + 1] = x
  BY <1>1, <1>2 DEF t
<1> HIDE DEF r
<1>4. r # <<>>
  BY <1>2, EmptySeq
<1> QED
  BY <1>2, <1>3, <1>4 DEF r, t

\* One more request.
LEMMA RequestAdded ==
  ASSUME NEW u \in Seq(Requests), NEW r \in Requests, NEW d, NEW v, Reopens(u)
  PROVE  /\ r.kind = "open" => ~NoOpen(u \o <<r>>)
         /\ r.kind # "open" => (NoOpen(u \o <<r>>) <=> NoOpen(u))
         /\ (u \o <<r>>)[Len(u \o <<r>>)] = r
         /\ r.kind # "open" \/ r.have = Nothing \/ u = <<>> \/ u[Len(u)].kind = "open"
              => Reopens(u \o <<r>>)
         /\ /\ Names(u, d, v)
            /\ r.kind = "open" /\ NoOpen(u) /\ r.have # Nothing =>
                 NoValue(d) /\ v \in {Nothing, r.have.value}
            => Names(u \o <<r>>, d, v)
<1> DEFINE t == u \o <<r>>
           n == Len(u)
<1>1. /\ t \in Seq(Requests) /\ n \in Nat /\ Len(t) = n + 1
      /\ DOMAIN u = 1 .. n /\ DOMAIN t = 1 .. n + 1
      /\ \A i \in 1 .. n : t[i] = u[i]
      /\ t[n + 1] = r
  BY OneMore
<1> HIDE DEF t, n
<1>2. r.kind = "open" => ~NoOpen(t)
  BY <1>1 DEF NoOpen
<1>3. r.kind # "open" => (NoOpen(t) <=> NoOpen(u))
  BY <1>1 DEF NoOpen
<1>4. ASSUME r.kind # "open" \/ r.have = Nothing \/ u = <<>> \/ u[n].kind = "open"
      PROVE  Reopens(t)
  <2> SUFFICES ASSUME NEW i \in 1 .. n + 1, NEW j \in 1 .. n + 1,
                      t[i].kind = "close", t[j].kind = "open", i < j,
                      \A k \in 1 .. n + 1 : i < k /\ k < j => t[k].kind # "open"
               PROVE  t[j].have = Nothing
    BY <1>1 DEF Reopens
  <2>1. CASE j = n + 1
    <3>1. i \in 1 .. n /\ u[i].kind = "close" /\ u # <<>>
      BY <1>1, <2>1
    <3>2. n \in 1 .. n /\ (i = n \/ i < n) /\ n < j
      BY <1>1, <2>1, <3>1
    <3>3. ~(u[n].kind = "open")
      BY <1>1, <3>1, <3>2
    <3> QED
      BY <1>1, <1>4, <2>1, <3>1, <3>3
  <2>2. CASE j # n + 1
    <3>1. i \in 1 .. n /\ j \in 1 .. n
      BY <1>1, <2>2
    <3>2. \A k \in 1 .. n : i < k /\ k < j => u[k].kind # "open"
      BY <1>1
    <3> QED
      BY <1>1, <3>1, <3>2 DEF Reopens
  <2> QED
    BY <2>1, <2>2
<1>5. ASSUME Names(u, d, v),
             r.kind = "open" /\ NoOpen(u) /\ r.have # Nothing =>
               NoValue(d) /\ v \in {Nothing, r.have.value}
      PROVE  Names(t, d, v)
  <2> SUFFICES ASSUME NEW i \in 1 .. n + 1, FirstOpen(t, i), t[i].have # Nothing
               PROVE  NoValue(d) /\ v \in {Nothing, t[i].have.value}
    BY <1>1 DEF Names
  <2>1. CASE i = n + 1
    <3>1. \A j \in 1 .. n : u[j].kind # "open"
      BY <1>1, <2>1 DEF FirstOpen
    <3> QED
      BY <1>1, <1>5, <2>1, <3>1 DEF NoOpen, FirstOpen
  <2>2. CASE i # n + 1
    <3>1. i \in 1 .. n
      BY <1>1, <2>2
    <3>2. FirstOpen(u, i)
      BY <1>1, <3>1 DEF FirstOpen
    <3> QED
      BY <1>1, <1>5, <3>1, <3>2 DEF Names
  <2> QED
    BY <2>1, <2>2
<1>6. t[Len(t)] = r
  BY <1>1
<1> QED
  BY <1>2, <1>3, <1>4, <1>5, <1>6 DEF t, n

\* The first request is heard.
LEMMA RequestHeard ==
  ASSUME NEW u \in Seq(Requests), u # <<>>, NEW d, NEW v, Reopens(u)
  PROVE  /\ Reopens(Tail(u))
         /\ NoOpen(u) => NoOpen(Tail(u))
         /\ u[1].kind # "open" => (NoOpen(Tail(u)) => NoOpen(u))
         /\ u[Len(u)].kind = "open" /\ Tail(u) # <<>> => Tail(u)[Len(Tail(u))].kind = "open"
         /\ u[1].kind = "close" => Names(Tail(u), d, v)
<1> DEFINE t == Tail(u)
           n == Len(u)
<1>1. /\ t \in Seq(Requests) /\ n \in Nat \ {0} /\ Len(t) = n - 1
      /\ DOMAIN u = 1 .. n /\ DOMAIN t = 1 .. n - 1
      /\ \A i \in 1 .. n - 1 : i + 1 \in 1 .. n /\ t[i] = u[i + 1]
  BY TailParts
<1> HIDE DEF t, n
<1>2. Reopens(t)
  <2> SUFFICES ASSUME NEW i \in 1 .. n - 1, NEW j \in 1 .. n - 1,
                      t[i].kind = "close", t[j].kind = "open", i < j,
                      \A k \in 1 .. n - 1 : i < k /\ k < j => t[k].kind # "open"
               PROVE  t[j].have = Nothing
    BY <1>1 DEF Reopens
  <2>1. ASSUME NEW k \in 1 .. n, i + 1 < k, k < j + 1  PROVE u[k].kind # "open"
    <3>1. k - 1 \in 1 .. n - 1 /\ i < k - 1 /\ k - 1 < j /\ (k - 1) + 1 = k
      BY <1>1, <2>1
    <3>2. t[k - 1].kind # "open" /\ t[k - 1] = u[k]
      BY <1>1, <3>1
    <3> QED
      BY <3>2
  <2>2. i + 1 \in 1 .. n /\ j + 1 \in 1 .. n /\ i + 1 < j + 1
    BY <1>1
  <2> QED
    BY <1>1, <2>1, <2>2 DEF Reopens
<1>3. NoOpen(u) => NoOpen(t)
  BY <1>1 DEF NoOpen
<1>4. ASSUME u[1].kind # "open", NoOpen(t)  PROVE NoOpen(u)
  <2> SUFFICES ASSUME NEW i \in 1 .. n  PROVE u[i].kind # "open"
    BY <1>1 DEF NoOpen
  <2>1. CASE i # 1
    <3>1. i - 1 \in 1 .. n - 1 /\ (i - 1) + 1 = i
      BY <1>1, <2>1
    <3>2. t[i - 1] = u[i]
      BY <1>1, <3>1
    <3> QED
      BY <1>1, <1>4, <3>1, <3>2 DEF NoOpen
  <2> QED
    BY <1>4, <2>1
<1>5. ASSUME u[n].kind = "open", t # <<>>  PROVE t[Len(t)].kind = "open"
  <2>1. Len(t) # 0
    BY <1>1, <1>5, EmptySeq
  <2>2. Len(t) \in 1 .. n - 1 /\ Len(t) + 1 = n
    BY <1>1, <2>1
  <2> QED
    BY <1>1, <1>5, <2>2
<1>6. ASSUME u[1].kind = "close"  PROVE Names(t, d, v)
  <2> SUFFICES ASSUME NEW i \in 1 .. n - 1, FirstOpen(t, i)  PROVE t[i].have = Nothing
    BY <1>1 DEF Names
  <2>1. ASSUME NEW k \in 1 .. n, 1 < k, k < i + 1  PROVE u[k].kind # "open"
    <3>1. k - 1 \in 1 .. n - 1 /\ k - 1 < i /\ (k - 1) + 1 = k
      BY <1>1, <2>1
    <3>2. t[k - 1].kind # "open" /\ t[k - 1] = u[k]
      BY <1>1, <3>1 DEF FirstOpen
    <3> QED
      BY <3>2
  <2>2. 1 \in 1 .. n /\ i + 1 \in 1 .. n /\ 1 < i + 1 /\ t[i] = u[i + 1]
    BY <1>1
  <2> QED
    BY <1>1, <1>6, <2>1, <2>2 DEF Reopens, FirstOpen
<1> QED
  BY <1>2, <1>3, <1>4, <1>5, <1>6 DEF t, n

\* Frames that are sent.
LEMMA FramesSent ==
  ASSUME NEW d \in Seq(Frames), NEW t \in Seq(Frames), NEW v, NEW e
  PROVE  /\ d \o t \in Seq(Frames)
         /\ NoValue(d) /\ NoValue(t) <=> NoValue(d \o t)
         /\ /\ Confirms(d, v)
            /\ \A i \in DOMAIN t : t[i].kind = "unchanged" =>
                 i = 1 /\ NoValue(d) /\ v \in {Nothing, t[i].value}
            => Confirms(d \o t, v)
         /\ /\ \E i \in DOMAIN t : t[i].kind = "state"
            /\ \A i \in DOMAIN t : t[i].kind = "state" => t[i].phase # "live"
            => ~WouldShowLive(e, d \o t)
         /\ /\ \A i \in DOMAIN t : t[i].kind # "state"
            /\ WouldShowLive(e, d \o t)
            => WouldShowLive(e, d)
<1> DEFINE r == d \o t
           n == Len(d)
           m == Len(t)
<1>1. /\ r \in Seq(Frames) /\ n \in Nat /\ m \in Nat
      /\ DOMAIN d = 1 .. n /\ DOMAIN t = 1 .. m /\ DOMAIN r = 1 .. n + m
      /\ \A i \in 1 .. n : i \in 1 .. n + m /\ r[i] = d[i]
      /\ \A i \in 1 .. m : n + i \in 1 .. n + m /\ r[n + i] = t[i]
      /\ \A i \in 1 .. n + m : i \in 1 .. n \/ \E j \in 1 .. m : i = n + j
  <2>1. /\ r \in Seq(Frames) /\ n \in Nat /\ m \in Nat
        /\ DOMAIN d = 1 .. n /\ DOMAIN t = 1 .. m /\ DOMAIN r = 1 .. n + m
        /\ \A i \in DOMAIN d : i \in DOMAIN r /\ r[i] = d[i]
        /\ \A i \in DOMAIN t : n + i \in DOMAIN r /\ r[n + i] = t[i]
        /\ \A i \in DOMAIN r : i \in DOMAIN d \/ \E j \in DOMAIN t : i = n + j
    BY ConcatParts
  <2> HIDE DEF r, n, m
  <2> QED
    BY <2>1
<1> HIDE DEF r, n, m
<1>2. ASSUME NoValue(d), NoValue(t)  PROVE NoValue(r)
  <2> SUFFICES ASSUME NEW i \in 1 .. n + m  PROVE ~IsValue(r[i])
    BY <1>1 DEF NoValue
  <2>1. CASE i \in 1 .. n
    BY <1>1, <1>2, <2>1 DEF NoValue
  <2>2. ASSUME NEW j \in 1 .. m, i = n + j  PROVE ~IsValue(r[i])
    BY <1>1, <1>2, <2>2 DEF NoValue
  <2> QED
    BY <1>1, <2>1, <2>2
<1>3. NoValue(r) => NoValue(d) /\ NoValue(t)
  <2> SUFFICES ASSUME NoValue(r)  PROVE NoValue(d) /\ NoValue(t)
    OBVIOUS
  <2>1. \A i \in 1 .. n : ~IsValue(d[i])
    BY <1>1 DEF NoValue
  <2>2. \A i \in 1 .. m : ~IsValue(t[i])
    BY <1>1 DEF NoValue
  <2> QED
    BY <1>1, <2>1, <2>2 DEF NoValue
<1>4. ASSUME Confirms(d, v),
             \A i \in 1 .. m : t[i].kind = "unchanged" =>
               i = 1 /\ NoValue(d) /\ v \in {Nothing, t[i].value}
      PROVE  Confirms(r, v)
  <2> SUFFICES ASSUME NEW i \in 1 .. n + m, r[i].kind = "unchanged"
               PROVE  /\ \A j \in 1 .. n + m : j < i => ~IsValue(r[j])
                      /\ v \in {Nothing, r[i].value}
    BY <1>1 DEF Confirms
  <2>1. CASE i \in 1 .. n
    <3>1. d[i].kind = "unchanged" /\ r[i] = d[i]
      BY <1>1, <2>1
    <3>2. \A j \in 1 .. n + m : j < i => j \in 1 .. n /\ r[j] = d[j]
      BY <1>1, <2>1
    <3> QED
      BY <1>1, <1>4, <2>1, <3>1, <3>2 DEF Confirms
  <2>2. ASSUME NEW k \in 1 .. m, i = n + k
        PROVE  /\ \A j \in 1 .. n + m : j < i => ~IsValue(r[j])
               /\ v \in {Nothing, r[i].value}
    <3>1. r[i] = t[k]
      BY <1>1, <2>2
    <3>2. k = 1 /\ NoValue(d) /\ v \in {Nothing, t[k].value}
      BY <1>4, <3>1
    <3>3. \A j \in 1 .. n + m : j < i => j \in 1 .. n /\ r[j] = d[j]
      BY <1>1, <2>2, <3>2
    <3> QED
      BY <1>1, <3>1, <3>2, <3>3 DEF NoValue
  <2> QED
    BY <1>1, <2>1, <2>2
<1>5. ASSUME NEW k \in 1 .. m, t[k].kind = "state",
             \A i \in 1 .. m : t[i].kind = "state" => t[i].phase # "live",
             WouldShowLive(e, r)
      PROVE  FALSE
  <2>1. n + k \in 1 .. n + m /\ r[n + k].kind = "state"
    BY <1>1, <1>5
  <2>2. PICK i \in 1 .. n + m : /\ r[i].kind = "state" /\ r[i].phase = "live"
                                /\ \A j \in 1 .. n + m : r[j].kind = "state" => j <= i
    <3>1. ~(\A i \in DOMAIN r : r[i].kind # "state")
      BY <1>1, <2>1
    <3>2. \E i \in DOMAIN r : /\ r[i].kind = "state" /\ r[i].phase = "live"
                              /\ \A j \in DOMAIN r : r[j].kind = "state" => j <= i
      BY <1>5, <3>1 DEF WouldShowLive
    <3> QED
      BY <1>1, <3>2
  <2>3. n + k <= i
    BY <2>1, <2>2
  <2>4. PICK j \in 1 .. m : i = n + j
    <3>1. i \notin 1 .. n
      BY <1>1, <2>2, <2>3
    <3>2. i \in 1 .. n \/ \E j \in 1 .. m : i = n + j
      BY <1>1
    <3> QED
      BY <3>1, <3>2
  <2>5. r[i] = t[j]
    BY <1>1, <2>4
  <2> QED
    BY <1>5, <2>2, <2>5
<1>6. ASSUME \A i \in 1 .. m : t[i].kind # "state", WouldShowLive(e, r)
      PROVE  WouldShowLive(e, d)
  <2>1. ASSUME e.phase = "live", \A i \in 1 .. n + m : r[i].kind # "state"
        PROVE  WouldShowLive(e, d)
    <3>1. \A i \in 1 .. n : d[i].kind # "state"
      BY <1>1, <2>1
    <3> QED
      BY <1>1, <2>1, <3>1 DEF WouldShowLive
  <2>2. ASSUME NEW i \in 1 .. n + m, r[i].kind = "state", r[i].phase = "live",
               \A j \in 1 .. n + m : r[j].kind = "state" => j <= i
        PROVE  WouldShowLive(e, d)
    <3>1. i \in 1 .. n /\ r[i] = d[i]
      BY <1>1, <1>6, <2>2
    <3>2. \A j \in 1 .. n : d[j].kind = "state" => j <= i
      BY <1>1, <2>2
    <3> QED
      BY <1>1, <2>2, <3>1, <3>2 DEF WouldShowLive
  <2> QED
    BY <1>1, <1>6, <2>1, <2>2 DEF WouldShowLive
<1> QED
  BY <1>1, <1>2, <1>3, <1>4, <1>5, <1>6 DEF r, n, m

\* The first frame is taken.
LEMMA FrameTaken ==
  ASSUME NEW d \in Seq(Frames), d # <<>>, NEW v, NEW e
  PROVE  /\ NoValue(d) => NoValue(Tail(d))
         /\ ~IsValue(d[1]) => (NoValue(Tail(d)) => NoValue(d))
         /\ Confirms(d, v) => Confirms(Tail(d), v)
         /\ IsValue(d[1]) /\ Confirms(d, v) => \A w : Confirms(Tail(d), w)
         /\ d[1].kind # "state" \/ (e.phase = "live" => d[1].phase = "live")
              => (WouldShowLive(e, Tail(d)) => WouldShowLive(e, d))
         /\ Tail(d) # <<>> => Tail(d)[Len(Tail(d))] = d[Len(d)]
<1> DEFINE t == Tail(d)
           n == Len(d)
<1>1. /\ t \in Seq(Frames) /\ n \in Nat \ {0} /\ Len(t) = n - 1
      /\ DOMAIN d = 1 .. n /\ DOMAIN t = 1 .. n - 1
      /\ \A i \in 1 .. n - 1 : i + 1 \in 1 .. n /\ t[i] = d[i + 1]
  BY TailParts
<1> HIDE DEF t, n
<1>2. NoValue(d) => NoValue(t)
  BY <1>1 DEF NoValue
<1>3. \A i \in 1 .. n : i # 1 => i - 1 \in 1 .. n - 1 /\ t[i - 1] = d[i]
  <2> TAKE i \in 1 .. n
  <2> HAVE i # 1
  <2>1. i - 1 \in 1 .. n - 1 /\ (i - 1) + 1 = i
    BY <1>1
  <2> QED
    BY <1>1, <2>1
<1>4. ~IsValue(d[1]) => (NoValue(t) => NoValue(d))
  BY <1>1, <1>3 DEF NoValue
<1>5. ASSUME Confirms(d, v)  PROVE Confirms(t, v)
  <2> SUFFICES ASSUME NEW i \in 1 .. n - 1, t[i].kind = "unchanged"
               PROVE  /\ \A j \in 1 .. n - 1 : j < i => ~IsValue(t[j])
                      /\ v \in {Nothing, t[i].value}
    BY <1>1 DEF Confirms
  <2>1. d[i + 1].kind = "unchanged" /\ i + 1 \in 1 .. n /\ t[i] = d[i + 1]
    BY <1>1
  <2>2. (\A j \in 1 .. n : j < i + 1 => ~IsValue(d[j])) /\ v \in {Nothing, d[i + 1].value}
    BY <1>1, <1>5, <2>1 DEF Confirms
  <2>3. \A j \in 1 .. n - 1 : j < i => j + 1 \in 1 .. n /\ j + 1 < i + 1
    BY <1>1
  <2> QED
    BY <1>1, <2>1, <2>2, <2>3
<1>6. ASSUME IsValue(d[1]), Confirms(d, v), NEW w  PROVE Confirms(t, w)
  <2>1. ASSUME NEW i \in 1 .. n - 1  PROVE t[i].kind # "unchanged"
    <3>1. i + 1 \in 1 .. n /\ t[i] = d[i + 1] /\ 1 \in 1 .. n /\ 1 < i + 1
      BY <1>1
    <3> QED
      BY <1>1, <1>6, <3>1 DEF Confirms
  <2> QED
    BY <1>1, <2>1 DEF Confirms
<1>7. ASSUME d[1].kind # "state" \/ (e.phase = "live" => d[1].phase = "live"),
             WouldShowLive(e, t)
      PROVE  WouldShowLive(e, d)
  <2>1. ASSUME e.phase = "live", \A i \in 1 .. n - 1 : t[i].kind # "state"
        PROVE  WouldShowLive(e, d)
    <3>1. \A i \in 1 .. n : i # 1 => d[i].kind # "state"
      BY <1>3, <2>1
    <3>2. CASE d[1].kind # "state"
      BY <1>1, <2>1, <3>1, <3>2 DEF WouldShowLive
    <3>3. CASE d[1].kind = "state"
      <4>1. 1 \in 1 .. n /\ d[1].phase = "live" /\ \A j \in 1 .. n : d[j].kind = "state" => j <= 1
        BY <1>1, <1>7, <2>1, <3>1, <3>3
      <4> QED
        BY <1>1, <3>3, <4>1 DEF WouldShowLive
    <3> QED
      BY <3>2, <3>3
  <2>2. ASSUME NEW i \in 1 .. n - 1, t[i].kind = "state", t[i].phase = "live",
               \A j \in 1 .. n - 1 : t[j].kind = "state" => j <= i
        PROVE  WouldShowLive(e, d)
    <3>1. i + 1 \in 1 .. n /\ t[i] = d[i + 1]
      BY <1>1
    <3>2. ASSUME NEW j \in 1 .. n, d[j].kind = "state"  PROVE j <= i + 1
      <4>1. CASE j = 1
        BY <4>1
      <4>2. CASE j # 1
        BY <1>1, <1>3, <2>2, <3>2, <4>2
      <4> QED
        BY <4>1, <4>2
    <3> QED
      BY <1>1, <2>2, <3>1, <3>2 DEF WouldShowLive
  <2> QED
    BY <1>1, <1>7, <2>1, <2>2 DEF WouldShowLive
<1>8. ASSUME t # <<>>  PROVE t[Len(t)] = d[n]
  <2>1. Len(t) # 0
    BY <1>1, <1>8, EmptySeq
  <2>2. Len(t) \in 1 .. n - 1 /\ Len(t) + 1 = n
    BY <1>1, <2>1
  <2> QED
    BY <1>1, <2>2
<1> QED
  BY <1>2, <1>4, <1>5, <1>6, <1>7, <1>8 DEF t, n

-----------------------------------------------------------------------------
(* Each step keeps what a client and its connection are to each other *)

Client(c) == Talk(c) /\ Offer(c)

\* A step of client c is its own.
Alike(c) ==
  /\ entry'[c] = entry[c] /\ up'[c] = up[c] /\ down'[c] = down[c]
  /\ connected'[c] = connected[c]
Moves(c) == ClientsTyped' /\ \A x \in Clients \ {c} : Alike(x)

\* What a client keeps is an entry, and is kept by whoever listens.
LEMMA ClientIs ==
  ASSUME Sound, NEW c \in Clients
  PROVE  /\ entry[c] \in Entries /\ connected[c] \in BOOLEAN
         /\ up[c] \in Seq(Requests) /\ down[c] \in Seq(Frames)
         /\ entry[c].listening => entry[c].in
         /\ closed => source = NoSource /\ ~Routed(c)
BY NewSourceIs DEF Sound, WatchTyped, ClientsTyped, SourceInv, Routed

\* A client that a step does not touch keeps what is said of it.
LEMMA AlikeKeeps ==
  ASSUME Sound, NEW c \in Clients, Client(c), Alike(c), closed' = closed,
         Routed(c)' <=> Routed(c)
  PROVE  Client(c)'
<1>1. Talk(c)'
  BY DEF Client, Talk, Alike, Asked
<1>2. Offer(c)'
  BY DEF Client, Offer, Alike
<1> QED
  BY <1>1, <1>2 DEF Client

\* A listener comes: an entry is opened, or joined.
LEMMA SubscribeKeeps ==
  ASSUME Sound, NEW c \in Clients, Client(c), Subscribe(c)
  PROVE  Moves(c) /\ Client(c)'
<1> DEFINE f == [entry[c] EXCEPT !.in = TRUE, !.listening = TRUE, !.expiring = FALSE]
           on == connected[c]
           e == Opened(f, on)
           u == up[c] \o OpenFrames(f, on)
<1>1. /\ entry' = [entry EXCEPT ![c] = e] /\ up' = [up EXCEPT ![c] = u]
      /\ UNCHANGED <<truth, closed, source, connected, down>>
      /\ entry[c].listening => on /\ ~entry[c].opened
  BY DEF Subscribe
<1>2. /\ entry[c] \in Entries /\ on \in BOOLEAN /\ up[c] \in Seq(Requests)
      /\ down[c] \in Seq(Frames)
  BY ClientIs
<1>3. /\ f \in Entries /\ f.in = TRUE /\ f.opened = entry[c].opened
      /\ f.revision = entry[c].revision /\ f.value = entry[c].value
      /\ f.print = entry[c].print /\ f.phase = entry[c].phase
      /\ f.waiting = entry[c].waiting
  BY <1>2 DEF Entries
<1> HIDE DEF f
<1>4. /\ e \in Entries /\ e.in = TRUE /\ e.value = entry[c].value /\ e.print = entry[c].print
      /\ entry[c].opened => e = f /\ OpenFrames(f, on) = <<>>
      /\ ~entry[c].opened /\ on =>
              /\ e.opened = TRUE /\ e.waiting = TRUE
              /\ \E r \in Requests : /\ OpenFrames(f, on) = <<r>>
                                     /\ r.kind = "open" /\ r.have = Have(f)
      /\ ~entry[c].opened /\ ~on =>
              e.opened = FALSE /\ e.phase = "unavailable" /\ OpenFrames(f, on) = <<>>
  <2>1. /\ e \in Entries /\ e.in = f.in /\ e.value = f.value /\ e.print = f.print
        /\ f.opened => e = f /\ OpenFrames(f, on) = <<>>
        /\ ~f.opened /\ on =>
              /\ e.opened = TRUE /\ e.waiting = TRUE
              /\ \E r \in Requests : /\ OpenFrames(f, on) = <<r>>
                                     /\ r.kind = "open" /\ r.have = Have(f)
        /\ ~f.opened /\ ~on =>
              e.opened = FALSE /\ e.phase = "unavailable" /\ OpenFrames(f, on) = <<>>
    BY <1>2, <1>3, OpenedIs
  <2> HIDE DEF e, on
  <2> QED
    BY <1>3, <2>1
<1> HIDE DEF e
<1>5. Have(f) # Nothing => f.value # Nothing /\ Have(f).value = f.print
  BY DEF Have
<1>6. Client(c)' /\ u \in Seq(Requests)
  <2>0. /\ Talk(c) /\ Offer(c) /\ (Routed(c)' <=> Routed(c)) /\ closed' = closed
        /\ entry'[c] = e /\ up'[c] = u /\ down'[c] = down[c] /\ connected'[c] = connected[c]
    BY <1>1, <1>2 DEF Client, Routed, Sound, WatchTyped, ClientsTyped
  <2>1. CASE entry[c].opened
    <3>1. u = up[c] /\ e = f /\ entry[c].in
      BY <1>2, <1>4, <2>0, <2>1, ConcatEmptySeq, NoEntryIs DEF Talk
    <3>2. Talk(c)'
      BY <1>3, <2>0, <2>1, <3>1 DEF Talk, Asked
    <3>3. Offer(c)'
      BY <1>3, <2>0, <3>1 DEF Offer
    <3> QED
      BY <1>2, <3>1, <3>2, <3>3 DEF Client
  <2>2. CASE ~entry[c].opened /\ ~on
    <3>1. u = up[c]
      BY <1>2, <1>4, <2>2, ConcatEmptySeq
    <3>2. Talk(c)'
      BY <1>4, <2>0, <2>2, <3>1 DEF Talk, Asked
    <3>3. Offer(c)'
      BY <1>4, <2>0, <3>1 DEF Offer
    <3> QED
      BY <1>2, <3>1, <3>2, <3>3 DEF Client
  <2>3. CASE ~entry[c].opened /\ on
    <3>1. PICK r \in Requests : u = up[c] \o <<r>> /\ r.kind = "open" /\ r.have = Have(f)
      BY <1>4, <2>3
    <3>2. u \in Seq(Requests) /\ u # <<>> /\ u[Len(u)].kind = "open"
      BY <1>2, <3>1, OneMore
    <3>3. Talk(c)'
      BY <1>4, <2>0, <2>3, <3>2 DEF Talk, Asked
    <3>4. r.have # Nothing =>
            /\ entry[c].value # Nothing /\ r.have.value = entry[c].value /\ entry[c].in
      BY <1>3, <1>5, <2>0, <3>1, NoEntryIs DEF Offer, Talk
    <3>5. Reopens(u)
      BY <1>2, <2>0, <3>1, <3>4, RequestAdded DEF Offer, Talk
    <3>6. ASSUME ~Routed(c), ~closed  PROVE Names(u, down[c], entry[c].value)
      <4>1. ASSUME NoOpen(up[c]), r.have # Nothing  PROVE NoValue(down[c])
        <5>1. up[c] = <<>>
          <6>1. up[c] # <<>> => Len(up[c]) \in DOMAIN up[c]
            BY <1>2, LenProperties, EmptySeq
          <6> QED
            BY <2>0, <3>4, <4>1, <6>1 DEF Talk, NoOpen
        <5>2. down[c] = <<>>
          BY <2>0, <2>3, <3>4, <3>6, <4>1, <5>1 DEF Talk, Asked
        <5> QED
          BY <5>2 DEF NoValue
      <4>2. Names(up[c], down[c], entry[c].value)
        BY <2>0, <3>6 DEF Offer
      <4> QED
        BY <1>2, <2>0, <3>1, <3>4, <4>1, <4>2, RequestAdded DEF Offer
    <3>7. Offer(c)'
      BY <1>4, <2>0, <3>5, <3>6 DEF Offer
    <3> QED
      BY <3>2, <3>3, <3>7 DEF Client
  <2> QED
    BY <2>1, <2>2, <2>3
<1>7. Moves(c)
  <2> HIDE DEF u
  <2> QED
    BY <1>1, <1>4, <1>6 DEF Moves, Alike, Sound, WatchTyped, ClientsTyped
<1> QED
  BY <1>6, <1>7

\* An entry that nobody listens to any more is dropped.
LEMMA ReleaseKeeps ==
  ASSUME Sound, NEW c \in Clients, Client(c), Release(c),
         UNCHANGED <<closed, source, connected, down>>
  PROVE  Moves(c) /\ Client(c)'
<1> DEFINE on == connected[c]
           u == up[c] \o CloseFrames(on)
<1>1. /\ entry[c] \in Entries /\ on \in BOOLEAN /\ up[c] \in Seq(Requests)
      /\ down[c] \in Seq(Frames) /\ Talk(c) /\ Offer(c)
  BY ClientIs DEF Client
<1>2. /\ entry' = [entry EXCEPT ![c] = NoEntry] /\ up' = [up EXCEPT ![c] = u]
      /\ (Routed(c)' <=> Routed(c))
  BY DEF Release, Routed
<1>3. /\ entry'[c] = NoEntry /\ up'[c] = u /\ down'[c] = down[c] /\ connected'[c] = on
  BY <1>2 DEF Sound, WatchTyped, ClientsTyped
<1>4. Confirms(down[c], Nothing) /\ (Names(up[c], down[c], entry[c].value) =>
        Names(up[c], down[c], Nothing))
  BY <1>1 DEF Offer, Confirms, Names
<1>5. /\ u \in Seq(Requests) /\ Reopens(u)
      /\ Names(up[c], down[c], Nothing) => Names(u, down[c], Nothing)
      /\ ~on => u = up[c]
  <2>1. CASE on
    <3>1. PICK r \in Requests : u = up[c] \o <<r>> /\ r.kind = "close"
      BY <2>1, ClosingIs
    <3>2. u \in Seq(Requests)
      BY <1>1, <3>1, OneMore
    <3> QED
      BY <1>1, <2>1, <3>1, <3>2, RequestAdded DEF Offer
  <2>2. CASE ~on
    <3>1. u = up[c]
      BY <1>1, <2>2, ClosingIs, ConcatEmptySeq
    <3> QED
      BY <1>1, <3>1 DEF Offer
  <2> QED
    BY <1>1, <2>1, <2>2
<1> HIDE DEF u
<1>6. Talk(c)'
  BY <1>1, <1>2, <1>3, <1>5, NoEntryIs DEF Talk
<1>7. Offer(c)'
  BY <1>1, <1>2, <1>3, <1>4, <1>5, NoEntryIs DEF Offer
<1>8. Moves(c)
  BY <1>2, <1>5, NoEntryIs DEF Moves, Alike, Sound, WatchTyped, ClientsTyped
<1> QED
  BY <1>6, <1>7, <1>8 DEF Client

\* The entry is kept, with the value it holds.
LEMMA EntryKeeps ==
  ASSUME Sound, NEW c \in Clients, Client(c), UNCHANGED <<closed, source, connected, up, down>>,
         NEW e \in Entries, entry' = [entry EXCEPT ![c] = e], entry[c].in, e.in,
         e.value = entry[c].value, e.print = entry[c].print,
         e.phase \in {entry[c].phase, "unavailable"},
         e.opened => entry[c].opened /\ (entry[c].waiting => e.waiting)
  PROVE  Moves(c) /\ Client(c)'
<1>1. /\ entry'[c] = e /\ up'[c] = up[c] /\ down'[c] = down[c] /\ connected'[c] = connected[c]
      /\ (Routed(c)' <=> Routed(c)) /\ Talk(c) /\ Offer(c)
  BY DEF Sound, WatchTyped, ClientsTyped, Client, Routed
<1>2. Talk(c)'
  BY <1>1 DEF Talk, Asked
<1>3. Offer(c)'
  BY <1>1 DEF Offer
<1>4. Moves(c)
  BY DEF Moves, Alike, Sound, WatchTyped, ClientsTyped
<1> QED
  BY <1>2, <1>3, <1>4 DEF Client

\* A listener leaves.
LEMMA UnsubscribeKeeps ==
  ASSUME Sound, NEW c \in Clients, Client(c),
         Unsubscribe(c) \/ EntryExpires(c) \/ OpenTimesOut(c)
  PROVE  Moves(c) /\ Client(c)'
<1>1. entry[c] \in Entries /\ (entry[c].waiting \/ entry[c].listening => entry[c].in) 
  BY ClientIs, NoEntryIs DEF Client, Talk
<1>2. CASE Release(c)
  <2>1. UNCHANGED <<closed, source, connected, down>>
    BY DEF Unsubscribe, EntryExpires, OpenTimesOut
  <2> QED
    BY <1>2, <2>1, ReleaseKeeps
<1>3. CASE Unsubscribe(c) /\ ~Release(c)
  <2> DEFINE e == [entry[c] EXCEPT !.listening = FALSE, !.expiring = TRUE]
  <2>1. /\ entry' = [entry EXCEPT ![c] = e] /\ entry[c].in
        /\ UNCHANGED <<closed, source, connected, up, down>>
    BY <1>1, <1>3 DEF Unsubscribe, Sound, WatchTyped, ClientsTyped
  <2>2. /\ e \in Entries /\ e.in = entry[c].in /\ e.value = entry[c].value
        /\ e.print = entry[c].print /\ e.phase = entry[c].phase
        /\ e.opened = entry[c].opened /\ e.waiting = entry[c].waiting
    BY <1>1 DEF Entries
  <2> HIDE DEF e
  <2> QED
    BY <2>1, <2>2, EntryKeeps
<1>4. CASE OpenTimesOut(c)
  <2> DEFINE e == [entry[c] EXCEPT !.opened = FALSE, !.waiting = FALSE, !.phase = "unavailable"]
  <2>1. /\ entry' = [entry EXCEPT ![c] = e] /\ entry[c].in
        /\ UNCHANGED <<closed, source, connected, up, down>>
    BY <1>1, <1>4 DEF OpenTimesOut, Sound, WatchTyped, ClientsTyped
  <2>2. /\ e \in Entries /\ e.in = entry[c].in /\ e.value = entry[c].value
        /\ e.print = entry[c].print /\ e.phase = "unavailable" /\ ~e.opened
    BY <1>1 DEF Entries, WatchPhases
  <2> HIDE DEF e
  <2> QED
    BY <2>1, <2>2, EntryKeeps
<1> QED
  BY <1>2, <1>3, <1>4 DEF EntryExpires

\* The connection is over: nothing is on it, and the entry forgets that it asked.
LEMMA DroppedIs ==
  ASSUME NEW e \in Entries, ~e.in => e = NoEntry
  PROVE  /\ Dropped(e) \in Entries /\ Dropped(e).in = e.in
         /\ Dropped(e).listening = e.listening
         /\ ~e.in => Dropped(e) = e
         /\ Dropped(e).value = e.value /\ Dropped(e).print = e.print
         /\ Dropped(e).revision = e.revision /\ Dropped(e).answered = e.answered
         /\ ~Dropped(e).opened /\ ~Dropped(e).waiting /\ Dropped(e).phase # "live"
<1>1. CASE e.in
  <2>1. Dropped(e) = [e EXCEPT !.opened = FALSE, !.waiting = FALSE, !.phase = "unavailable"]
    BY <1>1 DEF Dropped
  <2> QED
    BY <1>1, <2>1 DEF Entries, WatchPhases
<1>2. CASE ~e.in
  BY <1>2, NoEntryIs DEF Dropped
<1> QED
  BY <1>1, <1>2

\* A client notices that its connection dropped.
LEMMA DisconnectKeeps ==
  ASSUME Sound, NEW c \in Clients, Client(c), Disconnect(c)
  PROVE  Moves(c) /\ Client(c)'
<1> DEFINE e == Dropped(entry[c])
<1>1. /\ entry' = [entry EXCEPT ![c] = e] /\ up' = [up EXCEPT ![c] = <<>>]
      /\ down' = [down EXCEPT ![c] = <<>>] /\ connected' = [connected EXCEPT ![c] = FALSE]
  BY DEF Disconnect
<1>2. /\ entry[c] \in Entries /\ (entry[c].listening => entry[c].in)
      /\ (~entry[c].in => entry[c] = NoEntry) /\ Offer(c)
  BY ClientIs DEF Client, Talk
<1>3. /\ e \in Entries /\ e.in = entry[c].in /\ e.listening = entry[c].listening
      /\ ~e.in => e = NoEntry
      /\ e.value = entry[c].value /\ e.print = entry[c].print /\ ~e.opened /\ e.phase # "live"
  BY <1>2, DroppedIs
<1> HIDE DEF e
<1>4. entry'[c] = e /\ up'[c] = <<>> /\ down'[c] = <<>> /\ connected'[c] = FALSE
  BY <1>1 DEF Sound, WatchTyped, ClientsTyped
<1>5. ~Routed(c)'
  <2>1. source'.subs \ {Before(c)} = source.subs \ {Now(c), Before(c)} /\ Now(c) # Before(c)
    BY DropIs DEF Now, Before
  <2> QED
    BY <2>1 DEF Routed, Now
<1>6. Talk(c)'
  BY <1>3, <1>4, <1>5 DEF Talk
<1>7. Offer(c)'
  BY <1>2, <1>3, <1>4 DEF Offer, Confirms, Names, Reopens
<1>8. Moves(c)
  <2>1. <<>> \in Seq(Requests) /\ <<>> \in Seq(Frames)
    OBVIOUS
  <2> QED
    BY <1>1, <1>2, <1>3, <2>1 DEF Moves, Alike, Sound, WatchTyped, ClientsTyped
<1> QED
  BY <1>6, <1>7, <1>8 DEF Client

\* A client opens what it keeps on a new connection.
LEMMA ConnectKeeps ==
  ASSUME Sound, NEW c \in Clients, Client(c), Connect(c)
  PROVE  Moves(c) /\ Client(c)'
<1> DEFINE f == [entry[c] EXCEPT !.phase = "opening"]
           e == Opened(f, TRUE)
           u == up[c] \o OpenFrames(f, TRUE)
<1>1. /\ connected' = [connected EXCEPT ![c] = TRUE] /\ ~connected[c]
      /\ UNCHANGED <<truth, closed, source, down>>
      /\ IF entry[c].listening
         THEN entry' = [entry EXCEPT ![c] = e] /\ up' = [up EXCEPT ![c] = u]
         ELSE UNCHANGED <<entry, up>>
  BY DEF Connect
<1>2. /\ entry[c] \in Entries /\ (entry[c].listening => entry[c].in) /\ Offer(c) /\ Talk(c)
      /\ up[c] = <<>> /\ down[c] = <<>> /\ ~entry[c].opened /\ entry[c].phase # "live"
      /\ (Routed(c)' <=> Routed(c)) /\ ~Routed(c)
  BY <1>1, ClientIs DEF Client, Talk, Routed
<1>3. CASE ~entry[c].listening
  <2>1. /\ entry'[c] = entry[c] /\ up'[c] = <<>> /\ down'[c] = <<>> /\ connected'[c] = TRUE
    BY <1>1, <1>2, <1>3 DEF Sound, WatchTyped, ClientsTyped
  <2>2. Talk(c)'
    BY <1>2, <2>1 DEF Talk
  <2>3. Offer(c)'
    BY <1>2, <2>1 DEF Offer, Confirms, Names, Reopens
  <2>4. Moves(c)
    BY <1>1, <1>3 DEF Moves, Alike, Sound, WatchTyped, ClientsTyped
  <2> QED
    BY <2>2, <2>3, <2>4 DEF Client
<1>4. CASE entry[c].listening
  <2>1. /\ f \in Entries /\ f.in = TRUE /\ f.listening = TRUE /\ ~f.opened
        /\ f.value = entry[c].value /\ f.print = entry[c].print
    BY <1>2, <1>4 DEF Entries, WatchPhases
  <2> HIDE DEF f
  <2>2. /\ e \in Entries /\ e.in = TRUE /\ e.value = f.value /\ e.print = f.print
        /\ e.opened = TRUE /\ e.waiting = TRUE
        /\ \E r \in Requests : /\ OpenFrames(f, TRUE) = <<r>>
                               /\ r.kind = "open" /\ r.have = Have(f)
    BY <2>1, OpenedIs
  <2> HIDE DEF e
  <2>3. PICK r \in Requests : /\ OpenFrames(f, TRUE) = <<r>>
                              /\ r.kind = "open" /\ r.have = Have(f)
    BY <2>2
  <2>4. u = <<r>>
    <3>1. <<r>> \in Seq(Requests)
      OBVIOUS
    <3> QED
      BY <1>2, <2>3, <3>1, ConcatEmptySeq
  <2> HIDE DEF u
  <2>5. u \in Seq(Requests) /\ Len(u) = 1 /\ DOMAIN u = 1 .. 1 /\ u[1] = r /\ u # <<>>
    BY <2>4
  <2>6. /\ entry'[c] = e /\ up'[c] = u /\ down'[c] = <<>> /\ connected'[c] = TRUE
    BY <1>1, <1>2, <1>4 DEF Sound, WatchTyped, ClientsTyped
  <2>7. Talk(c)'
    BY <2>2, <2>3, <2>5, <2>6 DEF Talk, Asked
  <2>8. r.have # Nothing => r.have.value = f.print
    BY <2>3 DEF Have
  <2>9. Names(u, <<>>, e.value)
    BY <1>2, <2>1, <2>2, <2>5, <2>8 DEF Names, NoValue, Offer
  <2>10. Reopens(u)
    BY <2>5 DEF Reopens
  <2>11. Offer(c)'
    BY <1>2, <2>1, <2>2, <2>6, <2>9, <2>10 DEF Offer, Confirms
  <2>12. Moves(c)
    BY <1>1, <1>4, <2>2, <2>5 DEF Moves, Alike, Sound, WatchTyped, ClientsTyped
  <2> QED
    BY <2>7, <2>11, <2>12 DEF Client
<1> QED
  BY <1>3, <1>4

\* A frame is taken, and the entry keeps what it held unless the frame is a value.
LEMMA ArrivalKeeps ==
  ASSUME Sound, NEW c \in Clients, Client(c), down[c] # <<>>,
         down' = [down EXCEPT ![c] = Tail(@)], UNCHANGED <<closed, source, connected, up>>,
         NEW e \in Entries, entry' = [entry EXCEPT ![c] = e], e.in = entry[c].in,
         ~e.in => e = NoEntry, e.listening = entry[c].listening,
         e.opened => entry[c].opened, e.opened /\ ~NoOpen(up[c]) => e.waiting,
         e.print = e.value, e.value = entry[c].value \/ IsValue(down[c][1])
  PROVE  Moves(c) /\ Client(c)'
<1> DEFINE d == Tail(down[c])
<1>1. /\ up[c] \in Seq(Requests) /\ down[c] \in Seq(Frames) /\ Talk(c) /\ Offer(c)
      /\ (entry[c].listening => entry[c].in)
  BY ClientIs DEF Client
<1>2. /\ d \in Seq(Frames) /\ (NoValue(down[c]) => NoValue(d)) /\ 1 \in DOMAIN down[c]
  BY <1>1, FrameTaken, TailParts
<1>3. Confirms(d, e.value)
  <2>1. Confirms(down[c], entry[c].value)
    BY <1>1 DEF Offer
  <2> QED
    BY <1>1, <2>1, FrameTaken
<1> HIDE DEF d
<1>4. /\ entry'[c] = e /\ up'[c] = up[c] /\ down'[c] = d /\ connected'[c] = connected[c]
      /\ (Routed(c)' <=> Routed(c))
  BY DEF Sound, WatchTyped, ClientsTyped, Routed, d
<1>5. Talk(c)'
  BY <1>1, <1>4 DEF Talk, Asked
<1>6. Names(up[c], down[c], entry[c].value) => Names(up[c], d, e.value)
  BY <1>2 DEF Names, NoValue
<1>7. Offer(c)'
  BY <1>1, <1>3, <1>4, <1>6 DEF Offer
<1>8. Moves(c)
  BY <1>1, <1>2 DEF Moves, Alike, Sound, WatchTyped, ClientsTyped, d
<1> QED
  BY <1>5, <1>7, <1>8 DEF Client

\* A client takes a state frame.
LEMMA StateKeeps ==
  ASSUME Sound, NEW c \in Clients, Client(c), StateArrives(c) \/ AcknowledgementArrives(c)
  PROVE  Moves(c) /\ Client(c)'
<1> DEFINE h == Head(down[c])
           p == [entry[c] EXCEPT !.phase = h.phase]
           q == [entry[c] EXCEPT !.waiting = FALSE,
                   !.phase = IF h.kind = "refused" THEN "unavailable" ELSE @]
<1>1. /\ entry[c] \in Entries /\ down[c] \in Seq(Frames) /\ up[c] \in Seq(Requests)
      /\ Talk(c) /\ Offer(c)
  BY ClientIs DEF Client
<1>2. /\ down[c] # <<>> /\ down' = [down EXCEPT ![c] = Tail(@)]
      /\ UNCHANGED <<closed, source, connected, up>>
  BY DEF StateArrives, AcknowledgementArrives, Arrives
<1>3. h \in Frames
  BY <1>1, <1>2, TailParts
<1>4. \E e \in Entries :
        /\ entry' = [entry EXCEPT ![c] = e] /\ e.in = entry[c].in
        /\ ~e.in => e = entry[c]
        /\ e.listening = entry[c].listening /\ e.opened = entry[c].opened
        /\ e.waiting # entry[c].waiting => NoOpen(up[c])
        /\ e.print = entry[c].print /\ e.value = entry[c].value
  <2>0. entry = [entry EXCEPT ![c] = entry[c]]
    BY DEF Sound, WatchTyped, ClientsTyped
  <2>1. CASE entry' = entry
    BY <1>1, <2>0, <2>1
  <2>2. CASE StateArrives(c) /\ entry[c].in
    <3>1. h.kind = "state" /\ entry' = [entry EXCEPT ![c] = p]
      BY <2>2 DEF StateArrives, Arrives, Sound, WatchTyped, ClientsTyped
    <3>2. h.phase \in WatchPhases
      BY <1>3, <3>1 DEF Frames, ValueKinds
    <3> HIDE DEF h
    <3>3. /\ p \in Entries /\ p.in = entry[c].in /\ p.listening = entry[c].listening
          /\ p.opened = entry[c].opened /\ p.waiting = entry[c].waiting
          /\ p.print = entry[c].print /\ p.value = entry[c].value
      BY <1>1, <3>2 DEF Entries
    <3> HIDE DEF p
    <3> QED
      BY <2>2, <3>1, <3>3
  <2>3. CASE AcknowledgementArrives(c) /\ AnswersLatest(c)
    <3>1. /\ entry' = [entry EXCEPT ![c] = q] /\ entry[c].waiting /\ NoOpen(up[c])
      BY <2>3 DEF AcknowledgementArrives, AnswersLatest, NoOpen, Sound, WatchTyped, ClientsTyped
    <3>2. /\ q \in Entries /\ q.in = entry[c].in /\ q.listening = entry[c].listening
          /\ q.opened = entry[c].opened
          /\ q.print = entry[c].print /\ q.value = entry[c].value
      BY <1>1 DEF Entries, WatchPhases
    <3>3. entry[c].in
      BY <1>1, <3>1, NoEntryIs DEF Talk
    <3> HIDE DEF q
    <3> QED
      BY <3>1, <3>2, <3>3
  <2> QED
    BY <2>1, <2>2, <2>3 DEF StateArrives, AcknowledgementArrives
<1>5. PICK e \in Entries :
        /\ entry' = [entry EXCEPT ![c] = e] /\ e.in = entry[c].in
        /\ ~e.in => e = entry[c]
        /\ e.listening = entry[c].listening /\ e.opened = entry[c].opened
        /\ e.waiting # entry[c].waiting => NoOpen(up[c])
        /\ e.print = entry[c].print /\ e.value = entry[c].value
  BY <1>4
<1>6. /\ ~e.in => e = NoEntry
      /\ e.opened /\ ~NoOpen(up[c]) => e.waiting
      /\ e.print = e.value
  BY <1>1, <1>5 DEF Talk, Offer
<1> QED
  BY <1>2, <1>5, <1>6, ArrivalKeeps

\* A key that starts over holds nothing, and asks for everything.
LEMMA EmptiedIs ==
  ASSUME NEW e \in Entries
  PROVE  /\ Opened(Emptied(e), TRUE) \in Entries
         /\ Opened(Emptied(e), TRUE).in = e.in
         /\ Opened(Emptied(e), TRUE).listening = e.listening
         /\ Opened(Emptied(e), TRUE).value = Nothing /\ Opened(Emptied(e), TRUE).print = Nothing
         /\ Opened(Emptied(e), TRUE).opened = TRUE /\ Opened(Emptied(e), TRUE).waiting = TRUE
         /\ Opened(Emptied(e), TRUE).answered = FALSE
         /\ Opened(Emptied(e), TRUE).phase = "resync-required"
         /\ \E p \in Requests, q \in Requests :
              /\ CloseFrames(TRUE) = <<p>> /\ p.kind = "close"
              /\ OpenFrames(Emptied(e), TRUE) = <<q>> /\ q.kind = "open" /\ q.have = Nothing
<1> DEFINE f == Emptied(e)
<1>1. /\ f \in Entries /\ f.in = e.in /\ f.listening = e.listening
      /\ f.value = Nothing /\ f.print = Nothing /\ ~f.opened /\ f.phase = "resync-required"
  BY DEF Emptied, Entries, Answered, WatchPhases
<1> HIDE DEF f
<1>2. Have(f) = Nothing
  BY <1>1 DEF Have
<1>3. /\ Opened(f, TRUE) \in Entries
      /\ Opened(f, TRUE).in = f.in /\ Opened(f, TRUE).listening = f.listening
      /\ Opened(f, TRUE).value = f.value /\ Opened(f, TRUE).print = f.print
      /\ Opened(f, TRUE).opened = TRUE /\ Opened(f, TRUE).waiting = TRUE
      /\ Opened(f, TRUE).answered = FALSE /\ Opened(f, TRUE).phase = f.phase
      /\ \E q \in Requests : OpenFrames(f, TRUE) = <<q>> /\ q.kind = "open" /\ q.have = Have(f)
  BY <1>1, OpenedIs
<1>4. \E p \in Requests : CloseFrames(TRUE) = <<p>> /\ p.kind = "close"
  BY ClosingIs
<1>5. \E p \in Requests, q \in Requests :
        /\ CloseFrames(TRUE) = <<p>> /\ p.kind = "close"
        /\ OpenFrames(f, TRUE) = <<q>> /\ q.kind = "open" /\ q.have = Nothing
  BY <1>2, <1>3, <1>4
<1> QED
  BY <1>1, <1>3, <1>5 DEF f

\* What happens to a value frame: it is late, taken, or does not fit.
LateIs(c) ==
  /\ entry[c].in => Stale(entry[c], Head(down[c]))
  /\ UNCHANGED <<entry, up>>
TakenIs(c) ==
  /\ entry[c].in /\ ~Stale(entry[c], Head(down[c])) /\ ~Misfits(entry[c], Head(down[c]))
  /\ entry' = [entry EXCEPT ![c] = Taken(entry[c], Head(down[c]))]
  /\ UNCHANGED up
MisfitIs(c) ==
  /\ entry[c].in /\ ~Stale(entry[c], Head(down[c])) /\ Misfits(entry[c], Head(down[c]))
  /\ entry' = [entry EXCEPT ![c] = Opened(Emptied(entry[c]), TRUE)]
  /\ up' = [up EXCEPT ![c] = @ \o CloseFrames(TRUE) \o OpenFrames(Emptied(entry[c]), TRUE)]

\* What a client does with a value: it holds it, it ignores it, or it asks anew.
LEMMA ValueIs ==
  ASSUME Sound, NEW c \in Clients, Client(c), ValueArrives(c)
  PROVE  /\ LateIs(c) \/ TakenIs(c) \/ MisfitIs(c)
         /\ down[c] # <<>> /\ down' = [down EXCEPT ![c] = Tail(@)]
         /\ down[c][1] \in Frames /\ Head(down[c]) = down[c][1] /\ IsValue(down[c][1])
         /\ UNCHANGED <<truth, closed, source, connected>>
<1>1. LateIs(c) \/ TakenIs(c) \/ MisfitIs(c)
  BY DEF ValueArrives, LateIs, TakenIs, MisfitIs
<1>2. /\ down[c] # <<>> /\ down' = [down EXCEPT ![c] = Tail(@)]
      /\ UNCHANGED <<truth, closed, source, connected>>
      /\ Head(down[c]).kind \in {"full", "delta", "unchanged"}
  BY DEF ValueArrives, Arrives
<1>3. down[c] \in Seq(Frames)
  BY ClientIs
<1>4. down[c][1] \in Frames /\ Head(down[c]) = down[c][1]
  BY <1>2, <1>3, TailParts
<1> QED
  BY <1>1, <1>2, <1>4 DEF IsValue, ValueKinds

\* What is taken is the value of the frame, held before if it is only confirmed.
LEMMA TakenHolds ==
  ASSUME NEW e \in Entries, NEW f \in Frames, IsValue(f), e.in, ~Misfits(e, f),
         f.kind = "unchanged" => e.value \in {Nothing, f.value}
  PROVE  /\ Taken(e, f) \in Entries
         /\ Taken(e, f).in = TRUE /\ Taken(e, f).listening = e.listening
         /\ Taken(e, f).opened = e.opened /\ Taken(e, f).waiting = e.waiting
         /\ Taken(e, f).phase = e.phase /\ Taken(e, f).answered = TRUE
         /\ Taken(e, f).revision = f.revision /\ Taken(e, f).print = f.value
         /\ Taken(e, f).value = f.value
<1>1. f.revision \in Nat /\ f.value \in Answered
  BY DEF Frames, IsValue, ValueKinds
<1>2. f.kind = "unchanged" => e.value = f.value
  BY DEF Misfits
<1> DEFINE w == IF f.kind = "unchanged" THEN e.value ELSE f.value
<1>3. w = f.value
  BY <1>2
<1> HIDE DEF w
<1>4. Taken(e, f) = [e EXCEPT !.revision = f.revision, !.print = f.value, !.answered = TRUE,
                              !.value = w]
  BY DEF Taken, w
<1>5. e.in = TRUE
  BY DEF Entries
<1> QED
  BY <1>1, <1>3, <1>4, <1>5 DEF Entries

\* A client takes a value frame.
LEMMA ValueKeeps ==
  ASSUME Sound, NEW c \in Clients, Client(c), ValueArrives(c)
  PROVE  Moves(c) /\ Client(c)'
<1> DEFINE f == down[c][1]
<1>1. /\ entry[c] \in Entries /\ down[c] \in Seq(Frames) /\ up[c] \in Seq(Requests)
      /\ Talk(c) /\ Offer(c) /\ (entry[c].listening => entry[c].in)
  BY ClientIs DEF Client
<1>2. /\ LateIs(c) \/ TakenIs(c) \/ MisfitIs(c)
      /\ down[c] # <<>> /\ down' = [down EXCEPT ![c] = Tail(@)]
      /\ f \in Frames /\ Head(down[c]) = f /\ IsValue(f)
      /\ UNCHANGED <<truth, closed, source, connected>>
  BY ValueIs
<1>3. 1 \in DOMAIN down[c]
  BY <1>1, <1>2, TailParts
<1>4. CASE LateIs(c)
  <2>1. entry' = [entry EXCEPT ![c] = entry[c]] /\ up' = up
    BY <1>4 DEF Sound, WatchTyped, ClientsTyped, LateIs
  <2> QED
    BY <1>1, <1>2, <2>1, ArrivalKeeps DEF Talk, Offer
<1>5. CASE TakenIs(c)
  <2>1. /\ entry[c].in /\ ~Misfits(entry[c], f) /\ up' = up
        /\ entry' = [entry EXCEPT ![c] = Taken(entry[c], f)]
    BY <1>2, <1>5 DEF TakenIs
  <2>2. f.kind = "unchanged" => entry[c].value \in {Nothing, f.value}
    BY <1>1, <1>3 DEF Offer, Confirms
  <2> HIDE DEF f
  <2> DEFINE e == Taken(entry[c], f)
  <2>3. /\ e \in Entries /\ e.in = TRUE /\ e.listening = entry[c].listening
        /\ e.opened = entry[c].opened /\ e.waiting = entry[c].waiting
        /\ e.value = f.value /\ e.print = f.value
    BY <1>1, <1>2, <2>1, <2>2, TakenHolds
  <2>4. entry' = [entry EXCEPT ![c] = e]
    BY <2>1
  <2> HIDE DEF e
  <2>5. entry[c].in = TRUE /\ (entry[c].opened /\ ~NoOpen(up[c]) => entry[c].waiting)
    BY <1>1, <2>1 DEF Talk, Entries
  <2> QED
    BY <1>2, <2>1, <2>3, <2>4, <2>5, ArrivalKeeps DEF f
<1>6. CASE MisfitIs(c)
  <2> DEFINE e == Opened(Emptied(entry[c]), TRUE)
             u == up[c] \o CloseFrames(TRUE) \o OpenFrames(Emptied(entry[c]), TRUE)
             d == Tail(down[c])
  <2>1. entry[c].in /\ entry' = [entry EXCEPT ![c] = e] /\ up' = [up EXCEPT ![c] = u]
    BY <1>6 DEF MisfitIs
  <2>2. /\ e \in Entries /\ e.in = entry[c].in /\ e.listening = entry[c].listening
        /\ e.value = Nothing /\ e.print = Nothing /\ e.waiting = TRUE
        /\ \E p \in Requests, q \in Requests :
             /\ CloseFrames(TRUE) = <<p>> /\ p.kind = "close"
             /\ OpenFrames(Emptied(entry[c]), TRUE) = <<q>>
             /\ q.kind = "open" /\ q.have = Nothing
    BY <1>1, EmptiedIs
  <2> HIDE DEF e
  <2>3. PICK p \in Requests, q \in Requests :
             /\ u = (up[c] \o <<p>>) \o <<q>> /\ p.kind = "close"
             /\ q.kind = "open" /\ q.have = Nothing
    BY <2>2
  <2>4. up[c] \o <<p>> \in Seq(Requests) /\ Reopens(up[c] \o <<p>>)
    BY <1>1, <2>3, OneMore, RequestAdded DEF Offer
  <2> DEFINE w == up[c] \o <<p>>
  <2>5. /\ u \in Seq(Requests) /\ u # <<>> /\ u[Len(u)].kind = "open" /\ Reopens(u)
    <3> HIDE DEF w
    <3>1. u = w \o <<q>> /\ w \in Seq(Requests) /\ Reopens(w)
      BY <2>3, <2>4 DEF w
    <3> HIDE DEF u
    <3>2. u \in Seq(Requests) /\ u # <<>>
      BY <3>1, OneMore
    <3>3. u[Len(u)] = q /\ Reopens(u)
      BY <2>3, <3>1, RequestAdded
    <3> QED
      BY <2>3, <3>2, <3>3
  <2>6. d \in Seq(Frames) /\ Confirms(d, Nothing)
    BY <1>1, <1>2, FrameTaken, TailParts DEF Offer
  <2>7. ASSUME Names(up[c], down[c], entry[c].value)  PROVE Names(u, d, Nothing)
    <3>1. Names(up[c], d, Nothing)
      BY <1>2, <1>3, <2>7 DEF Names, NoValue
    <3>2. Names(up[c] \o <<p>>, d, Nothing)
      BY <1>1, <2>3, <3>1, RequestAdded DEF Offer
    <3> QED
      BY <2>3, <2>4, <3>2, RequestAdded
  <2> HIDE DEF u, d
  <2>8. /\ entry'[c] = e /\ up'[c] = u /\ down'[c] = d /\ connected'[c] = connected[c]
        /\ (Routed(c)' <=> Routed(c)) /\ closed' = closed
    BY <1>2, <2>1 DEF Sound, WatchTyped, ClientsTyped, Routed, d
  <2>9. Talk(c)'
    BY <1>1, <1>2, <2>1, <2>2, <2>5, <2>8 DEF Talk, Asked
  <2>10. Offer(c)'
    BY <1>1, <2>2, <2>5, <2>6, <2>7, <2>8 DEF Offer
  <2>11. Moves(c)
    BY <1>1, <1>2, <2>1, <2>2, <2>5, <2>6 DEF Moves, Alike, Sound, WatchTyped, ClientsTyped, d
  <2> QED
    BY <2>9, <2>10, <2>11 DEF Client
<1> QED
  BY <1>2, <1>4, <1>5, <1>6

\* The hub hears a request.
LEMMA HeardIs ==
  ASSUME Sound, NEW c \in Clients, Client(c), HubOpens(c) \/ HubCloses(c)
  PROVE  /\ up[c] # <<>> /\ up' = [up EXCEPT ![c] = Tail(@)] /\ 1 \in DOMAIN up[c]
         /\ UNCHANGED <<truth, closed, connected, entry>> /\ connected[c]
         /\ Tail(up[c]) \in Seq(Requests) /\ Reopens(Tail(up[c]))
         /\ HubOpens(c) => up[c][1].kind = "open"
         /\ HubCloses(c) => up[c][1].kind = "close" /\ down' = down
         /\ NoOpen(up[c]) => NoOpen(Tail(up[c]))
         /\ entry[c].in /\ Tail(up[c]) # <<>> => Tail(up[c])[Len(Tail(up[c]))].kind = "open"
<1>1. /\ up[c] \in Seq(Requests) /\ Talk(c) /\ Offer(c)
  BY ClientIs DEF Client
<1>2. /\ up[c] # <<>> /\ up' = [up EXCEPT ![c] = Tail(@)]
      /\ UNCHANGED <<truth, closed, connected, entry>>
      /\ HubOpens(c) => Head(up[c]).kind = "open"
      /\ HubCloses(c) => Head(up[c]).kind = "close" /\ down' = down
  BY DEF HubOpens, HubCloses, Hears
<1>3. 1 \in DOMAIN up[c] /\ Head(up[c]) = up[c][1] /\ Tail(up[c]) \in Seq(Requests)
  BY <1>1, <1>2, TailParts
<1>4. connected[c]
  BY <1>1, <1>2 DEF Talk
<1> QED
  BY <1>1, <1>2, <1>3, <1>4, RequestHeard DEF Talk, Offer

\* The hub serves an open: what it answers fits what the client holds.
LEMMA HubOpensKeeps ==
  ASSUME Sound, NEW c \in Clients, Client(c), HubOpens(c)
  PROVE  /\ Moves(c) /\ Client(c)'
         /\ \A x \in Clients \ {c} : Routed(x)' <=> Routed(x)
<1> DEFINE u == Tail(up[c])
           d == down'[c]
<1>1. /\ entry[c] \in Entries /\ down[c] \in Seq(Frames) /\ up[c] \in Seq(Requests)
      /\ Talk(c) /\ Offer(c) /\ closed \in BOOLEAN
  BY ClientIs DEF Client, Sound, WatchTyped
<1>2. /\ up[c] # <<>> /\ up' = [up EXCEPT ![c] = u] /\ 1 \in DOMAIN up[c]
      /\ UNCHANGED <<truth, closed, connected, entry>> /\ connected[c]
      /\ u \in Seq(Requests) /\ Reopens(u) /\ up[c][1].kind = "open"
      /\ NoOpen(up[c]) => NoOpen(u)
      /\ entry[c].in /\ u # <<>> => u[Len(u)].kind = "open"
  BY HeardIs
<1>3. /\ \E t \in Seq(Frames) :
           /\ down' = [down EXCEPT ![c] = @ \o t]
           /\ \A i \in DOMAIN t : t[i].kind = "unchanged" =>
                i = 1 /\ NoValue(down[c]) /\ entry[c].value \in {Nothing, t[i].value}
      /\ closed \/ Routed(c)'
      /\ \A x \in Clients \ {c} : Routed(x)' <=> Routed(x)
  <2>1. CASE closed \/ Routed(c)
    <3>1. source' = source
      BY <2>1 DEF HubOpens
    <3>2. \E g \in Frames : down' = [down EXCEPT ![c] = @ \o <<g>>] /\ g.kind # "unchanged"
      <4>1. /\ [kind |-> "refused"] \in Frames /\ [kind |-> "accepted"] \in Frames
        BY DEF Frames
      <4> QED
        BY <2>1, <4>1 DEF HubOpens, Answers
    <3>3. PICK g \in Frames : down' = [down EXCEPT ![c] = @ \o <<g>>] /\ g.kind # "unchanged"
      BY <3>2
    <3>4. /\ <<g>> \in Seq(Frames) /\ \A i \in DOMAIN <<g>> : <<g>>[i] = g
      OBVIOUS
    <3> QED
      BY <2>1, <3>1, <3>3, <3>4 DEF Routed
  <2>2. CASE ~closed /\ ~Routed(c)
    <3>1. /\ source'.subs = source.subs \cup {Now(c)}
          /\ source'.revision = source.revision /\ source'.value = source.value
      BY <2>2, HubServes
    <3>2. PICK t \in Seq(Frames) : Serves(t, source', c) /\ down' = [down EXCEPT ![c] = @ \o t]
      BY <2>2, HubServes
    <3>3. FirstOpen(up[c], 1)
      BY <1>1, <1>2, LenProperties DEF FirstOpen
    <3>4. up[c][1].have # Nothing =>
            NoValue(down[c]) /\ entry[c].value \in {Nothing, up[c][1].have.value}
      BY <1>1, <1>2, <2>2, <3>3 DEF Offer, Names
    <3>5. ASSUME NEW i \in DOMAIN t, t[i].kind = "unchanged"
          PROVE  i = 1 /\ NoValue(down[c]) /\ entry[c].value \in {Nothing, t[i].value}
      BY <3>2, <3>4, <3>5 DEF Serves, IsValue, ValueKinds
    <3>6. Routed(c)' /\ \A x \in Clients \ {c} : Routed(x)' <=> Routed(x)
      BY <3>1 DEF Routed, Now
    <3> QED
      BY <3>2, <3>5, <3>6
  <2> QED
    BY <1>1, <2>1, <2>2
<1>4. PICK t \in Seq(Frames) :
        /\ down' = [down EXCEPT ![c] = @ \o t]
        /\ \A i \in DOMAIN t : t[i].kind = "unchanged" =>
             i = 1 /\ NoValue(down[c]) /\ entry[c].value \in {Nothing, t[i].value}
  BY <1>3
<1>5. d = down[c] \o t /\ d \in Seq(Frames)
  <2>1. d = down[c] \o t
    BY <1>4 DEF Sound, WatchTyped, ClientsTyped
  <2> QED
    BY <1>1, <2>1, FramesSent
<1>6. Confirms(d, entry[c].value)
  <2>1. Confirms(down[c], entry[c].value)
    BY <1>1 DEF Offer
  <2>2. Confirms(down[c] \o t, entry[c].value)
    BY <1>1, <1>4, <2>1, FramesSent
  <2> HIDE DEF d
  <2> QED
    BY <1>5, <2>2
<1>7. entry'[c] = entry[c] /\ up'[c] = u /\ connected'[c] = connected[c] /\ closed' = closed
  BY <1>2 DEF Sound, WatchTyped, ClientsTyped
<1> HIDE DEF u, d
<1>8. Talk(c)'
  BY <1>1, <1>2, <1>3, <1>7 DEF Talk, Asked
<1>9. Offer(c)'
  BY <1>1, <1>2, <1>3, <1>6, <1>7 DEF Offer, d
<1>10. Moves(c)
  BY <1>2, <1>4, <1>5 DEF Moves, Alike, Sound, WatchTyped, ClientsTyped, d
<1> QED
  BY <1>3, <1>8, <1>9, <1>10 DEF Client

\* Who leaves the source takes nobody with it.
LEMMA LeavesOne ==
  ASSUME Sound, NEW m \in source.subs, source' = Left(source, m)
  PROVE  /\ source'.subs = source.subs \ {m} /\ source # NoSource
         /\ source' = NoSource => ~Hold /\ source.subs = {m}
         /\ source' # NoSource => /\ source'.revision = source.revision
                                  /\ source'.value = source.value
                                  /\ source'.phase = source.phase
<1>1. /\ source \in Sources /\ truth \in Values /\ Kept(source) /\ Awaits(source)
      /\ Current(source, truth)
  BY DEF Sound, WatchTyped, SourceInv
<1> QED
  BY <1>1, LeftIs

\* The hub hears a close of a client.
LEMMA HubClosesKeeps ==
  ASSUME Sound, NEW c \in Clients, Client(c), HubCloses(c)
  PROVE  /\ Moves(c) /\ Client(c)'
         /\ ~Routed(c)' /\ \A x \in Clients \ {c} : Routed(x)' <=> Routed(x)
<1> DEFINE u == Tail(up[c])
<1>1. /\ entry[c] \in Entries /\ down[c] \in Seq(Frames) /\ up[c] \in Seq(Requests)
      /\ Talk(c) /\ Offer(c)
  BY ClientIs DEF Client
<1>2. /\ up[c] # <<>> /\ up' = [up EXCEPT ![c] = u]
      /\ UNCHANGED <<truth, closed, connected, entry, down>> /\ connected[c]
      /\ u \in Seq(Requests) /\ Reopens(u) /\ up[c][1].kind = "close"
      /\ NoOpen(up[c]) => NoOpen(u)
      /\ entry[c].in /\ u # <<>> => u[Len(u)].kind = "open"
  BY HeardIs
<1>3. ~Routed(c)' /\ \A x \in Clients \ {c} : Routed(x)' <=> Routed(x)
  <2>1. CASE Routed(c)
    <3>1. source' = Left(source, Now(c))
      BY <2>1 DEF HubCloses
    <3>2. source'.subs = source.subs \ {Now(c)}
      BY <2>1, <3>1, LeavesOne DEF Routed
    <3> QED
      BY <3>2 DEF Routed, Now
  <2>2. CASE ~Routed(c)
    <3>1. source' = source
      BY <2>2 DEF HubCloses
    <3> QED
      BY <2>2, <3>1 DEF Routed
  <2> QED
    BY <2>1, <2>2
<1>4. entry[c].in => u # <<>>
  <2>1. ASSUME u = <<>>  PROVE Len(up[c]) = 1
    <3>1. Len(u) = Len(up[c]) - 1 /\ Len(up[c]) \in Nat
      BY <1>1, <1>2, TailParts
    <3> HIDE DEF u
    <3>2. Len(u) = 0
      BY <2>1
    <3> QED
      BY <3>1, <3>2
  <2> QED
    BY <1>1, <1>2, <2>1 DEF Talk
<1>5. Names(u, down[c], entry[c].value)
  BY <1>1, <1>2, RequestHeard DEF Offer
<1> HIDE DEF u
<1>6. /\ entry'[c] = entry[c] /\ up'[c] = u /\ connected'[c] = connected[c]
      /\ down'[c] = down[c]
  BY <1>2 DEF Sound, WatchTyped, ClientsTyped
<1>7. Talk(c)'
  BY <1>1, <1>2, <1>3, <1>4, <1>6 DEF Talk, Asked
<1>8. Offer(c)'
  BY <1>1, <1>2, <1>5, <1>6 DEF Offer
<1>9. Moves(c)
  BY <1>2 DEF Moves, Alike, Sound, WatchTyped, ClientsTyped
<1> QED
  BY <1>3, <1>7, <1>8, <1>9 DEF Client

\* A step of one client's entry, or at the hub for one connection.
ClientSteps(c) ==
  \/ Subscribe(c) \/ Unsubscribe(c) \/ EntryExpires(c) \/ OpenTimesOut(c)
  \/ Disconnect(c) \/ Connect(c)
  \/ ValueArrives(c) \/ StateArrives(c) \/ AcknowledgementArrives(c)
  \/ HubOpens(c) \/ HubCloses(c)

\* What a client does of itself, or with the hub, keeps what is said of it.
LEMMA OwnSteps ==
  ASSUME Sound, NEW c \in Clients, Client(c), ClientSteps(c)
  PROVE  /\ Moves(c) /\ Client(c)' /\ closed' = closed
         /\ \A x \in Clients \ {c} : Routed(x)' <=> Routed(x)
<1>1. CASE HubOpens(c)
  <2>1. closed' = closed
    BY <1>1 DEF HubOpens, Hears
  <2> QED
    BY <1>1, <2>1, HubOpensKeeps
<1>2. CASE HubCloses(c)
  <2>1. closed' = closed
    BY <1>2 DEF HubCloses, Hears
  <2> QED
    BY <1>2, <2>1, HubClosesKeeps
<1>3. CASE Disconnect(c)
  <2>1. closed' = closed
    BY <1>3 DEF Disconnect
  <2>2. source'.subs \ {Before(c)} = source.subs \ {Now(c), Before(c)}
    BY <1>3, DropIs
  <2>3. \A x \in Clients \ {c} : Routed(x)' <=> Routed(x)
    BY <2>2 DEF Routed, Now, Before
  <2> QED
    BY <1>3, <2>1, <2>3, DisconnectKeeps
<1>4. CASE \/ Subscribe(c) \/ Unsubscribe(c) \/ EntryExpires(c) \/ OpenTimesOut(c)
           \/ Connect(c) \/ ValueArrives(c) \/ StateArrives(c) \/ AcknowledgementArrives(c)
  <2>1. closed' = closed /\ source' = source
    BY <1>4 DEF Subscribe, Unsubscribe, EntryExpires, OpenTimesOut, Connect, ValueArrives,
                StateArrives, AcknowledgementArrives, Arrives
  <2>2. Moves(c) /\ Client(c)'
    BY <1>4, SubscribeKeeps, UnsubscribeKeeps, ConnectKeeps, ValueKeeps, StateKeeps
  <2> QED
    BY <2>1, <2>2 DEF Routed
<1> QED
  BY <1>1, <1>2, <1>3, <1>4 DEF ClientSteps

\* What is sent to those who are routed confirms nothing.
LEMMA HeardKeeps ==
  ASSUME Sound, NEW c \in Clients, Client(c), NEW t \in Seq(Frames),
         entry'[c] = entry[c], up'[c] = up[c], connected'[c] = connected[c],
         down'[c] = (IF Routed(c) THEN down[c] \o t ELSE down[c]),
         \A i \in DOMAIN t : t[i].kind # "unchanged",
         \/ closed' = closed /\ (Routed(c)' <=> Routed(c))
         \/ closed' /\ ~Routed(c)'
  PROVE  Client(c)' /\ down'[c] \in Seq(Frames)
<1>1. /\ Talk(c) /\ Offer(c) /\ down[c] \in Seq(Frames)
  BY ClientIs DEF Client
<1>2. down'[c] \in Seq(Frames)
  BY <1>1, FramesSent
<1>3. Confirms(down'[c], entry[c].value)
  <2>1. Confirms(down[c], entry[c].value)
    BY <1>1 DEF Offer
  <2>2. Confirms(down[c] \o t, entry[c].value)
    BY <1>1, <2>1, FramesSent
  <2> QED
    BY <2>1, <2>2
<1>4. Talk(c)'
  BY <1>1 DEF Talk, Asked
<1>5. Offer(c)'
  BY <1>1, <1>3 DEF Offer
<1> QED
  BY <1>2, <1>4, <1>5 DEF Client

\* The steps that everyone on a connection may hear of.
LEMMA SourceSteps ==
  ASSUME Sound, \A c \in Clients : Client(c),
         SourceExpires \/ Change \/ ReadEnds \/ ReadFails \/ RetryRead \/ CloseHub
  PROVE  ClientsTyped' /\ \A c \in Clients : Client(c)'
<1>1. /\ UNCHANGED <<connected, entry, up>> /\ ClientsTyped /\ NoSource.subs = {}
      /\ Kept(source)
  BY NewSourceIs DEF SourceExpires, Change, ReadEnds, ReadFails, RetryRead, CloseHub,
                     Sound, WatchTyped, SourceInv
<1>2. CASE SourceExpires \/ Change \/ RetryRead
  <2>1. closed' = closed /\ down' = down
    BY <1>2 DEF SourceExpires, Change, RetryRead
  <2>2. source'.subs = source.subs
    <3>1. CASE SourceExpires
      BY <1>1, <3>1 DEF SourceExpires, Kept
    <3> QED
      BY <1>2, <3>1, ReadIsDue
  <2>3. \A c \in Clients : Client(c)'
    BY <1>1, <2>1, <2>2, AlikeKeeps DEF Alike, Routed
  <2> QED
    BY <1>1, <2>1, <2>3 DEF ClientsTyped
<1>3. ASSUME \A c \in Clients : Client(c)' /\ down'[c] \in Seq(Frames),
             down' = [c \in Clients |-> down'[c]]
      PROVE  ClientsTyped' /\ \A c \in Clients : Client(c)'
  <2>1. down' \in [Clients -> Seq(Frames)]
    <3> DEFINE d == down'
    <3>1. d = [c \in Clients |-> d[c]] /\ \A c \in Clients : d[c] \in Seq(Frames)
      BY <1>3
    <3> HIDE DEF d
    <3>2. d \in [Clients -> Seq(Frames)]
      BY <3>1
    <3> QED
      BY <3>2 DEF d
  <2> QED
    BY <1>1, <1>3, <2>1 DEF ClientsTyped
<1>4. CASE ReadEnds
  <2>1. closed' = closed /\ down' = [c \in Clients |-> down'[c]]
    BY <1>4 DEF ReadEnds, Told
  <2>2. ASSUME NEW c \in Clients  PROVE Client(c)' /\ down'[c] \in Seq(Frames)
    <3>1. PICK t \in Seq(Frames) :
            /\ Brings(t, source', source.revision)
            /\ down'[c] = IF Routed(c) THEN down[c] \o t ELSE down[c]
      BY <1>4, HubReads
    <3>2. Routed(c)' <=> Routed(c)
      BY <1>4, HubReads DEF Routed
    <3>3. \A i \in DOMAIN t : t[i].kind # "unchanged"
      BY <3>1 DEF Brings, IsValue, ValueKinds
    <3> QED
      BY <1>1, <2>1, <3>1, <3>2, <3>3, HeardKeeps
  <2> QED
    BY <1>3, <2>1, <2>2
<1>5. ASSUME NEW t \in Seq(Frames), \A i \in DOMAIN t : t[i].kind # "unchanged",
             down' = Told(source, [c \in Clients |-> t]),
             NEW c \in Clients,
             \/ closed' = closed /\ (Routed(c)' <=> Routed(c))
             \/ closed' /\ ~Routed(c)'
      PROVE  Client(c)' /\ down'[c] \in Seq(Frames)
  <2>1. down'[c] = IF Routed(c) THEN down[c] \o t ELSE down[c]
    BY <1>5 DEF Told, Routed
  <2> QED
    BY <1>1, <1>5, <2>1, HeardKeeps
<1> DEFINE t == <<StateFrame("unavailable")>>
<1>6. t \in Seq(Frames) /\ \A i \in DOMAIN t : t[i].kind # "unchanged"
  BY DEF StateFrame, Frames, WatchPhases
<1> HIDE DEF t
<1>7. CASE ReadFails \/ CloseHub
  <2>1. CASE down' = down
    <3>1. ASSUME NEW c \in Clients  PROVE Client(c)'
      <4>1. \/ closed' = closed /\ (Routed(c)' <=> Routed(c))
            \/ closed' /\ ~Routed(c)'
        BY <1>1, <1>7, ReadIsDue DEF ReadFails, CloseHub, Routed
      <4>2. \A s \in Seq(Frames) : s = <<>> => down[c] \o s = down[c]
        BY ClientIs, ConcatEmptySeq
      <4>3. /\ <<>> \in Seq(Frames) /\ \A i \in DOMAIN <<>> : <<>>[i].kind # "unchanged"
        OBVIOUS
      <4> QED
        BY <1>1, <2>1, <4>1, <4>2, <4>3, HeardKeeps
    <3> QED
      BY <1>1, <2>1, <3>1 DEF ClientsTyped
  <2>2. CASE down' = Told(source, [c \in Clients |-> t])
    <3>1. down' = [c \in Clients |-> down'[c]]
      BY <2>2 DEF Told
    <3>2. ASSUME NEW c \in Clients  PROVE Client(c)' /\ down'[c] \in Seq(Frames)
      <4>1. \/ closed' = closed /\ (Routed(c)' <=> Routed(c))
            \/ closed' /\ ~Routed(c)'
        BY <1>1, <1>7, ReadIsDue DEF ReadFails, CloseHub, Routed
      <4> QED
        BY <1>5, <1>6, <2>2, <4>1
    <3> QED
      BY <1>3, <3>1, <3>2
  <2> QED
    BY <1>7, <2>1, <2>2 DEF ReadFails, CloseHub, t
<1> QED
  BY <1>2, <1>4, <1>7

\* The process of the hub is replaced.
LEMMA RestartKeeps ==
  ASSUME Sound, \A c \in Clients : Client(c), Restart
  PROVE  ClientsTyped' /\ \A c \in Clients : Client(c)'
<1> DEFINE e(c) == IF connected[c] THEN Dropped(entry[c]) ELSE entry[c]
<1>1. /\ entry' = [c \in Clients |-> e(c)] /\ up' = [c \in Clients |-> <<>>]
      /\ down' = [c \in Clients |-> <<>>] /\ connected' = [c \in Clients |-> FALSE]
      /\ source' = NoSource
  BY DEF Restart
<1>2. ASSUME NEW c \in Clients
      PROVE  /\ e(c) \in Entries /\ e(c).in = entry[c].in
             /\ e(c).listening = entry[c].listening /\ (entry[c].listening => entry[c].in)
             /\ ~e(c).in => e(c) = NoEntry
             /\ e(c).value = entry[c].value /\ e(c).print = entry[c].print
             /\ ~e(c).opened /\ e(c).phase # "live"
  <2>1. /\ entry[c] \in Entries /\ (~entry[c].in => entry[c] = NoEntry)
        /\ (entry[c].listening => entry[c].in)
        /\ ~connected[c] => ~entry[c].opened /\ entry[c].phase # "live"
    BY ClientIs DEF Client, Talk
  <2>2. CASE connected[c]
    BY <2>1, <2>2, DroppedIs
  <2> QED
    BY <2>1, <2>2
<1>3. \A c \in Clients : e(c) \in Entries
  BY <1>2
<1>4. ASSUME NEW c \in Clients  PROVE Client(c)'
  <2> DEFINE f == e(c)
  <2>1. /\ f.in = entry[c].in /\ (~f.in => f = NoEntry)
        /\ f.value = entry[c].value /\ f.print = entry[c].print
        /\ ~f.opened /\ f.phase # "live"
    BY <1>2
  <2>2. entry'[c] = f /\ up'[c] = <<>> /\ down'[c] = <<>> /\ connected'[c] = FALSE
    BY <1>1
  <2> HIDE DEF f
  <2>3. ~Routed(c)'
    BY <1>1, NewSourceIs DEF Routed
  <2>4. Talk(c)'
    BY <2>1, <2>2, <2>3 DEF Talk
  <2>5. entry[c].print = entry[c].value
    BY DEF Client, Offer
  <2>6. Offer(c)'
    BY <2>1, <2>2, <2>5 DEF Offer, Confirms, Names, Reopens
  <2> QED
    BY <2>4, <2>6 DEF Client
<1>5. ClientsTyped'
  <2>1. /\ entry' \in [Clients -> Entries]
        /\ \A c \in Clients : entry'[c].listening => entry'[c].in
    BY <1>1, <1>2, <1>3
  <2>2. /\ up' \in [Clients -> Seq(Requests)] /\ down' \in [Clients -> Seq(Frames)]
        /\ connected' \in [Clients -> BOOLEAN]
    BY <1>1
  <2> QED
    BY <2>1, <2>2 DEF ClientsTyped
<1> QED
  BY <1>4, <1>5

-----------------------------------------------------------------------------
(* The invariant holds *)

WatchInv == Sound /\ \A c \in Clients : Client(c)

\* The invariant holds before anything is asked.
LEMMA WatchStarts ==
  ASSUME WatchInit
  PROVE  WatchInv
<1>1. /\ truth \in Values /\ closed = FALSE /\ source = NoSource
      /\ connected = [c \in Clients |-> TRUE] /\ entry = [c \in Clients |-> NoEntry]
      /\ up = [c \in Clients |-> <<>>] /\ down = [c \in Clients |-> <<>>]
  BY DEF WatchInit
<1>2. SourceInv
  BY <1>1, NewSourceIs DEF SourceInv, Awaits, Current
<1>3. WatchTyped
  <2>1. truth \in Values /\ closed \in BOOLEAN /\ source \in Sources
    BY <1>1, NewSourceIs
  <2>2. NoEntry \in Entries /\ (NoEntry.listening => NoEntry.in)
    BY NoEntryIs
  <2>3. up \in [Clients -> Seq(Requests)] /\ down \in [Clients -> Seq(Frames)]
    BY <1>1
  <2>4. /\ connected \in [Clients -> BOOLEAN] /\ entry \in [Clients -> Entries]
        /\ \A c \in Clients : entry[c] = NoEntry
    BY <1>1, <2>2
  <2> QED
    BY <2>1, <2>2, <2>3, <2>4 DEF WatchTyped, ClientsTyped
<1>4. ASSUME NEW c \in Clients  PROVE Client(c)
  <2>1. /\ entry[c] = NoEntry /\ up[c] = <<>> /\ down[c] = <<>> /\ connected[c] = TRUE
    BY <1>1
  <2>2. Talk(c)
    BY <2>1, NoEntryIs DEF Talk
  <2>3. Offer(c)
    BY <2>1, NoEntryIs DEF Offer, Confirms, Names, Reopens
  <2> QED
    BY <2>2, <2>3 DEF Client
<1> QED
  BY <1>2, <1>3, <1>4 DEF WatchInv, Sound

\* Every step of a watched read keeps the invariant.
LEMMA WatchKeeps ==
  ASSUME WatchInv, [WatchNext]_watchVars
  PROVE  WatchInv'
<1>1. Sound /\ \A c \in Clients : Client(c)
  BY DEF WatchInv
<1>2. CASE UNCHANGED watchVars
  BY <1>1, <1>2 DEF watchVars, WatchInv, Sound, WatchTyped, ClientsTyped, SourceInv, Client,
                    Talk, Offer, Asked, Routed
<1>3. CASE WatchNext
  <2>1. source' \in Sources /\ SourceInv' /\ truth' \in Values /\ closed' \in BOOLEAN
    BY <1>1, <1>3, SourceStep
  <2>2. ASSUME NEW c \in Clients, ClientSteps(c)
        PROVE  ClientsTyped' /\ \A x \in Clients : Client(x)'
    <3>1. /\ Moves(c) /\ Client(c)' /\ closed' = closed
          /\ \A x \in Clients \ {c} : Routed(x)' <=> Routed(x)
      BY <1>1, <2>2, OwnSteps
    <3>2. ASSUME NEW x \in Clients \ {c}  PROVE Client(x)'
      BY <1>1, <3>1, AlikeKeeps DEF Moves
    <3> QED
      BY <3>1, <3>2 DEF Moves
  <2>3. ASSUME NEW c \in Clients, Detach(c)
        PROVE  ClientsTyped' /\ \A x \in Clients : Client(x)'
    <3>1. /\ UNCHANGED <<closed, connected, entry, up, down>>
          /\ source'.subs = source.subs \ {Before(c)}
      BY <1>1, <2>3, LeavesOne DEF Detach
    <3>2. \A x \in Clients : Client(x)'
      BY <1>1, <3>1, AlikeKeeps DEF Alike, Routed, Now, Before
    <3> QED
      BY <1>1, <3>1, <3>2 DEF Sound, WatchTyped, ClientsTyped
  <2>4. ClientsTyped' /\ \A x \in Clients : Client(x)'
    BY <1>1, <1>3, <2>2, <2>3, SourceSteps, RestartKeeps DEF WatchNext, ClientSteps
  <2> QED
    BY <2>1, <2>4 DEF WatchInv, Sound, WatchTyped
<1> QED
  BY <1>2, <1>3

\* What the hub, every client and what is on their way are to each other, at
\* every moment.
THEOREM WatchSound == WatchSpec => []WatchInv
<1>1. WatchInit => WatchInv
  BY WatchStarts
<1>2. WatchInv /\ [WatchNext]_watchVars => WatchInv'
  BY WatchKeeps
<1> QED
  BY <1>1, <1>2, PTL DEF WatchSpec

\* The fingerprint that a client offers is that of the value it holds.
THEOREM OffersAlways == WatchSpec => []OffersWhatItHolds
<1>1. WatchInv => OffersWhatItHolds
  BY DEF WatchInv, Client, Offer, OffersWhatItHolds
<1> QED
  BY <1>1, WatchSound, PTL

\* The type invariant of a watched read.
THEOREM WatchTypes == WatchSpec => []WatchTypeOK
<1>1. WatchInv => WatchTypeOK
  <2> SUFFICES ASSUME WatchInv  PROVE WatchTypeOK
    OBVIOUS
  <2>1. /\ truth \in Values /\ closed \in BOOLEAN /\ source \in Sources /\ Kept(source)
    BY DEF WatchInv, Sound, WatchTyped, SourceInv
  <2>2. ASSUME NEW c \in Clients
        PROVE  /\ entry[c].value \in Values \cup {Nothing} /\ entry[c].phase \in WatchPhases
               /\ entry[c].revision \in Nat
               /\ entry[c].listening \/ entry[c].opened => entry[c].in
    <3>1. entry[c] \in Entries /\ (entry[c].listening => entry[c].in) /\ Talk(c)
      BY ClientIs DEF WatchInv, Client
    <3> QED
      BY <3>1, NoEntryIs DEF Entries, Answered, Talk
  <2>3. /\ source.subs \subseteq Subscribers
        /\ \A m \in Subscribers : source.base[m] <= source.revision
        /\ source.value = Nothing <=> source.revision = 0
    BY <2>1 DEF Kept, Sources
  <2> QED
    BY <2>1, <2>2, <2>3 DEF WatchTypeOK
<1> QED
  BY <1>1, WatchSound, PTL

-----------------------------------------------------------------------------
(* Values along a connection *)

LEMMA AgreesOn ==
  ASSUME NEW r \in Nat, NEW s \in Nat, NEW q \in Nat, NEW v, NEW w, NEW x,
         Agrees(r, v, s, w), Agrees(s, w, q, x)
  PROVE  Agrees(r, v, q, x)
BY DEF Agrees

\* The revisions of what a connection carries, after a frame is sent.
LEMMA ValuesSent ==
  ASSUME NEW d \in Seq(Frames), NEW t \in Seq(Frames), NEW s \in Sources, Rises(d),
         \A i \in DOMAIN t : IsValue(t[i]) =>
           i = 1 /\ t[i].revision = s.revision /\ t[i].value = s.value /\ s # NoSource,
         NoValue(t) \/ Reach(d, s)
  PROVE  /\ Rises(d \o t)
         /\ Reach(d, s) => Reach(d \o t, s)
         /\ \A r, v : /\ Newer(d, r, v)
                      /\ NoValue(t) \/ Agrees(r, v, s.revision, s.value)
                      => Newer(d \o t, r, v)
         /\ \A r : NoValue(t) /\ EndsAt(d, r) => EndsAt(d \o t, r)
         /\ ~NoValue(t) => EndsAt(d \o t, s.revision)
<1> DEFINE h == d \o t
           n == Len(d)
           m == Len(t)
<1>1. /\ h \in Seq(Frames) /\ n \in Nat /\ m \in Nat
      /\ DOMAIN d = 1 .. n /\ DOMAIN t = 1 .. m /\ DOMAIN h = 1 .. n + m
      /\ \A i \in 1 .. n : i \in 1 .. n + m /\ h[i] = d[i]
      /\ \A i \in 1 .. m : n + i \in 1 .. n + m /\ h[n + i] = t[i]
      /\ \A i \in 1 .. n + m : i \in 1 .. n \/ \E j \in 1 .. m : i = n + j
  <2>1. /\ h \in Seq(Frames) /\ n \in Nat /\ m \in Nat
        /\ DOMAIN d = 1 .. n /\ DOMAIN t = 1 .. m /\ DOMAIN h = 1 .. n + m
        /\ \A i \in DOMAIN d : i \in DOMAIN h /\ h[i] = d[i]
        /\ \A i \in DOMAIN t : n + i \in DOMAIN h /\ h[n + i] = t[i]
        /\ \A i \in DOMAIN h : i \in DOMAIN d \/ \E j \in DOMAIN t : i = n + j
    BY ConcatParts
  <2> HIDE DEF h, n, m
  <2> QED
    BY <2>1
<1> HIDE DEF h, n, m
<1>2. s.revision \in Nat
  BY DEF Sources
<1>3. ASSUME NEW i \in 1 .. n + m, IsValue(h[i])
      PROVE  \/ i \in 1 .. n /\ h[i] = d[i]
             \/ /\ i = n + 1 /\ h[i].revision = s.revision /\ h[i].value = s.value
                /\ s # NoSource /\ ~NoValue(t)
  <2>1. ASSUME NEW j \in 1 .. m, i = n + j
        PROVE  /\ i = n + 1 /\ h[i].revision = s.revision /\ h[i].value = s.value
               /\ s # NoSource /\ ~NoValue(t)
    <3>1. h[i] = t[j] /\ IsValue(t[j])
      BY <1>1, <1>3, <2>1
    <3>2. j = 1 /\ t[j].revision = s.revision /\ t[j].value = s.value /\ s # NoSource
      BY <1>1, <3>1
    <3>3. ~NoValue(t)
      BY <1>1, <3>1 DEF NoValue
    <3> QED
      BY <2>1, <3>1, <3>2, <3>3
  <2> QED
    BY <1>1, <2>1
<1>4. Rises(h)
  <2> SUFFICES ASSUME NEW i \in 1 .. n + m, NEW j \in 1 .. n + m,
                      IsValue(h[i]), IsValue(h[j]), i < j
               PROVE  Agrees(h[i].revision, h[i].value, h[j].revision, h[j].value)
    BY <1>1 DEF Rises
  <2>1. CASE j \in 1 .. n
    <3>1. i \in 1 .. n /\ h[i] = d[i] /\ h[j] = d[j]
      BY <1>1, <2>1
    <3> QED
      BY <1>1, <2>1, <3>1 DEF Rises
  <2>2. CASE j \notin 1 .. n
    <3>1. /\ j = n + 1 /\ h[j].revision = s.revision /\ h[j].value = s.value /\ ~NoValue(t)
      BY <1>3, <2>2
    <3>2. i \in 1 .. n /\ h[i] = d[i]
      BY <1>1, <3>1
    <3>3. Behind(d[i].revision, d[i].value, s)
      BY <1>1, <3>1, <3>2 DEF Reach
    <3> QED
      BY <3>1, <3>2, <3>3 DEF Behind
  <2> QED
    BY <2>1, <2>2
<1>5. ASSUME Reach(d, s)  PROVE Reach(h, s)
  <2> SUFFICES ASSUME NEW i \in 1 .. n + m, IsValue(h[i])
               PROVE  Behind(h[i].revision, h[i].value, s)
    BY <1>1 DEF Reach
  <2> QED
    <3>1. CASE i \in 1 .. n /\ h[i] = d[i]
      BY <1>1, <1>5, <3>1 DEF Reach
    <3>2. CASE h[i].revision = s.revision /\ h[i].value = s.value /\ s # NoSource
      BY <1>2, <3>2 DEF Behind, Agrees
    <3> QED
      BY <1>3, <3>1, <3>2
<1>6. ASSUME NEW r, NEW v, Newer(d, r, v), NoValue(t) \/ Agrees(r, v, s.revision, s.value)
      PROVE  Newer(h, r, v)
  <2> SUFFICES ASSUME NEW i \in 1 .. n + m, IsValue(h[i])
               PROVE  Agrees(r, v, h[i].revision, h[i].value)
    BY <1>1 DEF Newer
  <2>1. CASE i \in 1 .. n /\ h[i] = d[i]
    BY <1>1, <1>6, <2>1 DEF Newer
  <2> QED
    BY <1>3, <1>6, <2>1
<1>7. ASSUME NEW r, NoValue(t), EndsAt(d, r)  PROVE EndsAt(h, r)
  <2> SUFFICES ASSUME NEW i \in 1 .. n + m, IsValue(h[i]),
                      \A j \in 1 .. n + m : IsValue(h[j]) => j <= i
               PROVE  h[i].revision = r
    BY <1>1 DEF EndsAt
  <2>1. i \in 1 .. n /\ h[i] = d[i]
    BY <1>3, <1>7
  <2>2. \A j \in 1 .. n : IsValue(d[j]) => j <= i
    BY <1>1
  <2> QED
    BY <1>1, <1>7, <2>1, <2>2 DEF EndsAt
<1>8. ASSUME ~NoValue(t)  PROVE EndsAt(h, s.revision)
  <2> SUFFICES ASSUME NEW i \in 1 .. n + m, IsValue(h[i]),
                      \A j \in 1 .. n + m : IsValue(h[j]) => j <= i
               PROVE  h[i].revision = s.revision
    BY <1>1 DEF EndsAt
  <2>1. PICK k \in 1 .. m : IsValue(t[k])
    BY <1>1, <1>8 DEF NoValue
  <2>2. n + k <= i
    BY <1>1, <2>1
  <2>3. i \notin 1 .. n
    BY <1>1, <2>2
  <2> QED
    BY <1>3, <2>3
<1> QED
  BY <1>4, <1>5, <1>6, <1>7, <1>8 DEF h

\* The revisions of what a connection carries, after a frame is taken.
LEMMA ValuesTaken ==
  ASSUME NEW d \in Seq(Frames), d # <<>>, Rises(d)
  PROVE  /\ Rises(Tail(d))
         /\ \A s : Reach(d, s) => Reach(Tail(d), s)
         /\ \A r, v : Newer(d, r, v) => Newer(Tail(d), r, v)
         /\ IsValue(d[1]) => Newer(Tail(d), d[1].revision, d[1].value)
         /\ \A r : EndsAt(d, r) => EndsAt(Tail(d), r)
         /\ \A r : EndsAt(d, r) /\ IsValue(d[1]) /\ NoValue(Tail(d)) => d[1].revision = r
<1> DEFINE t == Tail(d)
           n == Len(d)
<1>1. /\ t \in Seq(Frames) /\ n \in Nat \ {0}
      /\ DOMAIN d = 1 .. n /\ DOMAIN t = 1 .. n - 1
      /\ \A i \in 1 .. n - 1 : i + 1 \in 1 .. n /\ t[i] = d[i + 1]
  BY TailParts
<1> HIDE DEF t, n
<1>2. \A i \in 1 .. n : i # 1 => i - 1 \in 1 .. n - 1 /\ t[i - 1] = d[i]
  <2> TAKE i \in 1 .. n
  <2> HAVE i # 1
  <2>1. i - 1 \in 1 .. n - 1 /\ (i - 1) + 1 = i
    BY <1>1
  <2> QED
    BY <1>1, <2>1
<1>3. Rises(t)
  <2> SUFFICES ASSUME NEW i \in 1 .. n - 1, NEW j \in 1 .. n - 1,
                      IsValue(t[i]), IsValue(t[j]), i < j
               PROVE  Agrees(t[i].revision, t[i].value, t[j].revision, t[j].value)
    BY <1>1 DEF Rises
  <2>1. /\ i + 1 \in 1 .. n /\ j + 1 \in 1 .. n /\ i + 1 < j + 1
        /\ t[i] = d[i + 1] /\ t[j] = d[j + 1]
    BY <1>1
  <2> QED
    BY <1>1, <2>1 DEF Rises
<1>4. ASSUME NEW s, Reach(d, s)  PROVE Reach(t, s)
  BY <1>1, <1>4 DEF Reach
<1>5. ASSUME NEW r, NEW v, Newer(d, r, v)  PROVE Newer(t, r, v)
  BY <1>1, <1>5 DEF Newer
<1>6. ASSUME IsValue(d[1])  PROVE Newer(t, d[1].revision, d[1].value)
  <2> SUFFICES ASSUME NEW i \in 1 .. n - 1, IsValue(t[i])
               PROVE  Agrees(d[1].revision, d[1].value, t[i].revision, t[i].value)
    BY <1>1 DEF Newer
  <2>1. 1 \in 1 .. n /\ i + 1 \in 1 .. n /\ 1 < i + 1 /\ t[i] = d[i + 1]
    BY <1>1
  <2> QED
    BY <1>1, <1>6, <2>1 DEF Rises
<1>7. ASSUME NEW r, EndsAt(d, r)  PROVE EndsAt(t, r)
  <2> SUFFICES ASSUME NEW i \in 1 .. n - 1, IsValue(t[i]),
                      \A j \in 1 .. n - 1 : IsValue(t[j]) => j <= i
               PROVE  t[i].revision = r
    BY <1>1 DEF EndsAt
  <2>1. i + 1 \in 1 .. n /\ t[i] = d[i + 1]
    BY <1>1
  <2>2. ASSUME NEW j \in 1 .. n, IsValue(d[j])  PROVE j <= i + 1
    <3>1. CASE j = 1
      BY <3>1
    <3>2. CASE j # 1
      BY <1>1, <1>2, <2>2, <3>2
    <3> QED
      BY <3>1, <3>2
  <2> QED
    <3>1. IsValue(d[i + 1])
      BY <2>1
    <3>2. ASSUME NEW k \in 1 .. n, IsValue(d[k]), \A j \in 1 .. n : IsValue(d[j]) => j <= k
          PROVE  d[k].revision = r
      BY <1>1, <1>7, <3>2 DEF EndsAt
    <3>3. d[i + 1].revision = r
      BY <2>1, <2>2, <3>1, <3>2
    <3> QED
      BY <2>1, <3>3
<1>8. ASSUME NEW r, EndsAt(d, r), IsValue(d[1]), NoValue(t)  PROVE d[1].revision = r
  <2>1. ASSUME NEW j \in 1 .. n, IsValue(d[j])  PROVE j <= 1
    <3>1. ASSUME j # 1  PROVE FALSE
      <4>1. j - 1 \in DOMAIN t /\ t[j - 1] = d[j]
        BY <1>1, <1>2, <3>1
      <4>2. \A i \in DOMAIN t : ~IsValue(t[i])
        BY <1>8 DEF NoValue
      <4> QED
        BY <2>1, <4>1, <4>2
    <3> QED
      BY <3>1
  <2>2. 1 \in 1 .. n
    BY <1>1
  <2> QED
    BY <1>1, <1>8, <2>1, <2>2 DEF EndsAt
<1> QED
  BY <1>3, <1>4, <1>5, <1>6, <1>7, <1>8 DEF t

-----------------------------------------------------------------------------
(* Each step keeps what holds while the hub holds its sources *)

\* The source is the same to those who have heard of it.
Stays ==
  source # NoSource =>
    /\ source' # NoSource /\ source'.revision = source.revision
    /\ source'.value = source.value /\ source'.phase = source.phase

\* The source has gone on.
Grows ==
  source # NoSource =>
    source' # NoSource /\ Agrees(source.revision, source.value, source'.revision, source'.value)

\* A source that stays the same has grown by nothing.
LEMMA StaysGrows ==
  ASSUME Sound, Stays  PROVE Grows
<1>1. source.revision \in Nat
  BY DEF Sound, WatchTyped, Sources
<1> QED
  BY <1>1 DEF Stays, Grows, Agrees

\* What is on its way is still no newer than a source that grew.
LEMMA GrowsKeeps ==
  ASSUME Sound, Grows, source' \in Sources, NEW d \in Seq(Frames)
  PROVE  /\ \A r \in Nat : \A v : Behind(r, v, source) => Behind(r, v, source')
         /\ Reach(d, source) => Reach(d, source')
<1>1. source.revision \in Nat /\ source'.revision \in Nat
  BY DEF Sound, WatchTyped, Sources
<1>2. ASSUME NEW r \in Nat, NEW v, Behind(r, v, source)  PROVE Behind(r, v, source')
  <2>1. source # NoSource /\ Agrees(r, v, source.revision, source.value)
    BY <1>2 DEF Behind
  <2>2. /\ source' # NoSource
        /\ Agrees(source.revision, source.value, source'.revision, source'.value)
    BY <2>1 DEF Grows
  <2>3. Agrees(r, v, source'.revision, source'.value)
    BY <1>1, <2>1, <2>2, AgreesOn
  <2> QED
    BY <2>2, <2>3 DEF Behind
<1>3. ASSUME Reach(d, source)  PROVE Reach(d, source')
  <2> SUFFICES ASSUME NEW i \in DOMAIN d, IsValue(d[i])
               PROVE  Behind(d[i].revision, d[i].value, source')
    BY DEF Reach
  <2>1. Behind(d[i].revision, d[i].value, source)
    BY <1>3 DEF Reach
  <2>2. d[i] \in Frames
    BY LenProperties, ElementOfSeq
  <2>3. d[i].revision \in Nat
    BY <2>2 DEF Frames, IsValue, ValueKinds
  <2> QED
    BY <1>2, <2>1, <2>3
<1> QED
  BY <1>2, <1>3

\* A client that a step does not touch, on a source that grew.
LEMMA HeldAlike ==
  ASSUME Sound, NEW c \in Clients, Client(c), Held(c), Alike(c), closed' = closed,
         Routed(c)' <=> Routed(c), source' \in Sources, Grows,
         Routed(c) => /\ source'.revision = source.revision /\ source'.value = source.value
                      /\ source'.phase = source.phase
  PROVE  Held(c)'
<1>1. entry[c] \in Entries /\ down[c] \in Seq(Frames)
  BY ClientIs
<1>2. Reach(down[c], source) => Reach(down[c], source')
  BY <1>1, GrowsKeeps
<1>3. entry[c].revision \in Nat
  BY <1>1 DEF Entries
<1>4. Behind(entry[c].revision, entry[c].value, source) =>
        Behind(entry[c].revision, entry[c].value, source')
  BY <1>1, <1>3, GrowsKeeps
<1>5. /\ entry'[c] = entry[c] /\ up'[c] = up[c] /\ down'[c] = down[c]
      /\ connected'[c] = connected[c] /\ (Asked(c)' <=> Asked(c))
  BY DEF Alike, Asked
<1>6. Versions(c)'
  <2> HIDE DEF Behind, Reach
  <2> QED
    BY <1>2, <1>4, <1>5 DEF Held, Versions
<1>7. Follows(c)'
  BY <1>5 DEF Held, Follows
<1>8. Phases(c)'
  BY <1>5 DEF Held, Phases
<1> QED
  BY <1>6, <1>7, <1>8 DEF Held

\* Nothing is sent or heard, and the source is the same.
LEMMA EntryHolds ==
  ASSUME Sound, NEW c \in Clients, Client(c), Held(c),
         UNCHANGED <<closed, source, connected, down>>,
         NEW e, NEW u, entry'[c] = e, up'[c] = u,
         e.in /\ entry[c].in => e.revision = entry[c].revision /\ e.value = entry[c].value,
         e.in /\ e.answered => entry[c].in /\ entry[c].answered /\ u = up[c],
         NoClose(u) => NoClose(up[c]),
         ~e.in /\ Routed(c) => ~NoClose(u),
         ~e.in /\ u # <<>> => u[Len(u)].kind = "close",
         e.phase = "live" => entry[c].phase = "live",
         e.opened /\ NoOpen(u) =>
           entry[c].opened /\ NoOpen(up[c]) /\ (entry[c].waiting => e.waiting)
  PROVE  Held(c)'
<1>1. (Routed(c)' <=> Routed(c)) /\ Talk(c)
  BY DEF Routed, Client
<1>2. Versions(c)'
  BY DEF Held, Versions, Asked, Routed
<1>3. Follows(c)'
  BY <1>1 DEF Held, Follows
<1>4. WouldShowLive(e, down[c]) => WouldShowLive(entry[c], down[c])
  BY DEF WouldShowLive
<1>5. Phases(c)'
  BY <1>1, <1>4 DEF Held, Phases
<1> QED
  BY <1>2, <1>3, <1>5 DEF Held

\* A sequence with nothing behind its head has one element.
LEMMA LastStays ==
  ASSUME NEW S, NEW s \in Seq(S), s # <<>>, Tail(s) = <<>>
  PROVE  Len(s) = 1
<1>1. Len(Tail(s)) = Len(s) - 1 /\ Len(s) \in Nat
  BY TailParts
<1> DEFINE t == Tail(s)
<1>2. Len(t) = Len(s) - 1 /\ t = <<>>
  BY <1>1
<1> HIDE DEF t
<1>3. Len(t) = 0
  BY <1>2
<1> QED
  BY <1>1, <1>2, <1>3

\* A frame is taken, and nothing is asked.
LEMMA FrameHolds ==
  ASSUME Sound, NEW c \in Clients, Client(c), Held(c), down[c] # <<>>,
         UNCHANGED <<closed, source, connected, up>>,
         NEW e, NEW f, f = down[c][1], entry'[c] = e, down'[c] = Tail(down[c]),
         e.in = entry[c].in,
         \/ /\ e.answered = entry[c].answered /\ e.revision = entry[c].revision
            /\ e.value = entry[c].value
            /\ IsValue(f) /\ e.in => entry[c].answered /\ f.revision <= entry[c].revision
         \/ IsValue(f) /\ e.revision = f.revision /\ e.value = f.value,
         e.phase = "live" => IF f.kind = "state" THEN f.phase = "live"
                                                 ELSE entry[c].phase = "live",
         e.opened => entry[c].opened,
         /\ entry[c].waiting /\ NoOpen(up[c]) /\ down[c][Len(down[c])].kind = "refused"
         /\ WouldShowLive(e, Tail(down[c]))
         => e.waiting /\ Tail(down[c]) # <<>>
  PROVE  Held(c)'
<1> DEFINE d == Tail(down[c])
<1>1. /\ down[c] \in Seq(Frames) /\ entry[c] \in Entries /\ Talk(c) /\ Rises(down[c])
      /\ (Routed(c)' <=> Routed(c)) /\ (Asked(c)' <=> Asked(c)) /\ (Routed(c) => ~closed)
  BY ClientIs DEF Routed, Asked, Client, Held, Versions
<1>2. connected[c] /\ (entry[c].in => Asked(c))
  BY <1>1 DEF Talk
<1>3. /\ Rises(d) /\ (Reach(down[c], source) => Reach(d, source))
      /\ Newer(down[c], entry[c].revision, entry[c].value) =>
           Newer(d, entry[c].revision, entry[c].value)
      /\ IsValue(f) => Newer(d, f.revision, f.value)
      /\ EndsAt(down[c], source.revision) => EndsAt(d, source.revision)
      /\ EndsAt(down[c], source.revision) /\ IsValue(f) /\ NoValue(d) =>
           f.revision = source.revision
  BY <1>1, ValuesTaken
<1>4. /\ 1 \in DOMAIN down[c] /\ f \in Frames
  BY <1>1, TailParts
<1>5. ~closed /\ IsValue(f) => Behind(f.revision, f.value, source)
  BY <1>4 DEF Held, Versions, Reach
<1>6. /\ NoValue(d) /\ ~IsValue(f) => NoValue(down[c])
      /\ d # <<>> => d[Len(d)] = down[c][Len(down[c])]
  BY <1>1, FrameTaken
<1>7. WouldShowLive(e, d) => WouldShowLive(entry[c], down[c])
  <2>1. WouldShowLive(e, d) => WouldShowLive(e, down[c])
    BY <1>1, FrameTaken
  <2>2. WouldShowLive(e, down[c]) => WouldShowLive(entry[c], down[c])
    BY <1>4 DEF WouldShowLive
  <2> QED
    BY <2>1, <2>2
<1> HIDE DEF d
<1>8. down'[c] = d
  BY DEF d
<1>9. Versions(c)'
  <2>1. ASSUME entry[c].in, e.answered
        PROVE  /\ Newer(d, e.revision, e.value)
               /\ ~closed => Behind(e.revision, e.value, source)
    BY <1>2, <1>3, <1>5, <2>1 DEF Held, Versions
  <2> QED
    BY <1>1, <1>3, <1>8, <2>1 DEF Held, Versions
<1>10. ASSUME Routed(c), source.value # Nothing, NoValue(d), entry[c].in, NoClose(up[c])
       PROVE  e.revision = source.revision /\ e.value = source.value
  <2>1. CASE ~IsValue(f)
    BY <1>6, <1>10, <2>1 DEF Held, Follows
  <2>2. CASE IsValue(f)
    <3>1. f.revision = source.revision /\ f.value = source.value
      BY <1>1, <1>3, <1>5, <1>10, <2>2 DEF Held, Follows, Behind, Agrees
    <3>2. CASE e.revision = f.revision /\ e.value = f.value
      BY <3>1, <3>2
    <3>3. CASE /\ e.revision = entry[c].revision /\ e.value = entry[c].value
               /\ entry[c].answered /\ f.revision <= entry[c].revision
      <4>1. Agrees(entry[c].revision, entry[c].value, f.revision, f.value)
        BY <1>2, <1>4, <1>10, <2>2, <3>3 DEF Held, Versions, Newer
      <4>2. entry[c].revision \in Nat /\ f.revision \in Nat
        BY <1>1, <1>4, <2>2 DEF Entries, Frames, IsValue, ValueKinds
      <4> QED
        BY <3>1, <3>3, <4>1, <4>2 DEF Agrees
    <3> QED
      BY <1>10, <2>2, <3>2, <3>3
  <2> QED
    BY <2>1, <2>2
<1>11. Follows(c)'
  BY <1>1, <1>3, <1>8, <1>10 DEF Held, Follows
<1>12. Phases(c)'
  BY <1>1, <1>6, <1>7, <1>8 DEF Held, Phases, d
<1> QED
  BY <1>9, <1>11, <1>12 DEF Held

\* A listener comes, of a source that is held.
LEMMA SubscribeHolds ==
  ASSUME Sound, NEW c \in Clients, Client(c), Held(c), Subscribe(c)
  PROVE  Held(c)'
<1> DEFINE f == [entry[c] EXCEPT !.in = TRUE, !.listening = TRUE, !.expiring = FALSE]
           on == connected[c]
           e == Opened(f, on)
           u == up[c] \o OpenFrames(f, on)
<1>1. /\ entry' = [entry EXCEPT ![c] = e] /\ up' = [up EXCEPT ![c] = u]
      /\ UNCHANGED <<truth, closed, source, connected, down>>
  BY DEF Subscribe
<1>2. /\ entry[c] \in Entries /\ on \in BOOLEAN /\ up[c] \in Seq(Requests) /\ Talk(c)
      /\ entry'[c] = e /\ up'[c] = u
  BY <1>1, ClientIs DEF Client, Sound, WatchTyped, ClientsTyped
<1>3. /\ f \in Entries /\ f.in = TRUE /\ f.opened = entry[c].opened
      /\ f.revision = entry[c].revision /\ f.value = entry[c].value
      /\ f.phase = entry[c].phase /\ f.waiting = entry[c].waiting
      /\ f.answered = entry[c].answered
  BY <1>2 DEF Entries
<1> HIDE DEF f
<1>4. /\ e.in = TRUE /\ e.value = f.value /\ e.revision = f.revision
      /\ f.opened => e = f /\ OpenFrames(f, on) = <<>>
      /\ ~f.opened /\ on =>
              /\ e.opened = TRUE /\ e.answered = FALSE /\ e.phase = f.phase
              /\ \E r \in Requests : OpenFrames(f, on) = <<r>> /\ r.kind = "open"
      /\ ~f.opened /\ ~on => /\ e.opened = FALSE /\ e.answered = FALSE
                             /\ e.phase = "unavailable" /\ OpenFrames(f, on) = <<>>
  BY <1>2, <1>3, OpenedIs
<1>5. /\ f.opened \/ ~on => u = up[c]
      /\ NoClose(u) => NoClose(up[c])
      /\ ~f.opened /\ on => ~NoOpen(u)
  <2>1. CASE f.opened \/ ~on
    <3>1. u = up[c]
      BY <1>2, <1>4, <2>1, ConcatEmptySeq
    <3> QED
      BY <2>1, <3>1
  <2>2. CASE ~f.opened /\ on
    <3>1. PICK r \in Requests : u = up[c] \o <<r>> /\ r.kind = "open"
      BY <1>4, <2>2
    <3>2. NoClose(u) => NoClose(up[c])
      BY <1>2, <3>1, OneMore DEF NoClose
    <3>3. /\ Len(up[c]) + 1 \in DOMAIN u /\ u[Len(up[c]) + 1] = r
      BY <1>2, <3>1, OneMore
    <3> QED
      BY <2>2, <3>1, <3>2, <3>3 DEF NoOpen
  <2> QED
    BY <2>1, <2>2
<1>6. entry[c].opened => entry[c].in
  BY <1>2, NoEntryIs DEF Talk
<1> HIDE DEF e, u
<1> QED
  BY <1>1, <1>2, <1>3, <1>4, <1>5, <1>6, EntryHolds

\* An entry is dropped, of a source that is held.
LEMMA ReleaseHolds ==
  ASSUME Sound, NEW c \in Clients, Client(c), Held(c), Release(c),
         UNCHANGED <<closed, source, connected, down>>
  PROVE  Held(c)'
<1> DEFINE on == connected[c]
           u == up[c] \o CloseFrames(on)
<1>1. /\ on \in BOOLEAN /\ up[c] \in Seq(Requests) /\ Talk(c)
      /\ entry'[c] = NoEntry /\ up'[c] = u
  BY ClientIs DEF Release, Client, Sound, WatchTyped, ClientsTyped
<1>2. CASE on
  <2>1. PICK r \in Requests : u = up[c] \o <<r>> /\ r.kind = "close"
    BY <1>2, ClosingIs
  <2>2. Len(u) = Len(up[c]) + 1 /\ Len(u) \in DOMAIN u /\ u[Len(u)] = r
    BY <1>1, <2>1, OneMore
  <2>3. ~NoClose(u)
    BY <2>1, <2>2 DEF NoClose
  <2> HIDE DEF u
  <2> QED
    BY <1>1, <2>1, <2>2, <2>3, NoEntryIs, EntryHolds
<1>3. CASE ~on
  <2>1. u = up[c] /\ up[c] = <<>> /\ ~Routed(c)
    BY <1>1, <1>3, ClosingIs, ConcatEmptySeq DEF Talk
  <2> HIDE DEF u
  <2> QED
    BY <1>1, <2>1, NoEntryIs, EntryHolds
<1> QED
  BY <1>1, <1>2, <1>3

\* A listener leaves, of a source that is held.
LEMMA UnsubscribeHolds ==
  ASSUME Sound, NEW c \in Clients, Client(c), Held(c),
         Unsubscribe(c) \/ EntryExpires(c) \/ OpenTimesOut(c)
  PROVE  Held(c)'
<1>1. entry[c] \in Entries /\ (entry[c].waiting \/ entry[c].listening => entry[c].in)
  BY ClientIs, NoEntryIs DEF Client, Talk
<1>2. CASE Release(c)
  <2>1. UNCHANGED <<closed, source, connected, down>>
    BY DEF Unsubscribe, EntryExpires, OpenTimesOut
  <2> QED
    BY <1>2, <2>1, ReleaseHolds
<1>3. CASE Unsubscribe(c) /\ ~Release(c)
  <2> DEFINE e == [entry[c] EXCEPT !.listening = FALSE, !.expiring = TRUE]
  <2>1. /\ entry'[c] = e /\ up'[c] = up[c] /\ entry[c].in
        /\ UNCHANGED <<closed, source, connected, down>>
    BY <1>1, <1>3 DEF Unsubscribe, Sound, WatchTyped, ClientsTyped
  <2>2. /\ e.in = entry[c].in /\ e.value = entry[c].value
        /\ e.revision = entry[c].revision /\ e.phase = entry[c].phase
        /\ e.opened = entry[c].opened /\ e.waiting = entry[c].waiting
        /\ e.answered = entry[c].answered
    BY <1>1 DEF Entries
  <2> HIDE DEF e
  <2> QED
    BY <2>1, <2>2, EntryHolds
<1>4. CASE OpenTimesOut(c)
  <2> DEFINE e == [entry[c] EXCEPT !.opened = FALSE, !.waiting = FALSE, !.phase = "unavailable"]
  <2>1. /\ entry'[c] = e /\ up'[c] = up[c] /\ entry[c].in
        /\ UNCHANGED <<closed, source, connected, down>>
    BY <1>1, <1>4 DEF OpenTimesOut, Sound, WatchTyped, ClientsTyped
  <2>2. /\ e.in = entry[c].in /\ e.value = entry[c].value
        /\ e.revision = entry[c].revision /\ e.phase = "unavailable" /\ ~e.opened
        /\ e.answered = entry[c].answered
    BY <1>1 DEF Entries
  <2> HIDE DEF e
  <2> QED
    BY <2>1, <2>2, EntryHolds
<1> QED
  BY <1>2, <1>3, <1>4 DEF EntryExpires

\* Nothing is on a connection that is over or begins.
LEMMA EmptyHolds ==
  ASSUME Sound, NEW c \in Clients, ~Routed(c)', down'[c] = <<>>,
         \/ ~connected'[c] /\ up'[c] = <<>>
         \/ /\ ~closed' /\ up'[c] = <<>>
            /\ entry'[c].opened => ~NoOpen(up'[c])
         \/ /\ ~entry'[c].answered \/ closed'
            /\ entry'[c].opened => ~NoOpen(up'[c])
            /\ entry'[c].in \/ up'[c] = <<>>
  PROVE  Held(c)'
<1>1. Versions(c)'
  <2>1. /\ Rises(<<>>) /\ Reach(<<>>, source')
        /\ Newer(<<>>, entry'[c].revision, entry'[c].value)
    BY DEF Rises, Reach, Newer
  <2> QED
    BY <2>1 DEF Versions, Asked
<1>2. Follows(c)'
  BY DEF Follows
<1>3. Phases(c)'
  BY DEF Phases
<1> QED
  BY <1>1, <1>2, <1>3 DEF Held

\* A client opens what it keeps on a new connection to a held source.
LEMMA ConnectHolds ==
  ASSUME Sound, NEW c \in Clients, Client(c), Connect(c)
  PROVE  Held(c)'
<1> DEFINE f == [entry[c] EXCEPT !.phase = "opening"]
           e == Opened(f, TRUE)
           u == up[c] \o OpenFrames(f, TRUE)
<1>1. /\ ~connected[c] /\ UNCHANGED <<truth, closed, source, down>>
      /\ IF entry[c].listening
         THEN entry' = [entry EXCEPT ![c] = e] /\ up' = [up EXCEPT ![c] = u]
         ELSE UNCHANGED <<entry, up>>
  BY DEF Connect
<1>2. /\ entry[c] \in Entries /\ (entry[c].listening => entry[c].in) /\ Talk(c)
      /\ up[c] = <<>> /\ up[c] \in Seq(Requests) /\ down[c] = <<>> /\ ~entry[c].opened
      /\ (Routed(c)' <=> Routed(c)) /\ ~Routed(c)
  BY <1>1, ClientIs DEF Client, Talk, Routed
<1>3. CASE ~entry[c].listening
  <2>1. entry'[c] = entry[c] /\ up'[c] = <<>> /\ down'[c] = <<>>
    BY <1>1, <1>2, <1>3
  <2> QED
    BY <1>2, <2>1, EmptyHolds DEF Sound, WatchTyped
<1>4. CASE entry[c].listening
  <2>1. f \in Entries /\ f.in = TRUE /\ ~f.opened
    BY <1>2, <1>4 DEF Entries, WatchPhases
  <2> HIDE DEF f
  <2>2. /\ e.in = TRUE /\ e.answered = FALSE
        /\ \E r \in Requests : OpenFrames(f, TRUE) = <<r>> /\ r.kind = "open"
    BY <2>1, OpenedIs
  <2>3. PICK r \in Requests : OpenFrames(f, TRUE) = <<r>> /\ r.kind = "open"
    BY <2>2
  <2>4. Len(up[c]) + 1 \in DOMAIN u /\ u[Len(up[c]) + 1] = r
    <3>1. u = up[c] \o <<r>>
      BY <2>3
    <3> HIDE DEF u
    <3>2. up[c] \in Seq(Requests)
      BY <1>2
    <3> QED
      BY <3>1, <3>2, OneMore
  <2>5. ~NoOpen(u)
    BY <2>3, <2>4 DEF NoOpen
  <2> HIDE DEF e, u
  <2>6. entry'[c] = e /\ up'[c] = u /\ down'[c] = <<>>
    BY <1>1, <1>2, <1>4 DEF Sound, WatchTyped, ClientsTyped
  <2> QED
    BY <1>2, <2>2, <2>5, <2>6, EmptyHolds
<1> QED
  BY <1>3, <1>4

\* A connection to a held source drops.
LEMMA DisconnectHolds ==
  ASSUME Sound, NEW c \in Clients, Client(c), Disconnect(c)
  PROVE  Held(c)'
<1>1. up'[c] = <<>> /\ down'[c] = <<>> /\ connected'[c] = FALSE
  BY DEF Disconnect, Sound, WatchTyped, ClientsTyped
<1>2. ~Routed(c)'
  <2>1. source'.subs \ {Before(c)} = source.subs \ {Now(c), Before(c)} /\ Now(c) # Before(c)
    BY DropIs DEF Now, Before
  <2> QED
    BY <2>1 DEF Routed, Now
<1> QED
  BY <1>1, <1>2, EmptyHolds

\* A state frame of a held source arrives.
LEMMA StateHolds ==
  ASSUME Sound, NEW c \in Clients, Client(c), Held(c), StateArrives(c)
  PROVE  Held(c)'
<1> DEFINE h == down[c][1]
           p == [entry[c] EXCEPT !.phase = h.phase]
<1>1. /\ entry[c] \in Entries /\ down[c] \in Seq(Frames) /\ Talk(c)
  BY ClientIs DEF Client
<1>2. /\ down[c] # <<>> /\ down'[c] = Tail(down[c]) /\ Head(down[c]).kind = "state"
      /\ UNCHANGED <<closed, source, connected, up>>
      /\ entry' = IF entry[c].in THEN [entry EXCEPT ![c].phase = Head(down[c]).phase] ELSE entry
  BY DEF StateArrives, Arrives, Sound, WatchTyped, ClientsTyped
<1>3. Head(down[c]) = h /\ h.kind = "state" /\ ~IsValue(h)
  BY <1>1, <1>2, TailParts DEF IsValue, ValueKinds
<1>4. \E e : /\ entry'[c] = e /\ e.in = entry[c].in /\ e.answered = entry[c].answered
             /\ e.revision = entry[c].revision /\ e.value = entry[c].value
             /\ e.opened = entry[c].opened /\ e.waiting = entry[c].waiting
             /\ e.phase = "live" => h.phase = "live"
  <2>1. CASE entry[c].in
    <3>1. entry'[c] = p
      BY <1>2, <1>3, <2>1 DEF Sound, WatchTyped, ClientsTyped
    <3> HIDE DEF h
    <3>2. /\ p.in = entry[c].in /\ p.answered = entry[c].answered
          /\ p.revision = entry[c].revision /\ p.value = entry[c].value
          /\ p.opened = entry[c].opened /\ p.waiting = entry[c].waiting /\ p.phase = h.phase
      BY <1>1 DEF Entries
    <3> HIDE DEF p
    <3> QED
      BY <3>1, <3>2
  <2>2. CASE ~entry[c].in
    <3>1. entry'[c] = entry[c] /\ entry[c].phase # "live"
      BY <1>1, <1>2, <2>2, NoEntryIs DEF Talk
    <3> QED
      BY <3>1
  <2> QED
    BY <2>1, <2>2
<1>5. down[c][Len(down[c])].kind = "refused" => Tail(down[c]) # <<>>
  BY <1>1, <1>2, <1>3, LastStays
<1> QED
  BY <1>2, <1>3, <1>4, <1>5, FrameHolds

\* The acknowledgement of an open arrives.
LEMMA AcknowledgementHolds ==
  ASSUME Sound, NEW c \in Clients, Client(c), Held(c), AcknowledgementArrives(c)
  PROVE  Held(c)'
<1> DEFINE h == down[c][1]
           d == Tail(down[c])
           p == [entry[c] EXCEPT !.waiting = FALSE,
                   !.phase = IF h.kind = "refused" THEN "unavailable" ELSE @]
<1>1. /\ entry[c] \in Entries /\ down[c] \in Seq(Frames) /\ Talk(c)
  BY ClientIs DEF Client
<1>2. /\ down[c] # <<>> /\ down'[c] = d /\ Head(down[c]).kind \in {"accepted", "refused"}
      /\ UNCHANGED <<closed, source, connected, up>>
  BY DEF AcknowledgementArrives, Arrives, Sound, WatchTyped, ClientsTyped
<1>3. Head(down[c]) = h /\ h.kind \in {"accepted", "refused"} /\ ~IsValue(h)
  BY <1>1, <1>2, TailParts DEF IsValue, ValueKinds
<1>4. d = <<>> => Len(down[c]) = 1
  BY <1>1, <1>2, LastStays
<1>5. Len(down[c]) \in Nat /\ Len(down[c]) # 0
  BY <1>1, <1>2, TailParts
<1> DEFINE n == Len(down[c])
<1>6. n # 1 => n \in 2 .. n
  <2> HIDE DEF n
  <2>1. n \in Nat /\ n # 0
    BY <1>5 DEF n
  <2> QED
    BY <2>1
<1>7. n = 1 => \A i \in 2 .. n : FALSE
  <2> HIDE DEF n
  <2> QED
    OBVIOUS
<1>8. d # <<>> => Len(down[c]) # 1
  <2>1. Len(d) = Len(down[c]) - 1 /\ d \in Seq(Frames)
    BY <1>1, <1>2, TailParts
  <2> HIDE DEF d
  <2>2. Len(d) = 0 => d = <<>>
    BY <2>1, EmptySeq
  <2> QED
    BY <1>5, <2>1, <2>2
<1>9. CASE AnswersLatest(c)
  <2>1. /\ entry'[c] = p
        /\ \A i \in 2 .. Len(down[c]) : down[c][i].kind \notin {"accepted", "refused"}
    BY <1>3, <1>9 DEF AcknowledgementArrives, AnswersLatest, Sound, WatchTyped, ClientsTyped
  <2>2. /\ p.in = entry[c].in /\ p.answered = entry[c].answered
        /\ p.revision = entry[c].revision /\ p.value = entry[c].value
        /\ p.opened = entry[c].opened
        /\ p.phase = IF h.kind = "refused" THEN "unavailable" ELSE entry[c].phase
    BY <1>1 DEF Entries
  <2>3. ASSUME down[c][Len(down[c])].kind = "refused", WouldShowLive(p, d)  PROVE FALSE
    <3>1. Len(down[c]) = 1
      BY <1>6, <2>1, <2>3
    <3>2. p.phase = "unavailable" /\ d = <<>>
      BY <1>8, <2>2, <2>3, <3>1
    <3> HIDE DEF p, d
    <3> QED
      BY <2>3, <3>2 DEF WouldShowLive
  <2> HIDE DEF p
  <2> QED
    BY <1>2, <1>3, <2>1, <2>2, <2>3, FrameHolds
<1>10. CASE ~AnswersLatest(c)
  <2>1. entry'[c] = entry[c]
    BY <1>10 DEF AcknowledgementArrives
  <2>2. ASSUME entry[c].waiting, NoOpen(up[c]), down[c][Len(down[c])].kind = "refused"
        PROVE  d # <<>>
    <3>1. \E i \in 2 .. Len(down[c]) : TRUE
      BY <1>10, <2>2 DEF AnswersLatest, NoOpen
    <3>2. Len(down[c]) # 1
      BY <1>7, <3>1
    <3> QED
      BY <1>4, <3>2
  <2> QED
    BY <1>2, <1>3, <2>1, <2>2, FrameHolds
<1> QED
  BY <1>9, <1>10

\* A value frame of a held source arrives.
LEMMA ValueHolds ==
  ASSUME Sound, NEW c \in Clients, Client(c), Held(c), ValueArrives(c)
  PROVE  Held(c)'
<1> DEFINE f == down[c][1]
           d == Tail(down[c])
<1>1. /\ entry[c] \in Entries /\ down[c] \in Seq(Frames) /\ up[c] \in Seq(Requests)
      /\ Talk(c) /\ Offer(c)
  BY ClientIs DEF Client
<1>2. /\ LateIs(c) \/ TakenIs(c) \/ MisfitIs(c)
      /\ down[c] # <<>> /\ down' = [down EXCEPT ![c] = d]
      /\ f \in Frames /\ Head(down[c]) = f /\ IsValue(f)
      /\ UNCHANGED <<truth, closed, source, connected>>
  BY ValueIs
<1>3. /\ 1 \in DOMAIN down[c] /\ down'[c] = d /\ f.kind # "state" /\ f.kind # "refused"
  BY <1>1, <1>2, TailParts DEF IsValue, ValueKinds, Sound, WatchTyped, ClientsTyped
<1>4. down[c][Len(down[c])].kind = "refused" => d # <<>>
  BY <1>1, <1>2, <1>3, LastStays
<1>5. CASE LateIs(c)
  <2>1. /\ entry'[c] = entry[c] /\ up' = up
        /\ entry[c].in => entry[c].answered /\ f.revision <= entry[c].revision
    BY <1>2, <1>5 DEF LateIs, Stale
  <2> HIDE DEF f, d
  <2> QED
    BY <1>2, <1>3, <1>4, <2>1, FrameHolds DEF f, d
<1>6. CASE TakenIs(c)
  <2>1. /\ entry[c].in /\ ~Misfits(entry[c], f) /\ up' = up
        /\ entry'[c] = Taken(entry[c], f)
    BY <1>2, <1>6 DEF TakenIs, Sound, WatchTyped, ClientsTyped
  <2>2. f.kind = "unchanged" => entry[c].value \in {Nothing, f.value}
    BY <1>1, <1>3 DEF Offer, Confirms
  <2> HIDE DEF f
  <2> DEFINE e == Taken(entry[c], f)
  <2>3. /\ e.in = TRUE /\ e.revision = f.revision /\ e.value = f.value
        /\ e.opened = entry[c].opened /\ e.waiting = entry[c].waiting
        /\ e.phase = entry[c].phase
    BY <1>1, <1>2, <2>1, <2>2, TakenHolds
  <2>4. entry'[c] = e /\ entry[c].in = TRUE
    BY <1>1, <2>1 DEF Entries
  <2> HIDE DEF e, d
  <2>5. /\ IsValue(f) /\ f.kind # "state" /\ down[c] # <<>> /\ down'[c] = d
        /\ down[c][Len(down[c])].kind = "refused" => d # <<>>
        /\ UNCHANGED <<closed, source, connected, up>>
    BY <1>2, <1>3, <1>4, <2>1
  <2> QED
    BY <2>3, <2>4, <2>5, FrameHolds DEF f, d
<1>7. CASE MisfitIs(c)
  <2> DEFINE e == Opened(Emptied(entry[c]), TRUE)
             u == up[c] \o CloseFrames(TRUE) \o OpenFrames(Emptied(entry[c]), TRUE)
  <2>1. entry[c].in /\ entry'[c] = e /\ up'[c] = u
    BY <1>7 DEF MisfitIs, Sound, WatchTyped, ClientsTyped
  <2>2. /\ e.in = entry[c].in /\ e.answered = FALSE /\ e.phase = "resync-required"
        /\ \E p \in Requests, q \in Requests :
             /\ CloseFrames(TRUE) = <<p>> /\ p.kind = "close"
             /\ OpenFrames(Emptied(entry[c]), TRUE) = <<q>>
             /\ q.kind = "open" /\ q.have = Nothing
    BY <1>1, EmptiedIs
  <2> HIDE DEF e
  <2>3. PICK p \in Requests, q \in Requests :
             /\ u = (up[c] \o <<p>>) \o <<q>> /\ p.kind = "close" /\ q.kind = "open"
    BY <2>2
  <2> DEFINE w == up[c] \o <<p>>
  <2>4. /\ w \in Seq(Requests) /\ Len(w) \in DOMAIN w /\ w[Len(w)] = p
    BY <1>1, OneMore
  <2> HIDE DEF w
  <2>5. u = w \o <<q>>
    BY <2>3 DEF w
  <2> HIDE DEF u
  <2>6. /\ Len(w) \in DOMAIN u /\ u[Len(w)] = p
        /\ Len(w) + 1 \in DOMAIN u /\ u[Len(w) + 1] = q
    BY <2>4, <2>5, OneMore
  <2>7. ~NoClose(u) /\ ~NoOpen(u)
    BY <2>3, <2>6 DEF NoClose, NoOpen
  <2>8. /\ Rises(d) /\ (Reach(down[c], source) => Reach(d, source))
        /\ EndsAt(down[c], source.revision) => EndsAt(d, source.revision)
    BY <1>1, <1>2, ValuesTaken DEF Held, Versions
  <2>9. WouldShowLive(e, d) => WouldShowLive(entry[c], down[c])
    <3>1. WouldShowLive(e, d) => WouldShowLive(e, down[c])
      BY <1>1, <1>2, <1>3, FrameTaken
    <3> QED
      BY <2>2, <3>1 DEF WouldShowLive
  <2> HIDE DEF d
  <2>10. Routed(c)' <=> Routed(c)
    BY <1>2 DEF Routed
  <2>11. Versions(c)'
    BY <1>2, <1>3, <2>1, <2>2, <2>8 DEF Held, Versions
  <2>12. Follows(c)'
    BY <1>2, <1>3, <2>1, <2>2, <2>7, <2>8, <2>10 DEF Held, Follows
  <2>13. Phases(c)'
    BY <1>2, <1>3, <2>1, <2>7, <2>9, <2>10 DEF Held, Phases
  <2> QED
    BY <2>11, <2>12, <2>13 DEF Held
<1> QED
  BY <1>2, <1>5, <1>6, <1>7

\* What the hub has not yet heard after it heard one request.
LEMMA CloseHeard ==
  ASSUME NEW u \in Seq(Requests), u # <<>>
  PROVE  /\ u[1].kind # "close" /\ ~NoClose(u) => ~NoClose(Tail(u))
         /\ u[Len(u)].kind = "close" => ~NoClose(u)
         /\ u[Len(u)].kind = "close" /\ Tail(u) # <<>> =>
              Tail(u)[Len(Tail(u))].kind = "close"
<1> DEFINE t == Tail(u)
           n == Len(u)
<1>1. /\ t \in Seq(Requests) /\ n \in Nat \ {0} /\ Len(t) = n - 1
      /\ DOMAIN u = 1 .. n /\ DOMAIN t = 1 .. n - 1
      /\ \A i \in 1 .. n - 1 : i + 1 \in 1 .. n /\ t[i] = u[i + 1]
  BY TailParts
<1> HIDE DEF t, n
<1>2. ASSUME u[1].kind # "close", NoClose(t)  PROVE NoClose(u)
  <2> SUFFICES ASSUME NEW i \in 1 .. n  PROVE u[i].kind # "close"
    BY <1>1 DEF NoClose
  <2>1. CASE i # 1
    <3>1. i - 1 \in 1 .. n - 1 /\ (i - 1) + 1 = i
      BY <1>1, <2>1
    <3>2. t[i - 1] = u[i]
      BY <1>1, <3>1
    <3> QED
      BY <1>1, <1>2, <3>1, <3>2 DEF NoClose
  <2> QED
    BY <1>2, <2>1
<1>3. u[n].kind = "close" => ~NoClose(u)
  BY <1>1 DEF NoClose
<1>4. ASSUME u[n].kind = "close", t # <<>>  PROVE t[Len(t)].kind = "close"
  <2>1. Len(t) # 0
    BY <1>1, <1>4, EmptySeq
  <2>2. Len(t) \in 1 .. n - 1 /\ Len(t) + 1 = n
    BY <1>1, <2>1
  <2> QED
    BY <1>1, <1>4, <2>2
<1> QED
  BY <1>2, <1>3, <1>4 DEF t, n

\* The hub serves an open from a held source.
LEMMA HubOpensHolds ==
  ASSUME Sound, NEW c \in Clients, Client(c), Held(c), HubOpens(c)
  PROVE  Held(c)' /\ Stays
<1> DEFINE u == Tail(up[c])
           d == down'[c]
<1>1. /\ entry[c] \in Entries /\ down[c] \in Seq(Frames) /\ up[c] \in Seq(Requests)
      /\ Talk(c) /\ (closed => source = NoSource /\ ~Routed(c)) /\ source \in Sources
  BY ClientIs DEF Client, Sound, WatchTyped
<1>2. /\ up[c] # <<>> /\ up'[c] = u /\ 1 \in DOMAIN up[c]
      /\ UNCHANGED <<truth, closed, connected, entry>> /\ connected[c]
      /\ up[c][1].kind = "open"
  BY HeardIs DEF Sound, WatchTyped, ClientsTyped
<1>3. /\ ~NoClose(up[c]) => ~NoClose(u)
      /\ ~entry[c].in => ~NoClose(u)
      /\ ~entry[c].in /\ u # <<>> => u[Len(u)].kind = "close"
  BY <1>1, <1>2, CloseHeard DEF Held, Follows
<1>4. ~NoOpen(up[c])
  BY <1>2 DEF NoOpen
<1>5. entry[c].opened => entry[c].waiting
  BY <1>1, <1>4 DEF Talk
<1> HIDE DEF u
<1>6. ASSUME NEW t \in Seq(Frames), down' = [down EXCEPT ![c] = @ \o t]
      PROVE  d = down[c] \o t
  BY <1>6 DEF Sound, WatchTyped, ClientsTyped
<1>7. Rises(down[c])
  BY DEF Held, Versions
<1>8. CASE closed \/ Routed(c)
  <2>1. source' = source
    BY <1>8 DEF HubOpens
  <2>2. \E g \in Frames :
          /\ down' = [down EXCEPT ![c] = @ \o <<g>>] /\ g.kind \in {"accepted", "refused"}
          /\ closed => g.kind = "refused"
    <3>1. /\ [kind |-> "refused"] \in Frames /\ [kind |-> "accepted"] \in Frames
      BY DEF Frames
    <3> QED
      BY <1>8, <3>1 DEF HubOpens, Answers
  <2>3. PICK g \in Frames :
          /\ down' = [down EXCEPT ![c] = @ \o <<g>>] /\ g.kind \in {"accepted", "refused"}
          /\ closed => g.kind = "refused"
    BY <2>2
  <2> DEFINE t == <<g>>
  <2>4. /\ t \in Seq(Frames) /\ \A i \in DOMAIN t : t[i] = g
    OBVIOUS
  <2>5. d # <<>> /\ d[Len(d)] = g
    <3>1. d = down[c] \o <<g>>
      BY <1>6, <2>3, <2>4
    <3> HIDE DEF d
    <3> QED
      BY <1>1, <3>1, OneMore
  <2> HIDE DEF t
  <2>6. NoValue(t) /\ \A i \in DOMAIN t : ~IsValue(t[i]) /\ t[i].kind # "state"
    BY <2>3, <2>4 DEF NoValue, IsValue, ValueKinds
  <2>7. d = down[c] \o t
    BY <1>6, <2>3, <2>4 DEF t
  <2> HIDE DEF d
  <2>8. /\ Rises(d) /\ (Reach(down[c], source) => Reach(d, source))
        /\ Newer(down[c], entry[c].revision, entry[c].value) =>
             Newer(d, entry[c].revision, entry[c].value)
        /\ EndsAt(down[c], source.revision) => EndsAt(d, source.revision)
    BY <1>1, <1>7, <2>4, <2>6, <2>7, ValuesSent
  <2>9. /\ NoValue(d) => NoValue(down[c])
        /\ WouldShowLive(entry[c], d) => WouldShowLive(entry[c], down[c])
    BY <1>1, <2>4, <2>6, <2>7, FramesSent
  <2>10. (Routed(c)' <=> Routed(c)) /\ Asked(c)
    BY <1>2, <2>1 DEF Routed, Asked
  <2>11. Versions(c)'
    BY <1>2, <2>1, <2>8, <2>10 DEF Held, Versions, d
  <2>12. Follows(c)'
    BY <1>2, <1>3, <2>1, <2>8, <2>9, <2>10 DEF Held, Follows, d
  <2>13. Phases(c)'
    BY <1>1, <1>2, <1>5, <2>1, <2>3, <2>5, <2>9, <2>10 DEF Held, Phases, d
  <2> QED
    BY <2>1, <2>11, <2>12, <2>13 DEF Held, Stays
<1>9. CASE ~closed /\ ~Routed(c)
  <2>1. /\ source' \in Sources /\ source' # NoSource /\ Kept(source')
        /\ source'.revision = source.revision /\ source'.value = source.value
        /\ source # NoSource => source'.phase = source.phase
    BY <1>9, HubServes
  <2>2. PICK t \in Seq(Frames) : Serves(t, source', c) /\ down' = [down EXCEPT ![c] = @ \o t]
    BY <1>9, HubServes
  <2>3. Stays
    BY <2>1 DEF Stays
  <2>4. /\ Reach(down[c], source) /\ Reach(down[c], source')
        /\ entry[c].in /\ entry[c].answered =>
             /\ Newer(down[c], entry[c].revision, entry[c].value)
             /\ Behind(entry[c].revision, entry[c].value, source')
    <3>1. Grows
      BY <2>3, StaysGrows
    <3>2. Reach(down[c], source)
      BY <1>9 DEF Held, Versions
    <3>3. Asked(c) /\ entry[c].revision \in Nat
      BY <1>1, <1>2 DEF Asked, Entries
    <3>4. entry[c].in /\ entry[c].answered =>
             /\ Newer(down[c], entry[c].revision, entry[c].value)
             /\ Behind(entry[c].revision, entry[c].value, source)
      BY <1>2, <1>9, <3>3 DEF Held, Versions
    <3> QED
      BY <1>1, <2>1, <3>1, <3>2, <3>3, <3>4, GrowsKeeps
  <2>5. d = down[c] \o t
    BY <1>6, <2>2
  <2> HIDE DEF d
  <2>6. /\ \A i \in DOMAIN t : IsValue(t[i]) =>
             /\ i = 1 /\ t[i].revision = source'.revision /\ t[i].value = source'.value
             /\ source' # NoSource /\ source'.value # Nothing
        /\ source'.value # Nothing => ~NoValue(t)
    BY <2>1, <2>2 DEF Serves, NoValue
  <2>7. /\ Rises(d) /\ Reach(d, source')
        /\ entry[c].in /\ entry[c].answered => Newer(d, entry[c].revision, entry[c].value)
    BY <1>1, <1>7, <2>1, <2>4, <2>5, <2>6, ValuesSent DEF Behind
  <2>8. EndsAt(d, source'.revision)
    <3>1. CASE source'.value # Nothing
      BY <1>1, <1>7, <2>1, <2>4, <2>5, <2>6, <3>1, ValuesSent
    <3>2. CASE source'.value = Nothing
      <4>1. NoValue(t) /\ source.revision = 0
        BY <2>1, <2>6, <3>2 DEF NoValue, Kept
      <4>2. EndsAt(down[c], 0)
        <5> SUFFICES ASSUME NEW i \in DOMAIN down[c], IsValue(down[c][i])
                     PROVE  down[c][i].revision = 0
          BY DEF EndsAt
        <5>1. down[c][i] \in Frames
          BY <1>1, LenProperties, ElementOfSeq
        <5>2. down[c][i].revision \in Nat
          BY <5>1 DEF Frames, IsValue, ValueKinds
        <5>3. down[c][i].revision <= 0
          BY <2>4, <4>1 DEF Reach, Behind, Agrees
        <5> QED
          BY <5>2, <5>3
      <4> QED
        BY <1>1, <1>7, <2>1, <2>4, <2>5, <2>6, <4>1, <4>2, ValuesSent
    <3> QED
      BY <3>1, <3>2
  <2>9. source'.value # Nothing => ~NoValue(d)
    BY <1>1, <2>5, <2>6, FramesSent
  <2>10. WouldShowLive(entry[c], d) => source'.phase = "live"
    BY <1>1, <2>2, <2>5, FramesSent DEF Serves
  <2>11. Versions(c)'
    BY <1>2, <2>4, <2>7 DEF Versions, d
  <2>12. Follows(c)'
    BY <1>2, <1>3, <2>8, <2>9 DEF Follows, d
  <2>13. Phases(c)'
    BY <1>2, <1>9, <2>10 DEF Phases, d
  <2> QED
    BY <2>3, <2>11, <2>12, <2>13 DEF Held
<1> QED
  BY <1>8, <1>9

\* The hub hears a close and goes on holding the source.
LEMMA HubClosesHolds ==
  ASSUME Sound, NEW c \in Clients, Client(c), Held(c), HubCloses(c), Hold
  PROVE  Held(c)' /\ Stays
<1> DEFINE u == Tail(up[c])
<1>1. /\ entry[c] \in Entries /\ down[c] \in Seq(Frames) /\ up[c] \in Seq(Requests)
      /\ Talk(c) /\ Offer(c) /\ source' \in Sources
  BY ClientIs, SourceStep DEF Client, WatchNext
<1>2. /\ up[c] # <<>> /\ up'[c] = u /\ 1 \in DOMAIN up[c]
      /\ UNCHANGED <<truth, closed, connected, entry, down>>
      /\ up[c][1].kind = "close" /\ ~Routed(c)'
  BY HeardIs, HubClosesKeeps DEF Sound, WatchTyped, ClientsTyped
<1>3. /\ ~entry[c].in /\ u # <<>> => u[Len(u)].kind = "close"
      /\ NoOpen(u) => NoOpen(up[c])
  BY <1>1, <1>2, CloseHeard, RequestHeard DEF Held, Follows, Offer
<1> HIDE DEF u
<1>4. Stays
  <2>1. CASE Routed(c)
    <3>1. source' = Left(source, Now(c)) /\ Now(c) \in source.subs
      BY <2>1 DEF HubCloses, Routed
    <3> QED
      BY <3>1, LeavesOne DEF Stays
  <2>2. CASE ~Routed(c)
    BY <2>2 DEF HubCloses, Stays
  <2> QED
    BY <2>1, <2>2
<1>5. /\ Reach(down[c], source) => Reach(down[c], source')
      /\ Behind(entry[c].revision, entry[c].value, source) =>
           Behind(entry[c].revision, entry[c].value, source')
  <2>1. Grows /\ entry[c].revision \in Nat
    BY <1>1, <1>4, StaysGrows DEF Entries
  <2> QED
    BY <1>1, <2>1, GrowsKeeps
<1>6. Asked(c)
  BY <1>2 DEF Asked
<1>7. Versions(c)'
  BY <1>2, <1>5, <1>6 DEF Held, Versions
<1>8. Follows(c)'
  BY <1>2, <1>3 DEF Follows
<1>9. Phases(c)'
  BY <1>2, <1>3 DEF Held, Phases
<1> QED
  BY <1>4, <1>7, <1>8, <1>9 DEF Held

\* What a client does of itself, or with the hub, on a held source.
LEMMA OwnHolds ==
  ASSUME Hold, Sound, NEW c \in Clients, Client(c), Held(c), ClientSteps(c)
  PROVE  Held(c)' /\ (Stays \/ Disconnect(c))
<1>1. CASE HubOpens(c) \/ HubCloses(c)
  BY <1>1, HubOpensHolds, HubClosesHolds
<1>2. CASE Disconnect(c)
  BY <1>2, DisconnectHolds
<1>3. CASE \/ Subscribe(c) \/ Unsubscribe(c) \/ EntryExpires(c) \/ OpenTimesOut(c)
           \/ Connect(c) \/ ValueArrives(c) \/ StateArrives(c) \/ AcknowledgementArrives(c)
  <2>1. source' = source
    BY <1>3 DEF Subscribe, Unsubscribe, EntryExpires, OpenTimesOut, Connect, ValueArrives,
                StateArrives, AcknowledgementArrives, Arrives
  <2>2. Held(c)'
    BY <1>3, SubscribeHolds, UnsubscribeHolds, ConnectHolds, ValueHolds, StateHolds,
       AcknowledgementHolds
  <2> QED
    BY <2>1, <2>2 DEF Stays
<1> QED
  BY <1>1, <1>2, <1>3 DEF ClientSteps

\* A read ends, and whoever is routed is told of it.
LEMMA ReadHolds ==
  ASSUME Sound, NEW c \in Clients, Client(c), Held(c), ReadEnds
  PROVE  Held(c)'
<1>1. /\ entry[c] \in Entries /\ down[c] \in Seq(Frames) /\ Talk(c) /\ ~closed
      /\ UNCHANGED <<truth, closed, connected, entry, up>> /\ source \in Sources
      /\ source.revision \in Nat
  BY ClientIs DEF ReadEnds, Client, Sound, WatchTyped, Sources
<1>2. /\ source' \in Sources /\ source' # NoSource /\ source # NoSource
      /\ source'.subs = source.subs /\ source'.phase = "live"
      /\ source'.revision \in {source.revision, source.revision + 1}
      /\ source'.revision = source.revision => source'.value = source.value
  BY HubReads
<1>3. PICK t \in Seq(Frames) :
        /\ Brings(t, source', source.revision)
        /\ down'[c] = IF Routed(c) THEN down[c] \o t ELSE down[c]
  BY HubReads
<1>4. Routed(c)' <=> Routed(c)
  BY <1>2 DEF Routed
<1>5. Grows
  BY <1>1, <1>2 DEF Grows, Agrees
<1>6. CASE ~Routed(c)
  <2>1. Alike(c)
    BY <1>1, <1>3, <1>6 DEF Alike
  <2> QED
    BY <1>1, <1>2, <1>4, <1>5, <1>6, <2>1, HeldAlike
<1>7. CASE Routed(c)
  <2> DEFINE d == down[c] \o t
  <2>1. down'[c] = d
    BY <1>3, <1>7
  <2>2. /\ \A i \in DOMAIN t : IsValue(t[i]) =>
             /\ i = 1 /\ t[i].revision = source'.revision /\ t[i].value = source'.value
             /\ source' # NoSource
        /\ NoValue(t) <=> source'.revision = source.revision
    BY <1>2, <1>3 DEF Brings, NoValue
  <2>3. /\ Rises(down[c]) /\ Reach(down[c], source) /\ EndsAt(down[c], source.revision)
        /\ entry[c].in /\ entry[c].answered =>
             /\ Newer(down[c], entry[c].revision, entry[c].value)
             /\ Behind(entry[c].revision, entry[c].value, source)
    BY <1>1, <1>7 DEF Held, Versions, Follows, Asked, Talk
  <2>4. /\ Reach(down[c], source')
        /\ entry[c].in /\ entry[c].answered =>
             Behind(entry[c].revision, entry[c].value, source')
    <3>1. entry[c].revision \in Nat
      BY <1>1 DEF Entries
    <3> QED
      BY <1>1, <1>2, <1>5, <2>3, <3>1, GrowsKeeps
  <2>5. /\ Rises(d) /\ Reach(d, source')
        /\ entry[c].in /\ entry[c].answered => Newer(d, entry[c].revision, entry[c].value)
    BY <1>1, <1>2, <2>2, <2>3, <2>4, ValuesSent DEF Behind
  <2>6. EndsAt(d, source'.revision)
    <3>1. CASE NoValue(t)
      BY <1>1, <1>2, <2>2, <2>3, <2>4, <3>1, ValuesSent
    <3>2. CASE ~NoValue(t)
      BY <1>1, <1>2, <2>2, <2>3, <2>4, <3>2, ValuesSent
    <3> QED
      BY <3>1, <3>2
  <2>7. NoValue(d) => NoValue(down[c]) /\ NoValue(t)
    BY <1>1, FramesSent
  <2> HIDE DEF d
  <2>8. Versions(c)'
    BY <1>1, <2>1, <2>4, <2>5 DEF Versions
  <2>9. Follows(c)'
    BY <1>1, <1>2, <1>4, <1>7, <2>1, <2>2, <2>6, <2>7 DEF Held, Follows
  <2>10. Phases(c)'
    BY <1>1, <1>2 DEF Phases
  <2> QED
    BY <2>8, <2>9, <2>10 DEF Held
<1> QED
  BY <1>6, <1>7

\* Whoever is routed is told that the source is unavailable, or that it is over.
LEMMA ToldHolds ==
  ASSUME Sound, NEW c \in Clients, Client(c), Held(c), ReadFails \/ CloseHub
  PROVE  Held(c)'
<1> DEFINE t == <<StateFrame("unavailable")>>
<1>1. /\ entry[c] \in Entries /\ down[c] \in Seq(Frames) /\ Talk(c) /\ Rises(down[c])
      /\ UNCHANGED <<connected, entry, up>> /\ source \in Sources
      /\ ~closed
  BY ClientIs DEF ReadFails, CloseHub, Client, Sound, WatchTyped, SourceInv, Held, Versions
<1>2. /\ t \in Seq(Frames) /\ 1 \in DOMAIN t
      /\ \A i \in DOMAIN t : ~IsValue(t[i]) /\ t[i].kind = "state" /\ t[i].phase # "live"
  BY DEF StateFrame, Frames, WatchPhases, IsValue, ValueKinds
<1>3. down'[c] = IF Routed(c) THEN down[c] \o t ELSE down[c]
  BY NewSourceIs DEF ReadFails, CloseHub, Told, Routed
<1> HIDE DEF t
<1> DEFINE d == down[c] \o t
<1>4. NoValue(t)
  BY <1>2 DEF NoValue
<1>5. /\ Rises(d) /\ (Reach(down[c], source) => Reach(d, source))
      /\ Newer(down[c], entry[c].revision, entry[c].value) =>
           Newer(d, entry[c].revision, entry[c].value)
      /\ EndsAt(down[c], source.revision) => EndsAt(d, source.revision)
  BY <1>1, <1>2, <1>4, ValuesSent
<1>6. (NoValue(d) => NoValue(down[c])) /\ ~WouldShowLive(entry[c], d)
  BY <1>1, <1>2, FramesSent
<1> HIDE DEF d
<1>7. CASE ReadFails
  <2>1. /\ source' \in Sources /\ source'.subs = source.subs
        /\ source'.revision = source.revision /\ source'.value = source.value
        /\ source' = NoSource <=> source = NoSource
    BY <1>7, ReadIsDue
  <2>2. closed' = closed /\ (Routed(c)' <=> Routed(c))
    BY <1>7, <2>1 DEF ReadFails, Routed
  <2>3. Grows
    BY <2>1 DEF Grows, Agrees, Sources
  <2>4. CASE ~Routed(c)
    <3>1. Alike(c)
      BY <1>1, <1>3, <2>4 DEF Alike
    <3> QED
      BY <2>1, <2>2, <2>3, <2>4, <3>1, HeldAlike
  <2>5. CASE Routed(c)
    <3>1. down'[c] = d
      BY <1>3, <2>5 DEF d
    <3>2. /\ \A r, v : Behind(r, v, source) => Behind(r, v, source')
          /\ Reach(d, source) => Reach(d, source')
      BY <2>1 DEF Behind, Reach
    <3>3. Versions(c)'
      BY <1>1, <1>5, <2>2, <2>5, <3>1, <3>2 DEF Held, Versions, Asked
    <3>4. Follows(c)'
      BY <1>1, <1>5, <1>6, <2>1, <2>2, <2>5, <3>1 DEF Held, Follows
    <3>5. Phases(c)'
      BY <1>1, <1>6, <2>2, <3>1 DEF Phases
    <3> QED
      BY <3>3, <3>4, <3>5 DEF Held
  <2> QED
    BY <2>4, <2>5
<1>8. CASE CloseHub
  <2>1. closed' = TRUE /\ ~Routed(c)'
    BY <1>8, NewSourceIs DEF CloseHub, Routed
  <2>2. Versions(c)'
    <3>1. CASE Routed(c)
      <4>1. down'[c] = d
        BY <1>3, <3>1 DEF d
      <4> QED
        BY <1>1, <1>5, <2>1, <3>1, <4>1 DEF Held, Versions, Asked
    <3>2. CASE ~Routed(c)
      <4>1. down'[c] = down[c]
        BY <1>3, <3>2
      <4>2. connected[c] /\ entry[c].in /\ ~Asked(c) =>
              Newer(down[c], entry[c].revision, entry[c].value)
        BY <1>1 DEF Talk, Newer
      <4> QED
        BY <1>1, <2>1, <4>1, <4>2 DEF Held, Versions
    <3> QED
      BY <3>1, <3>2
  <2>3. Follows(c)'
    BY <1>1, <2>1 DEF Held, Follows
  <2>4. Phases(c)'
    <3>1. CASE Routed(c)
      BY <1>1, <1>3, <1>6, <2>1, <3>1 DEF Phases, d
    <3>2. CASE ~Routed(c)
      <4>1. ASSUME connected[c], entry[c].opened, NoOpen(up[c])  PROVE FALSE
        <5>1. entry[c].in /\ up[c] # <<>>
          BY <1>1, <3>2, <4>1, NoEntryIs DEF Talk, Asked
        <5>2. up[c][Len(up[c])].kind = "open" /\ up[c] \in Seq(Requests)
          BY <1>1, <5>1, ClientIs DEF Talk
        <5>3. Len(up[c]) \in DOMAIN up[c]
          BY <5>1, <5>2, LenProperties, EmptySeq
        <5> QED
          BY <4>1, <5>2, <5>3 DEF NoOpen
      <4> QED
        BY <1>1, <2>1, <4>1 DEF Phases
    <3> QED
      BY <3>1, <3>2
  <2> QED
    BY <2>2, <2>3, <2>4 DEF Held
<1> QED
  BY <1>7, <1>8

\* What the hub does with a held source is told to every subscriber.
LEMMA SourceHolds ==
  ASSUME Hold, Sound, NEW c \in Clients, Client(c), Held(c),
         \/ SourceExpires \/ Change \/ ReadEnds \/ ReadFails \/ RetryRead
         \/ CloseHub \/ Restart \/ \E x \in Clients : Detach(x)
  PROVE  Held(c)'
<1>0. source' \in Sources
  BY SourceStep DEF WatchNext
<1>1. CASE Change \/ RetryRead \/ \E x \in Clients : Detach(x)
  <2>1. Alike(c) /\ closed' = closed
    BY <1>1 DEF Change, RetryRead, Detach, Alike
  <2>2. Stays /\ (Routed(c)' <=> Routed(c))
    <3>1. CASE Change \/ RetryRead
      <4>1. ~ReadFails
        BY <3>1 DEF Change, RetryRead, ReadFails, Sound, SourceInv, Awaits
      <4>2. /\ source'.subs = source.subs /\ source'.revision = source.revision
            /\ source'.value = source.value
            /\ source' = NoSource <=> source = NoSource
            /\ source'.phase # source.phase => ReadFails /\ source'.phase = "unavailable"
        BY <3>1, ReadIsDue
      <4> QED
        BY <4>1, <4>2 DEF Stays, Routed
    <3>2. ASSUME NEW x \in Clients, Detach(x)  PROVE Stays /\ (Routed(c)' <=> Routed(c))
      <4>1. Before(x) \in source.subs /\ source' = Left(source, Before(x))
        BY <3>2 DEF Detach
      <4>2. Stays /\ source'.subs = source.subs \ {Before(x)}
        BY <4>1, LeavesOne DEF Stays
      <4> QED
        BY <4>2 DEF Routed, Now, Before
    <3> QED
      BY <1>1, <3>1, <3>2
  <2>3. Routed(c) => source # NoSource
    BY NewSourceIs DEF Routed
  <2> QED
    BY <1>0, <2>1, <2>2, <2>3, StaysGrows, HeldAlike DEF Stays
<1>2. CASE SourceExpires
  <2>1. /\ up'[c] = <<>> /\ down'[c] = <<>> /\ ~closed'
        /\ entry' = entry /\ connected' = connected /\ source' = NoSource /\ ~closed
    BY <1>2 DEF SourceExpires, Sound, SourceInv
  <2>2. ~Routed(c)' /\ ~Routed(c)
    BY <1>2, <2>1, NewSourceIs DEF SourceExpires, Routed, Sound, SourceInv, Kept
  <2>3. connected[c] /\ entry[c].in => ~entry[c].opened
    BY <1>2, <2>1, <2>2 DEF Client, Talk, Asked, SourceExpires
  <2>4. connected'[c] => ~entry'[c].opened
    BY <2>1, <2>3, NoEntryIs DEF Client, Talk
  <2> QED
    BY <2>1, <2>2, <2>4, EmptyHolds
<1>3. CASE Restart
  <2>1. /\ up'[c] = <<>> /\ down'[c] = <<>> /\ connected'[c] = FALSE /\ source' = NoSource
    BY <1>3 DEF Restart
  <2>2. ~Routed(c)'
    BY <2>1, NewSourceIs DEF Routed
  <2> QED
    BY <2>1, <2>2, EmptyHolds
<1> QED
  BY <1>1, <1>2, <1>3, ReadHolds, ToldHolds

\* What holds for every client while the hub holds its sources.
HeldInv == WatchInv /\ \A c \in Clients : Held(c)

\* The second invariant holds before anything is asked.
LEMMA HeldStarts ==
  ASSUME WatchInit
  PROVE  HeldInv
<1>1. WatchInv
  BY WatchStarts
<1>2. ASSUME NEW c \in Clients  PROVE Held(c)
  <2>1. /\ source = NoSource /\ closed = FALSE
        /\ entry[c] = NoEntry /\ up[c] = <<>> /\ down[c] = <<>> /\ connected[c] = TRUE
    BY DEF WatchInit
  <2>2. ~Routed(c)
    BY <2>1, NewSourceIs DEF Routed
  <2>3. Rises(<<>>) /\ Reach(<<>>, source)
    BY DEF Rises, Reach
  <2> QED
    BY <2>1, <2>2, <2>3, NoEntryIs DEF Held, Versions, Follows, Phases
<1> QED
  BY <1>1, <1>2 DEF HeldInv

\* Every step of a watched read keeps the second invariant, with a hold.
LEMMA HeldKeeps ==
  ASSUME Hold, HeldInv, [WatchNext]_watchVars
  PROVE  HeldInv'
<1>1. WatchInv /\ Sound /\ (\A c \in Clients : Client(c)) /\ \A c \in Clients : Held(c)
  BY DEF HeldInv, WatchInv
<1>2. WatchInv'
  BY <1>1, WatchKeeps
<1>3. CASE UNCHANGED watchVars
  BY <1>1, <1>2, <1>3 DEF watchVars, HeldInv, Held, Versions, Follows, Phases, Asked, Routed
<1>4. ASSUME NEW c \in Clients, ClientSteps(c)  PROVE \A x \in Clients : Held(x)'
  <2>1. /\ Moves(c) /\ closed' = closed
        /\ \A x \in Clients \ {c} : Routed(x)' <=> Routed(x)
    BY <1>1, <1>4, OwnSteps
  <2>2. Held(c)' /\ (Stays \/ Disconnect(c))
    BY <1>1, <1>4, OwnHolds
  <2>3. source' \in Sources
    BY <1>1, <1>4, SourceStep DEF WatchNext, ClientSteps
  <2>4. Stays
    BY <1>1, <2>2, DropIs DEF Stays
  <2>5. ASSUME NEW x \in Clients \ {c}  PROVE Held(x)'
    <3>1. Routed(x) => source # NoSource
      BY NewSourceIs DEF Routed
    <3> QED
      BY <1>1, <2>1, <2>3, <2>4, <3>1, StaysGrows, HeldAlike DEF Moves, Stays
  <2> QED
    BY <2>2, <2>5
<1>5. CASE WatchNext
  <2>1. \A c \in Clients : Held(c)'
    BY <1>1, <1>4, <1>5, SourceHolds DEF WatchNext, ClientSteps
  <2> QED
    BY <1>2, <2>1 DEF HeldInv
<1> QED
  BY <1>3, <1>5

\* The second invariant says of what is live that it is current.
LEMMA LiveIsCurrent ==
  ASSUME HeldInv
  PROVE  LiveMeansCurrent
<1> SUFFICES ASSUME NEW c \in Clients, connected[c], entry[c].in, entry[c].phase = "live",
                    Quiet(c), closed => entry[c].opened
             PROVE  entry[c].value = truth /\ Routed(c)
  BY DEF LiveMeansCurrent
<1>1. /\ up[c] = <<>> /\ down[c] = <<>>
      /\ source # NoSource => source.reading = Nothing
  BY DEF Quiet
<1>2. Sound /\ Talk(c) /\ Versions(c) /\ Follows(c) /\ Phases(c)
  BY DEF HeldInv, WatchInv, Client, Held
<1>3. WouldShowLive(entry[c], down[c]) /\ NoValue(down[c]) /\ NoOpen(up[c]) /\ NoClose(up[c])
  BY <1>1 DEF WouldShowLive, NoValue, NoOpen, NoClose
<1>4. ~closed
  BY <1>1, <1>2, <1>3 DEF Phases
<1>5. Routed(c)
  BY <1>1, <1>2, <1>4 DEF Talk, Asked
<1>6. source.phase = "live" /\ source # NoSource /\ source.subs # {}
  BY <1>2, <1>3, <1>5, NewSourceIs DEF Phases, Routed
<1>7. ~source.dirty /\ source.reading = Nothing
  BY <1>1, <1>2, <1>6 DEF Sound, SourceInv, Awaits
<1>8. source.value = truth /\ truth \in Values
  BY <1>2, <1>6, <1>7 DEF Sound, SourceInv, Current, WatchTyped
<1>9. source.value # Nothing
  BY <1>8, WatchAssumption
<1>10. entry[c].value = source.value
  BY <1>2, <1>3, <1>5, <1>9 DEF Follows
<1> QED
  BY <1>5, <1>8, <1>10

\* While the hub holds a source after its last subscriber left, a read that a
\* client shows as live is the answer, once nothing is under way.
THEOREM LiveAlwaysCurrent == ASSUME Hold  PROVE WatchSpec => []LiveMeansCurrent
<1>1. WatchInit => HeldInv
  BY HeldStarts
<1>2. HeldInv /\ [WatchNext]_watchVars => HeldInv'
  BY HeldKeeps
<1>3. HeldInv => LiveMeansCurrent
  BY LiveIsCurrent
<1> QED
  BY <1>1, <1>2, <1>3, PTL DEF WatchSpec

=============================================================================
