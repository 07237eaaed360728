----------------------------- MODULE WatchedRead -----------------------------
(***************************************************************************)
(* A watched read, from the hub (packages/core/src/application/            *)
(* watch-hub-core.ts, watch-hub-source.ts over internal/coalesced-task.ts) *)
(* to the browsers that watch it (live/watch-client.ts,                    *)
(* watch-client-state.ts): one question, one source on the server that     *)
(* reads it again when it changes, and clients that each keep an entry for *)
(* it and open, close and reopen it over a connection that comes and goes. *)
(*                                                                         *)
(* A value is what its fingerprint identifies, so a frame's `value' is     *)
(* both.  A connection delivers in order, both ways, until it drops; the   *)
(* server may notice the drop later than the client, so the subscriber of  *)
(* a connection that is over stays at the source until it is detached.     *)
(***************************************************************************)
EXTENDS Naturals, Sequences, SequencesExt, FiniteSets

CONSTANTS
  Clients,
  Hold,        \* the hub holds a source after its last subscriber left
  Values,      \* answers of the read
  Smaller,     \* pairs of answers whose difference is smaller than the second
  Remembered,  \* superseded values that fit deltaMemoryBytes
  MaxChanges,  \* bound: changes of the answer
  Steady,      \* bound: the clients that stay, on a connection that lasts
  MaxMishaps,  \* bound: drops, leaves, timeouts, failed reads, hubs that end
  Nothing

ASSUME WatchAssumption ==
  /\ Steady \subseteq Clients
  /\ Hold \in BOOLEAN
  /\ Nothing \notin Values
  /\ Smaller \subseteq Values \X Values
  /\ Remembered \in Nat /\ MaxChanges \in Nat /\ MaxMishaps \in Nat

VARIABLES
  truth,      \* what a read answers now
  closed,     \* the hub was closed, its process goes on
  source,     \* the source of the question, or NoSource
  connected,
  entry,      \* what each client keeps for the question
  up, down,   \* the frames on the way from and to each client
  changes, faults

watchVars == <<truth, closed, source, connected, entry, up, down, changes, faults>>

Now(c) == <<c, "now">>
Before(c) == <<c, "before">>
Subscribers == Clients \X {"now", "before"}
WatchPhases == {"opening", "live", "unavailable", "resync-required"}

-----------------------------------------------------------------------------
(* The source *)

\* revision 0 is the source that has read nothing yet; base 0 is a subscriber
\* that is not known to hold anything.
NewSource ==
  [revision |-> 0, value |-> Nothing, phase |-> "opening", past |-> <<>>,
   subs |-> {}, base |-> [m \in Subscribers |-> 0],
   reading |-> Nothing, dirty |-> FALSE, retry |-> FALSE, releasing |-> FALSE]

\* The question has no source.
NoSource == [NewSource EXCEPT !.phase = "none"]

\* The coalesced task: one read in flight, a trailing one for what came meanwhile.
Pump(s, answer) ==
  IF s.dirty /\ s.reading = Nothing /\ ~s.retry /\ s.subs # {}
  THEN [s EXCEPT !.dirty = FALSE, !.reading = answer]
  ELSE s

Trigger(s, answer) == Pump([s EXCEPT !.dirty = TRUE], answer)

\* The newest superseded values that fit, oldest evicted first.
Remember(s) ==
  IF s.value = Nothing THEN s.past
  ELSE [r \in {q \in DOMAIN s.past \cup {s.revision} : q + Remembered > s.revision} |->
          IF r = s.revision THEN s.value ELSE s.past[r]]

ValueFrame(s, kind) ==
  [kind |-> kind, revision |-> s.revision, value |-> s.value, base |-> 0, from |-> Nothing]

FrameFor(s, m) ==
  LET base == s.base[m] IN
  IF base = 0 THEN ValueFrame(s, "full")
  ELSE IF base = s.revision THEN ValueFrame(s, "unchanged")
  ELSE IF base \in DOMAIN s.past /\ <<s.past[base], s.value>> \in Smaller
  THEN [ValueFrame(s, "delta") EXCEPT !.base = base, !.from = s.past[base]]
  ELSE ValueFrame(s, "full")

StateFrame(phase) == [kind |-> "state", phase |-> phase]

Adopted_ByRevision(s, have) ==
  IF have.revision \in DOMAIN s.past \cup {s.revision} THEN have.revision ELSE 0

\* The value the source has now, or a remembered one, with the fingerprint that
\* the client names; its revision only says where to look first.
Adopted(s, have) ==
  LET matching == {r \in DOMAIN s.past : s.past[r] = have.value} IN
  IF s.value = have.value THEN s.revision
  ELSE IF have.revision \in matching THEN have.revision
  ELSE IF matching = {} THEN 0
  ELSE CHOOSE r \in matching : \A q \in matching : r <= q

\* A subscriber leaves; the last one lets go of the source, at once or, while a
\* read runs or the hub holds it, later.
Left(s, m) ==
  LET rest == [s EXCEPT !.subs = @ \ {m}, !.base[m] = 0] IN
  IF rest.subs # {} THEN rest
  ELSE IF ~Hold /\ rest.reading = Nothing THEN NoSource
  ELSE [rest EXCEPT !.retry = FALSE, !.releasing = TRUE]

Routed(c) == Now(c) \in source.subs

\* What every subscriber on a connection is sent; the others hear nothing.
Told(s, frames) ==
  [c \in Clients |-> IF Now(c) \in s.subs THEN down[c] \o frames[c] ELSE down[c]]

-----------------------------------------------------------------------------
(* A client's entry *)

NoEntry ==
  [in |-> FALSE, listening |-> FALSE, revision |-> 0, value |-> Nothing, print |-> Nothing,
   opened |-> FALSE, answered |-> FALSE, waiting |-> FALSE, phase |-> "opening",
   expiring |-> FALSE]

\* openWatch: nothing when the connection was already asked, a rejected request
\* when there is none.
Opened(e, on) ==
  IF e.opened THEN e
  ELSE IF on THEN [e EXCEPT !.opened = TRUE, !.answered = FALSE, !.waiting = TRUE]
  ELSE [e EXCEPT !.answered = FALSE, !.phase = "unavailable"]

Have(e) ==
  IF e.value = Nothing THEN Nothing ELSE [revision |-> e.revision, value |-> e.print]

OpenFrames(e, on) ==
  IF ~e.opened /\ on THEN <<[kind |-> "open", have |-> Have(e)]>> ELSE <<>>

CloseFrames(on) == IF on THEN <<[kind |-> "close"]>> ELSE <<>>

Dropped_StillOpen(e) ==
  IF e.in THEN [e EXCEPT !.waiting = FALSE, !.phase = "unavailable"] ELSE e

\* The connection is over: the entry forgets that it was opened.
Dropped(e) ==
  IF e.in THEN [e EXCEPT !.opened = FALSE, !.waiting = FALSE, !.phase = "unavailable"]
  ELSE e

WatchInit ==
  /\ truth \in Values
  /\ closed = FALSE
  /\ source = NoSource
  /\ connected = [c \in Clients |-> TRUE]
  /\ entry = [c \in Clients |-> NoEntry]
  /\ up = [c \in Clients |-> <<>>]
  /\ down = [c \in Clients |-> <<>>]
  /\ changes = 0
  /\ faults = 0

Fault == faults < MaxMishaps /\ faults' = faults + 1

-----------------------------------------------------------------------------
(* The client's actions *)

\* A component subscribes: the first of the question, or one more after an open
\* that failed.
Subscribe(c) ==
  LET e == [entry[c] EXCEPT !.in = TRUE, !.listening = TRUE, !.expiring = FALSE] IN
  /\ entry[c].listening => connected[c] /\ ~entry[c].opened
  /\ entry' = [entry EXCEPT ![c] = Opened(e, connected[c])]
  /\ up' = [up EXCEPT ![c] = @ \o OpenFrames(e, connected[c])]
  /\ UNCHANGED <<truth, closed, source, connected, down, changes, faults>>

\* The entry goes with its last listener, or after holdMs.
Release(c) ==
  /\ entry' = [entry EXCEPT ![c] = NoEntry]
  /\ up' = [up EXCEPT ![c] = @ \o CloseFrames(connected[c])]

Unsubscribe(c) ==
  /\ entry[c].listening /\ c \notin Steady /\ Fault
  /\ \/ Release(c)
     \/ /\ entry' = [entry EXCEPT ![c].listening = FALSE, ![c].expiring = TRUE]
        /\ UNCHANGED up
  /\ UNCHANGED <<truth, closed, source, connected, down, changes>>

EntryExpires(c) ==
  /\ entry[c].expiring /\ Release(c)
  /\ UNCHANGED <<truth, closed, source, connected, down, changes, faults>>

\* The acknowledgement is not there by the deadline.
OpenTimesOut(c) ==
  /\ connected[c] /\ entry[c].waiting /\ c \notin Steady /\ Fault
  /\ entry' = [entry EXCEPT ![c].opened = FALSE, ![c].waiting = FALSE,
                            ![c].phase = "unavailable"]
  /\ UNCHANGED <<truth, closed, source, connected, up, down, changes>>

Disconnect(c) ==
  /\ connected[c] /\ c \notin Steady /\ Fault
  /\ connected' = [connected EXCEPT ![c] = FALSE]
  /\ entry' = [entry EXCEPT ![c] = Dropped(@)]
  /\ up' = [up EXCEPT ![c] = <<>>]
  /\ down' = [down EXCEPT ![c] = <<>>]
  /\ source' = IF ~Routed(c) THEN source
               ELSE [source EXCEPT !.subs = (@ \ {Now(c)}) \cup {Before(c)},
                                   !.base[Now(c)] = 0]
  /\ UNCHANGED <<truth, closed, changes>>

\* Every key that has a listener is opened again.
Connect(c) ==
  LET e == [entry[c] EXCEPT !.phase = "opening"] IN
  /\ ~connected[c]
  /\ connected' = [connected EXCEPT ![c] = TRUE]
  /\ IF entry[c].listening
     THEN /\ entry' = [entry EXCEPT ![c] = Opened(e, TRUE)]
          /\ up' = [up EXCEPT ![c] = @ \o OpenFrames(e, TRUE)]
     ELSE UNCHANGED <<entry, up>>
  /\ UNCHANGED <<truth, closed, source, down, changes, faults>>

-----------------------------------------------------------------------------
(* A frame reaches the client *)

Arrives(c, kinds) ==
  /\ down[c] # <<>> /\ Head(down[c]).kind \in kinds
  /\ down' = [down EXCEPT ![c] = Tail(@)]
  /\ UNCHANGED <<truth, closed, source, connected, changes, faults>>

Stale_AcrossOpens(e, f) == f.kind # "unchanged" /\ e.value # Nothing /\ f.revision <= e.revision

\* No newer than what this open has already answered.
Stale(e, f) ==
  f.kind # "unchanged" /\ e.value # Nothing /\ e.answered /\ f.revision <= e.revision

\* A confirmation of nothing, or a difference to what is not held.
Misfits(e, f) ==
  \/ f.kind = "unchanged" /\ e.value = Nothing
  \/ f.kind = "delta" /\ (e.revision # f.base \/ e.value # f.from)

Taken(e, f) ==
  [e EXCEPT !.revision = f.revision, !.print = f.value, !.answered = TRUE,
            !.value = IF f.kind = "unchanged" THEN e.value ELSE f.value]

\* The key starts over: nothing is held, closed, and opened again.
Emptied(e) ==
  [e EXCEPT !.value = Nothing, !.print = Nothing, !.revision = 0, !.opened = FALSE,
            !.phase = "resync-required"]

ValueArrives(c) ==
  LET e == entry[c]
      f == Head(down[c])
  IN
  /\ Arrives(c, {"full", "delta", "unchanged"})
  /\ \/ /\ e.in => Stale(e, f)
        /\ UNCHANGED <<entry, up>>
     \/ /\ e.in /\ ~Stale(e, f) /\ ~Misfits(e, f)
        /\ entry' = [entry EXCEPT ![c] = Taken(e, f)]
        /\ UNCHANGED up
     \/ /\ e.in /\ ~Stale(e, f) /\ Misfits(e, f)
        /\ entry' = [entry EXCEPT ![c] = Opened(Emptied(e), TRUE)]
        /\ up' = [up EXCEPT ![c] = @ \o CloseFrames(TRUE) \o OpenFrames(Emptied(e), TRUE)]

StateArrives(c) ==
  /\ Arrives(c, {"state"})
  /\ entry' = IF entry[c].in THEN [entry EXCEPT ![c].phase = Head(down[c]).phase] ELSE entry
  /\ UNCHANGED up

\* Acknowledgements come in the order of the opens, so the one of the latest
\* open is the one with no other behind it.
AnswersLatest(c) ==
  /\ entry[c].waiting
  /\ \A i \in DOMAIN up[c] : up[c][i].kind # "open"
  /\ \A i \in 2 .. Len(down[c]) : down[c][i].kind \notin {"accepted", "refused"}

AcknowledgementArrives(c) ==
  /\ Arrives(c, {"accepted", "refused"})
  /\ entry' = IF ~AnswersLatest(c) THEN entry
              ELSE [entry EXCEPT
                      ![c].waiting = FALSE,
                      ![c].phase = IF Head(down[c]).kind = "refused" THEN "unavailable" ELSE @]
  /\ UNCHANGED up

-----------------------------------------------------------------------------
(* The hub's actions *)

Hears(c, kind) ==
  /\ up[c] # <<>> /\ Head(up[c]).kind = kind
  /\ up' = [up EXCEPT ![c] = Tail(@)]
  /\ UNCHANGED <<truth, closed, connected, entry, changes, faults>>

Answers(c, frames) == down' = [down EXCEPT ![c] = @ \o frames]

NeedsNoRead_Live(s) ==
  s.reading # Nothing \/ (s.value # Nothing /\ s.phase = "live")

\* A newcomer needs no read: one is running, or the answer in memory is live and
\* was not invalidated in the hold.
NeedsNoRead(s) ==
  s.reading # Nothing \/ (s.value # Nothing /\ s.phase = "live" /\ ~s.dirty)

\* The subscriber joins, is sent what the source knows, and a read starts unless
\* what it knows is current.
HubOpens(c) ==
  LET have == Head(up[c]).have
      found == IF source = NoSource THEN NewSource ELSE [source EXCEPT !.releasing = FALSE]
      joined == [found EXCEPT
                   !.subs = @ \cup {Now(c)},
                   !.base[Now(c)] = IF have = Nothing \/ found.value = Nothing THEN 0
                                    ELSE Adopted(found, have)]
      replay == IF found.value = Nothing THEN <<>> ELSE <<FrameFor(joined, Now(c))>>
      served == [joined EXCEPT !.base[Now(c)] = found.revision]
  IN
  /\ Hears(c, "open")
  /\ \/ /\ closed
        /\ Answers(c, <<[kind |-> "refused"]>>)
        /\ UNCHANGED source
     \/ /\ ~closed /\ Routed(c)
        /\ Answers(c, <<[kind |-> "accepted"]>>)
        /\ UNCHANGED source
     \/ /\ ~closed /\ ~Routed(c)
        /\ Answers(c, replay \o <<StateFrame(found.phase), [kind |-> "accepted"]>>)
        /\ source' = IF NeedsNoRead(found) THEN served ELSE Trigger(served, truth)

HubCloses(c) ==
  /\ Hears(c, "close")
  /\ source' = IF Routed(c) THEN Left(source, Now(c)) ELSE source
  /\ UNCHANGED down

\* The server notices that an earlier connection is over.
Detach(c) ==
  /\ source # NoSource /\ Before(c) \in source.subs
  /\ source' = Left(source, Before(c))
  /\ UNCHANGED <<truth, closed, connected, entry, up, down, changes, faults>>

\* The release timer.  A hold is longer than a frame is on its way.
SourceExpires ==
  /\ source # NoSource /\ source.releasing /\ source.reading = Nothing
  /\ Hold => \A c \in Clients : up[c] = <<>> /\ down[c] = <<>>
  /\ source' = NoSource
  /\ UNCHANGED <<truth, closed, connected, entry, up, down, changes, faults>>

\* The answer changes, and its topic says so.
Change ==
  /\ changes < MaxChanges
  /\ changes' = changes + 1
  /\ truth' \in Values \ {truth}
  /\ source' = IF source = NoSource THEN NoSource ELSE Trigger(source, truth')
  /\ UNCHANGED <<closed, connected, entry, up, down, faults>>

\* A read ends with what was true when it began or later; every subscriber is
\* sent a changed value against the base it holds, and that the source is live.
ReadEnds ==
  /\ source # NoSource /\ source.reading # Nothing
  /\ \E answer \in {source.reading, truth} :
       LET changed == answer # source.value
           moved == IF ~changed THEN source
                    ELSE [source EXCEPT !.past = Remember(source),
                                        !.revision = @ + 1, !.value = answer]
           values(c) == IF changed THEN <<FrameFor(moved, Now(c))>> ELSE <<>>
           states(c) == IF source.phase # "live" THEN <<StateFrame("live")>> ELSE <<>>
           sent == [moved EXCEPT !.phase = "live", !.reading = Nothing,
                      !.base = [m \in Subscribers |->
                                  IF changed /\ m \in source.subs THEN moved.revision ELSE @[m]]]
       IN
       /\ down' = Told(source, [c \in Clients |-> values(c) \o states(c)])
       /\ source' = Pump(sent, truth)
  /\ UNCHANGED <<truth, closed, connected, entry, up, changes, faults>>

ReadFails ==
  /\ source # NoSource /\ source.reading # Nothing /\ Fault
  /\ IF source.subs # {}
     THEN /\ source' = [source EXCEPT !.reading = Nothing, !.dirty = TRUE, !.retry = TRUE,
                                      !.phase = "unavailable"]
          /\ down' = Told(source, [c \in Clients |-> <<StateFrame("unavailable")>>])
     ELSE /\ source' = [source EXCEPT !.reading = Nothing, !.dirty = TRUE]
          /\ UNCHANGED down
  /\ UNCHANGED <<truth, closed, connected, entry, up, changes>>

RetryRead ==
  /\ source # NoSource /\ source.retry
  /\ source' = Pump([source EXCEPT !.retry = FALSE], truth)
  /\ UNCHANGED <<truth, closed, connected, entry, up, down, changes, faults>>

\* The hub is closed under its connections, which are told.
CloseHub ==
  /\ ~closed /\ Fault
  /\ closed' = TRUE
  /\ source' = NoSource
  /\ down' = IF source = NoSource THEN down
             ELSE Told(source, [c \in Clients |-> <<StateFrame("unavailable")>>])
  /\ UNCHANGED <<truth, connected, entry, up, changes>>

\* The process ends, with its connections and its hub, and another takes over.
Restart ==
  /\ \/ closed /\ UNCHANGED faults
     \/ ~closed /\ Fault
  /\ closed' = FALSE
  /\ source' = NoSource
  /\ connected' = [c \in Clients |-> FALSE]
  /\ entry' = [c \in Clients |-> IF connected[c] THEN Dropped(entry[c]) ELSE entry[c]]
  /\ up' = [c \in Clients |-> <<>>]
  /\ down' = [c \in Clients |-> <<>>]
  /\ UNCHANGED <<truth, changes>>

-----------------------------------------------------------------------------
HubStep(c) == HubOpens(c) \/ HubCloses(c)
ClientStep(c) == ValueArrives(c) \/ StateArrives(c) \/ AcknowledgementArrives(c)

WatchNext ==
  \/ \E c \in Clients :
       \/ Subscribe(c) \/ Unsubscribe(c) \/ EntryExpires(c) \/ OpenTimesOut(c)
       \/ Disconnect(c) \/ Connect(c) \/ Detach(c)
       \/ ValueArrives(c) \/ StateArrives(c) \/ AcknowledgementArrives(c)
       \/ HubOpens(c) \/ HubCloses(c)
  \/ SourceExpires \/ Change \/ ReadEnds \/ ReadFails \/ RetryRead
  \/ CloseHub \/ Restart

WatchSpec == WatchInit /\ [][WatchNext]_watchVars

\* Frames arrive, reads and timers end, and a connection comes back.
FairWatchSpec ==
  /\ WatchSpec
  /\ \A c \in Clients : /\ WF_watchVars(HubStep(c))
                        /\ WF_watchVars(ClientStep(c))
                        /\ WF_watchVars(Connect(c))
  /\ WF_watchVars(ReadEnds)
  /\ WF_watchVars(RetryRead)

-----------------------------------------------------------------------------
(* Properties *)

WatchTypeOK ==
  /\ truth \in Values /\ closed \in BOOLEAN
  /\ \A c \in Clients :
       /\ entry[c].value \in Values \cup {Nothing} /\ entry[c].phase \in WatchPhases
       /\ entry[c].revision \in Nat
       /\ entry[c].listening \/ entry[c].opened => entry[c].in
  /\ source # NoSource =>
       /\ source.subs \subseteq Subscribers
       /\ \A m \in Subscribers : source.base[m] <= source.revision
       /\ source.value = Nothing <=> source.revision = 0

\* Nothing is on its way that concerns this client.
Quiet(c) ==
  /\ up[c] = <<>> /\ down[c] = <<>>
  /\ source # NoSource => source.reading = Nothing

\* A read that a client shows as live is the answer: once nothing is under way,
\* whatever was closed, reopened, lost or late, the value it shows is the one a
\* read would give, and the source will tell it of the next.  Only a closed hub
\* that refuses an open whose deadline passed is not heard.
LiveMeansCurrent ==
  \A c \in Clients :
       /\ connected[c] /\ entry[c].in /\ entry[c].phase = "live" /\ Quiet(c)
       /\ closed => entry[c].opened
    => entry[c].value = truth /\ Routed(c)

\* The fingerprint a client offers on the next open is that of the value it
\* holds: what the hub confirmed is what the client had.
OffersWhatItHolds == \A c \in Clients : entry[c].print = entry[c].value

\* Whoever listens ends with the answer, once changes and faults are over,
\* unless the hub was closed and nothing replaced it.
WatchersConverge ==
  <>[](\A c \in Clients : entry[c].listening /\ ~closed => entry[c].value = truth)

=============================================================================
