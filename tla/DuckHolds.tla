------------------------------- MODULE DuckHolds -------------------------------
(***************************************************************************)
(* Duck holds (outputs/overlay_mixer.rs, api/duck.rs) and how an agent-    *)
(* backed pw-sink host learns of them (announce/mod.rs sync_agent_duck,    *)
(* outputs/pwsink/agent.rs).  Such a host is told an absolute depth: who-  *)
(* ever changes one cause of ducking reads the aggregate, then posts it to *)
(* a bounded queue that a relay task drains.  The two reads and the post   *)
(* are three sections under three locks.                                   *)
(*                                                                         *)
(* An announcement is the gain of its overlay.  Time is counted in polls,  *)
(* the only moments at which a lease is enforced.                          *)
(***************************************************************************)
EXTENDS Naturals, Sequences, FiniteSets, FiniteSetsExt

CONSTANTS
  Outputs,     \* agent-backed pw-sink outputs
  Levels,      \* music gains asked for
  NoDuck,      \* no duck: above every level
  Callers,     \* API requests that may be running at once
  Poll,        \* the announce poll, which is a task of its own
  Depth,       \* REMOTE_DUCK_DEPTH
  Lease,       \* polls a lease lasts
  MaxHolds,    \* bound: holds started in one behaviour
  MaxClips,    \* bound: announcements applied in one behaviour
  Reconnects   \* may an agent's connection be lost?

DuckConstants ==
  /\ Levels \subseteq Nat
  /\ NoDuck \in Nat /\ \A l \in Levels : l < NoDuck
  /\ Poll \notin Callers
  /\ "none" \notin Outputs
  /\ Lease \in Nat /\ MaxHolds \in Nat /\ MaxClips \in Nat
  /\ Reconnects \in BOOLEAN

VARIABLES
  ducks,    \* output -> its live holds
  lastId,   \* next_duck_id
  overlay,  \* output -> the duck of the announcement slot, or NoDuck
  ended,    \* outputs whose overlay is gone and not yet reported to the scheduler
  clips,    \* announcements applied so far
  task,     \* caller or poll -> the outputs it has yet to re-assert
  posted,   \* the remote-duck queue
  told      \* output -> the depth its agent applies

mixVars == <<ducks, lastId, overlay, ended, clips>>
duckVars    == <<mixVars, task, posted, told>>

-----------------------------------------------------------------------------
Tasks  == Callers \cup {Poll}
Holds  == 1..MaxHolds
Hold   == [id : Holds, level : Levels, left : 0..Lease]
Idle   == [pc |-> "idle", todo |-> {}, at |-> "none", gain |-> NoDuck, locked |-> FALSE, starts |-> 0]

Covers(id) == {o \in Outputs : \E h \in ducks[o] : h.id = id}

\* duck_gain() and effective_duck(): the strongest gain in force.
HoldGain(o)  == Min({h.level : h \in ducks[o]} \cup {NoDuck})
Effective(o) == Min({HoldGain(o), overlay[o]})

LockFree == \A t \in Tasks : ~task[t].locked

\* t has changed something about these outputs and re-asserts them one by one,
\* keeping the coordinator's lock if it changed an overlay.  The id of a hold it
\* starts is its answer, which no caller has before the request is over.
ReassertFor(t, outs, locked, id) ==
  task' = [task EXCEPT ![t] = IF outs = {} THEN Idle
                              ELSE [Idle EXCEPT !.pc = "next", !.todo = outs, !.locked = locked, !.starts = id]]

Reassert(t, outs, locked) == ReassertFor(t, outs, locked, 0)

Answered(id) == \A t \in Tasks : task[t].starts # id

-----------------------------------------------------------------------------
StartDuck(t, targets, level) ==
  /\ task[t].pc = "idle"
  /\ lastId < MaxHolds
  /\ lastId' = lastId + 1
  /\ ducks' = [o \in Outputs |-> IF o \in targets
                                 THEN ducks[o] \cup {[id |-> lastId', level |-> level, left |-> Lease]}
                                 ELSE ducks[o]]
  /\ ReassertFor(t, targets, FALSE, lastId')
  /\ UNCHANGED <<overlay, ended, clips, posted, told>>

RenewDuck(id) ==
  /\ Answered(id)
  /\ ducks' = [o \in Outputs |-> {IF h.id = id THEN [h EXCEPT !.left = Lease] ELSE h : h \in ducks[o]}]
  /\ UNCHANGED <<lastId, overlay, ended, clips, task, posted, told>>

ReleaseDuck(t, id) ==
  /\ Answered(id)
  /\ task[t].pc = "idle"
  /\ Covers(id) # {}
  /\ ducks' = [o \in Outputs |-> {h \in ducks[o] : h.id # id}]
  /\ Reassert(t, Covers(id), FALSE)
  /\ UNCHANGED <<lastId, overlay, ended, clips, posted, told>>

\* Faulty: an announcement on the output keeps its holds alive.
ExpireDucksUnannounced ==
  /\ task[Poll].pc = "idle"
  /\ ducks' = [o \in Outputs |-> IF overlay[o] # NoDuck THEN ducks[o]
                                 ELSE {[h EXCEPT !.left = @ - 1] : h \in {k \in ducks[o] : k.left > 0}}]
  /\ Reassert(Poll, {o \in Outputs : \E h \in ducks[o] : h.left = 0}, FALSE)
  /\ UNCHANGED <<lastId, overlay, ended, clips, posted, told>>

\* poll(): expire_ducks() first.
ExpireDucks ==
  /\ task[Poll].pc = "idle"
  /\ ducks' = [o \in Outputs |-> {[h EXCEPT !.left = @ - 1] : h \in {k \in ducks[o] : k.left > 0}}]
  /\ Reassert(Poll, {o \in Outputs : \E h \in ducks[o] : h.left = 0}, FALSE)
  /\ UNCHANGED <<lastId, overlay, ended, clips, posted, told>>

\* apply(): an admission starts a clip on o, or stops the clip that is there.
Announce(t, o, level) ==
  /\ task[t].pc = "idle" /\ LockFree
  /\ clips < MaxClips
  /\ clips' = clips + 1
  /\ overlay' = [overlay EXCEPT ![o] = level]
  /\ ended' = ended \ {o}
  /\ Reassert(t, {o}, TRUE)
  /\ UNCHANGED <<ducks, lastId, posted, told>>

\* The relay plays the last chunk, or the watchdog reaps the slot.
OverlayEnds(o) ==
  /\ overlay[o] # NoDuck
  /\ overlay' = [overlay EXCEPT ![o] = NoDuck]
  /\ ended' = ended \cup {o}
  /\ UNCHANGED <<ducks, lastId, clips, task, posted, told>>

\* Faulty: clears the host outright.
PollUnducks(o) ==
  /\ task[Poll].pc = "idle" /\ LockFree
  /\ o \in ended
  /\ ended' = ended \ {o}
  /\ posted' = Append(posted, <<o, NoDuck>>)
  /\ UNCHANGED <<ducks, lastId, overlay, clips, task, told>>

\* poll(): complete() what has ended, and apply() the stop.
PollStops(o) ==
  /\ task[Poll].pc = "idle" /\ LockFree
  /\ o \in ended
  /\ ended' = ended \ {o}
  /\ Reassert(Poll, {o}, TRUE)
  /\ UNCHANGED <<ducks, lastId, overlay, clips, posted, told>>

-----------------------------------------------------------------------------
(* sync_agent_duck(): the holds, then the overlay, then the post; a full     *)
(* queue drops it.                                                           *)
SyncHolds(t, o) ==
  /\ task[t].pc = "next"
  /\ o \in task[t].todo
  /\ task' = [task EXCEPT ![t].pc = "overlay", ![t].at = o, ![t].gain = HoldGain(o)]
  /\ UNCHANGED <<mixVars, posted, told>>

SyncOverlay(t) ==
  /\ task[t].pc = "overlay"
  /\ task' = [task EXCEPT ![t].pc = "post", ![t].gain = Min({@, overlay[task[t].at]})]
  /\ UNCHANGED <<mixVars, posted, told>>

Full == Len(posted) >= Depth

SyncPost(t) ==
  /\ task[t].pc = "post"
  /\ posted' = IF Full THEN posted ELSE Append(posted, <<task[t].at, task[t].gain>>)
  /\ LET left == task[t].todo \ {task[t].at}
     IN  ReassertFor(t, left, task[t].locked, task[t].starts)
  /\ UNCHANGED <<mixVars, told>>

Sync(t) == (\E o \in Outputs : SyncHolds(t, o)) \/ SyncOverlay(t) \/ SyncPost(t)

\* spawn_duck_relay()
RelayDuck ==
  /\ posted # <<>>
  /\ told' = [told EXCEPT ![Head(posted)[1]] = Head(posted)[2]]
  /\ posted' = Tail(posted)
  /\ UNCHANGED <<mixVars, task>>

\* "Whatever ended the session, the host must not stay ducked" (the agent).
AgentReconnects(o) ==
  /\ Reconnects
  /\ told' = [told EXCEPT ![o] = NoDuck]
  /\ UNCHANGED <<mixVars, task, posted>>

-----------------------------------------------------------------------------
DuckInit ==
  /\ ducks = [o \in Outputs |-> {}] /\ lastId = 0
  /\ overlay = [o \in Outputs |-> NoDuck] /\ ended = {} /\ clips = 0
  /\ task = [t \in Tasks |-> Idle]
  /\ posted = <<>>
  /\ told = [o \in Outputs |-> NoDuck]

DuckNext ==
  \/ \E t \in Callers, targets \in (SUBSET Outputs) \ {{}}, l \in Levels : StartDuck(t, targets, l)
  \/ \E id \in Holds : RenewDuck(id) \/ \E t \in Callers : ReleaseDuck(t, id)
  \/ ExpireDucks
  \/ \E o \in Outputs : \/ \E t \in Callers, l \in Levels \cup {NoDuck} : Announce(t, o, l)
                        \/ OverlayEnds(o)
                        \/ PollStops(o)
                        \/ AgentReconnects(o)
  \/ \E t \in Tasks : Sync(t)
  \/ RelayDuck

DuckSpec == DuckInit /\ [][DuckNext]_duckVars

\* The announce ticker never stops: leases are enforced again and again.
Fairness == WF_duckVars(ExpireDucks) /\ WF_duckVars(Sync(Poll))

FairDuckSpec == DuckSpec /\ Fairness

-----------------------------------------------------------------------------
DuckTypeOK ==
  /\ ducks \in [Outputs -> SUBSET Hold] /\ lastId \in 0..MaxHolds
  /\ overlay \in [Outputs -> Levels \cup {NoDuck}] /\ told \in [Outputs -> Levels \cup {NoDuck}]
  /\ ended \subseteq Outputs /\ clips \in 0..MaxClips
  /\ task \in [Tasks -> [pc : {"idle", "next", "overlay", "post"}, todo : SUBSET Outputs,
                         at : Outputs \cup {"none"}, gain : Levels \cup {NoDuck}, locked : BOOLEAN,
                         starts : 0..MaxHolds]]
  /\ posted \in Seq(Outputs \X (Levels \cup {NoDuck}))

(* "One id covers all of them, so a single release/renew ends or extends the *)
(* whole turn": whatever renewals and polls come in between, a hold loses    *)
(* all of its outputs at once or none.                                       *)
TurnIsWhole ==
  [][\A id \in Holds : Covers(id) # {} => Covers(id)' \in {{}, Covers(id)}]_duckVars

(* "The TTL exists so a holder that dies mid-turn cannot leave music ducked  *)
(* forever": a hold that is not renewed for ever ends.                       *)
HoldsEnd ==
  \A id \in Holds :
    []<><<RenewDuck(id)>>_duckVars \/ (Covers(id) # {} ~> Covers(id) = {})

(* "Every producer of ducking must re-assert the aggregate": when no caller  *)
(* and no poll is at work and the relay has drained its queue, every host    *)
(* applies the strongest gain in force on it.                                *)
Settled ==
  /\ \A t \in Tasks : task[t].pc = "idle"
  /\ posted = <<>> /\ ended = {}

AgentFollows == Settled => \A o \in Outputs : told[o] = Effective(o)
=============================================================================
