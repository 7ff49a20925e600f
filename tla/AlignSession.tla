----------------------------- MODULE AlignSession -----------------------------
(***************************************************************************)
(* The lifetime of an alignment run: align/calibrate/session.rs (begin,    *)
(* rescope, stop, teardown, the idle watchdog), the audibility pass of     *)
(* align/calibrate/audibility.rs, and the exclusive hold of align/group.rs *)
(* with the three things it takes.                                         *)
(*                                                                         *)
(* Starts are serialised by `start_lock`; stop, the watchdog and the       *)
(* audibility passes take no such lock, and every one of them releases the *)
(* session lock before it talks to the speakers.  Each step below runs     *)
(* between two points where a task may be suspended or overtaken.          *)
(*                                                                         *)
(* A hold is a number, in the order of formation; 0 is no hold.  A session *)
(* is named by its hold.  Requests run to their end here; that they may be *)
(* dropped halfway is module AlignDropped.                                 *)
(***************************************************************************)
EXTENDS Naturals, FiniteSets

CONSTANTS
  Outputs,      \* output node names
  Hosted,       \* pw-sink outputs: a host's agent mutes and levels them, or the relay mutes them
  Receivers,    \* AirPlay 2 outputs: their level may be unknown before the session
  MaxHolds,     \* bound: holds formed in one behaviour
  Passes        \* API requests that may be changing audibility at once

SessionConstants ==
  /\ Hosted \subseteq Outputs
  /\ Receivers \subseteq Outputs \ Hosted
  /\ MaxHolds \in Nat

VARIABLES
  \* what a hold takes (align/group.rs, routing/sync_group, announce)
  registry,    \* HoldRegistry: the hold reports go to
  reserved,    \* holds with a reservation in the announce scheduler
  override,    \* the reconciler's `align_hold`
  held,        \* hold -> the outputs it covers
  lastHold,    \* next_hold_id() - 1
  \* what a session does to the speakers
  relayMutes,  \* outputs muted at the relay hook
  disturbed,   \* outputs whose own level or mute is not what the user left
  saved,       \* hold -> members already disturbed when it was snapshotted
  unknown,     \* hold -> members whose level or mute nobody knew at the snapshot
  left,        \* members whose changed level a teardown could not put back
  \* the manager and its tasks
  session,     \* the session slot
  start,       \* the start that holds `start_lock`
  stopping,    \* a stop has moved start_gen on and not yet taken the slot
  tear,        \* hold -> where its teardown is
  byTask,      \* holds torn down by the watchdog's own task
  pass         \* request -> the audibility pass it is in

holdVars    == <<registry, reserved, override, held, lastHold>>
memberVars  == <<saved, unknown, left>>
speakerVars == <<relayMutes, disturbed, memberVars>>
taskVars    == <<session, start, stopping, tear, byTask, pass>>
vars        == <<holdVars, speakerVars, taskVars>>

-----------------------------------------------------------------------------
Holds      == 1..MaxHolds
Selections == (SUBSET Outputs) \ {{}}

\* `current`: start_gen is still the generation this start took.
IdleStart == [pc |-> "idle", hold |-> 0, want |-> {}, on |-> {}, fresh |-> FALSE, current |-> FALSE]
IdlePass  == [pc |-> "idle", hold |-> 0, on |-> {}]

StartPcs == {"idle", "rescope", "take", "tear", "open", "reserve", "override", "anchor",
             "snapshot", "mutes", "levels", "publish", "release"}
TearPcs  == {"none", "restore", "unmute", "override", "reservation", "registry", "dropped", "done"}
PassPcs  == {"idle", "mutes", "levels"}

Starts == [pc : StartPcs, hold : 0..MaxHolds, want : SUBSET Outputs, on : SUBSET Outputs,
           fresh : BOOLEAN, current : BOOLEAN]

StartAt(pc)    == start.pc = pc
StartGoes(pc)  == start' = [start EXCEPT !.pc = pc]
Torn(h)        == tear[h] = "done"
TearDown(h)    == tear' = [tear EXCEPT ![h] = "restore"]

\* apply_audibility(): the relay batch first, the writes to devices and hosts
\* after it.  Every member is named, so each is muted or explicitly unmuted; a
\* member whose own transport has no mute is muted here until its host has taken over.
SetRelayMutes(h, on) == relayMutes' = (relayMutes \ held[h]) \cup ((held[h] \cap Hosted) \ on)

\* Which hosts have a level or a mute to set is asked anew in every pass, and a
\* write may not land: a mute that does takes over from the relay's.  The other
\* members' levels are stored for their devices, connected or not.
WriteLevels(h) ==
  \E reached \in SUBSET (held[h] \cap Hosted) : \E muted \in SUBSET reached :
    /\ disturbed' = disturbed \cup (held[h] \ Hosted) \cup reached
    /\ relayMutes' = relayMutes \ muted

-----------------------------------------------------------------------------
(* begin()                                                                   *)

Groupable(want) == Cardinality(want) >= 2

\* plan_hold(): the session's own union or a subset of it reuses the hold.
StartPlan(want) ==
  /\ StartAt("idle")
  /\ IF session # 0 /\ Groupable(want) /\ want \subseteq held[session]
     THEN start' = [IdleStart EXCEPT !.pc = "rescope", !.want = want]
     ELSE /\ lastHold < MaxHolds
          /\ start' = [IdleStart EXCEPT !.pc = "take", !.want = want, !.fresh = TRUE, !.current = TRUE]
  /\ UNCHANGED <<holdVars, speakerVars, session, stopping, tear, byTask, pass>>

\* rescope(): re-aim the session inside its hold, unless it is gone by now.
StartRescope ==
  /\ StartAt("rescope")
  /\ IF session = 0
     THEN start' = IdleStart
     ELSE \E on \in {S \in SUBSET start.want : Cardinality(S) = 2} :
            start' = [start EXCEPT !.pc = "mutes", !.hold = session, !.on = on]
  /\ UNCHANGED <<holdVars, speakerVars, session, stopping, tear, byTask, pass>>

\* Tear the previous session down first, then form.
StartTake ==
  /\ StartAt("take")
  /\ IF session = 0
     THEN StartGoes("open") /\ UNCHANGED <<session, tear>>
     ELSE /\ start' = [start EXCEPT !.pc = "tear", !.hold = session]
          /\ TearDown(session)
          /\ session' = 0
  /\ UNCHANGED <<holdVars, speakerVars, stopping, byTask, pass>>

StartTorn ==
  /\ StartAt("tear")
  /\ Torn(start.hold)
  /\ StartGoes("open")
  /\ UNCHANGED <<holdVars, speakerVars, session, stopping, tear, byTask, pass>>

\* validate_selection() refuses one output alone, or one that is not adopted.
StartRefused ==
  /\ StartAt("open")
  /\ start' = IdleStart
  /\ UNCHANGED <<holdVars, speakerVars, session, stopping, tear, byTask, pass>>

\* acquire(): registry, then reservation, then (after awaiting the lock of the
\* group layout) the routing override.
StartOpen ==
  /\ StartAt("open")
  /\ Groupable(start.want)
  /\ lastHold' = lastHold + 1
  /\ registry' = lastHold'
  /\ held' = [held EXCEPT ![lastHold'] = start.want]
  /\ start' = [start EXCEPT !.pc = "reserve", !.hold = lastHold']
  /\ UNCHANGED <<reserved, override, speakerVars, session, stopping, tear, byTask, pass>>

StartReserve ==
  /\ StartAt("reserve")
  /\ reserved' = reserved \cup {start.hold}
  /\ StartGoes("override")
  /\ UNCHANGED <<registry, override, held, lastHold, speakerVars, session, stopping, tear, byTask, pass>>

StartOverride ==
  /\ StartAt("override")
  /\ override' = start.hold
  /\ StartGoes("anchor")
  /\ UNCHANGED <<registry, reserved, held, lastHold, speakerVars, session, stopping, tear, byTask, pass>>

\* await_anchor(): the group comes up, or it does not and the hold goes back.
StartAnchor ==
  /\ StartAt("anchor")
  /\ \/ StartGoes("snapshot") /\ UNCHANGED tear
     \/ /\ StartGoes("release")
        /\ tear' = [tear EXCEPT ![start.hold] = "unmute"]
  /\ UNCHANGED <<holdVars, speakerVars, session, stopping, byTask, pass>>

\* "Snapshot levels and mutes so teardown can put them back exactly": a host that
\* does not answer, or lacks the knob, and a receiver that never reported its
\* level have none to save.  The default pair is audible first.
StartSnapshot ==
  /\ StartAt("snapshot")
  /\ saved' = [saved EXCEPT ![start.hold] = disturbed \cap start.want]
  /\ \E blank \in SUBSET (start.want \cap (Hosted \cup Receivers)) :
       unknown' = [unknown EXCEPT ![start.hold] = blank]
  /\ \E on \in {S \in SUBSET start.want : Cardinality(S) = 2} :
       start' = [start EXCEPT !.pc = "mutes", !.on = on]
  /\ UNCHANGED <<holdVars, relayMutes, disturbed, left, session, stopping, tear, byTask, pass>>

StartMutes ==
  /\ StartAt("mutes")
  /\ SetRelayMutes(start.hold, start.on)
  /\ StartGoes("levels")
  /\ UNCHANGED <<holdVars, disturbed, memberVars, session, stopping, tear, byTask, pass>>

StartLevels ==
  /\ StartAt("levels")
  /\ WriteLevels(start.hold)
  /\ IF start.fresh THEN StartGoes("publish") ELSE start' = IdleStart
  /\ UNCHANGED <<holdVars, memberVars, session, stopping, tear, byTask, pass>>

\* Faulty: the start publishes its session over a stop.
StartPublishAnyway ==
  /\ StartAt("publish")
  /\ session' = start.hold
  /\ start' = IdleStart
  /\ UNCHANGED <<holdVars, speakerVars, stopping, tear, byTask, pass>>

\* Faulty: a start overtaken by a stop drops what it formed.
StartPublishLeaking ==
  /\ StartAt("publish")
  /\ session' = IF start.current THEN start.hold ELSE session
  /\ start' = IdleStart
  /\ UNCHANGED <<holdVars, speakerVars, stopping, tear, byTask, pass>>

\* Publish the session and arm its watchdog, unless a stop overtook us.
StartPublish ==
  /\ StartAt("publish")
  /\ IF start.current
     THEN session' = start.hold /\ start' = IdleStart /\ UNCHANGED tear
     ELSE StartGoes("release") /\ TearDown(start.hold) /\ UNCHANGED session
  /\ UNCHANGED <<holdVars, speakerVars, stopping, byTask, pass>>

StartReleased ==
  /\ StartAt("release")
  /\ Torn(start.hold)
  /\ start' = IdleStart
  /\ UNCHANGED <<holdVars, speakerVars, session, stopping, tear, byTask, pass>>

StartStep ==
  \/ StartRescope \/ StartTake \/ StartTorn \/ StartRefused \/ StartOpen \/ StartReserve
  \/ StartOverride \/ StartAnchor \/ StartSnapshot \/ StartMutes \/ StartLevels
  \/ StartPublish \/ StartReleased

-----------------------------------------------------------------------------
(* stop(), and the watchdog of the session in the slot                       *)
StopBump ==
  /\ ~stopping
  /\ stopping' = TRUE
  /\ start' = [start EXCEPT !.current = FALSE]
  /\ UNCHANGED <<holdVars, speakerVars, session, tear, byTask, pass>>

StopTake ==
  /\ stopping
  /\ stopping' = FALSE
  /\ IF session = 0 THEN UNCHANGED tear ELSE TearDown(session)
  /\ session' = 0
  /\ UNCHANGED <<holdVars, speakerVars, start, byTask, pass>>

\* Idle for SESSION_TIMEOUT, decided and taken under one lock.  A silence() may
\* be in progress: it does not count as activity.
WatchdogTake ==
  /\ session # 0
  /\ TearDown(session)
  /\ byTask' = byTask \cup {session}
  /\ session' = 0
  /\ UNCHANGED <<holdVars, speakerVars, start, stopping, pass>>

-----------------------------------------------------------------------------
(* teardown(): levels and mutes back, then release() of the hold: the relay  *)
(* mutes, the override, the reservation, the registry entry.                 *)
TearGoes(h, pc) == tear' = [tear EXCEPT ![h] = pc]

\* Faulty: the levels stay as the run left them.
TearRestoreNothing(h) ==
  /\ tear[h] = "restore"
  /\ TearGoes(h, "unmute")
  /\ UNCHANGED <<holdVars, speakerVars, session, start, stopping, byTask, pass>>

\* The snapshot goes with its session.
ForgetSnapshot(h) ==
  /\ saved' = [saved EXCEPT ![h] = {}]
  /\ unknown' = [unknown EXCEPT ![h] = {}]

Restore(h, skipped) ==
  /\ disturbed' = (disturbed \ (held[h] \ skipped)) \cup (saved[h] \ skipped)
  /\ left' = left \cup (disturbed \cap skipped)

\* "None means no pre-session level was ever known, and then the only correct
\* action is to write nothing"; and a restore may not arrive, for there is no
\* agent, no connection or no room in a queue, which is only logged.
TearRestore(h) ==
  /\ tear[h] = "restore"
  /\ \E missed \in SUBSET held[h] : Restore(h, unknown[h] \cup missed)
  /\ ForgetSnapshot(h)
  /\ TearGoes(h, "unmute")
  /\ UNCHANGED <<holdVars, relayMutes, session, start, stopping, byTask, pass>>

TearUnmute(h) ==
  /\ tear[h] = "unmute"
  /\ relayMutes' = relayMutes \ held[h]
  /\ TearGoes(h, "override")
  /\ UNCHANGED <<holdVars, disturbed, memberVars, session, start, stopping, byTask, pass>>

\* Faulty: whoever clears, clears.
ClearOverrideUnguarded(h) == override' = 0

\* clear_align_hold(), id-guarded.
ClearOverride(h) == override' = IF override = h THEN 0 ELSE override

TearOverride(h) ==
  /\ tear[h] = "override"
  /\ ClearOverride(h)
  /\ TearGoes(h, "reservation")
  /\ UNCHANGED <<registry, reserved, held, lastHold, speakerVars, session, start, stopping, byTask, pass>>

TearReservation(h) ==
  /\ tear[h] = "reservation"
  /\ reserved' = reserved \ {h}
  /\ TearGoes(h, "registry")
  /\ UNCHANGED <<registry, override, held, lastHold, speakerVars, session, start, stopping, byTask, pass>>

\* HoldRegistry::close(), id-guarded.
CloseRegistry(h) == registry' = IF registry = h THEN 0 ELSE registry

TearRegistry(h) ==
  /\ tear[h] = "registry"
  /\ CloseRegistry(h)
  /\ TearGoes(h, "done")
  /\ UNCHANGED <<reserved, override, held, lastHold, speakerVars, session, start, stopping, byTask, pass>>

TearStep(h) ==
  \/ TearRestore(h) \/ TearUnmute(h) \/ TearOverride(h)
  \/ TearReservation(h) \/ TearRegistry(h)

-----------------------------------------------------------------------------
(* set_audible(), select(), set_level(), silence(): the session is read      *)
(* under its lock; the speakers are written after the lock is released.      *)
PassBegin(p) ==
  /\ pass[p].pc = "idle"
  /\ session # 0
  /\ \E on \in SUBSET held[session] :
       pass' = [pass EXCEPT ![p] = [pc |-> "mutes", hold |-> session, on |-> on]]
  /\ UNCHANGED <<holdVars, speakerVars, session, start, stopping, tear, byTask>>

PassMutes(p) ==
  /\ pass[p].pc = "mutes"
  /\ SetRelayMutes(pass[p].hold, pass[p].on)
  /\ pass' = [pass EXCEPT ![p].pc = "levels"]
  /\ UNCHANGED <<holdVars, disturbed, memberVars, session, start, stopping, tear, byTask>>

PassLevels(p) ==
  /\ pass[p].pc = "levels"
  /\ WriteLevels(pass[p].hold)
  /\ pass' = [pass EXCEPT ![p] = IdlePass]
  /\ UNCHANGED <<holdVars, memberVars, session, start, stopping, tear, byTask>>

-----------------------------------------------------------------------------
Init ==
  /\ registry = 0 /\ reserved = {} /\ override = 0
  /\ held = [h \in Holds |-> {}] /\ lastHold = 0
  /\ relayMutes = {} /\ disturbed = {} /\ saved = [h \in Holds |-> {}]
  /\ unknown = [h \in Holds |-> {}] /\ left = {}
  /\ session = 0 /\ start = IdleStart /\ stopping = FALSE
  /\ tear = [h \in Holds |-> "none"] /\ byTask = {}
  /\ pass = [p \in Passes |-> IdlePass]

Next ==
  \/ \E want \in Selections : StartPlan(want)
  \/ StartStep
  \/ StopBump \/ StopTake \/ WatchdogTake
  \/ \E h \in Holds : TearStep(h)
  \/ \E p \in Passes : PassBegin(p) \/ PassMutes(p) \/ PassLevels(p)

Spec == Init /\ [][Next]_vars

\* A start and a teardown that have begun are polled until they end: their
\* locks are held only for short sections and await_anchor() has a deadline.
Fairness ==
  /\ WF_vars(StartStep)
  /\ \A h \in Holds : WF_vars(TearStep(h))

FairSpec == Spec /\ Fairness

-----------------------------------------------------------------------------
TypeOK ==
  /\ registry \in 0..MaxHolds /\ override \in 0..MaxHolds /\ lastHold \in 0..MaxHolds
  /\ reserved \subseteq Holds /\ byTask \subseteq Holds
  /\ held \in [Holds -> SUBSET Outputs] /\ saved \in [Holds -> SUBSET Outputs]
  /\ unknown \in [Holds -> SUBSET Outputs] /\ left \subseteq Outputs
  /\ relayMutes \subseteq Outputs /\ disturbed \subseteq Outputs
  /\ session \in 0..MaxHolds /\ stopping \in BOOLEAN
  /\ start \in Starts
  /\ tear \in [Holds -> TearPcs]
  /\ pass \in [Passes -> [pc : PassPcs, hold : 0..MaxHolds, on : SUBSET Outputs]]

(* "Id-guarded so a late teardown can't clear a newer session's hold": from  *)
(* the moment it is formed until it is taken out of the slot, a session has  *)
(* the reservation, the routing override and the registry entry, however     *)
(* many older holds are still being given back.                              *)
Formed == (IF session = 0 THEN {} ELSE {session}) \cup
          (IF start.fresh /\ start.pc \in {"anchor", "snapshot", "mutes", "levels", "publish"}
           THEN {start.hold} ELSE {})

HoldIsWhole ==
  /\ \A h \in Formed : registry = h /\ h \in reserved /\ override = h
  /\ StartAt("override") => registry = start.hold /\ start.hold \in reserved

(* A start that was told it may reuse the hold finds a hold that covers it.  *)
RescopeIsCovered ==
  start.pc = "rescope" /\ session # 0 => start.want \subseteq held[session]

(* A stop is obeyed by the start it overtakes: what that start was forming   *)
(* is never published, however the two interleave.                           *)
StopIsObeyed ==
  [][start.fresh /\ ~start.current => session' \in {0, session}]_vars

(* Nothing is held for nobody: a hold ends up in the slot or given back.     *)
Takes(h) == registry = h \/ h \in reserved \/ override = h

EveryHoldSettles == \A h \in Holds : Takes(h) ~> session = h \/ ~Takes(h)

(* With no session and no task at work, nothing is held.                     *)
Quiet ==
  /\ session = 0 /\ StartAt("idle")
  /\ \A h \in Holds : tear[h] \in {"none", "done"}
  /\ \A p \in Passes : pass[p].pc = "idle"

HoldsGivenBack == Quiet => registry = 0 /\ reserved = {} /\ override = 0
=============================================================================
