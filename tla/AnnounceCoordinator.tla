-------------------------- MODULE AnnounceCoordinator --------------------------
(***************************************************************************)
(* announce/mod.rs: the scheduler, the mixer and the clip store put        *)
(* together.  Three actors interleave: the API and the alignment session   *)
(* (announce, reserve, release: each one step under the coordinator's      *)
(* lock), the relay threads (MixInto, under the mixer's own lock), and the *)
(* 150 ms poll, which drains the mixer BEFORE it takes the coordinator's   *)
(* lock and completes what it drained after.                               *)
(***************************************************************************)
EXTENDS OverlayMixer, FiniteSets, Integers

CONSTANTS Reservations, Priorities, TTLs, NoTTL, BargeIns, MaxQueue, MaxAnnouncements, MaxTime

VARIABLES
  active, queue, reservations, nextSeq, nextId, now,  \* the scheduler
  clips,    \* ids whose PCM is stored (`Inner::clips`)
  pollPc,   \* where the poll is: "idle", "taken", "reaped", "locked"
  done,     \* what this poll drained and has not looked at yet
  seen      \* the ids this poll has completed

schedVars == <<active, queue, reservations, nextSeq, nextId, now>>
pollVars  == <<pollPc, done, seen>>
vars      == <<schedVars, mixerVars, clips, pollVars>>

Sched == INSTANCE AnnounceScheduler

(* The outputs are the keys of a HashMap; "no overlay" is an absent key.     *)
ASSUME CoordinatorConstants ==
  /\ Sched!SchedulerConstants
  /\ IsFiniteSet(Outputs)
  /\ NoSlot \notin Overlay

LockFree == pollPc # "locked"

Ids(E) == {e.id : e \in E}

-----------------------------------------------------------------------------
\* Faulty: a stop that is not a restart leaves the overlay.
SlotAfterUnstopped(o, stored) ==
  LET after == Sched!OccupantIn(active', o)
  IN  IF after # Sched!OccupantIn(active, o) /\ after \in stored THEN NewSlot(after) ELSE slots[o]

(* apply(): what the step of the scheduler means for the mixer, output by    *)
(* output.  A start whose clip is not in `stored` does nothing at all: it    *)
(* neither starts an overlay nor reports one finished.                       *)
SlotAfter(o, stored) ==
  LET before == Sched!OccupantIn(active, o)
      after  == Sched!OccupantIn(active', o)
  IN  IF after = before                                  THEN slots[o]
      ELSE IF after # Sched!Free /\ after \in stored     THEN NewSlot(after)
      ELSE IF before # Sched!Free                        THEN NoSlot
      ELSE slots[o]

ApplyToMixer(stored) ==
  /\ slots' = [o \in Outputs |-> SlotAfter(o, stored)]
  /\ UNCHANGED <<finished, streaming>>

\* Entries the step removed from flight: dropped by TTL, rejected, completed.
Gone(ids) == ids \ Ids(Sched!InFlight)'

-----------------------------------------------------------------------------
\* Faulty: a rejected clip stays stored.
AnnounceKeeping(req) ==
  /\ LockFree
  /\ Sched!Begin(req)
  /\ ApplyToMixer(clips \cup {nextId})
  /\ clips' = (clips \cup {nextId}) \ Gone(Ids(Sched!InFlight))
  /\ UNCHANGED pollVars

\* Faulty: the clip is stored only if it plays at once.
AnnounceStoringPlaying(req) ==
  /\ LockFree
  /\ Sched!Begin(req)
  /\ ApplyToMixer(clips \cup {nextId})
  /\ clips' = (clips \cup {nextId}) \cap Ids(active)'
  /\ UNCHANGED pollVars

Announce(req) ==
  /\ LockFree
  /\ Sched!Begin(req)
  /\ ApplyToMixer(clips \cup {nextId})
  /\ clips' = (clips \cup {nextId}) \ Gone(Ids(Sched!InFlight) \cup {nextId})
  /\ UNCHANGED pollVars

ReserveOutputs(r, outs) ==
  /\ LockFree
  /\ reservations[r] = {}
  /\ Sched!Reserve(r, outs)
  /\ UNCHANGED <<mixerVars, clips, pollVars>>

ReleaseReservation(r) ==
  /\ LockFree
  /\ reservations[r] # {}
  /\ Sched!ReleaseReservation(r)
  /\ ApplyToMixer(clips)
  /\ clips' = clips \ Gone(Ids(Sched!InFlight))
  /\ UNCHANGED pollVars

Relay(o) ==
  /\ MixInto(o)
  /\ UNCHANGED <<schedVars, clips, pollVars>>

SenderChange(o) ==
  /\ RelayChange(o)
  /\ UNCHANGED <<schedVars, clips, pollVars>>

AdvanceTime ==
  /\ Sched!AdvanceTime
  /\ UNCHANGED <<mixerVars, clips, pollVars>>

-----------------------------------------------------------------------------
\* Faulty: drains the mixer and keeps nothing.
PollTakeLosing ==
  /\ pollPc = "idle"
  /\ done' = <<>>
  /\ finished' = <<>>
  /\ pollPc' = "taken"
  /\ UNCHANGED <<schedVars, slots, streaming, clips, seen>>

(* poll(): take_finished() and reap_stalled(), each under the mixer's lock   *)
(* only; then, under the coordinator's lock, one complete() per drained id   *)
(* followed by clips.remove(id), the ids already seen skipped (a clip may    *)
(* report on each of its outputs), and a final tick().                       *)
PollTake ==
  /\ pollPc = "idle"
  /\ done' = finished
  /\ finished' = <<>>
  /\ pollPc' = "taken"
  /\ UNCHANGED <<schedVars, slots, streaming, clips, seen>>

\* Faulty: what is reaped is not reported.
PollReapSilently ==
  /\ pollPc = "taken"
  /\ slots' = [o \in Outputs |-> Sampled(o)]
  /\ pollPc' = "reaped"
  /\ UNCHANGED <<schedVars, finished, streaming, clips, done, seen>>

PollReap ==
  /\ pollPc = "taken"
  /\ \E s \in SetToSeqs(Reaped) : done' = done \o s
  /\ slots' = [o \in Outputs |-> Sampled(o)]
  /\ pollPc' = "reaped"
  /\ UNCHANGED <<schedVars, finished, streaming, clips, seen>>

\* The first completion takes the lock.
PollComplete ==
  /\ pollPc \in {"reaped", "locked"}
  /\ done # <<>>
  /\ LET id == Head(done)[2]
     IN  /\ id \notin seen
         /\ Sched!Complete(id)
         /\ ApplyToMixer(clips)
         /\ clips' = clips \ (Gone(Ids(Sched!InFlight)) \cup {id})
         /\ seen' = seen \cup {id}
  /\ done' = Tail(done)
  /\ pollPc' = "locked"

PollSkip ==
  /\ pollPc = "locked"
  /\ done # <<>>
  /\ Head(done)[2] \in seen
  /\ done' = Tail(done)
  /\ UNCHANGED <<schedVars, mixerVars, clips, pollPc, seen>>

PollTick ==
  /\ pollPc \in {"reaped", "locked"}
  /\ done = <<>>
  /\ Sched!Tick
  /\ ApplyToMixer(clips)
  /\ clips' = clips \ Gone(Ids(Sched!InFlight))
  /\ pollPc' = "idle"
  /\ seen' = {}
  /\ UNCHANGED done

Poll == PollTake \/ PollReap \/ PollComplete \/ PollSkip \/ PollTick

-----------------------------------------------------------------------------
Init ==
  /\ Sched!Init
  /\ MixerInit
  /\ clips = {}
  /\ pollPc = "idle"
  /\ done = <<>>
  /\ seen = {}

Next ==
  \/ \E req \in Sched!Request : Announce(req)
  \/ \E r \in Reservations, outs \in (SUBSET Outputs) \ {{}} : ReserveOutputs(r, outs)
  \/ \E r \in Reservations : ReleaseReservation(r)
  \/ \E o \in Outputs : Relay(o)
  \/ \E o \in Outputs : SenderChange(o)
  \/ AdvanceTime
  \/ Poll

Spec == Init /\ [][Next]_vars

(* The poll's ticker never stops and a relay that is streaming keeps mixing. *)
(* A hold is released by every path out of a session, and the mutex it takes *)
(* is free again and again but not for ever: strong fairness.                *)
Fairness ==
  /\ WF_vars(Poll)
  /\ \A o \in Outputs : WF_vars(Relay(o))
  /\ \A r \in Reservations : SF_vars(ReleaseReservation(r))

FairSpec == Spec /\ Fairness

-----------------------------------------------------------------------------
TypeOK ==
  /\ Sched!TypeOK
  /\ slots \in [Outputs -> Overlay \cup {NoSlot}]
  /\ finished \in Seq(Outputs \X Nat)
  /\ streaming \in [Outputs -> BOOLEAN]
  /\ clips \subseteq Nat
  /\ pollPc \in {"idle", "taken", "reaped", "locked"}
  /\ done \in Seq(Outputs \X Nat)
  /\ seen \subseteq Nat

(* The mixer never plays on an output a clip that the scheduler has taken    *)
(* off it, whichever of relay, poll and barge-in came first.                 *)
SlotBelongsToOccupant ==
  \A o \in Outputs : Has(o) => slots[o].id = Sched!Occupant(o)

(* No PCM outlives its announcement: rejected, dropped, completed or         *)
(* preempted-and-stale, its clip leaves the store.                           *)
NoClipLeak == clips \subseteq Ids(Sched!InFlight)

(* "Clip PCM per in-flight announcement, kept so a queued or barge-preempted *)
(* clip can (re)start whole later."                                          *)
ClipKept == Ids(Sched!InFlight) \subseteq clips

(* "Treated exactly like a finish so the scheduler frees the output -        *)
(* otherwise it stays occupied by a clip that can never end": a playing      *)
(* announcement has an overlay somewhere, or its end is already reported.    *)
Reports      == Range(finished) \cup Range(done)
Reported(id) == \E d \in Reports : d[2] = id

OccupiedHasEnd ==
  \A e \in active : \/ \E o \in e.targets : Has(o)
                    \/ Reported(e.id)

(* "Announcements are atomic clips and always play whole, from the start, or *)
(* not at all": a clip in progress leaves an output by playing its last      *)
(* chunk, by the stall watchdog, or because an arrival barged in.            *)
PlaysWhole ==
  [][\A o \in Outputs :
       Has(o) /\ slots'[o] = NoSlot =>
         \/ slots[o].left = 1 /\ finished' # finished
         \/ Stalled(o) /\ pollPc = "taken"
         \/ nextId' # nextId]_vars

(* The scheduler's own guarantee, with the fairness it assumes: every clip   *)
(* that occupies outputs is completed.                                       *)
DrivesScheduler == Sched!FairSpec
=============================================================================
