------------------------------- MODULE HostAudio --------------------------------
(***************************************************************************)
(* pwrouter-agent/src/pw_thread.rs: what the agent does to the audio of its*)
(* host.  It loads the receiver module, pins it to a sink, and turns the   *)
(* other applications' streams down and up again, in ramps.                *)
(*                                                                         *)
(* Commands are executed by one thread in the order they are sent, so one  *)
(* is carried out where it is sent (client.rs).  What PipeWire reports     *)
(* back comes later.  A level counts in halves of full volume; every ramp  *)
(* gets all the ticks it needs.                                            *)
(***************************************************************************)
EXTENDS Naturals, FiniteSets

CONSTANTS
  Streams,      \* playback streams of other applications
  Full,         \* the level a stream begins at
  Depths,       \* levels a duck goes down to
  MaxSteps,     \* steps of a ramp
  Unset,        \* no level known or kept
  MaxTouches    \* bound on what happens on the host itself

VARIABLES
  session,      \* the control connection of client.rs is up
  receiver,     \* State::receiver is set
  module,       \* "none", "live", or "dead": loaded with nothing to play on
  target,       \* State::target_sink: "default" or "usb"
  usb,          \* the sink that can be pinned is in the graph
  pinPresent, reload,  \* State::pin_present; a ReloadReceiver is queued
  attached,     \* our stream is seen to play on a tracked sink
  linked,       \* streams seen to play on that sink
  vol, seen,    \* a stream's level, and what the agent last read of it
  baseline,     \* State::duck_baseline
  ramp,         \* State::ramp, or the empty function
  step, steps,
  touches

pinVars  == <<receiver, module, target, usb, pinPresent, reload, attached>>
rampVars == <<ramp, step, steps>>
duckVars == <<vol, baseline, rampVars>>
hostAudioVars == <<session, pinVars, linked, seen, duckVars, touches>>

NoRamp == [s \in {} |-> 0]
IsRamping == steps > 0

HostAudioInit ==
  /\ session = FALSE /\ receiver = FALSE /\ module = "none" /\ target = "default"
  /\ usb \in BOOLEAN /\ pinPresent = TRUE /\ reload = FALSE /\ attached = FALSE
  /\ linked = {} /\ vol = [s \in Streams |-> Full] /\ seen = [s \in Streams |-> Unset]
  /\ baseline = [s \in Streams |-> Unset] /\ ramp = NoRamp /\ step = 0 /\ steps = 0
  /\ touches = 0

Ducked == {s \in Streams : baseline[s] # Unset}

-----------------------------------------------------------------------------
(* Writing a level. *)

SetNodeVolumes(level) ==
  vol' = [s \in Streams |-> IF s \in DOMAIN level THEN level[s] ELSE vol[s]]

RampDropped == ramp' = NoRamp /\ step' = 0 /\ steps' = 0

RestoreNow ==
  /\ SetNodeVolumes([s \in Ducked |-> baseline[s]])
  /\ baseline' = [s \in Streams |-> Unset] /\ RampDropped

BeginRamp(targets, n) == ramp' = targets /\ step' = 0 /\ steps' = n

ForeignStreams == {s \in linked : attached /\ seen[s] # Unset /\ seen[s] > 0}

\* start_duck(): a baseline is taken once.
DuckOthers(depth, n) ==
  LET base(s) == IF s \in Ducked THEN baseline[s] ELSE seen[s]
  IN /\ session
     /\ baseline' = [s \in Streams |-> IF s \in ForeignStreams THEN base(s) ELSE baseline[s]]
     /\ BeginRamp([s \in ForeignStreams |->
                     [from |-> seen[s], to |-> (base(s) * depth) \div Full]], n)
     /\ UNCHANGED <<session, pinVars, linked, seen, vol, touches>>

\* start_unduck(): the baselines stay until the last step.
StartUnduck(n) ==
  /\ IF Ducked = {} THEN UNCHANGED rampVars
     ELSE BeginRamp([s \in Ducked |-> [from |-> seen[s], to |-> baseline[s]]], n)
  /\ UNCHANGED <<vol, baseline>>

Between(r, i, n) == (r.from * (n - i) + r.to * i) \div n

RampTick ==
  LET done == step + 1 = steps
  IN /\ IsRamping
     /\ SetNodeVolumes([s \in DOMAIN ramp |-> Between(ramp[s], step + 1, steps)])
     /\ IF done THEN ramp' = NoRamp /\ step' = 0 /\ steps' = 0
        ELSE step' = step + 1 /\ UNCHANGED <<ramp, steps>>
     /\ baseline' = IF done /\ \A s \in DOMAIN ramp : baseline[s] = ramp[s].to
                    THEN [s \in Streams |-> Unset] ELSE baseline
     /\ UNCHANGED <<session, pinVars, linked, seen, touches>>

-----------------------------------------------------------------------------
(* The receiver and the pin. *)

PinIsPresent(t, there) == t = "default" \/ there

\* A reload undoes the duck; a pinned stream is not moved to another sink.
LoadModule(t) ==
  /\ module' = IF PinIsPresent(t, usb) THEN "live" ELSE "dead"
  /\ IF module = "none" THEN UNCHANGED duckVars ELSE RestoreNow

\* Welcome, and LoadReceiver.
LoadReceiver ==
  /\ session /\ receiver' = TRUE /\ pinPresent' = PinIsPresent(target, usb)
  /\ LoadModule(target)
  /\ UNCHANGED <<session, target, usb, reload, attached, linked, seen, touches>>

UnloadReceiver ==
  /\ RestoreNow /\ module' = "none" /\ receiver' = FALSE
  /\ UNCHANGED <<target, usb, pinPresent, reload, attached, linked, seen, touches>>

Release == session /\ UnloadReceiver /\ UNCHANGED session

ReloadReceiver ==
  /\ reload /\ reload' = FALSE
  /\ IF receiver THEN LoadModule(target) ELSE UNCHANGED <<module, duckVars>>
  /\ UNCHANGED <<session, receiver, target, usb, pinPresent, attached, linked, seen, touches>>

PinLookedUp(t) == PinIsPresent(t, usb)

SetTargetSink(t) ==
  /\ touches < MaxTouches /\ touches' = touches + 1
  /\ target # t /\ target' = t /\ pinPresent' = PinLookedUp(t)
  /\ IF receiver THEN LoadModule(t) ELSE UNCHANGED <<module, duckVars>>
  /\ UNCHANGED <<session, receiver, usb, reload, attached, linked, seen>>

\* resync_pin(): only a change acts.
ResyncPin(there) ==
  LET present == PinIsPresent(target, there)
  IN /\ pinPresent' = present
     /\ reload' = (reload \/ (present /\ ~pinPresent /\ target # "default" /\ receiver))

-----------------------------------------------------------------------------
(* The session of client.rs, as far as it touches the audio. *)

SessionBegins ==
  /\ ~session /\ session' = TRUE
  /\ UNCHANGED <<pinVars, linked, seen, duckVars, touches>>

Unduck(n) ==
  /\ session /\ StartUnduck(n)
  /\ UNCHANGED <<session, pinVars, linked, seen, touches>>

\* Faulty: only the keepalive's deadline undoes the duck.
JustEnds == UNCHANGED duckVars
EndUnducks == StartUnduck(MaxSteps)

\* Any end but a suspend, the deadline included.
SessionEnds ==
  /\ session /\ session' = FALSE /\ EndUnducks
  /\ UNCHANGED <<pinVars, linked, seen, touches>>

Suspends == session /\ session' = FALSE /\ UnloadReceiver

\* Stop: the handle is dropped, and the process ends.  It may be started again.
Stops ==
  /\ touches < MaxTouches /\ touches' = touches + 1
  /\ session' = FALSE /\ RestoreNow /\ module' = "none" /\ receiver' = FALSE
  /\ pinPresent' = PinIsPresent(target, usb) /\ reload' = FALSE /\ attached' = FALSE
  /\ linked' = {} /\ seen' = [s \in Streams |-> Unset]
  /\ UNCHANGED <<target, usb>>

-----------------------------------------------------------------------------
(* The graph. *)

\* A Props param of a stream.
Echo(s) ==
  /\ seen[s] # vol[s] /\ seen' = [seen EXCEPT ![s] = vol[s]]
  /\ UNCHANGED <<session, pinVars, linked, duckVars, touches>>

Touch == touches < MaxTouches /\ touches' = touches + 1

StreamLinks(s) ==
  /\ Touch /\ s \notin linked /\ linked' = linked \cup {s}
  /\ UNCHANGED <<session, pinVars, seen, duckVars>>

StreamMovesAway(s) ==
  /\ Touch /\ s \in linked /\ linked' = linked \ {s}
  /\ UNCHANGED <<session, pinVars, seen, duckVars>>

\* global_remove: the stream ends.
StreamEnds(s) ==
  /\ Touch /\ s \in linked /\ linked' = linked \ {s}
  /\ vol' = [vol EXCEPT ![s] = Full] /\ seen' = [seen EXCEPT ![s] = Unset]
  /\ baseline' = [baseline EXCEPT ![s] = Unset]
  /\ ramp' = [x \in (DOMAIN ramp) \ {s} |-> ramp[x]] /\ UNCHANGED <<step, steps>>
  /\ UNCHANGED <<session, pinVars>>

Attaches ==
  /\ attached # (module = "live") /\ attached' = (module = "live")
  /\ UNCHANGED <<session, receiver, module, target, usb, pinPresent, reload, linked, seen,
                 duckVars, touches>>

UsbChanges ==
  /\ Touch /\ usb' = ~usb /\ ResyncPin(usb')
  /\ module' = IF target = "usb" /\ usb /\ module = "live" THEN "dead" ELSE module
  /\ UNCHANGED <<session, receiver, target, attached, linked, seen, duckVars>>

HostAudioNext ==
  \/ RampTick \/ ReloadReceiver \/ SessionBegins \/ SessionEnds \/ Suspends \/ Stops
  \/ LoadReceiver \/ Release \/ Attaches \/ UsbChanges
  \/ \E depth \in Depths, n \in 1..MaxSteps : DuckOthers(depth, n)
  \/ \E n \in 1..MaxSteps : Unduck(n)
  \/ \E t \in {"default", "usb"} : SetTargetSink(t)
  \/ \E s \in Streams : Echo(s) \/ StreamLinks(s) \/ StreamMovesAway(s) \/ StreamEnds(s)

HostAudioFairness ==
  WF_hostAudioVars(RampTick) /\ WF_hostAudioVars(ReloadReceiver)

HostAudioSpec == HostAudioInit /\ [][HostAudioNext]_hostAudioVars /\ HostAudioFairness

-----------------------------------------------------------------------------
(* Properties. *)

(* A session that ends, however it does and whatever the ramp, the receiver and the  *)
(* pin are at, brings every stream it still keeps a level for back to that level.    *)
(* (Streams whose level is no longer kept stay as they are: see start_duck() and the *)
(* last step of a ramp.)                                                             *)
LevelsReturn ==
  \A s \in Streams, v \in 1..Full :
    (~session /\ baseline[s] = v) ~> (session \/ vol[s] >= v)

=============================================================================
