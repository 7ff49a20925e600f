# Verification of the audio router's bridge daemon

TLA+ models of the bridge daemon (`src/pipewire_audio_router/bridge-daemon`) and of the
receiver agent it talks to, the TLC instances that check them, and TLAPS proofs of the
safety and action properties those instances check, all but one.
Paths below are relative to `bridge-daemon/src` unless they start with `src/`.

The daemon routes audio sources to groups of network speakers (Sendspin, AirPlay 2,
and PipeWire hosts running `pwrouter-agent`), overlays announcements on them, ducks
the music while somebody speaks, and aligns the speakers of a group by ear or by
microphone. What makes it hard is not any one of these but that they share the
speakers: an announcement may not play over an alignment run, a group may not be
rerouted under it, and each of them must give back what it took whichever way it ends.

Contents: 1 inventory, 2 modules, 3 what is checked, 4 what is proved, 5 what is not
modelled, 6 plan.

## 1. Inventory

### Parts, their state and their operations

| Part | State | Operations | Talks to |
|---|---|---|---|
| Announcement scheduler, `announce/arbiter.rs` | playing clips, waiting queue (priority, then arrival), reservations, sequence counter | `begin` (free, barge-in, queue, reject), `complete`, `tick`, `reserve`, `release_reservation`; all but `reserve` end in `settle` | nothing: pure, time is a parameter |
| Overlay mixer, `outputs/overlay_mixer.rs` | per output: the overlay slot, the duck holds; the finished list | start, stop, mix, drain, reap, duck start, renew, release, expire | the relay threads of the outputs |
| Announcement coordinator, `announce/mod.rs` | scheduler and clip PCM under one mutex | `announce`, `reserve`, `release`, `poll` (every 150 ms), `apply`, `sync_agent_duck` | scheduler, mixer, agents, alignment holds |
| Duck API, `api/duck.rs` | none of its own | start, renew, release a hold over a set of outputs | mixer, agents |
| Agent registry, `outputs/pwsink/agent.rs` | `agents.json` (paired hosts), pair requests, live entries by node name, remote-duck queue | `hello`, `approve`, `unpair`, `suspending`, the end of a socket, the duck relay | receiver agents, the reconciler |
| Alignment session, `align/calibrate` | session slot, start lock and generation, saved levels and mutes, watchdog | `begin`, `rescope`, `stop`, teardown, audibility passes | exclusive hold, speakers, relay mutes |
| Exclusive hold, `align/group.rs` | hold registry, one hold object | `acquire`, `release`, `Drop` | scheduler reservation, routing override, relay mutes |
| Microphone alignment, `align/measure`, `align/levels.rs` | one `Inner`, a revert record, a capture | start, abandon, apply, revert, the tasks of a run; the chain, knob and level solvers | alignment session, delay lines, stores |
| Delay lines, `align/relay_delay.rs` | per output: ring, delay, mute, channel mask | set and clear a delay, mute, mask; every block of PCM | relay threads |
| Group reconciler, `routing/sync_group` | running groups, idle senders, on-demand sessions, the alignment override | a pass: snapshot, tear down, steer, idle; calls between passes | output servers, sources, stores |
| Output servers, `outputs/sendspin`, `outputs/ap2`, `outputs/pwsink` | connections, registries, liveness clocks | connect, arm, stream, level, teardown; probe, remove | devices |
| PipeWire thread, `pw`, and link reconciliation, `routing` | mirror of the graph, stored links | route, unroute, passes, commands | PipeWire |
| Sources, `sources` | receivers, devices, modules; remembered senders; rings of PCM | change, reconcile, ban, login | PipeWire thread, groups |
| Stores, `store` | JSON files and their copies in memory | groups, presets, links, with a write each | everything |
| Receiver agent, `src/pipewire_audio_router/pwrouter-agent` | connection, module, ducking ramp | discover, pair, suspend; load, pin, duck | agent registry, the host's PipeWire |

### Who interacts with whom

* The coordinator holds its own mutex over the scheduler and the clips. The mixer has a
  mutex of its own, taken for each call; relay threads take it for every audio chunk.
  `poll` drains the mixer *before* it takes the coordinator's mutex.
* A playing overlay and the duck holds are two independent causes of ducking. Each
  producer reads the aggregate and posts it to the host's agent through a bounded queue.
* A hold of the alignment session is three things in three places: the registry entry,
  the scheduler's reservation, and the reconciler's override. They are taken in this
  order, with an `await` before the last one, and given back one by one.
* An API request is a future: a client that goes away drops it at an `await`.
* A reconcile pass works from a snapshot taken under no lock but the groups', while the
  stores and the device maps move on; a nudge or a retry owed brings the next pass.
* The reconciler drops the handle of a sender task without waiting for it to end; the
  next task for the same receiver is refused until then.
* Agents find their way back by dialling in again; the daemon learns that an old socket
  is dead when TCP does.

### What is hard, and what makes each part correct

| Part | Hard | Correct when |
|---|---|---|
| Scheduler | long sequences of legal calls: preemption past the queue limit, reservations over clips already waiting | an output carries one clip; nothing startable waits; no clip is lost, overtaken or preempted without cause; a reserved output is entered only by a barge-in on arrival; what waits plays once arrivals stop |
| Coordinator and mixer | poll against barge-in, two outputs of different pace, an output without a consumer | the mixer plays what the scheduler thinks; PCM is there while needed and no longer; an occupied output has an end coming |
| Ducking | read and post under different locks, a full queue, an agent that lost its state | a turn ends everywhere at once; a dead holder's duck ends; a host applies the strongest duck in force |
| Alignment | stop over a forming start, late teardowns, writes after the lock is released, dropped requests | a published session has all of its hold; a stop is obeyed; every hold is given back, and every level that was known and can be reached |
| Measurement | calls that overlap tasks they do not wait for; captures replaced while a set is read | what was written can be reverted; a set is of one capture; what is solved is played together |
| Delay line | a ring of bytes against blocks of any length, changes of delay and of format | what is sent came in exactly the delay earlier |
| Agents | a new socket before the old one is found dead, names across restarts, re-pairing | names stay distinct; an entry is backed by a socket and a pairing; a connected host is listed |
| Reconciler | passes of seconds with links changing, outputs that move between senders | a later pass picks up every change; a device's own sender is let go of before a group keeps it; it comes to rest at what is asked |
| Output servers | two tasks or two connections for one device, lost datagrams, a busy await | a task told to stop gives its receivers back; a player that waits is served; a session comes up |
| Graph, presets, sources | mirrors that lag, ids reused, requests that take one lock after another | intended links are made; an activated preset restores its music; what runs is what is stored |

Every hazard with its line and the properties that cover it is in `PROJECT.json`.

## 2. Modules

| Module | Models |
|---|---|
| `AnnounceOrder` | queue order, conflicts, and `IsSweep`: what one walk of the queue starts |
| `AnnounceScheduler` | the arbiter; the abstract specification of announcements |
| `SettleLoop` | the `while let` loop inside `settle`, one iteration per step; justifies `IsSweep` |
| `OverlayMixer` | slots, relays, finished list, stall watchdog: actions over its own variables |
| `AnnounceCoordinator` | scheduler, mixer, clip store and the phases of `poll`; implements `AnnounceScheduler` without barge-in |
| `DuckHolds`, `DuckSync` | duck holds and what each agent is told; `DuckSync` adds the record of a missed update |
| `AlignSession`, `AlignDropped`, `AlignRestore` | session, hold and teardown; then with requests dropped at any `await`; then with the record of a crossing |
| `MeasureRun` | a measurement's state and tasks, in three modes, with abandon, apply and revert |
| `DelayLine` | what the relay of one output does to its blocks |
| `ChainSolve`, `LevelSolver` | the solvers: positions to delays to knobs; levels round by round |
| `AgentRegistry` | pairing, names, live entries, sockets, restarts |
| `GroupReconciler`, `ControlLoop` | the reconcile task; `ControlLoop` is what any such loop promises, and is implemented by it |
| `Presence` | which speakers exist: probes, verdicts, removal, the recovery cool-down |
| `Ap2Sender`, `SendspinServer`, `PwSinkLink` | the sender of each kind of speaker |
| `GraphLinks` | links, mirror, commands and the routing intent; the PipeWire server is external |
| `HousePresets` | groups, presets and links, and the requests over them, one lock at a time |
| `SourceStack`, `AirplayClients`, `SpotifyDevice`, `PcmRing` | sources against their store, senders and bans, one Spotify device, the ring a node plays from |
| `AgentLoop`, `HostAudio` | the receiver agent: its connection, and what it does to its host's audio |
| `..._proofs` | theorems, section 4: of one module, or of a family (`Measurement_proofs`, `Sources_proofs`) |
| `MC...` | a module with model values and symmetry sets for TLC |
| `DeviceSuite`, `ServeSuite`, `AlignSuite`, `DaemonSuite` | small instances of several components, one at a time |

A **suite** is one run for several components that are not composed. Its variable
`subject`, chosen initially, says which component a behaviour is of; the variables of the
others stay as they are, in one state of their `Init`. `AlignSuite` and `DaemonSuite` bring their
components in by `EXTENDS`, with the constants the configuration gives: the properties of these runs
are the very formulas the theorems state, and what a theorem assumes of the constants
(`MeasureConstants`, `StackConstants`, ...) the suite's `ASSUME` has TLC evaluate. In `DeviceSuite` and
`ServeSuite`, whose properties are about liveness, most components are instances with constants
and variables substituted, and a property is stated of its own subject.

A definition whose comment begins with "Faulty" or "Mutant" is a plausible mistake in the
definition that follows it (a guard dropped, an update forgotten, an id one off). It is
part of no specification: it is there to show that the property it is paired with in
`PROJECT.json` fails when the code is wrong in that way.

### How the models correspond to the code

**Scheduler.** `active` and `queue` are `Vec`s in the code. The order of `active` is never
observed, and `queue` is kept sorted by `(Reverse(priority), seq)` with every `seq` distinct,
so both are sets here and `Before` is the order. `Settle(A, Q, R)` is `settle` applied to
what the calling operation left: expired entries go, then the set that one ordered walk
starts (`IsSweep`) moves to `active`. The code restarts its search from the front after
every start; `SettleLoop` checks that this computes the same set. `nextId` belongs to the
coordinator's id counter and is advanced by every `Begin`, rejected or not.

**Coordinator.** One variable per field. `Announce`, `ReserveOutputs` and `ReleaseReservation`
are one step each because they hold the coordinator's mutex throughout. `poll` is a sequence:
`PollTake` and `PollReap` under the mixer's mutex alone, then one `PollComplete` per drained
id (`PollSkip` for an id this poll has completed before, `seen`) and `PollTick`, with the coordinator's mutex
held (`pollPc = "locked"`) while relays go on mixing. `SlotAfter` is `apply`. PCM is a number
of chunks, of which `Relay` consumes one; `SenderChange` lets an output lose its consumer at
any time. The clock is read under the lock; the code reads it just before.

**Ducking.** `sync_agent_duck` is three actions (`SyncHolds`, `SyncOverlay`, `SyncPost`)
because it takes three locks in turn. A request re-asserts the outputs of its hold one after
another. Announcements are reduced to the gain of an overlay. Leases count polls, the only
moments at which one is enforced. The queue to the agents drops what does not fit; an
agent that reconnects starts with no duck.

**Alignment.** The start under `start_lock` is one task with a program counter
(`start.pc`), because starts exclude one another; each hold has a teardown counter
(`tear[h]`), because several teardowns may run at once; each audibility request has a
program counter of its own. The speakers are two sets: outputs muted at the relay, and
outputs whose own level or mute is not what the user left. `saved[h]` is what the snapshot found
already disturbed, so that restoring it leaves it disturbed; `unknown[h]` is what it could not know
(an AirPlay receiver with no stored level, `audibility.rs:209-222`; a host whose agent reports none,
`session.rs:333-345`). Which hosts can be muted and levelled is resolved anew in every pass
(`audibility.rs:139-195`), so `WriteLevels` chooses it anew: what its host mutes is not muted at the relay,
the rest is. `TearRestore` writes nothing for members of unknown level (`session.rs:598-608, 630-638`) and
may fail to reach any other (`627-629, 641-645`; a full command queue; a device that is gone); `left` keeps
the members whose level stays changed for one of these reasons. `DropHold` is
`ExclusiveHold::drop`, and `StartDropped`, `StopDropped`, `PassDropped` drop a
request at each `await`. The teardown begun by the watchdog runs in the daemon's own task
and is never dropped.

**Measurement.** A task has a stage per `await`; what it reads of `Inner` it reads again
under the lock, as the code does. Readings are known by the capture they were taken in.
`owed` is what was written and not reverted. `interleaved` says that a call came between the
steps of another: then `revert` may not know of a late write.

**Delay line.** A byte of the ring is its age, so a step ages the ring; sizes are a few bytes.
`PassesBy` are the blocks `process` declines, `gap` remembers that one went by. Samples have one
byte here, so a frame of two bytes is stereo and one of three is any format that is not.

**Solvers.** `ChainSolve` counts half milliseconds, which makes the mean of two readings exact.
`LevelSolver` tells a reading by its place against the target. Only its own tests drive
`align/levels.rs` so far (`#![allow(dead_code)]`); its model follows them in when it is called.

**Agents.** The registry has one lock: `hello`, `approve`, `unpair` and `suspending` are one
step each. A socket is closed, pending, live, revoked, or superseded by a newer one of the
same name; `CloseLive` and `ClosePending` are the end of its handler, at any later time. All
hosts share hostname and user, the one case in which names can collide. `Restart` keeps
`agents.json` only.

**Reconciler.** A pass goes through phases (snapshot, stale groups, idle senders, sessions, one
turn per group, idle players). It holds the groups lock, so API calls come between passes, but
stores and devices change between any two phases. What the reconciler keeps are handles. Players' servers
are awaited when they are stopped (`mod.rs:833`) and a host's sender joins its threads in its `Drop`
(`applemidi.rs:366-370`), so for these the connection is gone with the handle; the handle of an AirPlay sender
only signals its task (`ap2/server.rs:202-208`), so its receivers go to `closing` and `Closed(r)` comes at any later time. A group is named by its source set. A call
that fails leaves `retry`; a change that nobody reports sets `unheard`, which the properties except.

**Senders.** An `Ap2Sender` task is in one `await` at a time (`stage`); two tasks run at once,
since a handle is dropped without waiting, and both write the registry by name. `SendspinServer` numbers
connections in the order they come up; what the relay sends goes to the connection in the
group. `PwSinkLink` has a set of datagrams that may be lost or overtake each other.

**Graph, presets, sources.** A step of a request is what it does under one lock.
`GraphLinks` keeps the server's graph and the daemon's mirror apart, with the announcements between
them in order. `HousePresets` leaves names and member order out. `SourceStack` reconciles from a
copy of the entries. `GraphLinks` is about direct links of nodes, of which there are none today: every
output is virtual, and for those `reconcile` does nothing (`routing/mod.rs:709-714` says so and keeps it for a
future output with a node). In `AirplayClients` the session's owner is the vendored server's; in
`SpotifyDevice` sessions and player are librespot's.

**Agent.** `AgentLoop` counts waits in doublings of the back-off. `HostAudio` executes commands
where they are sent (one thread, in order); what PipeWire reports back comes later.

## 3. What is checked

| Run | Question | Result |
|---|---|---|
| `AnnounceScheduler` | three announcements of every shape over two outputs, one reservation, a queue of one, two instants | one clip per output, the inductive invariant, reservations, nothing lost or overtaken without cause, and once nothing more arrives every clip plays or expires |
| `AnnounceCoordinatorOrdinary` | two announcements without barge-in (the default), relays, stalls, poll, a reservation, fair | slots belong to occupants, PCM is kept and does not leak, an occupied output has an end, and the whole implements the scheduler with its fairness |
| `GroupReconciler` | two players, a receiver and a host, fed from a source or from two mixed; two changes and a failure anywhere in a pass | a device's own sender is let go of before a group keeps it, senders follow what is asked (`ControlLoop`), and the loop settles |
| `DeviceSuite` | AirPlay sender, AppleMIDI session, agent loop, PCM ring | told to stop, a task ends; a session comes up; the daemon is found; a routed ring plays on |
| `ServeSuite` | Sendspin player, alignment hold, duck holds, host audio | a player is served; a hold is whole, obeys a stop, settles; a duck ends; a host without a session turns up what it keeps a level for |
| `AlignSuite` | measurement with two speakers, teardown with dropped requests, delay line, both solvers | what an apply writes can be reverted, a set is one capture, the room is given back, delays are exact, what is solved is played together, levels are measured |
| `DaemonSuite` | ducking, registry, settle loop, presence, presets, sources, AirPlay senders, Spotify, graph links | ten properties, below |
| `AnnounceWedged`, `AnnounceCutShort`, `AlignLeak`, `AgentRegistryReconnect`, `PcmRingSides` | what the code says of itself | **fail**, see below |

`DaemonSuite`: hosts follow the strongest duck (`FollowsUnlessMissed`); names are distinct and
entries have sockets; the loop of `settle` computes one sweep; an activated preset restores its music; what
runs is what is stored; an idle Spotify device shows nothing; a speaker that answers is not
forgotten; a banned sender stays out; a graph that has come to rest has the links that are asked for.

The size of the large instances: `DaemonSuite` 2.9 million states, `AlignSuite` 2.8 million,
`GroupReconciler` 388 000, `ServeSuite` 315 000, `AnnounceCoordinatorOrdinary` 263 000, `DeviceSuite` 171 000.

### Properties that name their exceptions

These windows are in the code, and each property says that nothing else leads to what it excludes. An
exception that covers a hazard whole means that the property shows where the harm comes from, not that
it is absent; where that is so, it is said here.

* `DrainsOnceQuiet` (`ArrivalsOver`): nothing in the code bounds how long a clip waits while others keep arriving.
  A clip for two outputs without a TTL can be kept waiting for ever by smaller ones, or preempted again and
  again by barging ones. The property is about the time after the last arrival; that whoever overtakes a clip
  is not blocked by what blocks it is `OvertakenOnlyWhenBlocked`.
* `ClipKept`, `OccupiedHasEnd`, `DrivesScheduler` are about announcements that do not barge in, the default
  of the code. `AnnounceWedged` is the run with them.
* `FollowsUnlessMissed`: a host may apply a wrong depth only if two tasks were between reading
  and posting for one output, the queue was full, or its agent reconnected: the three hazards themselves.
* `RestoredUnlessCrossed`: at rest no relay is muted, and a level or a mute may stay changed only
  (`left`) if the teardown had nothing to put back, for nobody knew it before the session, or could not reach the
  member; and (`crossed`) if a request was writing to the speakers of a session under teardown, a new session took its
  snapshot before an older one restored, or a request was dropped owing levels. `crossed` excepts relay mutes too.
* `RevertKnowsWrites` (`interleaved`): a call came between two steps of another, so that a late write may follow the
  start of a new run. It is about the delays an apply has written, not about the provisional lines of a run.
  `SetIsOneCapture` (`unseen`): the capture changed while no reading was under way, which the code does not look
  at. A reading under way is taken to notice any change; the feeder goes by the sample rate and by a frame count that
  has fallen back (`align/measure/feeder.rs:86`), so a capture that has caught up with the old count escapes it.
* `DelayedExactly` (`gap`): a block went by the line, since it started anew.
* `HandedOver` is about handles: a receiver's old session may still be `closing` when the group dials it.
* `FollowsIntent`, `Settles`: a device was found elsewhere and nobody told the loop (`unheard`);
  shutdown (`leaving`); an idle player whose address is not resolved.
* `LevelsReturn`: only of streams a level is still kept for, see the disagreements below.
* `ActivationRestores` (`overlapped`): requests ran at the same time as the activation.
  `RunsWhatIsStored` (`crossed`): another handler was under way with the last reconcile, or with a change
  since; that reconcile failed to start something, or found a module missing in the mirror; a write failed.
  `SettledIsLinked` (`unsaved`): the request was answered with an error.
* `BannedStayOut` (`barred`): another sender has used an address of the banned one's record.
* `IdleLeavesNothing` is about an idle device. The late goodbye of a replaced session also wipes user and track of the
  new one (`sources/spotify.rs:512-519`), which it does not look at.
* `AnsweredIsKept`: the counters are local to one probe task; what comes between its steps is the answer of a sender.
* `PlayerServed` (`crossed`): two connections of the player were mistaken for each other.

### Properties worth a second look

* `OvertakenOnlyWhenBlocked`: a waiting clip may be overtaken by a later one, but only if
  something else than that one blocks it. It is what "ordered by priority then arrival" can mean
  for clips that need several outputs at once.
* `DrivesScheduler`: the refinement carries the scheduler's *fairness* too, so that what is
  assumed in `AnnounceScheduler` (a playing clip is completed) is a fact about mixer,
  watchdog and poll.
* `HoldIsWhole`: the three id guards (registry, reservation, override), against any number
  of teardowns of older holds still under way.
* `FollowsIntent`: a pass that nobody told of a change ends with what its snapshot asked for, and
  the loop stops owing one only then.
* `SolvedTogether`: that alignments of earlier positions survive later ones, that rounding and
  bounded knobs keep it, and that no smaller knobs would do.

### Disagreements with what the code says of itself

1. **A wedged output** (`AnnounceWedged`, `announce/mod.rs:221`). The poll drains a finished
   clip, a barge-in preempts and requeues it, and then the poll completes it: it is not playing,
   so only its PCM goes. When it is promoted there is nothing to play, no overlay starts and
   nothing ever finishes: the output is occupied for good.
2. **A clip cut short** (`AnnounceCutShort`, `announce/mod.rs:220`). An announcement on two
   outputs is over when the first of them is; the other one is stopped with audio left.
3. **A hold for nobody** (`AlignLeak`, `align/group.rs:502`). A start that is dropped while
   `acquire` waits for the group lock has opened the registry and reserved the outputs, and
   there is no object yet whose `Drop` would undo it. `release` dropped at its `await` is similar.
4. **A connected host that is no target** (`AgentRegistryReconnect`,
   `outputs/pwsink/agent.rs:999`). The close of an old socket removes the live entry by name, the
   new connection's included. Such a host stays unlisted until it connects again.
5. **Left on the right** (`PcmRingSides`, `sources/pcm_producer.rs:163`). Samples enter the ring one
   at a time while the audio callback drains it in bulk: a flush or an underrun between the two
   samples of a frame swaps the sides from then on.

Further places where a comment promises more than the code does. The models are built after the code, and no run
is spent on them:

6. **A session that must go before.** `routing/sync_group/mod.rs:841-845`: "an on-demand session must go BEFORE the group
   senders below dial". The handle goes before (`HandedOver`), but dropping it only signals the task
   (`mod.rs:523`; also `800` and `1183`; `outputs/ap2/server.rs:159-166, 202-208`): the old session may be open
   while the group's sender dials, and the receiver refuses it until the next retry.
7. **A restore that is not always possible.** `pwrouter-agent/src/pw_thread.rs:247-248` keeps levels "so a restore is always
   possible", and `client.rs:11-12, 271` promises that a dropped socket can "never leave the user's music attenuated".
   A level is forgotten while its stream is down in three ways. The last tick of a way up drops all levels,
   those of streams that were not in its ramp included (`1069-1082`; a duck that finds no stream on the sink makes an empty
   ramp, which counts as one that ends at the baselines). A duck that comes after the levels were dropped
   and before PipeWire has reported the last step takes a level on its way up for the user's (`993-1003`). A stream whose
   volumes read as zero, or that is on another sink just then, is not ducked again nor known (`500, 1022-1024`).
   `LevelsReturn` is about the streams whose level is kept.
8. **A level left where it is.** `align/calibrate/session.rs:603-607` says of an AirPlay receiver of unknown level that
   "its own level is left exactly where it is". The restore of its mute, two steps earlier, sends `effective_volume`, which
   is `0.0` for a receiver without a stored level (`session.rs:586-593`, `outputs/ap2/volume.rs:145-155, 315-320`): one
   that was never audible in the session has none. It is one of the members in `left`.

Other behaviours of the code that the models show, or that were met on the way, and nothing in the repository
speaks against: a device that moves between two groups in one pass is dialled by the new one before the old one let go;
a pass after shutdown starts senders again; a link made by a pass that read the intent before an
unlink stays; a level solve trims and backs off outside its round budget; a source whose start failed
is not tried again; a change that cannot be written is gone after a restart; the poll and
`announce` read the clock before they wait for the lock; an agent on its way to the daemon serves neither tray nor sleep
events; a host whose agent first answers after the snapshot is muted by it and not unmuted at the end
(`session.rs:333-345, 641`).

### Bounds, and why they are enough

* Scheduler: conflicts need two outputs, one of them shared; preempt, requeue and promote
  need three clips; a queue of one makes both `QueueFull` and the requeue past it happen; two
  instants expire a TTL or not. Coordinator: each failure found involves two clips, and two outputs are
  needed for clips of different pace; `ClipChunks` 2 tells "in progress" from "fresh"; `Grace` 1
  makes the watchdog look twice.
* Alignment: two holds give one late teardown against one new session; an audibility request may be
  under way with either, or be dropped; two outputs of the kinds there are: an AirPlay receiver, whose level may be
  unknown, and a host, which its agent or the relay mutes. `ServeSuite` and `AlignLeak` have the host and a player.
  Several requests at once are left to the theorem `RoomIsRestored`.
  Measurement: two tasks of one mode, one after the other, with two speakers; two captures make a set of
  both possible. That a position overlaps what an earlier one aligned takes three speakers, and is `ChainSolve`'s.
  `Overlap` is FALSE: with two starts at once over one `Inner` none of the properties says anything.
* Delay line: blocks that are no multiple of a frame, one frame, several, and more than the ring
  holds; two formats, so that the ring starts anew; three delays.
* Solvers: three speakers, two positions sharing one; every kind of knob. Two members, three levels.
* Agents: two hosts collide on a name; three sockets are an old and a new one of one host and
  one of the other; two pairings, and three in the run about reconnection, allow a re-pairing.
* Ducking: two hosts make a turn of several outputs; a queue of one overflows; a lease of one
  poll is renewed or not; two holds and an announcement overlap on an output. There is one level.
* Reconciler: two changes put one inside a pass and one after it; one failure anywhere; two
  players, one receiver and one host are every kind of device, and a group that shrinks. `Mixes`, what an output
  may be linked to, is nothing, one source, or both: two groups, and a device that moves from one to the other.
* Devices: two sender tasks overlap; two ports and five loads of the module outlast one lost
  datagram and one event; two connections of a player; two addresses of a daemon and three events; a ring of three
  frames underruns, flushes and overflows. Two streams on a host make one that is in a ramp and one that is not; ramps of
  up to two steps are interrupted or not; three things happen to streams, sinks and pin. There is one depth, silence.
* Graph: a source and an output on two ids, three nodes in all, so that one comes back under its name, with its own id
  or another; one request or one restart; three of these events in all.
* Presets: two of each kind and three requests, two at a time. Sources: two of any kind, of which the file the
  daemon starts with has one at most; two changes at once or one after the other, a start that fails, a restart.
  AirPlay: two senders, two connections and three addresses, so that one passes to the other, and a restart.
  Spotify: two logins, two drops, so that the limit of reconnects is passed, and a restart.

The theorems lift these bounds for the properties they state. `CHECK_DEADLOCK FALSE` is said where
histories are bounded (changes, holds, runs) or a search ends: there the model really stops.

### Timing the models take from the code

* `PwSinkLink`: the daemon asks the agent again after longer than a handshake takes, and a host
  resolves an advert more slowly than goodbyes travel.
* `SendspinServer`: a handshake outlasts the arming of the group, and a server has one connection of a player open.
* `PcmRing`: a routed node is pulled often enough that no write waits `SINK_STALL`.
* `GraphLinks`: the server announces in order, takes a node's links with it, and refuses a link that exists.

### Fairness

* Scheduler: `Complete` of a clip that plays, and the release of each reservation. The
  first is shown of the composition by `DrivesScheduler`; the second is the hold's release on
  every path, of which `AlignLeak` is the exception.
* Coordinator, ducking: the poll is a ticker task that never stops (`main.rs:487-494`); a relay that
  streams goes on mixing; the release of a reservation waits for a mutex that is free again
  and again, hence strong fairness. Callers need never renew nor release.
* Alignment: a start and a teardown that have begun are polled to their end. Nobody has to stop a session.
* Reconciler: `WF(Pass)`: the task runs while it owes a pass. Changes and failures are bounded, so "in the end" is after the last.
* `Ap2Sender`: each task's own steps; strong fairness of reading its close and its commands, which `select!` polls beside its other work.
* `PwSinkLink`: the status poll, the resolver, the agent and what is delivered. `HostAudio`: ramp ticks and the
  reload timer. `AgentLoop`: the client loop, the sleep task and the machine's resume. `PcmRing`: the writer and the node's callback.
* `SendspinServer`: its tasks, and a player that obeys. Requests, users and devices have no fairness anywhere.

## 4. What is proved

Every invariant and every action property that a passing run checks, `SettledIsLinked` excepted, and the
safety part of the refinements, is a theorem: eight modules of theorems, each about every value of the constants
within the assumptions that its component states and TLC evaluates. All use the same form: an
inductive invariant (`IInv`, or `MeasureInv`, `StackInv`, ... where several components share a
module), one lemma per action, and a last step in temporal logic. The invariants were checked
by TLC first.

| Module | Theorem | Says |
|---|---|---|
| `AnnounceScheduler_proofs` | `SchedulerInvariant`, `SchedulerTypeOK` | `IInv` and types |
| | `OutputsAreExclusive` | no output has two playing clips |
| | `NothingWaitsForFreeOutputs` | every waiting clip waits for a busy or reserved output |
| | `AnnouncementsAreInOnePlace` | a clip plays or waits, once |
| | `ReservationsAreRespected`, `PreemptionIsBargeIn` | a reserved output is entered, and a playing clip sent back, only by an arriving barge-in |
| | `NoAnnouncementIsLost`, `OvertakingIsForced` | an unexpired clip leaves only by being completed, and is overtaken only while something else blocks it |
| `AnnounceCoordinator_proofs` | `Invariance`, `TypeCorrect`, `MixerFollowsScheduler`, `ClipsAreOfInFlight` | slots belong to occupants and PCM does not leak, barge-ins included |
| | `ImplementsScheduler` | every step is a step of the scheduler or leaves it alone |
| | `SettleIsOneSweep` | the loop in `settle` starts the set that `IsSweep` describes, whatever the queue |
| | `OrdinaryInvariance`, `ClipsAreKept`, `OccupantsEnd` | without barge-in a clip keeps its PCM and an occupied output has an end coming |
| `DuckSync_proofs` | `Invariance`, `TypeCorrect`, `HostsFollow` | hosts follow the strongest duck, but for the three exceptions |
| | `TurnsAreWhole` | a hold loses all of its outputs at once or none |
| `AlignSession_proofs` | `TypeCorrect`, `FormedHoldIsWhole`, `WholeDespiteDrops`, `RescopeCovered` | a published session has its hold entire, also when requests are dropped |
| | `HoldsAreGivenBack`, `StopsAreObeyed` | every hold has somebody who gives it back; a start a stop has overtaken is not published |
| | `RoomIsRestored` | no relay stays muted and no level changed, but what no teardown knew or could reach, and but for the three crossings |
| `AgentRegistry_proofs` | `Invariance`, `TypeCorrect`, `NamesStayDistinct`, `OnlyPairedAreLive`, `PairedKeepTheirNames` | names and entries |
| | `PresenceAnsweredIsKept` | a speaker that answers while its removal is decided stays |
| `GroupReconciler_proofs` | `Invariance`, `OneHandleEach`, `IsControlLoop` | what has a sender of its own is let go of before a group keeps it, and the refinement of `ControlLoop` |
| | `HouseActivationRestores` | an activated preset plays what it remembers |
| `Measurement_proofs` | `MeasureTypeCorrect`, `MeasureRevertKnows` | what an apply has written, revert can put back, unless calls crossed |
| | `MeasureSetIsOneCapture` | a set that is solved is of one capture |
| | `SendsWhatCameEarlier` | a delayed output sends what came in exactly its delay earlier |
| | `ChainSolvedTogether` | aligned speakers are heard together, the knobs keep it, no smaller knobs would |
| | `SolverConvergedAsMeasured` | a level solve hands on only what it has measured |
| `Sources_proofs` | `SourcesRunWhatIsStored` | what runs is what is stored, once a handler was alone |
| | `ClientsBannedStayOut` | a banned sender gets no session under its name |
| | `SpotifyIdleLeavesNothing` | a device without a session shows neither user nor track |

### Along which argument

**Scheduler.** Exclusiveness is not inductive alone: an arriving clip could have the id or the
`seq` of one in flight, and then the set meant to lose one entry would lose another.
`IInv` adds `ArrivalsAreNew` and `OnePlacePerId`. Every operation but `Reserve` ends in `Settle`, so
there is one central lemma, `SettlePreserves`: from entries that are well typed, distinct and,
those that play, disjoint (`SettleReady`), it makes such entries and leaves everything waiting
blocked. It rests on `SettleExclusive`, where the order of the queue matters: of two conflicting entries that
`IsSweep` would start, one comes first and rules out the other. The same fact gives `OvertakingIsForced`.

**The loop of `settle`.** That `IsSweep` names one set needs no induction over the queue. The invariant says that
the loop is a sweep of what it has passed: what was started is disjoint; an entry that waits although it comes
before one that was started is blocked by something before it (`PassedOver`); and what any sweep of the queue
would start before the loop's place, the loop has (`Forced`). Where two sweeps of a queue differ, the least
entry they disagree about has the same entries before it, so that they agree about it.

**Coordinator.** The scheduler inside it is an instance, so the scheduler's invariant comes
along once every step is a step of the scheduler or leaves it alone. For that, ids the poll
completes must be ids that were handed out (`KnownIds`): a fact about slots and reports. One
lemma says what `apply` leaves in the mixer. `Ordinary` (`BargeIns` within {FALSE}, the
default of the code) is the hypothesis of the last two theorems, and `AnnounceWedged` shows that they need it:
without barge-ins a clip that has played never waits again (`ReportedHavePlayed`), so the report
of its end cannot be taken for that of a clip still in the queue.

**Ducking.** A depth is read in two sections and posted in a third, so what a task carries, and what
is queued, may be stale. The invariant says when: only while somebody else still has that output
to re-assert. The last task to have it reads last and posts last, unless two are at it
together, which is one of the exceptions. `TurnsAreWhole` rests on `OneLease`: all entries of an id have one lease and level.

**Alignment.** Only the newest hold can be in use, because a start empties the slot before it forms another
(`SlotIsFree`), and while it is in use its own teardown has not begun. Teardowns still
running are those of older holds, and what they clear is guarded by an id that is not the
newest. None of this needs requests to run to their end; that nothing is left behind does (`NothingKept`).
For the room, the invariant is one of duties: as long as nothing has crossed, a level that is not
the user's is that of a member of a hold in use, of one whose teardown has yet to restore it, or of one a teardown
had to leave (`left`), and a relay mute one of the first two; so a snapshot holds only levels that are the user's or
were left before (`SavedAreLeft`), and restoring it brings nothing else back.

**Agents.** A name is the base name, which only one host can have taken, or the host's own
suffixed one, and a host keeps in its request the name it is paired under. A socket's phase says
which of the two tables may name it.

**Reconciler.** Every phase of a pass leaves a fact that holds to its end, because what could undo it
needs the lock the pass holds: what teardown, idle drop and session drop have cleared, and what
steering leaves of a group whose turn is over. A pass told of no change works from what is
(`SnapshotCurrent`), and if nothing failed it ends with what its snapshot asked for: the step `Done` of `ControlLoop`.

**Presence.** The mark of an absence is never older than the last answer (`MarkIsYounger`), because whatever hears
an answer clears it; a speaker that is leaving has a mark of full age and was not probed again in the round.

**Presets.** The groups of one preset have no member in common (`Exclusive`), which `exclusivity_conflict` keeps up
through edits, migration and outputs that leave. So while an activation works through its plan, serving one
group leaves the others alone, and each group with a source is served already or still in the plan (`Alone`).

**Measurement.** A task's own fields say of each other what they must (`Sound`): there the set of one capture is,
stage by stage. Across tasks the invariant is again one of duties, as long as no call crossed another. One
task lives (`Alone`); if it is not cancelled, `Inner` names it (`Current`); no revert runs over it (`NoRevertOver`);
what a run may write, it has remembered before (`Remembered`). A line that is owed is recorded in `Inner`, or in
hand with the task that has written it and not yet marked it (`Known`), and a revert takes nothing up again that it has put back (`PutBack`).

**Delay line.** Followed from its newest byte backwards, the byte k places behind it is k old, for as many bytes
as the line calls valid; and it calls valid what it was fed, as far as the ring reaches (`Remembers`). The rest is that
a ring read has room for block and delay together, whatever growth or format led to it, and remainders of sums
that run once around the ring at most (`OnceAround`).

**Chain.** Times heard are known modulo the pattern, and paths and lines stay within half of it of each other
(`ChainConstants`): so the gap the solver cuts at is the one before the earliest arrival, and arrivals are the
times after it. The mean of two joints is rounded to a millisecond and the position shifts all speakers aligned
before by that one amount: a position measured earlier moves as a whole (`KeptJoint`). Knobs are the arrivals plus one
offset that fits every knob's range, and the least that does.

**Levels.** While the solver ramps, a reading that is older than its member's level is of a member the next
round excites, and a level is above the one the last round of all members was heard at only if the next round is one again (`Ramping`).

**Sources.** As long as no other handler crossed it, a handler is the only one, and it works from the entries that are
still stored; what it has brought in line stays so: first the modules, by the unloads and loads that are left to do
(`Leads`), then the receivers, then the devices. That the list of unloads and loads has every module once, in the order of
ids, is a fact about `InOrder`, by well-founded choice of the least id that is left.

**AirPlay senders.** As long as nobody else has used an address of it, every record of a barred name carries the
ban, and there is one: a merge takes the ban of the older record, a forgotten record was nobody's.

**Spotify.** While nobody is active and every replaced session has said goodbye, either nothing is shown and
nothing is queued, or the *last* event in the queue is a goodbye, which clears what the events before it bring
back (`GoodbyeComes`).

### What the proofs have changed in the models

* `SourceStack` marked every policy change as crossed, its own request included, so that `RunsWhatIsStored` said
  nothing from the first policy change on. It now looks at the *other* requests (`Others`), and TLC checks the property there too.
* `MeasureRun`, `SourceStack` and `HousePresets` merged records and functions with `@@`, of which the provers know nothing; they
  now say what each field or key becomes. The states TLC finds are the same.
* Assumptions on constants that the theorems need were made explicit: ids are ordered, sets that are enumerated are
  finite, and for the chain that paths and lines stay within half a pattern, which is what a pattern of that length is chosen for.

### Only model-checked

* Liveness: `DrainsOnceQuiet`, `EveryHoldSettles`, `HoldsEnd`, `Settles`, `TasksEnd`, `SessionComesUp`,
  `LevelsReturn`, `FindsDaemon`, `RoutedPlays`, `PlayerServed`, and the fairness that
  `DrivesScheduler` carries. Fairness and `ENABLED` are beyond the prover.
* `SettledIsLinked`, an invariant of a path of the code that has no work today.
* So the components whose properties are all of this kind have no theorem: `Ap2Sender`, `SendspinServer`,
  `PwSinkLink`, `HostAudio`, `AgentLoop`, `PcmRing` and `GraphLinks`.
* That a theorem's constants may have the values a configuration gives them is for TLC to see (`ASSUME`).

## 5. What is not modelled

* Sample arithmetic, resampling, codecs, RTSP/RTP/PTP wire formats, signal processing, the
  estimator: data, not control.
* The frontend, the Home Assistant integration, firmware and source bridges: clients or
  devices of their own. Request decoding and event fan-out of the API. Start-up wiring and child supervision.
* Of the parts modelled: interference reports, the click loop, levels as numbers, host state
  reports, the mixer's format table, metering and the profiler, metadata, the Bluetooth
  bridge, sync settings and their migration, tray and desktop integration. The notes of `PROJECT.json` say what of each part.
* Composition across the components of a suite. Where one component's behaviour is another's
  environment (the session's override in the reconciler, announcements in ducking, presence in
  the senders) the environment is modelled as free within what the other can do.

## 6. Plan

Done: every component with control of its own, five disagreements with runs of their own, and a theorem for every safety and action
property of the runs but one. What could be added: interference reports in `AlignSession`; on-demand sessions composed with
the coordinator, so that a clip's fetch races its lease; safety invariants of the senders as theorems, in
support of their liveness.
