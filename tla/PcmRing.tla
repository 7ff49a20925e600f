------------------------------- MODULE PcmRing ---------------------------------
(***************************************************************************)
(* sources/pcm_producer.rs: the ring between a receiver and its PipeWire   *)
(* node, with the two receivers that fill it: an AirPlay session           *)
(* (sources/airplay.rs, Session::push), which drops what does not fit, and *)
(* Spotify's sink (sources/spotify.rs, push_paced), which waits for room,  *)
(* and paces by the clock when nothing drains the node.                    *)
(*                                                                         *)
(* The samples are interleaved; the ring is lock-free, so the node's       *)
(* callback may run between any two samples of a push.  The sizes are      *)
(* scaled down.  A node that is routed is pulled often enough that no      *)
(* write waits as long as SINK_STALL; one that is not routed is not pulled.*)
(***************************************************************************)
EXTENDS Naturals, Sequences, SequencesExt, FiniteSetsExt

CONSTANTS Receivers,   \* of {"airplay", "spotify"}
          Target,      \* the prebuffer, in samples
          Headroom,    \* the ring's room above it
          Rearm,       \* samples_for_ms(REARM_MSEC)
          Packet,      \* samples of a packet
          Quantum,     \* samples the graph wants at a time
          Patience,    \* SINK_STALL, in polls
          MaxRoutes, MaxFlushes

VARIABLES
  receiver,
  ring,                       \* the samples, oldest first
  rest, batch,                \* of the packet: samples not yet pushed; to push before looking at the room again
  waited, stalled,            \* push_paced
  draining, armTarget,        \* the callback's
  flush,                      \* set by a session's end or a FLUSH
  routed, played,             \* whether the graph pulls the node; what its last cycle played
  routes, flushes

ringVars == <<receiver, ring, rest, batch, waited, stalled, draining, armTarget, flush, routed, played, routes, flushes>>
writer   == <<rest, batch, waited, stalled>>
callback == <<draining, armTarget, played>>
outside  == <<receiver, routed, routes>>

Capacity == Target + Headroom
Room == Capacity - Len(ring)

RingInit ==
  /\ receiver \in Receivers
  /\ ring = <<>> /\ rest = 0 /\ batch = 0 /\ waited = 0 /\ stalled = FALSE
  /\ draining = FALSE /\ armTarget = Target /\ flush = FALSE
  /\ routed \in BOOLEAN /\ played = <<>> /\ routes = 0 /\ flushes = 0

-----------------------------------------------------------------------------
(* The receiver's thread *)

NextSide == IF (Packet - rest) % 2 = 0 THEN "L" ELSE "R"

Decoded ==
  /\ rest = 0 /\ rest' = Packet /\ waited' = 0
  /\ UNCHANGED <<ring, batch, stalled, flush, callback, outside, flushes>>

PushOne ==
  /\ Room > 0
  /\ ring' = Append(ring, NextSide) /\ rest' = rest - 1
  /\ UNCHANGED <<flush, callback, outside, flushes>>

\* Session::push, sample by sample: a full ring drops the remainder.
AirplayPush ==
  /\ receiver = "airplay" /\ rest > 0
  /\ \/ PushOne /\ UNCHANGED <<batch, waited, stalled>>
     \/ Room = 0 /\ rest' = 0 /\ UNCHANGED <<ring, batch, waited, stalled, flush, callback, outside, flushes>>

\* push_paced: as many as there is room for, then a look again.
TakeBatch ==
  /\ receiver = "spotify" /\ rest > 0 /\ batch = 0 /\ Room > 0
  /\ batch' = Min({Room, rest}) /\ waited' = 0 /\ stalled' = FALSE
  /\ UNCHANGED <<ring, rest, flush, callback, outside, flushes>>

PushBatch ==
  /\ receiver = "spotify" /\ batch > 0
  /\ PushOne /\ batch' = batch - 1
  /\ UNCHANGED <<waited, stalled>>

Poll ==
  /\ receiver = "spotify" /\ rest > 0 /\ batch = 0 /\ Room = 0
  /\ ~routed /\ ~stalled /\ waited < Patience
  /\ waited' = waited + 1
  /\ UNCHANGED <<ring, rest, batch, stalled, flush, callback, outside, flushes>>

\* Nothing has drained the ring: the packet is slept out and dropped.
Paced == stalled \/ waited >= Patience

SleepOut ==
  /\ receiver = "spotify" /\ rest > 0 /\ batch = 0 /\ Room = 0
  /\ Paced
  /\ stalled' = TRUE /\ rest' = 0
  /\ UNCHANGED <<ring, batch, waited, flush, callback, outside, flushes>>

EndOrFlush ==
  /\ flushes < MaxFlushes /\ flushes' = flushes + 1
  /\ flush' = TRUE
  /\ UNCHANGED <<ring, writer, callback, outside>>

Write == Decoded \/ AirplayPush \/ TakeBatch \/ PushBatch \/ Poll \/ SleepOut

-----------------------------------------------------------------------------
(* The node's callback *)

\* Faulty: an underrun re-arms to more than the ring holds.
RearmedAbove == 2 * Target

Rearmed == Min({Rearm, Target})

Drain(buffer, target, armed) ==
  LET n == IF armed THEN Min({Len(buffer), Quantum}) ELSE 0
  IN /\ played' = SubSeq(buffer, 1, n)
     /\ ring' = SubSeq(buffer, n + 1, Len(buffer))
     /\ draining' = (armed /\ n = Quantum)
     /\ armTarget' = IF armed /\ n < Quantum THEN Rearmed ELSE target

Process ==
  /\ routed
  /\ flush' = FALSE
  /\ LET buffer == IF flush THEN <<>> ELSE ring
         target == IF flush THEN Target ELSE armTarget
         before == draining /\ ~flush
     IN Drain(buffer, target, before \/ Len(buffer) >= target)
  /\ UNCHANGED <<writer, outside, flushes>>

Reroute ==
  /\ routes < MaxRoutes /\ routes' = routes + 1
  /\ routed' = ~routed
  /\ UNCHANGED <<receiver, ring, writer, callback, flush, flushes>>

RingNext == Decoded \/ AirplayPush \/ TakeBatch \/ PushBatch \/ Poll \/ SleepOut
            \/ EndOrFlush \/ Process \/ Reroute

Fairness == WF_ringVars(Write) /\ WF_ringVars(Process)

RingSpec == RingInit /\ [][RingNext]_ringVars /\ Fairness

-----------------------------------------------------------------------------
(* Properties *)

\* A node that stays routed plays again and again what it is given: neither
\* the prebuffer, nor an underrun, a flush or a stall silences it for good.
RoutedPlays == <>[]routed => []<>(played # <<>>)

\* The left samples are played on the left: the node plays whole frames.
SidesKept == \A i \in 1..Len(played) : played[i] = IF i % 2 = 1 THEN "L" ELSE "R"

=============================================================================
