----------------------------- MODULE OverlayMixer -----------------------------
(***************************************************************************)
(* The announcement slots of outputs/overlay_mixer.rs: the one overlay an  *)
(* output may carry, the real-time relay that consumes it chunk by chunk,  *)
(* the finished list it reports into, and the stall watchdog.  Duck holds, *)
(* which live in a map of their own, are module DuckHolds.                 *)
(*                                                                         *)
(* PCM is a number of chunks left; the watchdog's clock is counted in      *)
(* polls, the only moments at which it is read.                            *)
(***************************************************************************)
EXTENDS Naturals, Sequences, SequencesExt

CONSTANTS
  Outputs,     \* output node names
  ClipChunks,  \* relay chunks in a clip
  Grace,       \* polls without progress before a slot is reaped
  NoSlot       \* no overlay on this output

ASSUME MixerConstants == ClipChunks \in Nat \ {0} /\ Grace \in Nat

VARIABLES
  slots,      \* output -> overlay or NoSlot
  finished,   \* <<output, id>> reports since the last drain, in order
  streaming   \* output -> is a per-device relay consuming it?

mixerVars == <<slots, finished, streaming>>

\* `moved` is `cursor != watch_cursor`, `stall` how long that has been false.
Overlay == [id : Nat, left : 1..ClipChunks, moved : BOOLEAN, stall : 0..Grace]

\* start_with_grace(): a fresh cursor, replacing whatever was there.
NewSlot(id) == [id |-> id, left |-> ClipChunks, moved |-> FALSE, stall |-> 0]

Has(o) == slots[o] # NoSlot

\* mix_into() on the relay thread: consume a chunk; on the last one remove the
\* slot and record the finish.
MixInto(o) ==
  /\ streaming[o]
  /\ Has(o)
  /\ IF slots[o].left = 1
     THEN /\ slots' = [slots EXCEPT ![o] = NoSlot]
          /\ finished' = Append(finished, <<o, slots[o].id>>)
     ELSE /\ slots' = [slots EXCEPT ![o].left = @ - 1, ![o].moved = TRUE]
          /\ UNCHANGED finished
  /\ UNCHANGED streaming

\* A sender for o comes up, or goes away (rebuild, unroute, device loss).
RelayChange(o) ==
  /\ streaming' = [streaming EXCEPT ![o] = ~@]
  /\ UNCHANGED <<slots, finished>>

\* reap_stalled(): sample every slot's cursor; drop the ones frozen too long.
Stalled(o) == Has(o) /\ ~slots[o].moved /\ slots[o].stall = Grace

Sampled(o) ==
  IF ~Has(o) \/ Stalled(o) THEN NoSlot
  ELSE IF slots[o].moved   THEN [slots[o] EXCEPT !.moved = FALSE, !.stall = 0]
  ELSE                          [slots[o] EXCEPT !.stall = @ + 1]

Reaped == {<<o, slots[o].id>> : o \in {p \in Outputs : Stalled(p)}}

MixerInit ==
  /\ slots = [o \in Outputs |-> NoSlot]
  /\ finished = <<>>
  /\ streaming \in [Outputs -> BOOLEAN]
=============================================================================
