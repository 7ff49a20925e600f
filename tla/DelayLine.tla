-------------------------------- MODULE DelayLine --------------------------------
(***************************************************************************)
(* align/relay_delay.rs: what the relay of one output does to its blocks   *)
(* of PCM.  A provisional delay reads a ring of bytes some frames behind   *)
(* its write position; a calibration mute and a channel mask act on what   *)
(* comes out.  The ring outlives a change of the delay, and starts anew    *)
(* with another format, or when a block is too long for it.                *)
(*                                                                         *)
(* A byte of the ring is known by its age: how many bytes the line was fed *)
(* since it was; one from before the line started anew, or from before a   *)
(* block that went by the line, is Stale.  Sizes are a few bytes instead   *)
(* of thousands.                                                           *)
(***************************************************************************)
EXTENDS Integers, Sequences

CONSTANTS
  Formats,   \* bytes in a frame; the samples are of one byte here, so 2 is stereo
  Blocks,    \* bytes in a block
  MaxDelay,  \* MAX_DELAY_US, in frames
  Headroom,  \* HEADROOM_FRAMES
  MostFed    \* the bound of `fed`, as much as any ring holds

VARIABLES
  effect,  \* DeviceEffect of the output
  format,  \* the format its relay sends in
  out,     \* the block that was sent last, as ages
  asked,   \* history: what the line was asked for with that block
  fed,     \* history: bytes the line has been fed since it last started anew
  gap      \* history: a block has gone by the line since then

delayLineVars == <<effect, format, out, asked, fed, gap>>

Silence == -1
Stale   == -2
SIZING  == 2   \* SIZING_CHANNELS

(* A block is not empty (process declines one), and `fed` counts as far as the largest ring. *)
ASSUME LineConstants ==
  /\ Formats \subseteq Nat \ {0} /\ Blocks \subseteq Nat \ {0}
  /\ MaxDelay \in Nat /\ Headroom \in Nat \ {0} /\ MostFed \in Nat
  /\ (MaxDelay + Headroom) * SIZING <= MostFed
  /\ \A n \in Blocks, fb \in Formats : n + (MaxDelay + Headroom) * fb <= MostFed

Lesser(a, b)  == IF a < b THEN a ELSE b
Greater(a, b) == IF a < b THEN b ELSE a

RingBytesFor(delay, fb) == (delay + Headroom) * fb

Zeroed(cap) == [i \in 0 .. cap - 1 |-> Silence]

\* DelayLine::new
NewLine(delay) ==
  LET cap == RingBytesFor(MaxDelay, SIZING)
  IN  [delay |-> delay, fb |-> SIZING, cap |-> cap, write |-> 0, valid |-> 0, ring |-> Zeroed(cap)]

NoEffect == [lines |-> {}, muted |-> FALSE, left |-> FALSE]
NothingAsked == [on |-> FALSE, delay |-> 0, heard |-> TRUE]

DelayLineInit ==
  /\ effect = NoEffect /\ format \in Formats /\ out = <<>> /\ asked = NothingAsked
  /\ fed = 0 /\ gap = FALSE

The(S) == CHOOSE l \in S : TRUE

\* Mutant of ResetFor: the bytes of the old format stay.
ResetRing(l, fb, min) ==
  LET cap == Greater(l.cap, min)
  IN  [l EXCEPT !.cap = cap, !.fb = fb, !.write = 0, !.ring = [i \in 0 .. cap - 1 |-> Stale]]

ResetFor(l, fb, min) ==
  LET cap == Greater(l.cap, min)
  IN  [l EXCEPT !.cap = cap, !.fb = fb, !.write = 0, !.valid = 0,
                !.ring = [i \in 0 .. cap - 1 |-> IF l.cap < min THEN Silence ELSE Stale]]

\* the ring that a block of n bytes goes into
InFormat(l, fb, n) ==
  IF l.fb = fb THEN l ELSE ResetFor(l, fb, Greater(RingBytesFor(MaxDelay, fb), n + l.delay * fb))

WithRoom(l, n) ==
  IF l.cap >= n + l.delay * l.fb THEN l ELSE ResetFor(l, l.fb, n + l.delay * l.fb + Headroom * l.fb)

Aged(age, n) == IF age >= 0 THEN age + n ELSE age

\* every byte the ring holds is n bytes older
Older(l, n) == [l EXCEPT !.ring = [i \in 0 .. l.cap - 1 |-> Aged(@[i], n)]]

Passed(l) == [l EXCEPT !.ring = [i \in 0 .. l.cap - 1 |-> Stale]]

Push(l, n) ==
  LET at(i) == (i + l.cap - l.write) % l.cap  \* which byte of the block lands at i
  IN  [l EXCEPT !.ring = [i \in 0 .. l.cap - 1 |-> IF at(i) < n THEN n - 1 - at(i) ELSE @[i]],
                !.write = (@ + n) % l.cap, !.valid = Lesser(@ + n, l.cap)]

Missing(l, n) ==
  IF n + l.delay * l.fb <= l.valid THEN 0 ELSE Lesser(n, n + l.delay * l.fb - l.valid)

Emit(l, n) ==
  LET missing == Missing(l, n)
      start   == (l.write + l.cap - l.delay * l.fb - (n - missing)) % l.cap
  IN  [i \in 1 .. n |-> IF i <= missing THEN Silence ELSE l.ring[(start + i - missing - 1) % l.cap]]

AsIs(n) == [i \in 1 .. n |-> n - i]

\* mask_channels: the right samples of a stereo block
Masked(block) ==
  [i \in 1 .. Len(block) |-> IF effect.left /\ format = 2 /\ i % 2 = 0 THEN Silence ELSE block[i]]

\* DelayLine::process declines: the block passes as it is, and the line is not fed
PassesBy(l, n) == n % format # 0 \/ l.delay = 0

Fed(l, n) == Push(WithRoom(InFormat(Older(l, n), format, n), n), n)

Anew(l, n) == l.fb # format \/ l.cap < n + l.delay * format

\* DeviceEffect::process
Block(n) ==
  LET silent(block) == IF effect.muted THEN [i \in 1 .. n |-> Silence] ELSE Masked(block)
      through(l)    == Fed(l, n)
  IN  \/ /\ effect.lines = {}
         /\ out' = silent(AsIs(n)) /\ asked' = NothingAsked
         /\ UNCHANGED <<effect, format, fed, gap>>
      \/ \E l \in effect.lines :
           /\ PassesBy(l, n)
           /\ effect' = [effect EXCEPT !.lines =
                {Passed(IF n % format # 0 THEN l ELSE InFormat(l, format, n))}]
           /\ out' = silent(AsIs(n)) /\ asked' = NothingAsked /\ gap' = TRUE
           /\ UNCHANGED <<format, fed>>
      \/ \E l \in effect.lines :
           /\ ~PassesBy(l, n)
           /\ effect' = [effect EXCEPT !.lines = {through(l)}]
           /\ out' = silent(Emit(through(l), n))
           /\ asked' = [on |-> TRUE, delay |-> l.delay * format, heard |-> ~effect.muted]
           /\ fed' = Lesser(MostFed, n + IF Anew(l, n) THEN 0 ELSE fed)
           /\ gap' = (gap /\ ~Anew(l, n))
           /\ UNCHANGED format

-----------------------------------------------------------------------------
(* What the alignment does to the effect.  An effect without a line is idle. *)

StartsAnew == fed' = 0 /\ gap' = FALSE
BetweenBlocks == out' = <<>> /\ asked' = NothingAsked
Keeps == BetweenBlocks /\ UNCHANGED format

\* set_delay_us, with a delay that may be less than half a frame
SetDelay(delay) ==
  /\ delay <= MaxDelay
  /\ IF effect.lines = {}
     THEN effect' = [effect EXCEPT !.lines = {NewLine(delay)}] /\ StartsAnew
     ELSE /\ effect' = [effect EXCEPT !.lines = {[The(@) EXCEPT !.delay = delay]}]
          /\ UNCHANGED <<fed, gap>>
  /\ Keeps

Clear ==
  /\ effect.lines # {} /\ effect' = [effect EXCEPT !.lines = {}] /\ StartsAnew
  /\ Keeps

SetMuted(muted) ==
  /\ effect' = [effect EXCEPT !.muted = muted]
  /\ Keeps /\ UNCHANGED <<fed, gap>>

SetChannels(left) ==
  /\ effect' = [effect EXCEPT !.left = left]
  /\ Keeps /\ UNCHANGED <<fed, gap>>

\* the relay renegotiates
Reformat(fb) ==
  /\ fb # format /\ format' = fb
  /\ BetweenBlocks /\ UNCHANGED <<effect, fed, gap>>

DelayLineNext ==
  \/ \E n \in Blocks : Block(n)
  \/ \E delay \in 0 .. MaxDelay : SetDelay(delay)
  \/ Clear \/ (\E on \in BOOLEAN : SetMuted(on) \/ SetChannels(on))
  \/ \E fb \in Formats : Reformat(fb)

DelayLineSpec == DelayLineInit /\ [][DelayLineNext]_delayLineVars

-----------------------------------------------------------------------------
Dropped(i) == effect.left /\ format = 2 /\ i % 2 = 0

(* What a delayed output sends is what came in exactly its delay earlier, or silence where the
   line had not been fed by then: whatever the lengths of the blocks, changes of the delay and of
   the format, mutes, and blocks the ring had to grow for (DelayLine::process). *)
DelayedExactly ==
  asked.on /\ asked.heard /\ ~gap =>
    \A i \in 1 .. Len(out) :
      LET age == Len(out) - i + asked.delay
      IN  ~Dropped(i) => out[i] = IF age < fed THEN age ELSE Silence

=============================================================================
