-------------------------------- MODULE ChainSolve --------------------------------
(***************************************************************************)
(* align/measure, the arithmetic: chain.rs turns what is heard at one      *)
(* position after another into delay lines, solve.rs solves a set measured *)
(* at one position, and knobs.rs turns either into the knobs to write.     *)
(*                                                                         *)
(* Times are in half milliseconds, so that the mean of two readings is     *)
(* exact; what is heard is in whole milliseconds.  The drift of the clocks *)
(* and the checks of the estimator are left out.                           *)
(***************************************************************************)
EXTENDS Integers, Sequences, FiniteSets

CONSTANTS
  Speakers,      \* in the order of the session
  Paths,         \* what a speaker may take to be heard at a position, without a line
  Pattern,       \* length of the test pattern: a phase is known modulo it
  Tolerance,     \* OVERLAP_AGREEMENT_TOL_MS
  MaxLine,       \* relay_delay::MAX_DELAY_MS
  MaxKnob,       \* bound of the knobs
  MinJitter,     \* PWSINK_JITTER_MIN_MS
  Currents,      \* knobs that may be set already
  Kinds          \* of speakers, a subset of {"sendspin", "airplay2", "pwsink"}

\* The paths and the lines of the speakers stay within half a pattern of each
\* other: what is longer than the pattern cannot be told from what is short.
ChainConstants ==
  /\ IsFiniteSet(Speakers) /\ Speakers # {} /\ Speakers = 1..Cardinality(Speakers)
  /\ Pattern \in Nat /\ MaxLine \in Nat /\ 2 * MaxLine < Pattern
  /\ Paths \subseteq Nat /\ \A p \in Paths : 2 * (p + MaxLine) < Pattern
  /\ MaxKnob \in Nat /\ MinJitter \in Nat /\ Currents \subseteq Nat /\ IsFiniteSet(Currents)

VARIABLES
  path,      \* at each measured position, how late a speaker without a line is heard
  provisional, \* speakers aligned so far, and their lines
  joints,    \* ChainStep of each accepted position
  proposal   \* the knobs to write, or why there are none

solveVars == <<path, provisional, joints, proposal>>

NoProposal == [on |-> FALSE, refused |-> FALSE]

SolveInit == path = <<>> /\ provisional = <<>> /\ joints = <<>> /\ proposal = NoProposal

Aligned == DOMAIN provisional
LineOf(s) == IF s \in Aligned THEN provisional[s] ELSE 0
Heard(p, s) == path[p][s] + LineOf(s)

MaxOf(S) == CHOOSE a \in S : \A b \in S : b <= a
MinOf(S) == CHOOSE a \in S : \A b \in S : a <= b
Abs(a) == IF a < 0 THEN -a ELSE a

\* round() to a whole millisecond, of what is not negative
Round(a) == ((a + 1) \div 2) * 2

WrapSym(v) == ((v + Pattern \div 2) % Pattern) - Pattern \div 2

\* arrivals after the earliest one, from phases that are known modulo the pattern
Linearise(phase) ==
  LET anchor  == phase[MinOf(DOMAIN phase)]
      wrapped == [s \in DOMAIN phase |-> WrapSym(phase[s] - anchor)]
      least   == MinOf({wrapped[s] : s \in DOMAIN phase})
  IN  [s \in DOMAIN phase |-> wrapped[s] - least]

Arrivals(at, S) == Linearise([s \in S |-> (at[s] + LineOf(s)) % Pattern])

\* MAX_TRUSTED_SPREAD_FRACTION
Ambiguous(arrival) == 5 * MaxOf({arrival[s] : s \in DOMAIN arrival}) > 2 * Pattern

-----------------------------------------------------------------------------
(* chain_step *)

Disagreement(arrival, overlaps) ==
  MaxOf({Abs(arrival[a] - arrival[b]) : a, b \in overlaps})

Latest(arrival, members) == MaxOf({arrival[s] : s \in members})

\* the mean of one or two overlaps
Anchor(arrival, overlaps) ==
  (arrival[MinOf(overlaps)] + arrival[MaxOf(overlaps)]) \div 2

Target(arrival, members, overlaps) ==
  IF overlaps = {} THEN Latest(arrival, members)
  ELSE MaxOf({Anchor(arrival, overlaps), Latest(arrival, members)})

Delta(arrival, members, overlaps) ==
  IF overlaps = {} THEN 0 ELSE Target(arrival, members, overlaps) - Anchor(arrival, overlaps)

\* what is pushed is rounded, and the chain goes on from what was pushed
StepLines(arrival, members, overlaps) ==
  [s \in Aligned \union members |->
     IF s \in members THEN Round(Target(arrival, members, overlaps) - arrival[s])
     ELSE Round(provisional[s] + Delta(arrival, members, overlaps))]

\* A position at which the members are aligned with what the overlaps were aligned with.  A refused
\* one changes nothing, and can be measured again.
ChainStep(members, overlaps, at) ==
  /\ members # {} /\ (Aligned = {} <=> overlaps = {}) /\ Cardinality(overlaps) <= 2
  /\ Cardinality(members \union overlaps) >= 2
  /\ LET arrival == Arrivals(at, members \union overlaps)
         lines   == StepLines(arrival, members, overlaps)
     IN  /\ ~Ambiguous(arrival)
         /\ overlaps # {} => Disagreement(arrival, overlaps) <= Tolerance
         /\ \A s \in DOMAIN lines : lines[s] <= MaxLine
         /\ provisional' = lines
         /\ joints' = Append(joints, [members |-> members, overlaps |-> overlaps,
                        disagreement |-> IF overlaps = {} THEN 0 ELSE Disagreement(arrival, overlaps)])
  /\ path' = Append(path, at)
  /\ UNCHANGED proposal

-----------------------------------------------------------------------------
(* knobs.rs *)

Advances(kind) == kind = "sendspin"

KnobMin(kind) == IF kind = "pwsink" THEN MinJitter ELSE 0

\* Mutant of Base: the knob in force is taken for a delay.
BaseOfDelay(arrival, current, kind) == arrival - current

\* where the speaker would arrive with its knob at 0
Base(arrival, current, kind) == IF Advances(kind) THEN arrival + current ELSE arrival - current

Interval(arrival, current, kind) ==
  LET base == Base(arrival, current, kind)
  IN  [kind |-> kind, base |-> base,
       lo |-> IF Advances(kind) THEN base - MaxKnob ELSE base + KnobMin(kind),
       hi |-> IF Advances(kind) THEN base - KnobMin(kind) ELSE base + MaxKnob]

KnobFor(iv, target) == IF Advances(iv.kind) THEN iv.base - target ELSE target - iv.base

LatestLo(ivs)   == MaxOf({ivs[s].lo : s \in DOMAIN ivs})
EarliestHi(ivs) == MinOf({ivs[s].hi : s \in DOMAIN ivs})

AdvanceBases(ivs) == {ivs[s].base : s \in {q \in DOMAIN ivs : Advances(ivs[q].kind)}}
DelayBases(ivs)   == {ivs[s].base : s \in {q \in DOMAIN ivs : ~Advances(ivs[q].kind)}}

Clamp(v, lo, hi) == MaxOf({lo, MinOf({v, hi})})

ChooseTarget(ivs) ==
  CASE DelayBases(ivs) = {}   -> EarliestHi(ivs)
    [] AdvanceBases(ivs) = {} -> LatestLo(ivs)
    [] OTHER -> Clamp((MaxOf(AdvanceBases(ivs)) + MinOf(DelayBases(ivs))) \div 2,
                      LatestLo(ivs), EarliestHi(ivs))

LargestKnob(ivs, target) == MaxOf({KnobFor(ivs[s], target) : s \in DOMAIN ivs})

\* propose_knobs, of arrivals and of the knobs in force
Propose(arrival, current, kind) ==
  LET ivs    == [s \in Speakers |-> Interval(arrival[s], current[s], kind[s])]
      target == ChooseTarget(ivs)
      knob   == [s \in Speakers |-> Round(KnobFor(ivs[s], target))]
  IN  IF LatestLo(ivs) > EarliestHi(ivs)
      THEN [on |-> FALSE, refused |-> TRUE, ivs |-> ivs]
      ELSE [on |-> TRUE, refused |-> FALSE, ivs |-> ivs, target |-> target,
            moved |-> [s \in Speakers |->
                         IF Advances(kind[s]) THEN current[s] - knob[s] ELSE knob[s] - current[s]]]

\* solve_chain
SolveChain(current, kind) ==
  /\ Aligned = Speakers
  /\ LET ceiling == MaxOf({provisional[s] : s \in Speakers})
     IN  proposal' = Propose([s \in Speakers |-> ceiling - provisional[s]], current, kind)
  /\ UNCHANGED <<path, provisional, joints>>

\* solve, of one position
SolvePasses(at, current, kind) ==
  /\ ~Ambiguous(Arrivals(at, Speakers))
  /\ path' = <<at>>
  /\ proposal' = Propose(Arrivals(at, Speakers), current, kind)
  /\ UNCHANGED <<provisional, joints>>

\* a speaker that is not measured at a position is not heard there either
Positions(S) == {at \in [Speakers -> Paths] : \A s \in Speakers \ S : at[s] = MinOf(Paths)}

SolveNext ==
  ~proposal.on /\ ~proposal.refused /\
  \/ \E members \in SUBSET (Speakers \ Aligned), overlaps \in SUBSET Aligned :
       \E at \in Positions(members \union overlaps) : ChainStep(members, overlaps, at)
  \/ \E current \in [Speakers -> Currents], kind \in [Speakers -> Kinds] :
       \/ SolveChain(current, kind)
       \/ path = <<>> /\ \E at \in [Speakers -> Paths] : SolvePasses(at, current, kind)

SolveSpec == SolveInit /\ [][SolveNext]_solveVars

-----------------------------------------------------------------------------
Millisecond == 2
CloseTo(a, b, error) == Abs(a - b) <= error

(* Speakers aligned at a position arrive together there, within a millisecond of rounding, and with
   the overlaps within half of their disagreement: also after every later position has moved them
   (chain_step's common shift, the rounding of what is pushed). *)
StepsStayAligned ==
  \A p \in 1 .. Len(joints) :
    LET j == joints[p]
    IN  /\ \A s, t \in j.members : CloseTo(Heard(p, s), Heard(p, t), Millisecond)
        /\ \A s \in j.members, o \in j.overlaps :
             CloseTo(2 * Heard(p, s), 2 * Heard(p, o), j.disagreement + 2 * Millisecond)

(* Once the knobs are written and the lines are gone, speakers are as they were through the lines,
   or together at the one position, within a millisecond: whatever their kinds of knobs and what
   these were set to (MemberInterval, propose_knobs, solve_chain's renormalisation). *)
KnobsKeepAlignment ==
  proposal.on =>
    LET off(s) == proposal.moved[s] - IF joints = <<>> THEN -path[1][s] ELSE provisional[s]
    IN  \A s, t \in Speakers : CloseTo(off(s), off(t), Millisecond)

(* The knobs are as small as they can be: no common arrival that every knob can reach needs a
   smaller largest knob; and a refusal means that there is none (choose_target). *)
LeastKnobs ==
  LET reachable(t) == \A s \in Speakers : proposal.ivs[s].lo <= t /\ t <= proposal.ivs[s].hi
      targets      == LET any == proposal.ivs[MinOf(Speakers)] IN any.lo .. any.hi
  IN  /\ proposal.refused => \A t \in targets : ~reachable(t)
      /\ proposal.on =>
           /\ reachable(proposal.target)
           /\ \A t \in targets : reachable(t) =>
                LargestKnob(proposal.ivs, proposal.target) <= LargestKnob(proposal.ivs, t)

(* What is solved is played together, through the chain and on to the knobs, at the least cost.     *)
SolvedTogether == StepsStayAligned /\ KnobsKeepAlignment /\ LeastKnobs

=============================================================================
