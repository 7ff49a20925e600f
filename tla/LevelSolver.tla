------------------------------ MODULE LevelSolver ------------------------------
(***************************************************************************)
(* align/levels.rs: the level solve of a microphone measurement.  Round by *)
(* round the solver asks for an excitation and a level per member, reads   *)
(* each channel's SNR and the microphone's peak, and continues, converges  *)
(* or refuses.                                                             *)
(*                                                                         *)
(* A reading is its place against the target: below it, at it, at least    *)
(* CLIP_CUT_MIN_DB above it (a clipping round may cut it), or above the    *)
(* surplus tolerance.  The taper is data: a cut or a raise of at least a   *)
(* step moves a level to any other one in its direction (TAPER_MAX and     *)
(* MIN_LEVEL make it move).  What the room answers is free.                *)
(***************************************************************************)
EXTENDS Naturals

CONSTANTS Voices,          \* 1..n, in the solver's order
          MaxLevel,         \* levels are 0..MaxLevel: MIN_LEVEL..MAX_LEVEL
          ParallelRounds,   \* MAX_PARALLEL_ROUNDS
          SoloRounds,       \* SEQUENTIAL_ROUNDS_PER_MEMBER
          Slack             \* SEQUENTIAL_ROUNDS_SLACK

LevelConstants == Voices \subseteq Nat /\ 0 \notin Voices /\ 1 \in Voices /\ MaxLevel \in Nat

All == 0                \* the excitation of every member
Unread == "unread"
RampModes   == {"parallel", "sequential"}
SnrReadings == {"below", "at", "above", "surplus"}
Peaks    == {"low", "near", "hot"}   \* near: under MIN_STEP_DB of headroom; hot: backs off
LevelRange == 0..MaxLevel
NoLevel  == MaxLevel + 1

VARIABLES
  mode, separable, fixed,  \* RampMode; one channel per member; the members without a knob
  level, issued,           \* MemberState::level and issued
  snr, snrLevel,           \* the last reading, and the level it was taken at
  peak,                    \* aggregate_peak, Unread before an all-members round
  rows,                    \* members with a reliable crosstalk row
  rounds, excite,          \* rounds observed; the round asked for
  outcome,                 \* "ramping", "converged", "refused"
  checked                  \* history: the levels of the last all-members round

levelVars == <<mode, separable, fixed, level, issued, snr, snrLevel, peak, rows, rounds, excite, outcome, checked>>
setup     == <<mode, separable, fixed>>

Adjustable == Voices \ fixed
Nowhere    == [m \in Voices |-> NoLevel]

\* One channel per member is what the parallel mode needs (with_config).
LevelInit ==
  /\ mode \in RampModes /\ separable \in BOOLEAN /\ fixed \in SUBSET Voices
  /\ mode = "parallel" => separable
  /\ \E start \in LevelRange : level = [m \in Voices |-> IF m \in fixed THEN MaxLevel ELSE start]
  /\ issued = [m \in Voices |-> IF m \in fixed THEN NoLevel ELSE level[m]]
  /\ snr = [m \in Voices |-> Unread] /\ snrLevel = Nowhere /\ peak = Unread /\ rows = {}
  /\ rounds = 0 /\ outcome = "ramping" /\ checked = Nowhere
  /\ excite = IF mode = "parallel" THEN All ELSE 1

CrosstalkPass == mode = "parallel"
Count == CHOOSE n \in Voices : \A m \in Voices : m <= n

Budget == IF mode = "parallel" THEN ParallelRounds + Count ELSE SoloRounds * Count + Slack

-----------------------------------------------------------------------------
(* What a round observes *)

Excited == IF excite = All THEN Voices ELSE {excite}

\* The members whose reading the round may be held to.
Attributable == IF excite = All THEN (IF separable THEN Voices ELSE {}) ELSE {excite}

Ingest(heard, p) ==
  /\ snr' = [m \in Voices |-> IF m \in Attributable THEN heard[m] ELSE snr[m]]
  /\ snrLevel' = [m \in Voices |-> IF m \in Attributable THEN level[m] ELSE snrLevel[m]]
  /\ peak' = IF excite = All THEN p ELSE peak
  /\ checked' = IF excite = All THEN level ELSE checked
  /\ rounds' = rounds + 1

\* A row is reliable at MIN_PEAK_SNR_DB, which lies below the target.
RecordRow(heard) ==
  IF excite = All \/ ~separable THEN rows' = rows
  ELSE \E reliable \in (IF heard[excite] = "below" THEN BOOLEAN ELSE {TRUE}) :
         rows' = IF reliable THEN rows \cup {excite} ELSE rows \ {excite}

-----------------------------------------------------------------------------
(* The next round *)

Deficient == {m \in Voices : snr'[m] = "below"}

FirstOf(S) == CHOOSE m \in S : \A o \in S : m <= o

\* Faulty: after the crosstalk rounds it goes on alone.
NextAlone ==
  IF mode = "parallel" /\ rows' = {} THEN {All} ELSE IF Adjustable # {} THEN Adjustable ELSE {1}

\* Alone, it is the member never read, else one furthest from the target.
NextExcitations ==
  IF mode = "parallel" THEN {All}
  ELSE LET unread == {m \in Voices : snr'[m] = Unread}
       IN IF unread # {} THEN {FirstOf(unread)} ELSE IF Adjustable # {} THEN Adjustable ELSE {1}

\* step(): the levels go out with the round
Step(e) ==
  /\ excite' = e /\ outcome' = "ramping"
  /\ issued' = [m \in Voices |-> IF m \in fixed THEN issued[m] ELSE level'[m]]

Concludes(how) == outcome' = how /\ UNCHANGED <<excite, issued>>

ContinueOrBound(e) == IF rounds' >= Budget THEN Concludes("refused") ELSE Step(e)

-----------------------------------------------------------------------------
(* The decision *)

Lower(S) == /\ level' \in [Voices -> LevelRange]
            /\ \A m \in Voices : IF m \in S THEN level'[m] < level[m] ELSE level'[m] = level[m]

CanCut(m) == m \in Adjustable /\ level[m] > 0

\* A round that clips takes down the excited members with level to spare.
BackOff ==
  LET cut == {m \in Excited : CanCut(m) /\ snr'[m] \in {Unread, "above", "surplus"}}
  IN IF cut # {} THEN Lower(cut) /\ ContinueOrBound(excite)
     ELSE UNCHANGED level /\ Concludes("refused")

\* No headroom for the quiet ones: the loud ones make room, or there is none.
TrimSurplus ==
  LET cut == {m \in Voices : CanCut(m) /\ snr'[m] \in {"above", "surplus"}}
  IN IF cut # {} THEN Lower(cut) /\ \E e \in NextExcitations : Step(e)
     ELSE UNCHANGED level /\ Concludes("refused")

Up   == {m \in Adjustable : snr'[m] = "below"}
Down == {m \in Adjustable : snr'[m] = "surplus" /\ level[m] > 0}

\* The members are moved in order: one that cannot be raised refuses midway.
Ramp ==
  LET stuck == {m \in Up : level[m] = MaxLevel}
      upTo  == IF stuck = {} THEN Voices ELSE {m \in Voices : m < FirstOf(stuck)}
  IN /\ level' \in [Voices -> LevelRange]
     /\ \A m \in Voices :
          CASE m \in Up \cap upTo   -> level'[m] > level[m]
            [] m \in Down \cap upTo -> level'[m] < level[m]
            [] OTHER                -> level'[m] = level[m]
     /\ IF stuck # {} THEN Concludes("refused")
        ELSE \E e \in NextExcitations : ContinueOrBound(e)

\* Nothing to move: what is still unread, unchecked or without a row.
AllSettled ==
  LET unread == {m \in Voices : snr'[m] = Unread}
      noRow  == Voices \ rows'
  IN /\ UNCHANGED level
     /\ IF unread # {} THEN ContinueOrBound(FirstOf(unread))
        ELSE IF peak' \notin {"low", "near"} THEN ContinueOrBound(All)
        ELSE IF CrosstalkPass /\ separable /\ Count > 1 /\ noRow # {} THEN ContinueOrBound(FirstOf(noRow))
        ELSE Concludes("converged")

Decide(p) ==
  IF \E m \in fixed : snr'[m] = "below" THEN UNCHANGED level /\ Concludes("refused")
  ELSE IF p = "hot" THEN BackOff
  ELSE IF Deficient # {} /\ peak' \in {"near", "hot"} THEN TrimSurplus
  ELSE IF Up \cup Down # {} THEN Ramp
  ELSE AllSettled

Observe ==
  /\ outcome = "ramping"
  /\ \E heard \in [Attributable -> SnrReadings], p \in Peaks :
       Ingest(heard, p) /\ RecordRow(heard) /\ Decide(p)
  /\ UNCHANGED setup

\* The estimator does not report a member's channel: the configurations disagree.
MissChannel ==
  /\ outcome = "ramping" /\ Attributable # {}
  /\ UNCHANGED <<setup, level, snr, snrLevel, rows, peak, checked>>
  /\ rounds' = rounds + 1
  /\ Concludes("refused")

LevelNext == Observe \/ MissChannel

LevelSpec == LevelInit /\ [][LevelNext]_levelVars /\ WF_levelVars(LevelNext)

-----------------------------------------------------------------------------
(* Properties *)

Confirmed ==
  /\ \A m \in Adjustable : issued[m] = level[m]
  /\ \A m \in Voices : snr[m] # "below" /\ snrLevel[m] = level[m] /\ level[m] <= checked[m]
  /\ peak # "hot"

\* What a parallel solve hands to the measurement it has measured: every
\* member was told its level and read on target at that very level, and the
\* all-members round that did not clip was at these levels or louder.  Solo
\* rounds, clipping and trims come in any order in between.
ConvergedAsMeasured == outcome = "converged" /\ mode = "parallel" => Confirmed

=============================================================================
