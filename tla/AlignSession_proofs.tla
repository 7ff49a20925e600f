------------------------ MODULE AlignSession_proofs -------------------------
(***************************************************************************)
(* Proofs about an alignment: the exclusive hold, and what a run gives     *)
(* back to the room.                                                       *)
(***************************************************************************)
EXTENDS AlignRestore, TLAPS

-----------------------------------------------------------------------------
(* The exclusive hold *)
(***************************************************************************)
(* Proofs about the exclusive hold, for every set of outputs and requests  *)
(* and any number of holds.                                                *)
(*                                                                         *)
(* Only the newest hold can be in use, because a start empties the slot    *)
(* before it forms another; and while it is in use its own teardown has    *)
(* not begun.  Whatever teardowns are still running are those of older     *)
(* holds, and what they clear is guarded by an id that is not the newest.  *)
(* None of this depends on requests running to their end, so wholeness is  *)
(* proved of the specification whose requests may be dropped; that nothing *)
(* is left behind is proved of the one whose requests run to their end.    *)
(***************************************************************************)

Forming == start.fresh /\ start.pc \in {"reserve", "override", "anchor", "snapshot",
                                        "mutes", "levels", "publish"}
InUse   == session # 0 \/ Forming

\* A start is fresh from the moment it asks for a hold of its own.
StartShape ==
  /\ start.pc \in {"take", "tear", "open", "reserve", "override", "anchor", "snapshot",
                   "publish", "release"} => start.fresh
  /\ start.pc \in {"idle", "rescope"} => ~start.fresh
  /\ start.pc \in {"tear", "mutes", "levels"} => start.hold \in Holds
  /\ start.pc \in {"take", "tear", "open"} => lastHold < MaxHolds

\* A start forms only over an empty slot.
SlotIsFree == start.fresh /\ start.pc # "take" => session = 0

OnlyNewestInUse ==
  /\ Forming \/ StartAt("release") => start.hold = lastHold
  /\ session # 0 => session = lastHold
  /\ InUse \/ StartAt("release") => lastHold # 0
  /\ InUse => tear[lastHold] = "none"

NewestIsWhole ==
  /\ InUse => registry = lastHold
  /\ InUse /\ ~StartAt("reserve") => lastHold \in reserved
  /\ InUse /\ ~StartAt("reserve") /\ ~StartAt("override") => override = lastHold

\* A request that is under way knows the hold it found.
PassShape == \A p \in Passes : pass[p].pc # "idle" => pass[p].hold \in Holds

FutureIsUntouched == \A h \in Holds : h > lastHold => tear[h] = "none"

IInv ==
  /\ TypeOK
  /\ StartShape
  /\ SlotIsFree
  /\ OnlyNewestInUse
  /\ NewestIsWhole
  /\ FutureIsUntouched
  /\ RescopeIsCovered
  /\ PassShape

\* With no request dropped, a hold is in use, or not yet formed, or its
\* teardown has begun; and what a teardown is past, the hold does not have.
NothingKept ==
  \A h \in Holds :
    /\ h > lastHold => ~Takes(h)
    /\ h <= lastHold /\ tear[h] = "none" => h = lastHold /\ InUse
    /\ tear[h] \in {"reservation", "registry", "done"} => override # h
    /\ tear[h] \in {"registry", "done"} => h \notin reserved
    /\ tear[h] = "done" => registry # h
    /\ tear[h] # "dropped"

-----------------------------------------------------------------------------
LEMMA InitInvariant == ASSUME SessionConstants, Init PROVE IInv
<1> USE DEF Init, IdleStart, Holds
<1>1. IdleStart \in Starts
  BY DEF SessionConstants, Starts, StartPcs
<1>2. pass \in [Passes -> [pc : PassPcs, hold : 0..MaxHolds, on : SUBSET Outputs]]
  BY DEF SessionConstants, IdlePass, PassPcs
<1>3. TypeOK
  <2>1. /\ held \in [Holds -> SUBSET Outputs] /\ saved \in [Holds -> SUBSET Outputs]
        /\ unknown \in [Holds -> SUBSET Outputs]
    OBVIOUS
  <2>2. tear \in [Holds -> TearPcs]
    BY DEF TearPcs
  <2>3. 0 \in 0..MaxHolds
    BY DEF SessionConstants
  <2> QED BY <1>1, <1>2, <2>1, <2>2, <2>3 DEF TypeOK
<1>4. StartShape /\ SlotIsFree /\ OnlyNewestInUse /\ NewestIsWhole
  BY DEF StartShape, SlotIsFree, OnlyNewestInUse, NewestIsWhole, InUse, Forming, StartAt
<1>5. FutureIsUntouched /\ RescopeIsCovered /\ PassShape
  BY DEF FutureIsUntouched, RescopeIsCovered, PassShape, IdlePass
<1> QED BY <1>3, <1>4, <1>5 DEF IInv

(* What a step may write to the start's own record.                          *)
LEMMA StartRecords ==
  ASSUME SessionConstants, NEW s \in Starts, NEW pc \in StartPcs, NEW h \in 0..MaxHolds
  PROVE  /\ IdleStart \in Starts
         /\ [s EXCEPT !.pc = pc] \in Starts
         /\ [s EXCEPT !.pc = pc, !.hold = h] \in Starts
         /\ [s EXCEPT !.current = FALSE] \in Starts
         /\ \A on \in SUBSET Outputs : /\ [s EXCEPT !.pc = pc, !.on = on] \in Starts
                                       /\ [s EXCEPT !.pc = pc, !.hold = h, !.on = on] \in Starts
<1>1. IdleStart \in Starts
  BY DEF SessionConstants, IdleStart, Starts, StartPcs
<1> QED BY <1>1 DEF Starts

(* What a pass writes stays among the outputs.                               *)
LEMMA WrittenTypes ==
  ASSUME TypeOK, NEW h \in Holds, WriteLevels(h)
  PROVE  disturbed' \subseteq Outputs /\ relayMutes' \subseteq Outputs
<1>1. PICK reached \in SUBSET (held[h] \cap Hosted) : \E muted \in SUBSET reached :
        /\ disturbed' = disturbed \cup (held[h] \ Hosted) \cup reached
        /\ relayMutes' = relayMutes \ muted
  BY DEF WriteLevels
<1>2. held[h] \subseteq Outputs
  BY DEF TypeOK
<1> QED BY <1>1, <1>2 DEF TypeOK

(* The start's own record stays in its domain, and what it forms has a       *)
(* number: there was room for it when it was planned.                        *)
LEMMA StartTypes ==
  ASSUME SessionConstants, IInv, StartStep
  PROVE  TypeOK'
<1> USE DEF StartAt, StartGoes, holdVars, speakerVars, memberVars
<1>1. start \in Starts /\ start.hold \in 0..MaxHolds /\ start.want \subseteq Outputs
  BY DEF IInv, TypeOK, Starts
<1>2. \A pc \in StartPcs : [start EXCEPT !.pc = pc] \in Starts
  BY <1>1, StartRecords DEF SessionConstants
<1>3. IdleStart \in Starts
  BY <1>1, StartRecords DEF StartPcs, SessionConstants
<1>4. session \in 0..MaxHolds /\ lastHold \in 0..MaxHolds
  BY DEF IInv, TypeOK
<1>5. start.pc \in {"reserve", "override", "anchor", "snapshot", "publish"} => start.hold \in Holds
  BY <1>4 DEF IInv, OnlyNewestInUse, StartShape, InUse, Forming, Holds
<1>6. CASE StartRescope
  <2>1. CASE session = 0
    BY <1>6, <2>1, <1>3 DEF IInv, TypeOK, StartRescope
  <2>2. CASE session # 0
    <3>1. PICK on \in SUBSET start.want : start' = [start EXCEPT !.pc = "mutes", !.hold = session, !.on = on]
      BY <1>6, <2>2 DEF StartRescope
    <3>2. start' \in Starts
      BY <3>1, <1>1, <1>4, StartRecords DEF StartPcs
    <3> QED BY <1>6, <3>2 DEF IInv, TypeOK, StartRescope
  <2> QED BY <2>1, <2>2
<1>7. CASE StartTake
  <2>1. CASE session = 0
    BY <1>7, <2>1, <1>2 DEF IInv, TypeOK, StartTake, StartPcs
  <2>2. CASE session # 0
    <3>1. start' \in Starts
      <4>1. "tear" \in StartPcs
        BY DEF StartPcs
      <4>2. [start EXCEPT !.pc = "tear", !.hold = session] \in Starts
        BY <4>1, <1>1, <1>4, StartRecords
      <4> QED BY <1>7, <2>2, <4>2 DEF StartTake
    <3>2. tear' \in [Holds -> TearPcs] /\ session' \in 0..MaxHolds
      BY <1>7, <2>2 DEF IInv, TypeOK, StartTake, TearDown, TearPcs, SessionConstants
    <3> QED BY <1>7, <3>1, <3>2 DEF IInv, TypeOK, StartTake
  <2> QED BY <2>1, <2>2
<1>8. CASE StartTorn \/ StartRefused
  BY <1>8, <1>2, <1>3 DEF IInv, TypeOK, StartTorn, StartRefused, StartPcs
<1>9. CASE StartOpen
  <2>1. lastHold' \in Holds /\ registry' = lastHold'
    BY <1>9 DEF IInv, TypeOK, StartOpen, StartShape, SessionConstants, Holds
  <2>2. held' \in [Holds -> SUBSET Outputs]
    BY <1>9, <1>1 DEF IInv, TypeOK, StartOpen
  <2>3. start' \in Starts
    <3>1. "reserve" \in StartPcs /\ lastHold' \in 0..MaxHolds
      BY <2>1 DEF StartPcs, Holds
    <3>2. [start EXCEPT !.pc = "reserve", !.hold = lastHold'] \in Starts
      BY <3>1, <1>1, StartRecords
    <3> QED BY <1>9, <3>2 DEF StartOpen
  <2> QED BY <1>9, <2>1, <2>2, <2>3 DEF IInv, TypeOK, StartOpen, Holds
<1>10. CASE StartReserve
  <2>1. start.hold \in Holds
    BY <1>5, <1>10 DEF StartReserve
  <2> QED BY <1>10, <2>1, <1>2 DEF IInv, TypeOK, StartReserve, StartPcs
<1>11. CASE StartOverride
  BY <1>11, <1>1, <1>2 DEF IInv, TypeOK, StartOverride, StartPcs
<1>12. CASE StartAnchor
  BY <1>12, <1>2 DEF IInv, TypeOK, StartAnchor, StartPcs, TearPcs
<1>13. CASE StartSnapshot
  <2>1. PICK on \in SUBSET start.want : start' = [start EXCEPT !.pc = "mutes", !.on = on]
    BY <1>13 DEF StartSnapshot
  <2>2. start' \in Starts
    BY <2>1, <1>1, StartRecords DEF StartPcs, SessionConstants
  <2>3. saved' \in [Holds -> SUBSET Outputs]
    BY <1>1, <1>13 DEF IInv, TypeOK, StartSnapshot
  <2>4. PICK blank \in SUBSET start.want : unknown' = [unknown EXCEPT ![start.hold] = blank]
    BY <1>13 DEF StartSnapshot
  <2>5. unknown' \in [Holds -> SUBSET Outputs]
    BY <1>1, <2>4 DEF IInv, TypeOK
  <2> QED BY <1>13, <2>2, <2>3, <2>5 DEF IInv, TypeOK, StartSnapshot
<1>14. CASE StartMutes
  BY <1>14, <1>2 DEF IInv, TypeOK, StartMutes, SetRelayMutes, StartPcs, SessionConstants
<1>15. CASE StartLevels
  <2>1. start' \in Starts
    BY <1>15, <1>2, <1>3 DEF StartLevels, StartPcs
  <2>2. start.hold \in Holds
    BY <1>15 DEF IInv, StartLevels, StartShape
  <2>3. disturbed' \subseteq Outputs /\ relayMutes' \subseteq Outputs
    BY <1>15, <2>2, WrittenTypes DEF IInv, StartLevels
  <2> QED BY <1>15, <2>1, <2>3 DEF IInv, TypeOK, StartLevels
<1>16. CASE StartPublish
  <2>1. start' \in Starts
    BY <1>16, <1>2, <1>3 DEF StartPublish, StartPcs
  <2>2. session' \in 0..MaxHolds /\ tear' \in [Holds -> TearPcs]
    BY <1>16, <1>1, <1>4 DEF IInv, TypeOK, StartPublish, TearDown, TearPcs
  <2> QED BY <1>16, <2>1, <2>2 DEF IInv, TypeOK, StartPublish
<1>17. CASE StartReleased
  BY <1>17, <1>3 DEF IInv, TypeOK, StartReleased
<1> QED BY <1>6, <1>7, <1>8, <1>9, <1>10, <1>11, <1>12, <1>13, <1>14, <1>15, <1>16, <1>17
        DEF StartStep

LEMMA StartPreserves ==
  ASSUME SessionConstants, IInv, StartStep
  PROVE  IInv'
<1> USE DEF StartAt, StartGoes, holdVars, speakerVars, memberVars, Starts, IdleStart, TearDown, Holds, InUse, Forming, Torn
<1>0. TypeOK'
  BY StartTypes
<1>1. CASE StartRescope
  <2>1. CASE session = 0
    BY <1>0, <1>1, <2>1 DEF IInv, TypeOK, StartShape, SlotIsFree, OnlyNewestInUse, NewestIsWhole,
         FutureIsUntouched, RescopeIsCovered, PassShape, StartRescope
  <2>2. CASE session # 0
    BY <1>0, <1>1, <2>2 DEF IInv, TypeOK, StartShape, SlotIsFree, OnlyNewestInUse, NewestIsWhole,
         FutureIsUntouched, RescopeIsCovered, PassShape, StartRescope
  <2> QED BY <2>1, <2>2
<1>2. CASE StartTake
  <2>1. CASE session = 0
    BY <1>0, <1>2, <2>1 DEF IInv, TypeOK, StartShape, SlotIsFree, OnlyNewestInUse, NewestIsWhole,
         FutureIsUntouched, RescopeIsCovered, PassShape, StartTake
  <2>2. CASE session # 0
    <3>1. /\ start.pc = "take" /\ start.fresh
          /\ start' = [start EXCEPT !.pc = "tear", !.hold = session]
          /\ tear' = [tear EXCEPT ![session] = "restore"] /\ session' = 0
          /\ UNCHANGED <<registry, reserved, override, held, lastHold, pass>>
      BY <1>2, <2>2 DEF StartTake, IInv, StartShape
    <3>2. /\ start'.pc = "tear" /\ start'.hold = session /\ start'.fresh
          /\ session \in Holds /\ session = lastHold
      BY <3>1, <2>2 DEF IInv, TypeOK, OnlyNewestInUse
    <3>3. StartShape' /\ SlotIsFree' /\ OnlyNewestInUse' /\ NewestIsWhole' /\ RescopeIsCovered' /\ PassShape'
      BY <3>1, <3>2 DEF IInv, StartShape, SlotIsFree, OnlyNewestInUse, NewestIsWhole, RescopeIsCovered, PassShape
    <3>4. FutureIsUntouched'
      BY <3>1, <3>2 DEF IInv, TypeOK, FutureIsUntouched
    <3> QED BY <1>0, <3>3, <3>4 DEF IInv
  <2> QED BY <2>1, <2>2
<1>3. CASE StartTorn
  BY <1>0, <1>3 DEF IInv, TypeOK, StartShape, SlotIsFree, OnlyNewestInUse, NewestIsWhole,
     FutureIsUntouched, RescopeIsCovered, PassShape, StartTorn
<1>4. CASE StartRefused
  BY <1>0, <1>4 DEF IInv, TypeOK, StartShape, SlotIsFree, OnlyNewestInUse, NewestIsWhole,
     FutureIsUntouched, RescopeIsCovered, PassShape, StartRefused
<1>5. CASE StartOpen
  BY <1>0, <1>5 DEF IInv, TypeOK, StartShape, SlotIsFree, OnlyNewestInUse, NewestIsWhole,
     FutureIsUntouched, RescopeIsCovered, PassShape, StartOpen
<1>6. CASE StartReserve
  BY <1>0, <1>6 DEF IInv, TypeOK, StartShape, SlotIsFree, OnlyNewestInUse, NewestIsWhole,
     FutureIsUntouched, RescopeIsCovered, PassShape, StartReserve
<1>7. CASE StartOverride
  BY <1>0, <1>7 DEF IInv, TypeOK, StartShape, SlotIsFree, OnlyNewestInUse, NewestIsWhole,
     FutureIsUntouched, RescopeIsCovered, PassShape, StartOverride
<1>8. CASE StartAnchor
  BY <1>0, <1>8 DEF IInv, TypeOK, StartShape, SlotIsFree, OnlyNewestInUse, NewestIsWhole,
     FutureIsUntouched, RescopeIsCovered, PassShape, StartAnchor
<1>9. CASE StartSnapshot
  BY <1>0, <1>9 DEF IInv, TypeOK, StartShape, SlotIsFree, OnlyNewestInUse, NewestIsWhole,
     FutureIsUntouched, RescopeIsCovered, PassShape, StartSnapshot
<1>10. CASE StartMutes
  BY <1>0, <1>10 DEF IInv, TypeOK, StartShape, SlotIsFree, OnlyNewestInUse, NewestIsWhole,
     FutureIsUntouched, RescopeIsCovered, PassShape, StartMutes
<1>11. CASE StartLevels
  BY <1>0, <1>11 DEF IInv, TypeOK, StartShape, SlotIsFree, OnlyNewestInUse, NewestIsWhole,
     FutureIsUntouched, RescopeIsCovered, PassShape, StartLevels
<1>12. CASE StartPublish
  BY <1>0, <1>12 DEF IInv, TypeOK, StartShape, SlotIsFree, OnlyNewestInUse, NewestIsWhole,
     FutureIsUntouched, RescopeIsCovered, PassShape, StartPublish
<1>13. CASE StartReleased
  BY <1>0, <1>13 DEF IInv, TypeOK, StartShape, SlotIsFree, OnlyNewestInUse, NewestIsWhole,
     FutureIsUntouched, RescopeIsCovered, PassShape, StartReleased
<1> QED BY <1>1, <1>2, <1>3, <1>4, <1>5, <1>6, <1>7, <1>8, <1>9, <1>10, <1>11, <1>12, <1>13 DEF StartStep

(* A start is planned, by whatever is in the slot at the moment.             *)
LEMMA PlanPreserves ==
  ASSUME SessionConstants, IInv, NEW want \in Selections, StartPlan(want)
  PROVE  IInv'
<1> USE DEF StartAt, holdVars, speakerVars, memberVars
<1>1. start.pc = "idle" /\ want \subseteq Outputs
  BY DEF StartPlan, Selections
<1>2. UNCHANGED <<registry, reserved, override, held, lastHold, relayMutes, disturbed, saved, unknown,
                  left, session, stopping, tear, byTask, pass>>
  BY DEF StartPlan
<1>3. ~start.fresh
  BY <1>1 DEF IInv, StartShape
<1>4. CASE session # 0 /\ want \subseteq held[session]
           /\ start' = [IdleStart EXCEPT !.pc = "rescope", !.want = want]
  <2>1. start' = [pc |-> "rescope", hold |-> 0, want |-> want, on |-> {}, fresh |-> FALSE, current |-> FALSE]
    BY <1>4 DEF IdleStart
  <2>2. TypeOK'
    BY <1>1, <1>2, <2>1 DEF IInv, TypeOK, Starts, StartPcs, SessionConstants
  <2>3. start'.pc = "rescope" /\ start'.want = want /\ ~start'.fresh
    BY <2>1
  <2> QED BY <1>1, <1>2, <1>3, <1>4, <2>2, <2>3
          DEF IInv, StartShape, SlotIsFree, OnlyNewestInUse, NewestIsWhole, FutureIsUntouched,
              RescopeIsCovered, PassShape, InUse, Forming
<1>5. CASE lastHold < MaxHolds
           /\ start' = [IdleStart EXCEPT !.pc = "take", !.want = want, !.fresh = TRUE, !.current = TRUE]
  <2>1. start' = [pc |-> "take", hold |-> 0, want |-> want, on |-> {}, fresh |-> TRUE, current |-> TRUE]
    BY <1>5 DEF IdleStart
  <2>2. TypeOK'
    BY <1>1, <1>2, <2>1 DEF IInv, TypeOK, Starts, StartPcs, SessionConstants
  <2> QED BY <1>1, <1>2, <1>3, <1>5, <2>1, <2>2
          DEF IInv, StartShape, SlotIsFree, OnlyNewestInUse, NewestIsWhole, FutureIsUntouched,
              RescopeIsCovered, PassShape, InUse, Forming
<1> QED BY <1>4, <1>5 DEF StartPlan

(* A stop moves the generation on, and later takes what is in the slot.      *)
LEMMA StopPreserves ==
  ASSUME SessionConstants, IInv, StopBump \/ StopTake \/ WatchdogTake
  PROVE  IInv'
<1> USE DEF StartAt, holdVars, speakerVars, memberVars
<1>1. CASE StopBump
  <2>1. /\ start' = [start EXCEPT !.current = FALSE] /\ start' \in Starts
        /\ start'.pc = start.pc /\ start'.hold = start.hold /\ start'.want = start.want
        /\ start'.fresh = start.fresh
    BY <1>1 DEF StopBump, IInv, TypeOK, Starts
  <2>2. TypeOK'
    BY <1>1, <2>1 DEF StopBump, IInv, TypeOK
  <2> QED BY <1>1, <2>1, <2>2
          DEF StopBump, IInv, StartShape, SlotIsFree, OnlyNewestInUse, NewestIsWhole, FutureIsUntouched,
              RescopeIsCovered, PassShape, InUse, Forming
<1>2. CASE (StopTake \/ WatchdogTake) /\ session = 0
  BY <1>2 DEF StopTake, WatchdogTake, IInv, TypeOK, StartShape, SlotIsFree, OnlyNewestInUse, NewestIsWhole,
              FutureIsUntouched, RescopeIsCovered, PassShape, InUse, Forming
<1>3. CASE (StopTake \/ WatchdogTake) /\ session # 0
  <2>1. /\ tear' = [tear EXCEPT ![session] = "restore"] /\ session' = 0
        /\ UNCHANGED <<registry, reserved, override, held, lastHold, start, pass>>
    BY <1>3 DEF StopTake, WatchdogTake, TearDown
  <2>2. session \in Holds /\ session = lastHold
    BY <1>3 DEF IInv, TypeOK, OnlyNewestInUse, Holds, SessionConstants
  <2>3. ~Forming
    BY <1>3 DEF IInv, SlotIsFree, Forming
  <2>4. TypeOK'
    <3>1. tear' \in [Holds -> TearPcs]
      BY <2>1 DEF IInv, TypeOK, TearPcs
    <3>2. session' \in 0..MaxHolds
      BY <2>1 DEF SessionConstants
    <3>3. stopping' \in BOOLEAN /\ byTask' \subseteq Holds /\ UNCHANGED <<relayMutes, disturbed, memberVars, pass>>
      BY <1>3, <2>2 DEF StopTake, WatchdogTake, IInv, TypeOK
    <3> QED BY <2>1, <3>1, <3>2, <3>3 DEF IInv, TypeOK, memberVars
  <2>5. FutureIsUntouched'
    BY <2>1, <2>2 DEF IInv, TypeOK, FutureIsUntouched, Holds
  <2> QED BY <2>1, <2>2, <2>3, <2>4, <2>5
          DEF IInv, StartShape, SlotIsFree, OnlyNewestInUse, NewestIsWhole, RescopeIsCovered, PassShape, InUse, Forming
<1> QED BY <1>1, <1>2, <1>3

(* A teardown that has begun is not that of the hold in use, and what it     *)
(* clears it clears by its own id.                                           *)
LEMMA TearPreserves ==
  ASSUME SessionConstants, IInv, NEW h \in Holds,
         tear[h] # "none",
         NEW stage \in TearPcs \ {"none"}, tear' = [tear EXCEPT ![h] = stage],
         registry' = registry \/ (registry = h /\ registry' = 0),
         override' = override \/ (override = h /\ override' = 0),
         reserved' = reserved \/ reserved' = reserved \ {h},
         relayMutes' \subseteq Outputs, disturbed' \subseteq Outputs, left' \subseteq Outputs,
         saved' \in [Holds -> SUBSET Outputs], unknown' \in [Holds -> SUBSET Outputs],
         UNCHANGED <<held, lastHold, session, stopping, byTask>>,
         start' = start \/ start' = IdleStart,
         pass' = pass
  PROVE  IInv'
<1>1. InUse => h # lastHold
  BY DEF IInv, OnlyNewestInUse
<1>2. h <= lastHold
  BY DEF IInv, TypeOK, FutureIsUntouched, Holds
<1>3. start' \in Starts
  BY StartRecords DEF IInv, TypeOK, StartPcs, SessionConstants
<1>4. TypeOK'
  <2>1. registry' \in 0..MaxHolds /\ override' \in 0..MaxHolds /\ reserved' \subseteq Holds
    BY DEF IInv, TypeOK, SessionConstants
  <2>2. tear' \in [Holds -> TearPcs]
    BY DEF IInv, TypeOK
  <2> QED BY <1>3, <2>1, <2>2 DEF IInv, TypeOK
<1>5. /\ registry = lastHold /\ InUse => registry' = lastHold
      /\ override = lastHold /\ InUse => override' = lastHold
      /\ lastHold \in reserved /\ InUse => lastHold \in reserved'
      /\ \A k \in Holds : k # h => tear'[k] = tear[k]
  BY <1>1 DEF IInv, TypeOK
<1>6. FutureIsUntouched'
  BY <1>2, <1>5 DEF IInv, TypeOK, FutureIsUntouched, Holds
<1>7. lastHold # 0 => lastHold \in Holds
  BY DEF IInv, TypeOK, Holds
<1>8. CASE start' = start
  BY <1>1, <1>4, <1>5, <1>6, <1>7, <1>8
     DEF IInv, StartShape, SlotIsFree, OnlyNewestInUse, NewestIsWhole, RescopeIsCovered, PassShape,
         InUse, Forming, StartAt
<1>9. CASE start' = IdleStart
  <2>1. InUse' => InUse
    BY <1>9 DEF InUse, Forming, IdleStart
  <2>2. /\ start'.pc = "idle" /\ ~start'.fresh
    BY <1>9 DEF IdleStart
  <2> QED BY <1>1, <1>4, <1>5, <1>6, <1>7, <2>1, <2>2
     DEF IInv, StartShape, SlotIsFree, OnlyNewestInUse, NewestIsWhole, RescopeIsCovered, PassShape,
         InUse, Forming, StartAt
<1> QED BY <1>8, <1>9

LEMMA TearStepPreserves ==
  ASSUME SessionConstants, IInv, NEW h \in Holds, TearStep(h)
  PROVE  IInv'
<1> USE DEF holdVars, speakerVars, memberVars, TearGoes, TearPcs
<1>1. /\ held[h] \subseteq Outputs /\ saved[h] \subseteq Outputs /\ unknown[h] \subseteq Outputs
      /\ relayMutes \subseteq Outputs /\ disturbed \subseteq Outputs /\ left \subseteq Outputs
      /\ saved \in [Holds -> SUBSET Outputs] /\ unknown \in [Holds -> SUBSET Outputs]
  BY DEF IInv, TypeOK
<1>2. CASE TearRestore(h)
  <2>1. PICK missed \in SUBSET held[h] : Restore(h, unknown[h] \cup missed)
    BY <1>2 DEF TearRestore
  <2>2. disturbed' \subseteq Outputs /\ left' \subseteq Outputs
    BY <1>1, <2>1 DEF Restore
  <2>3. saved' \in [Holds -> SUBSET Outputs] /\ unknown' \in [Holds -> SUBSET Outputs]
    BY <1>1, <1>2 DEF TearRestore, ForgetSnapshot
  <2> QED BY <1>1, <1>2, <2>2, <2>3, TearPreserves DEF TearRestore
<1>3. CASE TearUnmute(h)
  BY <1>1, <1>3, TearPreserves DEF TearUnmute
<1>4. CASE TearOverride(h)
  BY <1>1, <1>4, TearPreserves DEF TearOverride, ClearOverride
<1>5. CASE TearReservation(h)
  BY <1>1, <1>5, TearPreserves DEF TearReservation
<1>6. CASE TearRegistry(h)
  BY <1>1, <1>6, TearPreserves DEF TearRegistry, CloseRegistry
<1> QED BY <1>2, <1>3, <1>4, <1>5, <1>6 DEF TearStep

(* An audibility request writes to the speakers only.                        *)
LEMMA PassPreserves ==
  ASSUME SessionConstants, IInv, NEW p \in Passes, PassBegin(p) \/ PassMutes(p) \/ PassLevels(p) \/ PassDropped(p)
  PROVE  IInv'
<1> DEFINE InPass == [pc : PassPcs, hold : 0..MaxHolds, on : SUBSET Outputs]
<1>1. UNCHANGED <<registry, reserved, override, held, lastHold, saved, unknown, left, session, start,
                  stopping, tear, byTask>>
  BY DEF PassBegin, PassMutes, PassLevels, PassDropped, holdVars, speakerVars, memberVars
<1>2. IdlePass \in InPass
  BY DEF IdlePass, PassPcs, SessionConstants
<1>3. /\ pass' \in [Passes -> InPass] /\ PassShape'
      /\ relayMutes' \subseteq Outputs /\ disturbed' \subseteq Outputs
  <2>1. CASE PassBegin(p)
    <3>1. PICK on \in SUBSET held[session] :
            pass' = [pass EXCEPT ![p] = [pc |-> "mutes", hold |-> session, on |-> on]]
      BY <2>1 DEF PassBegin
    <3>2. session \in Holds /\ on \subseteq Outputs
      BY <2>1 DEF PassBegin, IInv, TypeOK, Holds
    <3>3. [pc |-> "mutes", hold |-> session, on |-> on] \in InPass
      BY <3>2 DEF PassPcs, Holds
    <3>4. PassShape'
      BY <3>1, <3>2 DEF IInv, TypeOK, PassShape
    <3> QED BY <2>1, <3>1, <3>3, <3>4 DEF PassBegin, speakerVars, memberVars, IInv, TypeOK
  <2>2. CASE PassMutes(p)
    <3>1. pass' = [pass EXCEPT ![p].pc = "levels"] /\ pass[p].pc = "mutes"
      BY <2>2 DEF PassMutes
    <3>2. PassShape'
      BY <3>1 DEF IInv, TypeOK, PassShape
    <3> QED BY <2>2, <3>2 DEF PassMutes, SetRelayMutes, IInv, TypeOK, PassPcs, SessionConstants
  <2>3. CASE PassLevels(p) \/ PassDropped(p)
    <3>1. pass' = [pass EXCEPT ![p] = IdlePass] /\ pass[p].pc # "idle"
      BY <2>3 DEF PassLevels, PassDropped
    <3>2. pass' \in [Passes -> InPass]
      BY <3>1, <1>2 DEF IInv, TypeOK
    <3>3. PassShape'
      BY <3>1 DEF IInv, TypeOK, PassShape, IdlePass
    <3>4. disturbed' \subseteq Outputs /\ relayMutes' \subseteq Outputs
      <4>1. pass[p].hold \in Holds
        BY <3>1 DEF IInv, PassShape
      <4> QED BY <2>3, <4>1, WrittenTypes DEF PassLevels, PassDropped, speakerVars, IInv, TypeOK
    <3> QED BY <3>2, <3>3, <3>4
  <2> QED BY <2>1, <2>2, <2>3
<1> QED BY <1>1, <1>3
        DEF IInv, TypeOK, StartShape, SlotIsFree, OnlyNewestInUse, NewestIsWhole, FutureIsUntouched,
            RescopeIsCovered, InUse, Forming, StartAt

(* A request is dropped where it awaits, with whatever it owns.              *)
LEMMA DropTeardownPreserves ==
  ASSUME SessionConstants, IInv, NEW h \in Holds, DropTeardown(h),
         start' = start \/ start' = IdleStart,
         UNCHANGED <<session, stopping, byTask, pass>>
  PROVE  IInv'
<1> USE DEF TearGoes, TearPcs, holdVars, speakerVars, memberVars
<1>1. /\ relayMutes \subseteq Outputs /\ disturbed \subseteq Outputs /\ left \subseteq Outputs
      /\ saved \in [Holds -> SUBSET Outputs] /\ unknown \in [Holds -> SUBSET Outputs]
  BY DEF IInv, TypeOK
<1>2. CASE tear[h] = "restore" /\ DropHold(h)
  <2>1. saved' \in [Holds -> SUBSET Outputs] /\ unknown' \in [Holds -> SUBSET Outputs]
    BY <1>1, <1>2 DEF DropHold, ForgetSnapshot
  <2> QED BY <1>1, <1>2, <2>1, TearPreserves DEF DropHold, CloseRegistry
<1>3. CASE tear[h] = "override" /\ TearGoes(h, "done") /\ UNCHANGED <<holdVars, speakerVars>>
  BY <1>1, <1>3, TearPreserves
<1> QED BY <1>2, <1>3 DEF DropTeardown

LEMMA StartDroppedPreserves ==
  ASSUME SessionConstants, IInv, StartDropped
  PROVE  IInv'
<1>1. start' = IdleStart /\ UNCHANGED <<session, stopping, byTask, pass>>
  BY DEF StartDropped
<1>2. IdleStart \in Starts /\ IdleStart.pc = "idle" /\ ~IdleStart.fresh
  BY DEF IdleStart, Starts, StartPcs, SessionConstants
<1>3. InUse' => session # 0
  BY <1>1, <1>2 DEF InUse, Forming
<1>4. CASE UNCHANGED <<holdVars, speakerVars, tear>>
  <2>1. TypeOK'
    BY <1>1, <1>2, <1>4 DEF IInv, TypeOK, holdVars, speakerVars, memberVars
  <2>2. session # 0 /\ start.fresh => start.pc = "take"
    BY DEF IInv, SlotIsFree
  <2>3. start'.pc = "idle" /\ ~start'.fresh /\ ~Forming'
    BY <1>1, <1>2 DEF Forming
  <2>4. UNCHANGED <<registry, reserved, override, held, lastHold, tear, session, pass>>
    BY <1>1, <1>4 DEF holdVars
  <2>5. OnlyNewestInUse'
    BY <2>3, <2>4 DEF IInv, OnlyNewestInUse, InUse, StartAt
  <2>6. NewestIsWhole'
    BY <2>2, <2>3, <2>4 DEF IInv, NewestIsWhole, InUse, StartAt, StartShape
  <2> QED BY <2>1, <2>3, <2>4, <2>5, <2>6
          DEF IInv, StartShape, SlotIsFree, FutureIsUntouched, RescopeIsCovered, PassShape
<1>5. CASE /\ start.pc \in {"anchor", "snapshot", "mutes", "levels", "publish"}
           /\ start.fresh
           /\ DropHold(start.hold)
  <2>1. session = 0 /\ start.hold = lastHold /\ lastHold \in Holds
    BY <1>5 DEF IInv, TypeOK, SlotIsFree, OnlyNewestInUse, InUse, Forming, Holds
  <2>2. ~InUse'
    BY <1>1, <1>3, <2>1
  <2>3. /\ tear' = [tear EXCEPT ![lastHold] = "dropped"] /\ UNCHANGED <<held, lastHold>>
        /\ relayMutes' \subseteq Outputs /\ UNCHANGED <<disturbed, left, override>>
        /\ saved' \in [Holds -> SUBSET Outputs] /\ unknown' \in [Holds -> SUBSET Outputs]
        /\ reserved' \subseteq reserved /\ registry' \in {0, registry}
    BY <1>5, <2>1 DEF DropHold, ForgetSnapshot, TearGoes, CloseRegistry, IInv, TypeOK
  <2>4. TypeOK'
    <3>1. tear' \in [Holds -> TearPcs]
      BY <2>3 DEF IInv, TypeOK, TearPcs
    <3>2. registry' \in 0..MaxHolds /\ reserved' \subseteq Holds
      BY <2>3 DEF IInv, TypeOK, SessionConstants
    <3> QED BY <1>1, <1>2, <2>3, <3>1, <3>2 DEF IInv, TypeOK
  <2>5. FutureIsUntouched'
    BY <2>1, <2>3 DEF IInv, TypeOK, FutureIsUntouched, Holds
  <2> QED BY <1>1, <1>2, <2>1, <2>2, <2>3, <2>4, <2>5
          DEF IInv, StartShape, SlotIsFree, OnlyNewestInUse, NewestIsWhole, RescopeIsCovered, PassShape,
              InUse, StartAt
<1>6. CASE start.pc \in {"tear", "release"} /\ DropTeardown(start.hold)
  <2>1. start.hold \in Holds
    BY <1>6 DEF IInv, TypeOK, StartShape, OnlyNewestInUse, StartAt, Holds
  <2> QED BY <1>1, <1>6, <2>1, DropTeardownPreserves
<1> QED BY <1>4, <1>5, <1>6 DEF StartDropped

LEMMA TearDroppedPreserves ==
  ASSUME SessionConstants, IInv, NEW h \in Holds, TearDropped(h)
  PROVE  IInv'
<1>1. /\ relayMutes \subseteq Outputs /\ disturbed \subseteq Outputs /\ left \subseteq Outputs
      /\ saved \in [Holds -> SUBSET Outputs] /\ unknown \in [Holds -> SUBSET Outputs]
  BY DEF IInv, TypeOK
<1> QED BY <1>1, TearPreserves DEF TearDropped, TearGoes, ClearOverride, TearPcs, speakerVars, memberVars

-----------------------------------------------------------------------------
LEMMA DroppingNextPreserves ==
  ASSUME SessionConstants, IInv, [DroppingNext]_vars
  PROVE  IInv'
<1>1. ASSUME NEW want \in Selections, StartPlan(want)
      PROVE  IInv'
  BY <1>1, PlanPreserves
<1>2. CASE StartStep
  BY <1>2, StartPreserves
<1>3. CASE StopBump \/ StopTake \/ WatchdogTake
  BY <1>3, StopPreserves
<1>4. ASSUME NEW h \in Holds, TearStep(h)
      PROVE  IInv'
  BY <1>4, TearStepPreserves
<1>5. ASSUME NEW p \in Passes, PassBegin(p) \/ PassMutes(p) \/ PassLevels(p) \/ PassDropped(p)
      PROVE  IInv'
  BY <1>5, PassPreserves
<1>6. CASE StartDropped
  BY <1>6, StartDroppedPreserves
<1>7. ASSUME NEW h \in Holds, StopDropped(h)
      PROVE  IInv'
  BY <1>7, DropTeardownPreserves DEF StopDropped
<1>8. ASSUME NEW h \in Holds, TearDropped(h)
      PROVE  IInv'
  BY <1>8, TearDroppedPreserves
<1>9. CASE UNCHANGED vars
  BY <1>9 DEF vars, holdVars, speakerVars, memberVars, taskVars, IInv, TypeOK, StartShape, SlotIsFree,
              OnlyNewestInUse, NewestIsWhole, FutureIsUntouched, RescopeIsCovered, PassShape,
              InUse, Forming, StartAt
<1> QED BY <1>1, <1>2, <1>3, <1>4, <1>5, <1>6, <1>7, <1>8, <1>9 DEF DroppingNext, Next

(* The strengthening, whichever requests are dropped.                        *)
THEOREM DroppingInvariance == ASSUME SessionConstants PROVE DroppingSpec => []IInv
<1>1. Init => IInv
  BY InitInvariant
<1>2. IInv /\ [DroppingNext]_vars => IInv'
  BY DroppingNextPreserves
<1> QED BY <1>1, <1>2, PTL DEF DroppingSpec

(* The strengthening, while every request runs to its end.                   *)
THEOREM Invariance == ASSUME SessionConstants PROVE Spec => []IInv
<1>1. Init => IInv
  BY InitInvariant
<1>2. IInv /\ [Next]_vars => IInv'
  BY DroppingNextPreserves DEF DroppingNext
<1> QED BY <1>1, <1>2, PTL DEF Spec

LEMMA InvariantIsEnough == ASSUME IInv PROVE TypeOK /\ HoldIsWhole /\ RescopeIsCovered
<1>1. ASSUME NEW h \in Formed
      PROVE  /\ h = lastHold /\ InUse /\ ~StartAt("reserve") /\ ~StartAt("override")
  <2>1. CASE session # 0 /\ h = session
    BY <2>1 DEF IInv, OnlyNewestInUse, InUse, SlotIsFree, StartShape, StartAt
  <2>2. CASE /\ start.fresh /\ start.pc \in {"anchor", "snapshot", "mutes", "levels", "publish"}
             /\ h = start.hold
    BY <2>2 DEF IInv, OnlyNewestInUse, InUse, Forming, StartAt
  <2> QED BY <1>1, <2>1, <2>2 DEF Formed
<1>2. StartAt("override") => InUse /\ ~StartAt("reserve") /\ start.hold = lastHold
  BY DEF IInv, OnlyNewestInUse, InUse, Forming, StartShape, StartAt
<1> QED BY <1>1, <1>2 DEF IInv, HoldIsWhole, NewestIsWhole

(* The session, its holds and the requests that work on them are well formed. *)
THEOREM TypeCorrect == ASSUME SessionConstants PROVE Spec => []TypeOK
BY Invariance, InvariantIsEnough, PTL

(* "Id-guarded so a late teardown can't clear a newer session's hold": from  *)
(* the moment it is formed until it is taken out of the slot, a session has  *)
(* its reservation, its routing override and the registry entry.             *)
THEOREM FormedHoldIsWhole == ASSUME SessionConstants PROVE Spec => []HoldIsWhole
BY Invariance, InvariantIsEnough, PTL

(* That a request is dropped at any await, and so a teardown is left halfway *)
(* or finished by a spawned task, takes nothing from the hold in use.        *)
THEOREM WholeDespiteDrops == ASSUME SessionConstants PROVE DroppingSpec => []HoldIsWhole
BY DroppingInvariance, InvariantIsEnough, PTL

(* A start that decided to re-aim the running hold, and let go of the lock,  *)
(* finds a hold that covers its selection, or none.                          *)
THEOREM RescopeCovered == ASSUME SessionConstants PROVE DroppingSpec => []RescopeIsCovered
BY DroppingInvariance, InvariantIsEnough, PTL

-----------------------------------------------------------------------------
(* Nothing is left behind, as long as requests run to their end.             *)

LEMMA InitKeepsNothing == ASSUME Init PROVE NothingKept
BY DEF Init, NothingKept, Takes, Holds

\* Steps that move no hold: plans, snapshots, writes to speakers.
LEMMA SameHoldsKeepNothing ==
  ASSUME NothingKept, InUse => InUse',
         UNCHANGED <<registry, reserved, override, lastHold, tear>>
  PROVE  NothingKept'
BY DEF NothingKept, Takes

LEMMA TearKeepsNothing ==
  ASSUME IInv, NothingKept, NEW h \in Holds, TearStep(h)
  PROVE  NothingKept'
<1> USE DEF TearGoes
<1>1. InUse' = InUse /\ lastHold' = lastHold /\ lastHold \in Nat
  BY DEF TearStep, TearRestore, TearUnmute, TearOverride, TearReservation, TearRegistry, InUse, Forming,
         holdVars, IInv, TypeOK
<1>2. tear \in [Holds -> TearPcs] /\ h <= lastHold
  BY DEF IInv, TypeOK, FutureIsUntouched, TearStep, TearRestore, TearUnmute, TearOverride,
         TearReservation, TearRegistry, Holds
<1>3. CASE TearRestore(h) \/ TearUnmute(h)
  BY <1>1, <1>2, <1>3 DEF TearRestore, TearUnmute, NothingKept, Takes, holdVars
<1>4. CASE TearOverride(h)
  BY <1>1, <1>2, <1>4 DEF TearOverride, ClearOverride, NothingKept, Takes, Holds
<1>5. CASE TearReservation(h)
  BY <1>1, <1>2, <1>5 DEF TearReservation, NothingKept, Takes
<1>6. CASE TearRegistry(h)
  BY <1>1, <1>2, <1>6 DEF TearRegistry, CloseRegistry, NothingKept, Takes, Holds
<1> QED BY <1>3, <1>4, <1>5, <1>6 DEF TearStep

\* The hold in use, which is the newest, begins to be given back.
LEMMA LetGoKeepsNothing ==
  ASSUME IInv, NothingKept, InUse, NEW pc \in {"restore", "unmute"},
         tear' = [tear EXCEPT ![lastHold] = pc],
         UNCHANGED <<registry, reserved, override, lastHold>>
  PROVE  NothingKept'
<1>1. /\ tear \in [Holds -> TearPcs] /\ lastHold \in Holds
  BY DEF IInv, TypeOK, OnlyNewestInUse, Holds
<1>2. tear'[lastHold] = pc /\ \A h \in Holds : h # lastHold => tear'[h] = tear[h]
  BY <1>1
<1> QED BY <1>1, <1>2 DEF NothingKept, Takes, Holds

\* The newest hold is given what it does not have yet.
LEMMA FormKeepsNothing ==
  ASSUME IInv, NothingKept, StartReserve \/ StartOverride
  PROVE  NothingKept'
<1> USE DEF StartAt, StartGoes
<1>1. /\ Forming /\ Forming' /\ start.hold = lastHold /\ lastHold \in Holds
      /\ tear[lastHold] = "none"
  BY DEF StartReserve, StartOverride, IInv, TypeOK, Starts, StartShape, OnlyNewestInUse, InUse, Forming, Holds
<1>2. /\ UNCHANGED <<registry, lastHold, tear>>
      /\ reserved' = reserved \/ reserved' = reserved \cup {lastHold}
      /\ override' = override \/ override' = lastHold
  BY <1>1 DEF StartReserve, StartOverride, speakerVars, memberVars
<1> QED BY <1>1, <1>2 DEF NothingKept, Takes, InUse, Holds

LEMMA OpenKeepsNothing ==
  ASSUME SessionConstants, IInv, NothingKept, StartOpen
  PROVE  NothingKept'
<1> USE DEF StartAt
<1>1. /\ ~InUse /\ lastHold \in Nat
  BY DEF StartOpen, IInv, TypeOK, InUse, Forming, SlotIsFree, StartShape
<1>2. /\ lastHold' = lastHold + 1 /\ registry' = lastHold' /\ UNCHANGED <<reserved, override, tear, session>>
      /\ start' = [start EXCEPT !.pc = "reserve", !.hold = lastHold']
  BY DEF StartOpen
<1>3. Forming'
  BY <1>2 DEF StartOpen, IInv, TypeOK, Starts, StartShape, Forming
<1>4. tear[lastHold'] = "none" \/ lastHold' \notin Holds
  BY <1>1, <1>2 DEF IInv, FutureIsUntouched, Holds
<1> QED BY <1>1, <1>2, <1>3, <1>4 DEF NothingKept, Takes, InUse, Holds

LEMMA NextKeepsNothing ==
  ASSUME SessionConstants, IInv, NothingKept, [Next]_vars
  PROVE  NothingKept'
<1> USE DEF StartAt, StartGoes, holdVars, speakerVars, memberVars
<1>1. /\ start \in Starts /\ SlotIsFree /\ StartShape
      /\ session # 0 => session = lastHold /\ InUse
      /\ Forming => start.hold = lastHold /\ InUse
  BY DEF IInv, TypeOK, OnlyNewestInUse, InUse
<1>2. ASSUME NEW want \in Selections, StartPlan(want)
      PROVE  NothingKept'
  BY <1>1, <1>2, SameHoldsKeepNothing DEF StartPlan, InUse, Forming
<1>3. CASE StartRescope \/ StartTorn \/ StartRefused \/ StartReleased
  <2>1. ~Forming
    BY <1>1, <1>3 DEF StartRescope, StartTorn, StartRefused, StartReleased, Forming, StartShape
  <2> QED BY <1>3, <2>1, SameHoldsKeepNothing
          DEF StartRescope, StartTorn, StartRefused, StartReleased, InUse
<1>4. CASE StartSnapshot \/ StartMutes \/ StartLevels
  <2>1. Forming => Forming'
    BY <1>1, <1>4 DEF StartSnapshot, StartMutes, StartLevels, Forming, StartShape, Starts
  <2> QED BY <1>4, <2>1, SameHoldsKeepNothing DEF StartSnapshot, StartMutes, StartLevels, InUse
<1>5. CASE StartTake
  <2>1. CASE session = 0
    <3>1. ~Forming
      BY <1>5 DEF StartTake, Forming
    <3> QED BY <1>5, <2>1, <3>1, SameHoldsKeepNothing DEF StartTake, InUse
  <2>2. CASE session # 0
    BY <1>1, <1>5, <2>2, LetGoKeepsNothing DEF StartTake, TearDown
  <2> QED BY <2>1, <2>2
<1>6. CASE StartOpen
  BY <1>6, OpenKeepsNothing
<1>7. CASE StartReserve \/ StartOverride
  BY <1>7, FormKeepsNothing
<1>8. CASE StartAnchor
  <2>1. Forming
    BY <1>1, <1>8 DEF StartAnchor, StartShape, Forming
  <2>2. CASE StartGoes("snapshot") /\ UNCHANGED tear
    <3>1. Forming'
      BY <1>1, <1>8, <2>1, <2>2 DEF Forming, Starts
    <3> QED BY <1>8, <2>2, <3>1, SameHoldsKeepNothing DEF StartAnchor, InUse
  <2>3. CASE tear' = [tear EXCEPT ![start.hold] = "unmute"]
    BY <1>1, <1>8, <2>1, <2>3, LetGoKeepsNothing DEF StartAnchor
  <2> QED BY <1>8, <2>2, <2>3 DEF StartAnchor
<1>9. CASE StartPublish
  <2>1. Forming /\ start.hold = lastHold /\ lastHold # 0
    BY <1>1, <1>9 DEF StartPublish, StartShape, Forming, IInv, OnlyNewestInUse
  <2>2. CASE start.current
    <3>1. session' # 0
      BY <1>9, <2>1, <2>2 DEF StartPublish
    <3> QED BY <1>9, <2>2, <3>1, SameHoldsKeepNothing DEF StartPublish, InUse
  <2>3. CASE ~start.current
    BY <1>1, <1>9, <2>1, <2>3, LetGoKeepsNothing DEF StartPublish, TearDown
  <2> QED BY <2>2, <2>3
<1>10. CASE StopBump
  BY <1>1, <1>10, SameHoldsKeepNothing DEF StopBump, InUse, Forming, Starts
<1>11. CASE StopTake \/ WatchdogTake
  <2>1. CASE session = 0
    BY <1>11, <2>1, SameHoldsKeepNothing DEF StopTake, WatchdogTake, InUse, Forming
  <2>2. CASE session # 0
    BY <1>1, <1>11, <2>2, LetGoKeepsNothing DEF StopTake, WatchdogTake, TearDown
  <2> QED BY <2>1, <2>2
<1>12. ASSUME NEW h \in Holds, TearStep(h)
       PROVE  NothingKept'
  BY <1>12, TearKeepsNothing
<1>13. ASSUME NEW p \in Passes, PassBegin(p) \/ PassMutes(p) \/ PassLevels(p)
       PROVE  NothingKept'
  BY <1>13, SameHoldsKeepNothing DEF PassBegin, PassMutes, PassLevels, InUse, Forming
<1>14. CASE UNCHANGED vars
  BY <1>14, SameHoldsKeepNothing DEF vars, taskVars, InUse, Forming
<1> QED BY <1>2, <1>3, <1>4, <1>5, <1>6, <1>7, <1>8, <1>9, <1>10, <1>11, <1>12, <1>13, <1>14
        DEF Next, StartStep

(* Every acquisition is matched by a release, in whatever order stops, starts *)
(* and the watchdog come: with no session and no task at work nothing is     *)
(* held.  (That it fails when a request may be dropped is the run AlignLeak.) *)
THEOREM HoldsAreGivenBack == ASSUME SessionConstants PROVE Spec => []HoldsGivenBack
<1>1. Init => NothingKept
  BY InitKeepsNothing
<1>2. IInv /\ NothingKept /\ [Next]_vars => NothingKept'
  BY NextKeepsNothing
<1>3. IInv /\ NothingKept => HoldsGivenBack
  <2> SUFFICES ASSUME IInv, NothingKept, Quiet
               PROVE  registry = 0 /\ reserved = {} /\ override = 0
    BY DEF HoldsGivenBack
  <2>1. ~InUse
    BY DEF Quiet, StartAt, InUse, Forming
  <2>2. \A h \in Holds : ~Takes(h)
    BY <2>1 DEF Quiet, NothingKept, Takes, IInv, TypeOK, Holds
  <2> QED BY <2>2 DEF Takes, IInv, TypeOK, Holds
<1> QED BY <1>1, <1>2, <1>3, Invariance, PTL DEF Spec

(* A stop is obeyed by the start it overtakes, whichever requests are        *)
(* dropped: what that start was forming is not published.                    *)
THEOREM StopsAreObeyed == ASSUME SessionConstants PROVE DroppingSpec => StopIsObeyed
<1>1. IInv /\ [DroppingNext]_vars => [start.fresh /\ ~start.current => session' \in {0, session}]_vars
  BY DEF DroppingNext, Next, StartPlan, StartStep, StartRescope, StartTake, StartTorn, StartRefused,
         StartOpen, StartReserve, StartOverride, StartAnchor, StartSnapshot, StartMutes, StartLevels,
         StartPublish, StartReleased, StopBump, StopTake, WatchdogTake, TearStep, TearRestore, TearUnmute,
         TearOverride, TearReservation, TearRegistry, PassBegin, PassMutes, PassLevels, StartDropped,
         StopDropped, TearDropped, PassDropped, vars, taskVars
<1> QED BY <1>1, DroppingInvariance, PTL DEF DroppingSpec, StopIsObeyed

-----------------------------------------------------------------------------
(* The room *)
(***************************************************************************)
(* Proofs about what an alignment run gives back to the room, for every    *)
(* set of outputs and requests and any number of holds.                    *)
(*                                                                         *)
(* As long as nothing has crossed, a level that is not the user's is that  *)
(* of a member of a hold in use or of one whose teardown has yet to        *)
(* restore it, or was left so by an earlier one; and a mute at the relay   *)
(* is that of a member whose teardown has yet to clear it.  So a snapshot, *)
(* which is taken with nothing left to restore, holds the user's own       *)
(* levels but where they were lost before, and a teardown puts back what   *)
(* of them it can.                                                         *)
(***************************************************************************)

\* Who owes the room the levels, or the relay mutes, of its members.
OwesLevels(h) == \/ tear[h] = "restore"
                 \/ h = session
                 \/ start.fresh /\ StartAt("publish") /\ h = start.hold
OwesMutes(h)  == \/ tear[h] \in {"restore", "unmute"}
                 \/ h = session
                 \/ start.fresh /\ start.pc \in {"levels", "publish"} /\ h = start.hold

WritersAreCurrent ==
  /\ \A p \in Passes : pass[p].pc # "idle" => pass[p].hold = session
  /\ start.pc \in {"mutes", "levels"} /\ ~start.fresh => start.hold = session

LevelsAreOwed == \A o \in disturbed \ left : \E h \in Holds : o \in held[h] /\ OwesLevels(h)
MutesAreOwed  == \A o \in relayMutes : \E h \in Holds : o \in held[h] /\ OwesMutes(h)
SavedAreLeft  == \A h \in Holds : saved[h] \subseteq left

RoomInv == WritersAreCurrent /\ LevelsAreOwed /\ MutesAreOwed /\ SavedAreLeft

CInv == /\ IInv
        /\ crossed \in BOOLEAN
        /\ ~crossed => ~Crossing /\ RoomInv

-----------------------------------------------------------------------------
(* What holds of every step that crosses nothing. *)

\* Of the slot and its hold.
LEMMA SlotFacts ==
  ASSUME SessionConstants, IInv
  PROVE  /\ session # 0 => session \in Holds /\ session = lastHold /\ tear[session] = "none"
         /\ Forming => start.hold \in Holds /\ start.hold = lastHold /\ tear[start.hold] = "none"
         /\ Forming => session = 0
         /\ \A p \in Passes : pass[p].pc # "idle" => pass[p].hold \in Holds
         /\ \A h \in Holds : h > lastHold => tear[h] = "none" /\ h # session
         /\ 0 \notin Holds /\ Holds \subseteq Nat /\ lastHold \in 0..MaxHolds
BY DEF IInv, TypeOK, OnlyNewestInUse, InUse, Forming, SlotIsFree, PassShape, FutureIsUntouched, Holds,
       SessionConstants

\* Writers stay current: whatever takes the session out of the slot outlives them.
LEMMA WritersStay ==
  ASSUME SessionConstants, IInv, IInv', WritersAreCurrent, ~Crossing',
         \A p \in Passes : pass'[p].pc # "idle" => pass[p].pc # "idle" /\ pass'[p].hold = pass[p].hold,
         start'.pc \in {"mutes", "levels"} /\ ~start'.fresh =>
           start.pc \in {"mutes", "levels"} /\ ~start.fresh /\ start'.hold = start.hold,
         session' = session \/ session = 0 \/ tear'[session] # "none"
  PROVE  WritersAreCurrent'
<1>1. ASSUME session' # session, session # 0, NEW p \in Passes, pass'[p].pc # "idle"
      PROVE  FALSE
  <2>1. pass'[p].hold = session
    BY <1>1 DEF WritersAreCurrent
  <2> QED BY <1>1, <2>1 DEF Crossing, OutlivedBy
<1>2. ASSUME session' # session, session # 0, start'.pc \in {"mutes", "levels"}, ~start'.fresh
      PROVE  FALSE
  <2>1. start'.hold = session
    BY <1>2 DEF WritersAreCurrent
  <2> QED BY <1>2, <2>1 DEF Crossing, OutlivedBy
<1>3. ASSUME session = 0
      PROVE  WritersAreCurrent'
  <2>1. \A p \in Passes : pass'[p].pc = "idle"
    BY <1>3, SlotFacts DEF WritersAreCurrent
  <2>2. ~(start'.pc \in {"mutes", "levels"} /\ ~start'.fresh)
    BY <1>3, SlotFacts DEF WritersAreCurrent, IInv, StartShape
  <2> QED BY <2>1, <2>2 DEF WritersAreCurrent
<1> QED BY <1>1, <1>2, <1>3 DEF WritersAreCurrent

\* A step that writes to no speaker and drops nobody's duty.
LEMMA DutiesPass ==
  ASSUME RoomInv, UNCHANGED <<relayMutes, disturbed, saved, left>>,
         \A h \in Holds : OwesLevels(h) => OwesLevels(h)' /\ held'[h] = held[h],
         \A h \in Holds : OwesMutes(h) => OwesMutes(h)' /\ held'[h] = held[h]
  PROVE  LevelsAreOwed' /\ MutesAreOwed' /\ SavedAreLeft'
BY DEF RoomInv, LevelsAreOwed, MutesAreOwed, SavedAreLeft

-----------------------------------------------------------------------------
(* begin() *)

LEMMA PlanRoom ==
  ASSUME SessionConstants, IInv, IInv', RoomInv, ~Crossing', NEW want \in Selections, StartPlan(want)
  PROVE  RoomInv'
<1>1. /\ start.pc = "idle" /\ start'.pc \in {"rescope", "take"}
      /\ UNCHANGED <<holdVars, speakerVars, session, stopping, tear, byTask, pass>>
  BY DEF StartPlan, StartAt, IdleStart
<1>2. WritersAreCurrent'
  BY <1>1, WritersStay DEF RoomInv
<1> QED BY <1>1, <1>2, DutiesPass
        DEF RoomInv, OwesLevels, OwesMutes, StartAt, holdVars, speakerVars, memberVars

\* The steps of a start that neither write to a speaker nor touch the slot.
LEMMA QuietStartRoom ==
  ASSUME SessionConstants, IInv, IInv', RoomInv, ~Crossing',
         \/ StartTorn \/ StartRefused \/ StartReserve \/ StartOverride \/ StartAnchor \/ StartReleased
  PROVE  RoomInv'
<1> USE DEF StartAt, StartGoes, holdVars, speakerVars, memberVars
<1>1. /\ start.pc \in {"tear", "open", "reserve", "override", "anchor", "release"}
      /\ start'.pc \in {"open", "idle", "override", "anchor", "snapshot", "release"}
      /\ UNCHANGED <<held, relayMutes, disturbed, saved, left, session, pass>>
      /\ tear' = tear \/ (StartAnchor /\ tear' = [tear EXCEPT ![start.hold] = "unmute"])
  BY DEF StartTorn, StartRefused, StartReserve, StartOverride, StartAnchor, StartReleased, IdleStart,
         IInv, TypeOK, Starts
<1>2. \A h \in Holds : tear'[h] = tear[h] \/ tear[h] = "none"
  <2>1. CASE tear' = tear
    BY <2>1
  <2>2. CASE StartAnchor /\ tear' = [tear EXCEPT ![start.hold] = "unmute"]
    <3>1. Forming
      BY <2>2 DEF StartAnchor, Forming, IInv, StartShape
    <3> QED BY <2>2, <3>1, SlotFacts DEF IInv, TypeOK
  <2> QED BY <1>1, <2>1, <2>2
<1>3. WritersAreCurrent'
  BY <1>1, WritersStay DEF RoomInv
<1> QED BY <1>1, <1>2, <1>3, DutiesPass DEF RoomInv, OwesLevels, OwesMutes

LEMMA RescopeRoom ==
  ASSUME SessionConstants, IInv, IInv', RoomInv, ~Crossing', StartRescope
  PROVE  RoomInv'
<1> USE DEF StartAt, holdVars, speakerVars, memberVars
<1>1. start.pc = "rescope" /\ UNCHANGED <<held, relayMutes, disturbed, saved, left, session, pass, tear>>
  BY DEF StartRescope
<1>2. CASE session = 0
  <2>1. start'.pc = "idle"
    BY <1>2 DEF StartRescope, IdleStart
  <2>2. WritersAreCurrent'
    BY <1>1, <2>1, WritersStay DEF RoomInv
  <2> QED BY <1>1, <2>1, <2>2, DutiesPass DEF RoomInv, OwesLevels, OwesMutes
<1>3. CASE session # 0
  <2>1. PICK on : start' = [start EXCEPT !.pc = "mutes", !.hold = session, !.on = on]
    BY <1>3 DEF StartRescope
  <2>2. start'.pc = "mutes" /\ start'.hold = session
    BY <2>1 DEF IInv, TypeOK, Starts
  <2>3. WritersAreCurrent'
    BY <1>1, <2>2 DEF RoomInv, WritersAreCurrent
  <2> QED BY <1>1, <2>2, <2>3, DutiesPass DEF RoomInv, OwesLevels, OwesMutes
<1> QED BY <1>2, <1>3

\* Whoever empties the slot owes what the session owed.
LEMMA TakenRoom ==
  ASSUME SessionConstants, IInv, IInv', RoomInv, ~Crossing',
         session # 0, session' = 0, TearDown(session), UNCHANGED <<held, speakerVars, pass>>,
         start'.pc = start.pc \/ (start.pc = "take" /\ start'.pc = "tear"),
         start'.fresh = start.fresh, start'.hold = start.hold \/ start.pc = "take"
  PROVE  RoomInv'
<1>1. session \in Holds /\ tear'[session] = "restore" /\ \A h \in Holds \ {session} : tear'[h] = tear[h]
  BY SlotFacts DEF TearDown, IInv, TypeOK
<1>2. WritersAreCurrent'
  BY <1>1, WritersStay DEF RoomInv
<1>3. \A h \in Holds : OwesLevels(h) => OwesLevels(h)'
  BY <1>1 DEF OwesLevels, StartAt
<1>4. \A h \in Holds : OwesMutes(h) => OwesMutes(h)'
  BY <1>1 DEF OwesMutes
<1> QED BY <1>2, <1>3, <1>4, DutiesPass DEF RoomInv, speakerVars, memberVars

LEMMA TakeRoom ==
  ASSUME SessionConstants, IInv, IInv', RoomInv, ~Crossing', StartTake
  PROVE  RoomInv'
<1> USE DEF StartAt, StartGoes, holdVars
<1>1. start.pc = "take" /\ start \in Starts /\ UNCHANGED <<held, speakerVars, pass>>
  BY DEF StartTake, IInv, TypeOK
<1>2. CASE session = 0
  <2>1. start'.pc = "open" /\ UNCHANGED <<session, tear>>
    BY <1>1, <1>2 DEF StartTake, Starts
  <2>2. WritersAreCurrent'
    BY <1>1, <2>1, WritersStay DEF RoomInv
  <2> QED BY <1>1, <2>1, <2>2, DutiesPass DEF RoomInv, OwesLevels, OwesMutes, speakerVars, memberVars
<1>3. CASE session # 0
  <2>1. start'.pc = "tear" /\ start'.fresh = start.fresh /\ session' = 0 /\ TearDown(session)
    BY <1>1, <1>3 DEF StartTake, Starts
  <2> QED BY <1>1, <1>3, <2>1, TakenRoom
<1> QED BY <1>2, <1>3

LEMMA OpenRoom ==
  ASSUME SessionConstants, IInv, IInv', RoomInv, ~Crossing', StartOpen
  PROVE  RoomInv'
<1> USE DEF StartAt, holdVars, speakerVars, memberVars
<1>1. /\ start.pc = "open" /\ start'.pc = "reserve" /\ lastHold' = lastHold + 1
      /\ UNCHANGED <<relayMutes, disturbed, saved, left, session, pass, tear>>
      /\ held' = [held EXCEPT ![lastHold'] = start.want]
  BY DEF StartOpen, IInv, TypeOK, Starts
<1>2. WritersAreCurrent'
  BY <1>1, WritersStay DEF RoomInv
<1>3. \A h \in Holds : OwesMutes(h) => h # lastHold + 1
  BY <1>1, SlotFacts DEF OwesMutes
<1>4. \A h \in Holds : h # lastHold + 1 => held'[h] = held[h]
  BY <1>1 DEF IInv, TypeOK
<1>5. \A h \in Holds : OwesLevels(h) => OwesMutes(h)
  BY DEF OwesLevels, OwesMutes
<1> QED BY <1>1, <1>2, <1>3, <1>4, <1>5, DutiesPass DEF RoomInv, OwesLevels, OwesMutes

\* With nothing left to restore, the levels that are saved are the user's own.
LEMMA SnapshotRoom ==
  ASSUME SessionConstants, IInv, IInv', RoomInv, ~Crossing, ~Crossing', StartSnapshot
  PROVE  RoomInv'
<1> USE DEF StartAt, holdVars
<1>1. /\ start.pc = "snapshot" /\ start'.pc = "mutes" /\ start'.fresh = start.fresh
      /\ start.fresh /\ Forming
      /\ UNCHANGED <<held, relayMutes, disturbed, left, session, pass, tear>>
      /\ saved' = [saved EXCEPT ![start.hold] = disturbed \cap start.want]
  BY DEF StartSnapshot, IInv, TypeOK, Starts, StartShape, Forming
<1>2. \A h \in Holds : ~OwesLevels(h)
  BY <1>1, SlotFacts DEF OwesLevels, Crossing
<1>3. disturbed \subseteq left
  BY <1>2 DEF RoomInv, LevelsAreOwed
<1>4. SavedAreLeft'
  BY <1>1, <1>3 DEF RoomInv, SavedAreLeft, IInv, TypeOK
<1>5. WritersAreCurrent'
  BY <1>1, WritersStay DEF RoomInv
<1>6. MutesAreOwed'
  BY <1>1 DEF RoomInv, MutesAreOwed, OwesMutes
<1>7. LevelsAreOwed'
  BY <1>1, <1>3 DEF LevelsAreOwed
<1> QED BY <1>4, <1>5, <1>6, <1>7 DEF RoomInv

-----------------------------------------------------------------------------
(* Those who write to the speakers. *)

\* A relay batch mutes members of a hold that owes the room their mutes.
LEMMA BatchOwed ==
  ASSUME NEW h \in Holds, NEW on, SetRelayMutes(h, on), UNCHANGED held, MutesAreOwed,
         OwesMutes(h)', \A g \in Holds : OwesMutes(g) => OwesMutes(g)'
  PROVE  MutesAreOwed'
BY DEF SetRelayMutes, MutesAreOwed

LEMMA WritesOwed ==
  ASSUME NEW h \in Holds, WriteLevels(h), UNCHANGED <<held, left>>, LevelsAreOwed,
         OwesLevels(h)', \A g \in Holds : OwesLevels(g) => OwesLevels(g)'
  PROVE  LevelsAreOwed' /\ relayMutes' \subseteq relayMutes
<1>1. disturbed' \subseteq disturbed \cup held[h] /\ relayMutes' \subseteq relayMutes
  BY DEF WriteLevels
<1> QED BY <1>1 DEF LevelsAreOwed

LEMMA StartWritesRoom ==
  ASSUME SessionConstants, IInv, IInv', RoomInv, ~Crossing', StartMutes \/ StartLevels
  PROVE  RoomInv'
<1> USE DEF StartAt, StartGoes, holdVars
<1>1. /\ start \in Starts /\ start.pc \in {"mutes", "levels"} /\ start.hold \in Holds
      /\ UNCHANGED <<held, saved, left, session, pass, tear>>
  BY DEF StartMutes, StartLevels, IInv, TypeOK, StartShape, memberVars
<1>2. start.fresh => Forming
  BY <1>1 DEF Forming
<1>3. ~start.fresh => start.hold = session
  BY <1>1 DEF RoomInv, WritersAreCurrent
<1>4. CASE StartMutes
  <2>1. /\ start.pc = "mutes" /\ SetRelayMutes(start.hold, start.on) /\ UNCHANGED disturbed
        /\ start'.pc = "levels" /\ start'.fresh = start.fresh /\ start'.hold = start.hold
    BY <1>1, <1>4 DEF StartMutes, Starts
  <2>2. WritersAreCurrent'
    BY <1>1, <2>1 DEF RoomInv, WritersAreCurrent
  <2>3. OwesMutes(start.hold)' /\ \A g \in Holds : OwesMutes(g) => OwesMutes(g)'
    BY <1>1, <1>3, <2>1 DEF OwesMutes
  <2>4. MutesAreOwed'
    BY <1>1, <2>1, <2>3, BatchOwed DEF RoomInv
  <2>5. LevelsAreOwed' /\ SavedAreLeft'
    BY <1>1, <2>1 DEF RoomInv, LevelsAreOwed, OwesLevels, SavedAreLeft
  <2> QED BY <2>2, <2>4, <2>5 DEF RoomInv
<1>5. CASE StartLevels
  <2>1. /\ start.pc = "levels" /\ WriteLevels(start.hold)
        /\ start.fresh => start'.pc = "publish" /\ start'.fresh /\ start'.hold = start.hold
        /\ ~start.fresh => start'.pc = "idle"
    BY <1>1, <1>5 DEF StartLevels, Starts, IdleStart
  <2>2. WritersAreCurrent'
    BY <1>1, <2>1 DEF RoomInv, WritersAreCurrent
  <2> PICK h \in Holds : h = start.hold
    BY <1>1
  <2>3. OwesLevels(h)' /\ \A g \in Holds : OwesLevels(g) => OwesLevels(g)'
    BY <1>1, <1>3, <2>1 DEF OwesLevels
  <2>4. LevelsAreOwed' /\ relayMutes' \subseteq relayMutes
    BY <1>1, <2>1, <2>3, WritesOwed DEF RoomInv
  <2>5. MutesAreOwed' /\ SavedAreLeft'
    BY <1>1, <2>1, <2>4 DEF RoomInv, MutesAreOwed, OwesMutes, SavedAreLeft
  <2> QED BY <2>2, <2>4, <2>5 DEF RoomInv
<1> QED BY <1>4, <1>5

LEMMA PassRoom ==
  ASSUME SessionConstants, IInv, IInv', RoomInv, ~Crossing', NEW p \in Passes,
         PassBegin(p) \/ PassMutes(p) \/ PassLevels(p) \/ PassDropped(p)
  PROVE  RoomInv'
<1> USE DEF holdVars, speakerVars, memberVars
<1>1. /\ UNCHANGED <<held, saved, left, session, start, tear>>
      /\ \A q \in Passes \ {p} : pass'[q] = pass[q]
      /\ pass'[p].pc # "idle" => pass'[p].hold = session
      /\ PassMutes(p) \/ PassLevels(p) => pass[p].hold = session /\ session \in Holds
  <2>1. pass \in [Passes -> [pc : PassPcs, hold : 0..MaxHolds, on : SUBSET Outputs]]
    BY DEF IInv, TypeOK
  <2>2. \A q \in Passes \ {p} : pass'[q] = pass[q]
    BY <2>1 DEF PassBegin, PassMutes, PassLevels, PassDropped
  <2>3. pass'[p].pc # "idle" => pass'[p].hold = session
    BY <2>1 DEF PassBegin, PassMutes, PassLevels, PassDropped, IdlePass, RoomInv, WritersAreCurrent
  <2>4. PassMutes(p) \/ PassLevels(p) => pass[p].hold = session /\ session \in Holds
    BY <2>1, SlotFacts DEF PassMutes, PassLevels, RoomInv, WritersAreCurrent
  <2> QED BY <2>2, <2>3, <2>4 DEF PassBegin, PassMutes, PassLevels, PassDropped
<1>2. WritersAreCurrent'
  BY <1>1 DEF RoomInv, WritersAreCurrent
<1>3. \A h \in Holds : OwesLevels(h)' = OwesLevels(h) /\ OwesMutes(h)' = OwesMutes(h)
  BY <1>1 DEF OwesLevels, OwesMutes, StartAt
<1>4. CASE PassMutes(p)
  <2>1. SetRelayMutes(session, pass[p].on) /\ UNCHANGED disturbed
    BY <1>1, <1>4 DEF PassMutes
  <2>2. OwesMutes(session)
    BY DEF OwesMutes
  <2>3. MutesAreOwed'
    BY <1>1, <1>3, <1>4, <2>1, <2>2, BatchOwed DEF RoomInv
  <2> QED BY <1>1, <1>2, <1>3, <2>1, <2>3 DEF RoomInv, LevelsAreOwed, SavedAreLeft
<1>5. CASE PassLevels(p)
  <2>1. WriteLevels(session)
    BY <1>1, <1>5 DEF PassLevels
  <2>2. OwesLevels(session)
    BY DEF OwesLevels
  <2>3. LevelsAreOwed' /\ relayMutes' \subseteq relayMutes
    BY <1>1, <1>3, <1>5, <2>1, <2>2, WritesOwed DEF RoomInv
  <2> QED BY <1>1, <1>2, <1>3, <2>1, <2>3 DEF RoomInv, MutesAreOwed, SavedAreLeft
<1>6. CASE PassBegin(p) \/ PassDropped(p)
  BY <1>1, <1>2, <1>3, <1>6, DutiesPass DEF PassBegin, PassDropped, RoomInv
<1> QED BY <1>4, <1>5, <1>6

-----------------------------------------------------------------------------
(* The end of a session. *)

LEMMA PublishRoom ==
  ASSUME SessionConstants, IInv, IInv', RoomInv, ~Crossing', StartPublish
  PROVE  RoomInv'
<1> USE DEF StartAt, StartGoes, holdVars
<1>1. /\ start.pc = "publish" /\ start.fresh /\ Forming /\ start \in Starts
      /\ UNCHANGED <<held, speakerVars, pass>>
  BY DEF StartPublish, IInv, TypeOK, StartShape, Forming
<1>2. start.hold \in Holds /\ session = 0
  BY <1>1, SlotFacts
<1>3. \A h \in Holds : OwesLevels(h) => h = start.hold \/ tear[h] = "restore"
  BY <1>2, SlotFacts DEF OwesLevels
<1>4. \A h \in Holds : OwesMutes(h) => h = start.hold \/ tear[h] \in {"restore", "unmute"}
  BY <1>2, SlotFacts DEF OwesMutes
<1>5. CASE start.current
  <2>1. session' = start.hold /\ start'.pc = "idle" /\ UNCHANGED tear
    BY <1>5 DEF StartPublish, IdleStart
  <2>2. WritersAreCurrent'
    BY <1>1, <1>2, <2>1, WritersStay DEF RoomInv
  <2>3. \A h \in Holds : (OwesLevels(h) => OwesLevels(h)') /\ (OwesMutes(h) => OwesMutes(h)')
    BY <1>3, <1>4, <2>1 DEF OwesLevels, OwesMutes
  <2> QED BY <1>1, <2>2, <2>3, DutiesPass DEF RoomInv, speakerVars, memberVars
<1>6. CASE ~start.current
  <2>1. /\ start'.pc = "release" /\ UNCHANGED session
        /\ tear' = [tear EXCEPT ![start.hold] = "restore"]
    BY <1>1, <1>6 DEF StartPublish, TearDown, Starts
  <2>2. WritersAreCurrent'
    BY <1>1, <1>2, <2>1, WritersStay DEF RoomInv
  <2>3. \A h \in Holds : (OwesLevels(h) => OwesLevels(h)') /\ (OwesMutes(h) => OwesMutes(h)')
    BY <1>2, <1>3, <1>4, <2>1 DEF OwesLevels, OwesMutes, IInv, TypeOK
  <2> QED BY <1>1, <2>2, <2>3, DutiesPass DEF RoomInv, speakerVars, memberVars
<1> QED BY <1>5, <1>6

LEMMA StopRoom ==
  ASSUME SessionConstants, IInv, IInv', RoomInv, ~Crossing', StopBump \/ StopTake \/ WatchdogTake
  PROVE  RoomInv'
<1> USE DEF holdVars
<1>1. /\ start'.pc = start.pc /\ start'.fresh = start.fresh /\ start'.hold = start.hold
      /\ UNCHANGED <<held, speakerVars, pass>>
  BY DEF StopBump, StopTake, WatchdogTake, IInv, TypeOK, Starts
<1>2. CASE session # 0 /\ (StopTake \/ WatchdogTake)
  BY <1>1, <1>2, TakenRoom DEF StopTake, WatchdogTake
<1>3. CASE StopBump \/ (session = 0 /\ StopTake)
  <2>1. UNCHANGED <<session, tear>>
    BY <1>3 DEF StopBump, StopTake
  <2>2. WritersAreCurrent'
    BY <1>1, <2>1, WritersStay DEF RoomInv
  <2> QED BY <1>1, <2>1, <2>2, DutiesPass DEF RoomInv, OwesLevels, OwesMutes, StartAt, speakerVars, memberVars
<1> QED BY <1>2, <1>3 DEF WatchdogTake

\* A teardown that goes on from one stage to another, its duty at that stage done.
LEMMA TearRoom ==
  ASSUME SessionConstants, IInv, IInv', RoomInv, ~Crossing', NEW h \in Holds,
         NEW stage \in TearPcs \ {"none"}, tear' = [tear EXCEPT ![h] = stage],
         start'.pc = start.pc /\ start'.fresh = start.fresh /\ start'.hold = start.hold,
         tear[h] # "none", UNCHANGED <<held, session, pass>>,
         \A g \in Holds : saved'[g] \subseteq saved[g], left \subseteq left',
         disturbed' \subseteq disturbed \cup left, relayMutes' \subseteq relayMutes,
         tear[h] = "restore" => disturbed' \cap held[h] \subseteq left',
         tear[h] \in {"restore", "unmute"} /\ stage # "unmute" => relayMutes' \cap held[h] = {}
  PROVE  RoomInv'
<1>1. /\ \A g \in Holds \ {h} : tear'[g] = tear[g]
      /\ tear'[h] = stage /\ h # session
      /\ Forming => h # start.hold
  BY SlotFacts DEF IInv, TypeOK
<1>2. WritersAreCurrent'
  BY WritersStay DEF RoomInv
<1>3. start.fresh /\ start.pc \in {"levels", "publish"} => Forming
  BY DEF Forming
<1>4. \A g \in Holds \ {h} : (OwesLevels(g) => OwesLevels(g)') /\ (OwesMutes(g) => OwesMutes(g)')
  BY <1>1 DEF OwesLevels, OwesMutes, StartAt
<1>5. OwesLevels(h) => disturbed' \cap held[h] \subseteq left'
  BY <1>1, <1>3 DEF OwesLevels, StartAt
<1>6. OwesMutes(h) => OwesMutes(h)' \/ relayMutes' \cap held[h] = {}
  BY <1>1, <1>3 DEF OwesMutes
<1>7. LevelsAreOwed'
  BY <1>4, <1>5 DEF RoomInv, LevelsAreOwed
<1>8. MutesAreOwed'
  BY <1>4, <1>6 DEF RoomInv, MutesAreOwed
<1> QED BY <1>2, <1>7, <1>8 DEF RoomInv, SavedAreLeft

LEMMA TearStepRoom ==
  ASSUME SessionConstants, IInv, IInv', RoomInv, ~Crossing', NEW h \in Holds, TearStep(h) \/ TearDropped(h)
  PROVE  RoomInv'
<1> USE DEF TearGoes, TearPcs, holdVars, speakerVars, memberVars
<1>1. CASE TearRestore(h)
  <2>1. PICK missed \in SUBSET held[h] : Restore(h, unknown[h] \cup missed)
    BY <1>1 DEF TearRestore
  <2>2. saved[h] \subseteq left
    BY DEF RoomInv, SavedAreLeft
  <2>3. /\ left \subseteq left' /\ disturbed' \subseteq disturbed \cup left
        /\ disturbed' \cap held[h] \subseteq left'
    BY <2>1, <2>2 DEF Restore
  <2>4. \A g \in Holds : saved'[g] \subseteq saved[g]
    BY <1>1 DEF TearRestore, ForgetSnapshot, IInv, TypeOK
  <2> QED BY <1>1, <2>3, <2>4, TearRoom DEF TearRestore
<1>2. CASE TearUnmute(h)
  BY <1>2, TearRoom DEF TearUnmute
<1>3. CASE TearOverride(h)
  BY <1>3, TearRoom DEF TearOverride
<1>4. CASE TearReservation(h)
  BY <1>4, TearRoom DEF TearReservation
<1>5. CASE TearRegistry(h)
  BY <1>5, TearRoom DEF TearRegistry
<1>6. CASE TearDropped(h)
  BY <1>6, TearRoom DEF TearDropped
<1> QED BY <1>1, <1>2, <1>3, <1>4, <1>5, <1>6 DEF TearStep

-----------------------------------------------------------------------------
(* Requests that are dropped. *)

\* What is dropped owes no levels, or the step is one that crosses.
LEMMA DropHoldRoom ==
  ASSUME SessionConstants, IInv, RoomInv, NEW h \in Holds, DropHold(h), ~Dropping(h),
         tear[h] \in {"none", "restore"}, h # session, UNCHANGED session,
         \A g \in Holds \ {h} : (OwesLevels(g) => OwesLevels(g)') /\ (OwesMutes(g) => OwesMutes(g)')
  PROVE  LevelsAreOwed' /\ MutesAreOwed' /\ SavedAreLeft'
<1>1. /\ tear'[h] = "dropped" /\ UNCHANGED <<held, disturbed, left>>
      /\ \A g \in Holds : saved'[g] \subseteq saved[g]
      /\ relayMutes' = relayMutes \ held[h]
  BY DEF DropHold, ForgetSnapshot, TearGoes, IInv, TypeOK
<1>2. disturbed \cap held[h] = {}
  BY <1>1 DEF Dropping
<1> QED BY <1>1, <1>2 DEF RoomInv, LevelsAreOwed, MutesAreOwed, SavedAreLeft

LEMMA DropTeardownRoom ==
  ASSUME SessionConstants, IInv, IInv', RoomInv, ~Crossing', NEW h \in Holds, DropTeardown(h), ~Dropping(h),
         start' = start \/ (start' = IdleStart /\ start.pc \in {"tear", "release"}),
         UNCHANGED <<session, pass>>
  PROVE  RoomInv'
<1>1. \A g \in Holds \ {h} : tear'[g] = tear[g]
  BY DEF DropTeardown, DropHold, TearGoes, IInv, TypeOK
<1>2. \A g \in Holds \ {h} : (OwesLevels(g) => OwesLevels(g)') /\ (OwesMutes(g) => OwesMutes(g)')
  BY <1>1 DEF OwesLevels, OwesMutes, StartAt
<1>3. WritersAreCurrent'
  BY WritersStay DEF RoomInv, IdleStart
<1>4. CASE tear[h] = "restore" /\ DropHold(h)
  <2>1. h # session
    BY <1>4, SlotFacts
  <2> QED BY <1>2, <1>3, <1>4, <2>1, DropHoldRoom DEF RoomInv
<1>5. CASE tear[h] = "override" /\ TearGoes(h, "done") /\ UNCHANGED <<holdVars, speakerVars>>
  <2>1. h # session /\ ~(start.fresh /\ start.pc \in {"levels", "publish"} /\ h = start.hold)
    BY <1>5, SlotFacts DEF Forming
  <2>2. ~OwesLevels(h) /\ ~OwesMutes(h)
    BY <1>5, <2>1 DEF OwesLevels, OwesMutes, StartAt
  <2> QED BY <1>2, <1>3, <1>5, <2>2, DutiesPass DEF RoomInv, holdVars, speakerVars, memberVars
<1> QED BY <1>4, <1>5 DEF DropTeardown

LEMMA StartDroppedRoom ==
  ASSUME SessionConstants, IInv, IInv', RoomInv, ~Crossing', StartDropped, \A h \in Holds : ~Dropping(h)
  PROVE  RoomInv'
<1>1. start' = IdleStart /\ start'.pc = "idle" /\ UNCHANGED <<session, pass>>
  BY DEF StartDropped, IdleStart
<1>2. WritersAreCurrent'
  BY <1>1, WritersStay DEF RoomInv
<1>3. CASE /\ \/ start.pc \in {"rescope", "take", "open", "override"}
              \/ start.pc \in {"mutes", "levels"} /\ ~start.fresh
           /\ UNCHANGED <<holdVars, speakerVars, tear>>
  BY <1>1, <1>2, <1>3, DutiesPass DEF RoomInv, OwesLevels, OwesMutes, StartAt, holdVars, speakerVars, memberVars
<1>4. CASE /\ start.pc \in {"anchor", "snapshot", "mutes", "levels", "publish"} /\ start.fresh
           /\ DropHold(start.hold)
  <2>1. Forming
    BY <1>4 DEF Forming
  <2>2. start.hold \in Holds /\ tear[start.hold] = "none" /\ start.hold # session
    BY <2>1, SlotFacts
  <2>3. \A g \in Holds \ {start.hold} :
          (OwesLevels(g) => OwesLevels(g)') /\ (OwesMutes(g) => OwesMutes(g)')
    BY <1>1, <1>4 DEF OwesLevels, OwesMutes, DropHold, TearGoes, IInv, TypeOK
  <2> QED BY <1>1, <1>2, <1>4, <2>2, <2>3, DropHoldRoom DEF RoomInv
<1>5. CASE start.pc \in {"tear", "release"} /\ DropTeardown(start.hold)
  <2>1. start.hold \in Holds
    BY <1>5, SlotFacts DEF IInv, StartShape, OnlyNewestInUse, TypeOK, StartAt, Holds
  <2> QED BY <1>1, <1>5, <2>1, DropTeardownRoom
<1> QED BY <1>3, <1>4, <1>5 DEF StartDropped

-----------------------------------------------------------------------------
LEMMA InitRoom ==
  ASSUME SessionConstants, RestoreInit
  PROVE  CInv
<1>1. IInv
  BY InitInvariant DEF RestoreInit
<1>2. RoomInv
  BY DEF RestoreInit, Init, RoomInv, WritersAreCurrent, LevelsAreOwed, MutesAreOwed, SavedAreLeft,
         IdleStart, IdlePass
<1>3. ~Crossing
  BY DEF RestoreInit, Init, Crossing, OutlivedBy, IdleStart, IdlePass, StartAt
<1> QED BY <1>1, <1>2, <1>3 DEF CInv, RestoreInit

LEMMA StepRoom ==
  ASSUME SessionConstants, IInv, IInv', RoomInv, ~Crossing, ~Crossing', DroppingNext,
         \A h \in Holds : ~Dropping(h)
  PROVE  RoomInv'
<1>1. ASSUME NEW want \in Selections, StartPlan(want)
      PROVE  RoomInv'
  BY <1>1, PlanRoom
<1>2. CASE StartStep
  BY <1>2, RescopeRoom, TakeRoom, QuietStartRoom, OpenRoom, SnapshotRoom, StartWritesRoom, PublishRoom
     DEF StartStep
<1>3. CASE StopBump \/ StopTake \/ WatchdogTake
  BY <1>3, StopRoom
<1>4. ASSUME NEW h \in Holds, TearStep(h) \/ TearDropped(h)
      PROVE  RoomInv'
  BY <1>4, TearStepRoom
<1>5. ASSUME NEW p \in Passes, PassBegin(p) \/ PassMutes(p) \/ PassLevels(p) \/ PassDropped(p)
      PROVE  RoomInv'
  BY <1>5, PassRoom
<1>6. CASE StartDropped
  BY <1>6, StartDroppedRoom
<1>7. ASSUME NEW h \in Holds, StopDropped(h)
      PROVE  RoomInv'
  BY <1>7, DropTeardownRoom DEF StopDropped
<1>8. CASE Next
  BY <1>1, <1>2, <1>3, <1>4, <1>5, <1>8 DEF Next
<1> QED BY <1>4, <1>5, <1>6, <1>7, <1>8 DEF DroppingNext

LEMMA NextRoom ==
  ASSUME SessionConstants, CInv, [RestoreNext]_<<vars, crossed>>
  PROVE  CInv'
<1>1. CASE RestoreNext
  <2>1. /\ DroppingNext /\ IInv /\ crossed \in BOOLEAN
        /\ crossed' = (crossed \/ Crossing' \/ \E h \in Holds : Dropping(h))
    BY <1>1 DEF RestoreNext, CInv
  <2>2. IInv'
    BY <2>1, DroppingNextPreserves
  <2>3. crossed' \in BOOLEAN
    BY <2>1
  <2>4. ASSUME ~crossed'
        PROVE  ~Crossing' /\ RoomInv'
    <3>1. ~crossed /\ ~Crossing' /\ \A h \in Holds : ~Dropping(h)
      BY <2>1, <2>4
    <3>2. ~Crossing /\ RoomInv
      BY <3>1 DEF CInv
    <3> QED BY <2>1, <2>2, <3>1, <3>2, StepRoom
  <2> QED BY <2>2, <2>3, <2>4 DEF CInv
<1>2. CASE UNCHANGED <<vars, crossed>>
  <2>1. IInv'
    BY <1>2, DroppingNextPreserves DEF CInv
  <2>2. UNCHANGED <<held, relayMutes, disturbed, saved, left, session, start, tear, pass, crossed>>
    BY <1>2 DEF vars, holdVars, speakerVars, memberVars, taskVars
  <2>3. RoomInv' = RoomInv /\ Crossing' = Crossing
    BY <2>2 DEF RoomInv, WritersAreCurrent, LevelsAreOwed, MutesAreOwed, SavedAreLeft, OwesLevels,
                OwesMutes, Crossing, OutlivedBy, StartAt
  <2> QED BY <2>1, <2>2, <2>3 DEF CInv
<1> QED BY <1>1, <1>2

(* "Every restore the run owes the room happens", on every path out of a     *)
(* session and wherever its requests are dropped, unless a writer outlived   *)
(* its session, a snapshot met an unfinished restore, or a request that had  *)
(* levels to restore was dropped: every relay mute, and the level and mute   *)
(* of every member but those whose teardown did not know what they had been  *)
(* or did not reach them.                                                    *)
THEOREM RoomIsRestored ==
  ASSUME SessionConstants
  PROVE  RestoreSpec => []RestoredUnlessCrossed
<1>1. RestoreInit => CInv
  BY InitRoom
<1>2. CInv /\ [RestoreNext]_<<vars, crossed>> => CInv'
  BY NextRoom
<1>3. ASSUME CInv, ~crossed, Quiet
      PROVE  relayMutes = {} /\ disturbed \subseteq left
  <2>1. \A h \in Holds : ~OwesLevels(h) /\ ~OwesMutes(h)
    BY <1>3, SlotFacts DEF CInv, Quiet, OwesLevels, OwesMutes, StartAt
  <2> QED BY <1>3, <2>1 DEF CInv, RoomInv, LevelsAreOwed, MutesAreOwed
<1>4. CInv => RestoredUnlessCrossed
  BY <1>3 DEF RestoredUnlessCrossed
<1> QED BY <1>1, <1>2, <1>4, PTL DEF RestoreSpec

=============================================================================
