--------------------- MODULE AnnounceCoordinator_proofs ---------------------
(***************************************************************************)
(* Proofs about announcements: scheduler, mixer and poll together, and the *)
(* loop that computes what the scheduler starts.                           *)
(***************************************************************************)
EXTENDS AnnounceCoordinator, SettleLoop, FiniteSetTheorems, TLAPS

-----------------------------------------------------------------------------
(* The coordinator *)
(***************************************************************************)
(* Proofs about the announcement coordinator, for every set of outputs,    *)
(* reservations and priorities and every bound.                            *)
(*                                                                         *)
(* The scheduler inside the coordinator is the one AnnounceScheduler_proofs*)
(* is about, so its inductive invariant comes with it as soon as every     *)
(* step of the coordinator is a step of the scheduler or leaves it alone.  *)
(* For that the ids the poll completes must be ids that were handed out,   *)
(* which is a fact about the mixer: its slots and its reports hold ids the *)
(* scheduler gave it.  The rest is one lemma about what apply() leaves in  *)
(* the mixer, and one about the clip store.                                *)
(***************************************************************************)

SP == INSTANCE AnnounceScheduler_proofs

-----------------------------------------------------------------------------
(* Slots and reports hold ids that announce() has handed out.                *)
Known(id, n) == id \in 1 .. (n - 1)

KnownIds ==
  /\ nextId <= MaxAnnouncements + 1
  /\ \A o \in Outputs : Has(o) => Known(slots[o].id, nextId)
  /\ \A d \in Reports : Known(d[2], nextId)

IInv ==
  /\ Sched!IInv
  /\ TypeOK
  /\ KnownIds
  /\ SlotBelongsToOccupant
  /\ NoClipLeak

(* Without barge-ins a clip that has played never waits again, so the report *)
(* of its end cannot be mistaken for that of a clip still in the queue.      *)
ReportedHavePlayed == \A e \in queue : ~Reported(e.id)

SeenAreOver == \A id \in seen : Known(id, nextId) /\ id \notin Ids(Sched!InFlight)

HasTargets == \A e \in Sched!InFlight : e.targets # {}

OrdinaryInv ==
  /\ IInv
  /\ ClipKept
  /\ ReportedHavePlayed
  /\ SeenAreOver
  /\ HasTargets
  /\ OccupiedHasEnd

-----------------------------------------------------------------------------
(* The proofs of the scheduler are about the same definitions.               *)
LEMMA SameInv == SP!IInv <=> Sched!IInv
BY DEF SP!IInv, Sched!IInv, SP!TypeOK, Sched!TypeOK, SP!ArrivalsAreNew, Sched!ArrivalsAreNew,
       SP!OnePlacePerId, Sched!OnePlacePerId, SP!ExclusiveOccupancy, Sched!ExclusiveOccupancy,
       SP!QueuedIsBlocked, Sched!QueuedIsBlocked, SP!Entry, Sched!Entry,
       SP!InFlight, Sched!InFlight, SP!Conflict, Sched!Conflict, SP!Busy, Sched!Busy,
       SP!Occupied, Sched!Occupied, SP!Reserved, Sched!Reserved

LEMMA SameInvNext == SP!IInv' <=> Sched!IInv'
BY DEF SP!IInv, Sched!IInv, SP!TypeOK, Sched!TypeOK, SP!ArrivalsAreNew, Sched!ArrivalsAreNew,
       SP!OnePlacePerId, Sched!OnePlacePerId, SP!ExclusiveOccupancy, Sched!ExclusiveOccupancy,
       SP!QueuedIsBlocked, Sched!QueuedIsBlocked, SP!Entry, Sched!Entry,
       SP!InFlight, Sched!InFlight, SP!Conflict, Sched!Conflict, SP!Busy, Sched!Busy,
       SP!Occupied, Sched!Occupied, SP!Reserved, Sched!Reserved

LEMMA SameSettle ==
  ASSUME NEW A, NEW Q, NEW R
  PROVE  SP!Settle(A, Q, R) <=> Sched!Settle(A, Q, R)
BY DEF SP!Settle, Sched!Settle, SP!IsSweep, Sched!IsSweep, SP!Expired, Sched!Expired,
       SP!Busy, Sched!Busy, SP!Occupied, Sched!Occupied, SP!Reserved, Sched!Reserved,
       SP!Before, Sched!Before, SP!Conflict, Sched!Conflict

LEMMA SameBegin ==
  ASSUME NEW req
  PROVE  SP!Begin(req) <=> Sched!Begin(req)
<1>1. SP!NewEntry(req) = Sched!NewEntry(req)
  BY DEF SP!NewEntry, Sched!NewEntry, SP!Deadline, Sched!Deadline
<1>2. SP!Overlaps(req) <=> Sched!Overlaps(req)
  BY DEF SP!Overlaps, Sched!Overlaps, SP!Busy, Sched!Busy, SP!Occupied, Sched!Occupied,
         SP!Reserved, Sched!Reserved
<1>3. /\ SP!Victims(req) = Sched!Victims(req)
      /\ {e \in SP!Victims(req) : ~SP!Expired(e)} = {e \in Sched!Victims(req) : ~Sched!Expired(e)}
  BY DEF SP!Victims, Sched!Victims, SP!Expired, Sched!Expired
<1>4. SP!BeginFree(req) <=> Sched!BeginFree(req)
  BY <1>1, <1>2, SameSettle DEF SP!BeginFree, Sched!BeginFree, SP!Admitted, Sched!Admitted
<1>5. SP!BeginBargeIn(req) <=> Sched!BeginBargeIn(req)
  BY <1>1, <1>2, <1>3, SameSettle
     DEF SP!BeginBargeIn, Sched!BeginBargeIn, SP!Admitted, Sched!Admitted
<1>6. SP!BeginQueue(req) <=> Sched!BeginQueue(req)
  BY <1>1, <1>2, SameSettle
     DEF SP!BeginQueue, Sched!BeginQueue, SP!Admitted, Sched!Admitted, SP!QueueFull, Sched!QueueFull,
         SP!Cardinality, Sched!Cardinality
<1>7. SP!BeginReject(req) <=> Sched!BeginReject(req)
  BY <1>2, SameSettle DEF SP!BeginReject, Sched!BeginReject, SP!QueueFull, Sched!QueueFull,
         SP!Cardinality, Sched!Cardinality
<1> QED BY <1>4, <1>5, <1>6, <1>7 DEF SP!Begin, Sched!Begin

LEMMA SameNext == ASSUME [Sched!Next]_Sched!schedVars PROVE [SP!Next]_SP!schedVars
<1>1. CASE \E req \in Sched!Request : Sched!Begin(req)
  <2>1. \E req \in SP!Request : SP!Begin(req)
    BY <1>1, SameBegin DEF SP!Request, Sched!Request
  <2> QED BY <2>1 DEF SP!Next
<1>2. CASE \E id \in 1..MaxAnnouncements : Sched!Complete(id)
  <2>1. \E id \in 1..MaxAnnouncements : SP!Complete(id)
    BY <1>2, SameSettle DEF SP!Complete, Sched!Complete
  <2> QED BY <2>1 DEF SP!Next
<1>3. CASE Sched!Tick
  <2>1. SP!Tick
    BY <1>3, SameSettle DEF SP!Tick, Sched!Tick
  <2> QED BY <2>1 DEF SP!Next
<1>4. CASE \E r \in Reservations, outs \in (SUBSET Outputs) \ {{}} :
             reservations[r] = {} /\ Sched!Reserve(r, outs)
  <2>1. \E r \in Reservations, outs \in (SUBSET Outputs) \ {{}} :
          reservations[r] = {} /\ SP!Reserve(r, outs)
    BY <1>4 DEF SP!Reserve, Sched!Reserve
  <2> QED BY <2>1 DEF SP!Next
<1>5. CASE \E r \in Reservations : Sched!ReleaseReservation(r)
  <2>1. \E r \in Reservations : SP!ReleaseReservation(r)
    BY <1>5, SameSettle DEF SP!ReleaseReservation, Sched!ReleaseReservation
  <2> QED BY <2>1 DEF SP!Next
<1>6. CASE Sched!AdvanceTime
  <2>1. SP!AdvanceTime
    BY <1>6 DEF SP!AdvanceTime, Sched!AdvanceTime
  <2> QED BY <2>1 DEF SP!Next
<1>7. CASE UNCHANGED Sched!schedVars
  BY <1>7 DEF SP!schedVars, Sched!schedVars
<1> QED BY <1>1, <1>2, <1>3, <1>4, <1>5, <1>6, <1>7 DEF Sched!Next

(* What the scheduler's proofs establish of one of its steps.                *)
LEMMA SchedulerStep ==
  ASSUME Sched!IInv, [Sched!Next]_Sched!schedVars
  PROVE  Sched!IInv'
BY SP!NextIInv, SameInv, SameInvNext, SameNext, CoordinatorConstants
   DEF Sched!SchedulerConstants, SP!SchedulerConstants

-----------------------------------------------------------------------------
(* Sequences of reports.                                                     *)
LEMMA RangeOfAppend ==
  ASSUME NEW T, NEW s \in Seq(T), NEW x \in T
  PROVE  Append(s, x) \in Seq(T) /\ Range(Append(s, x)) = Range(s) \cup {x}
<1>1. /\ Append(s, x) \in Seq(T)
      /\ DOMAIN Append(s, x) = 1 .. (Len(s) + 1)
      /\ DOMAIN s = 1 .. Len(s)
      /\ Len(s) \in Nat
      /\ \A i \in 1 .. Len(s) : Append(s, x)[i] = s[i]
      /\ Append(s, x)[Len(s) + 1] = x
  OBVIOUS
<1>2. 1 .. (Len(s) + 1) = (1 .. Len(s)) \cup {Len(s) + 1}
  BY <1>1
<1> QED BY <1>1, <1>2 DEF Range

LEMMA RangeOfConcat ==
  ASSUME NEW T, NEW s \in Seq(T), NEW t \in Seq(T)
  PROVE  s \o t \in Seq(T) /\ Range(s \o t) = Range(s) \cup Range(t)
<1>1. /\ s \o t \in Seq(T)
      /\ DOMAIN (s \o t) = 1 .. (Len(s) + Len(t))
      /\ DOMAIN s = 1 .. Len(s)
      /\ DOMAIN t = 1 .. Len(t)
      /\ Len(s) \in Nat
      /\ Len(t) \in Nat
      /\ \A i \in 1 .. (Len(s) + Len(t)) :
           (s \o t)[i] = IF i <= Len(s) THEN s[i] ELSE t[i - Len(s)]
  OBVIOUS
<1>2. ASSUME NEW y \in Range(t) PROVE y \in Range(s \o t)
  <2>1. PICK j \in 1 .. Len(t) : y = t[j]
    BY <1>1 DEF Range
  <2>2. Len(s) + j \in 1 .. (Len(s) + Len(t)) /\ ~(Len(s) + j <= Len(s)) /\ (Len(s) + j) - Len(s) = j
    BY <1>1, <2>1
  <2>3. y = (s \o t)[Len(s) + j]
    BY <1>1, <2>1, <2>2
  <2> QED BY <1>1, <2>2, <2>3 DEF Range
<1>3. Range(s) \subseteq Range(s \o t)
  BY <1>1 DEF Range
<1>4. ASSUME NEW y \in Range(s \o t) PROVE y \in Range(s) \cup Range(t)
  <2>1. PICK j \in 1 .. (Len(s) + Len(t)) : y = (s \o t)[j]
    BY <1>1 DEF Range
  <2>2. CASE j <= Len(s)
    BY <1>1, <2>1, <2>2 DEF Range
  <2>3. CASE ~(j <= Len(s))
    <3>1. j - Len(s) \in 1 .. Len(t)
      BY <1>1, <2>1, <2>3
    <3> QED BY <1>1, <2>1, <2>3, <3>1 DEF Range
  <2> QED BY <2>2, <2>3
<1> QED BY <1>1, <1>2, <1>3, <1>4

LEMMA RangeOfTail ==
  ASSUME NEW T, NEW s \in Seq(T), s # <<>>
  PROVE  /\ Tail(s) \in Seq(T)
         /\ Head(s) \in T
         /\ Range(s) = Range(Tail(s)) \cup {Head(s)}
<1>1. /\ Tail(s) \in Seq(T)
      /\ DOMAIN Tail(s) = 1 .. (Len(s) - 1)
      /\ DOMAIN s = 1 .. Len(s)
      /\ Len(s) \in Nat \ {0}
      /\ Head(s) = s[1]
      /\ s[1] \in T
      /\ \A i \in 1 .. (Len(s) - 1) : Tail(s)[i] = s[i + 1]
  OBVIOUS
<1>2. ASSUME NEW y \in Range(s), y # s[1] PROVE y \in Range(Tail(s))
  <2>1. PICK j \in 1 .. Len(s) : y = s[j]
    BY <1>1 DEF Range
  <2>2. j - 1 \in 1 .. (Len(s) - 1) /\ (j - 1) + 1 = j
    BY <1>1, <1>2, <2>1
  <2>3. y = Tail(s)[j - 1]
    BY <1>1, <2>1, <2>2
  <2> QED BY <1>1, <2>2, <2>3 DEF Range
<1>3. ASSUME NEW y \in Range(Tail(s)) PROVE y \in Range(s)
  <2>1. PICK j \in 1 .. (Len(s) - 1) : y = Tail(s)[j]
    BY <1>1 DEF Range
  <2>2. j + 1 \in 1 .. Len(s) /\ y = s[j + 1]
    BY <1>1, <2>1
  <2> QED BY <1>1, <2>2 DEF Range
<1>4. s[1] \in Range(s)
  BY <1>1 DEF Range
<1> QED BY <1>1, <1>2, <1>3, <1>4

(* Whatever order the watchdog's reports come in, none is missing.           *)
LEMMA RangeOfSetToSeqs ==
  ASSUME NEW S, IsFiniteSet(S), NEW s \in SetToSeqs(S)
  PROVE  s \in Seq(S) /\ Range(s) = S
<1> DEFINE n == Cardinality(S)
<1>1. n \in Nat
  BY FS_CardinalityType
<1>2. s \in [1 .. n -> S] /\ \A i, j \in 1 .. n : i # j => s[i] # s[j]
  BY DEF SetToSeqs
<1>3. s \in Injection(1 .. n, S)
  BY <1>2 DEF Injection, IsInjective
<1>4. Cardinality(1 .. n) = n
  BY <1>1, FS_Interval
<1>5. s \in Surjection(1 .. n, S)
  BY <1>3, <1>4, FS_Injection
<1>6. Range(s) = S
  BY <1>2, <1>5 DEF Surjection, Range
<1>7. s \in Seq(S)
  BY <1>1, <1>2
<1> QED BY <1>6, <1>7

-----------------------------------------------------------------------------
(* Occupancy, for any set A of entries that are distinct and disjoint.       *)
LEMMA OccupantIsEntry ==
  ASSUME NEW A, NEW o
  PROVE  \/ Sched!OccupantIn(A, o) = 0 /\ \A e \in A : o \notin e.targets
         \/ \E e \in A : o \in e.targets /\ Sched!OccupantIn(A, o) = e.id
BY DEF Sched!OccupantIn, Sched!Free

LEMMA OccupantOfTarget ==
  ASSUME NEW A, NEW e \in A, NEW o \in e.targets,
         \A f, g \in A : f # g => ~Sched!Conflict(f, g)
  PROVE  Sched!OccupantIn(A, o) = e.id
<1>1. PICK f \in A : o \in f.targets /\ Sched!OccupantIn(A, o) = f.id
  BY OccupantIsEntry
<1>2. f = e
  BY <1>1 DEF Sched!Conflict
<1> QED BY <1>1, <1>2

(* What the scheduler's invariant says of ids and occupants.                 *)
LEMMA OccupantKnown ==
  ASSUME Sched!IInv
  PROVE  /\ nextId \in Nat \ {0}
         /\ \A e \in Sched!InFlight : Known(e.id, nextId)
         /\ \A o \in Outputs : Sched!Occupant(o) = 0 \/ Known(Sched!Occupant(o), nextId)
<1>1. nextId \in Nat \ {0} /\ \A e \in Sched!InFlight : Known(e.id, nextId)
  BY DEF Sched!IInv, Sched!TypeOK, Sched!ArrivalsAreNew, Sched!InFlight, Sched!Entry, Known
<1>2. \A o \in Outputs : Sched!Occupant(o) = 0 \/ Known(Sched!Occupant(o), nextId)
  BY <1>1, OccupantIsEntry DEF Sched!Occupant, Sched!InFlight
<1> QED BY <1>1, <1>2

LEMMA OccupantKnownNext ==
  ASSUME Sched!IInv'
  PROVE  /\ nextId' \in Nat \ {0}
         /\ \A e \in Sched!InFlight' : Known(e.id, nextId')
         /\ \A o \in Outputs : Sched!Occupant(o)' = 0 \/ Known(Sched!Occupant(o)', nextId')
<1>1. nextId' \in Nat \ {0} /\ \A e \in Sched!InFlight' : Known(e.id, nextId')
  BY DEF Sched!IInv, Sched!TypeOK, Sched!ArrivalsAreNew, Sched!InFlight, Sched!Entry, Known
<1>2. \A o \in Outputs : Sched!Occupant(o)' = 0 \/ Known(Sched!Occupant(o)', nextId')
  BY <1>1, OccupantIsEntry DEF Sched!Occupant, Sched!InFlight
<1> QED BY <1>1, <1>2

LEMMA KnownGrows ==
  ASSUME NEW m \in Nat, NEW n \in Nat, m <= n, NEW id, Known(id, m)
  PROVE  Known(id, n)
BY DEF Known

LEMMA NewSlotType ==
  ASSUME NEW id \in Nat
  PROVE  NewSlot(id) \in Overlay /\ NewSlot(id) # NoSlot /\ NewSlot(id).id = id
<1>1. NewSlot(id) \in Overlay
  BY MixerConstants DEF NewSlot, Overlay
<1> QED BY <1>1, CoordinatorConstants DEF NewSlot

(* apply() leaves in the mixer only slots of the outputs' new occupants.     *)
LEMMA ApplyKeeps ==
  ASSUME TypeOK, KnownIds, SlotBelongsToOccupant,
         Sched!IInv, Sched!IInv', nextId <= nextId', NEW stored, ApplyToMixer(stored)
  PROVE  /\ slots' \in [Outputs -> Overlay \cup {NoSlot}]
         /\ \A o \in Outputs :
              Has(o)' => slots'[o].id = Sched!Occupant(o)' /\ Known(slots'[o].id, nextId')
<1>1. /\ slots \in [Outputs -> Overlay \cup {NoSlot}]
      /\ slots' = [o \in Outputs |-> SlotAfter(o, stored)]
  BY DEF TypeOK, ApplyToMixer
<1>2. ASSUME NEW o \in Outputs
      PROVE  /\ SlotAfter(o, stored) \in Overlay \cup {NoSlot}
             /\ SlotAfter(o, stored) # NoSlot =>
                  /\ SlotAfter(o, stored).id = Sched!Occupant(o)'
                  /\ Known(SlotAfter(o, stored).id, nextId')
  <2> DEFINE before == Sched!OccupantIn(active, o)
             after  == Sched!OccupantIn(active', o)
  <2>0. Sched!Occupant(o) = before /\ Sched!Occupant(o)' = after
    BY DEF Sched!Occupant
  <2>1. /\ nextId \in Nat /\ nextId' \in Nat
        /\ after = 0 \/ after \in 1 .. (nextId' - 1)
    BY <2>0, OccupantKnown, OccupantKnownNext DEF Known
  <2>2. /\ slots[o] \in Overlay \cup {NoSlot}
        /\ slots[o] # NoSlot => slots[o].id = before /\ Known(slots[o].id, nextId)
    BY <1>1, <2>0 DEF SlotBelongsToOccupant, KnownIds, Has
  <2>3. CASE after = before
    <3>1. SlotAfter(o, stored) = slots[o]
      BY <2>3 DEF SlotAfter
    <3>2. slots[o] # NoSlot => Known(slots[o].id, nextId')
      BY <2>1, <2>2 DEF Known
    <3> QED BY <2>0, <2>2, <2>3, <3>1, <3>2
  <2>4. CASE /\ after # before
             /\ after # Sched!Free /\ after \in stored
    <3>1. SlotAfter(o, stored) = NewSlot(after)
      BY <2>4 DEF SlotAfter
    <3>2. after \in 1 .. (nextId' - 1) /\ after \in Nat
      BY <2>1, <2>4 DEF Sched!Free, Known
    <3> QED BY <2>0, <3>1, <3>2, NewSlotType DEF Known
  <2>5. CASE /\ after # before
             /\ ~(after # Sched!Free /\ after \in stored)
             /\ before # Sched!Free
    BY <2>5 DEF SlotAfter
  <2>6. CASE /\ after # before
             /\ ~(after # Sched!Free /\ after \in stored)
             /\ before = Sched!Free
    <3>1. SlotAfter(o, stored) = slots[o]
      BY <2>6 DEF SlotAfter
    <3>2. slots[o] = NoSlot
      BY <2>1, <2>2, <2>6 DEF Known, Sched!Free
    <3> QED BY <3>1, <3>2
  <2> QED BY <2>0, <2>3, <2>4, <2>5, <2>6 DEF Known
<1> QED BY <1>1, <1>2 DEF Has

-----------------------------------------------------------------------------
(* Every step of the coordinator is one of the scheduler's, or none of them. *)
LEMMA StepRefines ==
  ASSUME IInv, [Next]_vars
  PROVE  [Sched!Next]_Sched!schedVars
<1>1. CASE \E req \in Sched!Request : Announce(req)
  BY <1>1 DEF Announce, Sched!Next
<1>2. CASE \E r \in Reservations, outs \in (SUBSET Outputs) \ {{}} : ReserveOutputs(r, outs)
  BY <1>2 DEF ReserveOutputs, Sched!Next
<1>3. CASE \E r \in Reservations : ReleaseReservation(r)
  BY <1>3 DEF ReleaseReservation, Sched!Next
<1>4. CASE \E o \in Outputs : Relay(o) \/ SenderChange(o)
  BY <1>4 DEF Relay, SenderChange, schedVars, Sched!schedVars
<1>5. CASE AdvanceTime
  BY <1>5 DEF AdvanceTime, Sched!Next
<1>6. CASE PollTake \/ PollReap \/ PollSkip
  BY <1>6 DEF PollTake, PollReap, PollSkip, schedVars, Sched!schedVars
<1>7. CASE PollComplete
  <2>1. Head(done) \in Reports
    BY <1>7, RangeOfTail DEF PollComplete, IInv, TypeOK, Reports
  <2>2. Head(done)[2] \in 1 .. MaxAnnouncements
    BY <2>1, OccupantKnown, CoordinatorConstants
       DEF IInv, KnownIds, Known, Sched!SchedulerConstants
  <2>3. Sched!Complete(Head(done)[2])
    BY <1>7 DEF PollComplete
  <2> QED BY <2>2, <2>3 DEF Sched!Next
<1>8. CASE PollTick
  BY <1>8 DEF PollTick, Sched!Next
<1>9. CASE UNCHANGED vars
  BY <1>9 DEF vars, schedVars, Sched!schedVars
<1> QED
  BY <1>1, <1>2, <1>3, <1>4, <1>5, <1>6, <1>7, <1>8, <1>9 DEF Next, Poll

(* A step that ends in apply().                                              *)
LEMMA AppliedIInv ==
  ASSUME IInv, Sched!IInv', NEW stored, ApplyToMixer(stored),
         nextId <= nextId', nextId' <= MaxAnnouncements + 1,
         clips' \subseteq Ids(Sched!InFlight)',
         pollPc' \in {"idle", "taken", "reaped", "locked"}, seen' \subseteq Nat,
         done' \in Seq(Outputs \X Nat), Range(done') \subseteq Range(done)
  PROVE  IInv'
<1>1. /\ slots' \in [Outputs -> Overlay \cup {NoSlot}]
      /\ \A o \in Outputs :
           Has(o)' => slots'[o].id = Sched!Occupant(o)' /\ Known(slots'[o].id, nextId')
  BY ApplyKeeps DEF IInv
<1>2. SlotBelongsToOccupant'
  BY <1>1 DEF SlotBelongsToOccupant
<1>3. KnownIds'
  <2>1. \A d \in Reports' : Known(d[2], nextId)
    BY DEF IInv, KnownIds, Reports, ApplyToMixer
  <2>2. nextId \in Nat /\ nextId' \in Nat
    BY OccupantKnown, OccupantKnownNext DEF IInv
  <2>3. \A d \in Reports' : Known(d[2], nextId')
    BY <2>1, <2>2 DEF Known
  <2> QED BY <1>1, <2>3 DEF KnownIds
<1>4. TypeOK'
  <2>1. Sched!TypeOK'
    BY DEF Sched!IInv
  <2>2. Ids(Sched!InFlight)' \subseteq Nat
    BY <2>1 DEF Sched!TypeOK, Sched!InFlight, Sched!Entry, Ids
  <2> QED BY <1>1, <2>1, <2>2 DEF IInv, TypeOK, ApplyToMixer
<1> QED BY <1>2, <1>3, <1>4 DEF IInv, NoClipLeak

(* A step that leaves the scheduler's entries and the clips alone.           *)
LEMMA MixerIInv ==
  ASSUME IInv, Sched!IInv', UNCHANGED <<active, queue, nextId, clips>>,
         slots' \in [Outputs -> Overlay \cup {NoSlot}],
         \A o \in Outputs : slots'[o] = NoSlot \/ (Has(o) /\ slots'[o].id = slots[o].id),
         streaming' \in [Outputs -> BOOLEAN],
         finished' \in Seq(Outputs \X Nat), done' \in Seq(Outputs \X Nat),
         \A d \in Reports' : Known(d[2], nextId),
         pollPc' \in {"idle", "taken", "reaped", "locked"}, seen' \subseteq Nat
  PROVE  IInv'
<1>1. SlotBelongsToOccupant'
  BY DEF IInv, SlotBelongsToOccupant, Has, Sched!Occupant
<1>2. KnownIds'
  BY DEF IInv, KnownIds, Has
<1>3. NoClipLeak'
  BY DEF IInv, NoClipLeak, Sched!InFlight
<1>4. TypeOK'
  BY DEF IInv, TypeOK, Sched!IInv
<1> QED BY <1>1, <1>2, <1>3, <1>4 DEF IInv

(* A relay consumes a chunk; the last one reports the clip's end.            *)
LEMMA MixIntoSlots ==
  ASSUME IInv, NEW o \in Outputs, MixInto(o)
  PROVE  /\ slots' \in [Outputs -> Overlay \cup {NoSlot}]
         /\ \A p \in Outputs : slots'[p] = NoSlot \/ (Has(p) /\ slots'[p].id = slots[p].id)
         /\ \A p \in Outputs : Has(p) => \/ slots'[p] # NoSlot
                                       \/ \E d \in Range(finished') : d[2] = slots[p].id
         /\ finished' \in Seq(Outputs \X Nat)
         /\ Range(finished) \subseteq Range(finished')
         /\ \A d \in Range(finished') : d \in Range(finished) \/ d[2] = slots[o].id
<1>1. /\ slots \in [Outputs -> Overlay \cup {NoSlot}]
      /\ finished \in Seq(Outputs \X Nat)
      /\ slots[o] # NoSlot
      /\ slots[o] \in Overlay
      /\ slots[o].id \in Nat
  BY DEF IInv, TypeOK, MixInto, Has, Overlay
<1>2. CASE slots[o].left = 1
  <2> DEFINE T == Outputs \X Nat
             end == <<o, slots[o].id>>
  <2>1. /\ slots' = [slots EXCEPT ![o] = NoSlot]
        /\ finished' = Append(finished, end)
    BY <1>2 DEF MixInto
  <2>2. end \in T /\ end[2] = slots[o].id /\ finished \in Seq(T)
    BY <1>1
  <2>3. \A p \in Outputs : slots'[p] = IF p = o THEN NoSlot ELSE slots[p]
    BY <1>1, <2>1
  <2>4. slots' \in [Outputs -> Overlay \cup {NoSlot}]
    BY <1>1, <2>1
  <2> HIDE DEF T, end
  <2>5. finished' \in Seq(T) /\ Range(finished') = Range(finished) \cup {end}
    BY <2>1, <2>2, RangeOfAppend
  <2>6. finished' \in Seq(Outputs \X Nat)
    BY <2>5 DEF T
  <2>7. ASSUME NEW p \in Outputs
        PROVE  slots'[p] = NoSlot \/ (Has(p) /\ slots'[p].id = slots[p].id)
    <3>1. CASE p = o
      BY <2>3, <3>1 DEF Has
    <3>2. CASE p # o
      <4>1. slots'[p] = slots[p]
        BY <2>3, <3>2
      <4> QED BY <4>1 DEF Has
    <3> QED BY <3>1, <3>2
  <2>8. \A p \in Outputs : Has(p) => \/ slots'[p] # NoSlot
                                     \/ \E d \in Range(finished') : d[2] = slots[p].id
    BY <2>2, <2>3, <2>5 DEF Has
  <2> QED BY <2>2, <2>4, <2>5, <2>6, <2>7, <2>8
<1>3. CASE slots[o].left # 1
  <2> DEFINE rest == [slots[o] EXCEPT !.left = @ - 1, !.moved = TRUE]
  <2>1. /\ slots' = [slots EXCEPT ![o].left = @ - 1, ![o].moved = TRUE]
        /\ finished' = finished
    BY <1>3 DEF MixInto
  <2>2. slots' = [slots EXCEPT ![o] = rest]
    BY <1>1, <2>1
  <2>3. rest \in Overlay /\ rest.id = slots[o].id
    <3>1. /\ slots[o].left \in 1 .. ClipChunks /\ slots[o].stall \in 0 .. Grace
      BY <1>1 DEF Overlay
    <3>2. slots[o].left - 1 \in 1 .. ClipChunks
      BY <1>3, <3>1, MixerConstants
    <3>3. [slots[o] EXCEPT !.left = @ - 1] \in Overlay
      BY <1>1, <3>1, <3>2 DEF Overlay
    <3>4. rest = [[slots[o] EXCEPT !.left = @ - 1] EXCEPT !.moved = TRUE]
      BY <1>1, <3>1 DEF Overlay
    <3> QED BY <3>3, <3>4 DEF Overlay
  <2>4. rest # NoSlot
    BY <2>3, CoordinatorConstants
  <2> HIDE DEF rest
  <2> QED BY <1>1, <2>1, <2>2, <2>3, <2>4 DEF Has
<1> QED BY <1>2, <1>3

(* The watchdog's pass.                                                      *)
LEMMA SampledSlots ==
  ASSUME IInv, NEW o \in Outputs
  PROVE  /\ Sampled(o) \in Overlay \cup {NoSlot}
         /\ Sampled(o) = NoSlot \/ (Has(o) /\ Sampled(o).id = slots[o].id)
         /\ Has(o) => Sampled(o) # NoSlot \/ Stalled(o)
<1>1. slots[o] \in Overlay \cup {NoSlot}
  BY DEF IInv, TypeOK
<1>2. CASE ~Has(o) \/ Stalled(o)
  <2>1. Sampled(o) = NoSlot
    BY <1>2 DEF Sampled
  <2>2. Has(o) => Stalled(o)
    BY <1>2 DEF Has, Stalled
  <2> QED BY <2>1, <2>2 DEF Has, Stalled
<1>3. CASE Has(o) /\ ~Stalled(o) /\ slots[o].moved
  <2> DEFINE fresh == [slots[o] EXCEPT !.moved = FALSE, !.stall = 0]
  <2>1. Sampled(o) = fresh
    BY <1>3 DEF Sampled
  <2>2. fresh \in Overlay /\ fresh.id = slots[o].id
    <3>1. slots[o] \in Overlay /\ 0 \in 0 .. Grace
      BY <1>1, <1>3, MixerConstants DEF Has
    <3>2. fresh = [[slots[o] EXCEPT !.moved = FALSE] EXCEPT !.stall = 0]
      BY <3>1 DEF Overlay
    <3>3. [slots[o] EXCEPT !.moved = FALSE] \in Overlay
      BY <3>1 DEF Overlay
    <3> QED BY <3>1, <3>2, <3>3 DEF Overlay
  <2> HIDE DEF fresh
  <2> QED BY <1>3, <2>1, <2>2, CoordinatorConstants
<1>4. CASE Has(o) /\ ~Stalled(o) /\ ~slots[o].moved
  <2> DEFINE older == [slots[o] EXCEPT !.stall = @ + 1]
  <2>1. Sampled(o) = older
    BY <1>4 DEF Sampled
  <2>2. older \in Overlay /\ older.id = slots[o].id
    BY <1>1, <1>4, MixerConstants DEF Overlay, Has, Stalled
  <2> HIDE DEF older
  <2> QED BY <1>4, <2>1, <2>2, CoordinatorConstants
<1> QED BY <1>2, <1>3, <1>4

LEMMA RelayIInv ==
  ASSUME IInv, Sched!IInv', NEW o \in Outputs, Relay(o)
  PROVE  IInv'
<1>1. /\ slots' \in [Outputs -> Overlay \cup {NoSlot}]
      /\ \A p \in Outputs : slots'[p] = NoSlot \/ (Has(p) /\ slots'[p].id = slots[p].id)
      /\ finished' \in Seq(Outputs \X Nat)
      /\ \A d \in Range(finished') : d \in Range(finished) \/ d[2] = slots[o].id
  BY MixIntoSlots DEF Relay
<1>2. /\ UNCHANGED <<active, queue, nextId, clips, done, streaming, pollPc, seen>>
      /\ Has(o)
  BY DEF Relay, MixInto, schedVars, pollVars
<1>3. \A d \in Reports' : Known(d[2], nextId)
  BY <1>1, <1>2 DEF IInv, KnownIds, Reports
<1> QED BY <1>1, <1>2, <1>3, MixerIInv DEF IInv, TypeOK

LEMMA SenderChangeIInv ==
  ASSUME IInv, Sched!IInv', NEW o \in Outputs, SenderChange(o)
  PROVE  IInv'
<1>1. /\ UNCHANGED <<active, queue, nextId, clips, done, slots, finished, pollPc, seen>>
      /\ streaming' = [streaming EXCEPT ![o] = ~@]
  BY DEF SenderChange, RelayChange, schedVars, pollVars
<1>2. streaming' \in [Outputs -> BOOLEAN]
  BY <1>1 DEF IInv, TypeOK
<1>3. \A d \in Reports' : Known(d[2], nextId)
  BY <1>1 DEF IInv, KnownIds, Reports
<1>4. \A p \in Outputs : slots'[p] = NoSlot \/ (Has(p) /\ slots'[p].id = slots[p].id)
  BY <1>1 DEF Has
<1> QED BY <1>1, <1>2, <1>3, <1>4, MixerIInv DEF IInv, TypeOK

LEMMA PollTakeIInv ==
  ASSUME IInv, Sched!IInv', PollTake
  PROVE  IInv'
<1>1. /\ UNCHANGED <<active, queue, nextId, clips, slots, streaming, seen>>
      /\ done' = finished /\ finished' = <<>> /\ pollPc' = "taken"
  BY DEF PollTake, schedVars
<1>2. Range(finished') = {}
  BY <1>1 DEF Range
<1>3. \A d \in Reports' : Known(d[2], nextId)
  BY <1>1, <1>2 DEF IInv, KnownIds, Reports
<1>4. \A p \in Outputs : slots'[p] = NoSlot \/ (Has(p) /\ slots'[p].id = slots[p].id)
  BY <1>1 DEF Has
<1>5. finished' \in Seq(Outputs \X Nat)
  BY <1>1
<1> QED BY <1>1, <1>3, <1>4, <1>5, MixerIInv DEF IInv, TypeOK

(* What the watchdog's pass adds to the reports: one for every slot it took. *)
LEMMA ReapedReports ==
  ASSUME IInv, PollReap
  PROVE  /\ done' \in Seq(Outputs \X Nat)
         /\ Range(done') = Range(done) \cup Reaped
         /\ \A d \in Reaped : Known(d[2], nextId)
<1> DEFINE T == Outputs \X Nat
<1>1. PICK s \in SetToSeqs(Reaped) : done' = done \o s
  BY DEF PollReap
<1>2. IsFiniteSet(Reaped)
  <2> DEFINE stalled == {p \in Outputs : Stalled(p)}
  <2>1. IsFiniteSet(stalled)
    BY FS_Subset, CoordinatorConstants
  <2> DEFINE report == [o \in stalled |-> <<o, slots[o].id>>]
  <2>2. report \in Surjection(stalled, Reaped)
    BY DEF Surjection, Reaped
  <2> HIDE DEF stalled, report
  <2> QED BY <2>1, <2>2, FS_Surjection
<1>3. \A d \in Reaped : d \in T /\ Known(d[2], nextId)
  BY DEF Reaped, Stalled, IInv, KnownIds, Known
<1>4. s \in Seq(T) /\ Range(s) = Reaped
  <2>1. s \in Seq(Reaped) /\ Range(s) = Reaped
    BY <1>2, RangeOfSetToSeqs
  <2> QED BY <1>3, <2>1
<1>5. done \in Seq(T)
  BY DEF IInv, TypeOK
<1> HIDE DEF T
<1>6. done' \in Seq(T) /\ Range(done') = Range(done) \cup Reaped
  BY <1>1, <1>4, <1>5, RangeOfConcat
<1> QED BY <1>3, <1>6 DEF T

LEMMA PollReapIInv ==
  ASSUME IInv, Sched!IInv', PollReap
  PROVE  IInv'
<1>1. /\ UNCHANGED <<active, queue, nextId, clips, finished, streaming, seen>>
      /\ slots' = [o \in Outputs |-> Sampled(o)] /\ pollPc' = "reaped"
  BY DEF PollReap, schedVars
<1>2. /\ slots' \in [Outputs -> Overlay \cup {NoSlot}]
      /\ \A p \in Outputs : slots'[p] = NoSlot \/ (Has(p) /\ slots'[p].id = slots[p].id)
  BY <1>1, SampledSlots
<1>3. done' \in Seq(Outputs \X Nat) /\ \A d \in Reports' : Known(d[2], nextId)
  BY <1>1, ReapedReports DEF IInv, KnownIds, Reports
<1> QED BY <1>1, <1>2, <1>3, MixerIInv DEF IInv, TypeOK

(* Looking at the next report.                                               *)
LEMMA NextReport ==
  ASSUME IInv, done # <<>>, done' = Tail(done)
  PROVE  /\ done' \in Seq(Outputs \X Nat)
         /\ Range(done) = Range(done') \cup {Head(done)}
         /\ Known(Head(done)[2], nextId)
         /\ Head(done)[2] \in Nat
<1> DEFINE T == Outputs \X Nat
<1>1. done \in Seq(T)
  BY DEF IInv, TypeOK
<1>2. \A x \in T : x[2] \in Nat
  OBVIOUS
<1> HIDE DEF T
<1>3. Tail(done) \in Seq(T) /\ Head(done) \in T /\ Range(done) = Range(Tail(done)) \cup {Head(done)}
  BY <1>1, RangeOfTail
<1>4. Known(Head(done)[2], nextId)
  BY <1>3 DEF IInv, KnownIds, Reports
<1> QED BY <1>2, <1>3, <1>4 DEF T

LEMMA PollSkipIInv ==
  ASSUME IInv, Sched!IInv', PollSkip
  PROVE  IInv'
<1>1. /\ UNCHANGED <<active, queue, nextId, clips, slots, finished, streaming, seen, pollPc>>
      /\ done' \in Seq(Outputs \X Nat) /\ Range(done') \subseteq Range(done)
  BY NextReport DEF PollSkip, schedVars, mixerVars
<1>2. \A d \in Reports' : Known(d[2], nextId)
  BY <1>1 DEF IInv, KnownIds, Reports
<1>3. \A p \in Outputs : slots'[p] = NoSlot \/ (Has(p) /\ slots'[p].id = slots[p].id)
  BY <1>1 DEF Has
<1> QED BY <1>1, <1>2, <1>3, MixerIInv DEF IInv, TypeOK

(* The operations that end in apply().                                       *)
LEMMA AnnounceIInv ==
  ASSUME IInv, Sched!IInv', NEW req \in Sched!Request, Announce(req)
  PROVE  IInv'
<1>1. nextId' = nextId + 1 /\ nextId <= MaxAnnouncements
  BY DEF Announce, Sched!Begin, Sched!BeginFree, Sched!BeginBargeIn, Sched!BeginQueue,
         Sched!BeginReject, Sched!Admitted
<1>2. nextId \in Nat /\ MaxAnnouncements \in Nat
  BY OccupantKnown, CoordinatorConstants DEF IInv, Sched!SchedulerConstants
<1>3. nextId <= nextId' /\ nextId' <= MaxAnnouncements + 1
  BY <1>1, <1>2
<1>4. /\ ApplyToMixer(clips \cup {nextId})
      /\ clips' \subseteq Ids(Sched!InFlight)'
      /\ UNCHANGED <<pollPc, done, seen>>
  BY DEF Announce, Gone, pollVars, IInv, NoClipLeak
<1> QED BY <1>3, <1>4, AppliedIInv DEF IInv, TypeOK

LEMMA ReleaseIInv ==
  ASSUME IInv, Sched!IInv', NEW r \in Reservations, ReleaseReservation(r)
  PROVE  IInv'
<1>1. nextId' = nextId /\ nextId <= nextId' /\ nextId' <= MaxAnnouncements + 1
  BY OccupantKnown DEF ReleaseReservation, Sched!ReleaseReservation, IInv, KnownIds
<1>2. /\ ApplyToMixer(clips)
      /\ clips' \subseteq Ids(Sched!InFlight)'
      /\ UNCHANGED <<pollPc, done, seen>>
  BY DEF ReleaseReservation, Gone, pollVars, IInv, NoClipLeak
<1> QED BY <1>1, <1>2, AppliedIInv DEF IInv, TypeOK

LEMMA PollCompleteIInv ==
  ASSUME IInv, Sched!IInv', PollComplete
  PROVE  IInv'
<1>1. nextId' = nextId /\ nextId <= nextId' /\ nextId' <= MaxAnnouncements + 1
  BY OccupantKnown DEF PollComplete, Sched!Complete, IInv, KnownIds
<1>2. /\ ApplyToMixer(clips)
      /\ clips' \subseteq Ids(Sched!InFlight)'
      /\ pollPc' = "locked"
      /\ seen' = seen \cup {Head(done)[2]}
  BY DEF PollComplete, Gone, IInv, NoClipLeak
<1>3. /\ done' \in Seq(Outputs \X Nat) /\ Range(done') \subseteq Range(done)
      /\ seen' \subseteq Nat
  BY <1>2, NextReport DEF PollComplete, IInv, TypeOK
<1> QED BY <1>1, <1>2, <1>3, AppliedIInv

LEMMA PollTickIInv ==
  ASSUME IInv, Sched!IInv', PollTick
  PROVE  IInv'
<1>1. nextId' = nextId /\ nextId <= nextId' /\ nextId' <= MaxAnnouncements + 1
  BY OccupantKnown DEF PollTick, Sched!Tick, IInv, KnownIds
<1>2. /\ ApplyToMixer(clips)
      /\ clips' \subseteq Ids(Sched!InFlight)'
      /\ pollPc' = "idle" /\ seen' = {} /\ done' = done
  BY DEF PollTick, Gone, IInv, NoClipLeak
<1> QED BY <1>1, <1>2, AppliedIInv DEF IInv, TypeOK

(* What touches neither the entries nor the mixer.                           *)
LEMMA ElsewhereIInv ==
  ASSUME IInv, Sched!IInv', UNCHANGED <<active, queue, nextId, mixerVars, clips, pollVars>>
  PROVE  IInv'
<1>1. \A d \in Reports' : Known(d[2], nextId)
  BY DEF IInv, KnownIds, Reports, mixerVars, pollVars
<1>2. \A p \in Outputs : slots'[p] = NoSlot \/ (Has(p) /\ slots'[p].id = slots[p].id)
  BY DEF Has, mixerVars
<1> QED BY <1>1, <1>2, MixerIInv DEF IInv, TypeOK, mixerVars, pollVars

LEMMA NextIInv == IInv /\ [Next]_vars => IInv'
<1> SUFFICES ASSUME IInv, [Next]_vars PROVE IInv'
  OBVIOUS
<1>0. Sched!IInv'
  BY StepRefines, SchedulerStep DEF IInv
<1>1. CASE \E req \in Sched!Request : Announce(req)
  BY <1>0, <1>1, AnnounceIInv
<1>2. CASE \E r \in Reservations, outs \in (SUBSET Outputs) \ {{}} : ReserveOutputs(r, outs)
  <2>1. UNCHANGED <<active, queue, nextId, mixerVars, clips, pollVars>>
    BY <1>2 DEF ReserveOutputs, Sched!Reserve
  <2> QED BY <1>0, <2>1, ElsewhereIInv
<1>3. CASE \E r \in Reservations : ReleaseReservation(r)
  BY <1>0, <1>3, ReleaseIInv
<1>4. CASE \E o \in Outputs : Relay(o)
  BY <1>0, <1>4, RelayIInv
<1>5. CASE \E o \in Outputs : SenderChange(o)
  BY <1>0, <1>5, SenderChangeIInv
<1>6. CASE AdvanceTime
  <2>1. UNCHANGED <<active, queue, nextId, mixerVars, clips, pollVars>>
    BY <1>6 DEF AdvanceTime, Sched!AdvanceTime
  <2> QED BY <1>0, <2>1, ElsewhereIInv
<1>7. CASE Poll
  BY <1>0, <1>7, PollTakeIInv, PollReapIInv, PollCompleteIInv, PollSkipIInv, PollTickIInv DEF Poll
<1>8. CASE UNCHANGED vars
  <2>1. UNCHANGED <<active, queue, nextId, mixerVars, clips, pollVars>>
    BY <1>8 DEF vars, schedVars
  <2> QED BY <1>0, <2>1, ElsewhereIInv
<1> QED BY <1>1, <1>2, <1>3, <1>4, <1>5, <1>6, <1>7, <1>8 DEF Next

LEMMA InitIInv == Init => IInv
<1> SUFFICES ASSUME Init PROVE IInv
  OBVIOUS
<1>1. Sched!IInv
  <2>1. SP!Init
    BY DEF Init, SP!Init, Sched!Init
  <2> QED
    BY <2>1, SP!InitIInv, SameInv, CoordinatorConstants
       DEF SP!SchedulerConstants, Sched!SchedulerConstants
<1>2. /\ slots = [o \in Outputs |-> NoSlot]
      /\ finished = <<>> /\ done = <<>> /\ clips = {} /\ seen = {} /\ pollPc = "idle"
      /\ streaming \in [Outputs -> BOOLEAN]
      /\ nextId = 1
  BY DEF Init, MixerInit, Sched!Init
<1>3. Reports = {}
  BY <1>2 DEF Reports, Range
<1>4. KnownIds
  BY <1>2, <1>3, CoordinatorConstants DEF KnownIds, Has, Sched!SchedulerConstants
<1>5. TypeOK
  BY <1>1, <1>2 DEF TypeOK, Sched!IInv
<1>6. SlotBelongsToOccupant /\ NoClipLeak
  BY <1>2 DEF SlotBelongsToOccupant, Has, NoClipLeak
<1> QED BY <1>1, <1>4, <1>5, <1>6 DEF IInv

-----------------------------------------------------------------------------
(* The inductive invariant of the coordinator.                               *)
THEOREM Invariance == Spec => []IInv
BY InitIInv, NextIInv, PTL DEF Spec

(* Mixer, clip store and poll keep their types.                              *)
THEOREM TypeCorrect == Spec => []TypeOK
<1>1. IInv => TypeOK
  BY DEF IInv
<1> QED BY <1>1, Invariance, PTL

(* Whichever of relay, poll and barge-in came first, the mixer plays on an   *)
(* output only the clip the scheduler has playing there.                     *)
THEOREM MixerFollowsScheduler == Spec => []SlotBelongsToOccupant
<1>1. IInv => SlotBelongsToOccupant
  BY DEF IInv
<1> QED BY <1>1, Invariance, PTL

(* The store holds the PCM of announcements in flight and of no other.       *)
THEOREM ClipsAreOfInFlight == Spec => []NoClipLeak
<1>1. IInv => NoClipLeak
  BY DEF IInv
<1> QED BY <1>1, Invariance, PTL

(* The coordinator drives the scheduler by its own operations only: the      *)
(* safety part of DrivesScheduler, so that every theorem about the scheduler *)
(* holds of the scheduler inside the coordinator.                            *)
THEOREM ImplementsScheduler == Spec => Sched!Spec
<1>1. Init => Sched!Init
  BY DEF Init
<1>2. IInv /\ [Next]_vars => [Sched!Next]_Sched!schedVars
  BY StepRefines
<1> QED BY <1>1, <1>2, Invariance, PTL DEF Spec, Sched!Spec

-----------------------------------------------------------------------------
(* Ordinary announcements: `barge_in` is off by default, and with it off no  *)
(* clip goes back to the queue.                                              *)
Ordinary == BargeIns \subseteq {FALSE}

LEMMA SettleFlow ==
  ASSUME NEW A, NEW Q, NEW R, Sched!Settle(A, Q, R)
  PROVE  A \subseteq active' /\ active' \subseteq A \cup Q /\ queue' \subseteq Q
BY DEF Sched!Settle

LEMMA OrdinaryBegin ==
  ASSUME Ordinary, NEW req \in Sched!Request, Sched!Begin(req)
  PROVE  /\ active \subseteq active'
         /\ active' \subseteq active \cup queue \cup {Sched!NewEntry(req)}
         /\ queue' \subseteq queue \cup {Sched!NewEntry(req)}
         /\ Sched!NewEntry(req).id = nextId
         /\ Sched!NewEntry(req).targets # {}
<1>0. req.bargeIn = FALSE /\ req.targets # {}
  <2>1. req.bargeIn \in BargeIns
    BY DEF Sched!Request
  <2>2. BargeIns \subseteq {FALSE}
    BY DEF Ordinary
  <2>3. req.bargeIn \in {FALSE}
    BY <2>1, <2>2
  <2>4. req.bargeIn = FALSE
    BY <2>3, Zenon
  <2>5. req.targets # {}
    BY DEF Sched!Request
  <2> QED BY <2>4, <2>5
<1>1. /\ Sched!NewEntry(req).id = nextId
      /\ Sched!NewEntry(req).targets # {}
      /\ ~req.bargeIn
  BY <1>0 DEF Sched!NewEntry
<1> DEFINE new == Sched!NewEntry(req)
<1>2. CASE Sched!BeginFree(req)
  <2>1. Sched!Settle(active \cup {new}, queue, reservations)
    BY <1>2 DEF Sched!BeginFree
  <2> HIDE DEF new
  <2>2. active \cup {new} \subseteq active' /\ active' \subseteq (active \cup {new}) \cup queue /\ queue' \subseteq queue
    BY <2>1, SettleFlow
  <2> QED BY <1>1, <2>2 DEF new
<1>3. CASE Sched!BeginQueue(req)
  <2>1. Sched!Settle(active, queue \cup {new}, reservations)
    BY <1>3 DEF Sched!BeginQueue
  <2> HIDE DEF new
  <2>2. active \subseteq active' /\ active' \subseteq active \cup (queue \cup {new}) /\ queue' \subseteq queue \cup {new}
    BY <2>1, SettleFlow
  <2> QED BY <1>1, <2>2 DEF new
<1>4. CASE Sched!BeginReject(req)
  <2>1. Sched!Settle(active, queue, reservations)
    BY <1>4 DEF Sched!BeginReject
  <2>2. active \subseteq active' /\ active' \subseteq active \cup queue /\ queue' \subseteq queue
    BY <2>1, SettleFlow
  <2> QED BY <1>1, <2>2
<1>5. ~Sched!BeginBargeIn(req)
  BY <1>1 DEF Sched!BeginBargeIn
<1> QED BY <1>2, <1>3, <1>4, <1>5 DEF Sched!Begin

(* The ids of what plays, of what waits and of the slots.                    *)
LEMMA IdsApart ==
  ASSUME IInv
  PROVE  /\ \A e \in active, f \in queue : e # f /\ e.id # f.id
         /\ \A e \in active, o \in Outputs : o \in e.targets => Sched!Occupant(o) = e.id
         /\ \A o \in Outputs : Has(o) => slots[o].id \in Ids(active)
         /\ \A e \in Sched!InFlight : e.targets \subseteq Outputs
<1>1. \A e \in active, f \in queue : e # f /\ e.id # f.id
  BY DEF IInv, Sched!IInv, Sched!OnePlacePerId, Sched!InFlight
<1>2. \A e \in active, o \in Outputs : o \in e.targets => Sched!Occupant(o) = e.id
  BY OccupantOfTarget DEF IInv, Sched!IInv, Sched!ExclusiveOccupancy, Sched!Occupant
<1>3. ASSUME NEW o \in Outputs, Has(o) PROVE slots[o].id \in Ids(active)
  <2>1. slots[o].id = Sched!OccupantIn(active, o) /\ slots[o].id # 0
    BY <1>3 DEF IInv, SlotBelongsToOccupant, KnownIds, Known, Sched!Occupant
  <2> QED BY <2>1, OccupantIsEntry DEF Ids
<1>4. \A e \in Sched!InFlight : e.targets \subseteq Outputs
  BY DEF IInv, Sched!IInv, Sched!TypeOK, Sched!InFlight, Sched!Entry
<1> QED BY <1>1, <1>2, <1>3, <1>4

LEMMA IdsApartNext ==
  ASSUME IInv'
  PROVE  /\ \A e \in active', o \in Outputs : o \in e.targets => Sched!OccupantIn(active', o) = e.id
         /\ \A e \in Sched!InFlight' : e.targets \subseteq Outputs /\ e.id \in Nat \ {0}
<1>1. \A e \in active', o \in Outputs : o \in e.targets => Sched!OccupantIn(active', o) = e.id
  BY OccupantOfTarget DEF IInv, Sched!IInv, Sched!ExclusiveOccupancy
<1>2. \A e \in Sched!InFlight' : e.targets \subseteq Outputs /\ e.id \in Nat \ {0}
  BY DEF IInv, Sched!IInv, Sched!TypeOK, Sched!InFlight, Sched!Entry
<1> QED BY <1>1, <1>2

(* apply() gives what starts a slot and leaves what goes on its own.         *)
LEMMA AppliedHasEnd ==
  ASSUME OrdinaryInv, IInv', NEW stored, ApplyToMixer(stored),
         HasTargets',
         \A e \in active' \ active : e.id \in stored /\ e.id \notin Ids(active),
         \A e \in active' \cap active : Reported(e.id) => Reported(e.id)'
  PROVE  OccupiedHasEnd'
<1> SUFFICES ASSUME NEW e \in active'
             PROVE  (\E o \in e.targets : slots'[o] # NoSlot) \/ Reported(e.id)'
  BY DEF OccupiedHasEnd, Has
<1>1. e.targets \subseteq Outputs /\ e.id \in Nat \ {0} /\ e.targets # {}
  BY IdsApartNext DEF HasTargets, Sched!InFlight
<1>2. \A o \in e.targets : Sched!OccupantIn(active', o) = e.id
  BY <1>1, IdsApartNext
<1>3. \A o \in Outputs : slots'[o] = SlotAfter(o, stored)
  BY DEF ApplyToMixer
<1>4. CASE e \in active
  <2>1. CASE Reported(e.id)
    BY <1>4, <2>1
  <2>2. CASE \E o \in e.targets : slots[o] # NoSlot
    <3> PICK o \in e.targets : slots[o] # NoSlot
      BY <2>2
    <3>1. Sched!OccupantIn(active, o) = e.id
      BY <1>1, <1>4, IdsApart DEF OrdinaryInv, Sched!Occupant
    <3>2. slots'[o] = slots[o]
      BY <1>1, <1>2, <1>3, <3>1 DEF SlotAfter
    <3> QED BY <3>2
  <2> QED BY <1>4, <2>1, <2>2 DEF OrdinaryInv, OccupiedHasEnd, Has
<1>5. CASE e \notin active
  <2> PICK o \in e.targets : TRUE
    BY <1>1
  <2>1. e.id \in stored /\ e.id \notin Ids(active)
    BY <1>5
  <2>2. Sched!OccupantIn(active, o) # e.id
    BY <1>1, <2>1, OccupantIsEntry DEF Ids
  <2>3. SlotAfter(o, stored) = NewSlot(e.id)
    BY <1>1, <1>2, <2>1, <2>2 DEF SlotAfter, Sched!Free
  <2>4. slots'[o] = NewSlot(e.id) /\ NewSlot(e.id) # NoSlot
    BY <1>1, <1>3, <2>3, NewSlotType
  <2> QED BY <2>4
<1> QED BY <1>4, <1>5

(* What an ordinary step that ends in apply() owes: the entries it moves,    *)
(* the reports and the seen ids it leaves.                                   *)
LEMMA AppliedOrdinary ==
  ASSUME OrdinaryInv, IInv', NEW stored, ApplyToMixer(stored),
         Ids(Sched!InFlight)' \subseteq clips',
         nextId <= nextId', Range(done') \subseteq Range(done),
         \A e \in Sched!InFlight' \ Sched!InFlight : e.id = nextId /\ e.targets # {},
         \A e \in active' \ active : (e \in queue \/ e.id = nextId) /\ e.id \in stored,
         \A e \in queue' : e \in queue \/ e.id = nextId,
         \A e \in active' \cap active : Reported(e.id) => Reported(e.id)',
         \A id \in seen' \ seen : Known(id, nextId) /\ id \notin Ids(Sched!InFlight)'
  PROVE  OrdinaryInv'
<1>1. nextId \in Nat /\ nextId' \in Nat /\ \A e \in Sched!InFlight : Known(e.id, nextId)
  BY OccupantKnown, OccupantKnownNext DEF OrdinaryInv, IInv
<1>2. Reports' \subseteq Reports /\ \A d \in Reports : Known(d[2], nextId)
  BY DEF Reports, ApplyToMixer, OrdinaryInv, IInv, KnownIds
<1>3. ReportedHavePlayed'
  <2> SUFFICES ASSUME NEW e \in queue', NEW d \in Reports', d[2] = e.id
               PROVE  FALSE
    BY DEF ReportedHavePlayed, Reported
  <2>1. d \in Reports /\ d[2] # nextId
    BY <1>1, <1>2 DEF Known
  <2>2. e \in queue
    BY <2>1
  <2> QED BY <2>1, <2>2 DEF OrdinaryInv, ReportedHavePlayed, Reported
<1>4. HasTargets'
  BY DEF OrdinaryInv, HasTargets
<1>5. SeenAreOver'
  <2> SUFFICES ASSUME NEW id \in seen'
               PROVE  Known(id, nextId') /\ id \notin Ids(Sched!InFlight)'
    BY DEF SeenAreOver
  <2>1. CASE id \in seen
    <3>1. Known(id, nextId) /\ id \notin Ids(Sched!InFlight) /\ id # nextId
      BY <1>1, <2>1 DEF OrdinaryInv, SeenAreOver, Known
    <3>2. Ids(Sched!InFlight)' \subseteq Ids(Sched!InFlight) \cup {nextId}
      BY DEF Ids
    <3>3. Known(id, nextId')
      BY <1>1, <3>1, KnownGrows
    <3>4. id \notin Ids(Sched!InFlight)'
      BY <3>1, <3>2
    <3> QED BY <3>3, <3>4
  <2>2. CASE id \notin seen
    BY <1>1, <2>2 DEF Known
  <2> QED BY <2>1, <2>2
<1>6. \A e \in active' \ active : e.id \in stored /\ e.id \notin Ids(active)
  <2> SUFFICES ASSUME NEW e \in active' \ active PROVE e.id \notin Ids(active)
    OBVIOUS
  <2>1. CASE e \in queue
    BY <2>1, IdsApart DEF OrdinaryInv, Ids
  <2>2. CASE e.id = nextId
    BY <1>1, <2>2 DEF Known, Ids, Sched!InFlight
  <2> QED BY <2>1, <2>2
<1>7. OccupiedHasEnd'
  BY <1>4, <1>6, AppliedHasEnd
<1>8. ClipKept'
  BY DEF ClipKept
<1> QED BY <1>3, <1>4, <1>5, <1>7, <1>8 DEF OrdinaryInv

(* What a step of the mixer or of the poll owes: a slot that goes is         *)
(* reported, and a report that goes is of a clip that is over.               *)
LEMMA MixerOrdinary ==
  ASSUME OrdinaryInv, IInv', UNCHANGED <<active, queue, nextId, clips, seen>>,
         \A d \in Reports' : d \in Reports \/ (\E o \in Outputs : Has(o) /\ d[2] = slots[o].id),
         \A d \in Reports : d \in Reports' \/ d[2] \in seen,
         \A o \in Outputs : Has(o) => \/ slots'[o] # NoSlot
                                   \/ \E d \in Reports' : d[2] = slots[o].id
  PROVE  OrdinaryInv'
<1>1. ReportedHavePlayed'
  <2> SUFFICES ASSUME NEW e \in queue, NEW d \in Reports', d[2] = e.id
               PROVE  FALSE
    BY DEF ReportedHavePlayed, Reported
  <2>1. d \notin Reports
    BY DEF OrdinaryInv, ReportedHavePlayed, Reported
  <2>2. d[2] \in Ids(active)
    BY <2>1, IdsApart DEF OrdinaryInv
  <2> QED BY <2>2, IdsApart DEF OrdinaryInv, Ids
<1>2. OccupiedHasEnd'
  <2> SUFFICES ASSUME NEW e \in active
               PROVE  (\E o \in e.targets : slots'[o] # NoSlot) \/ Reported(e.id)'
    BY DEF OccupiedHasEnd, Has
  <2>1. e.id \notin seen /\ e.targets \subseteq Outputs
    BY IdsApart DEF OrdinaryInv, SeenAreOver, Ids, Sched!InFlight
  <2>2. CASE Reported(e.id)
    BY <2>1, <2>2 DEF Reported
  <2>3. CASE \E o \in e.targets : slots[o] # NoSlot
    <3> PICK o \in e.targets : slots[o] # NoSlot
      BY <2>3
    <3>1. slots[o].id = e.id
      BY <2>1, IdsApart DEF OrdinaryInv, IInv, SlotBelongsToOccupant, Has
    <3> QED BY <2>1, <3>1 DEF Has, Reported
  <2> QED BY <2>2, <2>3 DEF OrdinaryInv, OccupiedHasEnd, Has
<1>3. HasTargets' /\ SeenAreOver' /\ ClipKept'
  BY DEF OrdinaryInv, HasTargets, SeenAreOver, ClipKept, Ids, Sched!InFlight
<1> QED BY <1>1, <1>2, <1>3 DEF OrdinaryInv

LEMMA AnnounceOrdinary ==
  ASSUME Ordinary, OrdinaryInv, IInv', NEW req \in Sched!Request, Announce(req)
  PROVE  OrdinaryInv'
<1> DEFINE new == Sched!NewEntry(req)
<1>1. /\ active \subseteq active'
      /\ active' \subseteq active \cup queue \cup {new}
      /\ queue' \subseteq queue \cup {new}
      /\ new.id = nextId
      /\ new.targets # {}
  BY OrdinaryBegin DEF Announce
<1>2. /\ ApplyToMixer(clips \cup {nextId})
      /\ clips' = (clips \cup {nextId}) \ Gone(Ids(Sched!InFlight) \cup {nextId})
      /\ UNCHANGED <<done, seen>>
      /\ nextId' = nextId + 1
  BY DEF Announce, pollVars, Sched!Begin, Sched!BeginFree, Sched!BeginBargeIn,
         Sched!BeginQueue, Sched!BeginReject, Sched!Admitted
<1> HIDE DEF new
<1>3. nextId <= nextId'
  BY <1>2, OccupantKnown DEF OrdinaryInv, IInv
<1>4. \A e \in Sched!InFlight' : e \in Sched!InFlight \/ e = new
  BY <1>1 DEF Sched!InFlight
<1>5. Ids(Sched!InFlight)' \subseteq clips'
  <2>1. Ids(Sched!InFlight)' \subseteq Ids(Sched!InFlight) \cup {nextId}
    BY <1>1, <1>4 DEF Ids
  <2> QED BY <1>2, <2>1 DEF Gone, OrdinaryInv, ClipKept
<1>6. \A e \in active' \ active : (e \in queue \/ e.id = nextId) /\ e.id \in clips \cup {nextId}
  BY <1>1 DEF OrdinaryInv, ClipKept, Ids, Sched!InFlight
<1>7. \A e \in active' \cap active : Reported(e.id) => Reported(e.id)'
  BY <1>2 DEF Reported, Reports, ApplyToMixer
<1> QED BY <1>1, <1>2, <1>3, <1>4, <1>5, <1>6, <1>7, AppliedOrdinary

(* Steps that settle some of what was playing and what was waiting.          *)
LEMMA SettledOrdinary ==
  ASSUME OrdinaryInv, IInv', NEW A \in SUBSET active,
         Sched!Settle(A, queue, reservations'), ApplyToMixer(clips), nextId' = nextId,
         Ids(Sched!InFlight)' \cap clips \subseteq clips',
         Range(done') \subseteq Range(done),
         \A e \in A : Reported(e.id) => Reported(e.id)',
         \A id \in seen' \ seen : Known(id, nextId) /\ id \notin Ids(Sched!InFlight)'
  PROVE  OrdinaryInv'
<1>1. A \subseteq active' /\ active' \subseteq A \cup queue /\ queue' \subseteq queue
  BY SettleFlow
<1>2. Sched!InFlight' \subseteq Sched!InFlight
  BY <1>1 DEF Sched!InFlight
<1>3. Ids(Sched!InFlight)' \subseteq clips'
  <2>1. Ids(Sched!InFlight)' \subseteq Ids(Sched!InFlight)
    BY <1>2 DEF Ids
  <2> QED BY <2>1 DEF OrdinaryInv, ClipKept
<1>4. \A e \in active' \ active : e \in queue /\ e.id \in clips
  BY <1>1 DEF OrdinaryInv, ClipKept, Ids, Sched!InFlight
<1>5. \A e \in active' \cap active : e \in A
  BY <1>1, IdsApart DEF OrdinaryInv
<1>6. nextId <= nextId'
  BY OccupantKnown DEF OrdinaryInv, IInv
<1> QED BY <1>1, <1>2, <1>3, <1>4, <1>5, <1>6, AppliedOrdinary

LEMMA ReleaseOrdinary ==
  ASSUME OrdinaryInv, IInv', NEW r \in Reservations, ReleaseReservation(r)
  PROVE  OrdinaryInv'
<1>1. /\ Sched!Settle(active, queue, reservations')
      /\ ApplyToMixer(clips)
      /\ clips' = clips \ Gone(Ids(Sched!InFlight))
      /\ UNCHANGED <<done, seen, nextId>>
  BY DEF ReleaseReservation, Sched!ReleaseReservation, pollVars
<1>2. Ids(Sched!InFlight)' \cap clips \subseteq clips'
  BY <1>1 DEF Gone
<1>3. \A e \in active : Reported(e.id) => Reported(e.id)'
  BY <1>1 DEF Reported, Reports, ApplyToMixer
<1> QED BY <1>1, <1>2, <1>3, SettledOrdinary

LEMMA PollTickOrdinary ==
  ASSUME OrdinaryInv, IInv', PollTick
  PROVE  OrdinaryInv'
<1>1. /\ Sched!Settle(active, queue, reservations')
      /\ ApplyToMixer(clips)
      /\ clips' = clips \ Gone(Ids(Sched!InFlight))
      /\ seen' = {}
      /\ UNCHANGED <<done, nextId>>
  BY DEF PollTick, Sched!Tick
<1>2. Ids(Sched!InFlight)' \cap clips \subseteq clips'
  BY <1>1 DEF Gone
<1>3. \A e \in active : Reported(e.id) => Reported(e.id)'
  BY <1>1 DEF Reported, Reports, ApplyToMixer
<1> QED BY <1>1, <1>2, <1>3, SettledOrdinary

(* The completed clip is not one that waits, so nothing of it stays.         *)
LEMMA PollCompleteOrdinary ==
  ASSUME OrdinaryInv, IInv', PollComplete
  PROVE  OrdinaryInv'
<1> DEFINE id == Head(done)[2]
           A == {e \in active : e.id # id}
<1>1. /\ Sched!Settle(A, queue, reservations')
      /\ ApplyToMixer(clips)
      /\ clips' = clips \ (Gone(Ids(Sched!InFlight)) \cup {id})
      /\ seen' = seen \cup {id}
      /\ UNCHANGED nextId
      /\ done # <<>> /\ done' = Tail(done)
  BY DEF PollComplete, Sched!Complete
<1>2. /\ Range(done) = Range(done') \cup {Head(done)}
      /\ Known(id, nextId)
  BY <1>1, NextReport DEF OrdinaryInv
<1>3. Reported(id)
  BY <1>2 DEF Reported, Reports
<1>4. A \subseteq active' /\ active' \subseteq A \cup queue /\ queue' \subseteq queue
  BY <1>1, SettleFlow
<1>5. id \notin Ids(Sched!InFlight)'
  <2>1. \A e \in queue : e.id # id
    BY <1>3 DEF OrdinaryInv, ReportedHavePlayed
  <2> QED BY <1>4, <2>1 DEF Ids, Sched!InFlight
<1>6. Ids(Sched!InFlight)' \cap clips \subseteq clips'
  BY <1>1, <1>5 DEF Gone
<1>7. ASSUME NEW e \in A, Reported(e.id) PROVE Reported(e.id)'
  <2>1. PICK d \in Reports : d[2] = e.id
    BY <1>7 DEF Reported
  <2>2. d # Head(done)
    BY <2>1
  <2>3. d \in Reports'
    BY <1>1, <1>2, <2>1, <2>2 DEF Reports, ApplyToMixer
  <2> QED BY <2>1, <2>3 DEF Reported
<1>8. A \in SUBSET active
  OBVIOUS
<1>9. \A i \in seen' \ seen : Known(i, nextId) /\ i \notin Ids(Sched!InFlight)'
  BY <1>1, <1>2, <1>5
<1> HIDE DEF A, id
<1> QED BY <1>1, <1>2, <1>6, <1>7, <1>8, <1>9, SettledOrdinary

LEMMA RelayOrdinary ==
  ASSUME OrdinaryInv, IInv', NEW o \in Outputs, Relay(o)
  PROVE  OrdinaryInv'
<1>1. /\ \A p \in Outputs : Has(p) => \/ slots'[p] # NoSlot
                                    \/ \E d \in Range(finished') : d[2] = slots[p].id
      /\ Range(finished) \subseteq Range(finished')
      /\ \A d \in Range(finished') : d \in Range(finished) \/ d[2] = slots[o].id
  BY MixIntoSlots DEF Relay, OrdinaryInv
<1>2. Has(o) /\ UNCHANGED <<active, queue, nextId, clips, done, seen>>
  BY DEF Relay, MixInto, schedVars, pollVars
<1>3. Reports \subseteq Reports' /\ Range(finished') \subseteq Reports'
  BY <1>1, <1>2 DEF Reports
<1>4. \A d \in Reports' : d \in Reports \/ (\E p \in Outputs : Has(p) /\ d[2] = slots[p].id)
  BY <1>1, <1>2 DEF Reports
<1>5. \A p \in Outputs : Has(p) => \/ slots'[p] # NoSlot
                                 \/ \E d \in Reports' : d[2] = slots[p].id
  BY <1>1, <1>3
<1>6. \A d \in Reports : d \in Reports' \/ d[2] \in seen
  BY <1>3
<1> QED BY <1>2, <1>4, <1>5, <1>6, MixerOrdinary

LEMMA PollReapOrdinary ==
  ASSUME OrdinaryInv, IInv', PollReap
  PROVE  OrdinaryInv'
<1>1. /\ UNCHANGED <<active, queue, nextId, clips, finished, seen>>
      /\ slots' = [o \in Outputs |-> Sampled(o)]
  BY DEF PollReap, schedVars
<1>2. Range(done') = Range(done) \cup Reaped
  BY ReapedReports DEF OrdinaryInv
<1>3. \A d \in Reaped : \E p \in Outputs : Has(p) /\ d[2] = slots[p].id
  BY DEF Reaped, Stalled
<1>4. ASSUME NEW p \in Outputs, Has(p)
      PROVE  slots'[p] # NoSlot \/ \E d \in Reports' : d[2] = slots[p].id
  <2>1. slots'[p] = Sampled(p)
    BY <1>1
  <2>2. CASE Stalled(p)
    <3>1. <<p, slots[p].id>> \in Reaped /\ <<p, slots[p].id>>[2] = slots[p].id
      BY <2>2 DEF Reaped
    <3>2. <<p, slots[p].id>> \in Reports'
      BY <1>2, <3>1 DEF Reports
    <3> QED BY <3>1, <3>2
  <2>3. CASE Sampled(p) # NoSlot
    BY <2>1, <2>3
  <2> QED BY <1>4, <2>2, <2>3, SampledSlots DEF OrdinaryInv
<1>5. \A d \in Reports' : d \in Reports \/ (\E p \in Outputs : Has(p) /\ d[2] = slots[p].id)
  BY <1>1, <1>2, <1>3 DEF Reports
<1>6. \A d \in Reports : d \in Reports' \/ d[2] \in seen
  BY <1>1, <1>2 DEF Reports
<1> QED BY <1>1, <1>4, <1>5, <1>6, MixerOrdinary

(* Nothing of the slots, the reports or the entries changes hands.           *)
LEMMA SameReportsOrdinary ==
  ASSUME OrdinaryInv, IInv', UNCHANGED <<active, queue, nextId, clips, seen, slots>>,
         Reports' \subseteq Reports, \A d \in Reports : d \in Reports' \/ d[2] \in seen
  PROVE  OrdinaryInv'
<1>1. \A p \in Outputs : Has(p) => \/ slots'[p] # NoSlot
                                 \/ \E d \in Reports' : d[2] = slots[p].id
  BY DEF Has
<1>2. \A d \in Reports' : d \in Reports \/ (\E p \in Outputs : Has(p) /\ d[2] = slots[p].id)
  OBVIOUS
<1> QED BY <1>1, <1>2, MixerOrdinary

LEMMA PollTakeOrdinary ==
  ASSUME OrdinaryInv, IInv', PollTake, done = <<>>
  PROVE  OrdinaryInv'
<1>1. UNCHANGED <<active, queue, nextId, clips, seen, slots>> /\ done' = finished /\ finished' = <<>>
  BY DEF PollTake, schedVars
<1>2. Reports' = Reports
  BY <1>1 DEF Reports, Range
<1> QED BY <1>1, <1>2, SameReportsOrdinary

LEMMA PollSkipOrdinary ==
  ASSUME OrdinaryInv, IInv', PollSkip
  PROVE  OrdinaryInv'
<1>1. UNCHANGED <<active, queue, nextId, clips, seen, slots, finished>> /\ Head(done)[2] \in seen
  BY DEF PollSkip, schedVars, mixerVars
<1>2. Range(done) = Range(done') \cup {Head(done)}
  BY NextReport DEF PollSkip, OrdinaryInv
<1>3. Reports' \subseteq Reports /\ \A d \in Reports : d \in Reports' \/ d[2] \in seen
  BY <1>1, <1>2 DEF Reports
<1> QED BY <1>1, <1>3, SameReportsOrdinary

LEMMA ElsewhereOrdinary ==
  ASSUME OrdinaryInv, IInv', UNCHANGED <<active, queue, nextId, slots, finished, clips, pollVars>>
  PROVE  OrdinaryInv'
<1>1. Reports' = Reports /\ UNCHANGED seen
  BY DEF Reports, pollVars
<1> QED BY <1>1, SameReportsOrdinary

(* Between two polls nothing drained is left over.                           *)
IdleHasDrained == pollPc = "idle" => done = <<>>

LEMMA NextOrdinary ==
  Ordinary => (OrdinaryInv /\ IdleHasDrained /\ [Next]_vars => (OrdinaryInv /\ IdleHasDrained)')
<1> SUFFICES ASSUME Ordinary, OrdinaryInv, IdleHasDrained, [Next]_vars
             PROVE  OrdinaryInv' /\ IdleHasDrained'
  OBVIOUS
<1>0. IInv'
  BY NextIInv DEF OrdinaryInv
<1>1. CASE \E req \in Sched!Request : Announce(req)
  <2>1. IdleHasDrained'
    BY <1>1 DEF Announce, pollVars, IdleHasDrained
  <2> QED BY <1>0, <1>1, <2>1, AnnounceOrdinary
<1>2. CASE \E r \in Reservations, outs \in (SUBSET Outputs) \ {{}} : ReserveOutputs(r, outs)
  <2>1. UNCHANGED <<active, queue, nextId, slots, finished, clips, pollVars>>
    BY <1>2 DEF ReserveOutputs, Sched!Reserve, mixerVars
  <2> QED BY <1>0, <2>1, ElsewhereOrdinary DEF IdleHasDrained, pollVars
<1>3. CASE \E r \in Reservations : ReleaseReservation(r)
  <2>1. IdleHasDrained'
    BY <1>3 DEF ReleaseReservation, pollVars, IdleHasDrained
  <2> QED BY <1>0, <1>3, <2>1, ReleaseOrdinary
<1>4. CASE \E o \in Outputs : Relay(o)
  <2>1. IdleHasDrained'
    BY <1>4 DEF Relay, pollVars, IdleHasDrained
  <2> QED BY <1>0, <1>4, <2>1, RelayOrdinary
<1>5. CASE \E o \in Outputs : SenderChange(o)
  <2>1. UNCHANGED <<active, queue, nextId, slots, finished, clips, pollVars>>
    BY <1>5 DEF SenderChange, RelayChange, schedVars
  <2> QED BY <1>0, <2>1, ElsewhereOrdinary DEF IdleHasDrained, pollVars
<1>6. CASE AdvanceTime
  <2>1. UNCHANGED <<active, queue, nextId, slots, finished, clips, pollVars>>
    BY <1>6 DEF AdvanceTime, Sched!AdvanceTime, mixerVars
  <2> QED BY <1>0, <2>1, ElsewhereOrdinary DEF IdleHasDrained, pollVars
<1>7. CASE Poll
  <2>1. CASE PollTake
    <3>1. IdleHasDrained' /\ done = <<>>
      BY <2>1 DEF PollTake, IdleHasDrained
    <3> QED BY <1>0, <2>1, <3>1, PollTakeOrdinary
  <2>2. CASE PollReap
    <3>1. IdleHasDrained'
      BY <2>2 DEF PollReap, IdleHasDrained
    <3> QED BY <1>0, <2>2, <3>1, PollReapOrdinary
  <2>3. CASE PollComplete
    <3>1. IdleHasDrained'
      BY <2>3 DEF PollComplete, IdleHasDrained
    <3> QED BY <1>0, <2>3, <3>1, PollCompleteOrdinary
  <2>4. CASE PollSkip
    <3>1. IdleHasDrained'
      BY <2>4 DEF PollSkip, IdleHasDrained
    <3> QED BY <1>0, <2>4, <3>1, PollSkipOrdinary
  <2>5. CASE PollTick
    <3>1. IdleHasDrained'
      BY <2>5 DEF PollTick, IdleHasDrained
    <3> QED BY <1>0, <2>5, <3>1, PollTickOrdinary
  <2> QED BY <1>7, <2>1, <2>2, <2>3, <2>4, <2>5 DEF Poll
<1>8. CASE UNCHANGED vars
  <2>1. UNCHANGED <<active, queue, nextId, slots, finished, clips, pollVars>>
    BY <1>8 DEF vars, schedVars, mixerVars
  <2> QED BY <1>0, <2>1, ElsewhereOrdinary DEF IdleHasDrained, pollVars
<1> QED BY <1>1, <1>2, <1>3, <1>4, <1>5, <1>6, <1>7, <1>8 DEF Next

LEMMA InitOrdinary == Init => OrdinaryInv /\ IdleHasDrained
<1> SUFFICES ASSUME Init PROVE OrdinaryInv /\ IdleHasDrained
  OBVIOUS
<1>1. IInv
  BY InitIInv
<1>2. active = {} /\ queue = {} /\ Sched!InFlight = {} /\ seen = {} /\ done = <<>>
  BY DEF Init, Sched!Init, Sched!InFlight
<1>3. Ids(Sched!InFlight) = {}
  BY <1>2 DEF Ids
<1> QED
  BY <1>1, <1>2, <1>3
     DEF OrdinaryInv, IdleHasDrained, ClipKept, ReportedHavePlayed, SeenAreOver, HasTargets,
         OccupiedHasEnd

(* The inductive invariant of a coordinator that is asked for no barge-in.   *)
THEOREM OrdinaryInvariance == ASSUME Ordinary PROVE Spec => []OrdinaryInv
<1>1. Init => OrdinaryInv /\ IdleHasDrained
  BY InitOrdinary
<1>2. (OrdinaryInv /\ IdleHasDrained) /\ [Next]_vars => (OrdinaryInv /\ IdleHasDrained)'
  BY NextOrdinary
<1> QED BY <1>1, <1>2, PTL DEF Spec

(* Without barge-ins the clip of everything that plays or waits stays stored.*)
THEOREM ClipsAreKept == ASSUME Ordinary PROVE Spec => []ClipKept
<1>1. OrdinaryInv => ClipKept
  BY DEF OrdinaryInv
<1> QED BY <1>1, OrdinaryInvariance, PTL

(* Without barge-ins nothing occupies an output that neither plays nor has   *)
(* had its end reported: whatever relays stop, start and stall, every        *)
(* occupied output has a slot to be played out, reaped, or already reported. *)
THEOREM OccupantsEnd == ASSUME Ordinary PROVE Spec => []OccupiedHasEnd
<1>1. OrdinaryInv => OccupiedHasEnd
  BY DEF OrdinaryInv
<1> QED BY <1>1, OrdinaryInvariance, PTL

-----------------------------------------------------------------------------
(* The loop of settle() *)
(***************************************************************************)
(* The loop computes the sweep. What it has started is the sweep of what   *)
(* it has passed: an entry that waits although it comes before one that    *)
(* was started is blocked by what was started before it, and stays         *)
(* blocked. Two sweeps of one queue are equal, since the least entry they  *)
(* disagree about has the same entries before it.                          *)
(***************************************************************************)

\* Entries of the queue have their own place in it.
Ordered ==
  /\ \A e \in arrived : e.priority \in Int /\ e.seq \in Int
  /\ \A e, f \in arrived : e.seq = f.seq => e = f

\* What has started is clear of what was claimed, and no two entries overlap.
Disjointed ==
  /\ \A e \in started : e.targets \cap claimed = {}
  /\ \A e, f \in started : e # f => ~Conflict(e, f)

\* An entry that a later one has been started before is blocked by an earlier one.
PassedOver ==
  \A e \in waiting, f \in started : Before(e, f) =>
    \/ e.targets \cap claimed # {}
    \/ \E g \in started : Before(g, e) /\ Conflict(g, e)

\* Every sweep starts what the loop has started.
Forced == \A S \in SUBSET arrived : IsSweep(S, arrived, claimed) => started \subseteq S

LoopInv ==
  /\ Ordered
  /\ started \subseteq arrived /\ waiting = arrived \ started
  /\ Disjointed /\ PassedOver /\ Forced
  /\ halted => \A e \in waiting : ~Startable(e)

LEMMA BeforeIsTotal ==
  ASSUME NEW e, NEW f, e.priority \in Int, f.priority \in Int, e.seq \in Int, f.seq \in Int, e.seq # f.seq
  PROVE  Before(e, f) \/ Before(f, e)
BY DEF Before

LEMMA StartableIs ==
  ASSUME NEW e
  PROVE  Startable(e) <=> e.targets \cap claimed = {} /\ \A f \in started : ~Conflict(e, f)
BY DEF Startable, Occupied, Conflict

LEMMA QueuesAreOrdered == LoopConstants /\ arrived \in Queues => Ordered
<1> SUFFICES ASSUME LoopConstants, arrived \in Queues PROVE Ordered
  OBVIOUS
<1>1. PICK n \in 0..QueueLen : \E f \in [1..n -> [priority : Ranks, targets : (SUBSET Targets) \ {{}}]] :
        arrived = {[seq |-> s, priority |-> f[s].priority, targets |-> f[s].targets] : s \in DOMAIN f}
  BY DEF Queues
<1>2. PICK f \in [1..n -> [priority : Ranks, targets : (SUBSET Targets) \ {{}}]] :
        arrived = {[seq |-> s, priority |-> f[s].priority, targets |-> f[s].targets] : s \in 1..n}
  BY <1>1
<1>3. \A e \in arrived : \E s \in 1..n :
        e = [seq |-> s, priority |-> f[s].priority, targets |-> f[s].targets] /\ f[s].priority \in Ranks
  BY <1>2
<1>4. n \in Int /\ Ranks \subseteq Int
  BY <1>1 DEF LoopConstants
<1>5. \A e \in arrived : e.priority \in Int /\ e.seq \in Int
  <2> TAKE e \in arrived
  <2>1. PICK s \in 1..n : /\ e = [seq |-> s, priority |-> f[s].priority, targets |-> f[s].targets]
                          /\ f[s].priority \in Ranks
    BY <1>3
  <2>2. e.seq = s /\ s \in Int /\ e.priority = f[s].priority
    BY <1>4, <2>1
  <2>3. QED
    BY <1>4, <2>1, <2>2
<1>6. \A e, g \in arrived : e.seq = g.seq => e = g
  BY <1>3
<1>7. QED
  BY <1>5, <1>6 DEF Ordered

LEMMA InitLoop == LoopConstants /\ LoopInit => LoopInv
<1> SUFFICES ASSUME LoopConstants, LoopInit PROVE LoopInv
  OBVIOUS
<1>1. Ordered
  BY QueuesAreOrdered DEF LoopInit
<1>2. Disjointed /\ PassedOver /\ Forced
  BY DEF LoopInit, Disjointed, PassedOver, Forced
<1>3. QED
  BY <1>1, <1>2 DEF LoopInit, LoopInv

LEMMA IterateLoop == LoopInv /\ Iterate => LoopInv'
<1> SUFFICES ASSUME LoopInv, Iterate PROVE LoopInv'
  OBVIOUS
<1>1. PICK e0 \in waiting :
        /\ Startable(e0)
        /\ \A f \in waiting : Before(f, e0) => ~Startable(f)
        /\ waiting' = waiting \ {e0}
        /\ started' = started \cup {e0}
  BY DEF Iterate
<1>2. arrived' = arrived /\ claimed' = claimed /\ halted' = FALSE
  BY DEF Iterate
<1>3. /\ Ordered /\ started \subseteq arrived /\ waiting = arrived \ started
      /\ Disjointed /\ PassedOver /\ Forced
  BY DEF LoopInv
<1>4. Ordered'
  BY <1>2, <1>3 DEF Ordered
<1>5. e0.targets \cap claimed = {} /\ \A f \in started : ~Conflict(e0, f)
  BY <1>1, StartableIs
<1>6. Disjointed'
  BY <1>1, <1>2, <1>3, <1>5 DEF Disjointed, Conflict
<1>7. PassedOver'
  <2> SUFFICES ASSUME NEW e \in waiting', NEW f \in started', Before(e, f), e.targets \cap claimed = {}
               PROVE  \E g \in started' : Before(g, e) /\ Conflict(g, e)
    BY <1>2 DEF PassedOver, Before, Conflict
  <2>1. e \in waiting /\ e \in arrived /\ e # e0
    BY <1>1, <1>3
  <2>2. CASE f \in started
    BY <1>1, <1>3, <2>1, <2>2 DEF PassedOver
  <2>3. CASE f = e0
    <3>1. ~Startable(e)
      BY <1>1, <2>1, <2>3
    <3>2. PICK g \in started : Conflict(e, g)
      BY <3>1, StartableIs
    <3>3. Before(e, g) \/ Before(g, e)
      BY <1>3, <2>1, <3>2, BeforeIsTotal DEF Ordered
    <3>4. QED
      BY <1>1, <1>3, <2>1, <3>2, <3>3 DEF PassedOver, Conflict
  <2>4. QED
    BY <1>1, <2>2, <2>3
<1>8. Forced'
  <2> SUFFICES ASSUME NEW S \in SUBSET arrived, IsSweep(S, arrived, claimed)
               PROVE  e0 \in S
    BY <1>1, <1>2, <1>3 DEF Forced, IsSweep, Before, Conflict
  <2>1. started \subseteq S
    BY <1>3 DEF Forced
  <2>2. \A f \in S : Before(f, e0) => ~Conflict(f, e0)
    <3> SUFFICES ASSUME NEW f \in S, Before(f, e0), Conflict(f, e0) PROVE FALSE
      OBVIOUS
    <3>1. f \in waiting
      BY <1>3, <1>5 DEF Conflict
    <3>2. PICK g \in started : Conflict(f, g)
      BY <1>1, <3>1, StartableIs DEF IsSweep
    <3>3. f # g /\ g \in S /\ g \in arrived /\ f \in arrived
      BY <1>3, <2>1, <3>1, <3>2
    <3>4. Before(f, g) \/ Before(g, f)
      BY <1>3, <3>3, BeforeIsTotal DEF Ordered
    <3>5. QED
      BY <3>2, <3>3, <3>4 DEF IsSweep, Conflict
  <2>3. QED
    BY <1>1, <1>3, <1>5, <2>2 DEF IsSweep
<1>9. QED
  BY <1>1, <1>2, <1>3, <1>4, <1>6, <1>7, <1>8 DEF LoopInv

LEMMA StepLoop == LoopInv /\ [LoopNext]_loopVars => LoopInv'
<1>1. LoopInv /\ Break => LoopInv'
  <2> SUFFICES ASSUME LoopInv, Break PROVE LoopInv'
    OBVIOUS
  <2>1. UNCHANGED <<arrived, claimed, waiting, started>> /\ \A e \in waiting : ~Startable(e)
    BY DEF Break
  <2>2. (\A e \in waiting : ~Startable(e))'
    BY <2>1 DEF Startable, Occupied
  <2>3. Ordered' /\ Disjointed' /\ PassedOver' /\ Forced'
    BY <2>1 DEF LoopInv, Ordered, Disjointed, PassedOver, Forced, IsSweep, Before, Conflict
  <2>4. QED
    BY <2>1, <2>2, <2>3 DEF LoopInv
<1>2. LoopInv /\ UNCHANGED loopVars => LoopInv'
  BY DEF loopVars, LoopInv, Ordered, Disjointed, PassedOver, Forced, IsSweep, Before, Conflict, Startable, Occupied
<1>3. QED
  BY <1>1, <1>2, IterateLoop DEF LoopNext

\* When the loop has halted, what it has started is a sweep, and the only one.
LEMMA HaltedLoop == LoopInv => LoopComputesSweep
<1> SUFFICES ASSUME LoopInv, halted
             PROVE  \A S \in SUBSET arrived : IsSweep(S, arrived, claimed) <=> S = started
  BY DEF LoopComputesSweep, LoopInv
<1>1. /\ Ordered /\ started \subseteq arrived /\ waiting = arrived \ started
      /\ Disjointed /\ PassedOver /\ Forced /\ \A e \in waiting : ~Startable(e)
  BY DEF LoopInv
<1>2. \A e \in waiting : e.targets \cap claimed # {} \/ \E g \in started : Conflict(e, g)
  BY <1>1, StartableIs
<1>3. IsSweep(started, arrived, claimed)
  <2> SUFFICES ASSUME NEW e \in arrived
               PROVE  e \in started <=> /\ e.targets \cap claimed = {}
                                        /\ \A f \in started : Before(f, e) => ~Conflict(f, e)
    BY DEF IsSweep
  <2>1. CASE e \in started
    <3>1. ~Before(e, e)
      BY <1>1 DEF Ordered, Before
    <3>2. QED
      BY <1>1, <2>1, <3>1 DEF Disjointed, Conflict
  <2>2. CASE e \notin started /\ e.targets \cap claimed = {}
    <3>1. PICK g \in started : Conflict(e, g)
      BY <1>1, <1>2, <2>2
    <3>2. Before(e, g) \/ Before(g, e)
      BY <1>1, <2>2, <3>1, BeforeIsTotal DEF Ordered
    <3>3. QED
      BY <1>1, <2>2, <3>1, <3>2 DEF PassedOver, Conflict
  <2>3. QED
    BY <2>1, <2>2
<1>4. ASSUME NEW S \in SUBSET arrived, IsSweep(S, arrived, claimed)
      PROVE  S = started
  <2>1. started \subseteq S
    BY <1>1, <1>4 DEF Forced
  <2>2. ASSUME NEW e \in S, e \notin started PROVE FALSE
    <3>1. PICK g \in started : Conflict(e, g)
      BY <1>1, <1>2, <1>4, <2>2 DEF IsSweep
    <3>2. g \in S /\ e \in arrived /\ g \in arrived /\ e # g
      BY <1>1, <2>1, <2>2, <3>1
    <3>3. Before(e, g) \/ Before(g, e)
      BY <1>1, <3>2, BeforeIsTotal DEF Ordered
    <3>4. QED
      BY <1>4, <2>2, <3>1, <3>2, <3>3 DEF IsSweep, Conflict
  <2>3. QED
    BY <2>1, <2>2
<1>5. QED
  BY <1>3, <1>4

(* The loop in settle() starts the one set that a single walk of the queue
   starts (announce/arbiter.rs): AnnounceScheduler may use IsSweep for it. *)
THEOREM SettleIsOneSweep == ASSUME LoopConstants PROVE LoopSpec => []LoopComputesSweep
<1>1. LoopInit => LoopInv
  BY InitLoop
<1>2. LoopInv /\ [LoopNext]_loopVars => LoopInv'
  BY StepLoop
<1>3. LoopInv => LoopComputesSweep
  BY HaltedLoop
<1>4. QED
  BY <1>1, <1>2, <1>3, PTL DEF LoopSpec

=============================================================================
