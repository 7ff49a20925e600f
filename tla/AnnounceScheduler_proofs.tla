----------------------- MODULE AnnounceScheduler_proofs -----------------------
(***************************************************************************)
(* Proofs about the announcement scheduler, for every set of outputs,      *)
(* reservations, priorities and TTLs and every bound.                      *)
(*                                                                         *)
(* Every operation ends in settle(), so the argument is one lemma about    *)
(* Settle(A, Q, R): if the entries the operation hands it (A playing, Q    *)
(* waiting) are well typed, pairwise distinct by id and by seq, and A is   *)
(* pairwise disjoint, then so is what Settle leaves, and every entry it    *)
(* leaves waiting is blocked.  Each operation then only has to establish   *)
(* that hypothesis.                                                        *)
(***************************************************************************)
EXTENDS AnnounceScheduler, TLAPS

\* What an operation owes settle().
SettleReady(A, Q) ==
  /\ A \subseteq Entry
  /\ Q \subseteq Entry
  /\ A \cap Q = {}
  /\ \A e, f \in A \cup Q : e.id = f.id \/ e.seq = f.seq => e = f
  /\ \A e, f \in A : e # f => ~Conflict(e, f)

(* Two entries of different arrival are ordered one way or the other.       *)
LEMMA BeforeTotal ==
  ASSUME NEW e \in Entry, NEW f \in Entry, e.seq # f.seq
  PROVE  Before(e, f) \/ Before(f, e)
BY DEF Before, Entry

(* The sweep of settle() gives no output to two clips, whoever was playing  *)
(* before, and leaves nothing waiting that could have started.              *)
LEMMA SettleExclusive ==
  ASSUME NEW A, NEW Q, NEW R, SettleReady(A, Q), Settle(A, Q, R)
  PROVE  /\ active' \subseteq Entry
         /\ queue' \subseteq Entry
         /\ active' \cup queue' \subseteq A \cup Q
         /\ active' \cap queue' = {}
         /\ \A e, f \in active' : e # f => ~Conflict(e, f)
         /\ \A e \in queue' : e.targets \cap Busy(active', R) # {}
<1> DEFINE fresh == {e \in Q : ~Expired(e)}
<1>1. PICK S \in SUBSET fresh : /\ IsSweep(S, fresh, Busy(A, R))
                                /\ active' = A \cup S
                                /\ queue' = fresh \ S
  BY DEF Settle
<1>2. /\ active' \subseteq Entry
      /\ queue' \subseteq Entry
      /\ active' \cup queue' \subseteq A \cup Q
      /\ active' \cap queue' = {}
  BY <1>1 DEF SettleReady
<1>3. ASSUME NEW e \in active', NEW f \in active', e # f
      PROVE  ~Conflict(e, f)
  <2>1. CASE e \in A /\ f \in A
    BY <2>1, <1>3 DEF SettleReady
  <2>2. CASE e \in S /\ f \in A
    <3>1. e.targets \cap Busy(A, R) = {}
      BY <1>1, <2>2 DEF IsSweep
    <3> QED BY <3>1, <2>2 DEF Busy, Occupied, Conflict
  <2>3. CASE e \in A /\ f \in S
    <3>1. f.targets \cap Busy(A, R) = {}
      BY <1>1, <2>3 DEF IsSweep
    <3> QED BY <3>1, <2>3 DEF Busy, Occupied, Conflict
  <2>4. CASE e \in S /\ f \in S
    <3>1. e \in Entry /\ f \in Entry /\ e.seq # f.seq
      BY <2>4, <1>1, <1>3 DEF SettleReady
    <3>2. Before(e, f) \/ Before(f, e)
      BY <3>1, BeforeTotal
    <3>3. Before(e, f) => ~Conflict(e, f)
      BY <1>1, <2>4 DEF IsSweep
    <3>4. Before(f, e) => ~Conflict(f, e)
      BY <1>1, <2>4 DEF IsSweep
    <3> QED BY <3>2, <3>3, <3>4 DEF Conflict
  <2> QED BY <1>1, <1>3, <2>1, <2>2, <2>3, <2>4
<1>4. ASSUME NEW e \in queue'
      PROVE  e.targets \cap Busy(active', R) # {}
  <2>1. e \in fresh /\ e \notin S
    BY <1>1, <1>4
  <2>2. \/ e.targets \cap Busy(A, R) # {}
        \/ \E f \in S : Conflict(f, e)
    BY <1>1, <2>1 DEF IsSweep
  <2>3. CASE e.targets \cap Busy(A, R) # {}
    BY <2>3, <1>1 DEF Busy, Occupied
  <2>4. CASE \E f \in S : Conflict(f, e)
    BY <2>4, <1>1 DEF Busy, Occupied, Conflict
  <2> QED BY <2>2, <2>3, <2>4
<1> QED BY <1>2, <1>3, <1>4

(* What an operation owes to keep IInv: SettleReady, and counters past       *)
(* every entry it hands over.                                               *)
LEMMA SettlePreserves ==
  ASSUME NEW A, NEW Q,
         SettleReady(A, Q),
         Settle(A, Q, reservations'),
         reservations' \in [Reservations -> SUBSET Outputs],
         nextSeq' \in Nat, nextId' \in Nat \ {0}, now' \in Nat,
         \A e \in A \cup Q : e.id < nextId' /\ e.seq < nextSeq'
  PROVE  IInv'
<1>1. /\ active' \subseteq Entry
      /\ queue' \subseteq Entry
      /\ active' \cup queue' \subseteq A \cup Q
      /\ active' \cap queue' = {}
      /\ \A e, f \in active' : e # f => ~Conflict(e, f)
      /\ \A e \in queue' : e.targets \cap Busy(active', reservations') # {}
  BY SettleExclusive
<1>2. TypeOK'
  BY <1>1 DEF TypeOK
<1>3. ArrivalsAreNew'
  BY <1>1 DEF ArrivalsAreNew, InFlight
<1>4. OnePlacePerId'
  BY <1>1 DEF OnePlacePerId, InFlight, SettleReady
<1>5. ExclusiveOccupancy'
  BY <1>1 DEF ExclusiveOccupancy
<1>6. QueuedIsBlocked'
  BY <1>1 DEF QueuedIsBlocked
<1> QED BY <1>2, <1>3, <1>4, <1>5, <1>6 DEF IInv

LEMMA NewEntryType ==
  ASSUME IInv, NEW req \in Request
  PROVE  /\ NewEntry(req) \in Entry
         /\ NewEntry(req).id = nextId
         /\ NewEntry(req).seq = nextSeq
         /\ NewEntry(req).targets = req.targets
<1>1. /\ nextId \in Nat \ {0}
      /\ nextSeq \in Nat
      /\ now \in Nat
  BY DEF IInv, TypeOK
<1>2. /\ req.priority \in Int
      /\ req.targets \in SUBSET Outputs
      /\ req.bargeIn \in BOOLEAN
      /\ req.ttl \in Nat \cup {NoTTL}
  BY SchedulerConstants DEF Request
<1>3. Deadline(req) \in Nat \cup {NoTTL}
  BY <1>1, <1>2 DEF Deadline
<1> QED BY <1>1, <1>2, <1>3 DEF NewEntry, Entry

LEMMA InitIInv == Init => IInv
BY SchedulerConstants
   DEF Init, IInv, TypeOK, ArrivalsAreNew, OnePlacePerId, ExclusiveOccupancy, QueuedIsBlocked, InFlight

(* What IInv says of the entries in flight, in the form Settle needs.        *)
LEMMA IInvReady ==
  ASSUME IInv
  PROVE  /\ SettleReady(active, queue)
         /\ \A e \in active \cup queue : e.id < nextId /\ e.seq < nextSeq
         /\ reservations \in [Reservations -> SUBSET Outputs]
         /\ nextSeq \in Nat
         /\ nextId \in Nat \ {0}
         /\ now \in Nat
BY DEF IInv, TypeOK, ArrivalsAreNew, OnePlacePerId, ExclusiveOccupancy, InFlight, SettleReady

LEMMA BeginIInv ==
  ASSUME IInv, NEW req \in Request, Begin(req)
  PROVE  IInv'
<1> DEFINE new == NewEntry(req)
<1>1. /\ SettleReady(active, queue)
      /\ \A e \in active \cup queue : e \in Entry /\ e.id < nextId /\ e.seq < nextSeq
      /\ reservations \in [Reservations -> SUBSET Outputs]
      /\ nextSeq \in Nat
      /\ nextId \in Nat \ {0}
      /\ now \in Nat
  BY IInvReady DEF SettleReady
<1>2. /\ new \in Entry
      /\ new.id = nextId
      /\ new.seq = nextSeq
      /\ new.targets = req.targets
  BY NewEntryType
<1>3. \A e \in active \cup queue : e.id # new.id /\ e.seq # new.seq
  BY <1>1, <1>2 DEF Entry
<1>4. CASE BeginFree(req)
  <2>1. \A e \in active : ~Conflict(e, new)
    BY <1>2, <1>4 DEF BeginFree, Overlaps, Busy, Occupied, Conflict
  <2>2. SettleReady(active \cup {new}, queue)
    BY <1>1, <1>2, <1>3, <2>1 DEF SettleReady, Conflict
  <2>3. \A e \in (active \cup {new}) \cup queue : e.id < nextId' /\ e.seq < nextSeq'
    BY <1>1, <1>2, <1>4 DEF BeginFree, Admitted, Entry
  <2> QED
    BY <1>1, <1>4, <2>2, <2>3, SettlePreserves DEF BeginFree, Admitted
<1>5. CASE BeginBargeIn(req)
  <2> DEFINE A == (active \ Victims(req)) \cup {new}
             Q == queue \cup {e \in Victims(req) : ~Expired(e)}
  <2>1. \A e \in active \ Victims(req) : ~Conflict(e, new)
    BY <1>2 DEF Victims, Conflict
  <2>2. Victims(req) \subseteq active
    BY DEF Victims
  <2>3. SettleReady(A, Q)
    <3>1. A \cup Q \subseteq (active \cup queue) \cup {new}
      BY <2>2
    <3>2. A \subseteq Entry /\ Q \subseteq Entry /\ A \cap Q = {}
      BY <1>1, <1>2, <1>3, <2>2 DEF SettleReady
    <3>3. \A e, f \in A \cup Q : e.id = f.id \/ e.seq = f.seq => e = f
      BY <1>1, <1>3, <3>1 DEF SettleReady
    <3>4. \A e, f \in A : e # f => ~Conflict(e, f)
      BY <1>1, <2>1 DEF SettleReady, Conflict
    <3> QED BY <3>2, <3>3, <3>4 DEF SettleReady
  <2>4. \A e \in A \cup Q : e.id < nextId' /\ e.seq < nextSeq'
    BY <1>1, <1>2, <1>5, <2>2 DEF BeginBargeIn, Admitted, Entry
  <2>5. Settle(A, Q, reservations')
    BY <1>5 DEF BeginBargeIn, Admitted
  <2> HIDE DEF A, Q
  <2> QED
    BY <1>1, <1>5, <2>3, <2>4, <2>5, SettlePreserves DEF BeginBargeIn, Admitted
<1>6. CASE BeginQueue(req)
  <2>1. SettleReady(active, queue \cup {new})
    BY <1>1, <1>2, <1>3 DEF SettleReady
  <2>2. \A e \in active \cup (queue \cup {new}) : e.id < nextId' /\ e.seq < nextSeq'
    BY <1>1, <1>2, <1>6 DEF BeginQueue, Admitted, Entry
  <2> QED
    BY <1>1, <1>6, <2>1, <2>2, SettlePreserves DEF BeginQueue, Admitted
<1>7. CASE BeginReject(req)
  <2>1. \A e \in active \cup queue : e.id < nextId' /\ e.seq < nextSeq'
    BY <1>1, <1>7 DEF BeginReject, Entry
  <2> QED
    BY <1>1, <1>7, <2>1, SettlePreserves DEF BeginReject
<1> QED BY <1>4, <1>5, <1>6, <1>7 DEF Begin

LEMMA CompleteIInv ==
  ASSUME IInv, NEW id, Complete(id)
  PROVE  IInv'
<1> DEFINE A == {e \in active : e.id # id}
<1>1. SettleReady(A, queue)
  BY IInvReady DEF SettleReady
<1>2. \A e \in A \cup queue : e.id < nextId' /\ e.seq < nextSeq'
  BY IInvReady DEF Complete
<1>3. Settle(A, queue, reservations')
  BY DEF Complete
<1> HIDE DEF A
<1> QED BY <1>1, <1>2, <1>3, IInvReady, SettlePreserves DEF Complete

LEMMA TickIInv == IInv /\ Tick => IInv'
BY IInvReady, SettlePreserves DEF Tick

(* A claim only blocks more.                                                *)
LEMMA ReserveIInv ==
  ASSUME IInv, NEW r \in Reservations, NEW outs \in SUBSET Outputs,
         reservations[r] = {}, Reserve(r, outs)
  PROVE  IInv'
<1>1. /\ reservations' \in [Reservations -> SUBSET Outputs]
      /\ \A q \in Reservations : reservations[q] \subseteq reservations'[q]
  BY DEF IInv, TypeOK, Reserve
<1>2. Busy(active, reservations) \subseteq Busy(active, reservations')
  BY <1>1 DEF Busy, Reserved
<1>3. QueuedIsBlocked'
  BY <1>2 DEF IInv, QueuedIsBlocked, Reserve
<1> QED
  BY <1>1, <1>3 DEF IInv, TypeOK, ArrivalsAreNew, OnePlacePerId, ExclusiveOccupancy, InFlight, Reserve

LEMMA ReleaseIInv ==
  ASSUME IInv, NEW r \in Reservations, ReleaseReservation(r)
  PROVE  IInv'
<1>1. reservations' \in [Reservations -> SUBSET Outputs]
  BY DEF IInv, TypeOK, ReleaseReservation
<1>2. Settle(active, queue, reservations')
  BY DEF ReleaseReservation
<1> QED BY <1>1, <1>2, IInvReady, SettlePreserves DEF ReleaseReservation

LEMMA NextIInv == IInv /\ [Next]_schedVars => IInv'
<1> SUFFICES ASSUME IInv, [Next]_schedVars PROVE IInv'
  OBVIOUS
<1>1. CASE \E req \in Request : Begin(req)
  BY <1>1, BeginIInv
<1>2. CASE \E id \in 1..MaxAnnouncements : Complete(id)
  BY <1>2, CompleteIInv
<1>3. CASE Tick
  BY <1>3, TickIInv
<1>4. CASE \E r \in Reservations, outs \in (SUBSET Outputs) \ {{}} :
             reservations[r] = {} /\ Reserve(r, outs)
  BY <1>4, ReserveIInv
<1>5. CASE \E r \in Reservations : ReleaseReservation(r)
  BY <1>5, ReleaseIInv
<1>6. CASE AdvanceTime
  BY <1>6 DEF AdvanceTime, IInv, TypeOK, ArrivalsAreNew, OnePlacePerId, ExclusiveOccupancy,
              QueuedIsBlocked, InFlight
<1>7. CASE UNCHANGED schedVars
  BY <1>7 DEF schedVars, IInv, TypeOK, ArrivalsAreNew, OnePlacePerId, ExclusiveOccupancy,
              QueuedIsBlocked, InFlight
<1> QED BY <1>1, <1>2, <1>3, <1>4, <1>5, <1>6, <1>7 DEF Next

(* The inductive invariant of the scheduler.                                *)
THEOREM SchedulerInvariant == Spec => []IInv
BY InitIInv, NextIInv, PTL DEF Spec

(* The scheduler's state keeps its types.                                   *)
THEOREM SchedulerTypeOK == Spec => []TypeOK
<1>1. IInv => TypeOK
  BY DEF IInv
<1> QED BY <1>1, SchedulerInvariant, PTL

(* No output is ever occupied by two announcements.                         *)
THEOREM OutputsAreExclusive == Spec => []ExclusiveOccupancy
<1>1. IInv => ExclusiveOccupancy
  BY DEF IInv
<1> QED BY <1>1, SchedulerInvariant, PTL

(* No announcement waits for outputs that are all free.                     *)
THEOREM NothingWaitsForFreeOutputs == Spec => []QueuedIsBlocked
<1>1. IInv => QueuedIsBlocked
  BY DEF IInv
<1> QED BY <1>1, SchedulerInvariant, PTL

(* An announcement is in one place at a time.                               *)
THEOREM AnnouncementsAreInOnePlace == Spec => []OnePlacePerId
<1>1. IInv => OnePlacePerId
  BY DEF IInv
<1> QED BY <1>1, SchedulerInvariant, PTL

-----------------------------------------------------------------------------
(* What settle() keeps, starts and leaves, for the action properties.       *)
LEMMA SettleKeeps ==
  ASSUME NEW A, NEW Q, NEW R, Settle(A, Q, R)
  PROVE  /\ A \subseteq active'
         /\ active' \subseteq A \cup Q
         /\ queue' \subseteq Q
         /\ \A e \in Q : Expired(e) \/ e \in InFlight'
         /\ \A e \in active' \ A : e.targets \cap Reserved(R) = {}
BY DEF Settle, IsSweep, Busy, InFlight

(* A step that is not an arrival hands settle() no more than it found.      *)
LEMMA QuietStep ==
  ASSUME IInv, [Next]_schedVars, ~(\E req \in Request : Begin(req))
  PROVE  \/ UNCHANGED <<active, queue, nextId>>
         \/ /\ UNCHANGED nextId
            /\ \E A \in SUBSET active :
                 /\ Settle(A, queue, reservations')
                 /\ \A e, f \in active \ A : e = f
<1>1. CASE \E id \in 1..MaxAnnouncements : Complete(id)
  <2> PICK id \in 1..MaxAnnouncements : Complete(id)
    BY <1>1
  <2> DEFINE A == {e \in active : e.id # id}
  <2>1. Settle(A, queue, reservations') /\ UNCHANGED nextId
    BY DEF Complete
  <2>2. \A e, f \in active \ A : e = f
    BY DEF IInv, OnePlacePerId, InFlight
  <2> QED BY <2>1, <2>2
<1>2. CASE Tick
  BY <1>2 DEF Tick
<1>3. CASE \E r \in Reservations, outs \in (SUBSET Outputs) \ {{}} :
             reservations[r] = {} /\ Reserve(r, outs)
  BY <1>3 DEF Reserve
<1>4. CASE \E r \in Reservations : ReleaseReservation(r)
  <2>1. Settle(active, queue, reservations') /\ UNCHANGED nextId
    BY <1>4 DEF ReleaseReservation
  <2> QED BY <2>1
<1>5. CASE AdvanceTime \/ UNCHANGED schedVars
  BY <1>5 DEF AdvanceTime, schedVars
<1> QED BY <1>1, <1>2, <1>3, <1>4, <1>5 DEF Next

(* An arriving clip is not one of those in flight.                          *)
LEMMA ArrivalIsNew ==
  ASSUME IInv, NEW req \in Request
  PROVE  /\ NewEntry(req) \notin InFlight
         /\ NewEntry(req).bargeIn = req.bargeIn
         /\ NewEntry(req).seq = nextSeq
         /\ NewEntry(req).targets = req.targets
BY NewEntryType DEF IInv, ArrivalsAreNew, TypeOK, NewEntry

(* A reserved output is started on by an arriving barge-in and nothing else.*)
THEOREM ReservationsAreRespected == Spec => ReservationRespected
<1> DEFINE Respects == \A e \in active' \ active :
                         e.targets \cap Reserved(reservations') # {} => e.bargeIn /\ e.seq = nextSeq
<1>1. ASSUME IInv, [Next]_schedVars PROVE Respects
  <2>1. CASE \E req \in Request : Begin(req)
    <3> PICK req \in Request : Begin(req)
      BY <2>1
    <3> DEFINE new == NewEntry(req)
    <3>1. new.bargeIn = req.bargeIn /\ new.seq = nextSeq /\ new.targets = req.targets
      BY <1>1, ArrivalIsNew
    <3>2. CASE BeginFree(req)
      <4>1. new.targets \cap Reserved(reservations') = {}
        BY <3>1, <3>2 DEF BeginFree, Admitted, Overlaps, Busy
      <4>2. \A e \in active' \ (active \cup {new}) : e.targets \cap Reserved(reservations') = {}
        BY <3>2, SettleKeeps DEF BeginFree, Admitted
      <4> HIDE DEF new
      <4> QED BY <4>1, <4>2
    <3>3. CASE BeginBargeIn(req)
      <4> DEFINE A == (active \ Victims(req)) \cup {new}
      <4>1. \A e \in active' \ A : e.targets \cap Reserved(reservations') = {}
        BY <3>3, SettleKeeps DEF BeginBargeIn, Admitted
      <4>2. req.bargeIn
        BY <3>3 DEF BeginBargeIn
      <4> HIDE DEF new
      <4> QED BY <3>1, <4>1, <4>2
    <3>4. CASE BeginQueue(req)
      BY <3>4, SettleKeeps DEF BeginQueue, Admitted
    <3>5. CASE BeginReject(req)
      BY <3>5, SettleKeeps DEF BeginReject
    <3> QED BY <3>2, <3>3, <3>4, <3>5 DEF Begin
  <2>2. CASE ~(\E req \in Request : Begin(req))
    <3>1. CASE UNCHANGED <<active, queue, nextId>>
      BY <3>1
    <3>2. CASE \E A \in SUBSET active : Settle(A, queue, reservations')
      BY <3>2, SettleKeeps
    <3> QED BY <1>1, <2>2, <3>1, <3>2, QuietStep
  <2> QED BY <2>1, <2>2
<1> QED BY <1>1, SchedulerInvariant, PTL DEF Spec, ReservationRespected

(* A playing clip goes back to the queue only for a barge-in on its outputs.*)
THEOREM PreemptionIsBargeIn == Spec => PreemptedByBargeInOnly
<1> DEFINE Justified == \A e \in active \cap queue' :
                          \E f \in active' \ active : f.bargeIn /\ f.seq = nextSeq /\ Conflict(e, f)
<1>1. ASSUME IInv, [Next]_schedVars PROVE Justified
  <2>1. active \cap queue = {}
    BY <1>1 DEF IInv, OnePlacePerId
  <2>2. CASE \E req \in Request : Begin(req)
    <3> PICK req \in Request : Begin(req)
      BY <2>2
    <3> DEFINE new == NewEntry(req)
    <3>1. /\ new \notin active
          /\ new.bargeIn = req.bargeIn
          /\ new.seq = nextSeq
          /\ new.targets = req.targets
      BY <1>1, ArrivalIsNew DEF InFlight
    <3>2. CASE BeginFree(req)
      BY <2>1, <3>2, SettleKeeps DEF BeginFree
    <3>3. CASE BeginBargeIn(req)
      <4> DEFINE kept == {e \in Victims(req) : ~Expired(e)}
      <4>1. new \in active' /\ queue' \subseteq queue \cup kept
        BY <3>3, SettleKeeps DEF BeginBargeIn
      <4>2. \A e \in kept : Conflict(e, new)
        BY <3>1 DEF Victims, Conflict
      <4>3. req.bargeIn
        BY <3>3 DEF BeginBargeIn
      <4> HIDE DEF new, kept
      <4> QED BY <2>1, <3>1, <4>1, <4>2, <4>3
    <3>4. CASE BeginQueue(req)
      <4>1. queue' \subseteq queue \cup {new}
        BY <3>4, SettleKeeps DEF BeginQueue
      <4> QED BY <2>1, <3>1, <4>1
    <3>5. CASE BeginReject(req)
      BY <2>1, <3>5, SettleKeeps DEF BeginReject
    <3> QED BY <3>2, <3>3, <3>4, <3>5 DEF Begin
  <2>3. CASE ~(\E req \in Request : Begin(req))
    <3>1. queue' \subseteq queue
      BY <1>1, <2>3, QuietStep, SettleKeeps
    <3> QED BY <2>1, <3>1
  <2> QED BY <2>2, <2>3
<1> QED BY <1>1, SchedulerInvariant, PTL DEF Spec, PreemptedByBargeInOnly

(* No clip in flight disappears but by its deadline or by completing.       *)
THEOREM NoAnnouncementIsLost == Spec => NothingLost
<1> DEFINE Kept ==
      /\ nextId' # nextId => \A e \in InFlight : Expired(e) \/ e \in InFlight'
      /\ \A e \in queue : Expired(e) \/ e \in InFlight'
      /\ \A e, f \in active : {e, f} \cap InFlight' = {} /\ e # f => Expired(e) \/ Expired(f)
<1>1. ASSUME IInv, [Next]_schedVars PROVE Kept
  <2>1. CASE \E req \in Request : Begin(req)
    <3> PICK req \in Request : Begin(req)
      BY <2>1
    <3> SUFFICES \A e \in InFlight : Expired(e) \/ e \in InFlight'
      BY DEF InFlight
    <3>1. CASE BeginFree(req)
      BY <3>1, SettleKeeps DEF BeginFree, InFlight
    <3>2. CASE BeginBargeIn(req)
      <4> DEFINE A == (active \ Victims(req)) \cup {NewEntry(req)}
                 Q == queue \cup {e \in Victims(req) : ~Expired(e)}
      <4>1. Settle(A, Q, reservations)
        BY <3>2 DEF BeginBargeIn
      <4>2. \A e \in InFlight : Expired(e) \/ e \in A \/ e \in Q
        BY DEF InFlight
      <4> HIDE DEF A, Q
      <4>3. A \subseteq active' /\ \A e \in Q : Expired(e) \/ e \in InFlight'
        BY <4>1, SettleKeeps
      <4> QED BY <4>2, <4>3 DEF InFlight
    <3>3. CASE BeginQueue(req)
      <4>1. Settle(active, queue \cup {NewEntry(req)}, reservations)
        BY <3>3 DEF BeginQueue
      <4>2. active \subseteq active' /\ \A e \in queue : Expired(e) \/ e \in InFlight'
        BY <4>1, SettleKeeps
      <4> QED BY <4>2 DEF InFlight
    <3>4. CASE BeginReject(req)
      BY <3>4, SettleKeeps DEF BeginReject, InFlight
    <3> QED BY <3>1, <3>2, <3>3, <3>4 DEF Begin
  <2>2. CASE ~(\E req \in Request : Begin(req))
    <3>1. CASE UNCHANGED <<active, queue, nextId>>
      BY <3>1 DEF InFlight
    <3>2. CASE /\ UNCHANGED nextId
               /\ \E A \in SUBSET active :
                    /\ Settle(A, queue, reservations')
                    /\ \A e, f \in active \ A : e = f
      <4> PICK A \in SUBSET active : /\ Settle(A, queue, reservations')
                                     /\ \A e, f \in active \ A : e = f
        BY <3>2
      <4>1. A \subseteq InFlight' /\ \A e \in queue : Expired(e) \/ e \in InFlight'
        BY SettleKeeps DEF InFlight
      <4> QED BY <3>2, <4>1
    <3> QED BY <1>1, <2>2, <3>1, <3>2, QuietStep
  <2> QED BY <2>1, <2>2
<1> QED BY <1>1, SchedulerInvariant, PTL DEF Spec, NothingLost

-----------------------------------------------------------------------------
(* Two entries cannot each come before the other.                           *)
LEMMA BeforeOneWay ==
  ASSUME NEW e \in Entry, NEW f \in Entry, Before(e, f)
  PROVE  ~Before(f, e)
BY DEF Before, Entry

(* Whom one sweep starts, whom it leaves waiting, and who else is in the way. *)
LEMMA SettleOvertakes ==
  ASSUME NEW A, NEW Q, NEW R, Q \subseteq Entry, Settle(A, Q, R),
         NEW e \in Q \cap queue', NEW f \in (Q \cap active') \ A, Before(e, f)
  PROVE  e.targets \cap Busy(active' \ {f}, R) # {}
<1> DEFINE fresh == {x \in Q : ~Expired(x)}
<1>1. PICK S \in SUBSET fresh : /\ IsSweep(S, fresh, Busy(A, R))
                                /\ active' = A \cup S
                                /\ queue' = fresh \ S
  BY DEF Settle
<1>2. e \in fresh /\ e \notin S
  BY <1>1
<1>3. \/ e.targets \cap Busy(A, R) # {}
      \/ \E g \in S : Before(g, e) /\ Conflict(g, e)
  BY <1>1, <1>2 DEF IsSweep
<1>4. A \subseteq active' \ {f}
  BY <1>1
<1>5. CASE e.targets \cap Busy(A, R) # {}
  BY <1>4, <1>5 DEF Busy, Occupied
<1>6. CASE \E g \in S : Before(g, e) /\ Conflict(g, e)
  <2> PICK g \in S : Before(g, e) /\ Conflict(g, e)
    BY <1>6
  <2>1. g # f
    BY BeforeOneWay
  <2>2. g \in active' \ {f}
    BY <1>1, <2>1
  <2> QED BY <2>2 DEF Busy, Occupied, Conflict
<1> QED BY <1>3, <1>5, <1>6

(* A later clip passes a waiting one only while something else holds that one up. *)
THEOREM OvertakingIsForced == Spec => OvertakenOnlyWhenBlocked
<1> DEFINE Forced == \A e \in queue \cap queue', f \in queue \cap active' :
                       Before(e, f) => e.targets \cap Busy(active' \ {f}, reservations') # {}
<1>1. ASSUME IInv, [Next]_schedVars PROVE Forced
  <2>1. active \cap queue = {} /\ queue \subseteq Entry /\ active \subseteq Entry
    BY <1>1 DEF IInv, OnePlacePerId, TypeOK
  <2>2. ASSUME NEW A, NEW Q, Settle(A, Q, reservations'),
               A \cap queue = {}, queue \subseteq Q, Q \subseteq Entry
        PROVE  Forced
    BY <2>2, SettleOvertakes
  <2>3. CASE \E req \in Request : Begin(req)
    <3> PICK req \in Request : Begin(req)
      BY <2>3
    <3> DEFINE new == NewEntry(req)
    <3>1. new \notin queue /\ new \in Entry
      BY <1>1, ArrivalIsNew, NewEntryType DEF InFlight
    <3> HIDE DEF Forced, new
    <3>2. CASE BeginFree(req)
      <4>1. Settle(active \cup {new}, queue, reservations')
        BY <3>2 DEF BeginFree, Admitted, new
      <4> QED BY <2>1, <2>2, <3>1, <4>1
    <3>3. CASE BeginBargeIn(req)
      <4> DEFINE kept == {e \in Victims(req) : ~Expired(e)}
      <4>1. Settle((active \ Victims(req)) \cup {new}, queue \cup kept, reservations')
        BY <3>3 DEF BeginBargeIn, Admitted, new
      <4>2. kept \subseteq active
        BY DEF Victims
      <4> HIDE DEF kept
      <4> QED BY <2>1, <2>2, <3>1, <4>1, <4>2
    <3>4. CASE BeginQueue(req)
      <4>1. Settle(active, queue \cup {new}, reservations')
        BY <3>4 DEF BeginQueue, Admitted, new
      <4> QED BY <2>1, <2>2, <3>1, <4>1
    <3>5. CASE BeginReject(req)
      <4>1. Settle(active, queue, reservations')
        BY <3>5 DEF BeginReject
      <4> QED BY <2>1, <2>2, <4>1
    <3> QED BY <3>2, <3>3, <3>4, <3>5 DEF Begin
  <2>4. CASE ~(\E req \in Request : Begin(req))
    <3>1. CASE UNCHANGED <<active, queue, nextId>>
      BY <2>1, <3>1
    <3>2. CASE \E A \in SUBSET active : Settle(A, queue, reservations')
      <4> PICK A \in SUBSET active : Settle(A, queue, reservations')
        BY <3>2
      <4> HIDE DEF Forced
      <4> QED BY <2>1, <2>2
    <3> QED BY <1>1, <2>4, <3>1, <3>2, QuietStep
  <2> QED BY <2>3, <2>4
<1> QED BY <1>1, SchedulerInvariant, PTL DEF Spec, OvertakenOnlyWhenBlocked
=============================================================================
