-------------------------- MODULE AnnounceScheduler --------------------------
(***************************************************************************)
(* The pure announcement arbiter (announce/arbiter.rs): which clip owns    *)
(* which outputs, which clips wait, and what an admission does to both.    *)
(*                                                                         *)
(* `active` and `queue` are Vecs in the code.  The order of `active` is    *)
(* never observed; `queue` is kept sorted by (priority desc, seq asc) and  *)
(* every entry has its own seq, so a set of entries and the order Before   *)
(* carry the same information.  Time is injected by the caller (`now_ms`). *)
(***************************************************************************)
EXTENDS AnnounceOrder, FiniteSets

CONSTANTS
  Outputs,           \* output node names
  Reservations,      \* reservation ids (alignment holds)
  Priorities,        \* priorities a producer may ask for
  TTLs,              \* finite TTLs a producer may ask for
  NoTTL,             \* `ttl_ms: None` / `deadline: None`
  BargeIns,          \* which values of `barge_in` producers use
  MaxQueue,          \* `max_queue` (16 in the daemon)
  MaxAnnouncements,  \* bound: announcements begun in one behaviour
  MaxTime            \* bound: last instant of the injected clock

ASSUME SchedulerConstants ==
  /\ Priorities \subseteq Int
  /\ TTLs \subseteq Nat
  /\ NoTTL \notin Nat
  /\ BargeIns \subseteq BOOLEAN
  /\ MaxQueue \in Nat
  /\ MaxAnnouncements \in Nat
  /\ MaxTime \in Nat

VARIABLES
  active,        \* entries playing now
  queue,         \* entries waiting for their targets
  reservations,  \* reservation id -> outputs it claims ({} = no claim)
  nextSeq,       \* arrival-order counter
  nextId,        \* next announcement id (handed out by the coordinator)
  now            \* the caller's clock

schedVars == <<active, queue, reservations, nextSeq, nextId, now>>

-----------------------------------------------------------------------------
Request == [priority : Priorities,
            targets  : (SUBSET Outputs) \ {{}},
            onBusy   : {"queue", "reject"},
            bargeIn  : BargeIns,
            ttl      : TTLs \cup {NoTTL}]

Entry == [id       : Nat \ {0},
          priority : Int,
          targets  : SUBSET Outputs,
          bargeIn  : BOOLEAN,
          deadline : Nat \cup {NoTTL},
          seq      : Nat]

Deadline(req) == IF req.ttl = NoTTL THEN NoTTL ELSE now + req.ttl

NewEntry(req) == [id       |-> nextId,
                  priority |-> req.priority,
                  targets  |-> req.targets,
                  bargeIn  |-> req.bargeIn,
                  deadline |-> Deadline(req),
                  seq      |-> nextSeq]

Expired(e) == e.deadline # NoTTL /\ now >= e.deadline

Reserved(R) == UNION {R[r] : r \in Reservations}
\* Faulty: reservations do not count.
BusyUnreserved(A, R) == Occupied(A)

Busy(A, R)  == Occupied(A) \cup Reserved(R)

\* What is playing or waiting, and the outputs that keeps a transport open for.
InFlight        == active \cup queue
OutputsInFlight == Occupied(InFlight)

\* The id playing on o, or 0.  Ids start at 1.
Free == 0
OccupantIn(A, o) == IF \E e \in A : o \in e.targets
                    THEN (CHOOSE e \in A : o \in e.targets).id
                    ELSE Free
Occupant(o) == OccupantIn(active, o)

-----------------------------------------------------------------------------
(* settle(): drop the queued entries whose deadline has passed, then start   *)
(* what can start.  A, Q and R are the active entries, the queue and the     *)
(* reservations as the calling operation left them.                          *)
Settle(A, Q, R) ==
  LET fresh == {e \in Q : ~Expired(e)}
  IN  \E S \in SUBSET fresh :
        /\ IsSweep(S, fresh, Busy(A, R))
        /\ active' = A \cup S
        /\ queue'  = fresh \ S

-----------------------------------------------------------------------------
(* begin(), one action per path.                                             *)
Overlaps(req) == req.targets \cap Busy(active, reservations) # {}

\* Faulty: the arrival counter stands still.
AdmittedUncounted == nextId' = nextId + 1 /\ UNCHANGED <<nextSeq, reservations, now>>

Admitted == /\ nextId'  = nextId + 1
            /\ nextSeq' = nextSeq + 1
            /\ UNCHANGED <<reservations, now>>

\* All targets free: play now, whatever is waiting in the queue.
BeginFree(req) ==
  /\ ~Overlaps(req)
  /\ Settle(active \cup {NewEntry(req)}, queue, reservations)
  /\ Admitted

\* Preempt every overlapping clip; each goes back to the queue whole, past
\* `max_queue` if need be, unless it has outlived its deadline.
Victims(req) == {e \in active : e.targets \cap req.targets # {}}

\* Faulty: what is preempted is not requeued.
BargeInDropping(req) ==
  /\ Overlaps(req)
  /\ req.bargeIn
  /\ Settle((active \ Victims(req)) \cup {NewEntry(req)}, queue, reservations)
  /\ Admitted

BeginBargeIn(req) ==
  /\ Overlaps(req)
  /\ req.bargeIn
  /\ Settle((active \ Victims(req)) \cup {NewEntry(req)},
            queue \cup {e \in Victims(req) : ~Expired(e)},
            reservations)
  /\ Admitted

QueueFull == Cardinality(queue) >= MaxQueue

BeginQueue(req) ==
  /\ Overlaps(req)
  /\ ~req.bargeIn
  /\ req.onBusy = "queue"
  /\ req.ttl # 0
  /\ ~QueueFull
  /\ Settle(active, queue \cup {NewEntry(req)}, reservations)
  /\ Admitted

\* Busy, play-now-or-drop, or a full queue.
BeginReject(req) ==
  /\ Overlaps(req)
  /\ ~req.bargeIn
  /\ req.onBusy = "reject" \/ req.ttl = 0 \/ QueueFull
  /\ Settle(active, queue, reservations)
  /\ nextId' = nextId + 1
  /\ UNCHANGED <<reservations, nextSeq, now>>

Begin(req) ==
  /\ nextId <= MaxAnnouncements
  /\ \/ BeginFree(req)
     \/ BeginBargeIn(req)
     \/ BeginQueue(req)
     \/ BeginReject(req)

\* A clip ended or was cancelled; an id that is not playing only settles.
Complete(id) ==
  /\ Settle({e \in active : e.id # id}, queue, reservations)
  /\ UNCHANGED <<reservations, nextSeq, nextId, now>>

Tick ==
  /\ Settle(active, queue, reservations)
  /\ UNCHANGED <<reservations, nextSeq, nextId, now>>

\* A claim starts nothing and stops nothing, and does not settle.
Reserve(r, outs) ==
  /\ reservations' = [reservations EXCEPT ![r] = outs]
  /\ UNCHANGED <<active, queue, nextSeq, nextId, now>>

\* Faulty: what waited for the reservation is not started.
ReleaseOnly(r) ==
  /\ reservations' = [reservations EXCEPT ![r] = {}]
  /\ UNCHANGED <<active, queue, nextSeq, nextId, now>>

ReleaseReservation(r) ==
  /\ reservations' = [reservations EXCEPT ![r] = {}]
  /\ Settle(active, queue, [reservations EXCEPT ![r] = {}])
  /\ UNCHANGED <<nextSeq, nextId, now>>

AdvanceTime ==
  /\ now < MaxTime
  /\ now' = now + 1
  /\ UNCHANGED <<active, queue, reservations, nextSeq, nextId>>

-----------------------------------------------------------------------------
Init ==
  /\ active = {}
  /\ queue = {}
  /\ reservations = [r \in Reservations |-> {}]
  /\ nextSeq = 0
  /\ nextId = 1
  /\ now = 0

\* The one caller of reserve() passes a fresh id and a non-empty set
\* (align/group.rs, ExclusiveHold::acquire), so a live claim never shrinks.
Next ==
  \/ \E req \in Request : Begin(req)
  \/ \E id \in 1..MaxAnnouncements : Complete(id)
  \/ Tick
  \/ \E r \in Reservations, outs \in (SUBSET Outputs) \ {{}} :
       reservations[r] = {} /\ Reserve(r, outs)
  \/ \E r \in Reservations : ReleaseReservation(r)
  \/ AdvanceTime

Spec == Init /\ [][Next]_schedVars

(* Every clip that plays is reported finished by the mixer, or reaped by its *)
(* stall watchdog; every alignment hold is released (release() or Drop).     *)
Playing(id) == \E e \in active : e.id = id

Fairness ==
  /\ \A id \in 1..MaxAnnouncements : WF_schedVars(Playing(id) /\ Complete(id))
  /\ \A r \in Reservations : WF_schedVars(ReleaseReservation(r))

FairSpec == Spec /\ Fairness

-----------------------------------------------------------------------------
\* The types of the state.
TypeOK ==
  /\ active \subseteq Entry
  /\ queue \subseteq Entry
  /\ reservations \in [Reservations -> SUBSET Outputs]
  /\ nextSeq \in Nat
  /\ nextId \in Nat \ {0}
  /\ now \in Nat

(* "An announcement occupies its target outputs exclusively": whatever mix   *)
(* of starts, preemptions, completions and queue sweeps, no output is ever   *)
(* given to two playing clips.                                               *)
ExclusiveOccupancy ==
  \A e, f \in active : e # f => ~Conflict(e, f)

(* settle() leaves nothing startable behind: every waiting clip waits for an *)
(* output that is playing something else or is reserved.                     *)
QueuedIsBlocked ==
  \A e \in queue : e.targets \cap Busy(active, reservations) # {}

(* An id is in one place at a time: a preempted or promoted clip is neither  *)
(* played twice nor both playing and waiting.                                *)
OnePlacePerId ==
  /\ active \cap queue = {}
  /\ \A e, f \in InFlight : e.id = f.id \/ e.seq = f.seq => e = f

(* The inductive invariant: the three above need to know that an arriving    *)
(* clip's id and seq are ones no clip in flight has.                         *)
ArrivalsAreNew ==
  \A e \in InFlight : e.id < nextId /\ e.seq < nextSeq

IInv ==
  /\ TypeOK
  /\ ArrivalsAreNew
  /\ OnePlacePerId
  /\ ExclusiveOccupancy
  /\ QueuedIsBlocked

(* A clip starts on a reserved output only by barging in on arrival: not     *)
(* when it was admitted before the reservation, not when it was preempted    *)
(* and is replayed, whatever its own barge_in flag.                          *)
ReservationRespected ==
  [][\A e \in active' \ active :
       e.targets \cap Reserved(reservations') # {} => e.bargeIn /\ e.seq = nextSeq]_schedVars

(* "The preempted clip is re-queued whole if still within its TTL, else      *)
(* dropped": no arrival makes an unexpired clip disappear, and no other      *)
(* operation loses more than the one playing clip it completes.              *)
NothingLost ==
  [][/\ nextId' # nextId => \A e \in InFlight : Expired(e) \/ e \in InFlight'
     /\ \A e \in queue : Expired(e) \/ e \in InFlight'
     /\ \A e, f \in active : {e, f} \cap InFlight' = {} /\ e # f => Expired(e) \/ Expired(f)]_schedVars

(* A playing clip is sent back to the queue only by a barge-in that takes    *)
(* one of its outputs.                                                       *)
PreemptedByBargeInOnly ==
  [][\A e \in active \cap queue' :
       \E f \in active' \ active : f.bargeIn /\ f.seq = nextSeq /\ Conflict(e, f)]_schedVars

(* "Ordered by priority then arrival": a waiting clip is overtaken by a      *)
(* later one only while something other than that one blocks it.             *)
OvertakenOnlyWhenBlocked ==
  [][\A e \in queue \cap queue', f \in queue \cap active' :
       Before(e, f) => e.targets \cap Busy(active' \ {f}, reservations') # {}]_schedVars

(* Once no announcement arrives any more, everything in flight comes to its  *)
(* end, however preemption, reservations taken again and again, and clips    *)
(* that wait for several outputs at once have left the queue.  While they do *)
(* keep arriving nothing is promised: begin() starts a newcomer whose        *)
(* outputs are free whatever waits, and may so starve a clip that waits for  *)
(* two outputs.                                                              *)
ArrivalsOver == nextId > MaxAnnouncements

DrainsOnceQuiet == ArrivalsOver ~> InFlight = {}
=============================================================================
