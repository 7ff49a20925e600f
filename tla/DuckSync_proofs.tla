---------------------------- MODULE DuckSync_proofs ----------------------------
(***************************************************************************)
(* Proofs about duck holds and the hosts that follow them, for every set   *)
(* of outputs, levels and callers, every lease and queue depth.            *)
(*                                                                         *)
(* A depth is read in two sections and posted in a third, so what a task   *)
(* carries may be stale, and so may what is in the queue.  The invariant   *)
(* says when: only while somebody else still has the same output to        *)
(* re-assert.  The last task to have it reads last and posts last, unless  *)
(* two of them are at it together.                                         *)
(***************************************************************************)
EXTENDS DuckSync, WellFoundedInduction, TLAPS

Depths == Levels \cup {NoDuck}

LEMMA MinOfNaturals ==
  ASSUME NEW S \in SUBSET Nat, S # {}
  PROVE  Min(S) \in S /\ \A y \in S : Min(S) <= y
<1> DEFINE R == {x \in Nat \X Nat : x[1] < x[2]}
<1>1. IsWellFoundedOn(R, Nat)
  BY NatLessThanWellFounded DEF OpToRel
<1> HIDE DEF R
<1>2. PICK x \in S : \A y \in S : <<y, x>> \notin R
  BY <1>1, WFMin
<1>3. \A y \in S : x <= y
  <2> SUFFICES ASSUME NEW y \in S PROVE ~(y < x)
    OBVIOUS
  <2>1. <<y, x>> \in Nat \X Nat /\ <<y, x>>[1] = y /\ <<y, x>>[2] = x
    OBVIOUS
  <2> QED BY <1>2, <2>1 DEF R
<1> QED BY <1>3 DEF Min

-----------------------------------------------------------------------------
(* Types, and where a task stands between two sections. *)

TaskSound ==
  \A t \in Tasks : /\ task[t].pc = "idle" => task[t].todo = {}
                   /\ task[t].pc \in {"idle", "next"} => task[t].at = "none"
                   /\ task[t].pc \in {"overlay", "post"} => task[t].at \in task[t].todo

Shapes == DuckTypeOK /\ TaskSound

TaskType == [pc : {"idle", "next", "overlay", "post"}, todo : SUBSET Outputs,
             at : Outputs \cup {"none"}, gain : Depths, locked : BOOLEAN, starts : 0..MaxHolds]

LEMMA GainsAreDepths ==
  ASSUME DuckConstants, DuckTypeOK, NEW o \in Outputs
  PROVE  /\ HoldGain(o) \in Depths
         /\ Effective(o) \in Depths
         /\ \A g \in Depths : Min({g, overlay[o]}) \in Depths
<1>1. Depths \subseteq Nat
  BY DEF DuckConstants, Depths
<1>2. \A g, x \in Depths : Min({g, x}) \in Depths
  <2> TAKE g, x \in Depths
  <2>1. Min({g, x}) \in {g, x}
    BY <1>1, MinOfNaturals
  <2> QED BY <2>1
<1>3. HoldGain(o) \in Depths
  <2> DEFINE S == {h.level : h \in ducks[o]} \cup {NoDuck}
  <2>1. S \subseteq Depths /\ S # {}
    BY DEF DuckTypeOK, Hold, Depths
  <2>2. Min(S) \in S
    BY <1>1, <2>1, MinOfNaturals
  <2> QED BY <2>1, <2>2 DEF HoldGain
<1>4. overlay[o] \in Depths
  BY DEF DuckTypeOK, Depths
<1> QED BY <1>2, <1>3, <1>4 DEF Effective

\* A task begins, or goes on with, the outputs it has to re-assert.
LEMMA ReassertShape ==
  ASSUME DuckConstants, Shapes, NEW t \in Tasks, NEW outs \in SUBSET Outputs,
         NEW locked \in BOOLEAN, NEW id \in 0..MaxHolds, ReassertFor(t, outs, locked, id)
  PROVE  /\ task' \in [Tasks -> TaskType]
         /\ TaskSound'
         /\ task'[t].todo = outs /\ task'[t].at = "none" /\ task'[t].pc \in {"idle", "next"}
         /\ \A u \in Tasks \ {t} : task'[u] = task[u]
<1> DEFINE new == IF outs = {} THEN Idle
                  ELSE [Idle EXCEPT !.pc = "next", !.todo = outs, !.locked = locked, !.starts = id]
<1>1. task' = [task EXCEPT ![t] = new]
  BY DEF ReassertFor
<1>2. task \in [Tasks -> TaskType]
  BY DEF Shapes, DuckTypeOK, TaskType, Depths
<1>3. /\ new \in TaskType
      /\ new.todo = outs /\ new.at = "none" /\ new.pc \in {"idle", "next"}
      /\ new.pc = "idle" => outs = {}
  <2>0. 0 \in 0..MaxHolds /\ NoDuck \in Depths
    BY DEF DuckConstants, Depths
  <2>1. CASE outs = {}
    <3>1. new = Idle
      BY <2>1
    <3> HIDE DEF new
    <3> QED BY <2>0, <2>1, <3>1 DEF Idle, TaskType
  <2>2. CASE outs # {}
    <3>1. new = [pc |-> "next", todo |-> outs, at |-> "none", gain |-> NoDuck,
                 locked |-> locked, starts |-> id]
      BY <2>2 DEF Idle
    <3> HIDE DEF new
    <3> QED BY <2>0, <3>1 DEF TaskType
  <2> QED BY <2>1, <2>2
<1> HIDE DEF new
<1>4. task' \in [Tasks -> TaskType] /\ task'[t] = new /\ \A u \in Tasks \ {t} : task'[u] = task[u]
  BY <1>1, <1>2, <1>3
<1>5. TaskSound'
  <2> SUFFICES ASSUME NEW u \in Tasks
               PROVE  /\ task'[u].pc = "idle" => task'[u].todo = {}
                      /\ task'[u].pc \in {"idle", "next"} => task'[u].at = "none"
                      /\ task'[u].pc \in {"overlay", "post"} => task'[u].at \in task'[u].todo
    BY DEF TaskSound
  <2>1. CASE u = t
    BY <1>3, <1>4, <2>1
  <2>2. CASE u # t
    BY <1>4, <2>2 DEF Shapes, TaskSound
  <2> QED BY <2>1, <2>2
<1> QED BY <1>3, <1>4, <1>5

-----------------------------------------------------------------------------
(* The invariant. *)

\* Somebody still has o to re-assert: a task, or the poll once it hears of o's end.
Owed(o) == o \in ended \/ \E u \in Tasks : o \in task[u].todo
OwedBesides(t, o) == o \in ended \/ \E u \in Tasks \ {t} : o \in task[u].todo

\* The depth o's agent applies once the queue is drained.
WillBe(o, d) ==
  \/ \E i \in 1..Len(posted) : /\ posted[i] = <<o, d>>
                               /\ \A j \in (i+1)..Len(posted) : posted[j][1] # o
  \/ told[o] = d /\ \A j \in 1..Len(posted) : posted[j][1] # o

ReadingsFresh ==
  \A t \in Tasks, o \in Outputs : task[t].at = o =>
    /\ task[t].pc = "overlay" => task[t].gain = HoldGain(o) \/ OwedBesides(t, o)
    /\ task[t].pc = "post" => task[t].gain = Effective(o) \/ OwedBesides(t, o)

Heading == \A o \in Outputs : WillBe(o, Effective(o)) \/ Owed(o)

IInv == /\ Shapes
        /\ missed \in BOOLEAN
        /\ ~missed => ~Racing /\ ReadingsFresh /\ Heading

-----------------------------------------------------------------------------
(* The queue. *)

LEMMA PostedLast ==
  ASSUME NEW p \in Outputs, NEW d \in Depths, posted \in Seq(Outputs \X Depths),
         posted' = Append(posted, <<p, d>>), UNCHANGED told
  PROVE  /\ WillBe(p, d)'
         /\ \A o \in Outputs \ {p} : \A x : WillBe(o, x) => WillBe(o, x)'
<1>1. /\ Len(posted) \in Nat /\ Len(posted') = Len(posted) + 1
      /\ posted'[Len(posted) + 1] = <<p, d>>
      /\ \A i \in 1..Len(posted) : posted'[i] = posted[i]
  OBVIOUS
<1>2. WillBe(p, d)'
  BY <1>1 DEF WillBe
<1>3. ASSUME NEW o \in Outputs \ {p}, NEW x, WillBe(o, x)
      PROVE  WillBe(o, x)'
  <2>1. \A j \in 1..Len(posted') : j \in 1..Len(posted) \/ (j = Len(posted) + 1 /\ posted'[j][1] = p)
    BY <1>1
  <2>2. CASE \E i \in 1..Len(posted) : /\ posted[i] = <<o, x>>
                                       /\ \A j \in (i+1)..Len(posted) : posted[j][1] # o
    <3> PICK i \in 1..Len(posted) : /\ posted[i] = <<o, x>>
                                    /\ \A j \in (i+1)..Len(posted) : posted[j][1] # o
      BY <2>2
    <3>1. i \in 1..Len(posted') /\ posted'[i] = <<o, x>>
      BY <1>1
    <3>2. \A j \in (i+1)..Len(posted') : posted'[j][1] # o
      <4> TAKE j \in (i+1)..Len(posted')
      <4>1. CASE j = Len(posted) + 1
        BY <2>1, <4>1, <1>1
      <4>2. CASE j # Len(posted) + 1
        <5>1. j \in (i+1)..Len(posted) /\ j \in 1..Len(posted)
          BY <1>1, <2>1, <4>2
        <5> QED BY <1>1, <5>1
      <4> QED BY <4>1, <4>2
    <3> QED BY <3>1, <3>2 DEF WillBe
  <2>3. CASE told[o] = x /\ \A j \in 1..Len(posted) : posted[j][1] # o
    BY <1>1, <2>1, <2>3 DEF WillBe
  <2> QED BY <1>3, <2>2, <2>3 DEF WillBe
<1> QED BY <1>2, <1>3

LEMMA RelayedFirst ==
  ASSUME Shapes, RelayDuck, NEW o \in Outputs, NEW x, WillBe(o, x)
  PROVE  WillBe(o, x)'
<1>1. /\ posted \in Seq(Outputs \X Depths) /\ told \in [Outputs -> Depths]
      /\ posted # <<>> /\ posted' = Tail(posted)
      /\ told' = [told EXCEPT ![Head(posted)[1]] = Head(posted)[2]]
  BY DEF Shapes, DuckTypeOK, RelayDuck, Depths
<1>2. /\ Len(posted) \in Nat \ {0} /\ Len(posted') = Len(posted) - 1
      /\ Head(posted) = posted[1] /\ posted[1] \in Outputs \X Depths
      /\ \A i \in 1..Len(posted') : posted'[i] = posted[i + 1]
  BY <1>1
<1>3. /\ \A i \in 1..Len(posted') : i + 1 \in 1..Len(posted)
      /\ \A i \in 1..Len(posted) : i # 1 => i - 1 \in 1..Len(posted') /\ posted'[i - 1] = posted[i]
  BY <1>2
<1>4. CASE \E i \in 1..Len(posted) : /\ posted[i] = <<o, x>>
                                     /\ \A j \in (i+1)..Len(posted) : posted[j][1] # o
  <2> PICK i \in 1..Len(posted) : /\ posted[i] = <<o, x>>
                                  /\ \A j \in (i+1)..Len(posted) : posted[j][1] # o
    BY <1>4
  <2>1. CASE i = 1
    <3>1. told'[o] = x
      BY <1>1, <1>2, <2>1
    <3>2. \A j \in 1..Len(posted') : posted'[j][1] # o
      BY <1>2, <2>1
    <3> QED BY <3>1, <3>2 DEF WillBe
  <2>2. CASE i # 1
    <3>1. i - 1 \in 1..Len(posted') /\ posted'[i - 1] = <<o, x>>
      BY <1>3, <2>2
    <3>2. \A j \in ((i - 1) + 1)..Len(posted') : posted'[j][1] # o
      BY <1>2, <2>2
    <3> QED BY <3>1, <3>2 DEF WillBe
  <2> QED BY <2>1, <2>2
<1>5. CASE told[o] = x /\ \A j \in 1..Len(posted) : posted[j][1] # o
  <2>1. posted[1][1] # o
    BY <1>2, <1>5
  <2>2. told'[o] = x
    BY <1>1, <1>2, <1>5, <2>1
  <2>3. \A j \in 1..Len(posted') : posted'[j][1] # o
    BY <1>2, <1>3, <1>5
  <2> QED BY <2>2, <2>3 DEF WillBe
<1> QED BY <1>4, <1>5 DEF WillBe

-----------------------------------------------------------------------------
(* Whoever changes a cause of ducking owes the outputs it changed. *)

OwedAnew(o) == o \in ended' \/ \E u \in Tasks : task[u].pc = "idle" /\ o \in task'[u].todo

Cause ==
  /\ UNCHANGED <<posted, told>>
  /\ \A o \in Outputs : (HoldGain(o)' = HoldGain(o) /\ overlay'[o] = overlay[o]) \/ OwedAnew(o)
  /\ \A o \in ended : OwedAnew(o)
  /\ \A u \in Tasks : \/ task'[u] = task[u]
                      \/ task[u].pc = "idle" /\ task'[u].pc \in {"idle", "next"}

LEMMA CauseFollows ==
  ASSUME Shapes, ReadingsFresh, Heading, Cause
  PROVE  ReadingsFresh' /\ Heading'
<1>1. \A u \in Tasks : task[u].todo # {} => task'[u] = task[u] /\ task[u].pc # "idle"
  BY DEF Shapes, TaskSound, Cause
<1>2. \A o \in Outputs : Owed(o) => Owed(o)'
  BY <1>1 DEF Owed, Cause, OwedAnew
<1>3. \A o \in Outputs : Effective(o)' = Effective(o) \/ Owed(o)'
  BY DEF Effective, Cause, OwedAnew, Owed
<1>4. \A o, d : WillBe(o, d) => WillBe(o, d)'
  BY DEF WillBe, Cause
<1>5. Heading'
  BY <1>2, <1>3, <1>4 DEF Heading
<1>6. ASSUME NEW t \in Tasks, NEW o \in Outputs, task'[t].at = o,
             task'[t].pc \in {"overlay", "post"}
      PROVE  /\ task'[t].pc = "overlay" => task'[t].gain = HoldGain(o)' \/ OwedBesides(t, o)'
             /\ task'[t].pc = "post" => task'[t].gain = Effective(o)' \/ OwedBesides(t, o)'
  <2>1. task'[t] = task[t] /\ task[t].pc # "idle"
    BY <1>6 DEF Cause
  <2>2. OwedAnew(o) => OwedBesides(t, o)'
    BY <2>1 DEF OwedAnew, OwedBesides
  <2>3. o \in ended => OwedAnew(o)
    BY DEF Cause
  <2>4. OwedBesides(t, o) => OwedBesides(t, o)'
    BY <1>1, <2>2, <2>3 DEF OwedBesides
  <2>5. /\ HoldGain(o)' = HoldGain(o) \/ OwedBesides(t, o)'
        /\ Effective(o)' = Effective(o) \/ OwedBesides(t, o)'
    <3>1. (HoldGain(o)' = HoldGain(o) /\ overlay'[o] = overlay[o]) \/ OwedAnew(o)
      BY DEF Cause
    <3> QED BY <2>2, <3>1 DEF Effective
  <2>6. /\ task[t].pc = "overlay" => task[t].gain = HoldGain(o) \/ OwedBesides(t, o)
        /\ task[t].pc = "post" => task[t].gain = Effective(o) \/ OwedBesides(t, o)
    BY <1>6, <2>1 DEF ReadingsFresh
  <2> QED BY <2>1, <2>4, <2>5, <2>6
<1>7. ReadingsFresh'
  BY <1>6 DEF ReadingsFresh
<1> QED BY <1>5, <1>7

-----------------------------------------------------------------------------
(* The actions that change a cause. *)

LEMMA HoldsAre ==
  ASSUME DuckConstants, NEW h
  PROVE  /\ h \in Hold <=> /\ h = [id |-> h.id, level |-> h.level, left |-> h.left]
                           /\ h.id \in Holds /\ h.level \in Levels /\ h.left \in 0..Lease
         /\ h \in Hold => /\ [h EXCEPT !.left = Lease] \in Hold
                          /\ [h EXCEPT !.left = Lease].level = h.level
                          /\ [h EXCEPT !.left = Lease].id = h.id
                          /\ [h EXCEPT !.left = Lease].left = Lease
         /\ h \in Hold /\ h.left > 0 => /\ [h EXCEPT !.left = @ - 1] \in Hold
                                        /\ [h EXCEPT !.left = @ - 1].level = h.level
                                        /\ [h EXCEPT !.left = @ - 1].id = h.id
                                        /\ [h EXCEPT !.left = @ - 1].left = h.left - 1
BY DEF DuckConstants, Hold, Holds

\* What a cause changed by a task that re-asserts comes to.
LEMMA Reasserted ==
  ASSUME DuckConstants, Shapes, NEW t \in Tasks, NEW outs \in SUBSET Outputs,
         NEW locked \in BOOLEAN, NEW id \in 0..MaxHolds,
         task[t].pc = "idle", ReassertFor(t, outs, locked, id), UNCHANGED <<posted, told>>,
         ducks' \in [Outputs -> SUBSET Hold], lastId' \in 0..MaxHolds,
         overlay' \in [Outputs -> Depths], ended' \subseteq Outputs, clips' \in 0..MaxClips,
         \A o \in Outputs \ outs : HoldGain(o)' = HoldGain(o) /\ overlay'[o] = overlay[o],
         ended \subseteq ended' \cup outs
  PROVE  Shapes' /\ Cause
<1>1. /\ task' \in [Tasks -> TaskType] /\ TaskSound'
      /\ task'[t].todo = outs /\ task'[t].pc \in {"idle", "next"}
      /\ \A u \in Tasks \ {t} : task'[u] = task[u]
  BY ReassertShape
<1>2. DuckTypeOK'
  BY <1>1 DEF Shapes, DuckTypeOK, TaskType, Depths
<1>3. Cause
  BY <1>1 DEF Cause, OwedAnew
<1> QED BY <1>1, <1>2, <1>3 DEF Shapes

LEMMA StartCause ==
  ASSUME DuckConstants, Shapes, NEW t \in Callers, NEW targets \in SUBSET Outputs,
         NEW level \in Levels, StartDuck(t, targets, level)
  PROVE  Shapes' /\ Cause
<1> DEFINE new == [id |-> lastId', level |-> level, left |-> Lease]
<1>1. /\ lastId' = lastId + 1 /\ lastId < MaxHolds /\ lastId \in 0..MaxHolds
      /\ task[t].pc = "idle" /\ ReassertFor(t, targets, FALSE, lastId')
      /\ UNCHANGED <<overlay, ended, clips, posted, told>>
  BY DEF StartDuck, Shapes, DuckTypeOK
<1>2. lastId' \in 0..MaxHolds /\ new \in Hold
  BY <1>1 DEF DuckConstants, Hold, Holds
<1>3. ducks' = [o \in Outputs |-> IF o \in targets THEN ducks[o] \cup {new} ELSE ducks[o]]
  BY DEF StartDuck
<1> HIDE DEF new
<1>4. ducks' \in [Outputs -> SUBSET Hold] /\ \A o \in Outputs \ targets : ducks'[o] = ducks[o]
  BY <1>2, <1>3 DEF Shapes, DuckTypeOK
<1>5. \A o \in Outputs \ targets : HoldGain(o)' = HoldGain(o) /\ overlay'[o] = overlay[o]
  BY <1>1, <1>4 DEF HoldGain
<1>6. /\ overlay' \in [Outputs -> Depths] /\ ended' \subseteq Outputs /\ clips' \in 0..MaxClips
      /\ t \in Tasks
  BY <1>1 DEF Shapes, DuckTypeOK, Depths, Tasks
<1> QED BY <1>1, <1>2, <1>4, <1>5, <1>6, Reasserted

LEMMA RenewCause ==
  ASSUME DuckConstants, Shapes, NEW id \in Holds, RenewDuck(id)
  PROVE  Shapes' /\ Cause
<1> DEFINE renewed(h) == IF h.id = id THEN [h EXCEPT !.left = Lease] ELSE h
<1>1. /\ ducks' = [o \in Outputs |-> {renewed(h) : h \in ducks[o]}]
      /\ UNCHANGED <<lastId, overlay, ended, clips, task, posted, told>>
  BY DEF RenewDuck
<1>2. \A h \in Hold : renewed(h) \in Hold /\ renewed(h).level = h.level
  BY HoldsAre
<1> HIDE DEF renewed
<1>3. ducks' \in [Outputs -> SUBSET Hold]
  BY <1>1, <1>2 DEF Shapes, DuckTypeOK
<1>4. \A o \in Outputs : HoldGain(o)' = HoldGain(o)
  <2> TAKE o \in Outputs
  <2>1. {h.level : h \in ducks'[o]} = {h.level : h \in ducks[o]}
    BY <1>1, <1>2 DEF Shapes, DuckTypeOK
  <2> QED BY <2>1 DEF HoldGain
<1>5. Cause
  BY <1>1, <1>4 DEF Cause, OwedAnew
<1>6. Shapes'
  BY <1>1, <1>3 DEF Shapes, DuckTypeOK, TaskSound
<1> QED BY <1>5, <1>6

LEMMA ReleaseCause ==
  ASSUME DuckConstants, Shapes, NEW t \in Callers, NEW id \in Holds, ReleaseDuck(t, id)
  PROVE  Shapes' /\ Cause
<1>1. /\ task[t].pc = "idle" /\ ReassertFor(t, Covers(id), FALSE, 0)
      /\ ducks' = [o \in Outputs |-> {h \in ducks[o] : h.id # id}]
      /\ UNCHANGED <<lastId, overlay, ended, clips, posted, told>>
  BY DEF ReleaseDuck, Reassert
<1>2. ducks' \in [Outputs -> SUBSET Hold]
  BY <1>1 DEF Shapes, DuckTypeOK
<1>3. \A o \in Outputs \ Covers(id) : ducks'[o] = ducks[o]
  BY <1>1, <1>2 DEF Covers
<1>4. \A o \in Outputs \ Covers(id) : HoldGain(o)' = HoldGain(o) /\ overlay'[o] = overlay[o]
  BY <1>1, <1>3 DEF HoldGain
<1>5. /\ lastId' \in 0..MaxHolds /\ overlay' \in [Outputs -> Depths] /\ ended' \subseteq Outputs
      /\ clips' \in 0..MaxClips /\ t \in Tasks /\ Covers(id) \subseteq Outputs
  BY <1>1 DEF Shapes, DuckTypeOK, Depths, Tasks, Covers
<1>6. 0 \in 0..MaxHolds
  BY DEF DuckConstants
<1> QED BY <1>1, <1>2, <1>4, <1>5, <1>6, Reasserted

LEMMA ExpireCause ==
  ASSUME DuckConstants, Shapes, ExpireDucks
  PROVE  Shapes' /\ Cause
<1> DEFINE outs == {o \in Outputs : \E h \in ducks[o] : h.left = 0}
           aged(h) == [h EXCEPT !.left = @ - 1]
<1>1. /\ task[Poll].pc = "idle" /\ ReassertFor(Poll, outs, FALSE, 0)
      /\ ducks' = [o \in Outputs |-> {aged(h) : h \in {k \in ducks[o] : k.left > 0}}]
      /\ UNCHANGED <<lastId, overlay, ended, clips, posted, told>>
  BY DEF ExpireDucks, Reassert
<1>2. \A h \in Hold : h.left > 0 => aged(h) \in Hold /\ aged(h).level = h.level
  BY HoldsAre
<1>3. \A h \in Hold : h.left \in Nat
  BY DEF DuckConstants, Hold
<1> HIDE DEF aged
<1>4. ducks' \in [Outputs -> SUBSET Hold]
  BY <1>1, <1>2 DEF Shapes, DuckTypeOK
<1>5. \A o \in Outputs \ outs : HoldGain(o)' = HoldGain(o) /\ overlay'[o] = overlay[o]
  <2> TAKE o \in Outputs \ outs
  <2>1. \A h \in ducks[o] : h \in Hold /\ h.left > 0
    BY <1>3 DEF Shapes, DuckTypeOK
  <2>2. ducks'[o] = {aged(h) : h \in ducks[o]}
    BY <1>1, <2>1
  <2>3. {h.level : h \in ducks'[o]} = {h.level : h \in ducks[o]}
    BY <1>2, <2>1, <2>2
  <2> QED BY <1>1, <2>3 DEF HoldGain
<1>6. /\ lastId' \in 0..MaxHolds /\ overlay' \in [Outputs -> Depths] /\ ended' \subseteq Outputs
      /\ clips' \in 0..MaxClips /\ Poll \in Tasks /\ outs \subseteq Outputs
  BY <1>1 DEF Shapes, DuckTypeOK, Depths, Tasks
<1>7. 0 \in 0..MaxHolds
  BY DEF DuckConstants
<1> HIDE DEF outs
<1> QED BY <1>1, <1>4, <1>5, <1>6, <1>7, Reasserted

LEMMA AnnounceCause ==
  ASSUME DuckConstants, Shapes, NEW t \in Callers, NEW o \in Outputs, NEW level \in Depths,
         Announce(t, o, level)
  PROVE  Shapes' /\ Cause
<1>1. /\ task[t].pc = "idle" /\ ReassertFor(t, {o}, TRUE, 0)
      /\ clips < MaxClips /\ clips' = clips + 1
      /\ overlay' = [overlay EXCEPT ![o] = level] /\ ended' = ended \ {o}
      /\ UNCHANGED <<ducks, lastId, posted, told>>
  BY DEF Announce, Reassert
<1>2. \A p \in Outputs \ {o} : HoldGain(p)' = HoldGain(p) /\ overlay'[p] = overlay[p]
  BY <1>1 DEF HoldGain, Shapes, DuckTypeOK
<1>3. /\ ducks' \in [Outputs -> SUBSET Hold] /\ lastId' \in 0..MaxHolds
      /\ overlay' \in [Outputs -> Depths] /\ ended' \subseteq Outputs
      /\ t \in Tasks /\ {o} \subseteq Outputs /\ ended \subseteq ended' \cup {o}
  BY <1>1 DEF Shapes, DuckTypeOK, Depths, Tasks
<1>4. clips' \in 0..MaxClips /\ 0 \in 0..MaxHolds
  BY <1>1 DEF DuckConstants, Shapes, DuckTypeOK
<1> QED BY <1>1, <1>2, <1>3, <1>4, Reasserted

LEMMA OverlayEndsCause ==
  ASSUME DuckConstants, Shapes, NEW o \in Outputs, OverlayEnds(o)
  PROVE  Shapes' /\ Cause
<1>1. /\ overlay' = [overlay EXCEPT ![o] = NoDuck] /\ ended' = ended \cup {o}
      /\ UNCHANGED <<ducks, lastId, clips, task, posted, told>>
  BY DEF OverlayEnds
<1>2. Shapes'
  BY <1>1 DEF Shapes, DuckTypeOK, TaskSound
<1>3. \A p \in Outputs \ {o} : HoldGain(p)' = HoldGain(p) /\ overlay'[p] = overlay[p]
  BY <1>1 DEF HoldGain, Shapes, DuckTypeOK
<1>4. Cause
  BY <1>1, <1>3 DEF Cause, OwedAnew
<1> QED BY <1>2, <1>4

LEMMA PollStopsCause ==
  ASSUME DuckConstants, Shapes, NEW o \in Outputs, PollStops(o)
  PROVE  Shapes' /\ Cause
<1>1. /\ task[Poll].pc = "idle" /\ ReassertFor(Poll, {o}, TRUE, 0)
      /\ ended' = ended \ {o}
      /\ UNCHANGED <<ducks, lastId, overlay, clips, posted, told>>
  BY DEF PollStops, Reassert
<1>2. \A p \in Outputs \ {o} : HoldGain(p)' = HoldGain(p) /\ overlay'[p] = overlay[p]
  BY <1>1 DEF HoldGain
<1>3. /\ ducks' \in [Outputs -> SUBSET Hold] /\ lastId' \in 0..MaxHolds
      /\ overlay' \in [Outputs -> Depths] /\ ended' \subseteq Outputs /\ clips' \in 0..MaxClips
      /\ Poll \in Tasks /\ {o} \subseteq Outputs /\ ended \subseteq ended' \cup {o}
  BY <1>1 DEF Shapes, DuckTypeOK, Depths, Tasks
<1>4. 0 \in 0..MaxHolds
  BY DEF DuckConstants
<1> QED BY <1>1, <1>2, <1>3, <1>4, Reasserted

-----------------------------------------------------------------------------
(* The three sections of sync_agent_duck(). *)

\* The two that read.
LEMMA ReadShape ==
  ASSUME DuckConstants, Shapes, NEW t \in Tasks, NEW o \in Outputs, NEW g \in Depths,
         NEW pc \in {"overlay", "post"}, task' = [task EXCEPT ![t] = [task[t] EXCEPT !.pc = pc, !.at = o, !.gain = g]],
         o \in task[t].todo, UNCHANGED <<mixVars, posted, told>>
  PROVE  /\ Shapes'
         /\ task'[t].pc = pc /\ task'[t].at = o /\ task'[t].gain = g
         /\ \A u \in Tasks \ {t} : task'[u] = task[u]
         /\ \A u \in Tasks : task'[u].todo = task[u].todo
<1>1. task \in [Tasks -> TaskType]
  BY DEF Shapes, DuckTypeOK, TaskType, Depths
<1> DEFINE new == [task[t] EXCEPT !.pc = pc, !.at = o, !.gain = g]
<1>2. /\ new \in TaskType
      /\ new.pc = pc /\ new.at = o /\ new.gain = g /\ new.todo = task[t].todo
  BY <1>1 DEF TaskType
<1> HIDE DEF new
<1>3. task' = [task EXCEPT ![t] = new]
  BY DEF new
<1>4. /\ task' \in [Tasks -> TaskType] /\ task'[t] = new
      /\ \A u \in Tasks \ {t} : task'[u] = task[u]
  BY <1>1, <1>2, <1>3
<1>5. DuckTypeOK'
  BY <1>4 DEF Shapes, DuckTypeOK, TaskType, Depths, mixVars
<1>6. TaskSound'
  <2> SUFFICES ASSUME NEW u \in Tasks
               PROVE  /\ task'[u].pc = "idle" => task'[u].todo = {}
                      /\ task'[u].pc \in {"idle", "next"} => task'[u].at = "none"
                      /\ task'[u].pc \in {"overlay", "post"} => task'[u].at \in task'[u].todo
    BY DEF TaskSound
  <2>1. CASE u = t
    BY <1>2, <1>4, <2>1
  <2>2. CASE u # t
    BY <1>4, <2>2 DEF Shapes, TaskSound
  <2> QED BY <2>1, <2>2
<1> QED BY <1>2, <1>4, <1>5, <1>6 DEF Shapes

\* A task that reads leaves what the others owe as it was.
LEMMA ReadFollows ==
  ASSUME Shapes, ReadingsFresh, Heading, NEW t \in Tasks,
         \A u \in Tasks \ {t} : task'[u] = task[u],
         \A u \in Tasks : task'[u].todo = task[u].todo,
         UNCHANGED <<mixVars, posted, told>>,
         \A o \in Outputs : task'[t].at = o =>
           /\ task'[t].pc = "overlay" => task'[t].gain = HoldGain(o) \/ OwedBesides(t, o)
           /\ task'[t].pc = "post" => task'[t].gain = Effective(o) \/ OwedBesides(t, o)
  PROVE  ReadingsFresh' /\ Heading'
<1>1. \A o \in Outputs : HoldGain(o)' = HoldGain(o) /\ Effective(o)' = Effective(o)
  BY DEF HoldGain, Effective, mixVars
<1>2. /\ \A o : Owed(o) <=> Owed(o)'
      /\ \A u \in Tasks : \A o : OwedBesides(u, o) <=> OwedBesides(u, o)'
  BY DEF Owed, OwedBesides, mixVars
<1>3. \A o, d : WillBe(o, d) <=> WillBe(o, d)'
  BY DEF WillBe
<1>4. Heading'
  BY <1>1, <1>2, <1>3 DEF Heading
<1>5. ReadingsFresh'
  <2> SUFFICES ASSUME NEW u \in Tasks, NEW o \in Outputs, task'[u].at = o
               PROVE  /\ task'[u].pc = "overlay" => task'[u].gain = HoldGain(o)' \/ OwedBesides(u, o)'
                      /\ task'[u].pc = "post" => task'[u].gain = Effective(o)' \/ OwedBesides(u, o)'
    BY DEF ReadingsFresh
  <2>1. CASE u = t
    BY <1>1, <1>2, <2>1
  <2>2. CASE u # t
    <3>1. task'[u] = task[u]
      BY <2>2
    <3> QED BY <1>1, <1>2, <3>1 DEF ReadingsFresh
  <2> QED BY <2>1, <2>2
<1> QED BY <1>4, <1>5

LEMMA SyncHoldsStep ==
  ASSUME DuckConstants, Shapes, NEW t \in Tasks, NEW p \in Outputs, SyncHolds(t, p)
  PROVE  Shapes' /\ (ReadingsFresh /\ Heading => ReadingsFresh' /\ Heading')
<1>1. HoldGain(p) \in Depths /\ task \in [Tasks -> TaskType]
  BY GainsAreDepths DEF Shapes, DuckTypeOK, TaskType, Depths
<1>2. /\ task' = [task EXCEPT ![t] = [task[t] EXCEPT !.pc = "overlay", !.at = p, !.gain = HoldGain(p)]]
      /\ p \in task[t].todo /\ UNCHANGED <<mixVars, posted, told>>
  BY <1>1 DEF SyncHolds
<1>3. /\ Shapes'
      /\ task'[t].pc = "overlay" /\ task'[t].at = p /\ task'[t].gain = HoldGain(p)
      /\ \A u \in Tasks \ {t} : task'[u] = task[u]
      /\ \A u \in Tasks : task'[u].todo = task[u].todo
  BY <1>1, <1>2, ReadShape
<1>4. \A o \in Outputs : task'[t].at = o =>
        /\ task'[t].pc = "overlay" => task'[t].gain = HoldGain(o) \/ OwedBesides(t, o)
        /\ task'[t].pc = "post" => task'[t].gain = Effective(o) \/ OwedBesides(t, o)
  BY <1>3
<1> QED BY <1>2, <1>3, <1>4, ReadFollows

LEMMA SyncOverlayStep ==
  ASSUME DuckConstants, Shapes, NEW t \in Tasks, SyncOverlay(t)
  PROVE  Shapes' /\ (ReadingsFresh /\ Heading => ReadingsFresh' /\ Heading')
<1>1. /\ task \in [Tasks -> TaskType] /\ task[t] \in TaskType /\ task[t].pc = "overlay"
      /\ task[t].at \in task[t].todo
  BY DEF Shapes, DuckTypeOK, TaskType, Depths, SyncOverlay, TaskSound
<1>2. PICK p \in Outputs : task[t].at = p
  BY <1>1 DEF TaskType
<1>3. task[t].gain \in Depths
  BY <1>1 DEF TaskType
<1>4. PICK g \in Depths : g = Min({task[t].gain, overlay[p]})
  BY <1>3, GainsAreDepths DEF Shapes
<1>5. /\ task' = [task EXCEPT ![t] = [task[t] EXCEPT !.pc = "post", !.gain = g]]
      /\ UNCHANGED <<mixVars, posted, told>>
  BY <1>1, <1>2, <1>4 DEF SyncOverlay
<1>6. [task[t] EXCEPT !.pc = "post", !.gain = g] = [task[t] EXCEPT !.pc = "post", !.at = p, !.gain = g]
  BY <1>1, <1>2 DEF TaskType
<1>7. /\ Shapes'
      /\ task'[t].pc = "post" /\ task'[t].at = p /\ task'[t].gain = g
      /\ \A u \in Tasks \ {t} : task'[u] = task[u]
      /\ \A u \in Tasks : task'[u].todo = task[u].todo
  BY <1>1, <1>2, <1>5, <1>6, ReadShape
<1>8. ASSUME ReadingsFresh, Heading
      PROVE  ReadingsFresh' /\ Heading'
  <2>1. task[t].gain = HoldGain(p) \/ OwedBesides(t, p)
    BY <1>1, <1>2, <1>8 DEF ReadingsFresh
  <2>2. g = Effective(p) \/ OwedBesides(t, p)
    BY <1>4, <2>1 DEF Effective
  <2>3. \A o \in Outputs : task'[t].at = o =>
          /\ task'[t].pc = "overlay" => task'[t].gain = HoldGain(o) \/ OwedBesides(t, o)
          /\ task'[t].pc = "post" => task'[t].gain = Effective(o) \/ OwedBesides(t, o)
    BY <1>7, <2>2
  <2> QED BY <1>5, <1>7, <1>8, <2>3, ReadFollows
<1> QED BY <1>7, <1>8

LEMMA SyncPostStep ==
  ASSUME DuckConstants, Shapes, NEW t \in Tasks, SyncPost(t)
  PROVE  /\ Shapes'
         /\ ~Full /\ ~Racing /\ ReadingsFresh /\ Heading => ReadingsFresh' /\ Heading'
<1>1. /\ task[t] \in TaskType /\ task[t].pc = "post" /\ task[t].at \in task[t].todo
      /\ posted \in Seq(Outputs \X Depths)
  BY DEF Shapes, DuckTypeOK, TaskType, Depths, SyncPost, TaskSound
<1>2. PICK p \in Outputs, g \in Depths : task[t].at = p /\ task[t].gain = g
  BY <1>1 DEF TaskType
<1> DEFINE left == task[t].todo \ {p}
<1>3. PICK locked \in BOOLEAN, id \in 0..MaxHolds : task[t].locked = locked /\ task[t].starts = id
  BY <1>1 DEF TaskType
<1>4. /\ ReassertFor(t, left, locked, id)
      /\ posted' = IF Full THEN posted ELSE Append(posted, <<p, g>>)
      /\ UNCHANGED <<mixVars, told>>
  BY <1>2, <1>3 DEF SyncPost
<1>5. left \in SUBSET Outputs
  BY <1>1 DEF TaskType
<1>6. /\ task' \in [Tasks -> TaskType] /\ TaskSound'
      /\ task'[t].todo = left /\ task'[t].at = "none"
      /\ \A u \in Tasks \ {t} : task'[u] = task[u]
  BY <1>4, <1>5, ReassertShape
<1>7. posted' \in Seq(Outputs \X Depths)
  BY <1>1, <1>4
<1>8. Shapes'
  BY <1>4, <1>6, <1>7 DEF Shapes, DuckTypeOK, TaskType, Depths, mixVars
<1>9. ASSUME ~Full, ~Racing, ReadingsFresh, Heading
      PROVE  ReadingsFresh' /\ Heading'
  <2>1. posted' = Append(posted, <<p, g>>) /\ UNCHANGED told
    BY <1>4, <1>9
  <2>2. /\ WillBe(p, g)'
        /\ \A o \in Outputs \ {p} : \A x : WillBe(o, x) => WillBe(o, x)'
    BY <1>1, <2>1, PostedLast
  <2>3. \A o \in Outputs : HoldGain(o)' = HoldGain(o) /\ Effective(o)' = Effective(o)
    BY <1>4 DEF HoldGain, Effective, mixVars
  <2>4. ended' = ended
    BY <1>4 DEF mixVars
  <2>5. g = Effective(p) \/ OwedBesides(t, p)
    BY <1>1, <1>2, <1>9 DEF ReadingsFresh
  <2>6. OwedBesides(t, p) => Owed(p)'
    BY <1>6, <2>4 DEF OwedBesides, Owed
  <2>7. \A o \in Outputs \ {p} : Owed(o) => Owed(o)'
    <3> SUFFICES ASSUME NEW o \in Outputs \ {p}, NEW u \in Tasks, o \in task[u].todo
                 PROVE  o \in task'[u].todo
      BY <2>4 DEF Owed
    <3> QED BY <1>6
  <2>8. Heading'
    BY <1>9, <2>2, <2>3, <2>5, <2>6, <2>7 DEF Heading
  <2>9. ReadingsFresh'
    <3> SUFFICES ASSUME NEW u \in Tasks, NEW o \in Outputs, task'[u].at = o
                 PROVE  /\ task'[u].pc = "overlay" => task'[u].gain = HoldGain(o)' \/ OwedBesides(u, o)'
                        /\ task'[u].pc = "post" => task'[u].gain = Effective(o)' \/ OwedBesides(u, o)'
      BY DEF ReadingsFresh
    <3>1. u # t
      BY <1>6 DEF DuckConstants
    <3>2. task'[u] = task[u] /\ task[u].at = o
      BY <1>6, <3>1
    <3>3. o # p
      BY <1>2, <1>9, <3>1, <3>2 DEF Racing, DuckConstants
    <3>4. OwedBesides(u, o) => OwedBesides(u, o)'
      <4> SUFFICES ASSUME NEW v \in Tasks \ {u}, o \in task[v].todo
                   PROVE  o \in task'[v].todo
        BY <2>4 DEF OwedBesides
      <4> QED BY <1>6, <3>3
    <3> QED BY <1>9, <2>3, <3>2, <3>4 DEF ReadingsFresh
  <2> QED BY <2>8, <2>9
<1> QED BY <1>8, <1>9

-----------------------------------------------------------------------------
(* The host's side. *)

LEMMA RelayStep ==
  ASSUME DuckConstants, Shapes, RelayDuck
  PROVE  Shapes' /\ (ReadingsFresh /\ Heading => ReadingsFresh' /\ Heading')
<1>1. /\ posted \in Seq(Outputs \X Depths) /\ told \in [Outputs -> Depths]
      /\ posted # <<>> /\ posted' = Tail(posted)
      /\ told' = [told EXCEPT ![Head(posted)[1]] = Head(posted)[2]]
      /\ UNCHANGED <<mixVars, task>>
  BY DEF Shapes, DuckTypeOK, RelayDuck, Depths
<1>2. Head(posted) \in Outputs \X Depths /\ Tail(posted) \in Seq(Outputs \X Depths)
  BY <1>1
<1>3. told' \in [Outputs -> Depths] /\ posted' \in Seq(Outputs \X Depths)
  BY <1>1, <1>2
<1>4. Shapes'
  BY <1>1, <1>3 DEF Shapes, DuckTypeOK, TaskSound, Depths, mixVars
<1>5. \A o \in Outputs : HoldGain(o)' = HoldGain(o) /\ Effective(o)' = Effective(o)
  BY <1>1 DEF HoldGain, Effective, mixVars
<1>6. /\ \A o : Owed(o) => Owed(o)'
      /\ \A t \in Tasks : \A o : OwedBesides(t, o) => OwedBesides(t, o)'
  BY <1>1 DEF Owed, OwedBesides, mixVars
<1>7. \A o \in Outputs : \A d : WillBe(o, d) => WillBe(o, d)'
  BY RelayedFirst
<1>8. Heading => Heading'
  BY <1>5, <1>6, <1>7 DEF Heading
<1>9. ReadingsFresh => ReadingsFresh'
  BY <1>1, <1>5, <1>6 DEF ReadingsFresh
<1> QED BY <1>4, <1>8, <1>9

LEMMA ReconnectStep ==
  ASSUME DuckConstants, Shapes, NEW o \in Outputs, AgentReconnects(o)
  PROVE  /\ Shapes'
         /\ told[o] = NoDuck /\ ReadingsFresh /\ Heading => ReadingsFresh' /\ Heading'
<1>1. /\ told \in [Outputs -> Depths] /\ told' = [told EXCEPT ![o] = NoDuck]
      /\ UNCHANGED <<mixVars, task, posted>>
  BY DEF Shapes, DuckTypeOK, AgentReconnects, Depths
<1>2. told' \in [Outputs -> Depths]
  BY <1>1 DEF Depths
<1>3. Shapes'
  BY <1>1, <1>2 DEF Shapes, DuckTypeOK, TaskSound, Depths, mixVars
<1>4. ASSUME told[o] = NoDuck, ReadingsFresh, Heading
      PROVE  ReadingsFresh' /\ Heading'
  <2>1. told' = told
    BY <1>1, <1>4
  <2>2. \A p \in Outputs : HoldGain(p)' = HoldGain(p) /\ Effective(p)' = Effective(p)
    BY <1>1 DEF HoldGain, Effective, mixVars
  <2>3. /\ \A p : Owed(p) <=> Owed(p)'
        /\ \A t \in Tasks : \A p : OwedBesides(t, p) <=> OwedBesides(t, p)'
        /\ \A p, d : WillBe(p, d) <=> WillBe(p, d)'
    BY <1>1, <2>1 DEF Owed, OwedBesides, WillBe, mixVars
  <2>4. Heading'
    BY <1>4, <2>2, <2>3 DEF Heading
  <2>5. ReadingsFresh'
    BY <1>1, <1>4, <2>2, <2>3 DEF ReadingsFresh
  <2> QED BY <2>4, <2>5
<1> QED BY <1>3, <1>4

-----------------------------------------------------------------------------
(* The invariant is inductive. *)

LEMMA InitIInv ==
  ASSUME DuckConstants, SyncInit
  PROVE  IInv
<1>1. /\ ducks = [o \in Outputs |-> {}] /\ lastId = 0
      /\ overlay = [o \in Outputs |-> NoDuck] /\ ended = {} /\ clips = 0
      /\ task = [t \in Tasks |-> Idle] /\ posted = <<>>
      /\ told = [o \in Outputs |-> NoDuck] /\ missed = FALSE
  BY DEF SyncInit, DuckInit
<1>2. 0 \in 0..MaxHolds /\ 0 \in 0..MaxClips /\ NoDuck \in Nat
  BY DEF DuckConstants
<1>3. Idle \in TaskType
  BY <1>2 DEF Idle, TaskType, Depths
<1>4. task \in [Tasks -> TaskType]
  BY <1>1, <1>3
<1>5. posted \in Seq(Outputs \X (Levels \cup {NoDuck}))
  BY <1>1
<1>6. ducks \in [Outputs -> SUBSET Hold]
  BY <1>1
<1>7. DuckTypeOK
  BY <1>1, <1>2, <1>4, <1>5, <1>6 DEF DuckTypeOK, TaskType, Depths
<1>8. \A t \in Tasks : task[t].pc = "idle" /\ task[t].todo = {} /\ task[t].at = "none"
  BY <1>1 DEF Idle
<1>9. Shapes
  BY <1>7, <1>8 DEF Shapes, TaskSound
<1>10. ~Racing /\ ReadingsFresh
  BY <1>8 DEF Racing, ReadingsFresh, DuckConstants
<1>11. \A o \in Outputs : Effective(o) = NoDuck
  <2> TAKE o \in Outputs
  <2>1. {h.level : h \in ducks[o]} \cup {NoDuck} = {NoDuck} /\ overlay[o] = NoDuck
    BY <1>1
  <2>2. Min({NoDuck}) = NoDuck
    BY <1>2, MinOfNaturals
  <2>3. HoldGain(o) = NoDuck
    BY <2>1, <2>2 DEF HoldGain
  <2> QED BY <2>1, <2>2, <2>3 DEF Effective
<1>12. Heading
  <2>1. \A o \in Outputs : told[o] = NoDuck /\ Len(posted) = 0
    BY <1>1
  <2> QED BY <1>11, <2>1 DEF Heading, WillBe
<1> QED BY <1>1, <1>9, <1>10, <1>12 DEF IInv

\* Every step keeps the shapes; if none of the three happens, also the rest.
LEMMA StepKeeps ==
  ASSUME DuckConstants, Shapes, DuckNext
  PROVE  /\ Shapes'
         /\ ~Missing /\ ~Racing /\ ReadingsFresh /\ Heading => ReadingsFresh' /\ Heading'
<1> DEFINE Goal == /\ Shapes'
                   /\ ~Missing /\ ~Racing /\ ReadingsFresh /\ Heading => ReadingsFresh' /\ Heading'
<1> SUFFICES Goal
  OBVIOUS
<1>0. Shapes' /\ Cause => Goal
  BY CauseFollows
<1>1. ASSUME NEW t \in Callers, NEW targets \in (SUBSET Outputs) \ {{}}, NEW l \in Levels,
             StartDuck(t, targets, l)
      PROVE  Goal
  BY <1>0, <1>1, StartCause
<1>2. ASSUME NEW id \in Holds, RenewDuck(id)
      PROVE  Goal
  BY <1>0, <1>2, RenewCause
<1>3. ASSUME NEW id \in Holds, NEW t \in Callers, ReleaseDuck(t, id)
      PROVE  Goal
  BY <1>0, <1>3, ReleaseCause
<1>4. CASE ExpireDucks
  BY <1>0, <1>4, ExpireCause
<1>5. ASSUME NEW o \in Outputs, NEW t \in Callers, NEW l \in Levels \cup {NoDuck}, Announce(t, o, l)
      PROVE  Goal
  BY <1>0, <1>5, AnnounceCause DEF Depths
<1>6. ASSUME NEW o \in Outputs, OverlayEnds(o)
      PROVE  Goal
  BY <1>0, <1>6, OverlayEndsCause
<1>7. ASSUME NEW o \in Outputs, PollStops(o)
      PROVE  Goal
  BY <1>0, <1>7, PollStopsCause
<1>8. ASSUME NEW o \in Outputs, AgentReconnects(o)
      PROVE  Goal
  BY <1>8, ReconnectStep DEF Missing
<1>9. ASSUME NEW t \in Tasks, Sync(t)
      PROVE  Goal
  <2>1. ASSUME NEW o \in Outputs, SyncHolds(t, o) PROVE Goal
    BY <2>1, SyncHoldsStep
  <2>2. CASE SyncOverlay(t)
    BY <2>2, SyncOverlayStep
  <2>3. CASE SyncPost(t)
    BY <2>3, SyncPostStep DEF Missing
  <2> QED BY <1>9, <2>1, <2>2, <2>3 DEF Sync
<1>10. CASE RelayDuck
  BY <1>10, RelayStep
<1> HIDE DEF Goal
<1>11. CASE \E t \in Callers, targets \in (SUBSET Outputs) \ {{}}, l \in Levels : StartDuck(t, targets, l)
  BY <1>1, <1>11
<1>12. CASE \E id \in Holds : RenewDuck(id) \/ \E t \in Callers : ReleaseDuck(t, id)
  BY <1>2, <1>3, <1>12
<1>13. CASE \E o \in Outputs : \/ \E t \in Callers, l \in Levels \cup {NoDuck} : Announce(t, o, l)
                              \/ OverlayEnds(o)
                              \/ PollStops(o)
                              \/ AgentReconnects(o)
  BY <1>5, <1>6, <1>7, <1>8, <1>13
<1> QED
  BY <1>4, <1>9, <1>10, <1>11, <1>12, <1>13, Zenon DEF DuckNext

LEMMA NextIInv ==
  ASSUME DuckConstants, IInv, [SyncNext]_syncVars
  PROVE  IInv'
<1>1. CASE SyncNext
  <2>1. /\ DuckNext /\ Shapes /\ missed \in BOOLEAN
        /\ missed' = (missed \/ Missing)
    BY <1>1 DEF SyncNext, IInv
  <2>2. /\ Shapes'
        /\ ~Missing /\ ~Racing /\ ReadingsFresh /\ Heading => ReadingsFresh' /\ Heading'
    BY <2>1, StepKeeps
  <2>3. Racing' => Missing
    BY DEF Missing
  <2>4. missed' \in BOOLEAN
    BY <2>1
  <2>5. ~missed' => ~missed /\ ~Missing
    BY <2>1
  <2>6. ~missed => ~Racing /\ ReadingsFresh /\ Heading
    BY DEF IInv
  <2>7. ~missed' => ~Racing' /\ ReadingsFresh' /\ Heading'
    BY <2>2, <2>3, <2>5, <2>6
  <2> QED BY <2>2, <2>4, <2>7 DEF IInv
<1>2. CASE UNCHANGED syncVars
  <2>1. UNCHANGED <<mixVars, task, posted, told, missed>>
    BY <1>2 DEF syncVars, duckVars
  <2>2. Shapes <=> Shapes'
    BY <2>1 DEF Shapes, DuckTypeOK, TaskSound, mixVars
  <2>3. Racing <=> Racing'
    BY <2>1 DEF Racing
  <2>4. \A o \in Outputs : HoldGain(o)' = HoldGain(o) /\ Effective(o)' = Effective(o)
    BY <2>1 DEF HoldGain, Effective, mixVars
  <2>5. /\ \A o : Owed(o) <=> Owed(o)'
        /\ \A t \in Tasks : \A o : OwedBesides(t, o) <=> OwedBesides(t, o)'
        /\ \A o, d : WillBe(o, d) <=> WillBe(o, d)'
    BY <2>1 DEF Owed, OwedBesides, WillBe, mixVars
  <2>6. Heading <=> Heading'
    BY <2>4, <2>5 DEF Heading
  <2>7. ReadingsFresh <=> ReadingsFresh'
    BY <2>1, <2>4, <2>5 DEF ReadingsFresh
  <2> QED BY <2>1, <2>2, <2>3, <2>6, <2>7 DEF IInv
<1> QED BY <1>1, <1>2

(* The invariant above holds in every behaviour. *)
THEOREM Invariance ==
  ASSUME DuckConstants
  PROVE  SyncSpec => []IInv
<1>1. SyncInit => IInv
  BY InitIInv
<1>2. IInv /\ [SyncNext]_syncVars => IInv'
  BY NextIInv
<1> QED BY <1>1, <1>2, PTL DEF SyncSpec

(* Holds, tasks, the queue and what the agents are told keep their types. *)
THEOREM TypeCorrect ==
  ASSUME DuckConstants
  PROVE  SyncSpec => []DuckTypeOK
<1>1. IInv => DuckTypeOK
  BY DEF IInv, Shapes
<1> QED BY <1>1, Invariance, PTL

(* sync_agent_duck(): a host follows the strongest duck in force on it,      *)
(* unless two tasks raced, the queue was full, or its agent was lost.        *)
THEOREM HostsFollow ==
  ASSUME DuckConstants
  PROVE  SyncSpec => []FollowsUnlessMissed
<1>1. ASSUME IInv, ~missed, Settled, NEW o \in Outputs
      PROVE  told[o] = Effective(o)
  <2>1. ~Owed(o)
    BY <1>1 DEF Settled, Owed, IInv, Shapes, TaskSound
  <2>2. WillBe(o, Effective(o))
    BY <1>1, <2>1 DEF IInv, Heading
  <2>3. Len(posted) = 0
    BY <1>1 DEF Settled
  <2> QED BY <2>2, <2>3 DEF WillBe
<1>2. IInv => FollowsUnlessMissed
  BY <1>1 DEF FollowsUnlessMissed, AgentFollows
<1> QED BY <1>2, Invariance, PTL

-----------------------------------------------------------------------------
(* A turn ends on all of its outputs at once. *)

\* Ids are never used twice, and the entries of one hold run out together.
OneLease ==
  /\ ducks \in [Outputs -> SUBSET Hold] /\ lastId \in 0..MaxHolds
  /\ \A o \in Outputs : \A h \in ducks[o] : h.id <= lastId
  /\ \A o, p \in Outputs : \A h \in ducks[o], k \in ducks[p] : h.id = k.id => h.left = k.left

LEMMA TurnStep ==
  ASSUME DuckConstants, OneLease, [DuckNext]_duckVars
  PROVE  /\ OneLease'
         /\ \A id \in Holds : Covers(id) # {} => Covers(id)' \in {{}, Covers(id)}
<1> DEFINE Goal == /\ OneLease'
                   /\ \A id \in Holds : Covers(id) # {} => Covers(id)' \in {{}, Covers(id)}
<1>1. CASE UNCHANGED <<ducks, lastId>>
  BY <1>1 DEF OneLease, Covers
<1>2. ASSUME NEW t \in Callers, NEW targets \in (SUBSET Outputs) \ {{}}, NEW l \in Levels,
             StartDuck(t, targets, l)
      PROVE  Goal
  <2> DEFINE new == [id |-> lastId', level |-> l, left |-> Lease]
  <2>1. /\ lastId' = lastId + 1 /\ lastId < MaxHolds /\ lastId \in Nat /\ MaxHolds \in Nat
        /\ ducks' = [o \in Outputs |-> IF o \in targets THEN ducks[o] \cup {new} ELSE ducks[o]]
    BY <1>2 DEF StartDuck, OneLease, DuckConstants
  <2>2. new \in Hold /\ new.id = lastId + 1 /\ new.left = Lease
    BY <2>1 DEF DuckConstants, Hold, Holds
  <2> HIDE DEF new
  <2>3. ducks' \in [Outputs -> SUBSET Hold] /\ lastId' \in 0..MaxHolds
    BY <2>1, <2>2 DEF OneLease
  <2>4. \A o \in Outputs : \A h \in ducks'[o] : h = new \/ h \in ducks[o]
    BY <2>1
  <2>5. \A o \in Outputs : \A h \in ducks[o] : h \in ducks'[o] /\ h.id \in Nat /\ h.id <= lastId
    BY <2>1 DEF OneLease, Hold, Holds
  <2>6. \A o \in Outputs : \A h \in ducks'[o] : h.id <= lastId'
    BY <2>1, <2>2, <2>4, <2>5
  <2>7. \A o, p \in Outputs : \A h \in ducks'[o], k \in ducks'[p] : h.id = k.id => h.left = k.left
    <3> TAKE o, p \in Outputs
    <3> TAKE h \in ducks'[o], k \in ducks'[p]
    <3>1. CASE h \in ducks[o] /\ k \in ducks[p]
      BY <3>1 DEF OneLease
    <3>2. CASE h = new /\ k = new
      BY <3>2
    <3>3. CASE h = new /\ k \in ducks[p]
      BY <2>1, <2>2, <2>5, <3>3
    <3>4. CASE h \in ducks[o] /\ k = new
      BY <2>1, <2>2, <2>5, <3>4
    <3> QED BY <2>4, <3>1, <3>2, <3>3, <3>4
  <2>8. ASSUME NEW id \in Holds, Covers(id) # {}
        PROVE  Covers(id)' = Covers(id)
    <3>1. id \in Nat /\ id <= lastId
      BY <2>5, <2>8 DEF Covers
    <3> QED BY <2>1, <2>2, <2>4, <2>5, <3>1 DEF Covers
  <2> QED BY <2>3, <2>6, <2>7, <2>8 DEF OneLease
<1>3. ASSUME NEW id \in Holds, RenewDuck(id)
      PROVE  Goal
  <2> DEFINE renewed(h) == IF h.id = id THEN [h EXCEPT !.left = Lease] ELSE h
  <2>1. ducks' = [o \in Outputs |-> {renewed(h) : h \in ducks[o]}] /\ lastId' = lastId
    BY <1>3 DEF RenewDuck
  <2>2. \A h \in Hold : /\ renewed(h) \in Hold /\ renewed(h).id = h.id
                        /\ renewed(h).left = IF h.id = id THEN Lease ELSE h.left
    BY HoldsAre
  <2> HIDE DEF renewed
  <2>3. \A o \in Outputs : ducks[o] \subseteq Hold
    BY DEF OneLease
  <2>4. ducks' \in [Outputs -> SUBSET Hold] /\ lastId' \in 0..MaxHolds
    BY <2>1, <2>2, <2>3 DEF OneLease
  <2>5. \A o \in Outputs : \A h \in ducks'[o] : \E k \in ducks[o] : h = renewed(k)
    BY <2>1
  <2>6. \A o \in Outputs : \A h \in ducks'[o] : h.id <= lastId'
    BY <2>1, <2>2, <2>3, <2>5 DEF OneLease
  <2>7. \A o, p \in Outputs : \A h \in ducks'[o], k \in ducks'[p] : h.id = k.id => h.left = k.left
    <3> TAKE o, p \in Outputs
    <3> TAKE h \in ducks'[o], k \in ducks'[p]
    <3>1. PICK h1 \in ducks[o] : h = renewed(h1)
      BY <2>5
    <3>2. PICK k1 \in ducks[p] : k = renewed(k1)
      BY <2>5
    <3>3. h1 \in Hold /\ k1 \in Hold /\ (h1.id = k1.id => h1.left = k1.left)
      BY <2>3 DEF OneLease
    <3> QED BY <2>2, <3>1, <3>2, <3>3
  <2>8. ASSUME NEW i \in Holds
        PROVE  Covers(i)' = Covers(i)
    <3>1. ASSUME NEW o \in Outputs, NEW h \in ducks[o], h.id = i
          PROVE  renewed(h) \in ducks'[o] /\ renewed(h).id = i
      BY <2>1, <2>2, <2>3, <3>1
    <3>2. ASSUME NEW o \in Outputs, NEW h \in ducks'[o], h.id = i
          PROVE  \E k \in ducks[o] : k.id = i
      BY <2>2, <2>3, <2>5, <3>2
    <3> QED BY <3>1, <3>2 DEF Covers
  <2> QED BY <2>4, <2>6, <2>7, <2>8 DEF OneLease
<1>4. ASSUME NEW id \in Holds, NEW t \in Callers, ReleaseDuck(t, id)
      PROVE  Goal
  <2>1. ducks' = [o \in Outputs |-> {h \in ducks[o] : h.id # id}] /\ lastId' = lastId
    BY <1>4 DEF ReleaseDuck
  <2>2. OneLease'
    BY <2>1 DEF OneLease
  <2>3. \A i \in Holds : Covers(i)' = IF i = id THEN {} ELSE Covers(i)
    BY <2>1 DEF Covers
  <2> QED BY <2>2, <2>3
<1>5. CASE ExpireDucks
  <2> DEFINE aged(h) == [h EXCEPT !.left = @ - 1]
  <2>1. /\ ducks' = [o \in Outputs |-> {aged(h) : h \in {k \in ducks[o] : k.left > 0}}]
        /\ lastId' = lastId
    BY <1>5 DEF ExpireDucks
  <2>2. \A h \in Hold : h.left > 0 => aged(h) \in Hold /\ aged(h).id = h.id /\ aged(h).left = h.left - 1
    BY HoldsAre
  <2> HIDE DEF aged
  <2>3. \A o \in Outputs : ducks[o] \subseteq Hold
    BY DEF OneLease
  <2>4. ducks' \in [Outputs -> SUBSET Hold] /\ lastId' \in 0..MaxHolds
    BY <2>1, <2>2, <2>3 DEF OneLease
  <2>5. \A o \in Outputs : \A h \in ducks'[o] : \E k \in ducks[o] : k.left > 0 /\ h = aged(k)
    BY <2>1
  <2>6. \A o \in Outputs : \A h \in ducks'[o] : h.id <= lastId'
    BY <2>1, <2>2, <2>3, <2>5 DEF OneLease
  <2>7. \A o, p \in Outputs : \A h \in ducks'[o], k \in ducks'[p] : h.id = k.id => h.left = k.left
    <3> TAKE o, p \in Outputs
    <3> TAKE h \in ducks'[o], k \in ducks'[p]
    <3>1. PICK h1 \in ducks[o] : h1.left > 0 /\ h = aged(h1)
      BY <2>5
    <3>2. PICK k1 \in ducks[p] : k1.left > 0 /\ k = aged(k1)
      BY <2>5
    <3>3. h1 \in Hold /\ k1 \in Hold /\ (h1.id = k1.id => h1.left = k1.left)
      BY <2>3 DEF OneLease
    <3> QED BY <2>2, <3>1, <3>2, <3>3
  <2>8. ASSUME NEW id \in Holds
        PROVE  Covers(id)' \in {{}, Covers(id)}
    <3>1. CASE \E o \in Outputs : \E h \in ducks[o] : h.id = id /\ h.left > 0
      <4>1. \A o \in Outputs : \A h \in ducks[o] : h.id = id => h.left > 0
        BY <3>1 DEF OneLease
      <4>2. ASSUME NEW o \in Outputs, NEW h \in ducks[o], h.id = id
            PROVE  aged(h) \in ducks'[o] /\ aged(h).id = id
        BY <2>1, <2>2, <2>3, <4>1, <4>2
      <4>3. ASSUME NEW o \in Outputs, NEW h \in ducks'[o], h.id = id
            PROVE  \E k \in ducks[o] : k.id = id
        BY <2>2, <2>3, <2>5, <4>3
      <4>4. Covers(id)' = Covers(id)
        BY <4>2, <4>3 DEF Covers
      <4> QED BY <4>4
    <3>2. CASE ~\E o \in Outputs : \E h \in ducks[o] : h.id = id /\ h.left > 0
      <4>1. Covers(id)' = {}
        BY <2>2, <2>3, <2>5, <3>2 DEF Covers
      <4> QED BY <4>1
    <3> QED BY <3>1, <3>2
  <2> QED BY <2>4, <2>6, <2>7, <2>8 DEF OneLease
<1>6. /\ \A o \in Outputs : \/ \E t \in Callers, l \in Levels \cup {NoDuck} : Announce(t, o, l)
                           \/ OverlayEnds(o) \/ PollStops(o) \/ AgentReconnects(o)
                           => UNCHANGED <<ducks, lastId>>
      /\ \A t \in Tasks : Sync(t) => UNCHANGED <<ducks, lastId>>
      /\ RelayDuck \/ UNCHANGED duckVars => UNCHANGED <<ducks, lastId>>
  BY DEF Announce, OverlayEnds, PollStops, AgentReconnects, Sync, SyncHolds, SyncOverlay, SyncPost,
         RelayDuck, mixVars, duckVars
<1> HIDE DEF Goal
<1>7. Goal
  BY <1>1, <1>2, <1>3, <1>4, <1>5, <1>6 DEF DuckNext, Goal
<1> QED BY <1>7 DEF Goal

(* duck.rs: "One id covers all of them, so a single release/renew ends or    *)
(* extends the whole turn": no renewal, release or expiry takes a hold from  *)
(* some of its outputs and leaves it on others.                              *)
THEOREM TurnsAreWhole ==
  ASSUME DuckConstants
  PROVE  DuckSpec => TurnIsWhole
<1>1. DuckInit => OneLease
  BY DEF DuckInit, OneLease, DuckConstants
<1>2. OneLease /\ [DuckNext]_duckVars => OneLease'
  BY TurnStep
<1>3. OneLease /\ [DuckNext]_duckVars =>
        [\A id \in Holds : Covers(id) # {} => Covers(id)' \in {{}, Covers(id)}]_duckVars
  BY TurnStep
<1> QED BY <1>1, <1>2, <1>3, PTL DEF DuckSpec, TurnIsWhole
=============================================================================
