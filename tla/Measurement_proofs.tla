------------------------- MODULE Measurement_proofs -------------------------
(***************************************************************************)
(* Proofs about a microphone alignment: the runs that measure, the delay   *)
(* line they use, and the two solvers.                                     *)
(***************************************************************************)
EXTENDS MeasureRun, DelayLine, ChainSolve, LevelSolver, FiniteSetTheorems,
        SequenceTheorems, TLAPS

-----------------------------------------------------------------------------
(* The runs *)
(***************************************************************************)
(* The invariant has three parts: the types; Sound, what a task's own      *)
(* fields say of each other at each place it can be (a set that it         *)
(* captures is one capture of the microphone); and, as long as no call     *)
(* crossed another, Duties.                                                *)
(*                                                                         *)
(* Duties are who is at work and who owes the members their lines. Alone:  *)
(* one task lives. Current: a live task that is not cancelled is the one   *)
(* that Inner names. NoRevertOver: no revert runs over a running task.     *)
(* Remembered: a run remembers the line of every member before its first.  *)
(* PutBack: what a revert has restored is no longer owed. Known: a line    *)
(* that is owed is remembered, by Inner or by the task that just wrote it. *)
(* That a revert knows every line follows from the last two.               *)
(***************************************************************************)

Pcs == {"none", "checked", "ended", "bind", "park", "offer", "solo", "guard", "read", "step", "lines",
        "note", "prime", "solve", "write", "mark", "settle", "verify", "finish", "parks", "silence"}
ModeNames == {"passes", "chain", "walk"}
Phases == {"idle", "arming", "learning", "positioning", "walking", "measuring", "solving", "proposed",
           "writing", "settling", "verifying", "done", "refused"}
Outcomes == {"none", "refused", "proposed", "done"}
Calls == [call : {"position", "finish", "arrival", "close"}, members : SUBSET Members]

Task ==
  [pc : Pcs, kind : {"measure", "apply"}, mode : ModeNames, todo : Int, caps : SUBSET Int, armed : Int,
   cmd : Seq(Calls), aligned : SUBSET Members, posted : SUBSET Members, closing : BOOLEAN, restarts : Nat,
   lines : SUBSET Members, writes : SUBSET Members, outcome : Outcomes, unseen : BOOLEAN]

State ==
  [phase : Phases, mode : ModeNames, running : BOOLEAN, token : Runs \union {0}, tx : Runs \union {0},
   next : {"none", "post", "busy", "done"}, aligned : SUBSET Members, prov : SUBSET Members,
   proposal : SUBSET SUBSET Members, written : SUBSET Members, before : SUBSET Members]

MeasureTypeOK ==
  /\ inner \in State /\ run \in [Runs -> Task] /\ cancelled \subseteq Runs
  /\ revert \in [todo : SUBSET Members, restored : SUBSET Members, on : BOOLEAN]
  /\ line \subseteq Members /\ mic \in [on : BOOLEAN, capture : Int] /\ active \in BOOLEAN
  /\ overlaid \subseteq Members /\ owed \subseteq Members /\ interleaved \in BOOLEAN

\* What a task says of its set, and of the lines and writes it has still to do.
Sound(t) ==
  /\ t.pc \in {"lines", "note"} => t.lines # {}
  /\ t.pc = "mark" => t.writes # {}
  /\ t.pc \in {"finish", "parks"} => t.outcome \in Outcomes \ {"none"}
  /\ t.pc \in {"none", "checked", "ended"} => t.caps = {}
  /\ \/ t.unseen \/ t.caps = {}
     \/ t.pc = "read" /\ t.caps = {t.armed}
     \/ t.pc # "read" /\ t.caps = {mic.capture}
     \/ t.pc = "offer" /\ t.mode = "chain" /\ \E k \in Int : t.caps = {k}

AllSound == \A r \in Runs : Sound(run[r])

\* a task that is at work on the state there is
Alone == \A q, r \in Runs : Live(q) /\ Live(r) => q = r
Current == \A r \in Runs : Live(r) /\ r \notin cancelled /\ ~At(r, "silence") => inner.running /\ inner.token = r
NoRevertOver == inner.running => ~revert.on
Remembered == inner.running \/ inner.phase # "idle" => inner.before = Members
PutBack == revert.on => revert.restored \intersect owed = {}
Known == \A m \in owed :
    \/ m \in inner.written \intersect inner.before
    \/ \E r \in Runs : At(r, "mark") /\ m = First(run[r].writes)

Duties == ~interleaved => Alone /\ Current /\ NoRevertOver /\ Remembered /\ PutBack /\ Known

MeasureInv == MeasureTypeOK /\ AllSound /\ Duties

LEMMA InitMeasure == MeasureConstants /\ MeasureInit => MeasureInv
<1> SUFFICES ASSUME MeasureConstants, MeasureInit PROVE MeasureInv
  OBVIOUS
<1>1. NoTask \in Task
  BY DEF NoTask, Task, Pcs, ModeNames, Outcomes
<1>2. Idle \in State
  BY DEF Idle, State, Phases, ModeNames
<1>3. MeasureTypeOK
  <2>1. run \in [Runs -> Task]
    BY <1>1 DEF MeasureInit
  <2>2. inner \in State
    BY <1>2 DEF MeasureInit
  <2>3. revert \in [todo : SUBSET Members, restored : SUBSET Members, on : BOOLEAN]
    BY DEF MeasureInit, NoRevert
  <2>4. mic \in [on : BOOLEAN, capture : Int]
    BY DEF MeasureInit
  <2>5. cancelled \subseteq Runs /\ line \subseteq Members /\ overlaid \subseteq Members /\ owed \subseteq Members
    BY DEF MeasureInit
  <2>6. QED
    BY <2>1, <2>2, <2>3, <2>4, <2>5 DEF MeasureInit, MeasureTypeOK
<1>4. AllSound
  BY DEF MeasureInit, AllSound, Sound, NoTask
<1>5. Duties
  BY DEF MeasureInit, Duties, Alone, Current, NoRevertOver, Remembered, PutBack, Known, Live, NoTask, Idle, NoRevert
<1>6. QED
  BY <1>3, <1>4, <1>5 DEF MeasureInv

\* r goes from one of its steps to another: it neither begins nor notes a write, nor is it the last word of a run.
Proceeds(r) ==
  /\ Live(r) /\ ~At(r, "mark") /\ ~At(r, "silence")
  /\ \E t \in Task : /\ run' = [run EXCEPT ![r] = t] /\ Sound(t)
                     /\ t.pc \notin {"none", "checked", "mark", "silence"}
                     /\ t.pc = "ended" => inner' = inner
  /\ inner' \in State /\ inner'.running = inner.running /\ inner'.token = inner.token
  /\ inner'.written = inner.written /\ inner'.before = inner.before
  /\ line' \subseteq Members
  /\ UNCHANGED <<cancelled, revert, micVars, historyVars>>

LEMMA ProceedsKeeps ==
  ASSUME MeasureInv, NEW r \in Runs, Proceeds(r), interleaved' = (interleaved \/ Late(r))
  PROVE  MeasureInv'
<1>1. PICK t \in Task : /\ run' = [run EXCEPT ![r] = t] /\ Sound(t)
                        /\ t.pc \notin {"none", "checked", "mark", "silence"}
                        /\ t.pc = "ended" => inner' = inner
  BY DEF Proceeds
<1>2. /\ run'[r] = t /\ \A q \in Runs : q # r => run'[q] = run[q]
      /\ run' \in [Runs -> Task]
  BY <1>1 DEF MeasureInv, MeasureTypeOK
<1>3. MeasureTypeOK'
  BY <1>2 DEF MeasureInv, MeasureTypeOK, Proceeds, micVars, historyVars, Late
<1>4. AllSound'
  BY <1>1, <1>2 DEF MeasureInv, AllSound, Sound, Proceeds, micVars
<1>5. Duties'
  <2> SUFFICES ASSUME ~interleaved' PROVE (Alone /\ Current /\ NoRevertOver /\ Remembered /\ PutBack /\ Known)'
    BY DEF Duties
  <2>1. /\ Alone /\ Current /\ NoRevertOver /\ Remembered /\ PutBack /\ Known
        /\ r \notin cancelled \/ t.pc = "ended"
    BY <1>2 DEF MeasureInv, MeasureTypeOK, Duties, Late
  <2>2. Alone'
    BY <1>2, <2>1 DEF Alone, Live, Proceeds
  <2>3. Current'
    BY <1>2, <2>1 DEF Current, Live, At, Proceeds
  <2>4. NoRevertOver' /\ PutBack'
    BY <2>1 DEF NoRevertOver, PutBack, Proceeds, historyVars
  <2>5. Remembered'
    BY <1>1, <2>1 DEF Remembered, Current, Proceeds
  <2>6. Known'
    BY <1>2, <2>1 DEF Known, At, Proceeds, historyVars
  <2>7. QED
    BY <2>2, <2>3, <2>4, <2>5, <2>6
<1>6. QED
  BY <1>3, <1>4, <1>5 DEF MeasureInv

-----------------------------------------------------------------------------
(* The steps of a task. *)

LEMMA TaskFacts ==
  ASSUME MeasureInv, NEW r \in Runs
  PROVE  /\ run[r] \in Task /\ Sound(run[r])
         /\ \A pc \in Pcs : To(r, pc) \in Task /\ To(r, pc) = [run[r] EXCEPT !.pc = pc]
         /\ \A why \in Outcomes \ {"none"} :
              /\ Refused(r, why) \in Task /\ Sound(Refused(r, why))
              /\ Refused(r, why).pc = "finish"
<1>1. run[r] \in Task /\ Sound(run[r])
  BY DEF MeasureInv, MeasureTypeOK, AllSound
<1>2. \A pc \in Pcs : To(r, pc) \in Task
  BY <1>1 DEF Task, To
<1>3. NoTask \in Task
  BY DEF NoTask, Task, Pcs, ModeNames, Outcomes
<1>4. \A why \in Outcomes : /\ Refused(r, why) \in Task
                            /\ Refused(r, why).pc = "finish" /\ Refused(r, why).caps = {}
                            /\ Refused(r, why).outcome = why
  BY <1>1, <1>3 DEF Task, Pcs, Refused, NoTask
<1>5. \A why \in Outcomes \ {"none"} : Sound(Refused(r, why)) /\ Refused(r, why).pc = "finish"
  BY <1>4 DEF Sound
<1>6. QED
  BY <1>1, <1>2, <1>4, <1>5 DEF To

LEMMA StateFacts ==
  ASSUME MeasureInv
  PROVE  /\ inner \in State
         /\ \A phase \in Phases : /\ [inner EXCEPT !.phase = phase] \in State
                                  /\ [inner EXCEPT !.phase = phase].running = inner.running
                                  /\ [inner EXCEPT !.phase = phase].token = inner.token
                                  /\ [inner EXCEPT !.phase = phase].written = inner.written
                                  /\ [inner EXCEPT !.phase = phase].before = inner.before
BY DEF MeasureInv, MeasureTypeOK, State

LEMMA QuietProceeds ==
  ASSUME MeasureInv, NEW r \in Runs, Live(r), ~At(r, "mark"), ~At(r, "silence"),
         NEW t \in Task, Goes(r, t), Sound(t), t.pc \notin {"none", "checked", "mark", "silence"},
         UNCHANGED <<inner, cancelled, revert, line, micVars, historyVars>>
  PROVE  Proceeds(r)
BY DEF MeasureInv, MeasureTypeOK, Proceeds, Goes

LEMMA SayingProceeds ==
  ASSUME MeasureInv, NEW r \in Runs, Live(r), ~At(r, "mark"), ~At(r, "silence"),
         NEW t \in Task, Goes(r, t), Sound(t), t.pc \notin {"none", "checked", "mark", "silence", "ended"},
         NEW phase \in Phases, Say(phase),
         UNCHANGED <<cancelled, revert, line, micVars, historyVars>>
  PROVE  Proceeds(r)
BY StateFacts DEF MeasureInv, MeasureTypeOK, Proceeds, Goes, Say

LEMMA RefusalsProceed ==
  ASSUME MeasureInv, NEW r \in Runs,
         \/ BindFails(r) \/ ParkEnds(r) \/ SolveRefused(r) \/ \E passed \in BOOLEAN : Verified(r, passed)
  PROVE  Proceeds(r)
<1>1. /\ Refused(r, "refused") \in Task /\ Sound(Refused(r, "refused")) /\ Refused(r, "refused").pc = "finish"
      /\ Refused(r, "done") \in Task /\ Sound(Refused(r, "done")) /\ Refused(r, "done").pc = "finish"
  BY TaskFacts DEF Outcomes
<1>2. CASE BindFails(r)
  BY <1>1, <1>2, QuietProceeds DEF BindFails, Live, At
<1>3. CASE ParkEnds(r)
  BY <1>1, <1>3, QuietProceeds DEF ParkEnds, Live, At
<1>4. CASE SolveRefused(r)
  BY <1>1, <1>4, SayingProceeds DEF SolveRefused, Live, At, Phases
<1>5. CASE \E passed \in BOOLEAN : Verified(r, passed)
  <2> PICK passed \in BOOLEAN : Verified(r, passed)
    BY <1>5
  <2>1. Goes(r, Refused(r, "refused")) \/ Goes(r, Refused(r, "done"))
    BY DEF Verified
  <2>2. QED
    BY <1>1, <2>1, QuietProceeds DEF Verified, Live, At
<1>6. QED
  BY <1>2, <1>3, <1>4, <1>5

LEMMA OfferProceeds ==
  ASSUME MeasureInv, NEW r \in Runs, Offers(r)
  PROVE  Proceeds(r)
<1> DEFINE t == IF run[r].mode = "chain"
             THEN [To(r, "park") EXCEPT !.posted = {}, !.restarts = 0, !.caps = {}, !.unseen = FALSE]
             ELSE [To(r, "park") EXCEPT !.posted = {}]
<1>1. run[r] \in Task /\ Sound(run[r]) /\ At(r, "offer")
  BY TaskFacts DEF Offers
<1>2. t \in Task /\ t.pc = "park"
  BY <1>1 DEF Task, To, Pcs
<1>3. Sound(t)
  BY <1>1 DEF Task, To, Sound, At
<1>4. inner' = [inner EXCEPT !.next = "post", !.aligned = run[r].aligned, !.phase = inner'.phase]
      /\ inner'.phase \in Phases
  BY <1>1, StateFacts DEF Offers, State, Phases
<1>5. inner' \in State /\ inner'.running = inner.running /\ inner'.token = inner.token
      /\ inner'.written = inner.written /\ inner'.before = inner.before
  <2> DEFINE now(shown, phase) == [inner EXCEPT !.next = "post", !.aligned = shown, !.phase = phase]
  <2>1. run[r].aligned \in SUBSET Members
    BY <1>1 DEF Task
  <2>2. \A shown \in SUBSET Members, phase \in Phases :
          /\ now(shown, phase) \in State
          /\ now(shown, phase).running = inner.running /\ now(shown, phase).token = inner.token
          /\ now(shown, phase).written = inner.written /\ now(shown, phase).before = inner.before
    BY StateFacts DEF State
  <2>3. PICK phase \in Phases : inner' = now(run[r].aligned, phase)
    BY <1>4
  <2>4. QED
    <3> HIDE DEF now
    <3> QED  BY <2>1, <2>2, <2>3
<1>6. QED
  BY <1>1, <1>2, <1>3, <1>5 DEF Offers, Proceeds, Goes, Live, At, MeasureInv, MeasureTypeOK

EndedTask == [NoTask EXCEPT !.pc = "ended"]

LEMMA EndedFacts ==
  ASSUME MeasureInv
  PROVE  EndedTask \in Task /\ Sound(EndedTask) /\ EndedTask.pc = "ended" /\ EndedTask.caps = {}
<1>1. NoTask \in Task
  BY DEF NoTask, Task, Pcs, ModeNames, Outcomes
<1>2. EndedTask \in Task
  BY <1>1 DEF Task, Pcs, EndedTask
<1>3. EndedTask.pc = "ended" /\ EndedTask.caps = {}
  BY DEF EndedTask, NoTask
<1>4. QED
  BY <1>2, <1>3 DEF Sound

LEMMA StopsProceeds ==
  ASSUME MeasureInv, NEW r \in Runs, Stops(r)
  PROVE  Proceeds(r)
<1>1. Live(r) /\ ~At(r, "mark") /\ ~At(r, "silence")
  BY DEF Stops, Looks, Live, At
<1>2. QED
  BY <1>1, EndedFacts, QuietProceeds DEF Stops, Ends, EndedTask

LEMMA MeasuresFacts ==
  ASSUME MeasureConstants, MeasureInv, NEW r \in Runs
  PROVE  Measures(r) \in Task /\ Sound(Measures(r)) /\ Measures(r).pc = "solo" /\ Measures(r).caps = {}
<1>1. run[r] \in Task
  BY TaskFacts
<1>2. Measures(r) \in Task /\ Measures(r).pc = "solo" /\ Measures(r).caps = {}
  <2>1. Measures(r) \in Task
    <3>1. Readings \in Int /\ "solo" \in Pcs
      BY DEF MeasureConstants, Pcs
    <3> HIDE DEF Pcs
    <3>2. QED
      BY <1>1, <3>1 DEF Measures, Task
  <2>2. Measures(r).pc = "solo" /\ Measures(r).caps = {}
    BY <1>1 DEF Measures, Task
  <2>3. QED
    BY <2>1, <2>2
<1>3. QED
  BY <1>2 DEF Sound

\* Going on with the set as it is, where nothing is read and no line or write is begun.
Plain == {"bind", "park", "solo", "guard", "step", "prime", "solve", "write", "settle", "verify", "finish", "parks"}

LEMMA PlainFacts ==
  ASSUME MeasureInv, NEW r \in Runs, NEW pc \in Plain,
         run[r].pc \in Plain \/ run[r].pc \in {"lines", "note", "mark"},
         pc # "finish", pc = "parks" => At(r, "finish")
  PROVE  To(r, pc) \in Task /\ Sound(To(r, pc)) /\ To(r, pc).pc = pc
<1>1. run[r] \in Task /\ Sound(run[r]) /\ To(r, pc) \in Task /\ To(r, pc) = [run[r] EXCEPT !.pc = pc]
  BY TaskFacts DEF Plain, Pcs
<1>2. To(r, pc).pc = pc /\ To(r, pc).caps = run[r].caps /\ To(r, pc).unseen = run[r].unseen
  BY <1>1 DEF Task
<1>4. To(r, pc).outcome = run[r].outcome
  BY <1>1 DEF Task
<1>5. QED
  BY <1>1, <1>2, <1>4 DEF Sound, Plain, At

LEMMA BeginsProceeds ==
  ASSUME MeasureConstants, MeasureInv, NEW r \in Runs, Begins(r)
  PROVE  Proceeds(r)
<1>1. At(r, "bind") /\ Live(r) /\ ~At(r, "mark") /\ ~At(r, "silence")
  BY DEF Begins, At, Live
<1>2. To(r, "write") \in Task /\ Sound(To(r, "write")) /\ To(r, "write").pc = "write"
  BY <1>1, PlainFacts DEF Plain, At
<1>3. To(r, "offer") \in Task /\ Sound(To(r, "offer")) /\ To(r, "offer").pc = "offer"
  <2>1. run[r] \in Task /\ Sound(run[r]) /\ To(r, "offer") \in Task /\ To(r, "offer") = [run[r] EXCEPT !.pc = "offer"]
    BY TaskFacts DEF Pcs
  <2>2. QED
    BY <1>1, <2>1 DEF Sound, At, Task
<1>4. "writing" \in Phases /\ "learning" \in Phases
  BY DEF Phases
<1>5. QED
  BY <1>1, <1>2, <1>3, <1>4, MeasuresFacts, SayingProceeds DEF Begins

LEMMA TakesProceeds ==
  ASSUME MeasureConstants, MeasureInv, NEW r \in Runs, TakesCall(r)
  PROVE  Proceeds(r)
<1>1. At(r, "park") /\ Live(r) /\ ~At(r, "mark") /\ ~At(r, "silence") /\ run[r].cmd # <<>>
  BY DEF TakesCall, At, Live
<1> DEFINE c == Head(run[r].cmd)
           rest == Tail(run[r].cmd)
<1>2. run[r] \in Task /\ Sound(run[r])
  BY TaskFacts
<1>3. c \in Calls /\ rest \in Seq(Calls)
  BY <1>1, <1>2 DEF Task
<1>4. c.members \in SUBSET Members
  BY <1>3 DEF Calls
<1> HIDE DEF c, rest
<1>5. CASE Goes(r, [Measures(r) EXCEPT !.restarts = 0, !.cmd = rest, !.posted = c.members])
  <2> DEFINE t == [Measures(r) EXCEPT !.restarts = 0, !.cmd = rest, !.posted = c.members]
  <2>1. t \in Task /\ t.pc = "solo" /\ t.caps = {}
    BY <1>3, <1>4, MeasuresFacts DEF Task
  <2>2. Sound(t)
    BY <2>1 DEF Sound
  <2>3. QED
    <3> HIDE DEF t
    <3> QED  BY <1>1, <1>5, <2>1, <2>2, QuietProceeds DEF TakesCall, t
<1>6. CASE Goes(r, [To(r, "solve") EXCEPT !.cmd = rest, !.posted = c.members])
  <2> DEFINE t == [To(r, "solve") EXCEPT !.cmd = rest, !.posted = c.members]
  <2>1. t \in Task /\ t.pc = "solve" /\ t.caps = run[r].caps /\ t.unseen = run[r].unseen
    BY <1>2, <1>3, <1>4 DEF Task, To, Pcs
  <2>2. Sound(t)
    BY <1>1, <1>2, <2>1 DEF Sound, At
  <2>3. QED
    <3> HIDE DEF t
    <3> QED  BY <1>1, <1>6, <2>1, <2>2, QuietProceeds DEF TakesCall, t
<1>7. CASE Goes(r, [To(r, "solo") EXCEPT !.todo = 1, !.closing = (c.call = "close"),
                                          !.cmd = rest, !.posted = c.members])
  <2> DEFINE t == [To(r, "solo") EXCEPT !.todo = 1, !.closing = (c.call = "close"),
                                        !.cmd = rest, !.posted = c.members]
  <2>1. t \in Task
    <3>1. To(r, "solo") \in Task /\ rest \in Seq(Calls) /\ c.members \in SUBSET Members
      BY <1>3, <1>4, TaskFacts DEF Pcs
    <3>2. \A u \in Task, b \in BOOLEAN : [u EXCEPT !.closing = b] \in Task
      BY DEF Task
    <3>3. \A u \in Task, s \in Seq(Calls), p \in SUBSET Members : [u EXCEPT !.cmd = s, !.posted = p] \in Task
      BY DEF Task
    <3>4. [To(r, "solo") EXCEPT !.todo = 1] \in Task
      <4>1. \A u \in Task : [u EXCEPT !.todo = 1] \in Task
        BY DEF Task
      <4>2. QED
        BY <3>1, <4>1
    <3>5. [[To(r, "solo") EXCEPT !.todo = 1] EXCEPT !.closing = (c.call = "close")] \in Task
      BY <3>2, <3>4
    <3>6. t = [[[To(r, "solo") EXCEPT !.todo = 1] EXCEPT !.closing = (c.call = "close")]
                 EXCEPT !.cmd = rest, !.posted = c.members]
      BY <3>1 DEF Task
    <3>7. QED
      BY <3>1, <3>3, <3>5, <3>6
  <2>2. t.pc = "solo" /\ t.caps = run[r].caps /\ t.unseen = run[r].unseen
    BY <1>2 DEF Task, To
  <2>3. Sound(t)
    BY <1>1, <1>2, <2>2 DEF Sound, At
  <2>4. QED
    <3> HIDE DEF t
    <3> QED  BY <1>1, <1>7, <2>1, <2>2, <2>3, QuietProceeds DEF TakesCall, t
<1>8. QED
  BY <1>5, <1>6, <1>7 DEF TakesCall, c, rest

LEMMA SolosProceeds ==
  ASSUME MeasureInv, NEW r \in Runs, Solos(r)
  PROVE  Proceeds(r)
<1>1. At(r, "solo") /\ Live(r) /\ ~At(r, "mark") /\ ~At(r, "silence")
  BY DEF Solos, At, Live
<1>2. To(r, "guard") \in Task /\ Sound(To(r, "guard")) /\ To(r, "guard").pc = "guard"
  BY <1>1, PlainFacts DEF Plain, At
<1>3. Refused(r, "refused") \in Task /\ Sound(Refused(r, "refused")) /\ Refused(r, "refused").pc = "finish"
  BY TaskFacts DEF Outcomes
<1>4. "verifying" \in Phases /\ "measuring" \in Phases
  BY DEF Phases
<1>5. CASE active
  BY <1>1, <1>2, <1>4, <1>5, SayingProceeds DEF Solos
<1>6. CASE ~active
  BY <1>1, <1>3, <1>4, <1>6, SayingProceeds DEF Solos
<1>7. QED
  BY <1>5, <1>6

LEMMA ArmsProceeds ==
  ASSUME MeasureInv, NEW r \in Runs, Arms(r)
  PROVE  Proceeds(r)
<1> DEFINE t == [To(r, "read") EXCEPT !.armed = mic.capture]
<1>1. At(r, "guard") /\ Live(r) /\ ~At(r, "mark") /\ ~At(r, "silence")
  BY DEF Arms, At, Live
<1>2. /\ run[r] \in Task /\ Sound(run[r]) /\ To(r, "read") \in Task
      /\ To(r, "read") = [run[r] EXCEPT !.pc = "read"]
      /\ mic.capture \in Int
  BY TaskFacts DEF Pcs, MeasureInv, MeasureTypeOK
<1>3. t \in Task
  BY <1>2 DEF Task
<1>4. t.pc = "read" /\ t.armed = mic.capture /\ t.caps = run[r].caps /\ t.unseen = run[r].unseen
  BY <1>2 DEF Task
<1>5. Sound(t)
  BY <1>1, <1>2, <1>4 DEF Sound, At
<1>6. QED
  <2> HIDE DEF t
  <2> QED  BY <1>1, <1>3, <1>4, <1>5, QuietProceeds DEF Arms, t

LEMMA LocksProceeds ==
  ASSUME MeasureInv, NEW r \in Runs, Locks(r)
  PROVE  Proceeds(r)
<1> DEFINE pc == IF run[r].todo > 1 THEN "solo" ELSE AfterSet(r)
           t == [To(r, pc) EXCEPT !.caps = @ \union {run[r].armed}, !.todo = @ - 1, !.armed = 0, !.aligned = Visited(r)]
<1>1. At(r, "read") /\ Live(r) /\ ~At(r, "mark") /\ ~At(r, "silence")
  BY DEF Locks, At, Live
<1>2. /\ run[r] \in Task /\ Sound(run[r]) /\ pc \in {"solo", "offer", "step", "verify", "solve"}
      /\ mic.capture = run[r].armed
  BY TaskFacts DEF AfterSet, Locks
<1>3. Visited(r) \in SUBSET Members
  BY <1>2 DEF Visited, Task
<1> HIDE DEF pc
<1>4. /\ To(r, pc) \in Task /\ To(r, pc) = [run[r] EXCEPT !.pc = pc]
  BY <1>2, TaskFacts DEF Pcs
<1>5. t \in Task
  <2>1. run[r].armed \in Int
    BY <1>2 DEF Task
  <2>2. \A u \in Task, k \in Int : [u EXCEPT !.caps = @ \union {k}] \in Task
    BY DEF Task
  <2>3. ASSUME NEW u \in Task PROVE [u EXCEPT !.todo = @ - 1] \in Task
    <3>1. u.todo - 1 \in Int
      BY DEF Task
    <3>2. \A k \in Int : [u EXCEPT !.todo = k] \in Task
      BY DEF Task
    <3>3. QED
      BY <3>1, <3>2
  <2>4. \A u \in Task : [u EXCEPT !.armed = 0] \in Task
    BY DEF Task
  <2>5. \A u \in Task, v \in SUBSET Members : [u EXCEPT !.aligned = v] \in Task
    BY DEF Task
  <2>6. t = [[[[To(r, pc) EXCEPT !.caps = @ \union {run[r].armed}] EXCEPT !.todo = @ - 1]
                 EXCEPT !.armed = 0] EXCEPT !.aligned = Visited(r)]
    BY <1>4 DEF Task
  <2>7. QED
    BY <1>3, <1>4, <2>1, <2>2, <2>3, <2>4, <2>5, <2>6
<1>6. t.pc = pc /\ t.caps = run[r].caps \union {run[r].armed} /\ t.unseen = run[r].unseen
  BY <1>2, <1>4 DEF Task
<1>7. Sound(t)
  BY <1>1, <1>2, <1>6 DEF Sound, At
<1>8. QED
  <2> HIDE DEF t
  <2> QED  BY <1>1, <1>2, <1>5, <1>6, <1>7, QuietProceeds DEF Locks, t, pc

LEMMA ReadingRefusedFacts ==
  ASSUME MeasureInv, NEW r \in Runs, At(r, "read")
  PROVE  /\ ReadingRefused(r) \in Task /\ Sound(ReadingRefused(r))
         /\ ReadingRefused(r).pc \in {"offer", "finish"}
<1>1. Refused(r, "refused") \in Task /\ Sound(Refused(r, "refused")) /\ Refused(r, "refused").pc = "finish"
  BY TaskFacts DEF Outcomes
<1>2. /\ run[r] \in Task /\ Sound(run[r]) /\ To(r, "offer") \in Task
      /\ To(r, "offer") = [run[r] EXCEPT !.pc = "offer"]
  BY TaskFacts DEF Pcs
<1>3. /\ To(r, "offer").pc = "offer" /\ To(r, "offer").caps = run[r].caps
      /\ To(r, "offer").unseen = run[r].unseen /\ To(r, "offer").mode = run[r].mode
  BY <1>2 DEF Task
<1>4. run[r].armed \in Int
  BY <1>2 DEF Task
<1>5. run[r].mode = "chain" => Sound(To(r, "offer"))
  BY <1>2, <1>3, <1>4 DEF Sound, At
<1>6. QED
  BY <1>1, <1>2, <1>3, <1>5 DEF ReadingRefused

LEMMA GateTimesOutProceeds ==
  ASSUME MeasureInv, NEW r \in Runs, GateTimesOut(r)
  PROVE  Proceeds(r)
<1>1. At(r, "read") /\ Live(r) /\ ~At(r, "mark") /\ ~At(r, "silence")
  BY DEF GateTimesOut, At, Live
<1>2. QED
  BY <1>1, ReadingRefusedFacts, QuietProceeds DEF GateTimesOut

LEMMA SeesNewCaptureProceeds ==
  ASSUME MeasureConstants, MeasureInv, NEW r \in Runs, SeesNewCapture(r)
  PROVE  Proceeds(r)
<1>1. At(r, "read") /\ Live(r) /\ ~At(r, "mark") /\ ~At(r, "silence") /\ run[r] \in Task
  BY TaskFacts DEF SeesNewCapture, At, Live
<1>2. SetAgain(r) \in Task /\ Sound(SetAgain(r)) /\ SetAgain(r).pc \in {"offer", "solo"}
  <2>1. CASE run[r].mode = "walk"
    <3> DEFINE t == [To(r, "offer") EXCEPT !.restarts = @ + 1, !.aligned = {}, !.caps = {}, !.unseen = FALSE]
    <3>1. To(r, "offer") \in Task
      BY TaskFacts DEF Pcs
    <3>2. t \in Task
      <4>1. \A u \in Task : [u EXCEPT !.restarts = @ + 1] \in Task
        <5>1. \A u \in Task, k \in Nat : [u EXCEPT !.restarts = k] \in Task
          BY DEF Task
        <5>2. \A u \in Task : u.restarts + 1 \in Nat
          BY DEF Task
        <5>3. QED
          BY <5>1, <5>2
      <4>2. \A u \in Task : [u EXCEPT !.aligned = {}, !.caps = {}] \in Task
        BY DEF Task
      <4>3. \A u \in Task : [u EXCEPT !.unseen = FALSE] \in Task
        BY DEF Task
      <4>4. t = [[[To(r, "offer") EXCEPT !.restarts = @ + 1] EXCEPT !.aligned = {}, !.caps = {}] EXCEPT !.unseen = FALSE]
        BY <3>1 DEF Task
      <4>5. QED
        BY <3>1, <4>1, <4>2, <4>3, <4>4
    <3>3. t.pc = "offer" /\ t.caps = {}
      BY <1>1, <3>1 DEF Task, To
    <3>4. QED
      BY <2>1, <3>2, <3>3 DEF SetAgain, Sound
  <2>2. CASE run[r].mode # "walk"
    <3> DEFINE t == [Measures(r) EXCEPT !.restarts = @ + 1]
    <3>1. t \in Task
      BY MeasuresFacts DEF Task
    <3>2. t.pc = "solo" /\ t.caps = {}
      BY MeasuresFacts DEF Task
    <3>3. QED
      BY <2>2, <3>1, <3>2 DEF SetAgain, Sound
  <2>3. QED
    BY <2>1, <2>2
<1>3. Goes(r, SetAgain(r)) \/ Goes(r, ReadingRefused(r))
  BY DEF SeesNewCapture
<1>4. QED
  BY <1>1, <1>2, <1>3, ReadingRefusedFacts, QuietProceeds DEF SeesNewCapture

LEMMA FirstIsIn ==
  ASSUME NEW S \in SUBSET Nat, S # {}
  PROVE  First(S) \in S /\ \A y \in S : First(S) <= y
<1> DEFINE R == {x \in Nat \X Nat : x[1] < x[2]}
<1>1. IsWellFoundedOn(R, Nat)
  BY NatLessThanWellFounded DEF OpToRel
<1> HIDE DEF R
<1>2. PICK x \in S : \A y \in S : <<y, x>> \notin R
  BY <1>1, WFMin
<1>3. \A y \in S : x <= y
  <2> SUFFICES ASSUME NEW y \in S PROVE ~(y < x)
    OBVIOUS
  <2>1. <<y, x>> \in Nat \X Nat /\ <<y, x>>[1] = y /\ <<y, x>>[2] = x
    OBVIOUS
  <2> QED BY <1>2, <2>1 DEF R
<1> QED BY <1>3 DEF First

LEMMA LinesLeftFacts ==
  ASSUME MeasureInv, NEW r \in Runs, run[r].pc \in {"step", "note"}, NEW left \in SUBSET Members
  PROVE  /\ LinesLeft(r, left) \in Task /\ Sound(LinesLeft(r, left))
         /\ LinesLeft(r, left).pc \in {"prime", "lines"}
<1> DEFINE pc == IF left = {} THEN "prime" ELSE "lines"
<1>1. run[r] \in Task /\ Sound(run[r]) /\ pc \in {"prime", "lines"}
  BY TaskFacts
<1>2. (left = {} => pc = "prime") /\ (pc = "lines" => left # {})
  OBVIOUS
<1>3. LinesLeft(r, left) = [To(r, pc) EXCEPT !.lines = left]
  BY DEF LinesLeft
<1> HIDE DEF pc
<1>4. To(r, pc) \in Task /\ To(r, pc) = [run[r] EXCEPT !.pc = pc]
  BY <1>1, TaskFacts DEF Pcs
<1>5. LinesLeft(r, left) \in Task
  BY <1>3, <1>4 DEF Task
<1>6. /\ LinesLeft(r, left).pc = pc /\ LinesLeft(r, left).lines = left
      /\ LinesLeft(r, left).caps = run[r].caps /\ LinesLeft(r, left).unseen = run[r].unseen
  BY <1>1, <1>3, <1>4 DEF Task
<1>7. Sound(LinesLeft(r, left))
  BY <1>1, <1>2, <1>6 DEF Sound
<1>8. QED
  BY <1>1, <1>5, <1>6, <1>7

LEMMA ChainStepsProceed ==
  ASSUME MeasureInv, NEW r \in Runs,
         \/ \E shifts \in BOOLEAN : StepAccepted(r, shifts)
         \/ \E fatally \in BOOLEAN : StepRefused(r, fatally)
  PROVE  Proceeds(r)
<1>1. At(r, "step") /\ Live(r) /\ ~At(r, "mark") /\ ~At(r, "silence") /\ run[r] \in Task /\ Sound(run[r])
  BY TaskFacts DEF StepAccepted, StepRefused, At, Live
<1>2. CASE \E shifts \in BOOLEAN : StepAccepted(r, shifts)
  <2> PICK shifts \in BOOLEAN : StepAccepted(r, shifts)
    BY <1>2
  <2> DEFINE left == run[r].posted \union IF shifts THEN run[r].aligned ELSE {}
  <2>1. left \in SUBSET Members
    BY <1>1 DEF Task
  <2>2. Goes(r, LinesLeft(r, left)) /\ UNCHANGED <<inner, cancelled, revert, line, micVars, historyVars>>
    BY DEF StepAccepted
  <2> HIDE DEF left
  <2>3. run[r].pc \in {"step", "note"}
    BY <1>1 DEF At
  <2>4. QED
    BY <1>1, <2>1, <2>2, <2>3, LinesLeftFacts, QuietProceeds
<1>3. CASE \E fatally \in BOOLEAN : StepRefused(r, fatally)
  <2> PICK fatally \in BOOLEAN : StepRefused(r, fatally)
    BY <1>3
  <2>1. Refused(r, "refused") \in Task /\ Sound(Refused(r, "refused")) /\ Refused(r, "refused").pc = "finish"
    BY TaskFacts DEF Outcomes
  <2>2. To(r, "offer") \in Task /\ To(r, "offer") = [run[r] EXCEPT !.pc = "offer"]
    BY TaskFacts DEF Pcs
  <2>3. /\ To(r, "offer").pc = "offer" /\ To(r, "offer").caps = run[r].caps
        /\ To(r, "offer").unseen = run[r].unseen
    BY <1>1, <2>2 DEF Task
  <2>4. Sound(To(r, "offer"))
    BY <1>1, <2>3 DEF Sound, At
  <2>5. Goes(r, Refused(r, "refused")) \/ Goes(r, To(r, "offer"))
    BY DEF StepRefused
  <2>6. QED
    BY <1>1, <2>1, <2>2, <2>3, <2>4, <2>5, QuietProceeds DEF StepRefused
<1>4. QED
  BY <1>2, <1>3

LEMMA SetsLineProceeds ==
  ASSUME MeasureConstants, MeasureInv, NEW r \in Runs, SetsLine(r)
  PROVE  Proceeds(r)
<1>1. At(r, "lines") /\ Live(r) /\ ~At(r, "mark") /\ ~At(r, "silence") /\ run[r] \in Task /\ Sound(run[r])
  BY TaskFacts DEF SetsLine, At, Live
<1>2. First(run[r].lines) \in Members
  <2>1. run[r].lines \in SUBSET Members /\ run[r].lines # {} /\ Members \subseteq Nat
    BY <1>1 DEF Task, Sound, At, MeasureConstants
  <2>2. QED
    BY <2>1, FirstIsIn
<1>3. line' \subseteq Members
  BY <1>2 DEF SetsLine, MeasureInv, MeasureTypeOK
<1>4. Refused(r, "refused") \in Task /\ Sound(Refused(r, "refused")) /\ Refused(r, "refused").pc = "finish"
  BY TaskFacts DEF Outcomes
<1>5. To(r, "note") \in Task /\ To(r, "note") = [run[r] EXCEPT !.pc = "note"]
  BY TaskFacts DEF Pcs
<1>6. /\ To(r, "note").pc = "note" /\ To(r, "note").lines = run[r].lines
      /\ To(r, "note").caps = run[r].caps /\ To(r, "note").unseen = run[r].unseen
  BY <1>1, <1>5 DEF Task
<1>7. Sound(To(r, "note"))
  BY <1>1, <1>6 DEF Sound, At
<1>8. Goes(r, Refused(r, "refused")) \/ Goes(r, To(r, "note"))
  BY DEF SetsLine
<1>9. inner \in State
  BY StateFacts
<1>10. UNCHANGED <<inner, cancelled, revert, micVars, historyVars>>
  BY DEF SetsLine
<1>11. QED
  BY <1>1, <1>3, <1>4, <1>5, <1>6, <1>7, <1>8, <1>9, <1>10 DEF Proceeds, Goes

\* What the steps of a task write into Inner, besides the phase.
Kept(now) ==
  /\ now \in State /\ now.running = inner.running /\ now.token = inner.token
  /\ now.written = inner.written /\ now.before = inner.before

LEMMA InnerFacts ==
  ASSUME MeasureInv
  PROVE  /\ \A prov \in SUBSET Members : Kept([inner EXCEPT !.prov = prov])
         /\ \A prov \in SUBSET Members, phase \in Phases : Kept([inner EXCEPT !.prov = prov, !.phase = phase])
         /\ \A proposed \in SUBSET SUBSET Members, phase \in Phases, next \in {"none", "post", "busy", "done"} :
              Kept([inner EXCEPT !.proposal = proposed, !.phase = phase, !.next = next])
<1>1. inner \in State
  BY StateFacts
<1>2. \A prov \in SUBSET Members : Kept([inner EXCEPT !.prov = prov])
  BY <1>1 DEF State, Kept
<1>3. \A prov \in SUBSET Members, phase \in Phases : Kept([inner EXCEPT !.prov = prov, !.phase = phase])
  BY <1>1 DEF State, Kept
<1>4. \A proposed \in SUBSET SUBSET Members, phase \in Phases, next \in {"none", "post", "busy", "done"} :
        Kept([inner EXCEPT !.proposal = proposed, !.phase = phase, !.next = next])
  BY <1>1 DEF State, Kept
<1>5. QED
  BY <1>2, <1>3, <1>4

LEMMA NotesLineProceeds ==
  ASSUME MeasureConstants, MeasureInv, NEW r \in Runs, NotesLine(r)
  PROVE  Proceeds(r)
<1>1. At(r, "note") /\ Live(r) /\ ~At(r, "mark") /\ ~At(r, "silence") /\ run[r] \in Task /\ Sound(run[r])
  BY TaskFacts DEF NotesLine, At, Live
<1>2. run[r].lines \in SUBSET Members /\ First(run[r].lines) \in Members
  <2>1. run[r].lines \in SUBSET Members /\ run[r].lines # {} /\ Members \subseteq Nat
    BY <1>1 DEF Task, Sound, At, MeasureConstants
  <2>2. QED
    BY <2>1, FirstIsIn
<1> DEFINE left == run[r].lines \ {First(run[r].lines)}
           prov == inner.prov \union {First(run[r].lines)}
<1>3. left \in SUBSET Members /\ prov \in SUBSET Members
  BY <1>2, StateFacts DEF State
<1>4. inner' = [inner EXCEPT !.prov = prov] /\ Goes(r, LinesLeft(r, left))
  BY DEF NotesLine
<1>5. LinesLeft(r, left) \in Task /\ Sound(LinesLeft(r, left)) /\ LinesLeft(r, left).pc \in {"prime", "lines"}
  BY <1>1, <1>3, LinesLeftFacts DEF At
<1> HIDE DEF left, prov
<1>6. /\ inner' \in State /\ inner'.running = inner.running /\ inner'.token = inner.token
      /\ inner'.written = inner.written /\ inner'.before = inner.before
  BY <1>3, <1>4, InnerFacts DEF Kept
<1>7. UNCHANGED <<cancelled, revert, line, micVars, historyVars>> /\ line \subseteq Members
  BY DEF NotesLine, MeasureInv, MeasureTypeOK
<1>8. QED
  BY <1>1, <1>4, <1>5, <1>6, <1>7 DEF Proceeds, Goes

LEMMA PrimedProceeds ==
  ASSUME MeasureConstants, MeasureInv, NEW r \in Runs, Primed(r)
  PROVE  Proceeds(r)
<1>1. At(r, "prime") /\ Live(r) /\ ~At(r, "mark") /\ ~At(r, "silence") /\ run[r] \in Task /\ Sound(run[r])
  BY TaskFacts DEF Primed, At, Live
<1> DEFINE all == run[r].aligned \union run[r].posted
           t == [To(r, "offer") EXCEPT !.aligned = all]
<1>2. all \in SUBSET Members
  BY <1>1 DEF Task
<1>3. To(r, "offer") \in Task /\ To(r, "offer") = [run[r] EXCEPT !.pc = "offer"]
  BY TaskFacts DEF Pcs
<1>4. \/ inner' = [inner EXCEPT !.prov = all] /\ Goes(r, t)
      \/ inner' = inner /\ Goes(r, Refused(r, "refused"))
  BY DEF Primed
<1>5. UNCHANGED <<cancelled, revert, line, micVars, historyVars>> /\ line \subseteq Members
  BY DEF Primed, MeasureInv, MeasureTypeOK
<1> HIDE DEF all
<1>6. t \in Task
  BY <1>2, <1>3 DEF Task
<1>7. t.pc = "offer" /\ t.caps = run[r].caps /\ t.unseen = run[r].unseen
  BY <1>1, <1>3 DEF Task
<1>8. Sound(t)
  BY <1>1, <1>7 DEF Sound, At
<1>9. Refused(r, "refused") \in Task /\ Sound(Refused(r, "refused")) /\ Refused(r, "refused").pc = "finish"
  BY TaskFacts DEF Outcomes
<1> HIDE DEF t
<1>10. /\ inner' \in State /\ inner'.running = inner.running /\ inner'.token = inner.token
       /\ inner'.written = inner.written /\ inner'.before = inner.before
  <2>1. CASE inner' = [inner EXCEPT !.prov = all]
    BY <1>2, <2>1, InnerFacts DEF Kept
  <2>2. CASE inner' = inner
    BY <2>2, StateFacts
  <2>3. QED
    BY <1>4, <2>1, <2>2
<1>11. QED
  BY <1>1, <1>4, <1>5, <1>6, <1>7, <1>8, <1>9, <1>10 DEF Proceeds, Goes

LEMMA SolvesProceeds ==
  ASSUME MeasureInv, NEW r \in Runs, NEW writes \in SUBSET Members, Solves(r, writes)
  PROVE  Proceeds(r)
<1>1. At(r, "solve") /\ Live(r) /\ ~At(r, "mark") /\ ~At(r, "silence")
  BY DEF Solves, At, Live
<1> DEFINE next == IF run[r].mode = "chain" THEN "done" ELSE inner.next
<1>2. next \in {"none", "post", "busy", "done"} /\ {writes} \in SUBSET SUBSET Members /\ "proposed" \in Phases
  BY StateFacts DEF State, Phases
<1>3. inner' = [inner EXCEPT !.proposal = {writes}, !.phase = "proposed", !.next = next]
  BY DEF Solves
<1> HIDE DEF next
<1>4. /\ inner' \in State /\ inner'.running = inner.running /\ inner'.token = inner.token
      /\ inner'.written = inner.written /\ inner'.before = inner.before
  BY <1>2, <1>3, InnerFacts DEF Kept
<1>5. Refused(r, "proposed") \in Task /\ Sound(Refused(r, "proposed")) /\ Refused(r, "proposed").pc = "finish"
  BY TaskFacts DEF Outcomes
<1>6. Goes(r, Refused(r, "proposed")) /\ UNCHANGED <<cancelled, revert, line, micVars, historyVars>> /\ line \subseteq Members
  BY DEF Solves, MeasureInv, MeasureTypeOK
<1>7. QED
  BY <1>1, <1>4, <1>5, <1>6 DEF Proceeds, Goes

LEMMA WrittenProceeds ==
  ASSUME MeasureInv, NEW r \in Runs, Written(r)
  PROVE  Proceeds(r)
<1>1. At(r, "write") /\ Live(r) /\ ~At(r, "mark") /\ ~At(r, "silence")
  BY DEF Written, At, Live
<1>2. To(r, "settle") \in Task /\ Sound(To(r, "settle")) /\ To(r, "settle").pc = "settle"
  BY <1>1, PlainFacts DEF Plain, At
<1>3. inner' = [inner EXCEPT !.prov = {}, !.phase = "settling"] /\ {} \in SUBSET Members /\ "settling" \in Phases
  BY DEF Written, Phases
<1>4. /\ inner' \in State /\ inner'.running = inner.running /\ inner'.token = inner.token
      /\ inner'.written = inner.written /\ inner'.before = inner.before
  BY <1>3, InnerFacts DEF Kept
<1>5. Goes(r, To(r, "settle")) /\ UNCHANGED <<cancelled, revert, micVars, historyVars>> /\ line' \subseteq Members
  BY DEF Written, MeasureInv, MeasureTypeOK
<1>6. QED
  BY <1>1, <1>2, <1>4, <1>5 DEF Proceeds, Goes

LEMMA SettledProceeds ==
  ASSUME MeasureConstants, MeasureInv, NEW r \in Runs, Settled(r)
  PROVE  Proceeds(r)
<1>1. At(r, "settle") /\ Live(r) /\ ~At(r, "mark") /\ ~At(r, "silence") /\ run[r] \in Task /\ Sound(run[r])
  BY TaskFacts DEF Settled, At, Live
<1>2. To(r, "offer") \in Task /\ To(r, "offer") = [run[r] EXCEPT !.pc = "offer"]
  BY TaskFacts DEF Pcs
<1>3. To(r, "offer").pc = "offer" /\ To(r, "offer").caps = run[r].caps /\ To(r, "offer").unseen = run[r].unseen
  BY <1>1, <1>2 DEF Task
<1>4. Sound(To(r, "offer"))
  BY <1>1, <1>3 DEF Sound, At
<1>5. Goes(r, To(r, "offer")) \/ Goes(r, Measures(r))
  BY DEF Settled
<1>6. QED
  BY <1>1, <1>2, <1>3, <1>4, <1>5, MeasuresFacts, SayingProceeds DEF Settled, Phases

LEMMA FinishesProceeds ==
  ASSUME MeasureInv, NEW r \in Runs, Finishes(r)
  PROVE  Proceeds(r)
<1>1. At(r, "finish") /\ Live(r) /\ ~At(r, "mark") /\ ~At(r, "silence")
  BY DEF Finishes, At, Live
<1>2. EndedTask \in Task /\ Sound(EndedTask) /\ EndedTask.pc = "ended"
  BY EndedFacts
<1>3. To(r, "parks") \in Task /\ Sound(To(r, "parks")) /\ To(r, "parks").pc = "parks"
  BY <1>1, PlainFacts DEF Plain, At
<1>4. Goes(r, EndedTask) \/ Goes(r, To(r, "parks"))
  BY DEF Finishes, Ends, EndedTask
<1>5. QED
  BY <1>1, <1>2, <1>3, <1>4, QuietProceeds DEF Finishes

-----------------------------------------------------------------------------
(* The steps that note a write, and the last word of a run. *)

LEMMA WritesKeeps ==
  ASSUME MeasureConstants, MeasureInv, NEW r \in Runs, Writes(r), interleaved' = (interleaved \/ Late(r))
  PROVE  MeasureInv'
<1>1. At(r, "write") /\ Live(r) /\ run[r] \in Task /\ Sound(run[r]) /\ run[r].writes # {}
  BY TaskFacts DEF Writes, At, Live
<1> DEFINE m == First(run[r].writes)
<1>2. m \in Members
  BY <1>1, FirstIsIn DEF Task, MeasureConstants
<1>3. To(r, "mark") \in Task /\ To(r, "mark") = [run[r] EXCEPT !.pc = "mark"]
  BY TaskFacts DEF Pcs
<1>4. /\ To(r, "mark").pc = "mark" /\ To(r, "mark").writes = run[r].writes
      /\ To(r, "mark").caps = run[r].caps /\ To(r, "mark").unseen = run[r].unseen
  BY <1>1, <1>3 DEF Task
<1>5. Sound(To(r, "mark"))
  BY <1>1, <1>4 DEF Sound, At
<1>6. Refused(r, "refused") \in Task /\ Sound(Refused(r, "refused")) /\ Refused(r, "refused").pc = "finish"
  BY TaskFacts DEF Outcomes
<1>7. PICK t \in Task : /\ Goes(r, t) /\ Sound(t)
                        /\ \/ t.pc = "mark" /\ t.writes = run[r].writes /\ owed' = owed \union {m}
                           \/ t.pc = "finish" /\ owed' = owed
  BY <1>3, <1>4, <1>5, <1>6 DEF Writes
<1>8. /\ run'[r] = t /\ (\A q \in Runs : q # r => run'[q] = run[q]) /\ run' \in [Runs -> Task]
  BY <1>7 DEF Goes, MeasureInv, MeasureTypeOK
<1>9. UNCHANGED <<inner, cancelled, revert, line, micVars, overlaid>>
  BY DEF Writes
<1>10. MeasureTypeOK'
  BY <1>2, <1>7, <1>8, <1>9 DEF MeasureInv, MeasureTypeOK, micVars, Late
<1>11. AllSound'
  BY <1>7, <1>8, <1>9 DEF MeasureInv, AllSound, Sound, micVars
<1>12. Duties'
  <2> SUFFICES ASSUME ~interleaved' PROVE (Alone /\ Current /\ NoRevertOver /\ Remembered /\ PutBack /\ Known)'
    BY DEF Duties
  <2>1. /\ Alone /\ Current /\ NoRevertOver /\ Remembered /\ PutBack /\ Known
        /\ r \notin cancelled
    BY <1>7, <1>8 DEF MeasureInv, MeasureTypeOK, Duties, Late
  <2>2. inner.running /\ ~revert.on
    BY <1>1, <2>1 DEF Current, NoRevertOver, At
  <2>3. Alone' /\ Current'
    BY <1>1, <1>7, <1>8, <1>9, <2>1 DEF Alone, Current, Live, At
  <2>4. NoRevertOver' /\ PutBack' /\ Remembered'
    BY <1>9, <2>1, <2>2 DEF NoRevertOver, PutBack, Remembered
  <2>5. Known'
    BY <1>1, <1>7, <1>8, <1>9, <2>1 DEF Known, At
  <2>6. QED
    BY <2>1, <2>3, <2>4, <2>5
<1>13. QED
  BY <1>10, <1>11, <1>12 DEF MeasureInv

LEMMA MarksKeeps ==
  ASSUME MeasureConstants, MeasureInv, NEW r \in Runs, Marks(r), interleaved' = (interleaved \/ Late(r))
  PROVE  MeasureInv'
<1>1. At(r, "mark") /\ Live(r) /\ run[r] \in Task /\ Sound(run[r])
  BY TaskFacts DEF Marks, At, Live
<1> DEFINE m == First(run[r].writes)
           t == [To(r, "write") EXCEPT !.writes = @ \ {m}]
<1>2. m \in Members
  BY <1>1, FirstIsIn DEF Task, MeasureConstants, Sound, At
<1>3. To(r, "write") \in Task /\ To(r, "write") = [run[r] EXCEPT !.pc = "write"]
  BY TaskFacts DEF Pcs
<1>4. t \in Task
  BY <1>3 DEF Task
<1>5. t.pc = "write" /\ t.caps = run[r].caps /\ t.unseen = run[r].unseen
  BY <1>1, <1>3 DEF Task
<1>6. Sound(t)
  BY <1>1, <1>5 DEF Sound, At
<1>7. Goes(r, t) /\ inner' = [inner EXCEPT !.written = @ \union {m}]
  BY DEF Marks
<1>8. UNCHANGED <<cancelled, revert, line, micVars, historyVars>>
  BY DEF Marks
<1> HIDE DEF t
<1>9. /\ run'[r] = t /\ (\A q \in Runs : q # r => run'[q] = run[q]) /\ run' \in [Runs -> Task]
  BY <1>4, <1>7 DEF Goes, MeasureInv, MeasureTypeOK
<1>10. inner' \in State
  BY <1>2, <1>7, StateFacts DEF State
<1>11. /\ inner'.running = inner.running /\ inner'.token = inner.token /\ inner'.phase = inner.phase
       /\ inner'.written = inner.written \union {m} /\ inner'.before = inner.before
  BY <1>7, StateFacts DEF State
<1>12. MeasureTypeOK'
  BY <1>8, <1>9, <1>10 DEF MeasureInv, MeasureTypeOK, micVars, historyVars, Late
<1>13. AllSound'
  BY <1>6, <1>8, <1>9 DEF MeasureInv, AllSound, Sound, micVars
<1>14. Duties'
  <2> SUFFICES ASSUME ~interleaved' PROVE (Alone /\ Current /\ NoRevertOver /\ Remembered /\ PutBack /\ Known)'
    BY DEF Duties
  <2>1. /\ Alone /\ Current /\ NoRevertOver /\ Remembered /\ PutBack /\ Known
        /\ r \notin cancelled
    BY <1>5, <1>9 DEF MeasureInv, MeasureTypeOK, Duties, Late
  <2>2. inner.running /\ inner.before = Members
    BY <1>1, <2>1 DEF Current, Remembered, At
  <2>3. Alone' /\ Current'
    BY <1>1, <1>5, <1>8, <1>9, <1>11, <2>1 DEF Alone, Current, Live, At
  <2>4. NoRevertOver' /\ PutBack' /\ Remembered'
    BY <1>8, <1>11, <2>1, <2>2 DEF NoRevertOver, PutBack, Remembered, historyVars
  <2>5. Known'
    <3> SUFFICES ASSUME NEW n \in owed
                 PROVE  \/ n \in inner'.written \intersect inner'.before
                        \/ \E q \in Runs : run'[q].pc = "mark" /\ n = First(run'[q].writes)
      BY <1>8 DEF Known, At, historyVars
    <3>1. CASE n \in inner.written \intersect inner.before
      BY <1>11, <3>1
    <3>2. CASE \E q \in Runs : At(q, "mark") /\ n = First(run[q].writes)
      <4> PICK q \in Runs : At(q, "mark") /\ n = First(run[q].writes)
        BY <3>2
      <4>1. CASE q = r
        BY <1>2, <1>11, <2>2, <4>1
      <4>2. CASE q # r
        BY <1>9, <4>2 DEF At
      <4>3. QED
        BY <4>1, <4>2
    <3>3. QED
      BY <2>1, <3>1, <3>2 DEF Known
  <2>6. QED
    BY <2>1, <2>3, <2>4, <2>5
<1>15. QED
  BY <1>12, <1>13, <1>14 DEF MeasureInv

LEMMA ParksKeeps ==
  ASSUME MeasureConstants, MeasureInv, NEW r \in Runs, Parks(r), interleaved' = (interleaved \/ Late(r))
  PROVE  MeasureInv'
<1>1. At(r, "parks") /\ Live(r) /\ run[r] \in Task /\ Sound(run[r])
  BY TaskFacts DEF Parks, At, Live
<1> DEFINE t == To(r, "silence")
<1>2. t \in Task /\ t = [run[r] EXCEPT !.pc = "silence"]
  BY TaskFacts DEF Pcs
<1>3. t.pc = "silence" /\ t.caps = run[r].caps /\ t.unseen = run[r].unseen
  BY <1>1, <1>2 DEF Task
<1>4. Sound(t)
  BY <1>1, <1>3 DEF Sound, At
<1>5. Goes(r, t) /\ UNCHANGED <<cancelled, revert, micVars, historyVars>>
  BY DEF Parks
<1> HIDE DEF t
<1>6. /\ run'[r] = t /\ (\A q \in Runs : q # r => run'[q] = run[q]) /\ run' \in [Runs -> Task]
  BY <1>2, <1>5 DEF Goes, MeasureInv, MeasureTypeOK
<1>7. line' \subseteq Members
  BY DEF Parks, LinesAfter, MeasureInv, MeasureTypeOK
<1> DEFINE prov == IF run[r].outcome = "refused" THEN {} ELSE inner.prov
           phase == run[r].outcome
<1>8. prov \in SUBSET Members
  BY StateFacts DEF State
<1>9. inner' = [inner EXCEPT !.running = FALSE, !.tx = 0, !.next = "done", !.phase = phase, !.prov = prov]
  BY DEF Parks
<1>10. phase \in Phases /\ phase # "idle"
  BY <1>1 DEF Sound, At, Outcomes, Phases
<1> HIDE DEF prov, phase
<1>11. inner' \in State
  <2>1. \A s \in State : [s EXCEPT !.running = FALSE] \in State
    BY DEF State
  <2>2. \A s \in State : [s EXCEPT !.tx = 0] \in State
    BY DEF State
  <2>3. \A s \in State : [s EXCEPT !.next = "done"] \in State
    BY DEF State
  <2>4. \A s \in State : [s EXCEPT !.phase = phase, !.prov = prov] \in State
    BY <1>8, <1>10 DEF State
  <2>5. inner' = [[[[inner EXCEPT !.running = FALSE] EXCEPT !.tx = 0] EXCEPT !.next = "done"]
                    EXCEPT !.phase = phase, !.prov = prov]
    BY <1>9, StateFacts DEF State
  <2>6. QED
    BY <2>1, <2>2, <2>3, <2>4, <2>5, StateFacts
<1>12. inner'.running = FALSE /\ inner'.written = inner.written /\ inner'.before = inner.before
  BY <1>9, StateFacts DEF State
<1>13. MeasureTypeOK'
  BY <1>5, <1>6, <1>7, <1>11 DEF MeasureInv, MeasureTypeOK, micVars, historyVars, Late
<1>14. AllSound'
  BY <1>4, <1>5, <1>6 DEF MeasureInv, AllSound, Sound, micVars
<1>15. Duties'
  <2> SUFFICES ASSUME ~interleaved' PROVE (Alone /\ Current /\ NoRevertOver /\ Remembered /\ PutBack /\ Known)'
    BY DEF Duties
  <2>1. /\ Alone /\ Current /\ NoRevertOver /\ Remembered /\ PutBack /\ Known
        /\ r \notin cancelled
    BY <1>3, <1>6 DEF MeasureInv, MeasureTypeOK, Duties, Late
  <2>2. inner.running /\ inner.before = Members
    BY <1>1, <2>1 DEF Current, Remembered, At
  <2>3. Alone' /\ Current'
    BY <1>1, <1>3, <1>6, <2>1 DEF Alone, Current, Live, At
  <2>4. NoRevertOver' /\ PutBack' /\ Remembered'
    BY <1>5, <1>12, <2>1, <2>2 DEF NoRevertOver, PutBack, Remembered, historyVars
  <2>5. Known'
    BY <1>1, <1>5, <1>6, <1>12, <2>1 DEF Known, At, historyVars
  <2>6. QED
    BY <2>1, <2>3, <2>4, <2>5
<1>16. QED
  BY <1>13, <1>14, <1>15 DEF MeasureInv

LEMMA SilencesKeeps ==
  ASSUME MeasureConstants, MeasureInv, NEW r \in Runs, Silences(r), interleaved' = (interleaved \/ Late(r))
  PROVE  MeasureInv'
<1>1. At(r, "silence") /\ Live(r) /\ Goes(r, EndedTask)
  BY DEF Silences, At, Live, Ends, EndedTask
<1>2. UNCHANGED <<inner, cancelled, revert, line, micVars, historyVars>>
  BY DEF Silences
<1>3. EndedTask \in Task /\ Sound(EndedTask) /\ EndedTask.pc = "ended"
  BY EndedFacts
<1>4. /\ run'[r] = EndedTask /\ (\A q \in Runs : q # r => run'[q] = run[q]) /\ run' \in [Runs -> Task]
  BY <1>1, <1>3 DEF Goes, MeasureInv, MeasureTypeOK
<1>5. MeasureTypeOK'
  BY <1>2, <1>4 DEF MeasureInv, MeasureTypeOK, micVars, historyVars, Late
<1>6. AllSound'
  BY <1>2, <1>3, <1>4 DEF MeasureInv, AllSound, Sound, micVars
<1>7. Duties'
  <2> SUFFICES ASSUME ~interleaved' PROVE (Alone /\ Current /\ NoRevertOver /\ Remembered /\ PutBack /\ Known)'
    BY DEF Duties
  <2>1. Alone /\ Current /\ NoRevertOver /\ Remembered /\ PutBack /\ Known
    BY DEF MeasureInv, MeasureTypeOK, Duties, Late
  <2>2. Alone' /\ Current'
    BY <1>1, <1>2, <1>3, <1>4, <2>1 DEF Alone, Current, Live, At
  <2>3. NoRevertOver' /\ PutBack' /\ Remembered'
    BY <1>2, <2>1 DEF NoRevertOver, PutBack, Remembered, historyVars
  <2>4. Known'
    BY <1>1, <1>2, <1>4, <2>1 DEF Known, At, historyVars
  <2>5. QED
    BY <2>1, <2>2, <2>3, <2>4
<1>8. QED
  BY <1>5, <1>6, <1>7 DEF MeasureInv

-----------------------------------------------------------------------------
(* The calls. *)

\* A call is looked at: nothing of it is under way yet.
LEMMA ChecksKeep ==
  ASSUME MeasureConstants, MeasureInv, NEW r \in Runs, UNCHANGED interleaved,
         (\E form \in Modes : StartChecked(r, form)) \/ RunRefused(r) \/ ApplyChecked(r)
  PROVE  MeasureInv'
<1>1. run[r] \in Task /\ Sound(run[r]) /\ run[r].pc \in {"none", "checked"}
  BY TaskFacts DEF StartChecked, RunRefused, ApplyChecked, At
<1>2. run[r].caps = {}
  BY <1>1 DEF Sound
<1>3. PICK t \in Task : Goes(r, t) /\ t.pc \in {"checked", "ended"} /\ t.caps = {}
  <2>1. CASE \E form \in Modes : StartChecked(r, form)
    <3> PICK form \in Modes : StartChecked(r, form)
      BY <2>1
    <3> DEFINE t == [run[r] EXCEPT !.pc = "checked", !.kind = "measure", !.mode = form]
    <3>1. form \in ModeNames
      BY DEF MeasureConstants, ModeNames
    <3>2. t \in Task
      BY <1>1, <3>1 DEF Task, Pcs
    <3>3. t.pc = "checked" /\ t.caps = {}
      BY <1>1, <1>2 DEF Task
    <3>4. Goes(r, t)
      BY DEF StartChecked
    <3>5. QED
      BY <3>2, <3>3, <3>4
  <2>2. CASE RunRefused(r)
    BY <2>2, EndedFacts DEF RunRefused, Ends, EndedTask
  <2>3. CASE ApplyChecked(r)
    <3> DEFINE writes == UNION inner.proposal
               t == [run[r] EXCEPT !.pc = "checked", !.kind = "apply", !.mode = inner.mode, !.writes = writes]
    <3>1. writes \in SUBSET Members /\ inner.mode \in ModeNames
      BY StateFacts DEF State
    <3>2. Goes(r, t)
      BY <2>3 DEF ApplyChecked
    <3> HIDE DEF writes
    <3>3. t \in Task
      BY <1>1, <3>1 DEF Task, Pcs
    <3>4. t.pc = "checked" /\ t.caps = {}
      BY <1>1, <1>2 DEF Task
    <3>5. QED
      BY <3>2, <3>3, <3>4
  <2>4. QED
    BY <2>1, <2>2, <2>3
<1>4. UNCHANGED <<inner, cancelled, revert, line, micVars, historyVars>>
  BY DEF StartChecked, RunRefused, ApplyChecked
<1>5. /\ run'[r] = t /\ (\A q \in Runs : q # r => run'[q] = run[q]) /\ run' \in [Runs -> Task]
  BY <1>3 DEF Goes, MeasureInv, MeasureTypeOK
<1>6. MeasureTypeOK'
  BY <1>4, <1>5 DEF MeasureInv, MeasureTypeOK, micVars, historyVars
<1>7. AllSound'
  BY <1>3, <1>4, <1>5 DEF MeasureInv, AllSound, Sound, micVars
<1>8. Duties'
  <2> SUFFICES ASSUME ~interleaved' PROVE (Alone /\ Current /\ NoRevertOver /\ Remembered /\ PutBack /\ Known)'
    BY DEF Duties
  <2>1. Alone /\ Current /\ NoRevertOver /\ Remembered /\ PutBack /\ Known
    BY DEF MeasureInv, Duties
  <2>2. Alone' /\ Current'
    BY <1>3, <1>4, <1>5, <2>1 DEF Alone, Current, Live, At
  <2>3. NoRevertOver' /\ PutBack' /\ Remembered'
    BY <1>4, <2>1 DEF NoRevertOver, PutBack, Remembered, historyVars
  <2>4. Known'
    BY <1>1, <1>4, <1>5, <2>1 DEF Known, At, historyVars
  <2>5. QED
    BY <2>1, <2>2, <2>3, <2>4
<1>9. QED
  BY <1>6, <1>7, <1>8 DEF MeasureInv

LEMMA StartKeeps ==
  ASSUME MeasureConstants, MeasureInv, NEW r \in Runs, StartInstalled(r), interleaved' = (interleaved \/ Crosses(r))
  PROVE  MeasureInv'
<1>1. run[r] \in Task /\ Sound(run[r]) /\ At(r, "checked")
  BY TaskFacts DEF StartInstalled
<1> DEFINE t == To(r, "bind")
<1>2. t \in Task /\ t = [run[r] EXCEPT !.pc = "bind"]
  BY TaskFacts DEF Pcs
<1>3. t.pc = "bind" /\ t.caps = {}
  BY <1>1, <1>2 DEF Task, Sound, At
<1>4. Goes(r, t) /\ UNCHANGED <<cancelled, revert, line, micVars>> /\ owed' = {}
  BY DEF StartInstalled
<1> HIDE DEF t
<1>5. /\ run'[r] = t /\ (\A q \in Runs : q # r => run'[q] = run[q]) /\ run' \in [Runs -> Task]
  BY <1>2, <1>4 DEF Goes, MeasureInv, MeasureTypeOK
<1>6. inner' = StartState(r) /\ overlaid' \subseteq Members
  BY StateFacts DEF StartInstalled, MeasureInv, MeasureTypeOK, State
<1> DEFINE tx == IF run[r].mode = "passes" THEN 0 ELSE r
           now == [Idle EXCEPT !.phase = "arming", !.mode = run[r].mode, !.running = TRUE, !.token = r,
                               !.tx = tx, !.before = Members]
<1>7. StartState(r) = now
  BY DEF StartState
<1>8. StartState(r) \in State
  <2>1. run[r].mode \in ModeNames /\ tx \in Runs \union {0} /\ "arming" \in Phases
    BY <1>1 DEF Task, Phases
  <2>2. Idle \in State
    BY DEF Idle, State, Phases, ModeNames
  <2>3. \A s \in State : [s EXCEPT !.phase = "arming"] \in State
    BY <2>1 DEF State
  <2>4. \A s \in State, form \in ModeNames : [s EXCEPT !.mode = form] \in State
    BY DEF State
  <2>5. \A s \in State : [s EXCEPT !.running = TRUE] \in State
    BY DEF State
  <2>6. \A s \in State : [s EXCEPT !.token = r] \in State
    BY DEF State
  <2>7. \A s \in State, k \in Runs \union {0} : [s EXCEPT !.tx = k] \in State
    BY DEF State
  <2>8. \A s \in State : [s EXCEPT !.before = Members] \in State
    BY DEF State
  <2> HIDE DEF tx
  <2>9. now = [[[[[[Idle EXCEPT !.phase = "arming"] EXCEPT !.mode = run[r].mode] EXCEPT !.running = TRUE]
                EXCEPT !.token = r] EXCEPT !.tx = tx] EXCEPT !.before = Members]
    BY <2>2 DEF State
  <2>10. QED
    BY <1>7, <2>1, <2>2, <2>3, <2>4, <2>5, <2>6, <2>7, <2>8, <2>9
<1>9. StartState(r).running /\ StartState(r).token = r /\ StartState(r).before = Members
  BY <1>7 DEF Idle
<1>10. MeasureTypeOK'
  BY <1>4, <1>5, <1>6, <1>8 DEF MeasureInv, MeasureTypeOK, micVars, Crosses
<1>11. AllSound'
  BY <1>3, <1>4, <1>5 DEF MeasureInv, AllSound, Sound, micVars
<1>12. Duties'
  <2> SUFFICES ASSUME ~interleaved' PROVE (Alone /\ Current /\ NoRevertOver /\ Remembered /\ PutBack /\ Known)'
    BY DEF Duties
  <2>1. ~revert.on /\ \A q \in Runs \ {r} : ~Live(q)
    BY DEF MeasureInv, MeasureTypeOK, Crosses
  <2>2. Alone' /\ Current'
    BY <1>5, <1>6, <1>9, <2>1 DEF Alone, Current, Live, At
  <2>3. NoRevertOver' /\ PutBack' /\ Remembered' /\ Known'
    BY <1>4, <1>6, <1>9, <2>1 DEF NoRevertOver, PutBack, Remembered, Known
  <2>4. QED
    BY <2>2, <2>3
<1>13. QED
  BY <1>10, <1>11, <1>12 DEF MeasureInv

LEMMA ApplyKeeps ==
  ASSUME MeasureConstants, MeasureInv, NEW r \in Runs, ApplyInstalled(r), interleaved' = (interleaved \/ Crosses(r))
  PROVE  MeasureInv'
<1>1. run[r] \in Task /\ Sound(run[r]) /\ At(r, "checked")
  BY TaskFacts DEF ApplyInstalled
<1> DEFINE t == To(r, "bind")
<1>2. t \in Task /\ t = [run[r] EXCEPT !.pc = "bind"]
  BY TaskFacts DEF Pcs
<1>3. t.pc = "bind" /\ t.caps = {}
  BY <1>1, <1>2 DEF Task, Sound, At
<1>4. Goes(r, t) /\ UNCHANGED <<cancelled, revert, line, micVars, historyVars>>
  BY DEF ApplyInstalled
<1> HIDE DEF t
<1>5. /\ run'[r] = t /\ (\A q \in Runs : q # r => run'[q] = run[q]) /\ run' \in [Runs -> Task]
  BY <1>2, <1>4 DEF Goes, MeasureInv, MeasureTypeOK
<1> DEFINE tx == IF run[r].mode = "walk" THEN r ELSE 0
<1>6. inner' = [inner EXCEPT !.phase = "writing", !.token = r, !.running = TRUE, !.tx = tx]
  BY DEF ApplyInstalled
<1>7. tx \in Runs \union {0} /\ "writing" \in Phases
  BY DEF Phases
<1> HIDE DEF tx
<1>8. inner' \in State
  <2>1. \A s \in State : [s EXCEPT !.phase = "writing"] \in State
    BY <1>7 DEF State
  <2>2. \A s \in State : [s EXCEPT !.token = r] \in State
    BY DEF State
  <2>3. \A s \in State : [s EXCEPT !.running = TRUE] \in State
    BY DEF State
  <2>4. \A s \in State : [s EXCEPT !.tx = tx] \in State
    BY <1>7 DEF State
  <2>5. inner' = [[[[inner EXCEPT !.phase = "writing"] EXCEPT !.token = r] EXCEPT !.running = TRUE]
                    EXCEPT !.tx = tx]
    BY <1>6, StateFacts DEF State
  <2>6. QED
    BY <2>1, <2>2, <2>3, <2>4, <2>5, StateFacts
<1>9. /\ inner'.running = TRUE /\ inner'.token = r
      /\ inner'.written = inner.written /\ inner'.before = inner.before
  BY <1>6, StateFacts DEF State
<1>10. MeasureTypeOK'
  BY <1>4, <1>5, <1>8 DEF MeasureInv, MeasureTypeOK, micVars, historyVars, Crosses
<1>11. AllSound'
  BY <1>3, <1>4, <1>5 DEF MeasureInv, AllSound, Sound, micVars
<1>12. Duties'
  <2> SUFFICES ASSUME ~interleaved' PROVE (Alone /\ Current /\ NoRevertOver /\ Remembered /\ PutBack /\ Known)'
    BY DEF Duties
  <2>1. /\ Alone /\ Current /\ NoRevertOver /\ Remembered /\ PutBack /\ Known
        /\ ~revert.on /\ \A q \in Runs \ {r} : ~Live(q)
    BY DEF MeasureInv, MeasureTypeOK, Duties, Crosses
  <2>2. inner.before = Members
    <3>1. run[r].kind = "apply"
      BY DEF ApplyInstalled
    <3>2. inner.phase = "proposed"
      BY <3>1 DEF MeasureInv, MeasureTypeOK, Crosses
    <3>3. QED
      BY <2>1, <3>2 DEF Remembered
  <2>3. Alone' /\ Current'
    BY <1>5, <1>9, <2>1 DEF Alone, Current, Live, At
  <2>4. NoRevertOver' /\ PutBack' /\ Remembered'
    BY <1>4, <1>9, <2>1, <2>2 DEF NoRevertOver, PutBack, Remembered, historyVars
  <2>5. Known'
    BY <1>1, <1>4, <1>5, <1>9, <2>1 DEF Known, At, historyVars
  <2>6. QED
    BY <2>3, <2>4, <2>5
<1>13. QED
  BY <1>10, <1>11, <1>12 DEF MeasureInv

LEMMA PostKeeps ==
  ASSUME MeasureConstants, MeasureInv, NEW c \in Calls, Posts(c), UNCHANGED interleaved
  PROVE  MeasureInv'
<1> DEFINE r == inner.tx
           t == [run[r] EXCEPT !.cmd = Append(@, c)]
<1>1. r \in Runs
  BY StateFacts DEF Posts, State
<1>2. run[r] \in Task /\ Sound(run[r])
  BY <1>1, TaskFacts
<1>3. t \in Task
  <2>1. \A s \in Seq(Calls) : Append(s, c) \in Seq(Calls)
    OBVIOUS
  <2>2. \A u \in Task, s \in Seq(Calls) : [u EXCEPT !.cmd = s] \in Task
    BY DEF Task
  <2>3. run[r].cmd \in Seq(Calls)
    BY <1>2 DEF Task
  <2>4. QED
    BY <1>2, <2>1, <2>2, <2>3
<1>4. /\ t.pc = run[r].pc /\ t.caps = run[r].caps /\ t.unseen = run[r].unseen /\ t.armed = run[r].armed
      /\ t.mode = run[r].mode /\ t.lines = run[r].lines /\ t.writes = run[r].writes /\ t.outcome = run[r].outcome
  BY <1>2 DEF Task
<1>5. Sound(t)
  BY <1>2, <1>4 DEF Sound
<1>6. run' = [run EXCEPT ![r] = t] /\ inner' = [inner EXCEPT !.next = "busy"]
  BY DEF Posts
<1>7. UNCHANGED <<cancelled, revert, line, micVars, historyVars>>
  BY DEF Posts
<1> HIDE DEF r, t
<1>8. /\ run'[r] = t /\ (\A q \in Runs : q # r => run'[q] = run[q]) /\ run' \in [Runs -> Task]
  BY <1>1, <1>3, <1>6 DEF MeasureInv, MeasureTypeOK
<1>9. \A q \in Runs : run'[q].pc = run[q].pc /\ run'[q].writes = run[q].writes
  BY <1>1, <1>4, <1>8
<1>10. inner' \in State
  BY <1>6, StateFacts DEF State
<1>11. /\ inner'.running = inner.running /\ inner'.token = inner.token /\ inner'.phase = inner.phase
       /\ inner'.written = inner.written /\ inner'.before = inner.before
  BY <1>6, StateFacts DEF State
<1>12. MeasureTypeOK'
  BY <1>7, <1>8, <1>10 DEF MeasureInv, MeasureTypeOK, micVars, historyVars
<1>13. AllSound'
  BY <1>5, <1>7, <1>8 DEF MeasureInv, AllSound, Sound, micVars
<1>14. Duties'
  <2> SUFFICES ASSUME ~interleaved' PROVE (Alone /\ Current /\ NoRevertOver /\ Remembered /\ PutBack /\ Known)'
    BY DEF Duties
  <2>1. Alone /\ Current /\ NoRevertOver /\ Remembered /\ PutBack /\ Known
    BY DEF MeasureInv, Duties
  <2>2. Alone' /\ Current'
    BY <1>7, <1>9, <1>11, <2>1 DEF Alone, Current, Live, At
  <2>3. NoRevertOver' /\ PutBack' /\ Remembered'
    BY <1>7, <1>11, <2>1 DEF NoRevertOver, PutBack, Remembered, historyVars
  <2>4. Known'
    BY <1>7, <1>9, <1>11, <2>1 DEF Known, At, historyVars
  <2>5. QED
    BY <2>1, <2>2, <2>3, <2>4
<1>15. QED
  BY <1>12, <1>13, <1>14 DEF MeasureInv

LEMMA SteeringKeeps ==
  ASSUME MeasureConstants, MeasureInv, UNCHANGED interleaved,
         \/ \E members, overlaps \in SUBSET Members : Position(members, overlaps)
         \/ Finish \/ (\E m \in Members : Arrival(m)) \/ Close
  PROVE  MeasureInv'
<1>1. CASE \E members, overlaps \in SUBSET Members : Position(members, overlaps)
  <2> PICK members \in SUBSET Members, overlaps \in SUBSET Members : Position(members, overlaps)
    BY <1>1
  <2>1. [call |-> "position", members |-> members] \in Calls
    BY DEF Calls
  <2>2. QED
    BY <2>1, PostKeeps DEF Position
<1>2. CASE Finish
  <2>1. [call |-> "finish", members |-> {}] \in Calls
    BY DEF Calls
  <2>2. QED
    BY <1>2, <2>1, PostKeeps DEF Finish
<1>3. CASE \E m \in Members : Arrival(m)
  <2> PICK m \in Members : Arrival(m)
    BY <1>3
  <2>1. [call |-> "arrival", members |-> {m}] \in Calls
    BY DEF Calls
  <2>2. QED
    BY <2>1, PostKeeps DEF Arrival
<1>4. CASE Close
  <2>1. [call |-> "close", members |-> {}] \in Calls
    BY DEF Calls
  <2>2. QED
    BY <1>4, <2>1, PostKeeps DEF Close
<1>5. QED
  BY <1>1, <1>2, <1>3, <1>4

LEMMA AbandonKeeps ==
  ASSUME MeasureConstants, MeasureInv, Abandon, UNCHANGED interleaved
  PROVE  MeasureInv'
<1>1. UNCHANGED <<run, revert, micVars, historyVars>>
  BY DEF Abandon
<1>2. inner' = Abandoned /\ Idle \in State /\ inner \in State
  BY StateFacts DEF Abandon, Idle, State, Phases, ModeNames
<1>3. Abandoned \in State
  BY <1>2 DEF Abandoned, State
<1>4. /\ Abandoned.running = FALSE /\ Abandoned.phase = "idle"
      /\ inner.written # {} => Abandoned.written = inner.written /\ Abandoned.before = inner.before
  BY <1>2 DEF Abandoned, Idle, State
<1>5. MeasureTypeOK'
  BY <1>1, <1>2, <1>3 DEF MeasureInv, MeasureTypeOK, micVars, historyVars, Abandon, State
<1>6. AllSound'
  BY <1>1 DEF MeasureInv, AllSound, Sound, micVars
<1>7. Duties'
  <2> SUFFICES ASSUME ~interleaved' PROVE (Alone /\ Current /\ NoRevertOver /\ Remembered /\ PutBack /\ Known)'
    BY DEF Duties
  <2>1. Alone /\ Current /\ NoRevertOver /\ Remembered /\ PutBack /\ Known
    BY DEF MeasureInv, Duties
  <2>2. Alone'
    BY <1>1, <2>1 DEF Alone, Live
  <2>3. Current'
    BY <1>1, <2>1 DEF Current, Live, At, Abandon, MeasureConstants
  <2>4. NoRevertOver' /\ PutBack' /\ Remembered'
    BY <1>1, <1>2, <1>4, <2>1 DEF NoRevertOver, PutBack, Remembered, historyVars
  <2>5. Known'
    BY <1>1, <1>2, <1>4, <2>1 DEF Known, At, historyVars
  <2>6. QED
    BY <2>1, <2>2, <2>3, <2>4, <2>5
<1>8. QED
  BY <1>5, <1>6, <1>7 DEF MeasureInv

LEMMA RevertsKeep ==
  ASSUME MeasureConstants, MeasureInv, UNCHANGED interleaved,
         RevertBegins \/ (\E m \in Members, ok \in BOOLEAN : RevertWrites(m, ok)) \/ RevertEnds
  PROVE  MeasureInv'
<1> DEFINE Reverts == [todo : SUBSET Members, restored : SUBSET Members, on : BOOLEAN]
<1>1. inner \in State /\ revert \in Reverts
  BY StateFacts DEF MeasureInv, MeasureTypeOK
<1>2. UNCHANGED <<run, cancelled, line, micVars, overlaid>>
  BY DEF RevertBegins, RevertWrites, RevertEnds, innerVars, historyVars
<1>3. AllSound'
  BY <1>2 DEF MeasureInv, AllSound, Sound, micVars
<1>4. CASE RevertBegins
  <2> DEFINE known == inner.written \intersect inner.before
  <2>1. ~inner.running /\ revert' = [todo |-> known, restored |-> {}, on |-> TRUE]
    BY <1>4 DEF RevertBegins
  <2>2. UNCHANGED <<inner, owed>>
    BY <1>4 DEF RevertBegins, innerVars, historyVars
  <2>3. known \in SUBSET Members
    BY <1>1 DEF State
  <2> HIDE DEF known
  <2>4. revert' \in Reverts /\ revert'.restored = {}
    BY <2>1, <2>3
  <2>5. MeasureTypeOK'
    BY <1>2, <2>2, <2>4 DEF MeasureInv, MeasureTypeOK, micVars
  <2>6. Duties'
    BY <1>2, <2>1, <2>2, <2>4 DEF MeasureInv, Duties, Alone, Current, NoRevertOver, Remembered, PutBack, Known, Live, At
  <2>7. QED
    BY <1>3, <2>5, <2>6 DEF MeasureInv
<1>5. CASE \E m \in Members, ok \in BOOLEAN : RevertWrites(m, ok)
  <2> PICK m \in Members, ok \in BOOLEAN : RevertWrites(m, ok)
    BY <1>5
  <2>1. UNCHANGED inner /\ revert.on
    BY DEF RevertWrites, innerVars
  <2>2. /\ revert' \in Reverts /\ revert'.on /\ owed' \subseteq owed
        /\ revert.restored \intersect owed = {} => revert'.restored \intersect owed' = {}
    <3> DEFINE next(todo, restored) == [revert EXCEPT !.todo = todo, !.restored = restored]
    <3>1. \A todo, restored \in SUBSET Members :
            /\ next(todo, restored) \in Reverts /\ next(todo, restored).on = revert.on
            /\ next(todo, restored).restored = restored
      BY <1>1
    <3>2. CASE ok
      <4>1. revert' = next(revert.todo \ {m}, revert.restored \union {m}) /\ owed' = owed \ {m}
        BY <3>2 DEF RevertWrites
      <4>2. revert.todo \ {m} \in SUBSET Members /\ revert.restored \union {m} \in SUBSET Members
        BY <1>1
      <4>3. revert' \in Reverts /\ revert'.on = revert.on /\ revert'.restored = revert.restored \union {m}
        <5> HIDE DEF next
        <5> QED  BY <3>1, <4>1, <4>2
      <4>4. QED
        BY <2>1, <4>1, <4>3
    <3>3. CASE ~ok
      <4>1. revert' = next(revert.todo \ {m}, revert.restored) /\ owed' = owed
        BY <3>3 DEF RevertWrites
      <4>2. revert.todo \ {m} \in SUBSET Members /\ revert.restored \in SUBSET Members
        BY <1>1
      <4> HIDE DEF next
      <4>3. QED
        BY <2>1, <3>1, <4>1, <4>2
    <3>4. QED
      BY <3>2, <3>3
  <2>3. MeasureTypeOK'
    BY <1>2, <2>1, <2>2 DEF MeasureInv, MeasureTypeOK, micVars
  <2>4. Duties'
    BY <1>2, <2>1, <2>2 DEF MeasureInv, Duties, Alone, Current, NoRevertOver, Remembered, PutBack, Known, Live, At
  <2>5. QED
    BY <1>3, <2>3, <2>4 DEF MeasureInv
<1>6. CASE RevertEnds
  <2> DEFINE kept == inner.written \ revert.restored
  <2>1. /\ revert.on /\ revert' = NoRevert /\ UNCHANGED historyVars
        /\ inner' = [inner EXCEPT !.written = kept]
    BY <1>6 DEF RevertEnds
  <2>2. kept \in SUBSET Members
    BY <1>1 DEF State
  <2>3. inner' \in State
    BY <1>1, <2>1, <2>2 DEF State
  <2>4. /\ inner'.running = inner.running /\ inner'.token = inner.token /\ inner'.phase = inner.phase
        /\ inner'.written = kept /\ inner'.before = inner.before
    BY <1>1, <2>1 DEF State
  <2>5. revert' \in Reverts /\ ~revert'.on
    BY <2>1 DEF NoRevert
  <2>6. MeasureTypeOK'
    BY <1>2, <2>1, <2>3, <2>5 DEF MeasureInv, MeasureTypeOK, micVars, historyVars
  <2>7. Duties'
    BY <1>2, <2>1, <2>4, <2>5 DEF MeasureInv, Duties, Alone, Current, NoRevertOver, Remembered, PutBack, Known, Live, At, historyVars
  <2>8. QED
    BY <1>3, <2>6, <2>7 DEF MeasureInv
<1>7. QED
  BY <1>4, <1>5, <1>6

-----------------------------------------------------------------------------
(* The microphone and the session. *)

LEMMA GateKeeps ==
  ASSUME MeasureConstants, MeasureInv, NEW r \in Runs, GateRestarts(r), UNCHANGED interleaved
  PROVE  MeasureInv'
<1> DEFINE seen == run[r].armed # mic.capture
           t == [run[r] EXCEPT !.armed = mic.capture, !.unseen = @ \/ seen]
<1>1. run[r] \in Task /\ Sound(run[r]) /\ At(r, "read") /\ mic.capture \in Int
  BY TaskFacts DEF GateRestarts, MeasureInv, MeasureTypeOK
<1>2. run' = [run EXCEPT ![r] = t] /\ UNCHANGED <<inner, cancelled, revert, line, micVars, historyVars>>
  BY DEF GateRestarts, Goes
<1>3. t \in Task
  <2>1. \A u \in Task : [u EXCEPT !.armed = mic.capture] \in Task
    BY <1>1 DEF Task
  <2>2. \A u \in Task, b \in BOOLEAN : [u EXCEPT !.unseen = b] \in Task
    BY DEF Task
  <2>3. (run[r].unseen \/ seen) \in BOOLEAN
    OBVIOUS
  <2>4. t = [[run[r] EXCEPT !.armed = mic.capture] EXCEPT !.unseen = (run[r].unseen \/ seen)]
    BY <1>1 DEF Task
  <2>5. QED
    BY <1>1, <2>1, <2>2, <2>3, <2>4
<1>4. /\ t.pc = run[r].pc /\ t.caps = run[r].caps /\ t.armed = mic.capture
      /\ t.mode = run[r].mode /\ t.lines = run[r].lines /\ t.writes = run[r].writes /\ t.outcome = run[r].outcome
  BY <1>1 DEF Task
<1>5. t.unseen = (run[r].unseen \/ seen)
  BY <1>1 DEF Task
<1>6. Sound(t)
  <2>1. CASE seen
    BY <1>1, <1>4, <1>5, <2>1 DEF Sound, At
  <2>2. CASE ~seen
    BY <1>1, <1>4, <1>5, <2>2 DEF Sound, At
  <2>3. QED
    BY <2>1, <2>2
<1> HIDE DEF t
<1>7. /\ run'[r] = t /\ (\A q \in Runs : q # r => run'[q] = run[q]) /\ run' \in [Runs -> Task]
  BY <1>2, <1>3 DEF MeasureInv, MeasureTypeOK
<1>8. \A q \in Runs : run'[q].pc = run[q].pc /\ run'[q].writes = run[q].writes
  BY <1>4, <1>7
<1>9. MeasureTypeOK'
  BY <1>2, <1>7 DEF MeasureInv, MeasureTypeOK, micVars, historyVars
<1>10. AllSound'
  BY <1>2, <1>6, <1>7 DEF MeasureInv, AllSound, Sound, micVars
<1>11. Duties'
  BY <1>2, <1>8 DEF MeasureInv, Duties, Alone, Current, NoRevertOver, Remembered, PutBack, Known, Live, At, historyVars
<1>12. QED
  BY <1>9, <1>10, <1>11 DEF MeasureInv

LEMMA MicReturnsKeeps ==
  ASSUME MeasureConstants, MeasureInv, MicReturns, UNCHANGED interleaved
  PROVE  MeasureInv'
<1>1. UNCHANGED <<inner, cancelled, revert, line, active, historyVars>>
  BY DEF MicReturns
<1>2. mic \in [on : BOOLEAN, capture : Int] /\ mic' \in [on : BOOLEAN, capture : Int]
  BY DEF MicReturns, MeasureInv, MeasureTypeOK
<1>3. run' = [q \in Runs |->
         IF Live(q) /\ run[q].caps # {} /\ ~At(q, "read") THEN [run[q] EXCEPT !.unseen = TRUE] ELSE run[q]]
  BY DEF MicReturns
<1>4. ASSUME NEW q \in Runs
      PROVE  run'[q] \in Task /\ run'[q].pc = run[q].pc /\ run'[q].writes = run[q].writes /\ Sound(run[q])'
  <2>1. run[q] \in Task /\ Sound(run[q])
    BY TaskFacts
  <2>2. CASE Live(q) /\ run[q].caps # {} /\ ~At(q, "read")
    <3>1. run'[q] = [run[q] EXCEPT !.unseen = TRUE]
      BY <1>3, <2>2
    <3>2. run'[q] \in Task
      BY <2>1, <3>1 DEF Task
    <3>3. /\ run'[q].pc = run[q].pc /\ run'[q].unseen = TRUE /\ run'[q].lines = run[q].lines
          /\ run'[q].writes = run[q].writes /\ run'[q].outcome = run[q].outcome
      BY <2>1, <3>1 DEF Task
    <3>4. Sound(run[q])'
      BY <2>1, <2>2, <3>3 DEF Sound, Live
    <3>5. QED
      BY <3>2, <3>3, <3>4
  <2>3. CASE ~(Live(q) /\ run[q].caps # {} /\ ~At(q, "read"))
    <3>1. run'[q] = run[q]
      BY <1>3, <2>3
    <3>2. Sound(run[q])'
      BY <2>1, <2>3, <3>1 DEF Sound, Live, At
    <3>3. QED
      BY <2>1, <3>1, <3>2
  <2>4. QED
    BY <2>2, <2>3
<1>5. MeasureTypeOK'
  BY <1>1, <1>2, <1>3, <1>4 DEF MeasureInv, MeasureTypeOK, historyVars
<1>6. AllSound'
  BY <1>4 DEF AllSound
<1>7. Duties'
  BY <1>1, <1>4 DEF MeasureInv, Duties, Alone, Current, NoRevertOver, Remembered, PutBack, Known, Live, At, historyVars
<1>8. QED
  BY <1>5, <1>6, <1>7 DEF MeasureInv

LEMMA HostKeeps ==
  ASSUME MeasureConstants, MeasureInv, MicDrops \/ SessionStops, UNCHANGED interleaved
  PROVE  MeasureInv'
<1>1. UNCHANGED <<inner, run, cancelled, revert, line, historyVars>> /\ mic.capture' = mic.capture
      /\ mic' \in [on : BOOLEAN, capture : Int] /\ active' \in BOOLEAN
  BY DEF MicDrops, SessionStops, innerVars, MeasureInv, MeasureTypeOK
<1>2. MeasureTypeOK' /\ AllSound'
  BY <1>1 DEF MeasureInv, MeasureTypeOK, AllSound, Sound, historyVars
<1>3. Duties'
  BY <1>1 DEF MeasureInv, Duties, Alone, Current, NoRevertOver, Remembered, PutBack, Known, Live, At, historyVars
<1>4. QED
  BY <1>2, <1>3 DEF MeasureInv

-----------------------------------------------------------------------------

LEMMA TasksKeep ==
  ASSUME MeasureConstants, MeasureInv, NEW r \in Runs, TaskMoves(r)
  PROVE  MeasureInv'
<1>1. TaskStep(r) /\ interleaved' = (interleaved \/ Late(r))
  BY DEF TaskMoves
<1>2. CASE Writes(r)
  BY <1>1, <1>2, WritesKeeps
<1>3. CASE Marks(r)
  BY <1>1, <1>3, MarksKeeps
<1>4. CASE Parks(r)
  BY <1>1, <1>4, ParksKeeps
<1>5. CASE Silences(r)
  BY <1>1, <1>5, SilencesKeeps
<1>6. CASE ~(Writes(r) \/ Marks(r) \/ Parks(r) \/ Silences(r))
  <2>1. Proceeds(r)
    BY <1>1, <1>6, StopsProceeds, RefusalsProceed, BeginsProceeds, OfferProceeds, TakesProceeds, SolosProceeds,
       ArmsProceeds, LocksProceeds, GateTimesOutProceeds, SeesNewCaptureProceeds, ChainStepsProceed,
       SetsLineProceeds, NotesLineProceeds, PrimedProceeds, SolvesProceeds, WrittenProceeds,
       SettledProceeds, FinishesProceeds DEF TaskStep
  <2>2. QED
    BY <1>1, <2>1, ProceedsKeeps
<1>7. QED
  BY <1>2, <1>3, <1>4, <1>5, <1>6

LEMMA MeasureStep ==
  ASSUME MeasureConstants, MeasureInv, [MeasureNext]_measureVars
  PROVE  MeasureInv'
<1>1. CASE CallStep /\ UNCHANGED interleaved
  BY <1>1, ChecksKeep, SteeringKeeps, AbandonKeeps, RevertsKeep DEF CallStep
<1>2. CASE HostStep /\ UNCHANGED interleaved
  BY <1>2, GateKeeps, MicReturnsKeeps, HostKeeps DEF HostStep
<1>3. CASE RunCalled
  BY <1>3, StartKeeps, ApplyKeeps DEF RunCalled
<1>4. CASE \E r \in Runs : TaskMoves(r)
  BY <1>4, TasksKeep
<1>5. CASE UNCHANGED measureVars
  <2>1. UNCHANGED <<inner, run, cancelled, revert, line, mic, active, overlaid, owed, interleaved>>
    BY <1>5 DEF measureVars, innerVars, micVars, historyVars
  <2>2. MeasureTypeOK' /\ AllSound'
    BY <2>1 DEF MeasureInv, MeasureTypeOK, AllSound, Sound
  <2>3. Duties'
    BY <2>1 DEF MeasureInv, Duties, Alone, Current, NoRevertOver, Remembered, PutBack, Known, Live, At
  <2>4. QED
    BY <2>2, <2>3 DEF MeasureInv
<1>6. QED
  BY <1>1, <1>2, <1>3, <1>4, <1>5 DEF MeasureNext

\* The state of a measurement and of its tasks is as declared, and no task writes a line or a delay out of an empty set.
THEOREM MeasureTypeCorrect ==
  ASSUME MeasureConstants
  PROVE  MeasureSpec => [](MeasureTypeOK /\ AllSound)
<1>1. MeasureInit => MeasureInv
  BY InitMeasure
<1>2. MeasureInv /\ [MeasureNext]_measureVars => MeasureInv'
  BY MeasureStep
<1>3. MeasureInv => MeasureTypeOK /\ AllSound
  BY DEF MeasureInv
<1>4. QED
  BY <1>1, <1>2, <1>3, PTL DEF MeasureSpec

\* Whatever delay runs have replaced since the last start, revert knows and puts back, unless calls crossed
\* (apply and revert, mod.rs), for every number of speakers and of runs.
THEOREM MeasureRevertKnows ==
  ASSUME MeasureConstants
  PROVE  MeasureSpec => []RevertKnowsWrites
<1>1. MeasureInit => MeasureInv
  BY InitMeasure
<1>2. MeasureInv /\ [MeasureNext]_measureVars => MeasureInv'
  BY MeasureStep
<1>3. MeasureInv => RevertKnowsWrites
  BY DEF MeasureInv, Duties, Known, RevertKnowsWrites
<1>4. QED
  BY <1>1, <1>2, <1>3, PTL DEF MeasureSpec

\* A set is solved from readings of one capture, unless the capture changed where no reading was under way.
THEOREM MeasureSetIsOneCapture ==
  ASSUME MeasureConstants
  PROVE  MeasureSpec => []SetIsOneCapture
<1>1. MeasureInit => MeasureInv
  BY InitMeasure
<1>2. MeasureInv /\ [MeasureNext]_measureVars => MeasureInv'
  BY MeasureStep
<1>3. MeasureInv => SetIsOneCapture
  <2> SUFFICES ASSUME MeasureInv, NEW r \in Runs, ~run[r].unseen PROVE Cardinality(run[r].caps) <= 1
    BY DEF SetIsOneCapture
  <2>1. run[r].caps = {} \/ \E k : run[r].caps = {k}
    BY DEF MeasureInv, AllSound, Sound
  <2>2. CASE run[r].caps = {}
    <3>1. Cardinality(run[r].caps) = 0
      BY <2>2, FS_EmptySet
    <3>2. QED
      BY <3>1
  <2>3. CASE \E k : run[r].caps = {k}
    <3>1. Cardinality(run[r].caps) = 1
      BY <2>3, FS_Singleton
    <3>2. QED
      BY <3>1
  <2>4. QED
    BY <2>1, <2>2, <2>3
<1>4. QED
  BY <1>1, <1>2, <1>3, PTL DEF MeasureSpec

-----------------------------------------------------------------------------
(* The delay line *)
(***************************************************************************)
(* Proofs about the delay line, for every set of frame and block sizes,    *)
(* any bound of the delay and any headroom.                                *)
(*                                                                         *)
(* The ring is followed from its newest byte backwards: as long as no      *)
(* block went by the line, the byte k places behind the newest is the one  *)
(* that came in k bytes ago, for as many bytes as the line calls valid,    *)
(* and it calls valid what it was fed, as far as the ring reaches.  What a *)
(* block is answered with lies within the ring, because the ring has room  *)
(* for the block and the delay together whenever one is read.              *)
(***************************************************************************)

Rings == UNION {[0 .. cap - 1 -> Int] : cap \in Nat}

LineShape == [delay : Nat, fb : Nat, cap : Nat, write : Nat, valid : Nat, ring : Rings]

\* Where the byte k places behind the newest one is.
Place(l, k) == (l.write + l.cap - 1 - k) % l.cap

IsLine(l) ==
  /\ l \in LineShape /\ l.ring \in [0 .. l.cap - 1 -> Int]
  /\ l.delay <= MaxDelay /\ l.fb > 0
  /\ l.cap > 0 /\ l.cap <= MostFed /\ l.write < l.cap /\ l.valid <= l.cap

\* The line remembers what it was fed with, a of it since it started anew, the last of it b ago.
Remembers(l, a, b) ==
  /\ l.valid = Lesser(a, l.cap)
  /\ \A k \in 0 .. l.valid - 1 : l.ring[Place(l, k)] = k + b

EffectShape == [lines : SUBSET LineShape, muted : BOOLEAN, left : BOOLEAN]

IInv ==
  /\ effect \in EffectShape /\ format \in Formats
  /\ fed \in 0 .. MostFed /\ gap \in BOOLEAN
  /\ \A l, m \in effect.lines : l = m
  /\ \A l \in effect.lines : IsLine(l) /\ (~gap => Remembers(l, fed, 0))
  /\ DelayedExactly

-----------------------------------------------------------------------------
(* Arithmetic of places in a ring. *)

\* A place that ran past the end of the ring by less than once around.
LEMMA OnceAround ==
  ASSUME NEW c \in Nat, NEW x \in Nat, c > 0, x < 2 * c
  PROVE  x % c = IF x < c THEN x ELSE x - c
<1> DEFINE q == x \div c
<1>1. q \in Int /\ x = c * q + (x % c) /\ x % c >= 0 /\ x % c < c
  BY SMT
<1>2. CASE q <= -1
  BY <1>1, <1>2, c * q <= -c, SMT
<1>3. CASE q = 0
  BY <1>1, <1>3
<1>4. CASE q = 1
  BY <1>1, <1>4
<1>5. CASE q >= 2
  BY <1>1, <1>5, c * q >= 2 * c, SMT
<1>6. QED  BY <1>1, <1>2, <1>3, <1>4, <1>5

\* Where a byte is, without the remainder.
LEMMA PlaceIs ==
  ASSUME NEW c \in Nat, NEW w \in 0 .. c - 1, NEW k \in 0 .. c - 1
  PROVE  /\ (w + c - 1 - k) % c = IF k < w THEN w - 1 - k ELSE w + c - 1 - k
         /\ (w + c - 1 - k) % c \in 0 .. c - 1
<1>1. (w + c - 1 - k) % c = IF w + c - 1 - k < c THEN w + c - 1 - k ELSE w + c - 1 - k - c
  BY OnceAround, w + c - 1 - k \in Nat, w + c - 1 - k < 2 * c
<1>2. QED  BY <1>1

-----------------------------------------------------------------------------
(* What a block does to a line. *)

\* The ring with the block in it, byte by byte.
LEMMA PushedRing ==
  ASSUME NEW c \in Nat, NEW w \in 0 .. c - 1, NEW n \in 1 .. c, NEW k \in 0 .. c - 1,
         NEW v \in Nat, v = (w + n) % c, NEW p \in Nat, p = (v + c - 1 - k) % c
  PROVE  /\ v \in 0 .. c - 1
         /\ p \in 0 .. c - 1
         /\ (p + c - w) % c = IF k < n THEN n - 1 - k ELSE c + n - 1 - k
         /\ k >= n => p = (w + c - 1 - (k - n)) % c
<1>1. v = IF w + n < c THEN w + n ELSE w + n - c
  BY OnceAround, w + n \in Nat, w + n < 2 * c
<1>2. v \in 0 .. c - 1
  BY <1>1
<1>3. p = (IF k < v THEN v - 1 - k ELSE v + c - 1 - k) /\ p \in 0 .. c - 1
  BY PlaceIs, <1>2
<1>4. (p + c - w) % c = IF p + c - w < c THEN p + c - w ELSE p + c - w - c
  <2> DEFINE x == p + c - w
  <2>1. x \in Nat /\ x < 2 * c /\ c > 0
    BY <1>3
  <2> HIDE DEF x
  <2>2. x % c = IF x < c THEN x ELSE x - c
    BY OnceAround, <2>1
  <2>3. QED  BY <2>2 DEF x
<1>5. (p + c - w) % c = IF k < n THEN n - 1 - k ELSE c + n - 1 - k
  <2>1. CASE w + n < c  BY <1>1, <1>2, <1>3, <1>4, <2>1
  <2>2. CASE w + n >= c  BY <1>1, <1>2, <1>3, <1>4, <2>2
  <2>3. QED  BY <2>1, <2>2
<1>6. ASSUME k >= n
      PROVE  p = (w + c - 1 - (k - n)) % c
  <2>1. k - n \in 0 .. c - 1
    BY <1>6
  <2>2. (w + c - 1 - (k - n)) % c = IF k - n < w THEN w - 1 - (k - n) ELSE w + c - 1 - (k - n)
    BY PlaceIs, <2>1
  <2>3. CASE w + n < c  BY <1>1, <1>3, <1>6, <2>2, <2>3
  <2>4. CASE w + n >= c  BY <1>1, <1>3, <1>6, <2>2, <2>4
  <2>5. QED  BY <2>3, <2>4
<1>7. QED  BY <1>2, <1>3, <1>5, <1>6

\* A block in the ring: it is the newest, and what was remembered still is.
LEMMA PushRemembers ==
  ASSUME LineConstants, NEW l, IsLine(l), NEW n \in Nat, n > 0, n <= l.cap, NEW a \in Nat
  PROVE  /\ IsLine(Push(l, n))
         /\ Push(l, n).cap = l.cap /\ Push(l, n).delay = l.delay /\ Push(l, n).fb = l.fb
         /\ Remembers(l, a, n) => Remembers(Push(l, n), Lesser(MostFed, n + a), 0)
<1> DEFINE at(i) == (i + l.cap - l.write) % l.cap
           ring  == [i \in 0 .. l.cap - 1 |-> IF at(i) < n THEN n - 1 - at(i) ELSE l.ring[i]]
           m     == Push(l, n)
<1>1. /\ l \in LineShape /\ l.ring \in [0 .. l.cap - 1 -> Int]
      /\ l.cap \in Nat /\ l.write \in 0 .. l.cap - 1 /\ l.valid \in 0 .. l.cap /\ l.delay \in Nat
      /\ l.fb \in Nat /\ l.cap <= MostFed /\ l.cap > 0 /\ MostFed \in Nat
  BY DEF IsLine, LineShape, LineConstants
<1>2. m = [l EXCEPT !.ring = ring, !.write = (l.write + n) % l.cap, !.valid = Lesser(l.valid + n, l.cap)]
  BY <1>1 DEF Push, LineShape
<1>3. \A i \in 0 .. l.cap - 1 : at(i) \in Nat
  BY <1>1, OnceAround
<1>4. ring \in [0 .. l.cap - 1 -> Int]
  <2>1. ASSUME NEW i \in 0 .. l.cap - 1
        PROVE  (IF at(i) < n THEN n - 1 - at(i) ELSE l.ring[i]) \in Int
    <3>1. at(i) \in Nat  BY <1>3
    <3>2. l.ring[i] \in Int  BY <1>1
    <3> HIDE DEF at
    <3>3. QED  BY <3>1, <3>2
  <2> HIDE DEF at
  <2>2. QED  BY <2>1
<1>5. (l.write + n) % l.cap \in 0 .. l.cap - 1
  <2>1. n \in 1 .. l.cap /\ 0 \in 0 .. l.cap - 1
    BY <1>1
  <2>2. QED  BY <1>1, <2>1, PushedRing
<1>6. Lesser(l.valid + n, l.cap) \in 0 .. l.cap
  BY <1>1 DEF Lesser
<1>7. /\ m.ring = ring /\ m.write = (l.write + n) % l.cap /\ m.valid = Lesser(l.valid + n, l.cap)
      /\ m.cap = l.cap /\ m.delay = l.delay /\ m.fb = l.fb
  <2> HIDE DEF m, ring
  <2>1. QED  BY <1>1, <1>2 DEF LineShape
<1>8. IsLine(m)
  <2>1. ring \in Rings
    BY <1>1, <1>4 DEF Rings
  <2>2. m \in LineShape
    <3> HIDE DEF m, ring
    <3>1. m = [delay |-> l.delay, fb |-> l.fb, cap |-> l.cap, write |-> (l.write + n) % l.cap,
               valid |-> Lesser(l.valid + n, l.cap), ring |-> ring]
      BY <1>1, <1>2 DEF LineShape
    <3>2. QED  BY <1>1, <1>5, <1>6, <2>1, <3>1 DEF LineShape
  <2> HIDE DEF m, ring
  <2>3. QED  BY <1>1, <1>4, <1>5, <1>6, <1>7, <2>2 DEF IsLine
<1>9. ASSUME Remembers(l, a, n)
      PROVE  Remembers(m, Lesser(MostFed, n + a), 0)
  <2>1. m.valid = Lesser(Lesser(MostFed, n + a), m.cap)
    BY <1>1, <1>7, <1>9 DEF Remembers, Lesser
  <2>2. ASSUME NEW k \in 0 .. m.valid - 1
        PROVE  m.ring[Place(m, k)] = k
    <3>1. k \in 0 .. l.cap - 1 /\ k < l.valid + n
      <4> HIDE DEF m, ring, at
      <4>1. QED  BY <1>1, <1>7, <2>2 DEF Lesser
    <3> DEFINE p == Place(m, k)
    <3>2. p = (((l.write + n) % l.cap) + l.cap - 1 - k) % l.cap
      BY <1>7 DEF Place
    <3>3. /\ p \in 0 .. l.cap - 1
          /\ at(p) = IF k < n THEN n - 1 - k ELSE l.cap + n - 1 - k
          /\ k >= n => p = Place(l, k - n)
      <4>1. n \in 1 .. l.cap
        BY <1>1
      <4> DEFINE v == (l.write + n) % l.cap
      <4>2. v = (l.write + n) % l.cap /\ p = (v + l.cap - 1 - k) % l.cap
        BY <3>2
      <4> HIDE DEF p, v
      <4>3. /\ p \in 0 .. l.cap - 1
            /\ (p + l.cap - l.write) % l.cap = IF k < n THEN n - 1 - k ELSE l.cap + n - 1 - k
            /\ k >= n => p = (l.write + l.cap - 1 - (k - n)) % l.cap
        <5> DEFINE c == l.cap
                   w == l.write
        <5>1. /\ c \in Nat /\ w \in 0 .. c - 1 /\ n \in 1 .. c /\ k \in 0 .. c - 1
              /\ v = (w + n) % c /\ p = (v + c - 1 - k) % c /\ v \in 0 .. c - 1
          BY <1>1, <1>5, <3>1, <4>1, <4>2
        <5>4. p \in Nat
          BY PlaceIs, <5>1
        <5> HIDE DEF c, w
        <5>2. /\ p \in 0 .. c - 1
              /\ (p + c - w) % c = IF k < n THEN n - 1 - k ELSE c + n - 1 - k
              /\ k >= n => p = (w + c - 1 - (k - n)) % c
          BY PushedRing, <5>1, <5>4, SMTT(60)
        <5>3. QED  BY <5>2 DEF c, w
      <4>4. QED  BY <4>3 DEF Place
    <3> HIDE DEF p, at, m
    <3>4. m.ring[p] = IF at(p) < n THEN n - 1 - at(p) ELSE l.ring[p]
      BY <1>7, <3>3
    <3>5. CASE k < n
      BY <3>1, <3>3, <3>4, <3>5 DEF p
    <3>6. CASE k >= n
      <4>1. k - n \in 0 .. l.valid - 1
        BY <1>1, <3>1, <3>6
      <4>2. l.ring[Place(l, k - n)] = k - n + n
        BY <4>1, <1>9 DEF Remembers
      <4>3. ~(at(p) < n)
        BY <1>1, <3>1, <3>3, <3>6
      <4>4. QED  BY <3>1, <3>3, <3>4, <3>6, <4>2, <4>3 DEF p
    <3>7. QED  BY <3>1, <3>5, <3>6
  <2>3. QED
    <3>1. \A k \in 0 .. m.valid - 1 : m.ring[Place(m, k)] = k + 0
      BY <2>2
    <3>2. QED  BY <2>1, <3>1 DEF Remembers
<1>10. QED  BY <1>7, <1>8, <1>9

\* What a line answers a block of n bytes with, when it has room for it and the delay.
LEMMA EmitsExactly ==
  ASSUME NEW l, IsLine(l), NEW n \in Nat, n > 0, n + l.delay * l.fb <= l.cap,
         NEW a \in Nat, Remembers(l, a, 0), NEW i \in 1 .. n
  PROVE  Emit(l, n)[i] = LET age == n - i + l.delay * l.fb IN IF age < a THEN age ELSE Silence
<1> DEFINE d == l.delay * l.fb
           age == n - i + d
           missing == Missing(l, n)
           start == (l.write + l.cap - d - (n - missing)) % l.cap
           c == l.cap
           w == l.write
           valid == l.valid
<1>1. /\ c \in Nat /\ w \in 0 .. c - 1 /\ valid \in 0 .. c /\ d \in Nat /\ c > 0 /\ n + d <= c
      /\ age \in 0 .. c - 1
  <2>1. l.delay \in Nat /\ l.fb \in Nat /\ l.cap \in Nat /\ l.write \in Nat /\ l.valid \in Nat
    BY DEF IsLine, LineShape
  <2>2. d \in Nat
    BY <2>1
  <2>3. l.cap > 0 /\ l.write < l.cap /\ l.valid <= l.cap /\ n + d <= l.cap /\ n \in Nat /\ n > 0 /\ i \in 1..n
    BY DEF IsLine
  <2>4. PICK e \in Nat : e = d
    BY <2>2
  <2>5. PICK cap, write, usable \in Nat : cap = c /\ write = w /\ usable = valid
    BY <2>1
  <2> HIDE DEF d, age, c, w, valid
  <2>6. cap > 0 /\ write < cap /\ usable <= cap /\ n + e <= cap
    BY <2>3, <2>4, <2>5 DEF c, w, valid
  <2>7. write \in 0..cap - 1 /\ usable \in 0..cap /\ n - i + e \in 0..cap - 1
    BY ONLY <2>3, <2>6, cap \in Nat, write \in Nat, usable \in Nat, e \in Nat
  <2>8. QED
    BY ONLY <2>4, <2>5, <2>6, <2>7 DEF age
<1>2. missing = IF n + d <= valid THEN 0 ELSE Lesser(n, n + d - valid)
  BY DEF Missing
<1>3. start = (w + c - d - (n - missing)) % c
  OBVIOUS
<1>4. Emit(l, n)[i] = IF i <= missing THEN Silence ELSE l.ring[(start + i - missing - 1) % c]
  BY DEF Emit
<1>5. valid = Lesser(a, c) /\ \A k \in 0 .. valid - 1 : l.ring[(w + c - 1 - k) % c] = k + 0
  BY DEF Remembers, Place
<1>6. age = n - i + d
  OBVIOUS
<1> HIDE DEF missing, start, c, w, valid, d, age
<1>7. missing \in 0 .. n
  BY <1>1, <1>2 DEF Lesser
<1>8. i <= missing <=> age >= a
  BY <1>1, <1>2, <1>5, <1>6 DEF Lesser
<1>9. CASE i <= missing
  BY <1>4, <1>8, <1>9, <1>1 DEF age, d
<1>10. CASE ~(i <= missing)
  <2> DEFINE x == w + c - d - (n - missing)
             y == start + i - missing - 1
  <2>1. x \in Nat /\ x < 2 * c
    BY <1>1, <1>7
  <2>2. start = IF x < c THEN x ELSE x - c
    <3> HIDE DEF x
    <3>1. x % c = IF x < c THEN x ELSE x - c
      BY OnceAround, <1>1, <2>1
    <3>2. QED  BY <1>3, <3>1 DEF x
  <2>3. start \in 0 .. c - 1
    BY <1>1, <2>1, <2>2
  <2>4. y \in Nat /\ y < 2 * c
    BY <1>1, <1>7, <1>10, <2>3
  <2>5. y % c = IF y < c THEN y ELSE y - c
    <3> HIDE DEF y
    <3>1. QED  BY OnceAround, <1>1, <2>4
  <2>6. (w + c - 1 - age) % c = IF age < w THEN w - 1 - age ELSE w + c - 1 - age
    BY PlaceIs, <1>1
  <2>7. y % c = (w + c - 1 - age) % c
    <3>1. y = start + i - missing - 1 /\ x = w + c - d - (n - missing)
      OBVIOUS
    <3> HIDE DEF x, y
    <3>2. CASE x < c  BY <1>1, <1>6, <1>7, <1>10, <2>1, <2>2, <2>3, <2>4, <2>5, <2>6, <3>1, <3>2
    <3>3. CASE x >= c  BY <1>1, <1>6, <1>7, <1>10, <2>1, <2>2, <2>3, <2>4, <2>5, <2>6, <3>1, <3>3
    <3>4. QED  BY <1>1, <2>1, <3>2, <3>3
  <2>8. age \in 0 .. valid - 1 /\ age < a
    BY <1>1, <1>5, <1>8, <1>10 DEF Lesser
  <2>9. Emit(l, n)[i] = age
    <3> HIDE DEF y
    <3>1. l.ring[y % c] = age + 0
      BY <1>5, <2>7, <2>8
    <3>2. QED  BY <1>1, <1>4, <1>10, <3>1 DEF y
  <2>10. QED  BY <2>8, <2>9 DEF age, d
<1>11. QED  BY <1>9, <1>10

\* Every byte of the ring is n older.
LEMMA OlderRemembers ==
  ASSUME NEW l, IsLine(l), NEW n \in Nat
  PROVE  /\ IsLine(Older(l, n))
         /\ \A a \in Nat : Remembers(l, a, 0) => Remembers(Older(l, n), a, n)
         /\ Older(l, n).cap = l.cap /\ Older(l, n).delay = l.delay /\ Older(l, n).fb = l.fb
<1> DEFINE ring == [i \in 0 .. l.cap - 1 |-> Aged(l.ring[i], n)]
           m    == Older(l, n)
<1>1. /\ l \in LineShape /\ l.ring \in [0 .. l.cap - 1 -> Int]
      /\ l.cap \in Nat /\ l.write \in 0 .. l.cap - 1 /\ l.valid \in 0 .. l.cap /\ l.cap > 0
  BY DEF IsLine, LineShape
<1>2. m = [l EXCEPT !.ring = ring]
  BY <1>1 DEF Older, LineShape
<1>3. ring \in [0 .. l.cap - 1 -> Int]
  BY <1>1 DEF Aged
<1>4. ring \in Rings
  BY <1>1, <1>3 DEF Rings
<1> HIDE DEF m, ring
<1>5. /\ m \in LineShape /\ m.ring = ring /\ m.write = l.write /\ m.valid = l.valid
      /\ m.cap = l.cap /\ m.delay = l.delay /\ m.fb = l.fb
  BY <1>1, <1>2, <1>4 DEF LineShape
<1>6. IsLine(m)
  BY <1>3, <1>5 DEF IsLine
<1>7. ASSUME NEW a \in Nat, Remembers(l, a, 0)
      PROVE  Remembers(m, a, n)
  <2>1. m.valid = Lesser(a, m.cap)
    BY <1>5, <1>7 DEF Remembers
  <2>2. ASSUME NEW k \in 0 .. m.valid - 1
        PROVE  m.ring[Place(m, k)] = k + n
    <3>1. k \in 0 .. l.valid - 1 /\ k \in 0 .. l.cap - 1
      BY <1>1, <1>5
    <3>2. Place(m, k) = Place(l, k) /\ Place(l, k) \in 0 .. l.cap - 1
      BY <1>1, <1>5, <3>1, PlaceIs DEF Place
    <3>3. l.ring[Place(l, k)] = k
      BY <1>7, <3>1 DEF Remembers
    <3>4. QED  BY <1>1, <1>5, <3>1, <3>2, <3>3 DEF ring, Aged
  <2>3. QED  BY <2>1, <2>2 DEF Remembers
<1>8. QED  BY <1>5, <1>6, <1>7 DEF m

\* A line that starts anew remembers nothing.
LEMMA ResetLine ==
  ASSUME NEW l, IsLine(l), NEW fb \in Nat, fb > 0, NEW min \in Nat, min <= MostFed, MostFed \in Nat
  PROVE  /\ IsLine(ResetFor(l, fb, min)) /\ ResetFor(l, fb, min).cap = Greater(l.cap, min)
         /\ ResetFor(l, fb, min).fb = fb /\ ResetFor(l, fb, min).delay = l.delay
         /\ ResetFor(l, fb, min).valid = 0
<1> DEFINE cap  == Greater(l.cap, min)
           ring == [i \in 0 .. cap - 1 |-> IF l.cap < min THEN Silence ELSE Stale]
           m    == ResetFor(l, fb, min)
<1>1. l \in LineShape /\ l.cap \in Nat /\ l.cap > 0 /\ l.cap <= MostFed /\ l.delay <= MaxDelay
  BY DEF IsLine, LineShape
<1>2. m = [l EXCEPT !.cap = cap, !.fb = fb, !.write = 0, !.valid = 0, !.ring = ring]
  BY DEF ResetFor
<1>3. cap \in Nat /\ cap > 0 /\ cap <= MostFed
  BY <1>1 DEF Greater
<1> HIDE DEF cap
<1>4. ring \in [0 .. cap - 1 -> Int]
  BY DEF Silence, Stale
<1>5. ring \in Rings
  BY <1>3, <1>4 DEF Rings
<1> HIDE DEF m, ring
<1>6. m = [delay |-> l.delay, fb |-> fb, cap |-> cap, write |-> 0, valid |-> 0, ring |-> ring]
  BY <1>1, <1>2 DEF LineShape
<1>7. m \in LineShape
  BY <1>1, <1>3, <1>5, <1>6 DEF LineShape
<1>8. QED  BY <1>1, <1>3, <1>4, <1>6, <1>7 DEF IsLine, m, cap

\* Any delay fits the bounds of the constants.
LEMMA Products ==
  ASSUME LineConstants, NEW fb \in Nat, NEW delay \in Nat, delay <= MaxDelay
  PROVE  /\ delay * fb \in Nat /\ MaxDelay * fb \in Nat /\ Headroom * fb \in Nat
         /\ (MaxDelay + Headroom) * fb = MaxDelay * fb + Headroom * fb
         /\ delay * fb <= MaxDelay * fb
<1>1. MaxDelay \in Nat /\ Headroom \in Nat
  BY DEF LineConstants
<1>2. (MaxDelay - delay) * fb >= 0 /\ (MaxDelay - delay) * fb = MaxDelay * fb - delay * fb
  BY <1>1, SMT
<1>3. (MaxDelay + Headroom) * fb = MaxDelay * fb + Headroom * fb
  BY <1>1, SMT
<1>4. delay * fb \in Nat /\ MaxDelay * fb \in Nat /\ Headroom * fb \in Nat
  BY <1>1, SMT
<1>5. QED  BY <1>2, <1>3, <1>4

\* A block that is fed to a line finds it in the format, with room for block and delay, and is
\* remembered with what the line knew, or with nothing if the line had to start anew.
LEMMA FedFacts ==
  ASSUME LineConstants, NEW l, IsLine(l), format \in Formats, NEW n \in Blocks
  PROVE  /\ IsLine(Fed(l, n))
         /\ Fed(l, n).fb = format /\ Fed(l, n).delay = l.delay
         /\ n + l.delay * format <= Fed(l, n).cap
         /\ \A a \in Nat : Remembers(l, a, 0) \/ Anew(l, n) =>
              Remembers(Fed(l, n), Lesser(MostFed, n + IF Anew(l, n) THEN 0 ELSE a), 0)
<1> DEFINE l0 == Older(l, n)
           l1 == InFormat(l0, format, n)
           l2 == WithRoom(l1, n)
           bytes == l.delay * format
           room == Headroom * format
           most == (MaxDelay + Headroom) * format
<1>1. n \in Nat /\ n > 0 /\ format \in Nat /\ format > 0 /\ MostFed \in Nat
  BY DEF LineConstants
<1>2. l.delay \in Nat /\ l.delay <= MaxDelay /\ l.cap \in Nat
  BY DEF IsLine, LineShape
<1>3. bytes \in Nat /\ room \in Nat /\ most \in Nat /\ bytes + room <= most
  <2>1. /\ l.delay * format \in Nat /\ MaxDelay * format \in Nat /\ Headroom * format \in Nat
        /\ (MaxDelay + Headroom) * format = MaxDelay * format + Headroom * format
        /\ l.delay * format <= MaxDelay * format
    BY Products, <1>1, <1>2
  <2>2. QED  BY <2>1
<1>4. n + most <= MostFed
  BY DEF LineConstants
<1>5. /\ IsLine(l0) /\ l0.cap = l.cap /\ l0.delay = l.delay /\ l0.fb = l.fb
      /\ \A a \in Nat : Remembers(l, a, 0) => Remembers(l0, a, n)
  BY OlderRemembers, <1>1
<1> HIDE DEF l0
<1>6. /\ IsLine(l2) /\ l2.fb = format /\ l2.delay = l.delay /\ n + bytes <= l2.cap
      /\ IF Anew(l, n) THEN l2.valid = 0 ELSE l2 = l0
  <2>1. CASE l.fb # format
    <3> DEFINE min == Greater(most, n + bytes)
    <3>1. min \in Nat /\ min <= MostFed /\ n + bytes <= min
      <4> HIDE DEF bytes, most, room
      <4>1. QED  BY <1>1, <1>3, <1>4 DEF Greater
    <3>2. l1 = ResetFor(l0, format, min)
      BY <1>5, <2>1 DEF InFormat, RingBytesFor
    <3>3. /\ IsLine(l1) /\ l1.cap = Greater(l.cap, min) /\ l1.fb = format /\ l1.delay = l.delay
          /\ l1.valid = 0
      <4> DEFINE r == ResetFor(l0, format, min)
      <4> HIDE DEF min
      <4>1. IsLine(r) /\ r.cap = Greater(l0.cap, min) /\ r.fb = format /\ r.delay = l0.delay /\ r.valid = 0
        BY ResetLine, <1>1, <1>5, <3>1
      <4> HIDE DEF r, l1
      <4>2. l1 = r
        BY <3>2 DEF r
      <4>3. QED  BY <1>5, <4>1, <4>2
    <3>4. n + bytes <= l1.cap
      <4> HIDE DEF min, l1, bytes
      <4>1. QED  BY <1>1, <1>2, <1>3, <3>1, <3>3 DEF Greater
    <3>5. l2 = l1
      <4> HIDE DEF l1
      <4>1. QED  BY <3>3, <3>4 DEF WithRoom
    <3>6. Anew(l, n)
      BY <2>1 DEF Anew
    <3> HIDE DEF l1, l2
    <3>7. QED  BY <3>3, <3>4, <3>5, <3>6
  <2>2. CASE l.fb = format /\ l.cap < n + bytes
    <3> DEFINE min == n + bytes + room
    <3>1. l1 = l0
      BY <1>5, <2>2 DEF InFormat
    <3>2. min \in Nat /\ min <= MostFed /\ l.cap < min
      <4> HIDE DEF bytes, most, room
      <4>1. QED  BY <1>1, <1>2, <1>3, <1>4, <2>2
    <3>3. l2 = ResetFor(l0, format, min)
      <4>1. bytes = l0.delay * l0.fb /\ room = Headroom * l0.fb /\ l0.fb = format /\ l0.cap = l.cap
        BY <1>5, <2>2
      <4>2. ~(l0.cap >= n + bytes)
        <5> HIDE DEF bytes
        <5>1. QED  BY <1>1, <1>2, <1>3, <2>2, <4>1
      <4> HIDE DEF bytes, room, l1
      <4>3. QED  BY <3>1, <4>1, <4>2 DEF WithRoom
    <3>4. /\ IsLine(l2) /\ l2.cap = Greater(l.cap, min) /\ l2.fb = format /\ l2.delay = l.delay
          /\ l2.valid = 0
      <4> DEFINE r == ResetFor(l0, format, min)
      <4> HIDE DEF min
      <4>1. IsLine(r) /\ r.cap = Greater(l0.cap, min) /\ r.fb = format /\ r.delay = l0.delay /\ r.valid = 0
        BY ResetLine, <1>1, <1>5, <3>2
      <4> HIDE DEF r, l2
      <4>2. l2 = r
        BY <3>3 DEF r
      <4>3. QED  BY <1>5, <4>1, <4>2
    <3>5. n + bytes <= l2.cap
      <4> HIDE DEF l2, bytes, room
      <4>1. QED  BY <1>1, <1>2, <1>3, <3>2, <3>4 DEF Greater
    <3>6. Anew(l, n)
      BY <2>2 DEF Anew
    <3> HIDE DEF l2
    <3>7. QED  BY <3>4, <3>5, <3>6
  <2>3. CASE l.fb = format /\ ~(l.cap < n + bytes)
    <3>1. l1 = l0
      BY <1>5, <2>3 DEF InFormat
    <3>2. n + bytes <= l0.cap /\ n + bytes \in Nat
      <4> HIDE DEF bytes
      <4>1. QED  BY <1>1, <1>2, <1>3, <1>5, <2>3
    <3>3. l2 = l0
      <4> HIDE DEF l1
      <4>1. QED  BY <1>5, <2>3, <3>1, <3>2 DEF WithRoom
    <3>4. ~Anew(l, n)
      BY <2>3 DEF Anew
    <3> HIDE DEF l2
    <3>5. QED  BY <1>5, <2>3, <3>2, <3>3, <3>4
  <2>4. QED  BY <2>1, <2>2, <2>3
<1>7. Fed(l, n) = Push(l2, n)
  BY DEF Fed, l0
<1> HIDE DEF l2
<1>8. n <= l2.cap
  <2>1. l2.cap \in Nat
    BY <1>6 DEF IsLine, LineShape
  <2> HIDE DEF bytes
  <2>2. QED  BY <1>1, <1>3, <1>6, <2>1
<1>9. \A a \in Nat : Remembers(l, a, 0) \/ Anew(l, n) => Remembers(l2, IF Anew(l, n) THEN 0 ELSE a, n)
  <2>1. l2.valid = 0 => Remembers(l2, 0, n)
    <3>1. l2.cap \in Nat
      BY <1>6 DEF IsLine, LineShape
    <3>2. QED  BY <3>1 DEF Remembers, Lesser
  <2>2. QED  BY <1>5, <1>6, <2>1
<1>10. ASSUME NEW a \in Nat, Remembers(l, a, 0) \/ Anew(l, n)
       PROVE  Remembers(Fed(l, n), Lesser(MostFed, n + IF Anew(l, n) THEN 0 ELSE a), 0)
  <2> DEFINE b == IF Anew(l, n) THEN 0 ELSE a
  <2>1. b \in Nat /\ Remembers(l2, b, n)
    BY <1>9, <1>10
  <2> HIDE DEF b
  <2>2. Remembers(Push(l2, n), Lesser(MostFed, n + b), 0)
    BY PushRemembers, <1>1, <1>6, <1>8, <2>1
  <2>3. QED  BY <1>7, <2>2 DEF b
<1>11. /\ IsLine(Push(l2, n)) /\ Push(l2, n).cap = l2.cap /\ Push(l2, n).delay = l2.delay
       /\ Push(l2, n).fb = l2.fb
  BY PushRemembers, <1>1, <1>6, <1>8
<1>12. QED  BY <1>6, <1>7, <1>10, <1>11

-----------------------------------------------------------------------------
(* The steps. *)

\* A step that asks nothing of the line.
LEMMA NothingAskedIsExact ==
  ASSUME asked' = NothingAsked
  PROVE  DelayedExactly'
BY DEF DelayedExactly, NothingAsked

\* A block that is fed to the line comes out its delay later.
LEMMA FeedIsExact ==
  ASSUME LineConstants, IInv, NEW n \in Blocks, NEW l \in effect.lines, ~PassesBy(l, n),
         effect' = [effect EXCEPT !.lines = {Fed(l, n)}],
         out' = IF effect.muted THEN [i \in 1 .. n |-> Silence] ELSE Masked(Emit(Fed(l, n), n)),
         asked' = [on |-> TRUE, delay |-> l.delay * format, heard |-> ~effect.muted],
         fed' = Lesser(MostFed, n + IF Anew(l, n) THEN 0 ELSE fed),
         gap' = (gap /\ ~Anew(l, n)), format' = format
  PROVE  IInv'
<1> DEFINE m == Fed(l, n)
<1>1. n \in Nat /\ n > 0 /\ format \in Nat /\ format > 0 /\ MostFed \in Nat /\ format \in Formats
      /\ fed \in Nat /\ effect \in EffectShape
  BY DEF LineConstants, IInv
<1>2. IsLine(l) /\ (~gap => Remembers(l, fed, 0))
  BY DEF IInv
<1>3. /\ IsLine(m) /\ m.fb = format /\ m.delay = l.delay /\ n + l.delay * format <= m.cap
      /\ ~gap' => Remembers(m, fed', 0)
  BY FedFacts, <1>1, <1>2
<1> HIDE DEF m
<1>4. effect' = [effect EXCEPT !.lines = {m}]
  BY DEF m
<1>5. effect'.lines = {m} /\ effect'.left = effect.left /\ effect' \in EffectShape
  BY <1>1, <1>3, <1>4 DEF EffectShape, IsLine
<1>6. fed' \in 0 .. MostFed /\ gap' \in BOOLEAN
  <2>1. gap' \in BOOLEAN
    OBVIOUS
  <2>2. fed' \in 0 .. MostFed
    BY <1>1 DEF Lesser
  <2>3. QED  BY <2>1, <2>2
<1>7. DelayedExactly'
  <2> SUFFICES ASSUME asked'.on, asked'.heard, ~gap', NEW i \in 1 .. Len(out'), ~Dropped(i)'
               PROVE  out'[i] = LET age == Len(out') - i + asked'.delay
                                IN  IF age < fed' THEN age ELSE Silence
    BY DEF DelayedExactly
  <2>1. ~effect.muted /\ asked'.delay = l.delay * format
    OBVIOUS
  <2>2. out' = Masked(Emit(m, n))
    BY <2>1 DEF m
  <2>3. Len(Emit(m, n)) = n /\ DOMAIN Emit(m, n) = 1 .. n
    BY <1>1 DEF Emit
  <2>4. out' = [j \in 1 .. n |-> IF effect.left /\ format = 2 /\ j % 2 = 0 THEN Silence ELSE Emit(m, n)[j]]
    BY <2>2, <2>3 DEF Masked
  <2>5. Len(out') = n
    BY <1>1, <2>4
  <2>6. ~(effect.left /\ format = 2 /\ i % 2 = 0)
    BY <1>5 DEF Dropped
  <2>7. out'[i] = Emit(m, n)[i]
    BY <2>4, <2>5, <2>6
  <2>8. Emit(m, n)[i] = LET age == n - i + m.delay * m.fb IN IF age < fed' THEN age ELSE Silence
    BY EmitsExactly, <1>1, <1>3, <1>6, <2>5
  <2>9. QED  BY <1>3, <2>1, <2>5, <2>7, <2>8
<1>8. QED
  <2>1. format' \in Formats
    BY <1>1
  <2>2. \A x, y \in effect'.lines : x = y
    BY <1>5
  <2>3. \A x \in effect'.lines : IsLine(x) /\ (~gap' => Remembers(x, fed', 0))
    BY <1>3, <1>5
  <2>4. QED  BY <1>5, <1>6, <1>7, <2>1, <2>2, <2>3 DEF IInv

\* A block that goes by a line leaves a gap in what it remembers.
LEMMA PassedIsLine ==
  ASSUME LineConstants, NEW l, IsLine(l), format \in Formats, NEW n \in Blocks
  PROVE  IsLine(Passed(l)) /\ IsLine(InFormat(l, format, n))
<1>1. IsLine(Passed(l))
  <2> DEFINE ring == [i \in 0 .. l.cap - 1 |-> Stale]
             m    == Passed(l)
  <2>1. l \in LineShape /\ l.cap \in Nat
    BY DEF IsLine, LineShape
  <2>2. m = [l EXCEPT !.ring = ring]
    BY DEF Passed
  <2>3. ring \in [0 .. l.cap - 1 -> Int]
    BY DEF Stale
  <2>4. ring \in Rings
    BY <2>1, <2>3 DEF Rings
  <2> HIDE DEF m, ring
  <2>5. /\ m \in LineShape /\ m.ring = ring /\ m.write = l.write /\ m.valid = l.valid
        /\ m.cap = l.cap /\ m.delay = l.delay /\ m.fb = l.fb
    BY <2>1, <2>2, <2>4 DEF LineShape
  <2>6. QED  BY <2>3, <2>5 DEF IsLine, m
<1>2. IsLine(InFormat(l, format, n))
  <2> DEFINE most  == (MaxDelay + Headroom) * format
             bytes == l.delay * format
             min   == Greater(most, n + bytes)
  <2>1. n \in Nat /\ format \in Nat /\ format > 0 /\ MostFed \in Nat /\ l.delay \in Nat /\ l.delay <= MaxDelay
    BY DEF LineConstants, IsLine, LineShape
  <2>2. most \in Nat /\ bytes \in Nat /\ bytes <= most
    <3>1. /\ l.delay * format \in Nat /\ MaxDelay * format \in Nat /\ Headroom * format \in Nat
          /\ (MaxDelay + Headroom) * format = MaxDelay * format + Headroom * format
          /\ l.delay * format <= MaxDelay * format
      BY Products, <2>1
    <3>2. QED  BY <3>1
  <2>3. n + most <= MostFed
    BY DEF LineConstants
  <2>4. min \in Nat /\ min <= MostFed
    <3> HIDE DEF most, bytes
    <3>1. QED  BY <2>1, <2>2, <2>3 DEF Greater
  <2>5. IsLine(ResetFor(l, format, min))
    <3> HIDE DEF min
    <3>1. QED  BY ResetLine, <2>1, <2>4
  <2>6. QED  BY <2>5 DEF InFormat, RingBytesFor
<1>3. QED  BY <1>1, <1>2

LEMMA BlockStep ==
  ASSUME LineConstants, IInv, NEW n \in Blocks, Block(n)
  PROVE  IInv'
<1>1. CASE effect.lines = {} /\ asked' = NothingAsked /\ UNCHANGED <<effect, format, fed, gap>>
  <2>1. DelayedExactly'
    BY <1>1, NothingAskedIsExact
  <2>2. QED  BY <1>1, <2>1 DEF IInv
<1>2. ASSUME NEW l \in effect.lines, PassesBy(l, n),
             effect' = [effect EXCEPT !.lines = {Passed(IF n % format # 0 THEN l ELSE InFormat(l, format, n))}],
             asked' = NothingAsked, gap' = TRUE, UNCHANGED <<format, fed>>
      PROVE  IInv'
  <2> DEFINE k == IF n % format # 0 THEN l ELSE InFormat(l, format, n)
             m == Passed(k)
  <2>1. IsLine(l) /\ format \in Formats /\ effect \in EffectShape
    BY DEF IInv
  <2>2. IsLine(k)
    BY PassedIsLine, <2>1
  <2> HIDE DEF k
  <2>3. IsLine(m)
    BY PassedIsLine, <2>1, <2>2
  <2> HIDE DEF m
  <2>4. effect' = [effect EXCEPT !.lines = {m}]
    BY <1>2 DEF m, k
  <2>5. effect' \in EffectShape /\ effect'.lines = {m}
    BY <2>1, <2>3, <2>4 DEF EffectShape, IsLine
  <2>6. DelayedExactly'
    BY <1>2, NothingAskedIsExact
  <2>7. QED  BY <1>2, <2>3, <2>5, <2>6 DEF IInv
<1>3. ASSUME NEW l \in effect.lines, ~PassesBy(l, n),
             effect' = [effect EXCEPT !.lines = {Fed(l, n)}],
             out' = IF effect.muted THEN [i \in 1 .. n |-> Silence] ELSE Masked(Emit(Fed(l, n), n)),
             asked' = [on |-> TRUE, delay |-> l.delay * format, heard |-> ~effect.muted],
             fed' = Lesser(MostFed, n + IF Anew(l, n) THEN 0 ELSE fed),
             gap' = (gap /\ ~Anew(l, n)), format' = format
      PROVE  IInv'
  BY FeedIsExact, <1>3
<1>4. QED
  BY <1>1, <1>2, <1>3 DEF Block

LEMMA SetDelayStep ==
  ASSUME LineConstants, IInv, NEW delay \in 0 .. MaxDelay, SetDelay(delay)
  PROVE  IInv'
<1>1. effect \in EffectShape /\ delay \in Nat /\ delay <= MaxDelay /\ MaxDelay \in Nat /\ MostFed \in Nat
  BY DEF IInv, LineConstants
<1>2. DelayedExactly' /\ format' = format
  BY NothingAskedIsExact DEF SetDelay, Keeps, BetweenBlocks
<1>3. CASE effect.lines = {}
  <2> DEFINE m == NewLine(delay)
             cap == (MaxDelay + Headroom) * SIZING
             ring == [i \in 0 .. cap - 1 |-> Silence]
  <2>1. cap \in Nat /\ cap > 0 /\ cap <= MostFed
    BY DEF SIZING, LineConstants
  <2>2. m = [delay |-> delay, fb |-> SIZING, cap |-> cap, write |-> 0, valid |-> 0, ring |-> ring]
    BY DEF NewLine, RingBytesFor, Zeroed
  <2> HIDE DEF cap
  <2>3. ring \in [0 .. cap - 1 -> Int]
    BY DEF Silence
  <2>4. ring \in Rings
    BY <2>1, <2>3 DEF Rings
  <2>5. effect' = [effect EXCEPT !.lines = {m}] /\ fed' = 0 /\ gap' = FALSE
    BY <1>3 DEF SetDelay, StartsAnew
  <2> HIDE DEF m, ring
  <2>6. IsLine(m)
    BY <1>1, <2>1, <2>2, <2>3, <2>4 DEF IsLine, LineShape, SIZING
  <2>7. Remembers(m, 0, 0)
    BY <2>1, <2>2 DEF Remembers, Lesser
  <2>8. effect' \in EffectShape /\ effect'.lines = {m}
    BY <1>1, <2>5, <2>6 DEF EffectShape, IsLine
  <2>9. 0 \in 0 .. MostFed /\ format \in Formats
    BY <1>1 DEF IInv
  <2>10. QED  BY <1>2, <2>5, <2>6, <2>7, <2>8, <2>9 DEF IInv
<1>4. CASE effect.lines # {}
  <2> DEFINE l == The(effect.lines)
             m == [l EXCEPT !.delay = delay]
  <2>1. l \in effect.lines
    BY <1>4 DEF The
  <2>2. IsLine(l) /\ (~gap => Remembers(l, fed, 0))
    BY <2>1 DEF IInv
  <2>3. effect' = [effect EXCEPT !.lines = {m}] /\ UNCHANGED <<fed, gap>>
    BY <1>1, <1>4 DEF SetDelay, EffectShape
  <2> HIDE DEF l
  <2>4. /\ m \in LineShape /\ m.ring = l.ring /\ m.write = l.write /\ m.valid = l.valid
        /\ m.cap = l.cap /\ m.delay = delay /\ m.fb = l.fb
    BY <1>1, <2>2 DEF IsLine, LineShape
  <2> HIDE DEF m
  <2>5. IsLine(m)
    BY <1>1, <2>2, <2>4 DEF IsLine
  <2>6. ~gap => Remembers(m, fed, 0)
    BY <2>2, <2>4 DEF Remembers, Place
  <2>7. effect' \in EffectShape /\ effect'.lines = {m}
    BY <1>1, <2>3, <2>4 DEF EffectShape
  <2>8. QED  BY <1>2, <2>3, <2>5, <2>6, <2>7 DEF IInv
<1>5. QED  BY <1>3, <1>4

-----------------------------------------------------------------------------
(* The inductive invariant holds in every behaviour. *)
LEMMA InitIsInv == LineConstants /\ DelayLineInit => IInv
<1> SUFFICES ASSUME LineConstants, DelayLineInit  PROVE IInv
  OBVIOUS
<1>1. 0 \in 0 .. MostFed
  BY DEF LineConstants
<1>2. effect \in EffectShape /\ effect.lines = {}
  BY DEF DelayLineInit, NoEffect, EffectShape
<1>3. DelayedExactly
  BY DEF DelayLineInit, NothingAsked, DelayedExactly
<1>4. QED  BY <1>1, <1>2, <1>3 DEF DelayLineInit, IInv

LEMMA StepKeepsInv ==
  ASSUME LineConstants, IInv, [DelayLineNext]_delayLineVars
  PROVE  IInv'
<1>1. ASSUME NEW n \in Blocks, Block(n)  PROVE IInv'
  BY <1>1, BlockStep
<1>2. ASSUME NEW delay \in 0 .. MaxDelay, SetDelay(delay)  PROVE IInv'
  BY <1>2, SetDelayStep
<1>3. CASE Clear
  <2>1. DelayedExactly'
    BY <1>3, NothingAskedIsExact DEF Clear, Keeps, BetweenBlocks
  <2>2. effect' \in EffectShape /\ effect'.lines = {}
    BY <1>3 DEF Clear, IInv, EffectShape
  <2>3. format' \in Formats /\ fed' = 0 /\ gap' = FALSE
    BY <1>3 DEF Clear, Keeps, StartsAnew, IInv
  <2>4. 0 \in 0 .. MostFed
    BY DEF LineConstants
  <2>5. QED  BY <2>1, <2>2, <2>3, <2>4 DEF IInv
<1>4. ASSUME NEW on \in BOOLEAN, SetMuted(on) \/ SetChannels(on)  PROVE IInv'
  <2>1. DelayedExactly'
    BY <1>4, NothingAskedIsExact DEF SetMuted, SetChannels, Keeps, BetweenBlocks
  <2>2. effect' \in EffectShape /\ effect'.lines = effect.lines
    BY <1>4 DEF SetMuted, SetChannels, IInv, EffectShape
  <2>3. UNCHANGED <<format, fed, gap>>
    BY <1>4 DEF SetMuted, SetChannels, Keeps
  <2>4. QED  BY <2>1, <2>2, <2>3 DEF IInv
<1>5. ASSUME NEW fb \in Formats, Reformat(fb)  PROVE IInv'
  <2>1. DelayedExactly'
    BY <1>5, NothingAskedIsExact DEF Reformat, BetweenBlocks
  <2>2. QED  BY <1>5, <2>1 DEF Reformat, IInv
<1>6. CASE UNCHANGED delayLineVars
  BY <1>6 DEF delayLineVars, IInv, DelayedExactly, Dropped
<1>7. QED  BY <1>1, <1>2, <1>3, <1>4, <1>5, <1>6 DEF DelayLineNext

(* What a delayed output sends is what came in exactly its delay earlier, or silence where the
   line had not been fed by then, for every size of frames, blocks and ring (DelayLine::process). *)
THEOREM SendsWhatCameEarlier == DelayLineSpec => []DelayedExactly
<1>1. LineConstants
  BY LineConstants
<1>2. DelayLineInit => IInv
  BY <1>1, InitIsInv
<1>3. IInv /\ [DelayLineNext]_delayLineVars => IInv'
  BY <1>1, StepKeepsInv
<1>4. IInv => DelayedExactly
  BY DEF IInv
<1>5. QED  BY <1>2, <1>3, <1>4, PTL DEF DelayLineSpec

-----------------------------------------------------------------------------
(* The chain *)
(***************************************************************************)
(* The chain keeps speakers together.  What is heard is never further      *)
(* apart than half a pattern, so the arrivals are the times heard after    *)
(* the earliest; the lines are whole milliseconds, so that a position      *)
(* moves all the speakers aligned before by the same amount.  The knobs    *)
(* are an offset of the arrivals, at the target with the least of them.    *)
(***************************************************************************)

-----------------------------------------------------------------------------
(* The constants *)

\* Numbers that are finitely many have a bound.
LEMMA FiniteHasBound ==
  ASSUME NEW S \in SUBSET Nat, IsFiniteSet(S)
  PROVE  \E most \in Nat : S \subseteq 0..most
<1>1. Cardinality(S) \in Nat /\ ExistsBijection(1..Cardinality(S), S)
  BY FS_CardinalityType
<1>2. PICK n \in Nat : ExistsBijection(1..n, S)
  BY <1>1
<1>3. PICK f \in [1..n -> S] : \A a \in S : \E i \in 1..n : f[i] = a
  BY <1>2 DEF ExistsBijection, Bijection, Surjection
<1> DEFINE R == {x \in Nat \X Nat : x[1] < x[2]}
           Bounding(k) == \E most \in Nat : \A i \in 1..k : f[i] <= most
           T == {k \in 0..n : ~Bounding(k)}
<1>4. IsWellFoundedOn(R, Nat)
  BY NatLessThanWellFounded DEF OpToRel
<1>5. ASSUME T # {} PROVE FALSE
  <2>1. T \subseteq Nat
    OBVIOUS
  <2>2. PICK k \in T : \A j \in T : <<j, k>> \notin R
    <3> HIDE DEF T, R
    <3>1. QED
      BY <1>4, <1>5, <2>1, WFMin
  <2>3. k \in 0..n /\ ~Bounding(k)
    OBVIOUS
  <2>4. k # 0
    <3>1. Bounding(0)
      OBVIOUS
    <3>2. QED
      BY <2>3, <3>1
  <2>5. k - 1 \in 0..n /\ <<k - 1, k>> \in R
    <3>1. k \in Nat /\ k - 1 \in Nat /\ k - 1 < k
      BY <2>3, <2>4
    <3>2. QED
      BY <2>3, <3>1
  <2>6. Bounding(k - 1)
    BY <2>2, <2>5
  <2>7. PICK most \in Nat : \A i \in 1..(k - 1) : f[i] <= most
    BY <2>6
  <2>8. f[k] \in Nat /\ \A i \in 1..(k - 1) : f[i] \in Nat
    <3>1. k \in 1..n /\ \A i \in 1..(k - 1) : i \in 1..n
      BY <2>3, <2>4
    <3>2. \A i \in 1..n : f[i] \in Nat
      OBVIOUS
    <3> HIDE DEF T, R, Bounding
    <3>3. QED
      BY <3>1, <3>2
  <2> DEFINE more == IF most <= f[k] THEN f[k] ELSE most
  <2>9. more \in Nat /\ \A i \in 1..k : f[i] <= more
    <3>1. more \in Nat /\ most <= more /\ f[k] <= more
      BY <2>8
    <3> HIDE DEF more
    <3>2. ASSUME NEW i \in 1..k PROVE f[i] <= more
      <4>1. CASE i = k
        BY <3>1, <4>1
      <4>2. CASE i # k
        <5>1. i \in 1..(k - 1) /\ f[i] \in Nat
          BY <2>3, <2>8, <4>2
        <5>2. QED
          BY <2>7, <3>1, <5>1
      <4>3. QED
        BY <4>1, <4>2
    <3>3. QED
      BY <3>1, <3>2
  <2> HIDE DEF more
  <2>10. QED
    BY <2>3, <2>9
<1>6. Bounding(n)
  <2>1. n \in 0..n
    OBVIOUS
  <2> HIDE DEF Bounding
  <2>2. QED
    BY <1>5, <2>1
<1>7. PICK most \in Nat : \A i \in 1..n : f[i] <= most
  BY <1>6
<1>8. ASSUME NEW a \in S PROVE a \in 0..most
  <2>1. PICK i \in 1..n : f[i] = a
    BY <1>3
  <2>2. QED
    BY <1>7, <2>1
<1>9. QED
  BY <1>8

\* The constants, with the bounds of the sets.
Bounds ==
  /\ \E n \in Nat \ {0} : Speakers = 1..n
  /\ Pattern \in Nat /\ MaxLine \in Nat
  /\ \E longest \in Nat : Paths \subseteq 0..longest /\ 2 * (longest + MaxLine) < Pattern
  /\ MaxKnob \in Nat /\ MinJitter \in Nat /\ \E most \in Nat : Currents \subseteq 0..most

LEMMA ConstantsHaveBounds == ASSUME ChainConstants PROVE Bounds
<1>1. \E n \in Nat \ {0} : Speakers = 1..n
  <2>1. Cardinality(Speakers) \in Nat
    BY FS_CardinalityType DEF ChainConstants
  <2>2. Cardinality(Speakers) # 0
    BY FS_EmptySet DEF ChainConstants
  <2>3. QED
    BY <2>1, <2>2 DEF ChainConstants
<1>2. Pattern \in Nat /\ MaxLine \in Nat /\ 2 * MaxLine < Pattern
  BY DEF ChainConstants
<1> DEFINE longest == (Pattern - 1) \div 2 - MaxLine
<1>3. longest \in Nat /\ 2 * (longest + MaxLine) < Pattern
  BY <1>2
<1>4. ASSUME NEW p \in Paths PROVE p \in 0..longest
  <2>1. p \in Nat /\ 2 * (p + MaxLine) < Pattern
    BY DEF ChainConstants
  <2>2. QED
    BY <1>2, <2>1
<1> HIDE DEF longest
<1>5. \E most \in Nat : Currents \subseteq 0..most
  BY FiniteHasBound DEF ChainConstants
<1>6. QED
  BY <1>1, <1>2, <1>3, <1>4, <1>5 DEF Bounds, ChainConstants

-----------------------------------------------------------------------------
(* The least and the greatest of numbers that are bounded *)

LEMMA LeastOf ==
  ASSUME NEW S \in SUBSET Int, S # {}, NEW low \in Int, \A a \in S : low <= a
  PROVE  MinOf(S) \in S /\ \A a \in S : MinOf(S) <= a
<1> DEFINE R == {x \in Nat \X Nat : x[1] < x[2]}
           T == {n \in Nat : n + low \in S}
<1>1. IsWellFoundedOn(R, Nat)
  BY NatLessThanWellFounded DEF OpToRel
<1> HIDE DEF R
<1>2. T \subseteq Nat /\ \A a \in S : a - low \in T
  <2> SUFFICES ASSUME NEW a \in S PROVE a - low \in Nat /\ (a - low) + low = a
    OBVIOUS
  <2>1. QED
    OBVIOUS
<1>3. PICK x \in T : \A y \in T : <<y, x>> \notin R
  <2>1. T # {}
    BY <1>2
  <2> HIDE DEF T
  <2>2. QED
    BY <1>1, <1>2, <2>1, WFMin
<1>4. \A y \in T : x <= y
  <2> SUFFICES ASSUME NEW y \in T PROVE ~(y < x)
    BY <1>2
  <2>1. <<y, x>> \in Nat \X Nat /\ <<y, x>>[1] = y /\ <<y, x>>[2] = x
    BY <1>2
  <2>2. QED
    BY <1>3, <2>1 DEF R
<1>5. x + low \in S /\ \A a \in S : x + low <= a
  <2>1. x + low \in S /\ x \in Nat
    BY <1>3
  <2>2. ASSUME NEW a \in S PROVE x + low <= a
    <3>1. x <= a - low
      BY <1>2, <1>4
    <3>2. QED
      BY <2>1, <3>1
  <2>3. QED
    BY <2>1, <2>2
<1> HIDE DEF T
<1>6. QED
  BY <1>5 DEF MinOf

LEMMA GreatestOf ==
  ASSUME NEW S \in SUBSET Int, S # {}, NEW high \in Int, \A a \in S : a <= high
  PROVE  MaxOf(S) \in S /\ \A a \in S : a <= MaxOf(S)
<1> DEFINE T == {n \in Int : -n \in S}
<1>1. T \subseteq Int /\ T # {} /\ \A a \in T : -high <= a
  <2>1. \A a \in S : -a \in T
    OBVIOUS
  <2>2. ASSUME NEW a \in T PROVE -high <= a
    <3>1. -a \in S /\ -a <= high /\ a \in Int
      OBVIOUS
    <3>2. QED
      BY <3>1
  <2>3. QED
    BY <2>1, <2>2
<1>2. MinOf(T) \in T /\ \A a \in T : MinOf(T) <= a
  <2> HIDE DEF T
  <2>1. -high \in Int
    OBVIOUS
  <2>2. QED
    BY <1>1, <2>1, LeastOf
<1>3. PICK x \in Int : -x \in S /\ \A a \in T : x <= a
  BY <1>2
<1>4. \A a \in S : a <= -x
  <2> SUFFICES ASSUME NEW a \in S PROVE a <= -x
    OBVIOUS
  <2>1. x <= -a
    BY <1>3
  <2>2. QED
    BY <1>3, <2>1
<1> HIDE DEF T
<1>5. QED
  BY <1>3, <1>4 DEF MaxOf

\* The bounds of what some have.
LEMMA BoundsOf ==
  ASSUME NEW D, NEW f \in [D -> Int], D # {}, NEW low \in Int, NEW high \in Int,
         \A s \in D : low <= f[s] /\ f[s] <= high
  PROVE  /\ MinOf({f[s] : s \in D}) \in Int /\ \A s \in D : MinOf({f[t] : t \in D}) <= f[s]
         /\ MaxOf({f[s] : s \in D}) \in Int /\ \A s \in D : f[s] <= MaxOf({f[t] : t \in D})
         /\ \E s \in D : f[s] = MinOf({f[t] : t \in D})
         /\ \E s \in D : f[s] = MaxOf({f[t] : t \in D})
<1> DEFINE S == {f[s] : s \in D}
<1>1. S \in SUBSET Int /\ S # {} /\ (\A a \in S : low <= a /\ a <= high) /\ \A s \in D : f[s] \in S
  OBVIOUS
<1>2. \A a \in S : \E s \in D : f[s] = a
  OBVIOUS
<1> HIDE DEF S
<1>3. MinOf(S) \in S /\ \A a \in S : MinOf(S) <= a
  BY <1>1, LeastOf
<1>4. MaxOf(S) \in S /\ \A a \in S : a <= MaxOf(S)
  BY <1>1, GreatestOf
<1>5. QED
  BY <1>1, <1>2, <1>3, <1>4 DEF S

LEMMA GreatestIn ==
  ASSUME NEW D, NEW f \in [D -> Int], D # {}, NEW low \in Int, NEW high \in Int,
         \A s \in D : low <= f[s] /\ f[s] <= high
  PROVE  /\ MaxOf({f[s] : s \in D}) \in Int /\ \A s \in D : f[s] <= MaxOf({f[t] : t \in D})
         /\ \E s \in D : f[s] = MaxOf({f[r] : r \in D})
BY BoundsOf

LEMMA LeastIn ==
  ASSUME NEW D, NEW f \in [D -> Int], D # {}, NEW low \in Int, NEW high \in Int,
         \A s \in D : low <= f[s] /\ f[s] <= high
  PROVE  /\ MinOf({f[s] : s \in D}) \in Int /\ \A s \in D : MinOf({f[t] : t \in D}) <= f[s]
         /\ \E s \in D : f[s] = MinOf({f[r] : r \in D})
BY BoundsOf

-----------------------------------------------------------------------------
(* Rounding, and phases *)

\* Rounding adds at most half a millisecond, and a whole millisecond moves through it.
LEMMA RoundUp ==
  ASSUME NEW a \in Int
  PROVE  Round(a) \in Int /\ a <= Round(a) /\ Round(a) <= a + 1 /\ \E k \in Int : Round(a) = 2 * k
BY DEF Round

LEMMA RoundShift ==
  ASSUME NEW k \in Int, NEW d \in Int
  PROVE  Round(2 * k + d) = 2 * k + Round(d)
BY DEF Round

LEMMA SmallPhase ==
  ASSUME NEW a \in Nat, Pattern \in Nat, a < Pattern
  PROVE  a % Pattern = a
OBVIOUS

LEMMA SmallWrap ==
  ASSUME NEW v \in Int, Pattern \in Nat, 2 * v < Pattern, -Pattern < 2 * v
  PROVE  WrapSym(v) = v
<1> DEFINE half == Pattern \div 2
<1>1. half \in Int /\ 2 * half <= Pattern /\ Pattern <= 2 * half + 1
  OBVIOUS
<1> HIDE DEF half
<1>2. CASE v + half < Pattern /\ 0 <= v + half
  <2>1. (v + half) % Pattern = v + half
    BY <1>1, <1>2, SmallPhase
  <2>2. QED
    BY <1>1, <2>1 DEF WrapSym, half
<1>3. v + half < Pattern /\ 0 <= v + half
  BY <1>1
<1>4. QED
  BY <1>2, <1>3

-----------------------------------------------------------------------------
(* What is heard *)

\* The lines are whole milliseconds.
LinesOK ==
  /\ Aligned \subseteq Speakers
  /\ \A s \in Aligned : provisional[s] \in 0..MaxLine /\ \E k \in Nat : provisional[s] = 2 * k

\* The arrivals are what is heard after the first of them.
LEMMA ArrivalsHeard ==
  ASSUME Bounds, LinesOK, NEW at \in [Speakers -> Paths], NEW S \in SUBSET Speakers, S # {}
  PROVE  \E first, far \in Nat :
           /\ Arrivals(at, S) \in [S -> Int]
           /\ \A s \in S : /\ Arrivals(at, S)[s] = at[s] + LineOf(s) - first
                           /\ 0 <= Arrivals(at, S)[s] /\ Arrivals(at, S)[s] <= far
<1>1. PICK longest \in Nat : Paths \subseteq 0..longest /\ 2 * (longest + MaxLine) < Pattern
  BY DEF Bounds
<1> DEFINE far == longest + MaxLine
           heard == [s \in S |-> at[s] + LineOf(s)]
           phase == [s \in S |-> (at[s] + LineOf(s)) % Pattern]
           anchor == phase[MinOf(S)]
           wrapped == [s \in S |-> WrapSym(phase[s] - anchor)]
           least == MinOf({wrapped[s] : s \in S})
<1>2. Pattern \in Nat /\ MaxLine \in Nat /\ far \in Nat /\ Speakers \subseteq Nat
  BY DEF Bounds
<1>3. \A s \in S : heard[s] \in Nat /\ heard[s] <= far
  <2> SUFFICES ASSUME NEW s \in S PROVE heard[s] \in Nat /\ heard[s] <= far
    OBVIOUS
  <2>1. at[s] \in 0..longest
    BY <1>1
  <2>2. LineOf(s) \in 0..MaxLine
    BY <1>2 DEF LinesOK, LineOf
  <2>3. QED
    BY <1>2, <2>1, <2>2
<1> HIDE DEF far
<1>4. 2 * far < Pattern
  BY <1>1 DEF far
<1>5. \A s \in S : phase[s] = heard[s]
  <2> SUFFICES ASSUME NEW s \in S PROVE phase[s] = heard[s]
    OBVIOUS
  <2>1. heard[s] \in Nat /\ heard[s] < Pattern
    BY <1>2, <1>3, <1>4
  <2>2. QED
    BY <1>2, <2>1, SmallPhase
<1>6. MinOf(S) \in S
  <2>1. S \in SUBSET Int /\ \A s \in S : 0 <= s
    BY <1>2
  <2>2. QED
    BY <2>1, LeastOf
<1>7. anchor \in Nat /\ anchor <= far
  BY <1>3, <1>5, <1>6
<1> HIDE DEF heard, phase, anchor
<1>8. \A s \in S : wrapped[s] = heard[s] - anchor
  <2> SUFFICES ASSUME NEW s \in S PROVE wrapped[s] = heard[s] - anchor
    OBVIOUS
  <2>1. heard[s] - anchor \in Int /\ 2 * (heard[s] - anchor) < Pattern /\ -Pattern < 2 * (heard[s] - anchor)
    BY <1>2, <1>3, <1>4, <1>7
  <2>2. QED
    BY <1>2, <1>5, <2>1, SmallWrap
<1>9. wrapped \in [S -> Int] /\ \A s \in S : -far <= wrapped[s] /\ wrapped[s] <= far
  <2>1. \A s \in S : heard[s] - anchor \in Int /\ -far <= heard[s] - anchor /\ heard[s] - anchor <= far
    BY <1>2, <1>3, <1>7
  <2>2. QED
    BY <1>8, <2>1
<1>10. /\ least \in Int /\ \A s \in S : least <= wrapped[s]
       /\ \E s \in S : wrapped[s] = least
  <2>1. -far \in Int /\ far \in Int
    BY <1>2
  <2> HIDE DEF wrapped
  <2>2. QED
    BY <1>9, <2>1, BoundsOf
<1>11. Arrivals(at, S) = [s \in S |-> wrapped[s] - least]
  BY DEF Arrivals, Linearise, phase, anchor
<1> HIDE DEF wrapped, least
<1> DEFINE first == least + anchor
<1>12. first \in Nat
  <2>1. PICK s \in S : wrapped[s] = least
    BY <1>10
  <2>2. first = heard[s]
    BY <1>3, <1>7, <1>8, <2>1
  <2>3. QED
    BY <1>3, <2>2
<1>first. first = least + anchor
  OBVIOUS
<1> HIDE DEF first
<1>13. ASSUME NEW s \in S
       PROVE  Arrivals(at, S)[s] = at[s] + LineOf(s) - first /\ 0 <= Arrivals(at, S)[s] /\ Arrivals(at, S)[s] <= far
  <2>1. Arrivals(at, S)[s] = wrapped[s] - least /\ wrapped[s] = heard[s] - anchor
    BY <1>8, <1>11
  <2>2. heard[s] \in Nat /\ heard[s] <= far /\ anchor \in Nat /\ least \in Int /\ least <= wrapped[s]
    BY <1>3, <1>7, <1>10
  <2>3. Arrivals(at, S)[s] = heard[s] - first /\ 0 <= Arrivals(at, S)[s]
    BY <1>first, <2>1, <2>2
  <2>4. Arrivals(at, S)[s] <= far
    BY <1>2, <1>12, <2>2, <2>3
  <2>5. heard[s] = at[s] + LineOf(s)
    BY DEF heard
  <2>6. at[s] \in Int /\ LineOf(s) \in Int
    <3>1. at[s] \in 0..longest
      BY <1>1
    <3>2. LineOf(s) \in 0..MaxLine
      BY <1>2 DEF LinesOK, LineOf
    <3>3. QED
      BY <1>2, <3>1, <3>2
  <2>7. heard[s] - first = at[s] + LineOf(s) - first
    BY <1>12, <2>2, <2>5, <2>6
  <2>8. QED
    BY <2>3, <2>4, <2>7
<1>14. Arrivals(at, S) \in [S -> Int]
  BY <1>9, <1>10, <1>11
<1>15. QED
  BY <1>2, <1>12, <1>13, <1>14

-----------------------------------------------------------------------------
(* A position of the chain *)

Joint == [members : SUBSET Speakers, overlaps : SUBSET Speakers, disagreement : Int]

Readable == [Speakers -> Paths]

\* Of up to two overlaps, each is the first or the last.
LEMMA FewOverlaps ==
  ASSUME NEW S \in SUBSET Speakers, Bounds, S # {}, IsFiniteSet(S), Cardinality(S) <= 2
  PROVE  MinOf(S) \in S /\ MaxOf(S) \in S /\ \A s \in S : s = MinOf(S) \/ s = MaxOf(S)
<1>1. PICK n \in Nat : Speakers = 1..n
  BY DEF Bounds
<1>2. S \in SUBSET Int /\ \A s \in S : 0 <= s /\ s <= n
  BY <1>1
<1>0. 0 \in Int /\ n \in Int
  OBVIOUS
<1>least. MinOf(S) \in S /\ \A s \in S : MinOf(S) <= s
  BY <1>0, <1>2, LeastOf
<1>most. MaxOf(S) \in S /\ \A s \in S : s <= MaxOf(S)
  BY <1>0, <1>2, GreatestOf
<1>3. MinOf(S) \in S /\ MaxOf(S) \in S
  BY <1>least, <1>most
<1>4. \A s \in S : MinOf(S) <= s /\ s <= MaxOf(S)
  BY <1>least, <1>most
<1>5. ASSUME NEW s \in S, s # MinOf(S), s # MaxOf(S) PROVE FALSE
  <2> DEFINE a == MinOf(S)
             b == MaxOf(S)
  <2>1. a # b
    <3>1. a <= s /\ s <= b /\ a \in Int /\ b \in Int /\ s \in Int /\ s # a
      BY <1>2, <1>3, <1>4, <1>5
    <3> HIDE DEF a, b
    <3>2. QED
      BY <3>1
  <2> HIDE DEF a, b
  <2>2. IsFiniteSet({a}) /\ Cardinality({a}) = 1
    BY FS_Singleton
  <2>3. IsFiniteSet({a} \union {b}) /\ Cardinality({a} \union {b}) = 2
    BY <2>1, <2>2, FS_AddElement
  <2>4. IsFiniteSet({a} \union {b} \union {s}) /\ Cardinality({a} \union {b} \union {s}) = 3
    <3>1. s \notin {a} \union {b}
      BY <1>5 DEF a, b
    <3>2. /\ IsFiniteSet(({a} \union {b}) \union {s})
          /\ Cardinality(({a} \union {b}) \union {s}) = Cardinality({a} \union {b}) + 1
      BY <2>3, <3>1, FS_AddElement
    <3>3. QED
      BY <2>3, <3>2
  <2>5. ({a} \union {b} \union {s}) \in SUBSET S
    BY <1>3 DEF a, b
  <2>6. Cardinality({a} \union {b} \union {s}) <= Cardinality(S)
    BY <2>5, FS_Subset
  <2>7. Cardinality(S) \in Nat
    BY FS_CardinalityType
  <2>8. QED
    BY <2>4, <2>6, <2>7
<1>6. QED
  BY <1>3, <1>5

\* The overlaps are, twice over, within their disagreement of the anchor.
LEMMA AnchorClose ==
  ASSUME Bounds, NEW D \in SUBSET Speakers, NEW arrival \in [D -> Int], NEW overlaps \in SUBSET D, overlaps # {},
         IsFiniteSet(overlaps), Cardinality(overlaps) <= 2, NEW far \in Nat, \A s \in D : 0 <= arrival[s] /\ arrival[s] <= far
  PROVE  /\ Anchor(arrival, overlaps) \in Int /\ Disagreement(arrival, overlaps) \in Int
         /\ Anchor(arrival, overlaps) <= far
         /\ \A o \in overlaps : LET off == 2 * arrival[o] - 2 * Anchor(arrival, overlaps)
                                IN  /\ off <= Disagreement(arrival, overlaps) + 1
                                    /\ -off <= Disagreement(arrival, overlaps)
<1> DEFINE a == MinOf(overlaps)
           b == MaxOf(overlaps)
           gaps == {Abs(arrival[x] - arrival[y]) : x, y \in overlaps}
<1>1. a \in overlaps /\ b \in overlaps /\ \A s \in overlaps : s = a \/ s = b
  BY FewOverlaps
<1> HIDE DEF a, b
<1>2. arrival[a] \in Int /\ arrival[b] \in Int /\ 0 <= arrival[a] /\ arrival[a] <= far /\ 0 <= arrival[b] /\ arrival[b] <= far
  BY <1>1
<1>3. \A x, y \in overlaps : Abs(arrival[x] - arrival[y]) \in Int /\ Abs(arrival[x] - arrival[y]) <= far
  <2> SUFFICES ASSUME NEW x \in overlaps, NEW y \in overlaps
               PROVE  Abs(arrival[x] - arrival[y]) \in Int /\ Abs(arrival[x] - arrival[y]) <= far
    OBVIOUS
  <2>1. arrival[x] \in Int /\ arrival[y] \in Int /\ 0 <= arrival[x] /\ arrival[x] <= far /\ 0 <= arrival[y] /\ arrival[y] <= far
    OBVIOUS
  <2>2. QED
    BY <2>1 DEF Abs
<1>4. /\ gaps \in SUBSET Int /\ gaps # {} /\ (\A g \in gaps : g <= far)
      /\ Abs(arrival[a] - arrival[b]) \in gaps
  <2>1. Abs(arrival[a] - arrival[b]) \in gaps
    BY <1>1
  <2>2. \A g \in gaps : \E x, y \in overlaps : g = Abs(arrival[x] - arrival[y])
    OBVIOUS
  <2> HIDE DEF gaps
  <2>3. \A g \in gaps : g \in Int /\ g <= far
    BY <1>3, <2>2
  <2>4. QED
    BY <2>1, <2>3
<1> DEFINE most == MaxOf(gaps)
<1>5. most \in Int /\ Abs(arrival[a] - arrival[b]) <= most
  <2> HIDE DEF gaps
  <2>1. far \in Int
    OBVIOUS
  <2>2. MaxOf(gaps) \in gaps /\ \A g \in gaps : g <= MaxOf(gaps)
    BY <1>4, <2>1, GreatestOf
  <2>3. QED
    BY <1>4, <2>2
<1>6. Disagreement(arrival, overlaps) = most
  BY DEF Disagreement
<1> HIDE DEF most
<1>7. Anchor(arrival, overlaps) = (arrival[a] + arrival[b]) \div 2
  BY DEF Anchor, a, b
<1> DEFINE mid == (arrival[a] + arrival[b]) \div 2
<1>8. mid \in Int /\ mid <= far /\ 2 * mid <= arrival[a] + arrival[b] /\ arrival[a] + arrival[b] <= 2 * mid + 1
  BY <1>2
<1> HIDE DEF mid
<1>9. arrival[a] - arrival[b] <= most /\ arrival[b] - arrival[a] <= most
  BY <1>2, <1>5 DEF Abs
<1>10. ASSUME NEW o \in overlaps
       PROVE  2 * arrival[o] - 2 * mid <= most + 1 /\ -(2 * arrival[o] - 2 * mid) <= most
  BY <1>1, <1>2, <1>5, <1>8, <1>9
<1>11. QED
  BY <1>5, <1>6, <1>7, <1>8, <1>10 DEF mid

StepOf(members, overlaps, at, arrival) ==
  /\ members # {} /\ overlaps \subseteq Aligned /\ members \subseteq Speakers /\ members \cap Aligned = {}
  /\ (Aligned = {} <=> overlaps = {}) /\ Cardinality(overlaps) <= 2
  /\ at \in Readable /\ arrival = Arrivals(at, members \union overlaps)
  /\ provisional' = StepLines(arrival, members, overlaps)
  /\ \A s \in DOMAIN provisional' : provisional'[s] <= MaxLine

\* What a position does to the lines: those aligned before move by the same
\* amount, and at the position all are heard at the same time, the overlaps as
\* far off as they were from each other.
Together(members, overlaps, at, spread) ==
  \E time, move \in Int :
    /\ \A s \in Aligned : provisional'[s] = provisional[s] + move
    /\ \A s \in members : time <= at[s] + provisional'[s] /\ at[s] + provisional'[s] <= time + 1
    /\ \A o \in overlaps : /\ 2 * (at[o] + provisional'[o]) <= 2 * time + spread + 3
                           /\ 2 * time - spread <= 2 * (at[o] + provisional'[o])

LEMMA StepAligns ==
  ASSUME Bounds, LinesOK, NEW members, NEW overlaps, NEW at, NEW arrival,
         StepOf(members, overlaps, at, arrival)
  PROVE  /\ DOMAIN provisional' = Aligned \union members /\ LinesOK'
         /\ \E spread \in Int : spread = (IF overlaps = {} THEN 0 ELSE Disagreement(arrival, overlaps))
                             /\ Together(members, overlaps, at, spread)
<1> DEFINE D == members \union overlaps
           T == Target(arrival, members, overlaps)
           d == Delta(arrival, members, overlaps)
<1>1. /\ members \subseteq Speakers /\ overlaps \subseteq Aligned /\ Aligned \subseteq Speakers /\ members # {}
      /\ members \cap Aligned = {} /\ at \in [Speakers -> Paths] /\ arrival = Arrivals(at, D)
  BY DEF StepOf, LinesOK, Readable
<1>2. PICK first \in Nat, far \in Nat :
        /\ arrival \in [D -> Int]
        /\ \A s \in D : arrival[s] = at[s] + LineOf(s) - first /\ 0 <= arrival[s] /\ arrival[s] <= far
  <2>1. D \in SUBSET Speakers /\ D # {}
    BY <1>1
  <2> HIDE DEF D
  <2>2. QED
    BY <1>1, <2>1, ArrivalsHeard
<1>3. \A s \in Speakers : at[s] \in Nat
  <2>1. PICK longest \in Nat : Paths \subseteq 0..longest
    BY DEF Bounds
  <2>2. ASSUME NEW s \in Speakers PROVE at[s] \in Nat
    <3>1. at[s] \in Paths
      BY <1>1
    <3>2. \A p \in Paths : p \in Nat
      BY <2>1
    <3>3. QED
      BY <3>1, <3>2
  <2>3. QED
    BY <2>2
<1>4. \A s \in D : arrival[s] \in Int /\ 0 <= arrival[s] /\ arrival[s] <= far
  BY <1>2
<1>5. /\ Latest(arrival, members) \in Int /\ Latest(arrival, members) <= far
      /\ \A s \in members : arrival[s] <= Latest(arrival, members)
  <2> DEFINE S == {arrival[s] : s \in members}
  <2>1. S \in SUBSET Int /\ S # {} /\ (\A a \in S : a <= far) /\ \A s \in members : arrival[s] \in S
    BY <1>1, <1>4
  <2> HIDE DEF S
  <2>2. far \in Int
    OBVIOUS
  <2>3. MaxOf(S) \in S /\ \A a \in S : a <= MaxOf(S)
    BY <2>1, <2>2, GreatestOf
  <2>4. QED
    BY <2>1, <2>3 DEF S, Latest
<1>6. ASSUME overlaps # {}
      PROVE  /\ Anchor(arrival, overlaps) \in Int /\ Disagreement(arrival, overlaps) \in Int
             /\ Anchor(arrival, overlaps) <= far
             /\ \A o \in overlaps : LET off == 2 * arrival[o] - 2 * Anchor(arrival, overlaps)
                                    IN  off <= Disagreement(arrival, overlaps) + 1 /\ -off <= Disagreement(arrival, overlaps)
  <2>1. D \in SUBSET Speakers /\ overlaps \in SUBSET D /\ overlaps \in SUBSET Speakers
    BY <1>1
  <2>2. IsFiniteSet(overlaps) /\ Cardinality(overlaps) <= 2
    <3>1. PICK n \in Nat : Speakers = 1..n
      BY DEF Bounds
    <3>2. IsFiniteSet(Speakers)
      BY <3>1, FS_Interval
    <3>3. QED
      BY <2>1, <3>2, FS_Subset DEF StepOf
  <2> HIDE DEF D
  <2>3. QED
    BY <1>2, <1>6, <2>1, <2>2, AnchorClose
<1>7. T \in Int /\ d \in Int /\ 0 <= d /\ (\A s \in members : arrival[s] <= T)
      /\ (overlaps # {} => d = T - Anchor(arrival, overlaps))
  <2>1. CASE overlaps = {}
    BY <1>5, <2>1 DEF Target, Delta
  <2>2. CASE overlaps # {}
    <3> DEFINE S == {Anchor(arrival, overlaps), Latest(arrival, members)}
    <3>1. S \in SUBSET Int /\ S # {} /\ (\A a \in S : a <= far) /\ far \in Int
      BY <1>5, <1>6, <2>2
    <3>2. MaxOf(S) \in S /\ \A a \in S : a <= MaxOf(S)
      <4> HIDE DEF S
      <4>1. QED
        BY <3>1, GreatestOf
    <3>3. T = MaxOf(S) /\ d = T - Anchor(arrival, overlaps)
      BY <2>2 DEF Target, Delta
    <3>4. T \in Int /\ Anchor(arrival, overlaps) <= T /\ Latest(arrival, members) <= T
      BY <3>1, <3>2, <3>3
    <3> HIDE DEF T, d
    <3>5. d \in Int /\ 0 <= d
      BY <1>6, <2>2, <3>3, <3>4
    <3>6. \A s \in members : arrival[s] <= T
      BY <1>4, <1>5, <3>4
    <3>7. QED
      BY <3>3, <3>4, <3>5, <3>6
  <2>3. QED
    BY <2>1, <2>2
<1>8. /\ DOMAIN provisional' = Aligned \union members
      /\ \A s \in members : provisional'[s] = Round(T - arrival[s])
      /\ \A s \in Aligned : provisional'[s] = Round(provisional[s] + d)
      /\ \A s \in Aligned \union members : provisional'[s] <= MaxLine
  BY <1>1 DEF StepOf, StepLines
<1> HIDE DEF T, d
<1>9. \A s \in Aligned : provisional[s] \in Nat /\ \E k \in Nat : provisional[s] = 2 * k
  BY DEF LinesOK, Bounds
<1>10. ASSUME NEW s \in Aligned PROVE provisional'[s] = provisional[s] + Round(d) /\ Round(d) \in Int /\ d <= Round(d) /\ Round(d) <= d + 1
  <2>1. PICK k \in Nat : provisional[s] = 2 * k
    BY <1>9
  <2>2. Round(2 * k + d) = 2 * k + Round(d)
    BY <1>7, RoundShift
  <2>3. QED
    BY <1>7, <1>8, <2>1, <2>2, RoundUp
<1>11. ASSUME NEW s \in members
       PROVE  /\ provisional'[s] \in Int /\ T - arrival[s] <= provisional'[s] /\ provisional'[s] <= T - arrival[s] + 1
              /\ 0 <= T - arrival[s] /\ \E k \in Int : provisional'[s] = 2 * k
  <2>1. T - arrival[s] \in Int /\ 0 <= T - arrival[s]
    BY <1>4, <1>7
  <2>2. QED
    BY <1>8, <2>1, RoundUp
<1>12. LinesOK'
  <2>1. MaxLine \in Nat
    BY DEF Bounds
  <2>2. ASSUME NEW s \in Aligned PROVE provisional'[s] \in 0..MaxLine /\ \E k \in Nat : provisional'[s] = 2 * k
    <3>1. provisional'[s] \in Nat
      BY <1>7, <1>9, <1>10
    <3>2. provisional[s] + d \in Int
      BY <1>7, <1>9
    <3>3. PICK k \in Int : provisional'[s] = 2 * k
      BY <1>8, <3>2, RoundUp
    <3>4. k \in Nat
      BY <3>1, <3>3
    <3>5. QED
      BY <1>8, <2>1, <3>1, <3>3, <3>4
  <2>3. ASSUME NEW s \in members PROVE provisional'[s] \in 0..MaxLine /\ \E k \in Nat : provisional'[s] = 2 * k
    <3>1. PICK k \in Int : provisional'[s] = 2 * k
      BY <1>11
    <3>2. provisional'[s] \in Nat
      <4>1. T - arrival[s] \in Int
        BY <1>4, <1>7
      <4>2. QED
        BY <1>11, <4>1
    <3>3. k \in Nat
      BY <3>1, <3>2
    <3>4. QED
      BY <1>8, <2>1, <3>1, <3>2, <3>3
  <2>4. QED
    BY <1>1, <1>8, <2>2, <2>3 DEF LinesOK, Aligned
<1> DEFINE time == T + first
           move == Round(d)
           spread == IF overlaps = {} THEN 0 ELSE Disagreement(arrival, overlaps)
<1>13. time \in Int /\ move \in Int /\ spread \in Int
  BY <1>6, <1>7, RoundUp
<1>14. \A s \in Aligned : provisional'[s] = provisional[s] + move
  BY <1>10
<1>15. ASSUME NEW s \in members PROVE time <= at[s] + provisional'[s] /\ at[s] + provisional'[s] <= time + 1
  <2>1. LineOf(s) = 0
    BY <1>1 DEF LineOf
  <2>2. arrival[s] = at[s] - first /\ at[s] \in Nat
    <3>1. at[s] \in Nat /\ arrival[s] = at[s] + LineOf(s) - first
      BY <1>1, <1>2, <1>3
    <3>2. QED
      BY <2>1, <3>1
  <2>3. QED
    BY <1>7, <1>11, <2>2
<1>16. ASSUME NEW o \in overlaps
       PROVE  2 * (at[o] + provisional'[o]) <= 2 * time + spread + 3 /\ 2 * time - spread <= 2 * (at[o] + provisional'[o])
  <2>1. o \in Aligned /\ LineOf(o) = provisional[o] /\ provisional[o] \in Nat /\ at[o] \in Nat
    BY <1>1, <1>3, <1>9 DEF LineOf
  <2>2. arrival[o] = at[o] + provisional[o] - first /\ arrival[o] \in Int
    BY <1>2, <1>4, <2>1
  <2> DEFINE anchor == Anchor(arrival, overlaps)
             g == Disagreement(arrival, overlaps)
  <2>3. anchor \in Int /\ g \in Int /\ 2 * arrival[o] - 2 * anchor <= g + 1 /\ -(2 * arrival[o] - 2 * anchor) <= g
    BY <1>6
  <2>4. spread = g /\ d = T - anchor
    BY <1>7
  <2> HIDE DEF anchor, g
  <2>5. provisional'[o] = provisional[o] + move /\ d <= move /\ move <= d + 1
    BY <1>10, <2>1
  <2> HIDE DEF spread, move
  <2>6. at[o] + provisional'[o] = arrival[o] + first + move /\ T \in Int
    BY <1>7, <1>13, <2>1, <2>2, <2>5
  <2>7. 2 * (at[o] + provisional'[o]) = 2 * arrival[o] + 2 * first + 2 * move
    BY <1>13, <2>2, <2>6
  <2>8. 2 * (arrival[o] + first + move) <= 2 * time + g + 3 /\ 2 * time - g <= 2 * (arrival[o] + first + move)
    BY <1>13, <2>2, <2>3, <2>4, <2>5, <2>6
  <2>9. QED
    BY <2>4, <2>6, <2>8
<1> HIDE DEF time, move, spread
<1>17. Together(members, overlaps, at, spread)
  BY <1>13, <1>14, <1>15, <1>16 DEF Together
<1>18. QED
  BY <1>8, <1>12, <1>13, <1>17 DEF spread

-----------------------------------------------------------------------------
(* The knobs *)

\* A proposal is of knobs that reach the target, or a refusal; what each knob
\* moves its speaker by is the way to the target, give or take the rounding.
Least(q) ==
  LET reachable(t) == \A s \in Speakers : q.ivs[s].lo <= t /\ t <= q.ivs[s].hi
      targets      == LET any == q.ivs[MinOf(Speakers)] IN any.lo .. any.hi
  IN  /\ q.refused => \A t \in targets : ~reachable(t)
      /\ q.on =>
           /\ reachable(q.target)
           /\ \A t \in targets : reachable(t) => LargestKnob(q.ivs, q.target) <= LargestKnob(q.ivs, t)

Moves(q, arrival) ==
  q.on => \E target \in Int : \A s \in Speakers :
    q.moved[s] \in Int /\ target - arrival[s] - 1 <= q.moved[s] /\ q.moved[s] <= target - arrival[s] + 1

\* The bounds of what the intervals are made of.
Bounded(ivs, low, high) ==
  \A s \in Speakers : \A v \in {ivs[s].base, ivs[s].lo, ivs[s].hi} : v \in Int /\ low <= v /\ v <= high

Intervals(arrival, current, kind) == [s \in Speakers |-> Interval(arrival[s], current[s], kind[s])]

LEMMA IntervalsBounded ==
  ASSUME Bounds, NEW arrival \in [Speakers -> Int], NEW far \in Nat,
         \A s \in Speakers : 0 <= arrival[s] /\ arrival[s] <= far,
         NEW current \in [Speakers -> Currents], NEW kind \in [Speakers -> Kinds]
  PROVE  /\ \E low \in Int : \E high \in Int : Bounded(Intervals(arrival, current, kind), low, high)
         /\ \A s \in Speakers : current[s] \in Int
         /\ \A s \in Speakers : Intervals(arrival, current, kind)[s].kind = kind[s]
         /\ \A s \in Speakers : Intervals(arrival, current, kind)[s].base = Base(arrival[s], current[s], kind[s])
<1> DEFINE ivs == Intervals(arrival, current, kind)
<1>1. PICK most \in Nat : Currents \subseteq 0..most
  BY DEF Bounds
<1>2. MaxKnob \in Nat /\ MinJitter \in Nat
  BY DEF Bounds
<1> DEFINE low == -(most + MaxKnob + MinJitter)
           high == far + most + MaxKnob + MinJitter
<1>3. low \in Int /\ high \in Int
  BY <1>2
<1>4. ASSUME NEW s \in Speakers
      PROVE  /\ \A v \in {ivs[s].base, ivs[s].lo, ivs[s].hi} : v \in Int /\ low <= v /\ v <= high
             /\ ivs[s].kind = kind[s] /\ ivs[s].base = Base(arrival[s], current[s], kind[s]) /\ current[s] \in Int
  <2>1. current[s] \in 0..most
    BY <1>1
  <2>2. arrival[s] \in Int /\ 0 <= arrival[s] /\ arrival[s] <= far
    OBVIOUS
  <2> DEFINE b == Base(arrival[s], current[s], kind[s])
             m == KnobMin(kind[s])
  <2>3. b \in Int /\ -most <= b /\ b <= far + most
    BY <2>1, <2>2 DEF Base
  <2>4. m \in Int /\ 0 <= m /\ m <= MinJitter
    BY <1>2 DEF KnobMin
  <2>5. /\ ivs[s].base = b /\ ivs[s].kind = kind[s]
        /\ ivs[s].lo = (IF Advances(kind[s]) THEN b - MaxKnob ELSE b + m)
        /\ ivs[s].hi = (IF Advances(kind[s]) THEN b - m ELSE b + MaxKnob)
    BY DEF Intervals, Interval
  <2> HIDE DEF b, m
  <2>6. \A x \in {MaxKnob, m} : /\ b - x \in Int /\ low <= b - x /\ b - x <= high
                                /\ b + x \in Int /\ low <= b + x /\ b + x <= high
    BY <1>2, <2>1, <2>2, <2>3, <2>4
  <2>7. b \in Int /\ low <= b /\ b <= high
    BY <1>2, <2>3
  <2> HIDE DEF low, high
  <2>8. QED
    BY <2>1, <2>5, <2>6, <2>7 DEF b
<1> HIDE DEF low, high
<1>5. Bounded(ivs, low, high)
  BY <1>4 DEF Bounded
<1>6. QED
  BY <1>3, <1>4, <1>5

\* The knobs that a target takes, and the greatest of them.
LEMMA KnobsOf ==
  ASSUME Speakers # {}, NEW ivs, DOMAIN ivs = Speakers, NEW low \in Int, NEW high \in Int, Bounded(ivs, low, high),
         NEW t \in Int
  PROVE  /\ LargestKnob(ivs, t) \in Int
         /\ \A s \in Speakers : KnobFor(ivs[s], t) \in Int /\ KnobFor(ivs[s], t) <= LargestKnob(ivs, t)
         /\ \E s \in Speakers : LargestKnob(ivs, t) = KnobFor(ivs[s], t)
<1> DEFINE f == [s \in Speakers |-> KnobFor(ivs[s], t)]
           less == IF low - t <= t - high THEN low - t ELSE t - high
           more == IF high - t <= t - low THEN t - low ELSE high - t
<1>1. less \in Int /\ more \in Int
  OBVIOUS
<1>2. ASSUME NEW s \in Speakers PROVE f[s] \in Int /\ less <= f[s] /\ f[s] <= more
  <2>1. ivs[s].base \in Int /\ low <= ivs[s].base /\ ivs[s].base <= high
    BY DEF Bounded
  <2>2. f[s] = ivs[s].base - t \/ f[s] = t - ivs[s].base
    BY DEF KnobFor
  <2> HIDE DEF f
  <2>3. QED
    BY <2>1, <2>2
<1> HIDE DEF less, more
<1>3. f \in [Speakers -> Int]
  BY <1>2
<1>4. {KnobFor(ivs[s], t) : s \in DOMAIN ivs} = {f[s] : s \in Speakers} /\ \A s \in Speakers : f[s] = KnobFor(ivs[s], t)
  OBVIOUS
<1> HIDE DEF f
<1>within. \A s \in Speakers : less <= f[s] /\ f[s] <= more
  BY <1>2
<1>5. /\ MaxOf({f[s] : s \in Speakers}) \in Int /\ \A s \in Speakers : f[s] <= MaxOf({f[u] : u \in Speakers})
      /\ \E s \in Speakers : f[s] = MaxOf({f[r] : r \in Speakers})
  BY <1>1, <1>3, <1>within, GreatestIn
<1>6. QED
  BY <1>2, <1>4, <1>5 DEF LargestKnob

\* The ends of what every knob can reach.
LEMMA EndsOf ==
  ASSUME Speakers # {}, NEW ivs, DOMAIN ivs = Speakers, NEW low \in Int, NEW high \in Int, Bounded(ivs, low, high)
  PROVE  /\ LatestLo(ivs) \in Int /\ EarliestHi(ivs) \in Int
         /\ \A s \in Speakers : ivs[s].lo <= LatestLo(ivs) /\ EarliestHi(ivs) <= ivs[s].hi
         /\ (\E s \in Speakers : ivs[s].lo = LatestLo(ivs)) /\ \E s \in Speakers : ivs[s].hi = EarliestHi(ivs)
<1> DEFINE lo == [s \in Speakers |-> ivs[s].lo]
           hi == [s \in Speakers |-> ivs[s].hi]
<1>1. /\ \A s \in Speakers : lo[s] \in Int /\ low <= lo[s] /\ lo[s] <= high
      /\ \A s \in Speakers : hi[s] \in Int /\ low <= hi[s] /\ hi[s] <= high
  BY DEF Bounded
<1>2. lo \in [Speakers -> Int] /\ hi \in [Speakers -> Int]
  BY <1>1
<1>3. /\ {ivs[s].lo : s \in DOMAIN ivs} = {lo[s] : s \in Speakers} /\ \A s \in Speakers : lo[s] = ivs[s].lo
      /\ {ivs[s].hi : s \in DOMAIN ivs} = {hi[s] : s \in Speakers} /\ \A s \in Speakers : hi[s] = ivs[s].hi
  OBVIOUS
<1> HIDE DEF lo, hi
<1>within. (\A s \in Speakers : low <= lo[s] /\ lo[s] <= high) /\ \A s \in Speakers : low <= hi[s] /\ hi[s] <= high
  BY <1>1
<1>4. /\ MaxOf({lo[s] : s \in Speakers}) \in Int /\ \A s \in Speakers : lo[s] <= MaxOf({lo[t] : t \in Speakers})
      /\ \E s \in Speakers : lo[s] = MaxOf({lo[r] : r \in Speakers})
  BY <1>2, <1>within, GreatestIn
<1>5. /\ MinOf({hi[s] : s \in Speakers}) \in Int /\ \A s \in Speakers : MinOf({hi[t] : t \in Speakers}) <= hi[s]
      /\ \E s \in Speakers : hi[s] = MinOf({hi[r] : r \in Speakers})
  BY <1>2, <1>within, LeastIn
<1>6. QED
  BY <1>3, <1>4, <1>5 DEF LatestLo, EarliestHi

\* The bases of the speakers of one kind.
LEMMA BasesOf ==
  ASSUME NEW ivs, DOMAIN ivs = Speakers, NEW low \in Int, NEW high \in Int, Bounded(ivs, low, high)
  PROVE  /\ AdvanceBases(ivs) # {} =>
              /\ MaxOf(AdvanceBases(ivs)) \in Int
              /\ \A s \in Speakers : Advances(ivs[s].kind) => ivs[s].base <= MaxOf(AdvanceBases(ivs))
              /\ \E s \in Speakers : Advances(ivs[s].kind) /\ ivs[s].base = MaxOf(AdvanceBases(ivs))
         /\ DelayBases(ivs) # {} =>
              /\ MinOf(DelayBases(ivs)) \in Int
              /\ \A s \in Speakers : ~Advances(ivs[s].kind) => MinOf(DelayBases(ivs)) <= ivs[s].base
              /\ \E s \in Speakers : ~Advances(ivs[s].kind) /\ ivs[s].base = MinOf(DelayBases(ivs))
         /\ AdvanceBases(ivs) = {} => \A s \in Speakers : ~Advances(ivs[s].kind)
         /\ DelayBases(ivs) = {} => \A s \in Speakers : Advances(ivs[s].kind)
<1>1. \A s \in Speakers : ivs[s].base \in Int /\ low <= ivs[s].base /\ ivs[s].base <= high
  BY DEF Bounded
<1>2. /\ AdvanceBases(ivs) \subseteq Int /\ \A b \in AdvanceBases(ivs) : b <= high
      /\ \A s \in Speakers : Advances(ivs[s].kind) => ivs[s].base \in AdvanceBases(ivs)
      /\ \A b \in AdvanceBases(ivs) : \E s \in Speakers : Advances(ivs[s].kind) /\ ivs[s].base = b
  BY <1>1 DEF AdvanceBases
<1>3. /\ DelayBases(ivs) \subseteq Int /\ \A b \in DelayBases(ivs) : low <= b
      /\ \A s \in Speakers : ~Advances(ivs[s].kind) => ivs[s].base \in DelayBases(ivs)
      /\ \A b \in DelayBases(ivs) : \E s \in Speakers : ~Advances(ivs[s].kind) /\ ivs[s].base = b
  BY <1>1 DEF DelayBases
<1>4. AdvanceBases(ivs) # {} =>
        MaxOf(AdvanceBases(ivs)) \in AdvanceBases(ivs) /\ \A b \in AdvanceBases(ivs) : b <= MaxOf(AdvanceBases(ivs))
  BY <1>2, GreatestOf
<1>5. DelayBases(ivs) # {} =>
        MinOf(DelayBases(ivs)) \in DelayBases(ivs) /\ \A b \in DelayBases(ivs) : MinOf(DelayBases(ivs)) <= b
  BY <1>3, LeastOf
<1>6. QED
  BY <1>2, <1>3, <1>4, <1>5

LEMMA TwoOf ==
  ASSUME NEW a \in Int, NEW b \in Int
  PROVE  MaxOf({a, b}) = (IF a <= b THEN b ELSE a) /\ MinOf({a, b}) = (IF a <= b THEN a ELSE b)
<1>1. MaxOf({a, b}) \in {a, b} /\ \A x \in {a, b} : x <= MaxOf({a, b})
  <2> DEFINE h == IF a <= b THEN b ELSE a
  <2>1. h \in Int /\ {a, b} \in SUBSET Int /\ \A x \in {a, b} : x <= h
    OBVIOUS
  <2> HIDE DEF h
  <2>2. QED
    BY <2>1, GreatestOf
<1>2. MinOf({a, b}) \in {a, b} /\ \A x \in {a, b} : MinOf({a, b}) <= x
  <2> DEFINE l == IF a <= b THEN a ELSE b
  <2>1. l \in Int /\ {a, b} \in SUBSET Int /\ \A x \in {a, b} : l <= x
    OBVIOUS
  <2> HIDE DEF l
  <2>2. QED
    BY <2>1, LeastOf
<1>3. QED
  BY <1>1, <1>2

LEMMA ClampIs ==
  ASSUME NEW v \in Int, NEW lo \in Int, NEW hi \in Int, lo <= hi
  PROVE  Clamp(v, lo, hi) = (IF v <= lo THEN lo ELSE IF v <= hi THEN v ELSE hi)
<1>1. MinOf({v, hi}) = (IF v <= hi THEN v ELSE hi)
  BY TwoOf
<1>2. MinOf({v, hi}) \in Int
  BY <1>1
<1>3. MaxOf({lo, MinOf({v, hi})}) = (IF lo <= MinOf({v, hi}) THEN MinOf({v, hi}) ELSE lo)
  BY <1>2, TwoOf
<1>4. QED
  BY <1>1, <1>3 DEF Clamp

\* What can be reached is reached with the least of the largest knobs.
LEMMA TargetIsLeast ==
  ASSUME Speakers # {}, NEW ivs, DOMAIN ivs = Speakers, NEW low \in Int, NEW high \in Int, Bounded(ivs, low, high),
         LatestLo(ivs) <= EarliestHi(ivs)
  PROVE  /\ ChooseTarget(ivs) \in Int
         /\ \A s \in Speakers : ivs[s].lo <= ChooseTarget(ivs) /\ ChooseTarget(ivs) <= ivs[s].hi
         /\ \A t \in Int : (\A s \in Speakers : ivs[s].lo <= t /\ t <= ivs[s].hi)
              => LargestKnob(ivs, ChooseTarget(ivs)) <= LargestKnob(ivs, t)
<1> DEFINE L == LatestLo(ivs)
           H == EarliestHi(ivs)
           a == MaxOf(AdvanceBases(ivs))
           d == MinOf(DelayBases(ivs))
           v == (a + d) \div 2
           goal == ChooseTarget(ivs)
<1>1. /\ L \in Int /\ H \in Int /\ L <= H
      /\ \A s \in Speakers : ivs[s].lo <= L /\ H <= ivs[s].hi
      /\ (\E s \in Speakers : ivs[s].lo = L) /\ \E s \in Speakers : ivs[s].hi = H
  BY EndsOf
<1>2. \A s \in Speakers : ivs[s].base \in Int /\ ivs[s].lo \in Int /\ ivs[s].hi \in Int
  BY DEF Bounded
<1>3. /\ AdvanceBases(ivs) # {} =>
           /\ a \in Int /\ (\A s \in Speakers : Advances(ivs[s].kind) => ivs[s].base <= a)
           /\ \E s \in Speakers : Advances(ivs[s].kind) /\ ivs[s].base = a
      /\ DelayBases(ivs) # {} =>
           /\ d \in Int /\ (\A s \in Speakers : ~Advances(ivs[s].kind) => d <= ivs[s].base)
           /\ \E s \in Speakers : ~Advances(ivs[s].kind) /\ ivs[s].base = d
      /\ (AdvanceBases(ivs) = {} => \A s \in Speakers : ~Advances(ivs[s].kind))
      /\ (DelayBases(ivs) = {} => \A s \in Speakers : Advances(ivs[s].kind))
  BY BasesOf
<1>4. \/ DelayBases(ivs) = {} /\ goal = H
      \/ DelayBases(ivs) # {} /\ AdvanceBases(ivs) = {} /\ goal = L
      \/ DelayBases(ivs) # {} /\ AdvanceBases(ivs) # {} /\ goal = Clamp(v, L, H)
  <2>1. CASE DelayBases(ivs) = {}
    <3>1. AdvanceBases(ivs) # {}
      BY <1>3, <2>1
    <3>2. QED
      BY <2>1, <3>1 DEF ChooseTarget
  <2>2. CASE DelayBases(ivs) # {} /\ AdvanceBases(ivs) = {}
    BY <2>2 DEF ChooseTarget
  <2>3. CASE DelayBases(ivs) # {} /\ AdvanceBases(ivs) # {}
    BY <2>3 DEF ChooseTarget
  <2>4. QED
    BY <2>1, <2>2, <2>3
<1>5. DelayBases(ivs) # {} /\ AdvanceBases(ivs) # {} =>
        v \in Int /\ 2 * v <= a + d /\ a + d <= 2 * v + 1
  BY <1>3
<1> HIDE DEF L, H, a, d, v, goal
<1>6. goal \in Int /\ L <= goal /\ goal <= H
      /\ (DelayBases(ivs) # {} /\ AdvanceBases(ivs) # {} => goal = IF v <= L THEN L ELSE IF v <= H THEN v ELSE H)
  BY <1>1, <1>4, <1>5, ClampIs
<1>7. \A s \in Speakers : ivs[s].lo <= goal /\ goal <= ivs[s].hi
  BY <1>1, <1>2, <1>6
<1>8. ASSUME NEW t \in Int, \A s \in Speakers : ivs[s].lo <= t /\ t <= ivs[s].hi
      PROVE  LargestKnob(ivs, goal) <= LargestKnob(ivs, t)
  <2>1. L <= t /\ t <= H
    BY <1>1, <1>8
  <2>2. /\ LargestKnob(ivs, t) \in Int
        /\ \A s \in Speakers : KnobFor(ivs[s], t) \in Int /\ KnobFor(ivs[s], t) <= LargestKnob(ivs, t)
    BY KnobsOf
  <2>3. LargestKnob(ivs, goal) \in Int
    BY <1>6, KnobsOf
  <2>4. PICK s \in Speakers : LargestKnob(ivs, goal) = KnobFor(ivs[s], goal)
    BY <1>6, KnobsOf
  <2> DEFINE most == LargestKnob(ivs, t)
             b == ivs[s].base
  <2>5. b \in Int /\ most \in Int
    BY <1>2, <2>2
  <2>6. /\ \A r \in Speakers : Advances(ivs[r].kind) => ivs[r].base - t <= most
        /\ \A r \in Speakers : ~Advances(ivs[r].kind) => t - ivs[r].base <= most
    BY <2>2 DEF KnobFor
  <2> HIDE DEF most, b
  <2>7. CASE Advances(ivs[s].kind)
    <3>1. LargestKnob(ivs, goal) = b - goal
      BY <2>4, <2>7 DEF KnobFor, b
    <3>2. b - t <= most
      BY <2>6, <2>7 DEF b
    <3>3. AdvanceBases(ivs) # {}
      BY <1>3, <2>7
    <3>4. CASE DelayBases(ivs) = {}
      <4>1. b - goal <= most
        BY <1>1, <1>4, <2>1, <2>5, <3>2, <3>4
      <4>2. QED
        BY <3>1, <4>1 DEF most
    <3>5. CASE DelayBases(ivs) # {}
      <4>1. a \in Int /\ d \in Int /\ v \in Int /\ 2 * v <= a + d /\ a + d <= 2 * v + 1
            /\ goal = IF v <= L THEN L ELSE IF v <= H THEN v ELSE H
        BY <1>3, <1>5, <1>6, <3>3, <3>5
      <4>2. a - t <= most /\ t - d <= most
        BY <1>3, <2>6, <3>3, <3>5
      <4>3. b <= a
        BY <1>3, <2>7, <3>3 DEF b
      <4>4. b - goal <= most
        BY <1>1, <2>1, <2>5, <4>1, <4>2, <4>3
      <4>5. QED
        BY <3>1, <4>4 DEF most
    <3>6. QED
      BY <3>4, <3>5
  <2>8. CASE ~Advances(ivs[s].kind)
    <3>1. LargestKnob(ivs, goal) = goal - b
      BY <2>4, <2>8 DEF KnobFor, b
    <3>2. t - b <= most
      BY <2>6, <2>8 DEF b
    <3>3. DelayBases(ivs) # {}
      BY <1>3, <2>8
    <3>4. CASE AdvanceBases(ivs) = {}
      <4>1. goal = L
        BY <1>4, <3>3, <3>4
      <4>2. goal - b <= most
        BY <1>1, <2>1, <2>5, <3>2, <4>1
      <4>3. QED
        BY <3>1, <4>2 DEF most
    <3>5. CASE AdvanceBases(ivs) # {}
      <4>1. a \in Int /\ d \in Int /\ v \in Int /\ 2 * v <= a + d /\ a + d <= 2 * v + 1
            /\ goal = IF v <= L THEN L ELSE IF v <= H THEN v ELSE H
        BY <1>3, <1>5, <1>6, <3>3, <3>5
      <4>2. a - t <= most /\ t - d <= most
        BY <1>3, <2>6, <3>3, <3>5
      <4>3. d <= b
        BY <1>3, <2>8, <3>3 DEF b
      <4>4. goal - b <= most
        BY <1>1, <2>1, <2>5, <4>1, <4>2, <4>3
      <4>5. QED
        BY <3>1, <4>4 DEF most
    <3>6. QED
      BY <3>4, <3>5
  <2>9. QED
    BY <2>7, <2>8
<1>9. QED
  BY <1>6, <1>7, <1>8 DEF goal

LEMMA ProposalIsLeast ==
  ASSUME Bounds, NEW arrival \in [Speakers -> Int], NEW far \in Nat,
         \A s \in Speakers : 0 <= arrival[s] /\ arrival[s] <= far,
         NEW current \in [Speakers -> Currents], NEW kind \in [Speakers -> Kinds], NEW q, q = Propose(arrival, current, kind)
  PROVE  (q.on \/ q.refused) /\ Least(q) /\ Moves(q, arrival)
<1> DEFINE ivs == Intervals(arrival, current, kind)
           target == ChooseTarget(ivs)
           knob == [s \in Speakers |-> Round(KnobFor(ivs[s], target))]
           moved == [s \in Speakers |-> IF Advances(kind[s]) THEN current[s] - knob[s] ELSE knob[s] - current[s]]
<1>1. Speakers # {} /\ DOMAIN ivs = Speakers /\ ivs = [s \in Speakers |-> Interval(arrival[s], current[s], kind[s])]
  <2>1. PICK n \in Nat \ {0} : Speakers = 1..n
    BY DEF Bounds
  <2>2. 1 \in 1..n
    BY <2>1
  <2>3. QED
    BY <2>1, <2>2 DEF Intervals
<1>2. PICK low \in Int : \E high \in Int : Bounded(ivs, low, high)
  BY IntervalsBounded, Zenon
<1>high. PICK high \in Int : Bounded(ivs, low, high)
  BY <1>2
<1>3. \A s \in Speakers : ivs[s].kind = kind[s] /\ current[s] \in Int /\ ivs[s].base = Base(arrival[s], current[s], kind[s])
  BY IntervalsBounded, Zenon
<1>4. q = IF LatestLo(ivs) > EarliestHi(ivs) THEN [on |-> FALSE, refused |-> TRUE, ivs |-> ivs]
          ELSE [on |-> TRUE, refused |-> FALSE, ivs |-> ivs, target |-> target, moved |-> moved]
  BY <1>1 DEF Propose
<1> HIDE DEF ivs
<1>5. /\ LatestLo(ivs) \in Int /\ EarliestHi(ivs) \in Int
      /\ \A s \in Speakers : ivs[s].lo <= LatestLo(ivs) /\ EarliestHi(ivs) <= ivs[s].hi
      /\ (\E s \in Speakers : ivs[s].lo = LatestLo(ivs)) /\ \E s \in Speakers : ivs[s].hi = EarliestHi(ivs)
  BY <1>1, <1>high, EndsOf
<1> HIDE DEF target, moved
<1>6. MinOf(Speakers) \in Speakers /\ \A s \in Speakers : ivs[s].lo \in Int /\ ivs[s].hi \in Int
  <2>1. Speakers \in SUBSET Int /\ \A s \in Speakers : 0 <= s
    BY DEF Bounds
  <2>2. MinOf(Speakers) \in Speakers
    BY <1>1, <2>1, LeastOf
  <2>3. QED
    BY <1>high, <2>2 DEF Bounded
<1>7. \A t \in ivs[MinOf(Speakers)].lo .. ivs[MinOf(Speakers)].hi : t \in Int
  BY <1>6
<1>8. CASE LatestLo(ivs) > EarliestHi(ivs)
  <2>1. ~q.on /\ q.refused /\ q.ivs = ivs
    BY <1>4, <1>8
  <2>2. ASSUME NEW t \in Int, \A s \in Speakers : ivs[s].lo <= t /\ t <= ivs[s].hi PROVE FALSE
    <3>1. LatestLo(ivs) <= t /\ t <= EarliestHi(ivs)
      BY <1>5, <2>2
    <3>2. QED
      BY <1>5, <1>8, <3>1
  <2>3. Least(q)
    BY <1>7, <2>1, <2>2 DEF Least
  <2>4. QED
    BY <2>1, <2>3 DEF Moves
<1>9. CASE ~(LatestLo(ivs) > EarliestHi(ivs))
  <2>1. q.on /\ ~q.refused /\ q.ivs = ivs /\ q.target = target /\ q.moved = moved
    BY <1>4, <1>9
  <2>2. LatestLo(ivs) <= EarliestHi(ivs)
    BY <1>5, <1>9
  <2>3. /\ target \in Int
        /\ \A s \in Speakers : ivs[s].lo <= target /\ target <= ivs[s].hi
        /\ \A t \in Int : (\A s \in Speakers : ivs[s].lo <= t /\ t <= ivs[s].hi)
             => LargestKnob(ivs, target) <= LargestKnob(ivs, t)
    BY <1>1, <1>high, <2>2, TargetIsLeast DEF target
  <2>4. Least(q)
    BY <1>7, <2>1, <2>3 DEF Least
  <2>5. ASSUME NEW s \in Speakers
        PROVE  /\ moved[s] \in Int
               /\ target - arrival[s] - 1 <= moved[s] /\ moved[s] <= target - arrival[s] + 1
    <3>1. arrival[s] \in Int /\ current[s] \in Int /\ ivs[s].kind = kind[s]
      BY <1>3
    <3>2. knob[s] = Round(KnobFor(ivs[s], target))
      OBVIOUS
    <3>3. moved[s] = IF Advances(kind[s]) THEN current[s] - knob[s] ELSE knob[s] - current[s]
      BY DEF moved
    <3> HIDE DEF knob
    <3>4. CASE Advances(kind[s])
      <4>0. ivs[s].base = arrival[s] + current[s]
        BY <1>3, <3>4 DEF Base
      <4>1. KnobFor(ivs[s], target) = arrival[s] + current[s] - target
        BY <2>3, <3>1, <3>4, <4>0 DEF KnobFor
      <4>2. arrival[s] + current[s] - target \in Int
        BY <2>3, <3>1
      <4>3. /\ knob[s] \in Int /\ arrival[s] + current[s] - target <= knob[s]
            /\ knob[s] <= arrival[s] + current[s] - target + 1
        BY <3>2, <4>1, <4>2, RoundUp
      <4>4. QED
        BY <2>3, <3>1, <3>3, <3>4, <4>3
    <3>5. CASE ~Advances(kind[s])
      <4>1. KnobFor(ivs[s], target) = target - (arrival[s] - current[s])
        BY <1>3, <3>5 DEF KnobFor, Base
      <4>2. target - (arrival[s] - current[s]) \in Int
        BY <2>3, <3>1
      <4>3. /\ knob[s] \in Int /\ target - (arrival[s] - current[s]) <= knob[s]
            /\ knob[s] <= target - (arrival[s] - current[s]) + 1
        BY <3>2, <4>1, <4>2, RoundUp
      <4>4. QED
        BY <2>3, <3>1, <3>3, <3>5, <4>3
    <3>6. QED
      BY <3>4, <3>5
  <2>6. Moves(q, arrival)
    BY <2>1, <2>3, <2>5 DEF Moves
  <2>7. QED
    BY <2>1, <2>4, <2>6
<1>10. QED
  BY <1>8, <1>9

-----------------------------------------------------------------------------
(* The invariant *)

\* At a position everybody is heard at the same time, but for the rounding and
\* for what the overlaps disagree on.
KeptJoint(j, at) ==
  /\ j \in Joint /\ at \in Readable /\ j.members \subseteq Aligned /\ j.overlaps \subseteq Aligned
  /\ \E time \in Int :
       /\ \A s \in j.members : time <= at[s] + provisional[s] /\ at[s] + provisional[s] <= time + 1
       /\ \A o \in j.overlaps : /\ 2 * (at[o] + provisional[o]) <= 2 * time + j.disagreement + 3
                               /\ 2 * time - j.disagreement <= 2 * (at[o] + provisional[o])

ChainInv ==
  /\ LinesOK
  /\ path \in Seq(Readable) /\ joints \in Seq(Joint)
  /\ joints = <<>> => Aligned = {}
  /\ ~proposal.on /\ ~proposal.refused => Len(path) = Len(joints)
  /\ \A p \in 1 .. Len(joints) : KeptJoint(joints[p], path[p])
  /\ KnobsKeepAlignment /\ LeastKnobs

LEMMA PathsAreTimes ==
  ASSUME Bounds, NEW at \in Readable
  PROVE  \A s \in Speakers : at[s] \in Nat
<1>1. PICK longest \in Nat : Paths \subseteq 0..longest
  BY DEF Bounds
<1>2. ASSUME NEW s \in Speakers PROVE at[s] \in Nat
  <2>1. at[s] \in Paths
    BY DEF Readable
  <2>2. \A p \in Paths : p \in Nat
    BY <1>1
  <2>3. QED
    BY <2>1, <2>2
<1>3. QED
  BY <1>2

LEMMA LinesAreTimes ==
  ASSUME Bounds, LinesOK
  PROVE  Aligned \subseteq Speakers /\ \A s \in Aligned : provisional[s] \in Nat
<1>1. MaxLine \in Nat
  BY DEF Bounds
<1>2. QED
  BY <1>1 DEF LinesOK

\* What is kept says what the property asks.
LEMMA KeptIsAligned ==
  ASSUME Bounds, LinesOK, \A p \in 1 .. Len(joints) : KeptJoint(joints[p], path[p])
  PROVE  StepsStayAligned
<1> SUFFICES ASSUME NEW p \in 1 .. Len(joints)
             PROVE  LET j == joints[p]
                    IN  /\ \A s, t \in j.members : CloseTo(Heard(p, s), Heard(p, t), Millisecond)
                        /\ \A s \in j.members, o \in j.overlaps :
                             CloseTo(2 * Heard(p, s), 2 * Heard(p, o), j.disagreement + 2 * Millisecond)
  BY DEF StepsStayAligned
<1> DEFINE j == joints[p]
           at == path[p]
<1>1. KeptJoint(j, at)
  OBVIOUS
<1>2. \A s \in Aligned : Heard(p, s) = at[s] + provisional[s]
  BY DEF Heard, LineOf
<1> HIDE DEF j, at
<1>3. /\ j.members \subseteq Aligned /\ j.overlaps \subseteq Aligned /\ j.disagreement \in Int
      /\ at \in Readable
  BY <1>1 DEF KeptJoint, Joint
<1>4. PICK time \in Int :
        /\ \A s \in j.members : time <= at[s] + provisional[s] /\ at[s] + provisional[s] <= time + 1
        /\ \A o \in j.overlaps : /\ 2 * (at[o] + provisional[o]) <= 2 * time + j.disagreement + 3
                                /\ 2 * time - j.disagreement <= 2 * (at[o] + provisional[o])
  BY <1>1 DEF KeptJoint
<1>5. \A s \in Aligned : at[s] + provisional[s] \in Int
  <2>1. \A s \in Aligned : at[s] \in Nat /\ provisional[s] \in Nat
    BY <1>3, PathsAreTimes, LinesAreTimes
  <2>2. QED
    BY <2>1
<1>6. ASSUME NEW s \in j.members, NEW t \in j.members PROVE CloseTo(Heard(p, s), Heard(p, t), Millisecond)
  <2> DEFINE a == Heard(p, s)
             b == Heard(p, t)
  <2>1. a \in Int /\ b \in Int /\ time <= a /\ a <= time + 1 /\ time <= b /\ b <= time + 1
    BY <1>2, <1>3, <1>4, <1>5
  <2> HIDE DEF a, b
  <2>2. CloseTo(a, b, Millisecond)
    BY <2>1 DEF CloseTo, Abs, Millisecond
  <2>3. QED
    BY <2>2 DEF a, b
<1>7. ASSUME NEW s \in j.members, NEW o \in j.overlaps
      PROVE  CloseTo(2 * Heard(p, s), 2 * Heard(p, o), j.disagreement + 2 * Millisecond)
  <2> DEFINE a == Heard(p, s)
             b == Heard(p, o)
             g == j.disagreement
  <2>1. /\ a \in Int /\ b \in Int /\ g \in Int /\ time <= a /\ a <= time + 1
        /\ 2 * b <= 2 * time + g + 3 /\ 2 * time - g <= 2 * b
    BY <1>2, <1>3, <1>4, <1>5
  <2> HIDE DEF a, b, g
  <2>2. CloseTo(2 * a, 2 * b, g + 2 * Millisecond)
    BY <2>1 DEF CloseTo, Abs, Millisecond
  <2>3. QED
    BY <2>2 DEF a, b, g
<1>8. QED
  BY <1>6, <1>7 DEF j

\* A later position moves what was aligned, and keeps it aligned.
LEMMA MovedIsKept ==
  ASSUME Bounds, LinesOK, LinesOK', Aligned \subseteq DOMAIN provisional', NEW j, NEW at, KeptJoint(j, at),
         NEW move \in Int, \A s \in Aligned : provisional'[s] = provisional[s] + move
  PROVE  KeptJoint(j, at)'
<1>1. /\ j \in Joint /\ j.members \subseteq Aligned /\ j.overlaps \subseteq Aligned /\ j.disagreement \in Int
      /\ at \in Readable
  BY DEF KeptJoint, Joint
<1>2. PICK time \in Int :
        /\ \A s \in j.members : time <= at[s] + provisional[s] /\ at[s] + provisional[s] <= time + 1
        /\ \A o \in j.overlaps : /\ 2 * (at[o] + provisional[o]) <= 2 * time + j.disagreement + 3
                                /\ 2 * time - j.disagreement <= 2 * (at[o] + provisional[o])
  BY DEF KeptJoint
<1>3. \A s \in Aligned : at[s] \in Int /\ provisional[s] \in Int
  BY <1>1, PathsAreTimes, LinesAreTimes
<1>4. ASSUME NEW s \in j.members
      PROVE  time + move <= at[s] + provisional'[s] /\ at[s] + provisional'[s] <= time + move + 1
  <2>1. /\ provisional'[s] = provisional[s] + move /\ at[s] \in Int /\ provisional[s] \in Int
        /\ time <= at[s] + provisional[s] /\ at[s] + provisional[s] <= time + 1
    BY <1>1, <1>2, <1>3
  <2>2. QED
    BY <2>1
<1>5. ASSUME NEW o \in j.overlaps
      PROVE  /\ 2 * (at[o] + provisional'[o]) <= 2 * (time + move) + j.disagreement + 3
             /\ 2 * (time + move) - j.disagreement <= 2 * (at[o] + provisional'[o])
  <2>1. /\ provisional'[o] = provisional[o] + move /\ at[o] \in Int /\ provisional[o] \in Int
        /\ 2 * (at[o] + provisional[o]) <= 2 * time + j.disagreement + 3
        /\ 2 * time - j.disagreement <= 2 * (at[o] + provisional[o])
    BY <1>1, <1>2, <1>3
  <2>2. QED
    BY <1>1, <2>1
<1> DEFINE later == time + move
<1>6. /\ later \in Int
      /\ \A s \in j.members : later <= at[s] + provisional'[s] /\ at[s] + provisional'[s] <= later + 1
      /\ \A o \in j.overlaps : /\ 2 * (at[o] + provisional'[o]) <= 2 * later + j.disagreement + 3
                              /\ 2 * later - j.disagreement <= 2 * (at[o] + provisional'[o])
  BY <1>4, <1>5
<1> HIDE DEF later
<1>7. j.members \subseteq Aligned' /\ j.overlaps \subseteq Aligned'
  BY <1>1 DEF Aligned
<1>8. QED
  BY <1>1, <1>6, <1>7 DEF KeptJoint

\* A new position is kept.
LEMMA TogetherIsKept ==
  ASSUME Bounds, NEW members \in SUBSET Speakers, NEW overlaps \in SUBSET Speakers, NEW at \in Readable,
         NEW spread \in Int, Together(members, overlaps, at, spread), members \union overlaps \subseteq DOMAIN provisional',
         NEW j, j = [members |-> members, overlaps |-> overlaps, disagreement |-> spread]
  PROVE  KeptJoint(j, at)'
<1>1. j \in Joint /\ j.members = members /\ j.overlaps = overlaps /\ j.disagreement = spread
  BY DEF Joint
<1>2. PICK time \in Int :
        /\ \A s \in members : time <= at[s] + provisional'[s] /\ at[s] + provisional'[s] <= time + 1
        /\ \A o \in overlaps : /\ 2 * (at[o] + provisional'[o]) <= 2 * time + spread + 3
                              /\ 2 * time - spread <= 2 * (at[o] + provisional'[o])
  BY DEF Together
<1>3. members \subseteq Aligned' /\ overlaps \subseteq Aligned'
  BY DEF Aligned
<1>4. QED
  BY <1>1, <1>2, <1>3 DEF KeptJoint

LEMMA InitChain == ASSUME Bounds, SolveInit PROVE ChainInv
<1>1. path = <<>> /\ provisional = <<>> /\ joints = <<>> /\ proposal = NoProposal
  BY DEF SolveInit
<1>2. Aligned = {} /\ LinesOK
  BY <1>1 DEF Aligned, LinesOK
<1>3. path \in Seq(Readable) /\ joints \in Seq(Joint) /\ Len(joints) = 0 /\ Len(path) = 0
  BY <1>1
<1>4. ~proposal.on /\ ~proposal.refused
  BY <1>1 DEF NoProposal
<1>5. KnobsKeepAlignment /\ LeastKnobs
  BY <1>4 DEF KnobsKeepAlignment, LeastKnobs
<1>6. QED
  BY <1>1, <1>2, <1>3, <1>5 DEF ChainInv

LEMMA StutterChain == ASSUME ChainInv, UNCHANGED solveVars PROVE ChainInv'
<1>1. path' = path /\ provisional' = provisional /\ joints' = joints /\ proposal' = proposal
  BY DEF solveVars
<1>2. LinesOK' /\ Aligned' = Aligned
  BY <1>1 DEF ChainInv, LinesOK, Aligned
<1>3. \A p \in 1 .. Len(joints') : KeptJoint(joints[p], path[p])'
  BY <1>1, <1>2 DEF ChainInv, KeptJoint
<1>4. KnobsKeepAlignment' /\ LeastKnobs'
  BY <1>1 DEF ChainInv, KnobsKeepAlignment, LeastKnobs
<1>5. QED
  BY <1>1, <1>2, <1>3, <1>4 DEF ChainInv

LEMMA StepChain ==
  ASSUME Bounds, ChainInv, ~proposal.on, ~proposal.refused,
         NEW members \in SUBSET (Speakers \ Aligned), NEW overlaps \in SUBSET Aligned,
         NEW at \in Positions(members \union overlaps), ChainStep(members, overlaps, at)
  PROVE  ChainInv'
<1>0. PICK arrival : arrival = Arrivals(at, members \union overlaps)
  OBVIOUS
<1>spread. PICK spread : spread = IF overlaps = {} THEN 0 ELSE Disagreement(arrival, overlaps)
  OBVIOUS
<1>joint. PICK joint : joint = [members |-> members, overlaps |-> overlaps, disagreement |-> spread]
  OBVIOUS
<1>1. /\ members # {} /\ (Aligned = {} <=> overlaps = {}) /\ Cardinality(overlaps) <= 2
      /\ provisional' = StepLines(arrival, members, overlaps)
      /\ \A s \in DOMAIN provisional' : provisional'[s] <= MaxLine
      /\ joints' = Append(joints, joint) /\ path' = Append(path, at) /\ proposal' = proposal
  BY <1>0, <1>spread, <1>joint DEF ChainStep
<1>2. at \in Readable
  BY DEF Positions, Readable
<1>3. LinesOK /\ path \in Seq(Readable) /\ joints \in Seq(Joint) /\ Len(path) = Len(joints)
      /\ \A p \in 1 .. Len(joints) : KeptJoint(joints[p], path[p])
  BY DEF ChainInv
<1>6. members \in SUBSET Speakers /\ overlaps \in SUBSET Speakers
  BY <1>3 DEF LinesOK
<1>4. StepOf(members, overlaps, at, arrival)
  <2>1. members \subseteq Speakers /\ members \cap Aligned = {}
    OBVIOUS
  <2>2. QED
    BY <1>0, <1>1, <1>2, <2>1 DEF StepOf
<1>5. DOMAIN provisional' = Aligned \union members /\ LinesOK' /\ spread \in Int /\ Together(members, overlaps, at, spread)
  <2>1. /\ DOMAIN provisional' = Aligned \union members /\ LinesOK'
        /\ \E g \in Int : g = (IF overlaps = {} THEN 0 ELSE Disagreement(arrival, overlaps))
                           /\ Together(members, overlaps, at, g)
    BY <1>3, <1>4, StepAligns, Zenon
  <2>2. QED
    BY <1>spread, <2>1
<1>7. joint \in Joint
  BY <1>5, <1>6, <1>joint DEF Joint
<1>8. KeptJoint(joint, at)'
  <2>1. members \union overlaps \subseteq DOMAIN provisional'
    BY <1>5
  <2>2. QED
    BY <1>2, <1>5, <1>6, <1>joint, <2>1, TogetherIsKept
<1>9. PICK move \in Int : \A s \in Aligned : provisional'[s] = provisional[s] + move
  BY <1>5 DEF Together
<1>10. ASSUME NEW p \in 1 .. Len(joints') PROVE KeptJoint(joints[p], path[p])'
  <2>1. Len(joints') = Len(joints) + 1 /\ Len(joints) \in Nat
    BY <1>1, <1>3, <1>7
  <2>2. CASE p \in 1 .. Len(joints)
    <3>1. joints'[p] = joints[p] /\ path'[p] = path[p]
      BY <1>1, <1>2, <1>3, <1>7, <2>2
    <3>2. Aligned \subseteq DOMAIN provisional'
      BY <1>5
    <3>3. PICK j : j = joints[p]
      OBVIOUS
    <3>4. PICK way : way = path[p]
      OBVIOUS
    <3>5. KeptJoint(j, way)
      BY <1>3, <2>2, <3>3, <3>4
    <3>6. KeptJoint(j, way)'
      BY <1>3, <1>5, <1>9, <3>2, <3>5, MovedIsKept
    <3>7. QED
      BY <3>1, <3>3, <3>4, <3>6 DEF KeptJoint
  <2>3. CASE p = Len(joints) + 1
    <3>1. joints'[p] = joint /\ path'[p] = at
      BY <1>1, <1>2, <1>3, <1>7, <2>3
    <3>2. QED
      BY <1>8, <3>1 DEF KeptJoint
  <2>4. QED
    BY <2>1, <2>2, <2>3
<1>11. path' \in Seq(Readable) /\ joints' \in Seq(Joint) /\ Len(path') = Len(joints') /\ joints' # <<>>
  BY <1>1, <1>2, <1>3, <1>7
<1>12. KnobsKeepAlignment' /\ LeastKnobs'
  BY <1>1 DEF KnobsKeepAlignment, LeastKnobs
<1>13. QED
  <2>1. (\A p \in 1 .. Len(joints) : KeptJoint(joints[p], path[p]))'
    BY <1>10
  <2>2. QED
    BY <1>5, <1>11, <1>12, <2>1 DEF ChainInv

\* What is proposed is kept whatever made it: an offset of arrivals that are
\* each as far before a time as the speaker is now.
LEMMA ProposalIsKept ==
  ASSUME Bounds, ChainInv, NEW arrival \in [Speakers -> Int], NEW far \in Nat,
         \A s \in Speakers : 0 <= arrival[s] /\ arrival[s] <= far,
         NEW current \in [Speakers -> Currents], NEW kind \in [Speakers -> Kinds],
         proposal' = Propose(arrival, current, kind), UNCHANGED <<provisional, joints>>, path' \in Seq(Readable),
         NEW way \in [Speakers -> Int], NEW time \in Int, \A s \in Speakers : arrival[s] + way[s] = time,
         \A s \in Speakers : (IF joints = <<>> THEN -path'[1][s] ELSE provisional[s]) = way[s],
         joints = <<>> \/ path' = path
  PROVE  ChainInv'
<1>1. PICK q : q = Propose(arrival, current, kind)
  OBVIOUS
<1>2. (q.on \/ q.refused) /\ Least(q) /\ Moves(q, arrival)
  BY <1>1, ProposalIsLeast
<1>3. proposal' = q /\ provisional' = provisional /\ joints' = joints
  BY <1>1
<1>4. LeastKnobs'
  BY <1>2, <1>3 DEF LeastKnobs, Least
<1>5. KnobsKeepAlignment'
  <2>1. CASE ~q.on
    BY <1>3, <2>1 DEF KnobsKeepAlignment
  <2>2. CASE q.on
    <3>1. PICK target \in Int : \A s \in Speakers :
            /\ q.moved[s] \in Int /\ target - arrival[s] - 1 <= q.moved[s]
            /\ q.moved[s] <= target - arrival[s] + 1
      BY <1>2, <2>2 DEF Moves
    <3>2. ASSUME NEW s \in Speakers
          PROVE  /\ q.moved[s] - way[s] \in Int /\ target - time - 1 <= q.moved[s] - way[s]
                 /\ q.moved[s] - way[s] <= target - time + 1
      <4>1. /\ q.moved[s] \in Int /\ arrival[s] \in Int /\ way[s] \in Int /\ arrival[s] + way[s] = time
            /\ target - arrival[s] - 1 <= q.moved[s] /\ q.moved[s] <= target - arrival[s] + 1
        BY <3>1
      <4>2. QED
        BY <4>1
    <3>3. ASSUME NEW s \in Speakers, NEW t \in Speakers
          PROVE  CloseTo(q.moved[s] - way[s], q.moved[t] - way[t], Millisecond)
      <4> DEFINE a == q.moved[s] - way[s]
                 b == q.moved[t] - way[t]
      <4>1. /\ a \in Int /\ target - time - 1 <= a /\ a <= target - time + 1
            /\ b \in Int /\ target - time - 1 <= b /\ b <= target - time + 1
        BY <3>2
      <4> HIDE DEF a, b
      <4>2. CloseTo(a, b, Millisecond)
        BY <4>1 DEF CloseTo, Abs, Millisecond
      <4>3. QED
        BY <4>2 DEF a, b
    <3>4. \A s \in Speakers : (IF joints' = <<>> THEN -path'[1][s] ELSE provisional'[s]) = way[s]
      BY <1>3
    <3>5. QED
      BY <1>3, <3>3, <3>4 DEF KnobsKeepAlignment
  <2>3. QED
    BY <2>1, <2>2
<1>6. LinesOK' /\ (joints' = <<>> => Aligned' = {}) /\ joints' \in Seq(Joint)
  BY <1>3 DEF ChainInv, LinesOK, Aligned
<1>7. ASSUME NEW p \in 1 .. Len(joints') PROVE KeptJoint(joints[p], path[p])'
  <2>1. joints # <<>> /\ Aligned' = Aligned
    BY <1>3 DEF ChainInv, Aligned
  <2>2. path' = path
    BY <2>1
  <2>3. KeptJoint(joints[p], path[p])
    BY <1>3 DEF ChainInv
  <2>4. QED
    BY <1>3, <2>1, <2>2, <2>3 DEF KeptJoint
<1>8. (\A p \in 1 .. Len(joints) : KeptJoint(joints[p], path[p]))'
  BY <1>7
<1>9. ~(~proposal.on /\ ~proposal.refused)'
  BY <1>2, <1>3
<1>10. QED
  BY <1>4, <1>5, <1>6, <1>8, <1>9 DEF ChainInv

LEMMA SolveChainKeeps ==
  ASSUME Bounds, ChainInv, NEW current \in [Speakers -> Currents], NEW kind \in [Speakers -> Kinds],
         SolveChain(current, kind)
  PROVE  ChainInv'
<1>1. Speakers # {} /\ MaxLine \in Nat
  <2>1. PICK n \in Nat \ {0} : Speakers = 1..n
    BY DEF Bounds
  <2>2. 1 \in 1..n
    BY <2>1
  <2>3. QED
    BY <2>1, <2>2 DEF Bounds
<1>2. LinesOK /\ Aligned = Speakers /\ joints # <<>> /\ path \in Seq(Readable)
  BY <1>1 DEF SolveChain, ChainInv
<1>3. PICK way : way = [s \in Speakers |-> provisional[s]]
  OBVIOUS
<1>4. way \in [Speakers -> Int] /\ \A s \in Speakers : 0 <= way[s] /\ way[s] <= MaxLine /\ way[s] = provisional[s]
  BY <1>1, <1>2, <1>3 DEF LinesOK
<1>5. PICK ceiling : ceiling = MaxOf({provisional[s] : s \in Speakers})
  OBVIOUS
<1>6. {provisional[s] : s \in Speakers} = {way[s] : s \in Speakers}
  BY <1>4
<1>7. /\ ceiling \in Int /\ \A s \in Speakers : way[s] <= ceiling
      /\ \E s \in Speakers : way[s] = ceiling
  <2>1. 0 \in Int /\ MaxLine \in Int
    BY <1>1
  <2>2. /\ MaxOf({way[s] : s \in Speakers}) \in Int /\ \A s \in Speakers : way[s] <= MaxOf({way[t] : t \in Speakers})
        /\ \E s \in Speakers : way[s] = MaxOf({way[t] : t \in Speakers})
    BY <1>1, <1>4, <2>1, GreatestIn
  <2>3. QED
    BY <1>5, <1>6, <2>2
<1>8. PICK arrival : arrival = [s \in Speakers |-> ceiling - way[s]]
  OBVIOUS
<1>9. /\ arrival \in [Speakers -> Int]
      /\ \A s \in Speakers : 0 <= arrival[s] /\ arrival[s] <= MaxLine /\ arrival[s] + way[s] = ceiling
  <2>1. ASSUME NEW s \in Speakers
        PROVE  /\ ceiling - way[s] \in Int /\ 0 <= ceiling - way[s] /\ ceiling - way[s] <= MaxLine
               /\ (ceiling - way[s]) + way[s] = ceiling
    <3>1. way[s] \in Int /\ 0 <= way[s] /\ way[s] <= ceiling /\ ceiling \in Int /\ ceiling <= MaxLine
      BY <1>4, <1>7
    <3>2. QED
      BY <1>1, <3>1
  <2>2. QED
    BY <1>8, <2>1
<1>10. arrival = [s \in Speakers |-> ceiling - provisional[s]]
  BY <1>4, <1>8
<1>11. proposal' = Propose(arrival, current, kind) /\ path' = path /\ provisional' = provisional /\ joints' = joints
  BY <1>5, <1>10 DEF SolveChain
<1>12. /\ \A s \in Speakers : (IF joints = <<>> THEN -path'[1][s] ELSE provisional[s]) = way[s]
       /\ \A s \in Speakers : arrival[s] + way[s] = ceiling
       /\ \A s \in Speakers : 0 <= arrival[s] /\ arrival[s] <= MaxLine
  BY <1>2, <1>4, <1>9
<1>13. QED
  BY <1>1, <1>2, <1>4, <1>7, <1>9, <1>11, <1>12, ProposalIsKept

LEMMA SolvePassesKeeps ==
  ASSUME Bounds, ChainInv, ~proposal.on, ~proposal.refused, path = <<>>, NEW at \in [Speakers -> Paths],
         NEW current \in [Speakers -> Currents], NEW kind \in [Speakers -> Kinds], SolvePasses(at, current, kind)
  PROVE  ChainInv'
<1>1. Speakers # {}
  <2>1. PICK n \in Nat \ {0} : Speakers = 1..n
    BY DEF Bounds
  <2>2. 1 \in 1..n
    BY <2>1
  <2>3. QED
    BY <2>1, <2>2
<1>2. joints = <<>> /\ Aligned = {} /\ LinesOK
  BY DEF ChainInv
<1>3. at \in Readable
  BY DEF Readable
<1>4. PICK arrival : arrival = Arrivals(at, Speakers)
  OBVIOUS
<1>5. PICK first \in Nat, far \in Nat :
        /\ Arrivals(at, Speakers) \in [Speakers -> Int]
        /\ \A s \in Speakers : /\ Arrivals(at, Speakers)[s] = at[s] + LineOf(s) - first
                              /\ 0 <= Arrivals(at, Speakers)[s] /\ Arrivals(at, Speakers)[s] <= far
  <2>1. \A S \in SUBSET Speakers : S # {} =>
          \E first, far \in Nat :
            /\ Arrivals(at, S) \in [S -> Int]
            /\ \A s \in S : /\ Arrivals(at, S)[s] = at[s] + LineOf(s) - first
                            /\ 0 <= Arrivals(at, S)[s] /\ Arrivals(at, S)[s] <= far
    BY <1>2, ArrivalsHeard
  <2>2. Speakers \in SUBSET Speakers
    OBVIOUS
  <2>3. QED
    BY <1>1, <2>1, <2>2
<1>6. \A s \in Speakers : at[s] \in Nat
  BY <1>3, PathsAreTimes
<1>7. arrival \in [Speakers -> Int] /\ \A s \in Speakers : arrival[s] = at[s] - first
  <2>1. \A s \in Speakers : LineOf(s) = 0
    BY <1>2 DEF LineOf
  <2>2. QED
    BY <1>4, <1>5, <1>6, <2>1
<1>8. \A s \in Speakers : 0 <= arrival[s] /\ arrival[s] <= far
  BY <1>4, <1>5
<1>9. PICK way : way = [s \in Speakers |-> -at[s]]
  OBVIOUS
<1>10. way \in [Speakers -> Int] /\ -first \in Int /\ \A s \in Speakers : arrival[s] + way[s] = -first
  BY <1>6, <1>7, <1>9
<1>11. /\ proposal' = Propose(arrival, current, kind) /\ path' = <<at>> /\ provisional' = provisional /\ joints' = joints
  BY <1>4 DEF SolvePasses
<1>12. path' \in Seq(Readable) /\ path'[1] = at
  BY <1>3, <1>11
<1>13. \A s \in Speakers : (IF joints = <<>> THEN -path'[1][s] ELSE provisional[s]) = way[s]
  BY <1>2, <1>9, <1>12
<1>14. QED
  BY <1>2, <1>7, <1>8, <1>10, <1>11, <1>12, <1>13, ProposalIsKept

LEMMA NextChain == ASSUME Bounds, ChainInv, SolveNext PROVE ChainInv'
<1>1. ~proposal.on /\ ~proposal.refused
  BY DEF SolveNext
<1>2. CASE \E members \in SUBSET (Speakers \ Aligned), overlaps \in SUBSET Aligned :
             \E at \in Positions(members \union overlaps) : ChainStep(members, overlaps, at)
  BY <1>1, <1>2, StepChain
<1>3. CASE \E current \in [Speakers -> Currents], kind \in [Speakers -> Kinds] : SolveChain(current, kind)
  BY <1>3, SolveChainKeeps
<1>4. CASE \E current \in [Speakers -> Currents], kind \in [Speakers -> Kinds] :
             path = <<>> /\ \E at \in [Speakers -> Paths] : SolvePasses(at, current, kind)
  BY <1>1, <1>4, SolvePassesKeeps
<1>5. QED
  BY <1>2, <1>3, <1>4 DEF SolveNext

-----------------------------------------------------------------------------
(* Speakers aligned at a position arrive together there, whatever is measured
   after it; the knobs keep it so; and no knobs that do are smaller. *)
THEOREM ChainSolvedTogether == ASSUME ChainConstants PROVE SolveSpec => []SolvedTogether
<1>0. Bounds
  BY ConstantsHaveBounds
<1>1. SolveInit => ChainInv
  BY <1>0, InitChain
<1>2. ChainInv /\ [SolveNext]_solveVars => ChainInv'
  BY <1>0, NextChain, StutterChain
<1>3. ChainInv => SolvedTogether
  BY <1>0, KeptIsAligned DEF ChainInv, SolvedTogether
<1>4. QED
  BY <1>1, <1>2, <1>3, PTL DEF SolveSpec

-----------------------------------------------------------------------------
(* The levels *)
(***************************************************************************)
(* A parallel level solve converges on what it has measured.  While it     *)
(* ramps, the levels were issued; a reading that is older than its         *)
(* member's level is of a member the next round excites; and a level is    *)
(* above the one the last all-members round was heard at only if the next  *)
(* round is one again.                                                     *)
(***************************************************************************)

SolveTypeOK ==
  /\ mode \in RampModes /\ separable \in BOOLEAN /\ fixed \subseteq Voices
  /\ level \in [Voices -> LevelRange] /\ issued \in [Voices -> Nat]
  /\ snr \in [Voices -> SnrReadings \union {Unread}] /\ snrLevel \in [Voices -> Nat]
  /\ checked \in [Voices -> Nat] /\ peak \in Peaks \union {Unread}
  /\ rows \subseteq Voices /\ rounds \in Nat /\ excite \in Voices \union {All}
  /\ outcome \in {"ramping", "converged", "refused"}

Issued == \A m \in Adjustable : issued[m] = level[m]
Fresh(m) == snr[m] = Unread \/ snrLevel[m] = level[m]
Reread == \A m \in Voices : Fresh(m) \/ m \in Excited
Checked == excite = All \/ \A m \in Voices : level[m] <= checked[m]

Ramping == outcome = "ramping" /\ mode = "parallel" => separable /\ Issued /\ Reread /\ Checked

LevelInv == SolveTypeOK /\ Ramping /\ ConvergedAsMeasured

LEMMA FirstIsMember ==
  ASSUME LevelConstants, NEW S \in SUBSET Voices, S # {}
  PROVE  FirstOf(S) \in S
<1> DEFINE R == {x \in Nat \X Nat : x[1] < x[2]}
<1>1. IsWellFoundedOn(R, Nat)
  BY NatLessThanWellFounded DEF OpToRel
<1> HIDE DEF R
<1>2. S \subseteq Nat
  BY DEF LevelConstants
<1>3. PICK x \in S : \A y \in S : <<y, x>> \notin R
  BY <1>1, <1>2, WFMin
<1>4. \A y \in S : x <= y
  <2> SUFFICES ASSUME NEW y \in S PROVE ~(y < x)
    BY <1>2
  <2>1. <<y, x>> \in Nat \X Nat /\ <<y, x>>[1] = y /\ <<y, x>>[2] = x
    BY <1>2
  <2> QED BY <1>3, <2>1 DEF R
<1> QED BY <1>4 DEF FirstOf

LEMMA MembersFacts ==
  ASSUME LevelConstants
  PROVE  Voices \subseteq Nat /\ 1 \in Voices /\ All \notin Voices /\ MaxLevel \in LevelRange /\ LevelRange \subseteq Nat
         /\ NoLevel \in Nat
BY DEF LevelConstants, All, LevelRange, NoLevel

LEMMA InitSolve == LevelConstants /\ LevelInit => LevelInv
<1> SUFFICES ASSUME LevelConstants, LevelInit PROVE LevelInv
  OBVIOUS
<1>1. PICK start \in LevelRange : level = [m \in Voices |-> IF m \in fixed THEN MaxLevel ELSE start]
  BY DEF LevelInit
<1>2. level \in [Voices -> LevelRange]
  BY <1>1, MembersFacts
<1>3. issued \in [Voices -> Nat] /\ (\A m \in Adjustable : issued[m] = level[m])
  BY <1>2, MembersFacts DEF LevelInit, Adjustable
<1>4. excite \in Voices \union {All} /\ (mode = "parallel" => excite = All /\ separable)
  BY MembersFacts DEF LevelInit
<1>5. snr \in [Voices -> SnrReadings \union {Unread}] /\ (\A m \in Voices : snr[m] = Unread)
      /\ snrLevel \in [Voices -> Nat] /\ checked \in [Voices -> Nat]
  BY MembersFacts DEF LevelInit, Nowhere
<1>6. SolveTypeOK
  BY <1>2, <1>3, <1>4, <1>5 DEF LevelInit, SolveTypeOK
<1>7. Ramping /\ ConvergedAsMeasured
  BY <1>3, <1>4, <1>5 DEF LevelInit, Ramping, Issued, Reread, Fresh, Checked, ConvergedAsMeasured
<1>8. QED
  BY <1>6, <1>7 DEF LevelInv

-----------------------------------------------------------------------------
(* The ways a decision ends, after a round was taken in. *)

\* What holds between the round and the decision of a parallel solve.
HeardAll ==
  /\ \A m \in Voices : snr'[m] = Unread \/ snrLevel'[m] = level[m]
  /\ \A m \in Voices : level[m] <= checked'[m]

LEMMA HeardInRound ==
  ASSUME LevelConstants, LevelInv, outcome = "ramping", mode = "parallel",
         NEW heard \in [Attributable -> SnrReadings], NEW p \in Peaks, Ingest(heard, p)
  PROVE  HeardAll
<1>1. separable /\ Reread /\ Checked /\ Attributable = Excited
  BY DEF LevelInv, Ramping, Attributable, Excited
<1>2. Excited \subseteq Voices
  BY DEF LevelInv, SolveTypeOK, Excited
<1>3. ASSUME NEW m \in Voices PROVE snr'[m] = Unread \/ snrLevel'[m] = level[m]
  BY <1>1, <1>2 DEF Ingest, Reread, Fresh
<1>4. ASSUME NEW m \in Voices PROVE level[m] <= checked'[m]
  <2>1. level[m] \in Nat
    BY MembersFacts DEF LevelInv, SolveTypeOK
  <2>2. QED
    BY <1>1, <2>1 DEF Ingest, Checked
<1>5. QED
  BY <1>3, <1>4 DEF HeardAll

LEMMA RoundTypes ==
  ASSUME LevelConstants, LevelInv,
         NEW heard \in [Attributable -> SnrReadings], NEW p \in Peaks, Ingest(heard, p), RecordRow(heard)
  PROVE  /\ snr' \in [Voices -> SnrReadings \union {Unread}] /\ snrLevel' \in [Voices -> Nat]
         /\ checked' \in [Voices -> Nat] /\ peak' \in Peaks \union {Unread}
         /\ rows' \subseteq Voices /\ rounds' \in Nat
<1>1. \A m \in Voices : m \in Attributable => heard[m] \in SnrReadings
  OBVIOUS
<1>2. snr' \in [Voices -> SnrReadings \union {Unread}]
  BY <1>1 DEF LevelInv, SolveTypeOK, Ingest
<1>3. snrLevel' \in [Voices -> Nat] /\ checked' \in [Voices -> Nat]
  BY MembersFacts DEF LevelInv, SolveTypeOK, Ingest
<1>4. peak' \in Peaks \union {Unread} /\ rounds' \in Nat
  BY DEF LevelInv, SolveTypeOK, Ingest
<1>5. rows' \subseteq Voices
  BY DEF LevelInv, SolveTypeOK, RecordRow
<1>6. QED
  BY <1>2, <1>3, <1>4, <1>5

\* A step to an excitation that reads again whatever it has made stale.
LEMMA StepKeeps ==
  ASSUME LevelConstants, LevelInv, NEW e \in Voices \union {All}, Step(e), UNCHANGED setup,
         level' \in [Voices -> LevelRange],
         /\ snr' \in [Voices -> SnrReadings \union {Unread}] /\ snrLevel' \in [Voices -> Nat]
         /\ checked' \in [Voices -> Nat] /\ peak' \in Peaks \union {Unread}
         /\ rows' \subseteq Voices /\ rounds' \in Nat,
         mode = "parallel" => separable /\ HeardAll /\ (e = All \/ \A m \in Voices : m # e => level'[m] = level[m])
                                      /\ (e = All \/ \A m \in Voices : level'[m] <= level[m])
  PROVE  LevelInv'
<1>1. /\ excite' = e /\ outcome' = "ramping"
      /\ issued' = [m \in Voices |-> IF m \in fixed THEN issued[m] ELSE level'[m]]
      /\ UNCHANGED <<mode, separable, fixed>>
  BY DEF Step, setup
<1>2. issued' \in [Voices -> Nat]
  BY <1>1, MembersFacts DEF LevelInv, SolveTypeOK
<1>3. SolveTypeOK'
  BY <1>1, <1>2 DEF LevelInv, SolveTypeOK, LevelRange
<1>4. Ramping'
  <2> SUFFICES ASSUME mode = "parallel" PROVE separable' /\ Issued' /\ Reread' /\ Checked'
    BY <1>1 DEF Ramping
  <2>1. Issued'
    BY <1>1 DEF Issued, Adjustable
  <2>2. Reread'
    BY <1>1 DEF Reread, Fresh, Excited, HeardAll
  <2>3. Checked'
    <3>1. \A m \in Voices : level[m] \in Nat /\ level'[m] \in Nat /\ checked'[m] \in Nat
      BY MembersFacts DEF LevelInv, SolveTypeOK
    <3>2. QED
      BY <1>1, <3>1 DEF Checked, HeardAll
  <2>4. QED
    BY <1>1, <2>1, <2>2, <2>3
<1>5. ConvergedAsMeasured'
  BY <1>1 DEF ConvergedAsMeasured
<1>6. QED
  BY <1>3, <1>4, <1>5 DEF LevelInv

LEMMA RefusalKeeps ==
  ASSUME LevelConstants, LevelInv, Concludes("refused"), UNCHANGED setup,
         level' \in [Voices -> LevelRange],
         /\ snr' \in [Voices -> SnrReadings \union {Unread}] /\ snrLevel' \in [Voices -> Nat]
         /\ checked' \in [Voices -> Nat] /\ peak' \in Peaks \union {Unread}
         /\ rows' \subseteq Voices /\ rounds' \in Nat
  PROVE  LevelInv'
<1>1. outcome' = "refused" /\ UNCHANGED <<excite, issued, mode, separable, fixed>>
  BY DEF Concludes, setup
<1>2. SolveTypeOK'
  BY <1>1 DEF LevelInv, SolveTypeOK, LevelRange
<1>3. QED
  BY <1>1, <1>2 DEF LevelInv, Ramping, ConvergedAsMeasured

LEMMA BoundKeeps ==
  ASSUME LevelConstants, LevelInv, NEW e \in Voices \union {All}, ContinueOrBound(e), UNCHANGED setup,
         level' \in [Voices -> LevelRange],
         /\ snr' \in [Voices -> SnrReadings \union {Unread}] /\ snrLevel' \in [Voices -> Nat]
         /\ checked' \in [Voices -> Nat] /\ peak' \in Peaks \union {Unread}
         /\ rows' \subseteq Voices /\ rounds' \in Nat,
         mode = "parallel" => separable /\ HeardAll /\ (e = All \/ \A m \in Voices : m # e => level'[m] = level[m])
                                      /\ (e = All \/ \A m \in Voices : level'[m] <= level[m])
  PROVE  LevelInv'
<1>1. CASE Step(e)
  BY <1>1, StepKeeps
<1>2. CASE Concludes("refused")
  BY <1>2, RefusalKeeps
<1>3. QED
  BY <1>1, <1>2 DEF ContinueOrBound

-----------------------------------------------------------------------------
(* The decisions, each from the round it was taken on. *)

RoundOver(p) ==
  /\ LevelConstants /\ LevelInv /\ UNCHANGED setup /\ p \in Peaks
  /\ snr' \in [Voices -> SnrReadings \union {Unread}] /\ snrLevel' \in [Voices -> Nat]
  /\ checked' \in [Voices -> Nat] /\ peak' \in Peaks \union {Unread}
  /\ rows' \subseteq Voices /\ rounds' \in Nat
  /\ mode = "parallel" => separable /\ Issued /\ HeardAll

\* The excitation after a cut, a trim or a ramp is one of the solver's.
LEMMA NextIsExcitation ==
  ASSUME LevelConstants, LevelInv
  PROVE  /\ NextExcitations \subseteq Voices \union {All}
         /\ mode = "parallel" => NextExcitations = {All}
<1>1. {m \in Voices : snr'[m] = Unread} # {} => FirstOf({m \in Voices : snr'[m] = Unread}) \in Voices
  BY FirstIsMember
<1>2. Adjustable \subseteq Voices /\ 1 \in Voices
  BY MembersFacts DEF Adjustable
<1>3. QED
  BY <1>1, <1>2 DEF NextExcitations

LEMMA BackOffKeeps == ASSUME NEW p, RoundOver(p), BackOff PROVE LevelInv'
<1> DEFINE cut == {m \in Excited : CanCut(m) /\ snr'[m] \in {Unread, "above", "surplus"}}
<1>1. excite \in Voices \union {All} /\ Excited \subseteq Voices /\ level \in [Voices -> LevelRange]
  BY DEF RoundOver, LevelInv, SolveTypeOK, Excited
<1>2. CASE cut # {}
  <2>1. Lower(cut) /\ ContinueOrBound(excite)
    BY <1>2 DEF BackOff
  <2>2. level' \in [Voices -> LevelRange]
    BY <2>1 DEF Lower
  <2>3. \A m \in Voices : level'[m] <= level[m]
    <3>1. \A m \in Voices : level'[m] < level[m] \/ level'[m] = level[m]
      BY <2>1 DEF Lower
    <3>2. \A m \in Voices : level[m] \in Nat /\ level'[m] \in Nat
      BY <1>1, <2>2 DEF LevelRange
    <3>3. QED
      BY <3>1, <3>2
  <2>4. excite = All \/ \A m \in Voices : m # excite => level'[m] = level[m]
    BY <2>1 DEF Lower, Excited
  <2>5. QED
    BY <1>1, <2>1, <2>2, <2>3, <2>4, BoundKeeps DEF RoundOver
<1>3. CASE cut = {}
  BY <1>1, <1>3, RefusalKeeps DEF BackOff, RoundOver
<1>4. QED
  BY <1>2, <1>3

LEMMA TrimKeeps == ASSUME NEW p, RoundOver(p), TrimSurplus PROVE LevelInv'
<1> DEFINE cut == {m \in Voices : CanCut(m) /\ snr'[m] \in {"above", "surplus"}}
<1>1. level \in [Voices -> LevelRange]
  BY DEF RoundOver, LevelInv, SolveTypeOK
<1>2. CASE cut # {}
  <2>1. Lower(cut) /\ \E e \in NextExcitations : Step(e)
    BY <1>2 DEF TrimSurplus
  <2>2. level' \in [Voices -> LevelRange]
    BY <2>1 DEF Lower
  <2>3. PICK e \in NextExcitations : Step(e)
    BY <2>1
  <2>4. e \in Voices \union {All} /\ (mode = "parallel" => e = All)
    BY <2>3, NextIsExcitation DEF RoundOver
  <2>5. QED
    BY <2>2, <2>3, <2>4, StepKeeps DEF RoundOver
<1>3. CASE cut = {}
  BY <1>1, <1>3, RefusalKeeps DEF TrimSurplus, RoundOver
<1>4. QED
  BY <1>2, <1>3

LEMMA RampKeeps == ASSUME NEW p, RoundOver(p), Ramp PROVE LevelInv'
<1>1. level' \in [Voices -> LevelRange]
  BY DEF Ramp
<1>2. Concludes("refused") \/ \E e \in NextExcitations : ContinueOrBound(e)
  BY DEF Ramp
<1>3. CASE Concludes("refused")
  BY <1>1, <1>3, RefusalKeeps DEF RoundOver
<1>4. ASSUME NEW e \in NextExcitations, ContinueOrBound(e) PROVE LevelInv'
  <2>1. e \in Voices \union {All} /\ (mode = "parallel" => e = All)
    BY NextIsExcitation DEF RoundOver
  <2>2. QED
    BY <1>1, <1>4, <2>1, BoundKeeps DEF RoundOver
<1>5. QED
  BY <1>2, <1>3, <1>4

LEMMA ConvergenceKeeps ==
  ASSUME NEW p, RoundOver(p), Concludes("converged"), UNCHANGED level, peak' \in {"low", "near"},
         \A m \in Voices : snr'[m] # Unread /\ snr'[m] # "below"
  PROVE  LevelInv'
<1>1. outcome' = "converged" /\ UNCHANGED <<excite, issued, level, mode, separable, fixed>>
  BY DEF Concludes, RoundOver, setup
<1>2. SolveTypeOK'
  BY <1>1 DEF RoundOver, LevelInv, SolveTypeOK, LevelRange
<1>3. Ramping'
  BY <1>1 DEF Ramping
<1>4. ASSUME mode = "parallel" PROVE Confirmed'
  <2>1. Issued /\ HeardAll
    BY <1>4 DEF RoundOver
  <2>2. \A m \in Adjustable' : issued'[m] = level'[m]
    BY <1>1, <2>1 DEF Issued, Adjustable
  <2>3. \A m \in Voices : snr'[m] # "below" /\ snrLevel'[m] = level'[m] /\ level'[m] <= checked'[m]
    BY <1>1, <2>1 DEF HeardAll
  <2>4. peak' # "hot"
    OBVIOUS
  <2>5. QED
    BY <2>2, <2>3, <2>4 DEF Confirmed
<1>5. QED
  BY <1>1, <1>2, <1>3, <1>4 DEF LevelInv, ConvergedAsMeasured

LEMMA SettledKeeps ==
  ASSUME NEW p, RoundOver(p), AllSettled, \A m \in Voices : snr'[m] # "below"
  PROVE  LevelInv'
<1> DEFINE unread == {m \in Voices : snr'[m] = Unread}
           noRow  == Voices \ rows'
<1>1. UNCHANGED level /\ level' \in [Voices -> LevelRange] /\ \A m \in Voices : level'[m] <= level[m]
  <2>1. UNCHANGED level /\ level \in [Voices -> LevelRange]
    BY DEF AllSettled, RoundOver, LevelInv, SolveTypeOK
  <2>2. \A m \in Voices : level[m] \in Nat
    BY <2>1 DEF LevelRange
  <2>3. QED
    BY <2>1, <2>2
<1>2. (unread # {} => FirstOf(unread) \in Voices) /\ (noRow # {} => FirstOf(noRow) \in Voices)
  BY FirstIsMember DEF RoundOver
<1>3. ASSUME NEW e \in Voices \union {All}, ContinueOrBound(e) PROVE LevelInv'
  BY <1>1, <1>3, BoundKeeps DEF RoundOver
<1>4. CASE unread # {}
  BY <1>2, <1>3, <1>4 DEF AllSettled
<1>5. CASE unread = {} /\ peak' \notin {"low", "near"}
  BY <1>3, <1>5 DEF AllSettled
<1>6. CASE unread = {} /\ peak' \in {"low", "near"} /\ CrosstalkPass /\ separable /\ Count > 1 /\ noRow # {}
  BY <1>2, <1>3, <1>6 DEF AllSettled
<1>7. CASE unread = {} /\ peak' \in {"low", "near"} /\ ~(CrosstalkPass /\ separable /\ Count > 1 /\ noRow # {})
  <2>1. Concludes("converged")
    BY <1>7 DEF AllSettled
  <2>2. QED
    BY <1>1, <1>7, <2>1, ConvergenceKeeps
<1>8. QED
  BY <1>4, <1>5, <1>6, <1>7

LEMMA DecideKeeps == ASSUME NEW p, RoundOver(p), Decide(p) PROVE LevelInv'
<1>1. level \in [Voices -> LevelRange] /\ fixed \subseteq Voices
  BY DEF RoundOver, LevelInv, SolveTypeOK
<1>2. CASE \E m \in fixed : snr'[m] = "below"
  BY <1>1, <1>2, RefusalKeeps DEF Decide, RoundOver
<1>3. CASE BackOff
  BY <1>3, BackOffKeeps
<1>4. CASE TrimSurplus
  BY <1>4, TrimKeeps
<1>5. CASE Ramp
  BY <1>5, RampKeeps
<1>6. CASE AllSettled /\ ~(\E m \in fixed : snr'[m] = "below") /\ Up \union Down = {}
  <2>1. \A m \in Voices : snr'[m] # "below"
    BY <1>6 DEF Up, Adjustable
  <2>2. QED
    BY <1>6, <2>1, SettledKeeps
<1>7. QED
  BY <1>2, <1>3, <1>4, <1>5, <1>6 DEF Decide

LEMMA ObserveKeeps == LevelConstants /\ LevelInv /\ Observe => LevelInv'
<1> SUFFICES ASSUME LevelConstants, LevelInv, Observe PROVE LevelInv'
  OBVIOUS
<1>1. PICK heard \in [Attributable -> SnrReadings], p \in Peaks : Ingest(heard, p) /\ RecordRow(heard) /\ Decide(p)
  BY DEF Observe
<1>2. outcome = "ramping" /\ UNCHANGED setup
  BY DEF Observe
<1>3. mode = "parallel" => separable /\ Issued /\ HeardAll
  BY <1>1, <1>2, HeardInRound DEF LevelInv, Ramping
<1>4. RoundOver(p)
  BY <1>1, <1>2, <1>3, RoundTypes DEF RoundOver
<1>5. QED
  BY <1>1, <1>4, DecideKeeps

LEMMA MissKeeps == LevelConstants /\ LevelInv /\ MissChannel => LevelInv'
<1> SUFFICES ASSUME LevelConstants, LevelInv, MissChannel PROVE LevelInv'
  OBVIOUS
<1>1. UNCHANGED <<setup, level, snr, snrLevel, rows, peak, checked>> /\ rounds' = rounds + 1 /\ Concludes("refused")
  BY DEF MissChannel
<1>2. rounds' \in Nat
  BY <1>1 DEF LevelInv, SolveTypeOK
<1>3. QED
  BY <1>1, <1>2, RefusalKeeps DEF LevelInv, SolveTypeOK

LEMMA SolveStutterKeeps == LevelInv /\ UNCHANGED levelVars => LevelInv'
BY DEF LevelInv, SolveTypeOK, Ramping, Issued, Adjustable, Reread, Fresh, Excited, Checked, ConvergedAsMeasured,
       Confirmed, levelVars, LevelRange

\* What a parallel solve hands to the measurement is what its rounds have
\* measured, in whatever order the all-members rounds, the solo rounds, the
\* back-offs and the trims come, for any members and any bounds on the rounds.
THEOREM SolverConvergedAsMeasured ==
  ASSUME LevelConstants PROVE LevelSpec => []ConvergedAsMeasured
<1>1. LevelInit => LevelInv
  BY InitSolve
<1>2. LevelInv /\ [LevelNext]_levelVars => LevelInv'
  BY ObserveKeeps, MissKeeps, SolveStutterKeeps DEF LevelNext
<1>3. LevelInv => ConvergedAsMeasured
  BY DEF LevelInv
<1>4. QED
  BY <1>1, <1>2, <1>3, PTL DEF LevelSpec

=============================================================================
