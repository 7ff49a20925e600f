------------------------------- MODULE MeasureRun -------------------------------
(***************************************************************************)
(* align/measure: the microphone measurement.  MeasureManager keeps one    *)
(* state, Inner, that its calls and the task of a run change under a lock; *)
(* a task outlives the Inner it was started with, since `abandon` only     *)
(* sets its token.  A run measures its set by itself ("passes"), position  *)
(* by position ("chain") or speaker by speaker ("walk"), and what it       *)
(* proposes is written by a second task, of `apply`.                       *)
(*                                                                         *)
(* A reading is told apart by the capture it was taken in.  Which delays a *)
(* solution asks for, and whether a check passes, is left open.            *)
(***************************************************************************)
EXTENDS Integers, Sequences, FiniteSets

CONSTANTS
  Members,      \* the speakers of the alignment session
  Runs,         \* tasks, in the order they may be started
  Modes,        \* a subset of {"passes", "chain", "walk"}
  Readings,     \* readings of a set that is measured without the user
  MaxRestarts,  \* MAX_SET_RESTARTS, MAX_WALK_RESTARTS, MAX_CHAIN_STEP_RESTARTS
  Overlap,      \* whether a start may be called while another one is
  Captures,     \* bound on the captures of the microphone
  MaxAbandons   \* bound on calls of abandon

\* Speakers and tasks have an order; 0 is the token of no task.
MeasureConstants ==
  /\ Members \subseteq Nat /\ Runs \subseteq Nat \ {0}
  /\ Modes \subseteq {"passes", "chain", "walk"}
  /\ Readings \in Nat /\ MaxRestarts \in Nat

VARIABLES
  inner,        \* MeasureManager::inner
  run,          \* the tasks, and the calls of start and apply that become one
  cancelled,    \* tasks whose token is set
  revert,       \* the call of revert that is writing, or NoRevert
  line,         \* speakers whose delay line is in force (relay_delay.rs)
  mic,          \* [on, capture]
  active,       \* the alignment session is active
  abandons,
  overlaid,     \* history: lines whose record a start replaced
  owed,         \* history: speakers whose delay runs since the last start replaced
  interleaved       \* history: a call came between the steps of another, see Crosses and Late

innerVars == <<inner, run, cancelled>>
micVars   == <<mic, active>>
historyVars == <<overlaid, owed>>
measureVars == <<innerVars, revert, line, micVars, abandons, historyVars, interleaved>>

NoRevert == [todo |-> {}, restored |-> {}, on |-> FALSE]

Idle ==
  [phase |-> "idle", mode |-> "passes", running |-> FALSE, token |-> 0, tx |-> 0, next |-> "none",
   aligned |-> {}, prov |-> {}, proposal |-> {}, written |-> {}, before |-> {}]

NoTask ==
  [pc |-> "none", kind |-> "measure", mode |-> "passes", todo |-> 0, caps |-> {},
   armed |-> 0, cmd |-> <<>>, aligned |-> {}, posted |-> {}, closing |-> FALSE, restarts |-> 0,
   lines |-> {}, writes |-> {}, outcome |-> "none",
   unseen |-> FALSE]  \* history: the capture changed while the task was not reading

MeasureInit ==
  /\ inner = Idle /\ run = [r \in Runs |-> NoTask] /\ cancelled = {}
  /\ revert = NoRevert /\ line = {}
  /\ mic = [on |-> TRUE, capture |-> 1] /\ active = TRUE /\ abandons = 0
  /\ overlaid = {} /\ owed = {} /\ interleaved = FALSE

IsTerminal(phase) == phase \in {"idle", "done", "refused", "proposed"}
Live(r) == run[r].pc \notin {"none", "checked", "ended"}
At(r, pc) == run[r].pc = pc

\* where a task stands next
Goes(r, next) == run' = [run EXCEPT ![r] = next]
To(r, pc) == [run[r] EXCEPT !.pc = pc]
Ends(r) == Goes(r, [NoTask EXCEPT !.pc = "ended"])
Refused(r, why) ==
  [NoTask EXCEPT !.pc = "finish", !.kind = run[r].kind, !.mode = run[r].mode, !.cmd = run[r].cmd, !.outcome = why]
Say(phase) == inner' = [inner EXCEPT !.phase = phase]

-----------------------------------------------------------------------------
(* start and apply look at Inner, let go of it, and come back to change it. *)

StartChecked(r, mode) ==
  /\ At(r, "none") /\ \A q \in Runs : q < r => ~At(q, "none")
  /\ ~inner.running /\ IsTerminal(inner.phase) /\ (Overlap \/ \A q \in Runs : ~At(q, "checked"))
  /\ Goes(r, [run[r] EXCEPT !.pc = "checked", !.kind = "measure", !.mode = mode])
  /\ UNCHANGED <<inner, cancelled, revert, line, micVars, abandons, historyVars>>

RunRefused(r) ==
  /\ At(r, "checked") /\ run[r].kind = "measure" /\ ~(active /\ mic.on)
  /\ Ends(r)
  /\ UNCHANGED <<inner, cancelled, revert, line, micVars, abandons, historyVars>>

\* *inner = Inner::idle_watching(..), and the fields of the new run
StartState(r) ==
  [Idle EXCEPT !.phase = "arming", !.mode = run[r].mode, !.running = TRUE, !.token = r,
     !.tx = IF run[r].mode = "passes" THEN 0 ELSE r, !.before = Members]

\* another task or a revert is under way, or what apply saw is gone
Crosses(r) ==
  \/ revert.on \/ \E q \in Runs \ {r} : Live(q)
  \/ run[r].kind = "apply" /\ inner.phase # "proposed"

StartInstalled(r) ==
  /\ At(r, "checked") /\ run[r].kind = "measure" /\ active /\ mic.on
  /\ inner' = StartState(r)
  /\ Goes(r, To(r, "bind"))
  /\ overlaid' = overlaid \union inner.prov
  /\ owed' = {}
  /\ UNCHANGED <<cancelled, revert, line, micVars, abandons>>

ApplyChecked(r) ==
  /\ At(r, "none") /\ \A q \in Runs : q < r => ~At(q, "none")
  /\ ~inner.running /\ inner.phase = "proposed" /\ inner.proposal # {}
  /\ Goes(r, [run[r] EXCEPT !.pc = "checked", !.kind = "apply", !.mode = inner.mode,
                            !.writes = UNION inner.proposal])
  /\ UNCHANGED <<inner, cancelled, revert, line, micVars, abandons, historyVars>>

ApplyInstalled(r) ==
  /\ At(r, "checked") /\ run[r].kind = "apply"
  /\ inner' = [inner EXCEPT !.phase = "writing", !.token = r, !.running = TRUE,
                            !.tx = IF run[r].mode = "walk" THEN r ELSE 0]
  /\ Goes(r, To(r, "bind"))
  /\ UNCHANGED <<cancelled, revert, line, micVars, abandons, historyVars>>

-----------------------------------------------------------------------------
(* The calls that steer a run.  Each is checked and posted under the lock. *)

Posts(cmd) ==
  /\ inner.next = "post" /\ inner.tx # 0 /\ Live(inner.tx)
  /\ inner' = [inner EXCEPT !.next = "busy"]
  /\ run' = [run EXCEPT ![inner.tx].cmd = Append(@, cmd)]
  /\ UNCHANGED <<cancelled, revert, line, micVars, abandons, historyVars>>

\* a position aligns speakers that are not aligned yet, against some that are
Position(members, overlaps) ==
  /\ inner.mode = "chain" /\ inner.phase = "positioning"
  /\ members # {} /\ members \intersect inner.aligned = {}
  /\ overlaps \subseteq inner.aligned /\ (inner.aligned = {} <=> overlaps = {})
  /\ Cardinality(members \union overlaps) >= 2
  /\ Posts([call |-> "position", members |-> members])

Finish ==
  /\ inner.mode = "chain" /\ inner.phase = "positioning" /\ inner.aligned = Members
  /\ Posts([call |-> "finish", members |-> {}])

Arrival(m) ==
  /\ inner.mode = "walk" /\ inner.phase = "walking" /\ m \notin inner.aligned
  /\ Posts([call |-> "arrival", members |-> {m}])

Close ==
  /\ inner.mode = "walk" /\ inner.phase = "walking" /\ inner.aligned = Members
  /\ Posts([call |-> "close", members |-> {}])

\* Mutant of Abandoned: everything is forgotten.
AbandonedWhole == Idle

\* the written delays outlive an abandoned run, and with them what revert needs
Abandoned ==
  IF inner.written = {} THEN Idle
  ELSE [Idle EXCEPT !.written = inner.written, !.before = inner.before]

Abandon ==
  /\ abandons < MaxAbandons /\ abandons' = abandons + 1
  /\ cancelled' = IF inner.token = 0 THEN cancelled ELSE cancelled \union {inner.token}
  /\ line' = line \ inner.prov
  /\ inner' = Abandoned
  /\ UNCHANGED <<run, revert, micVars, historyVars>>

RevertBegins ==
  /\ ~revert.on /\ ~inner.running
  /\ LET known == inner.written \intersect inner.before
     IN  known # {} /\ revert' = [todo |-> known, restored |-> {}, on |-> TRUE]
  /\ UNCHANGED <<innerVars, line, micVars, abandons, historyVars>>

RevertWrites(m, ok) ==
  /\ revert.on /\ m \in revert.todo
  /\ revert' = [revert EXCEPT !.todo = @ \ {m}, !.restored = IF ok THEN @ \union {m} ELSE @]
  /\ owed' = IF ok THEN owed \ {m} ELSE owed
  /\ UNCHANGED <<innerVars, line, micVars, abandons, overlaid>>

RevertEnds ==
  /\ revert.on /\ revert.todo = {}
  /\ inner' = [inner EXCEPT !.written = @ \ revert.restored]
  /\ revert' = NoRevert
  /\ UNCHANGED <<run, cancelled, line, micVars, abandons, historyVars>>
-----------------------------------------------------------------------------
(* The task of a run.  It looks at its token only at some of its steps. *)

Looks(r) == run[r].pc \in {"bind", "park", "guard", "read", "prime", "settle"}

\* finish(): a cancelled run ends without a word
Stops(r) ==
  /\ Looks(r) /\ r \in cancelled
  /\ Ends(r)
  /\ UNCHANGED <<inner, cancelled, revert, line, micVars, abandons, historyVars>>

\* bind() finds the session or the microphone gone
BindFails(r) ==
  /\ run[r].pc \in {"bind", "park", "read"} /\ ~(active /\ mic.on)
  /\ Goes(r, Refused(r, "refused"))
  /\ UNCHANGED <<inner, cancelled, revert, line, micVars, abandons, historyVars>>

\* the readings still to take of a set that is taken without the user
Measures(r) == [run[r] EXCEPT !.pc = "solo", !.todo = Readings, !.caps = {}, !.unseen = FALSE]

Begins(r) ==
  /\ At(r, "bind") /\ active /\ mic.on
  /\ \/ run[r].kind = "apply" /\ Say("writing") /\ Goes(r, To(r, "write"))
     \/ run[r].kind = "measure" /\ run[r].mode = "passes" /\ Say("learning") /\ Goes(r, Measures(r))
     \/ run[r].kind = "measure" /\ run[r].mode # "passes" /\ Say("learning") /\ Goes(r, To(r, "offer"))
  /\ UNCHANGED <<cancelled, revert, line, micVars, abandons, historyVars>>

\* the loop of run_chain and of run_walk tells what it is waiting for
Offers(r) ==
  /\ At(r, "offer")
  /\ inner' = [inner EXCEPT !.next = "post", !.aligned = run[r].aligned,
                            !.phase = IF run[r].mode = "chain" THEN "positioning" ELSE "walking"]
  /\ Goes(r, IF run[r].mode = "chain"
             THEN [To(r, "park") EXCEPT !.posted = {}, !.restarts = 0, !.caps = {}, !.unseen = FALSE]
             ELSE [To(r, "park") EXCEPT !.posted = {}])
  /\ UNCHANGED <<cancelled, revert, line, micVars, abandons, historyVars>>

\* nobody came, or Inner let go of the sending end
ParkEnds(r) ==
  /\ At(r, "park")
  /\ Goes(r, Refused(r, "refused"))
  /\ UNCHANGED <<inner, cancelled, revert, line, micVars, abandons, historyVars>>

TakesCall(r) ==
  /\ At(r, "park") /\ run[r].cmd # <<>>
  /\ LET c    == Head(run[r].cmd)
         rest == Tail(run[r].cmd)
     IN  \/ /\ c.call = "position"
            /\ Goes(r, [Measures(r) EXCEPT !.restarts = 0, !.cmd = rest, !.posted = c.members])
         \/ /\ c.call = "finish"
            /\ Goes(r, [To(r, "solve") EXCEPT !.cmd = rest, !.posted = c.members])
         \/ /\ c.call \in {"arrival", "close"}
            /\ Goes(r, [To(r, "solo") EXCEPT !.todo = 1, !.closing = (c.call = "close"),
                                              !.cmd = rest, !.posted = c.members])
  /\ UNCHANGED <<inner, cancelled, revert, line, micVars, abandons, historyVars>>

-----------------------------------------------------------------------------
(* One reading: measure_member, with the gate (gate.rs) and the feeder (feeder.rs). *)

Solos(r) ==
  /\ At(r, "solo")
  /\ Say(IF run[r].kind = "apply" /\ run[r].mode # "walk" THEN "verifying" ELSE "measuring")
  /\ Goes(r, IF active THEN To(r, "guard") ELSE Refused(r, "refused"))
  /\ UNCHANGED <<cancelled, revert, line, micVars, abandons, historyVars>>

\* Feeder::arm, once the others are surely mute
Arms(r) ==
  /\ At(r, "guard")
  /\ Goes(r, [To(r, "read") EXCEPT !.armed = mic.capture])
  /\ UNCHANGED <<inner, cancelled, revert, line, micVars, abandons, historyVars>>

\* a gap, clipping, silence, interference: the reading begins anew
GateRestarts(r) ==
  /\ At(r, "read") /\ mic.on
  /\ Goes(r, [run[r] EXCEPT !.armed = mic.capture, !.unseen = @ \/ run[r].armed # mic.capture])
  /\ UNCHANGED <<inner, cancelled, revert, line, micVars, abandons, historyVars>>

\* what follows the last reading of a set
AfterSet(r) ==
  CASE run[r].mode = "walk" /\ ~run[r].closing -> "offer"
    [] run[r].mode = "chain" /\ run[r].kind = "measure" -> "step"
    [] run[r].kind = "apply" /\ (run[r].mode = "walk" => run[r].closing) -> "verify"
    [] OTHER -> "solve"

\* in a walk the speaker that was read has been visited
Visited(r) ==
  IF run[r].mode = "walk" /\ ~run[r].closing /\ run[r].todo <= 1 THEN run[r].aligned \union run[r].posted
  ELSE run[r].aligned

Locks(r) ==
  /\ At(r, "read") /\ mic.on /\ mic.capture = run[r].armed
  /\ Goes(r, [To(r, IF run[r].todo > 1 THEN "solo" ELSE AfterSet(r)) EXCEPT
               !.caps = @ \union {run[r].armed}, !.todo = @ - 1, !.armed = 0, !.aligned = Visited(r)])
  /\ UNCHANGED <<inner, cancelled, revert, line, micVars, abandons, historyVars>>

\* A refused reading ends the run; a position can be posted again.
ReadingRefused(r) ==
  IF run[r].kind = "measure" /\ run[r].mode = "chain" THEN To(r, "offer") ELSE Refused(r, "refused")

GateTimesOut(r) ==
  /\ At(r, "read")
  /\ Goes(r, ReadingRefused(r))
  /\ UNCHANGED <<inner, cancelled, revert, line, micVars, abandons, historyVars>>

\* Mutant of SetAgain: what was read in the old capture is kept.
SetGoesOn(r) ==
  [To(r, IF run[r].mode = "walk" THEN "offer" ELSE "solo") EXCEPT !.restarts = @ + 1]

\* nothing read before a new capture can be compared with what is read in it
SetAgain(r) ==
  IF run[r].mode = "walk"
  THEN [To(r, "offer") EXCEPT !.restarts = @ + 1, !.aligned = {}, !.caps = {}, !.unseen = FALSE]
  ELSE [Measures(r) EXCEPT !.restarts = @ + 1]

SeesNewCapture(r) ==
  /\ At(r, "read") /\ mic.on /\ mic.capture # run[r].armed
  /\ LET again == run[r].restarts < MaxRestarts /\ (run[r].kind = "measure" \/ run[r].mode = "walk")
     IN  Goes(r, IF again THEN SetAgain(r) ELSE ReadingRefused(r))
  /\ UNCHANGED <<inner, cancelled, revert, line, micVars, abandons, historyVars>>

-----------------------------------------------------------------------------
(* run_chain: a measured position becomes delay lines. *)

\* the lines that are still to be set
LinesLeft(r, left) == [To(r, IF left = {} THEN "prime" ELSE "lines") EXCEPT !.lines = left]

StepAccepted(r, shifts) ==
  /\ At(r, "step")
  /\ Goes(r, LinesLeft(r, run[r].posted \union IF shifts THEN run[r].aligned ELSE {}))
  /\ UNCHANGED <<inner, cancelled, revert, line, micVars, abandons, historyVars>>

StepRefused(r, fatally) ==
  /\ At(r, "step")
  /\ Goes(r, IF fatally THEN Refused(r, "refused") ELSE To(r, "offer"))
  /\ UNCHANGED <<inner, cancelled, revert, line, micVars, abandons, historyVars>>

First(S) == CHOOSE m \in S : \A n \in S : m <= n

\* apply_provisional sets a line, and then takes the lock to note it
SetsLine(r) ==
  /\ At(r, "lines")
  /\ LET m == First(run[r].lines) IN
     \/ line' = line \union {m} /\ Goes(r, To(r, "note"))
     \/ m \in run[r].posted /\ line' = line \ {m} /\ Goes(r, To(r, "note"))  \* a delay of 0 is no line
     \/ line' = line /\ Goes(r, Refused(r, "refused"))
  /\ UNCHANGED <<inner, cancelled, revert, micVars, abandons, historyVars>>

NotesLine(r) ==
  /\ At(r, "note")
  /\ inner' = [inner EXCEPT !.prov = @ \union {First(run[r].lines)}]
  /\ Goes(r, LinesLeft(r, run[r].lines \ {First(run[r].lines)}))
  /\ UNCHANGED <<cancelled, revert, line, micVars, abandons, historyVars>>

Primed(r) ==
  /\ At(r, "prime")
  /\ \/ LET all == run[r].aligned \union run[r].posted
        IN  inner' = [inner EXCEPT !.prov = all] /\ Goes(r, [To(r, "offer") EXCEPT !.aligned = all])
     \/ inner' = inner /\ Goes(r, Refused(r, "refused"))
  /\ UNCHANGED <<cancelled, revert, line, micVars, abandons, historyVars>>

Solves(r, writes) ==
  /\ At(r, "solve")
  /\ inner' = [inner EXCEPT !.proposal = {writes}, !.phase = "proposed",
                            !.next = IF run[r].mode = "chain" THEN "done" ELSE @]
  /\ Goes(r, Refused(r, "proposed"))
  /\ UNCHANGED <<cancelled, revert, line, micVars, abandons, historyVars>>

SolveRefused(r) ==
  /\ At(r, "solve")
  /\ Say("solving") /\ Goes(r, Refused(r, "refused"))
  /\ UNCHANGED <<cancelled, revert, line, micVars, abandons, historyVars>>

-----------------------------------------------------------------------------
(* run_apply: the wave of writes, and the check of it. *)

Writes(r) ==
  /\ At(r, "write") /\ run[r].writes # {}
  /\ LET m == First(run[r].writes) IN
     \/ owed' = owed \union {m} /\ Goes(r, To(r, "mark"))
     \/ owed' = owed /\ Goes(r, Refused(r, "refused"))
  /\ UNCHANGED <<inner, cancelled, revert, line, micVars, abandons, overlaid>>

Marks(r) ==
  /\ At(r, "mark")
  /\ LET m == First(run[r].writes) IN
     /\ inner' = [inner EXCEPT !.written = @ \union {m}]
     /\ Goes(r, [To(r, "write") EXCEPT !.writes = @ \ {m}])
  /\ UNCHANGED <<cancelled, revert, line, micVars, abandons, historyVars>>

\* the knobs carry what the lines stood in for
Written(r) ==
  /\ At(r, "write") /\ run[r].writes = {}
  /\ line' = line \ inner.prov
  /\ inner' = [inner EXCEPT !.prov = {}, !.phase = "settling"]
  /\ Goes(r, To(r, "settle"))
  /\ UNCHANGED <<cancelled, revert, micVars, abandons, historyVars>>

Settled(r) ==
  /\ At(r, "settle")
  /\ Say("verifying")
  /\ Goes(r, IF run[r].mode = "walk" THEN To(r, "offer") ELSE Measures(r))
  /\ UNCHANGED <<cancelled, revert, line, micVars, abandons, historyVars>>

Verified(r, passed) ==
  /\ At(r, "verify")
  /\ Goes(r, Refused(r, IF passed THEN "done" ELSE "refused"))
  /\ UNCHANGED <<inner, cancelled, revert, line, micVars, abandons, historyVars>>

-----------------------------------------------------------------------------
(* finish() and park(): the token is looked at, and then the lock is taken. *)

Finishes(r) ==
  /\ At(r, "finish")
  /\ IF r \in cancelled THEN Ends(r) ELSE Goes(r, To(r, "parks"))
  /\ UNCHANGED <<inner, cancelled, revert, line, micVars, abandons, historyVars>>

\* a run that ends without a write owes its lines back
LinesAfter(outcome) == IF outcome = "refused" THEN line \ inner.prov ELSE line

Parks(r) ==
  /\ At(r, "parks")
  /\ line' = LinesAfter(run[r].outcome)
  /\ inner' = [inner EXCEPT !.running = FALSE, !.tx = 0, !.next = "done", !.phase = run[r].outcome,
                            !.prov = IF run[r].outcome = "refused" THEN {} ELSE @]
  /\ Goes(r, To(r, "silence"))
  /\ UNCHANGED <<cancelled, revert, micVars, abandons, historyVars>>

Silences(r) ==
  /\ At(r, "silence") /\ Ends(r)
  /\ UNCHANGED <<inner, cancelled, revert, line, micVars, abandons, historyVars>>

-----------------------------------------------------------------------------
MicDrops ==
  /\ mic.on /\ mic' = [mic EXCEPT !.on = FALSE]
  /\ UNCHANGED <<innerVars, revert, line, active, abandons, historyVars>>

\* MicIngest::begin: frames are counted from 0 again
MicReturns ==
  /\ ~mic.on /\ mic.capture < Captures
  /\ mic' = [on |-> TRUE, capture |-> mic.capture + 1]
  /\ run' = [r \in Runs |->
       IF Live(r) /\ run[r].caps # {} /\ ~At(r, "read") THEN [run[r] EXCEPT !.unseen = TRUE] ELSE run[r]]
  /\ UNCHANGED <<inner, cancelled, revert, line, active, abandons, historyVars>>

SessionStops ==
  /\ active /\ active' = FALSE
  /\ UNCHANGED <<innerVars, revert, line, mic, abandons, historyVars>>

TaskStep(r) ==
  \/ Stops(r) \/ BindFails(r) \/ Begins(r) \/ Offers(r) \/ ParkEnds(r) \/ TakesCall(r)
  \/ Solos(r) \/ Arms(r) \/ Locks(r) \/ GateTimesOut(r) \/ SeesNewCapture(r)
  \/ \E shifts \in BOOLEAN : StepAccepted(r, shifts)
  \/ \E fatally \in BOOLEAN : StepRefused(r, fatally)
  \/ SetsLine(r) \/ NotesLine(r) \/ Primed(r)
  \/ \E writes \in SUBSET Members : Solves(r, writes)
  \/ SolveRefused(r) \/ Writes(r) \/ Marks(r) \/ Written(r) \/ Settled(r)
  \/ \E passed \in BOOLEAN : Verified(r, passed)
  \/ Finishes(r) \/ Parks(r) \/ Silences(r)

\* an abandoned task that has not found out
Late(r) == r \in cancelled /\ run'[r].pc # "ended"

TaskMoves(r) == TaskStep(r) /\ interleaved' = (interleaved \/ Late(r))

RunCalled ==
  \E r \in Runs : (StartInstalled(r) \/ ApplyInstalled(r)) /\ interleaved' = (interleaved \/ Crosses(r))

CallStep ==
  \/ \E r \in Runs : \/ \E mode \in Modes : StartChecked(r, mode)
                     \/ RunRefused(r) \/ ApplyChecked(r)
  \/ \E members, overlaps \in SUBSET Members : Position(members, overlaps)
  \/ Finish \/ (\E m \in Members : Arrival(m)) \/ Close
  \/ Abandon
  \/ RevertBegins \/ (\E m \in Members, ok \in BOOLEAN : RevertWrites(m, ok)) \/ RevertEnds

HostStep == (\E r \in Runs : GateRestarts(r)) \/ MicDrops \/ MicReturns \/ SessionStops

MeasureNext ==
  \/ (CallStep \/ HostStep) /\ UNCHANGED interleaved
  \/ RunCalled \/ \E r \in Runs : TaskMoves(r)

MeasureSpec == MeasureInit /\ [][MeasureNext]_measureVars

-----------------------------------------------------------------------------

(* Whatever delays runs have replaced since the last start, revert knows and puts back: unless
   calls crossed. *)
RevertKnowsWrites ==
  interleaved \/ \A m \in owed :
    \/ m \in inner.written \intersect inner.before
    \/ \E r \in Runs : At(r, "mark") /\ m = First(run[r].writes)

(* The readings a set is solved from were all taken in one capture: unless the capture changed
   while no reading was under way. *)
SetIsOneCapture == \A r \in Runs : Cardinality(run[r].caps) <= 1 \/ run[r].unseen

=============================================================================
