------------------------------ MODULE AlignDropped ------------------------------
(***************************************************************************)
(* AlignSession with clients that go away: a request is a future, and it   *)
(* is dropped at the await it has reached.                                 *)
(***************************************************************************)
EXTENDS AlignSession

(* A request whose client goes away is dropped where it awaits.  What it     *)
(* owned is dropped with it: ExclusiveHold::drop() does the synchronous half *)
(* of a release and spawns the other, unless release() has already begun.    *)
DropHold(h) ==
  /\ relayMutes' = relayMutes \ held[h]
  /\ reserved' = reserved \ {h}
  /\ CloseRegistry(h)
  /\ TearGoes(h, "dropped")
  /\ ForgetSnapshot(h)
  /\ UNCHANGED <<override, held, lastHold, disturbed, left>>

DropTeardown(h) ==
  \/ tear[h] = "restore" /\ DropHold(h)
  \/ tear[h] = "override" /\ TearGoes(h, "done") /\ UNCHANGED <<holdVars, speakerVars>>

\* acquire() awaits the override before there is a hold to drop; a rescope owns none.
StartDropped ==
  /\ \/ /\ \/ start.pc \in {"rescope", "take", "open", "override"}
           \/ start.pc \in {"mutes", "levels"} /\ ~start.fresh
        /\ UNCHANGED <<holdVars, speakerVars, tear>>
     \/ start.pc \in {"anchor", "snapshot", "mutes", "levels", "publish"} /\ start.fresh /\ DropHold(start.hold)
     \/ start.pc \in {"tear", "release"} /\ DropTeardown(start.hold)
  /\ start' = IdleStart
  /\ UNCHANGED <<session, stopping, byTask, pass>>

StopDropped(h) ==
  /\ h # start.hold /\ h \notin byTask
  /\ DropTeardown(h)
  /\ UNCHANGED <<session, start, stopping, byTask, pass>>

PassDropped(p) ==
  /\ pass[p].pc # "idle"
  /\ pass' = [pass EXCEPT ![p] = IdlePass]
  /\ UNCHANGED <<holdVars, speakerVars, session, start, stopping, tear, byTask>>

\* The task ExclusiveHold::drop() spawns for the half that needs a lock.
TearDropped(h) ==
  /\ tear[h] = "dropped"
  /\ ClearOverride(h)
  /\ TearGoes(h, "done")
  /\ UNCHANGED <<registry, reserved, held, lastHold, speakerVars, session, start, stopping, byTask, pass>>

-----------------------------------------------------------------------------
DroppingNext ==
  \/ Next
  \/ StartDropped
  \/ \E h \in Holds : StopDropped(h) \/ TearDropped(h)
  \/ \E p \in Passes : PassDropped(p)

DroppingSpec == Init /\ [][DroppingNext]_vars
=============================================================================
