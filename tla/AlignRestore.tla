------------------------------ MODULE AlignRestore ------------------------------
(***************************************************************************)
(* When a teardown gives the room back.  AlignDropped with a record of the *)
(* three ways in which the speakers may be left as the run had them though *)
(* the teardown can restore them:                                          *)
(*   - a request that changes audibility is still talking to the speakers  *)
(*     of a session that is being, or has been, torn down;                 *)
(*   - a new session snapshots levels that an older one has not restored;  *)
(*   - a request is dropped while it owns levels that only it can restore  *)
(*     (the hold's own Drop gives back the mutes, not the levels).         *)
(***************************************************************************)
EXTENDS AlignDropped

VARIABLE crossed   \* has any of them happened?

OutlivedBy(h) == tear[h] # "none"

Crossing ==
  \/ \E p \in Passes : pass[p].pc # "idle" /\ OutlivedBy(pass[p].hold)
  \/ start.pc \in {"mutes", "levels"} /\ ~start.fresh /\ OutlivedBy(start.hold)
  \/ StartAt("snapshot") /\ \E h \in Holds : tear[h] = "restore"

\* A step drops a request that had yet to restore the levels of its hold.
Dropping(h) == tear[h] \in {"none", "restore"} /\ tear'[h] = "dropped" /\ disturbed \cap held[h] # {}

RestoreInit == Init /\ crossed = FALSE

RestoreNext == DroppingNext /\ crossed' = (crossed \/ Crossing' \/ \E h \in Holds : Dropping(h))

RestoreSpec == RestoreInit /\ [][RestoreNext]_<<vars, crossed>>

(* "Every restore the run owes the room happens in it", on every path out: a *)
(* stop, the watchdog, a superseding start, a start that lost its race, in   *)
(* any interleaving in which none of the three occurred.  Once no session    *)
(* and no task is at work no relay mute is left, and no member's own level   *)
(* or mute but where a teardown had none to write, or no way to write it.    *)
RestoredUnlessCrossed == ~crossed => (Quiet => relayMutes = {} /\ disturbed \subseteq left)
=============================================================================
