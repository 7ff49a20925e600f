------------------------------- MODULE DuckSync -------------------------------
(***************************************************************************)
(* When an agent follows the duck holds.  DuckHolds with a record of the   *)
(* three ways in which a host may come to apply a depth that is not the    *)
(* one in force:                                                           *)
(*   - two tasks are between reading and posting the same output's depth;  *)
(*   - the remote-duck queue was full;                                     *)
(*   - the agent lost its connection, and with it the depth it was told.   *)
(***************************************************************************)
EXTENDS DuckHolds

VARIABLE missed   \* has any of them happened?

Racing == \E t, u \in Tasks :
            /\ t # u /\ task[t].at = task[u].at
            /\ task[t].at # "none"

Missing ==
  \/ Racing'
  \/ \E t \in Tasks : Full /\ SyncPost(t)
  \/ \E o \in Outputs : told[o] # NoDuck /\ AgentReconnects(o)

syncVars == <<duckVars, missed>>

SyncInit == DuckInit /\ missed = FALSE

SyncNext == DuckNext /\ missed' = (missed \/ Missing)

SyncSpec == SyncInit /\ [][SyncNext]_syncVars /\ Fairness

(* "Every producer of ducking must re-assert the aggregate rather than clear *)
(* it": every start, release, expiry and announcement does, so that a host   *)
(* applies the strongest gain in force unless one of the three happened.     *)
FollowsUnlessMissed == ~missed => AgentFollows
=============================================================================
