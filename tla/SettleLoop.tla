------------------------------ MODULE SettleLoop ------------------------------
(***************************************************************************)
(* The loop inside settle() (announce/arbiter.rs), one iteration per step: *)
(* find the first queued entry, in queue order, whose targets are all      *)
(* unoccupied and unreserved; move it to `active`; search again from the   *)
(* front; stop when there is none.  AnnounceScheduler replaces the whole   *)
(* loop by IsSweep; this module shows that the two agree.                  *)
(***************************************************************************)
EXTENDS AnnounceOrder, FiniteSets

CONSTANTS Targets, Ranks, QueueLen

LoopConstants == Ranks \subseteq Int /\ QueueLen \in Nat

VARIABLES
  arrived,   \* the queue the loop was entered with (never changes)
  claimed,   \* outputs occupied or reserved on entry (never changes)
  waiting,   \* what is left in `queue`
  started,   \* what the loop has moved to `active`
  halted     \* the search found nothing

loopVars == <<arrived, claimed, waiting, started, halted>>

\* Queues of up to QueueLen entries, each with its own seq.
Queues == {{[seq |-> s, priority |-> f[s].priority, targets |-> f[s].targets] : s \in DOMAIN f} :
             f \in UNION {[1..n -> [priority : Ranks, targets : (SUBSET Targets) \ {{}}]] : n \in 0..QueueLen}}

LoopInit ==
  /\ arrived \in Queues
  /\ claimed \in SUBSET Targets
  /\ waiting = arrived
  /\ started = {}
  /\ halted = FALSE

\* Faulty: looks at the occupancy the loop was entered with.
StartableOnEntry(e) == e.targets \cap claimed = {}

Startable(e) == e.targets \cap (claimed \cup Occupied(started)) = {}

Iterate ==
  /\ ~halted
  /\ \E e \in waiting :
       /\ Startable(e)
       /\ \A f \in waiting : Before(f, e) => ~Startable(f)
       /\ waiting' = waiting \ {e}
       /\ started' = started \cup {e}
  /\ UNCHANGED <<arrived, claimed, halted>>

Break ==
  /\ ~halted
  /\ \A e \in waiting : ~Startable(e)
  /\ halted' = TRUE
  /\ UNCHANGED <<arrived, claimed, waiting, started>>

LoopNext == Iterate \/ Break

LoopSpec == LoopInit /\ [][LoopNext]_loopVars /\ WF_loopVars(LoopNext)

-----------------------------------------------------------------------------
(* "A single ordered sweep with rechecks suffices": restarting the search    *)
(* from the front after every start gives exactly the one set IsSweep        *)
(* describes, so settle() is deterministic and IsSweep is not empty.         *)
LoopComputesSweep ==
  halted => {S \in SUBSET arrived : IsSweep(S, arrived, claimed)} = {started}

=============================================================================
