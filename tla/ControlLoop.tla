------------------------------ MODULE ControlLoop ------------------------------
(***************************************************************************)
(* What a change-driven control loop promises: `built` is moved towards    *)
(* `asked` only by a loop that owes work, and the loop stops owing work    *)
(* only when the two agree.  Whoever moves `asked` leaves the loop owing.  *)
(***************************************************************************)
VARIABLES asked, built, owing

loopVars == <<asked, built, owing>>

LoopInit == owing = TRUE

Ask  == asked' # asked /\ built' = built /\ owing'

Work == owing /\ asked' = asked /\ owing'

Done == owing /\ asked' = asked /\ built' = built /\ ~owing' /\ built = asked

Wake == ~owing /\ owing' /\ asked' = asked

LoopNext == Ask \/ Work \/ Done \/ Wake

LoopSpec == LoopInit /\ [][LoopNext]_loopVars

=============================================================================
