----------------------------- MODULE SendspinServer -----------------------------
(***************************************************************************)
(* outputs/sendspin/{server,volume}.rs: one player and the servers that    *)
(* feed it one after the other.  A server dials the player and also accepts*)
(* its calls; a membership task decides when the player's stream starts;   *)
(* the volume registry, shared by all servers, knows the player by name.   *)
(*                                                                         *)
(* Connections are numbered in the order they come up.  What the relay     *)
(* thread sends goes to the connection in "group".                         *)
(***************************************************************************)
EXTENDS Naturals, Sequences

CONSTANTS
  Conns,       \* connections, 1..n
  Levels,      \* volumes
  Unset,       \* no connection, no volume wanted
  MaxServers,  \* bound on the servers started
  MaxMoves     \* bound on what the user and the announcements do

VARIABLES
  server, running, policy,   \* the server's number, whether it runs, its StreamPolicy
  how, srv, open, stage,     \* a connection: "dialed" or "accepted", by which server, the
                             \* player's end of it, what the server has done about it
  up, down,                  \* levels reported by the player, and sent to it
  restore,                   \* the level a connection was registered with
  spoke,                     \* history: it has sent its first client/state
  pending, waited, ready, group, mapped,  \* the maps of the running server
  arming,                    \* add_member() under way
  draining,                  \* finished_at
  playing,                   \* what the player was last told: a stream is on
  sender, desired,           \* SendspinControl
  level,                     \* the player's own level
  clip,                      \* an announcement is on or queued for the player
  moves,
  crossed                    \* history: two connections were known at the same time, or one
                             \* was given a stream that had been replaced

serverVars == <<server, running, policy>>
connVars == <<how, srv, open, stage, up, down, restore, spoke>>
memberVars == <<pending, waited, ready, group, mapped, arming, draining>>
controlVarsOfPlayer == <<sender, desired>>
sendspinVars == <<serverVars, connVars, memberVars, controlVarsOfPlayer, playing, level, clip,
                  moves, crossed>>

Known(c) == stage[c] \in {"registered", "joined"}
Mine(c) == running /\ srv[c] = server
Used == {c \in Conns : stage[c] # "none"}

NoMembers ==
  /\ pending' = Unset /\ waited' = FALSE /\ ready' = FALSE /\ group' = Unset /\ mapped' = FALSE
  /\ arming' = Unset /\ draining' = FALSE

SendspinInit ==
  /\ server = 0 /\ running = FALSE /\ policy = "always"
  /\ how = [c \in Conns |-> "dialed"] /\ srv = [c \in Conns |-> 0]
  /\ open = [c \in Conns |-> FALSE] /\ stage = [c \in Conns |-> "none"]
  /\ up = [c \in Conns |-> <<>>] /\ down = [c \in Conns |-> <<>>]
  /\ restore = [c \in Conns |-> Unset]
  /\ spoke = [c \in Conns |-> FALSE]
  /\ pending = Unset /\ waited = FALSE /\ ready = FALSE /\ group = Unset /\ mapped = FALSE
  /\ arming = Unset /\ draining = FALSE /\ playing = FALSE
  /\ sender = Unset /\ desired = Unset /\ level \in Levels /\ clip \in BOOLEAN
  /\ moves = 0 /\ crossed = FALSE

-----------------------------------------------------------------------------
(* The server as a whole. *)

StartServer(p) ==
  /\ ~running /\ server < MaxServers
  /\ running' = TRUE /\ server' = server + 1 /\ policy' = p
  /\ UNCHANGED <<connVars, memberVars, controlVarsOfPlayer, playing, level, clip, moves, crossed>>

Dialed(c) == Mine(c) /\ how[c] = "dialed"

\* shutdown(): stream/end, the dialed connections closed, the tasks aborted wherever they are:
\* the event task may or may not see the end of a connection before.  The task of an accepted
\* connection goes on.
Shutdown ==
  /\ running /\ running' = FALSE /\ NoMembers
  /\ playing' = (playing /\ group = Unset)
  /\ open' = [c \in Conns |-> open[c] /\ ~Dialed(c) /\ (Mine(c) => stage[c] = "joined")]
  /\ stage' = [c \in Conns |->
                IF Mine(c) /\ (Dialed(c) \/ stage[c] # "joined") /\ stage[c] # "none"
                THEN "left" ELSE stage[c]]
  /\ down' = [c \in Conns |-> IF stage'[c] = "left" THEN <<>> ELSE down[c]]
  /\ up' = [c \in Conns |-> IF stage'[c] = "left" THEN <<>> ELSE up[c]]
  /\ \/ UNCHANGED sender
     \/ mapped /\ (\E c \in Conns : Dialed(c) /\ stage[c] = "joined") /\ sender' = Unset
  /\ UNCHANGED <<server, policy, how, srv, restore, spoke, desired, level, clip, moves, crossed>>

\* stop_device(): stream/end, and the dialed connection is closed.
StopDevice ==
  /\ running /\ mapped /\ \E c \in Conns : Dialed(c) /\ open[c] /\ stage[c] = "joined"
  /\ moves < MaxMoves /\ moves' = moves + 1
  /\ group' = Unset /\ playing' = (playing /\ group = Unset)
  /\ open' = [c \in Conns |-> open[c] /\ ~Dialed(c)]
  /\ UNCHANGED <<serverVars, how, srv, stage, up, down, restore, spoke, pending, waited, ready, mapped,
                 arming, draining, controlVarsOfPlayer, level, clip, crossed>>

-----------------------------------------------------------------------------
(* Connections. *)

\* A player keeps one connection to a server, and a handshake outlasts what is under way for
\* the one before.  A server dials again when it knows the last one is gone; a player that has
\* hung up, unnoticed perhaps, may call.
Connect(c, h) ==
  /\ running /\ arming = Unset /\ stage[c] = "none" /\ \A d \in Conns : d < c => stage[d] # "none"
  /\ \A d \in Used : up[d] = <<>> \/ stage[d] = "left"
  /\ \A d \in Used : Mine(d) => ~open[d]
  /\ h = "dialed" => \A d \in Used : Dialed(d) => stage[d] = "left"
  /\ how' = [how EXCEPT ![c] = h] /\ srv' = [srv EXCEPT ![c] = server]
  /\ open' = [open EXCEPT ![c] = TRUE] /\ stage' = [stage EXCEPT ![c] = "new"]
  /\ UNCHANGED <<serverVars, up, down, restore, spoke, memberVars, controlVarsOfPlayer, playing, level,
                 clip, moves, crossed>>

Breaks(c) ==
  /\ open[c] /\ open' = [open EXCEPT ![c] = FALSE] /\ down' = [down EXCEPT ![c] = <<>>]
  /\ playing' = (playing /\ group # c)
  /\ UNCHANGED <<serverVars, how, srv, stage, up, restore, spoke, memberVars, controlVarsOfPlayer,
                 level, clip, moves, crossed>>

\* Connected, and accept(): the stored level is read, and pushed once the registry is unlocked.
Register(c) ==
  /\ Mine(c) /\ stage[c] = "new" /\ stage' = [stage EXCEPT ![c] = "registered"]
  /\ sender' = c /\ mapped' = (mapped \/ how[c] = "dialed")
  /\ restore' = [restore EXCEPT ![c] = desired]
  /\ crossed' = (crossed \/ \E d \in Conns \ {c} : Known(d))
  /\ UNCHANGED <<serverVars, how, srv, open, up, down, spoke, pending, waited, ready, group, arming,
                 draining, desired, playing, level, clip, moves>>

ReadyForgotten == FALSE

\* The end of Connected and of accept().
Join(c) ==
  /\ down' = IF restore[c] = Unset THEN down ELSE [down EXCEPT ![c] = IF open[c] THEN Append(@, restore[c]) ELSE @]
  /\ restore' = [restore EXCEPT ![c] = Unset]
  /\ Mine(c) /\ stage[c] = "registered" /\ stage' = [stage EXCEPT ![c] = "joined"]
  /\ ready' = ReadyForgotten /\ group' = Unset /\ pending' = c /\ waited' = FALSE /\ mapped' = TRUE
  /\ UNCHANGED <<serverVars, how, srv, open, up, spoke, arming, draining,
                 controlVarsOfPlayer, playing, level, clip, moves, crossed>>

\* Faulty: a level that is wanted is not corrected.
WantedKept(c) == IF desired = Unset THEN Head(up[c]) ELSE desired
Reported(c) == Head(up[c])

\* client/state, which carries the level.
Hear(c) ==
  /\ stage[c] = "joined" /\ up[c] # <<>> /\ (how[c] = "dialed" => Mine(c))
  /\ up' = [up EXCEPT ![c] = Tail(@)]
  /\ ready' = (ready \/ Mine(c))
  /\ desired' = IF how[c] = "dialed" /\ ~mapped THEN desired ELSE Reported(c)
  /\ UNCHANGED <<serverVars, how, srv, open, stage, down, restore, spoke, pending, waited, group, mapped,
                 arming, draining, sender, playing, level, clip, moves, crossed>>

Unregister(c) == sender' = IF how[c] = "accepted" \/ mapped THEN Unset ELSE sender

\* Disconnected, and the end of drain_messages_per_device(): by name, whoever is registered.
Leave(c) ==
  /\ ~open[c] /\ stage[c] = "joined" /\ (how[c] = "dialed" => Mine(c))
  /\ stage' = [stage EXCEPT ![c] = "left"] /\ up' = [up EXCEPT ![c] = <<>>] /\ Unregister(c)
  /\ IF Mine(c)
     THEN pending' = Unset /\ ready' = FALSE /\ mapped' = FALSE /\ group' = Unset
     ELSE UNCHANGED <<pending, ready, mapped, group>>
  /\ UNCHANGED <<serverVars, how, srv, open, down, restore, spoke, waited, arming, draining,
                 desired, playing, level, clip, moves, crossed>>

-----------------------------------------------------------------------------
(* spawn_membership_task(). *)

Wanted == policy = "always" \/ clip

GracePasses ==
  /\ running /\ pending # Unset /\ ~waited /\ waited' = TRUE
  /\ UNCHANGED <<serverVars, connVars, pending, ready, group, mapped, arming, draining,
                 controlVarsOfPlayer, playing, level, clip, moves, crossed>>

MayStream == ready \/ waited

ArmBegins ==
  /\ running /\ arming = Unset /\ pending # Unset /\ MayStream /\ Wanted /\ group = Unset
  /\ arming' = pending
  /\ UNCHANGED <<serverVars, connVars, pending, waited, ready, group, mapped, draining,
                 controlVarsOfPlayer, playing, level, clip, moves, crossed>>

\* stream/start is sent once more a moment later, which a player that got it ignores.
ArmEnds ==
  /\ arming # Unset /\ arming' = Unset
  /\ \/ /\ group' = arming /\ draining' = FALSE /\ playing' = open[arming]
        /\ crossed' = (crossed \/ arming # pending)
     \/ ~open[arming] /\ UNCHANGED <<group, draining, playing, crossed>>
  /\ UNCHANGED <<serverVars, connVars, pending, waited, ready, mapped, controlVarsOfPlayer, level,
                 clip, moves>>

Armed == running /\ policy = "announced" /\ group # Unset /\ pending # Unset

\* finished_at.
Demote ==
  /\ Armed
  /\ \/ Wanted /\ draining /\ draining' = FALSE /\ UNCHANGED <<group, playing>>
     \/ ~Wanted /\ ~draining /\ draining' = TRUE /\ UNCHANGED <<group, playing>>
     \/ ~Wanted /\ draining /\ draining' = FALSE /\ group' = Unset /\ playing' = FALSE
  /\ UNCHANGED <<serverVars, connVars, pending, waited, ready, mapped, arming,
                 controlVarsOfPlayer, level, clip, moves, crossed>>

-----------------------------------------------------------------------------
(* The player, the user, the announcements. *)

Speak(c) ==
  /\ open[c] /\ ~spoke[c] /\ spoke' = [spoke EXCEPT ![c] = TRUE]
  /\ up' = [up EXCEPT ![c] = Append(@, level)]
  /\ UNCHANGED <<serverVars, how, srv, open, stage, down, restore, memberVars, controlVarsOfPlayer,
                 playing, level, clip, moves, crossed>>

Reports(l) ==
  /\ level' = l
  /\ up' = [d \in Conns |-> IF open[d] /\ spoke[d] /\ l # level THEN Append(up[d], l) ELSE up[d]]

Obeys(c) ==
  /\ open[c] /\ down[c] # <<>> /\ down' = [down EXCEPT ![c] = Tail(@)] /\ Reports(Head(down[c]))
  /\ UNCHANGED <<serverVars, how, srv, open, stage, restore, spoke, memberVars, controlVarsOfPlayer,
                 playing, clip, moves, crossed>>

Move == moves < MaxMoves /\ moves' = moves + 1

KnobTurnsTo(l) ==
  /\ Move /\ l # level /\ Reports(l)
  /\ UNCHANGED <<serverVars, how, srv, open, stage, down, restore, spoke, memberVars, controlVarsOfPlayer,
                 playing, clip, crossed>>

\* set_volume().
SetVolumeOf(l) ==
  /\ Move /\ desired' = l
  /\ down' = IF sender = Unset THEN down
             ELSE [down EXCEPT ![sender] = IF open[sender] THEN Append(@, l) ELSE @]
  /\ UNCHANGED <<serverVars, how, srv, open, stage, up, restore, spoke, memberVars, sender, playing,
                 level, clip, crossed>>

ClipChanges ==
  /\ Move /\ clip' = ~clip
  /\ UNCHANGED <<serverVars, connVars, memberVars, controlVarsOfPlayer, playing, level, crossed>>

ServerStep ==
  \/ GracePasses \/ ArmBegins \/ ArmEnds \/ Demote
  \/ \E c \in Conns : Register(c) \/ Join(c) \/ Hear(c) \/ Leave(c)

SendspinNext ==
  \/ ServerStep \/ Shutdown \/ StopDevice \/ ClipChanges
  \/ \E p \in {"always", "announced"} : StartServer(p)
  \/ \E c \in Conns : Breaks(c) \/ Speak(c) \/ Obeys(c) \/ \E h \in {"dialed", "accepted"} : Connect(c, h)
  \/ \E l \in Levels : KnobTurnsTo(l) \/ SetVolumeOf(l)

SendspinFairness ==
  WF_sendspinVars(ServerStep) /\ WF_sendspinVars(\E c \in Conns : Obeys(c))

SendspinSpec == SendspinInit /\ [][SendspinNext]_sendspinVars /\ SendspinFairness

-----------------------------------------------------------------------------
(* Properties. *)

(* Unless two connections of the player were mistaken for each other, a player that   *)
(* stays connected ends up streaming exactly while it should, and the level the       *)
(* daemon holds for it is the one it has.                                             *)
Served(c) ==
  Mine(c) /\ open[c] /\ stage[c] = "joined" =>
    /\ playing = Wanted
    /\ spoke[c] => desired = level
PlayerServed == []~crossed => <>[](\A c \in Conns : Served(c))

=============================================================================
