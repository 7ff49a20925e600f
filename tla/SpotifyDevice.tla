----------------------------- MODULE SpotifyDevice -----------------------------
(***************************************************************************)
(* sources/spotify.rs, the device task of one Spotify source, and what it  *)
(* publishes: SpotifyStatus and the now-playing record                     *)
(* (sources/now_playing.rs).                                               *)
(*                                                                         *)
(* A login from the LAN is numbered: the number stands for its user and    *)
(* its credentials.  Connect sessions and the player are librespot's: a    *)
(* session says SessionConnected when an app activates it, its player's    *)
(* events follow in order on one channel, and a session that was active    *)
(* says SessionDisconnected when it ends.  A session that a newer login    *)
(* replaced ends on a task of its own.                                     *)
(***************************************************************************)
EXTENDS Naturals, Sequences

CONSTANTS MaxLogins, ReconnectLimit, MaxDrops, MaxEvents, MaxRefusals, MaxBoots

Nobody == 0
Logins == 1..MaxLogins
EventKinds  == {"connected", "track", "position", "stopped", "disconnected"}

VARIABLES
  stage,             \* "running" (run_once), "waiting" (RESTART_DELAY), "shut"
  pendingLogin, current,  \* credentials to dial, credentials of the session
  session, active,   \* the Connect session's login; whether an app activated it
  replaced,          \* active sessions of older logins still ending
  events,            \* the player's event channel
  drops,             \* reconnects in the window
  user, error,       \* SpotifyStatus
  nowPlaying,             \* the now-playing record: [of, titled, state]
  logins, dropped, emitted, refusals, boots

deviceVars == <<stage, pendingLogin, current, session, active, replaced, events, drops, user, error, nowPlaying,
                logins, dropped, emitted, refusals, boots>>
published  == <<user, error, nowPlaying>>
spirc      == <<session, active>>
bounds     == <<logins, dropped, emitted, refusals, boots>>

Event(kind, l) == [kind |-> kind, of |-> l]
NoRecord == [of |-> Nobody, titled |-> FALSE, state |-> "none"]

DeviceInit ==
  /\ stage = "running" /\ pendingLogin = Nobody /\ current = Nobody /\ session = Nobody /\ active = FALSE
  /\ replaced = {} /\ events = <<>> /\ drops = 0
  /\ user = Nobody /\ error = FALSE /\ nowPlaying = NoRecord
  /\ logins = 0 /\ dropped = 0 /\ emitted = 0 /\ refusals = 0 /\ boots = 0

-----------------------------------------------------------------------------
(* The device loop *)

\* end_session: the replaced session goes on ending by itself.
EndSession ==
  /\ session' = Nobody /\ active' = FALSE
  /\ replaced' = IF active THEN replaced \cup {session} ELSE replaced
  /\ user' = Nobody /\ error' = FALSE /\ nowPlaying' = NoRecord

Login ==
  /\ stage = "running" /\ logins < MaxLogins
  /\ logins' = logins + 1 /\ pendingLogin' = logins + 1 /\ drops' = 0
  /\ EndSession
  /\ UNCHANGED <<stage, current, events, dropped, emitted, refusals, boots>>

Dial ==
  /\ stage = "running" /\ pendingLogin # Nobody
  /\ pendingLogin' = Nobody
  /\ \/ session' = pendingLogin /\ current' = pendingLogin /\ error' = FALSE /\ UNCHANGED refusals
     \/ refusals < MaxRefusals /\ refusals' = refusals + 1
        /\ session' = session /\ current' = Nobody /\ error' = TRUE
  /\ UNCHANGED <<stage, active, replaced, events, drops, user, nowPlaying, logins, dropped, emitted, boots>>

GiveUp ==
  /\ pendingLogin' = Nobody /\ current' = Nobody /\ user' = Nobody /\ nowPlaying' = NoRecord
  /\ error' = TRUE /\ UNCHANGED drops

Redial ==
  /\ drops' = drops + 1 /\ pendingLogin' = current
  /\ UNCHANGED <<current, published>>

\* The session ended without being asked to.
Drop ==
  /\ stage = "running" /\ session # Nobody /\ dropped < MaxDrops
  /\ dropped' = dropped + 1
  /\ session' = Nobody /\ active' = FALSE
  /\ events' = IF active THEN Append(events, Event("disconnected", session)) ELSE events
  /\ IF current # Nobody /\ drops < ReconnectLimit THEN Redial ELSE GiveUp
  /\ UNCHANGED <<stage, replaced, logins, emitted, refusals, boots>>

\* RECONNECT_WINDOW passes over the oldest reconnect.
WindowPasses ==
  /\ drops > 0 /\ drops' = drops - 1
  /\ UNCHANGED <<stage, pendingLogin, current, spirc, replaced, events, published, bounds>>

\* NowPlayingReporter::update: a title of its own starts a new record.
Updated(of, state, titled) ==
  [of |-> IF titled THEN of ELSE IF nowPlaying = NoRecord THEN of ELSE nowPlaying.of,
   titled |-> titled \/ nowPlaying.titled,
   state |-> IF state # "kept" THEN state ELSE IF nowPlaying = NoRecord THEN "playing" ELSE nowPlaying.state]

\* Faulty: the goodbye leaves the now-playing record.
OnEventKeepsShown(e) ==
  /\ user' = CASE e.kind = "connected" -> e.of [] e.kind = "disconnected" -> Nobody [] OTHER -> user
  /\ nowPlaying' = CASE e.kind = "track"    -> Updated(e.of, "kept", TRUE)
                [] e.kind = "position" -> Updated(e.of, "playing", FALSE)
                [] OTHER -> nowPlaying

OnEvent(e) ==
  /\ user' = CASE e.kind = "connected" -> e.of [] e.kind = "disconnected" -> Nobody [] OTHER -> user
  /\ nowPlaying' = CASE e.kind = "track"        -> Updated(e.of, "kept", TRUE)
                [] e.kind = "position"     -> Updated(e.of, "playing", FALSE)
                [] e.kind = "stopped"      -> IF nowPlaying = NoRecord THEN nowPlaying ELSE [nowPlaying EXCEPT !.state = "stopped"]
                [] e.kind = "disconnected" -> NoRecord
                [] OTHER                   -> nowPlaying

Receive ==
  /\ stage = "running" /\ events # <<>>
  /\ events' = Tail(events)
  /\ OnEvent(Head(events))
  /\ UNCHANGED <<stage, pendingLogin, current, spirc, replaced, drops, error, bounds>>

\* Discovery or the player stopped, or a panic: the whole stack ends and,
\* after RESTART_DELAY, is built again.
Fails ==
  /\ stage = "running" /\ boots < MaxBoots
  /\ boots' = boots + 1
  /\ stage' = "waiting"
  /\ pendingLogin' = Nobody /\ current' = Nobody /\ session' = Nobody /\ active' = FALSE
  /\ events' = <<>> /\ drops' = 0 /\ replaced' = {}
  /\ user' = Nobody /\ nowPlaying' = NoRecord /\ error' \in BOOLEAN
  /\ UNCHANGED <<logins, dropped, emitted, refusals>>

ComesBack ==
  /\ stage = "waiting" /\ stage' = "running"
  /\ UNCHANGED <<pendingLogin, current, spirc, replaced, events, drops, published, bounds>>

Shutdown ==
  /\ stage # "shut" /\ stage' = "shut"
  /\ pendingLogin' = Nobody /\ current' = Nobody /\ session' = Nobody /\ active' = FALSE
  /\ events' = <<>> /\ replaced' = {} /\ nowPlaying' = NoRecord
  /\ UNCHANGED <<drops, user, error, bounds>>

-----------------------------------------------------------------------------
(* librespot *)

Activate ==
  /\ session # Nobody /\ ~active
  /\ active' = TRUE /\ events' = Append(events, Event("connected", session))
  /\ UNCHANGED <<stage, pendingLogin, current, session, replaced, drops, published, bounds>>

Play ==
  /\ active /\ emitted < MaxEvents
  /\ emitted' = emitted + 1
  /\ \E kind \in {"track", "position", "stopped"} : events' = Append(events, Event(kind, session))
  /\ UNCHANGED <<stage, pendingLogin, current, spirc, replaced, drops, published, logins, dropped, refusals, boots>>

SaysGoodbye(l) ==
  /\ l \in replaced /\ replaced' = replaced \ {l}
  /\ events' = Append(events, Event("disconnected", l))
  /\ UNCHANGED <<stage, pendingLogin, current, spirc, drops, published, bounds>>

DeviceNext ==
  \/ Login \/ Dial \/ Drop \/ WindowPasses \/ Receive \/ Fails \/ ComesBack \/ Shutdown
  \/ Activate \/ Play
  \/ \E l \in Logins : SaysGoodbye(l)

DeviceSpec == DeviceInit /\ [][DeviceNext]_deviceVars

-----------------------------------------------------------------------------
(* Properties *)

Still == stage = "running" /\ events = <<>> /\ replaced = {}
AtRest == Still /\ session = Nobody /\ pendingLogin = Nobody

\* Once the events are read, a device without a session and with none to dial
\* names no user and shows no track, whatever events of an ended session
\* came after the record was cleared; and after a login it says why.
IdleLeavesNothing ==
  AtRest => user = Nobody /\ nowPlaying = NoRecord /\ (logins > 0 /\ boots = 0 => error)

=============================================================================
