------------------------------- MODULE ServeSuite -------------------------------
(***************************************************************************)
(* A player, a hold and a host's streams, whose properties are about what  *)
(* must happen in the end, each on a small instance of its own.  A         *)
(* behaviour is of one of them, `subject`; the variables of the others     *)
(* keep their initial values.  The constants of the alignment session are  *)
(* those of the configuration.                                             *)
(***************************************************************************)
EXTENDS AlignSession

VARIABLES
  subject,
  \* SendspinServer
  server, running, policy, how, srv, open, stage, up, down, restore, spoke, pending, waited, ready,
  group, mapped, arming, draining, playing, sender, desired, level, clip, moves, crossed,
  \* DuckHolds
  ducks, lastId, overlay, ended, clips, task, posted, told,
  \* HostAudio
  hSession, receiver, module, target, usb, pinPresent, reload, attached, linked, vol, seen, baseline,
  ramp, step, steps, touches

sendspinVars == <<server, running, policy, how, srv, open, stage, up, down, restore, spoke, pending, waited, ready,
                  group, mapped, arming, draining, playing, sender, desired, level, clip, moves, crossed>>
duckVars == <<ducks, lastId, overlay, ended, clips, task, posted, told>>
hostVars == <<hSession, receiver, module, target, usb, pinPresent, reload, attached, linked, vol, seen, baseline,
              ramp, step, steps, touches>>
suiteVars == <<subject, sendspinVars, vars, duckVars, hostVars>>

\* Two connections of a player, two levels, one move.
Sendspin == INSTANCE SendspinServer WITH
  Conns <- {1, 2}, Levels <- {1, 2}, Unset <- 0, MaxServers <- 1, MaxMoves <- 1

\* Two holds and a clip on one host.
Duck == INSTANCE DuckHolds WITH
  Outputs <- {"h1"}, Levels <- {0}, NoDuck <- 1, Callers <- {"c1"}, Poll <- "poll", Depth <- 1,
  Lease <- 1, MaxHolds <- 2, MaxClips <- 1, Reconnects <- FALSE

\* Two streams of other applications, three things that happen on the host.
Host == INSTANCE HostAudio WITH
  Streams <- {"s1", "s2"}, Full <- 1, Depths <- {0}, MaxSteps <- 2, Unset <- 9, MaxTouches <- 3,
  session <- hSession

\* The constants are as the components assume them.
ASSUME ServeInstances == SessionConstants /\ Duck!DuckConstants

SuiteInit ==
  /\ subject \in {"sendspin", "session", "duck", "host"}
  /\ Sendspin!SendspinInit /\ Init /\ Duck!DuckInit /\ Host!HostAudioInit
  \* one initial state of each of the others
  /\ subject # "sendspin" => level = 1 /\ ~clip
  /\ subject # "host" => usb

Of(s) ==
  /\ subject = s /\ UNCHANGED subject
  /\ s # "sendspin" => UNCHANGED sendspinVars
  /\ s # "session"  => UNCHANGED vars
  /\ s # "duck"     => UNCHANGED duckVars
  /\ s # "host"     => UNCHANGED hostVars

SuiteNext ==
  \/ Of("sendspin") /\ Sendspin!SendspinNext
  \/ Of("session") /\ Next
  \/ Of("duck") /\ Duck!DuckNext
  \/ Of("host") /\ Host!HostAudioNext

\* Each component's own fairness, while it is the subject.
SuiteFairness ==
  /\ WF_sendspinVars(subject = "sendspin" /\ Sendspin!ServerStep)
  /\ WF_sendspinVars(subject = "sendspin" /\ \E c \in {1, 2} : Sendspin!Obeys(c))
  /\ WF_vars(subject = "session" /\ StartStep)
  /\ \A h \in Holds : WF_vars(subject = "session" /\ TearStep(h))
  /\ WF_duckVars(subject = "duck" /\ Duck!ExpireDucks)
  /\ WF_duckVars(subject = "duck" /\ Duck!Sync("poll"))
  /\ WF_hostVars(subject = "host" /\ Host!RampTick)
  /\ WF_hostVars(subject = "host" /\ Host!ReloadReceiver)

SuiteSpec == SuiteInit /\ [][SuiteNext]_suiteVars /\ SuiteFairness

-----------------------------------------------------------------------------
(* A player that waits for its stream gets it (sendspin/server.rs). *)
PlayerServed == Sendspin!PlayerServed

(* A hold that is not renewed for ever ends (announce/mod.rs). *)
HoldsEnd == Duck!HoldsEnd

(* A host whose session is over turns up again what it keeps a level for (pw_thread.rs). *)
LevelsReturn == subject = "host" => Host!LevelsReturn

=============================================================================
