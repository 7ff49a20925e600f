------------------------------ MODULE DeviceSuite ------------------------------
(***************************************************************************)
(* Components at the edge of the system, daemon side and host side, whose  *)
(* properties are about what must happen in the end, each on a small *)
(* instance of its own.  A behaviour is of one of them, `subject`; the     *)
(* variables of the others keep their initial values.                      *)
(***************************************************************************)
EXTENDS Naturals

VARIABLES
  subject,
  \* Ap2Sender
  stage, target, todo, conns, dropped, ending, deferred, queue, missed, fast,
  registered, desired, userSet, muted, capped, session, level, chosen, newest, events,
  \* PwSinkLink
  port, ctrlReady, ctrlPeer, dataPeers, agent, welcome, inst, inv, to, record, net, happenings, lost,
  \* AgentLoop
  phase, addr, token, welcomed, backoff, answer, up, place, daemon, honours, machine, inhibitor,
  signals, sent, sleepQ, happened,
  \* PcmRing
  rReceiver, ring, rest, batch, waited, stalled, draining, armTarget, flush, routed, played, routes, flushes

ap2Vars  == <<stage, target, todo, conns, dropped, ending, deferred, queue, missed, fast,
              registered, desired, userSet, muted, capped, session, level, chosen, newest, events>>
linkVars == <<port, ctrlReady, ctrlPeer, dataPeers, agent, welcome, inst, inv, to, record, net, happenings, lost>>
agentVars == <<phase, addr, token, welcomed, backoff, answer, up, place, daemon, honours, machine, inhibitor,
               signals, sent, sleepQ, happened>>
ringVars == <<rReceiver, ring, rest, batch, waited, stalled, draining, armTarget, flush, routed, played, routes,
              flushes>>
vars == <<subject, ap2Vars, linkVars, agentVars, ringVars>>

\* Two receivers, two sender tasks, one thing that goes wrong.
Ap2 == INSTANCE Ap2Sender WITH
  Receivers <- {1, 2}, Levels <- {1}, NoLevel <- 0, Depth <- 1, MaxTasks <- 2, MaxEvents <- 1

\* Two control ports, five loads of the host's module, one datagram lost.
Link == INSTANCE PwSinkLink WITH
  Ports <- {1, 2}, Instances <- {1, 2, 3, 4, 5}, Nobody <- 0, MaxEvents <- 1, MaxLost <- 1, events <- happenings

\* Two addresses, three things that happen to daemon and machine.
Agent == INSTANCE AgentLoop WITH
  Places <- {"here", "there"}, Nowhere <- "nowhere", EventDepth <- 2, MaxBackoff <- 2, MaxEvents <- 3

\* A ring of three stereo frames, packets and quanta of two.
Ring == INSTANCE PcmRing WITH
  Receivers <- {"airplay", "spotify"}, Target <- 4, Headroom <- 2, Rearm <- 2, Packet <- 4, Quantum <- 4,
  Patience <- 1, MaxRoutes <- 2, MaxFlushes <- 1, receiver <- rReceiver

\* The constants are as the component assumes them.
ASSUME DeviceInstances == Ap2!Ap2SenderAssumption

Init ==
  /\ subject \in {"ap2", "link", "agent", "ring"}
  /\ Ap2!Ap2Init /\ Link!PwSinkLinkInit /\ Agent!AgentLoopInit /\ Ring!RingInit
  \* one initial state of each of the others
  /\ subject # "agent" => token /\ daemon /\ addr = "here" /\ place = "here"
  /\ subject # "ring" => rReceiver = "airplay" /\ routed

Of(s) ==
  /\ subject = s /\ UNCHANGED subject
  /\ s # "ap2"   => UNCHANGED ap2Vars
  /\ s # "link"  => UNCHANGED linkVars
  /\ s # "agent" => UNCHANGED agentVars
  /\ s # "ring"  => UNCHANGED ringVars

Next ==
  \/ Of("ap2") /\ Ap2!Ap2Next
  \/ Of("link") /\ Link!PwSinkLinkNext
  \/ Of("agent") /\ Agent!AgentLoopNext
  \/ Of("ring") /\ Ring!RingNext

\* Each component's own fairness, while it is the subject.
Fairness ==
  /\ \A g \in Ap2!Tasks : /\ WF_ap2Vars(Ap2!TaskStep(g))
                          /\ SF_ap2Vars(Ap2!Close(g)) /\ SF_ap2Vars(Ap2!Command(g))
  /\ WF_linkVars(subject = "link" /\ Link!Starts)
  /\ WF_linkVars(subject = "link" /\ Link!StatusPoll)
  /\ WF_linkVars(subject = "link" /\ Link!Resolves)
  /\ WF_linkVars(subject = "link" /\ Link!RecordRefreshed)
  /\ WF_linkVars(subject = "link" /\ Link!AgentConnects)
  /\ WF_linkVars(subject = "link" /\ Link!AgentHandlesWelcome)
  /\ WF_linkVars(subject = "link" /\ Link!Delivered)
  /\ WF_agentVars(subject = "agent" /\ Agent!ClientStep)
  /\ WF_agentVars(subject = "agent" /\ Agent!SleepTask)
  /\ WF_agentVars(subject = "agent" /\ Agent!Resume)
  /\ WF_ringVars(subject = "ring" /\ Ring!Write)
  /\ WF_ringVars(subject = "ring" /\ Ring!Process)

Spec == Init /\ [][Next]_vars /\ Fairness

-----------------------------------------------------------------------------
(* A sender task that was told to stop gives its receivers back (ap2/sender.rs). *)
TasksEnd == Ap2!TasksEnd

(* The host's receiver ends up attached to the running sender (pwsink/server.rs). *)
SessionComesUp == subject = "link" => Link!SessionComesUp

(* The agent reaches a daemon that stays up (client.rs). *)
FindsDaemon == subject = "agent" => Agent!FindsDaemon

(* A routed node goes on playing (pcm_producer.rs). *)
RoutedPlays == subject = "ring" => Ring!RoutedPlays

=============================================================================
