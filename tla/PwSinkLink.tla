------------------------------- MODULE PwSinkLink -------------------------------
(***************************************************************************)
(* outputs/pwsink/{applemidi,server,sender_liveness}.rs: the session       *)
(* between one group's sender and the receiver module of one host.  The    *)
(* receiver invites, once per resolve of the advert; all the daemon can do *)
(* is ask the host's agent to load the module again.                       *)
(*                                                                         *)
(* Datagrams may be lost and overtake each other.  The clock exchange (CK) *)
(* changes nothing and is left out.                                        *)
(***************************************************************************)
EXTENDS Naturals, FiniteSets, FiniteSetsExt

CONSTANTS
  Ports,       \* control ports the daemon allocates from
  Instances,   \* source addresses of the host's receiver: one per load of the module
  Nobody,      \* no port, no peer, no instance
  MaxEvents,   \* bound on what happens to sender, agent and host from outside
  MaxLost      \* bound on the datagrams lost

VARIABLES
  port,        \* the sender's control port, Nobody while none runs
  ctrlReady, ctrlPeer, dataPeers,   \* PeerState
  agent,       \* the agent's control connection is up
  welcome,     \* a welcome is queued for it
  inst, inv, to,  \* the module's instance, how far its invitation is, and to whom
  record,      \* the port the host's resolver knows for the session
  net, events, lost

senderVars == <<port, ctrlReady, ctrlPeer, dataPeers>>
hostVars   == <<inst, inv, to, record>>
linkVars   == <<senderVars, agent, welcome, hostVars, net, events, lost>>

\* refresh_status().
Established == ctrlReady /\ dataPeers # {}

ToSender(cmd, ch, i, p) == [dir |-> "up", cmd |-> cmd, ch |-> ch, inst |-> i, port |-> p]
ToHost(cmd, ch, i, p) == [dir |-> "down", cmd |-> cmd, ch |-> ch, inst |-> i, port |-> p]

PwSinkLinkInit ==
  /\ port = Nobody /\ ctrlReady = FALSE /\ ctrlPeer = Nobody /\ dataPeers = {}
  /\ agent = FALSE /\ welcome = FALSE
  /\ inst = Nobody /\ inv = "none" /\ to = Nobody /\ record = Nobody
  /\ net = {} /\ events = 0 /\ lost = 0

-----------------------------------------------------------------------------
(* The sender. *)

\* AppleMidiSender::drop(): the advert is withdrawn and every peer told.
Goodbyes ==
  {ToHost("BY", "ctrl", ctrlPeer, port) : i \in {ctrlPeer} \ {Nobody}}
    \cup {ToHost("BY", "data", i, port) : i \in dataPeers}

FreshPeers == ctrlReady' = FALSE /\ ctrlPeer' = Nobody /\ dataPeers' = {}

\* PwSinkServerHandle dropped.
StopSender ==
  /\ port # Nobody /\ events < MaxEvents /\ events' = events + 1
  /\ net' = net \cup Goodbyes /\ port' = Nobody /\ FreshPeers
  /\ UNCHANGED <<agent, welcome, hostVars, lost>>

\* server::start(): the socket is bound and advertised before the receiver is asked.
StartSender(p) ==
  /\ port = Nobody /\ port' = p /\ FreshPeers
  /\ welcome' = (welcome \/ agent)
  /\ UNCHANGED <<agent, hostVars, net, events, lost>>

\* reader_loop(), CMD_IN.
Invited(m) ==
  /\ m.cmd = "IN"
  /\ net' = (net \ {m}) \cup {ToHost("OK", m.ch, m.inst, port)}
  /\ IF m.ch = "ctrl" THEN ctrlReady' = TRUE /\ ctrlPeer' = m.inst /\ UNCHANGED dataPeers
     ELSE dataPeers' = dataPeers \cup {m.inst} /\ UNCHANGED <<ctrlReady, ctrlPeer>>

\* reader_loop(), CMD_BY: on the control channel whoever it comes from.
Left(m) ==
  /\ m.cmd = "BY" /\ net' = net \ {m}
  /\ IF m.ch = "ctrl"
     THEN /\ ctrlReady' = FALSE /\ ctrlPeer' = (IF ctrlPeer = m.inst THEN Nobody ELSE ctrlPeer)
          /\ UNCHANGED dataPeers
     ELSE dataPeers' = dataPeers \ {m.inst} /\ UNCHANGED <<ctrlReady, ctrlPeer>>

SenderReceives(m) ==
  /\ m \in net /\ m.dir = "up"
  /\ IF m.port = port THEN Invited(m) \/ Left(m)
     ELSE net' = net \ {m} /\ UNCHANGED <<ctrlReady, ctrlPeer, dataPeers>>
  /\ UNCHANGED <<port, agent, welcome, hostVars, events, lost>>

\* REBUILD_RETRY is long enough for what is under way to end first.
RetryDue == net = {} /\ ~welcome /\ (inv = "browse" => record = Nobody)

\* Faulty: the one ask of start() is all.
AskOnce == FALSE
AskAgain == ~Established /\ RetryDue /\ agent

\* The status task, each second; request_rebuild().
StatusPoll ==
  /\ port # Nobody /\ welcome' = (welcome \/ AskAgain)
  /\ UNCHANGED <<port, ctrlReady, ctrlPeer, dataPeers, agent, hostVars, net, events, lost>>

-----------------------------------------------------------------------------
(* The host's receiver module, which is not this program's. *)

Unloaded ==
  IF inv \in {"data", "up"} THEN {ToSender("BY", ch, inst, to) : ch \in {"ctrl", "data"}} ELSE {}

Fresh == {i \in Instances : i # inst /\ i # ctrlPeer /\ i \notin dataPeers /\ \A m \in net : m.inst # i}

LoadModule ==
  /\ Fresh # {} /\ inst' = Min(Fresh) /\ inv' = "browse" /\ to' = Nobody
  /\ net' = net \cup Unloaded

\* It takes longer than the goodbyes of the module before take to arrive, or to get lost.
Resolves ==
  /\ inv = "browse" /\ record # Nobody /\ \A m \in net : m.cmd # "BY" \/ m.dir = "down"
  /\ inv' = "ctrl" /\ to' = record /\ net' = net \cup {ToSender("IN", "ctrl", inst, record)}
  /\ UNCHANGED <<senderVars, agent, welcome, inst, record, events, lost>>

HostReceives(m) ==
  /\ m \in net /\ m.dir = "down"
  /\ IF m.inst # inst \/ m.port # to THEN net' = net \ {m} /\ UNCHANGED inv
     ELSE \/ /\ m.cmd = "OK" /\ m.ch = "ctrl" /\ inv = "ctrl" /\ inv' = "data"
             /\ net' = (net \ {m}) \cup {ToSender("IN", "data", inst, to)}
          \/ /\ m.cmd = "OK" /\ m.ch = "data" /\ inv = "data" /\ inv' = "up"
             /\ net' = net \ {m}
          \/ /\ m.cmd = "BY" /\ inv' = "none" /\ net' = net \ {m}
          \/ /\ m.cmd = "OK" /\ <<m.ch, inv>> \notin {<<"ctrl", "ctrl">>, <<"data", "data">>}
             /\ net' = net \ {m} /\ UNCHANGED inv
  /\ UNCHANGED <<senderVars, agent, welcome, inst, to, record, events, lost>>

\* A record outlives the advert it came from until the network says otherwise.
RecordRefreshed ==
  /\ agent /\ record # port /\ record' = port
  /\ UNCHANGED <<senderVars, agent, welcome, inst, inv, to, net, events, lost>>

-----------------------------------------------------------------------------
(* Agent, host and network. *)

\* hello, and the welcome it is answered with.
AgentConnects ==
  /\ ~agent /\ agent' = TRUE /\ welcome' = TRUE
  /\ UNCHANGED <<senderVars, hostVars, net, events, lost>>

AgentHandlesWelcome ==
  /\ welcome /\ welcome' = FALSE /\ LoadModule
  /\ UNCHANGED <<senderVars, agent, record, events, lost>>

Happens == events < MaxEvents /\ events' = events + 1

\* The user picks another sink, or the chosen one is back: the module is loaded again.
AgentReloads ==
  /\ Happens /\ inst # Nobody /\ LoadModule
  /\ UNCHANGED <<senderVars, agent, welcome, record, lost>>

\* Only the control connection: the module stays.
AgentDrops ==
  /\ Happens /\ agent /\ agent' = FALSE /\ welcome' = FALSE
  /\ UNCHANGED <<senderVars, hostVars, net, lost>>

\* Suspended, or gone without a word.
HostLeaves(polite) ==
  /\ Happens /\ inst # Nobody
  /\ agent' = FALSE /\ welcome' = FALSE
  /\ inst' = Nobody /\ inv' = "none" /\ to' = Nobody
  /\ net' = IF polite THEN net \cup Unloaded ELSE net
  /\ UNCHANGED <<senderVars, record, lost>>

Lose(m) ==
  /\ m \in net /\ lost < MaxLost /\ lost' = lost + 1 /\ net' = net \ {m}
  /\ UNCHANGED <<senderVars, agent, welcome, hostVars, events>>

Delivered == \E m \in net : SenderReceives(m) \/ HostReceives(m)
Starts == \E p \in Ports : StartSender(p)

PwSinkLinkNext ==
  \/ StopSender \/ Starts \/ StatusPoll \/ Resolves \/ RecordRefreshed
  \/ AgentConnects \/ AgentHandlesWelcome \/ AgentReloads \/ AgentDrops
  \/ Delivered
  \/ \E polite \in BOOLEAN : HostLeaves(polite)
  \/ \E m \in net : Lose(m)

PwSinkLinkFairness ==
  /\ WF_linkVars(Starts) /\ WF_linkVars(StatusPoll) /\ WF_linkVars(Resolves)
  /\ WF_linkVars(RecordRefreshed) /\ WF_linkVars(AgentConnects)
  /\ WF_linkVars(AgentHandlesWelcome) /\ WF_linkVars(Delivered)

PwSinkLinkSpec == PwSinkLinkInit /\ [][PwSinkLinkNext]_linkVars /\ PwSinkLinkFairness

-----------------------------------------------------------------------------
(* Properties. *)

(* Whatever was lost or overtaken, and however sender, agent and host came and went, *)
(* a sender does not stay without a receiver while its host is there.                *)
SessionComesUp == <>[](port # Nobody /\ Established)

(* sender_liveness.rs:40, "A receiver has completed the AppleMIDI handshake and is   *)
(* being streamed to": once nothing more happens, a session that counts as           *)
(* established is one its receiver knows of.                                         *)
Attached == inv = "up" /\ to = port /\ inst \in dataPeers
=============================================================================
