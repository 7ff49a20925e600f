----------------------------- MODULE DaemonSuite -----------------------------
(***************************************************************************)
(* Components whose properties are invariants and action properties, each  *)
(* on a small instance that the configuration gives. A behaviour is of one *)
(* of them, `subject`, and leaves the others where they start. They are    *)
(* not composed: each has variables of its own.                            *)
(***************************************************************************)
EXTENDS AgentRegistry, DuckSync, SettleLoop, Presence, HousePresets, SourceStack, AirplayClients,
        SpotifyDevice

VARIABLES
  subject,
  \* GraphLinks
  node, ports, wires, mNode, mPorts, mLinks, announced, wanted, commands, intent, kept, unsaved,
  changed, loop, todo, reply, on, nodes, requests, graphRestarts

graphVars == <<node, ports, wires, mNode, mPorts, mLinks, announced, wanted, commands, intent, kept,
               unsaved, changed, loop, todo, reply, on, nodes, requests, graphRestarts>>
suiteVars == <<subject, vars, syncVars, loopVars, presenceVars, houseVars, sourceVars, clientVars,
               deviceVars, graphVars>>

\* A source and an output that come and go: three nodes, two nodes and a request or a restart.
Graph == INSTANCE GraphLinks WITH
  Sources <- {"s"}, Outputs <- {"o"}, Ids <- {1, 2}, Channels <- {"FL"}, MaxNodes <- 3,
  MaxRequests <- 1, MaxRestarts <- 1, MaxEvents <- 3, links <- wires, saved <- kept,
  request <- reply, restarts <- graphRestarts

HomeOfSender(s) == IF s = "p" THEN "1" ELSE "2"

\* The constants are as the components assume them.
ASSUME DaemonInstances ==
  /\ RegistryConstants /\ DuckConstants /\ LoopConstants /\ PresenceConstants /\ HouseAssumption
  /\ StackConstants /\ ClientsConstants /\ Graph!GraphAssumption

\* Of the components that are not the subject, any one start: nothing reads it.
Unused ==
  /\ subject # "sources"  => stored = <<>>
  /\ subject # "house"    => slots = [p \in {Default} |-> <<>>]
  /\ subject # "presence" => kind = "ap2"
  /\ subject # "clients"  => prevent = TRUE
  /\ subject # "settle"   => arrived = {} /\ claimed = {}
  /\ subject # "graph"    => intent = {}

\* The file the daemon starts with has one source at most: a second one is a change.
SuiteInit ==
  /\ subject \in {"agents", "duck", "settle", "presence", "house", "sources", "clients", "spotify",
                 "graph"}
  /\ Unused
  /\ SourceInit /\ Cardinality(DOMAIN stored) <= 1
  /\ HouseInit /\ PresenceInit /\ ClientsInit /\ LoopInit
  /\ Init /\ SyncInit /\ DeviceInit /\ Graph!GraphInit

Of(s) ==
  /\ subject = s /\ UNCHANGED subject
  /\ s # "agents"   => UNCHANGED vars
  /\ s # "duck"     => UNCHANGED syncVars
  /\ s # "settle"   => UNCHANGED loopVars
  /\ s # "presence" => UNCHANGED presenceVars
  /\ s # "house"    => UNCHANGED houseVars
  /\ s # "sources"  => UNCHANGED sourceVars
  /\ s # "clients"  => UNCHANGED clientVars
  /\ s # "spotify"  => UNCHANGED deviceVars
  /\ s # "graph"    => UNCHANGED graphVars

SuiteNext ==
  \/ Of("agents") /\ Next
  \/ Of("duck") /\ SyncNext
  \/ Of("settle") /\ LoopNext
  \/ Of("presence") /\ PresenceNext
  \/ Of("house") /\ HouseNext
  \/ Of("sources") /\ SourceNext
  \/ Of("clients") /\ ClientsNext
  \/ Of("spotify") /\ DeviceNext
  \/ Of("graph") /\ Graph!GraphNext

SuiteSpec == SuiteInit /\ [][SuiteNext]_suiteVars

(* A routed pair whose nodes are there is linked (routing/mod.rs, pw/thread.rs). *)
SettledIsLinked == subject = "graph" => Graph!SettledIsLinked

=============================================================================
