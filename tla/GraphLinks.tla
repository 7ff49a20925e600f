------------------------------- MODULE GraphLinks -------------------------------
(***************************************************************************)
(* pw/thread.rs, the link half of routing/mod.rs and store/routing.rs: the *)
(* links of the PipeWire graph.  A request changes the stored intent and   *)
(* then the graph; a pass over a snapshot of the intent links what is      *)
(* there.  Both read a mirror of PipeWire's registry that the PipeWire     *)
(* thread keeps from announcements, and both change the graph by commands  *)
(* that thread turns into requests to the server.                          *)
(*                                                                         *)
(* The server is external: it announces what appears and goes in order,    *)
(* takes the links of a node away with it, refuses a link that exists, and *)
(* gives an id that has become free to the next node.                      *)
(***************************************************************************)
EXTENDS Integers, Sequences, FiniteSets, FiniteSetsExt, SequencesExt

CONSTANTS Sources, Outputs,   \* node names
          Ids,                \* registry ids
          Channels,
          MaxNodes,           \* nodes that appear in a behaviour
          MaxRequests, MaxRestarts,
          MaxEvents           \* nodes, requests and restarts in all

GraphAssumption ==
  /\ Ids \subseteq Nat /\ IsFiniteSet(Ids) /\ Sources \cap Outputs = {}
  /\ MaxNodes \in Nat /\ MaxRequests \in Nat /\ MaxRestarts \in Nat
  /\ MaxEvents \in Nat

Names == Sources \cup Outputs
Pairs == Sources \X Outputs
Nothing == "none"

VARIABLES
  node, ports, links,        \* the server: a name by id, the channels of an id, <<out, in, channel>>
  mNode, mPorts, mLinks,     \* RegistryState, the mirror
  announced, wanted,         \* announcements on their way to the thread, its requests to the server
  commands,                  \* the command channel: <<who waits, what, which links>>
  intent, saved,             \* RoutingStore: in memory and in its file
  changed,                   \* the change channel holds a message
  loop, todo,                \* the pass: "wait", "drain", "pass", "reply"; what is left of its snapshot
  request, on,               \* the API request: "none", "link", "unlink", "reply"; its pair
  unsaved,                   \* history: pairs whose last change was answered with an error
  nodes, requests, restarts  \* what has happened, against the bounds

server  == <<node, ports, links>>
mirror  == <<mNode, mPorts, mLinks>>
store   == <<intent, saved, unsaved>>
pass    == <<loop, todo>>
api     == <<request, on>>
counts  == <<nodes, requests, restarts>>
graphVars == <<server, mirror, announced, wanted, commands, store, changed, pass, api, counts>>

GraphInit ==
  /\ node = [i \in Ids |-> Nothing] /\ ports = [i \in Ids |-> {}] /\ links = {}
  /\ mNode = node /\ mPorts = ports /\ mLinks = {}
  /\ announced = <<>> /\ wanted = <<>> /\ commands = <<>>
  /\ intent \in SUBSET Pairs /\ saved = intent /\ unsaved = {} /\ changed = FALSE
  /\ loop = "pass" /\ todo = intent /\ request = Nothing /\ on = <<>>
  /\ nodes = 0 /\ requests = 0 /\ restarts = 0

Bounded == nodes + requests + restarts < MaxEvents

-----------------------------------------------------------------------------
(* The server *)

\* a node and its ports are announced one after the other
NodeAppears == \E i \in Ids, n \in Names :
  /\ Bounded /\ nodes < MaxNodes /\ node[i] = Nothing
  /\ node' = [node EXCEPT ![i] = n] /\ nodes' = nodes + 1
  /\ announced' = Append(announced, <<"node", i, n>>)
  /\ UNCHANGED <<ports, links, mirror, wanted, commands, store, changed, pass, api, requests, restarts>>

PortAppears == \E i \in Ids, c \in Channels :
  /\ node[i] # Nothing /\ c \notin ports[i]
  /\ ports' = [ports EXCEPT ![i] = @ \cup {c}]
  /\ announced' = Append(announced, <<"port", i, c>>)
  /\ UNCHANGED <<node, links, mirror, wanted, commands, store, changed, pass, api, counts>>

LinksOf(i) == {l \in links : i \in {l[1], l[2]}}

NodeGoes == \E i \in Ids :
  /\ node[i] # Nothing
  /\ node' = [node EXCEPT ![i] = Nothing] /\ ports' = [ports EXCEPT ![i] = {}]
  /\ links' = links \ LinksOf(i)
  /\ announced' = Append(announced, <<"gone", i, LinksOf(i)>>)
  /\ UNCHANGED <<mirror, wanted, commands, store, changed, pass, api, counts>>

Stands(l) == l[3] \in ports[l[1]] \cap ports[l[2]]

\* link-factory and destroy_global
ServerAnswers ==
  /\ wanted # <<>>
  /\ LET w == Head(wanted)
         made == IF w[1] = "create" THEN {l \in w[2] : Stands(l) /\ l \notin links} ELSE {}
         cut  == IF w[1] = "destroy" THEN w[2] \cap links ELSE {}
     IN  /\ links' = (links \cup made) \ cut
         /\ announced' = announced \o (IF made = {} THEN <<>> ELSE << <<"link", 0, made>> >>)
                                   \o (IF cut = {} THEN <<>> ELSE << <<"cut", 0, cut>> >>)
  /\ wanted' = Tail(wanted)
  /\ UNCHANGED <<node, ports, mirror, commands, store, changed, pass, api, counts>>

-----------------------------------------------------------------------------
(* The PipeWire thread *)

\* the listeners of run(): what is announced goes into the mirror, and every
\* change is passed on
Observed ==
  /\ announced # <<>>
  /\ LET a == Head(announced) IN
       /\ mNode' = IF a[1] = "node" THEN [mNode EXCEPT ![a[2]] = a[3]]
                   ELSE IF a[1] = "gone" THEN [mNode EXCEPT ![a[2]] = Nothing] ELSE mNode
       /\ mPorts' = IF a[1] = "port" THEN [mPorts EXCEPT ![a[2]] = @ \cup {a[3]}]
                    ELSE IF a[1] = "gone" THEN [mPorts EXCEPT ![a[2]] = {}] ELSE mPorts
       /\ mLinks' = IF a[1] = "link" THEN mLinks \cup a[3]
                    ELSE IF a[1] \in {"gone", "cut"} THEN mLinks \ a[3] ELSE mLinks
  /\ announced' = Tail(announced) /\ changed' = TRUE
  /\ UNCHANGED <<server, wanted, commands, store, pass, api, counts>>

\* create_links leaves out the ports the mirror shows linked; the reply only
\* says that the request has been made
Command ==
  /\ commands # <<>>
  /\ LET c == Head(commands)
         asked == IF c[2] = "create" THEN c[3] \ mLinks ELSE c[3]
     IN  /\ wanted' = IF asked = {} THEN wanted ELSE Append(wanted, <<c[2], asked>>)
         /\ loop' = IF c[1] = "pass" THEN "pass" ELSE loop
         /\ request' = IF c[1] = "api" THEN Nothing ELSE request
         /\ on' = IF c[1] = "api" THEN <<>> ELSE on
  /\ commands' = Tail(commands)
  /\ UNCHANGED <<server, mirror, announced, store, changed, todo, counts>>

-----------------------------------------------------------------------------
(* Names to links *)

IdsNamed(n) == {i \in Ids : mNode[i] = n}

\* node_id_for takes the largest id of the name; matched_port_specs pairs the
\* channels both have
Specs(p) ==
  IF IdsNamed(p[1]) = {} \/ IdsNamed(p[2]) = {} THEN {}
  ELSE LET s == Max(IdsNamed(p[1])) o == Max(IdsNamed(p[2]))
       IN  {<<s, o, c>> : c \in mPorts[s] \cap mPorts[o]}

LinkIds(p) ==
  IF IdsNamed(p[1]) = {} \/ IdsNamed(p[2]) = {} THEN {}
  ELSE LET s == Max(IdsNamed(p[1])) o == Max(IdsNamed(p[2]))
       IN  {l \in mLinks : l[1] = s /\ l[2] = o}

-----------------------------------------------------------------------------
(* The pass: routing::reconcile and the loop around it *)

PassLinks == \E p \in todo :
  /\ loop = "pass"
  /\ todo' = todo \ {p}
  /\ IF Specs(p) = {} THEN UNCHANGED <<commands, loop>>
     ELSE /\ commands' = Append(commands, <<"pass", "create", Specs(p)>>)
          /\ loop' = "reply"
  /\ UNCHANGED <<server, mirror, announced, wanted, store, changed, api, counts>>

\* Faulty: the loop listens anew after each pass
PassEndsAfresh ==
  /\ loop = "pass" /\ todo = {} /\ loop' = "wait" /\ changed' = FALSE
  /\ UNCHANGED <<server, mirror, announced, wanted, commands, store, todo, api, counts>>

PassEnds ==
  /\ loop = "pass" /\ todo = {} /\ loop' = "wait"
  /\ UNCHANGED <<server, mirror, announced, wanted, commands, store, changed, todo, api, counts>>

\* a change wakes the loop, and further ones keep it waiting for quiet
Drains ==
  /\ loop \in {"wait", "drain"} /\ changed
  /\ loop' = "drain" /\ changed' = FALSE
  /\ UNCHANGED <<server, mirror, announced, wanted, commands, store, todo, api, counts>>

Quiet ==
  /\ loop = "drain" /\ ~changed
  /\ loop' = "pass" /\ todo' = intent
  /\ UNCHANGED <<server, mirror, announced, wanted, commands, store, changed, api, counts>>

-----------------------------------------------------------------------------
(* The requests *)

\* the change is made in memory first: one that cannot be saved stays there,
\* and is answered with an error
Stored(p, after, then) ==
  /\ intent' = after
  /\ \/ /\ saved' = IF after = intent THEN saved ELSE after
        /\ unsaved' = unsaved \ {p} /\ changed' = TRUE /\ request' = then /\ on' = p
     \/ /\ after # intent /\ saved' = saved
        /\ unsaved' = unsaved \cup {p} /\ UNCHANGED <<changed, request, on>>

Accepts == Bounded /\ request = Nothing /\ requests < MaxRequests /\ requests' = requests + 1

Link(p) ==
  /\ Accepts /\ Stored(p, intent \cup {p}, "link")
  /\ UNCHANGED <<server, mirror, announced, wanted, commands, pass, nodes, restarts>>

Unlink(p) ==
  /\ Accepts /\ Stored(p, intent \ {p}, "unlink")
  /\ UNCHANGED <<server, mirror, announced, wanted, commands, pass, nodes, restarts>>

\* forget_entity touches neither the graph nor the change channel
Forget(n) ==
  LET after == {p \in intent : n \notin {p[1], p[2]}} IN
  /\ Accepts /\ intent' = after /\ saved' \in {saved, after}
  /\ (intent = after) => saved' = saved
  /\ unsaved' = unsaved \cup (intent \ after)
  /\ UNCHANGED <<server, mirror, announced, wanted, commands, changed, pass, api, nodes, restarts>>

\* the second half of link and unlink: look up, command, wait for the answer
Apply ==
  LET what == IF request = "link" THEN "create" ELSE "destroy"
      which == IF request = "link" THEN Specs(on) ELSE LinkIds(on)
  IN /\ request \in {"link", "unlink"}
     /\ IF which = {} THEN commands' = commands /\ request' = Nothing /\ on' = <<>>
        ELSE /\ commands' = Append(commands, <<"api", what, which>>)
             /\ request' = "reply" /\ on' = on
     /\ UNCHANGED <<server, mirror, announced, wanted, store, changed, pass, counts>>

\* the links linger; the mirror is filled again from what is there
Restart ==
  /\ Bounded /\ restarts < MaxRestarts /\ restarts' = restarts + 1
  /\ mNode' = [i \in Ids |-> Nothing] /\ mPorts' = [i \in Ids |-> {}] /\ mLinks' = {}
  /\ announced' = SetToSeq({<<"node", i, node[i]>> : i \in {j \in Ids : node[j] # Nothing}})
                  \o SetToSeq({<<"port", i, c>> : <<i, c>> \in {ic \in Ids \X Channels : ic[2] \in ports[ic[1]]}})
                  \o (IF links = {} THEN <<>> ELSE << <<"link", 0, links>> >>)
  /\ wanted' = <<>> /\ commands' = <<>> /\ intent' = saved /\ changed' = FALSE
  /\ loop' = "pass" /\ todo' = saved /\ request' = Nothing /\ on' = <<>>
  /\ unsaved' = {} /\ UNCHANGED saved
  /\ UNCHANGED <<server, nodes, requests>>

-----------------------------------------------------------------------------
GraphNext ==
  \/ NodeAppears \/ PortAppears \/ NodeGoes \/ ServerAnswers
  \/ Observed \/ Command
  \/ PassLinks \/ PassEnds \/ Drains \/ Quiet
  \/ \E p \in Pairs : Link(p) \/ Unlink(p)
  \/ \E n \in Names : Forget(n)
  \/ Apply \/ Restart

GraphSpec == GraphInit /\ [][GraphNext]_graphVars

-----------------------------------------------------------------------------
Named(n) == {i \in Ids : node[i] = n}

Complete(p) ==
  /\ Named(p[1]) # {} /\ Named(p[2]) # {}
  /\ \A i \in Named(p[1]) \cup Named(p[2]) : ports[i] = Channels

Linked(p) == /\ Complete(p)
             /\ \A c \in Channels : <<Max(Named(p[1])), Max(Named(p[2])), c>> \in links

Settled == /\ announced = <<>> /\ wanted = <<>> /\ commands = <<>> /\ request = Nothing
           /\ loop = "wait" /\ ~changed

(* Once the pass, the thread and the server have nothing left to do, every   *)
(* routed pair that has both its nodes is linked on every channel, between   *)
(* the nodes that have the names by now: whatever order nodes, ports,        *)
(* requests and restarts came in.  The pass runs on announcements alone, and *)
(* no timer would come back for a port or a node it did not see.  A change   *)
(* answered with an error is no promise.                                     *)
SettledIsLinked == Settled => \A p \in intent \ unsaved : Complete(p) => Linked(p)
=============================================================================
