---------------------------- MODULE GroupReconciler ----------------------------
(***************************************************************************)
(* routing/sync_group: from the routing intent to running senders.  Every  *)
(* output routed from one set of sources belongs to one group; a pass      *)
(* takes a snapshot of the intent and of the devices known, and tears      *)
(* down, steers and creates senders until what runs is what the snapshot   *)
(* asks for.  A pass holds the groups lock, so API calls come between      *)
(* passes; the stores and the device maps change at any moment.            *)
(*                                                                         *)
(* A group is named by its source set.  Players are sendspin devices,      *)
(* receivers AirPlay 2 devices, hosts the receiver agents.                 *)
(***************************************************************************)
EXTENDS Naturals, FiniteSets, FiniteSetsExt

CONSTANTS
  Players, Receivers, Hosts,
  Mixes,         \* sets of sources an output may be linked to
  Addresses,     \* where a player or a receiver may be found
  Leads,         \* send-ahead a player may require
  Codecs,        \* wire codecs by rank, the least permissive first
  Rates,         \* AirPlay 2 wire rates
  Absent,        \* not in the registry
  Unresolved,    \* in the registry, no address to dial
  HoldSource,    \* ALIGN_HOLD_SOURCE
  Linger,        \* lease of an on-demand session, in seconds of its poll
  Selections,    \* outputs an alignment may hold
  Boots,         \* routing stores the daemon may come up with
  MaxChanges,    \* bound: changes of the environment in one behaviour
  MaxFailures    \* bound: senders and sinks that fail to start

\* A node's prefix says what it is (util/node_names.rs).
ASSUME KindsApart ==
  /\ Players \cap Receivers = {}
  /\ Players \cap Hosts = {}
  /\ Receivers \cap Hosts = {}

Dialed  == Receivers \cup Hosts
Outputs == Players \cup Dialed
Keys    == (Mixes \ {{}}) \cup {{HoldSource}}

VARIABLES
  \* what a pass reads
  routes,     \* routing store: output -> the sources linked to it
  adopted,    \* outputs the user has added
  found,      \* player or receiver -> address, Unresolved or Absent
  online,     \* receivers whose `present` flag is set
  agents,     \* hosts with an agent on the socket
  need,       \* player -> send-ahead it requires
  pick,       \* player -> codec the settings give it
  rate,       \* receiver -> rate the settings give it
  \* GroupReconciler
  running, idle, sessions, hold, retry, rearm,
  closing,    \* receivers with an AirPlay 2 session told to end that has not yet
  \* the pass
  phase,      \* what it does next
  want,       \* the snapshot
  todo,       \* groups, then idle players, still to be steered
  \* the reconcile task and its environment
  nudged,     \* a change is in the channel
  unheard,    \* a device was found elsewhere and nobody said so
  inFlight,   \* outputs with a session and a clip queued or playing
  leaving,    \* the process is shutting down
  changes, failures

storeVars == <<routes, adopted, found, online, agents, need, pick, rate>>
groupVars == <<running, idle, sessions, hold, retry, rearm>>
passVars  == <<phase, want, todo>>
boundVars == <<changes, failures>>
reconcilerVars ==
  <<storeVars, groupVars, closing, passVars, nudged, unheard, inFlight, leaving, boundVars>>

-----------------------------------------------------------------------------
\* effective_intent(): the adopted links, or the hold's own source for what it holds.
Feed(o) == IF o \in hold THEN {HoldSource}
           ELSE IF o \in adopted THEN routes[o] ELSE {}

Dialable(d) == found[d] \in Addresses

\* compute_desired(): who is in the group of these sources.
GroupMembers(k) ==
  {o \in Outputs : /\ Feed(o) = k
                   /\ o \in Players   => found[o] # Absent
                   /\ o \in Receivers => Dialable(o)
                   /\ o \in Hosts     => o \in agents}

\* The settings read for it: every member must decode the codec, be sent to early
\* enough and, for AirPlay 2, take the rate.
DesiredGroup(k) ==
  LET ps == GroupMembers(k) \cap Players
      rs == GroupMembers(k) \cap Receivers
  IN [players   |-> ps,
      dial      |-> {<<p, found[p]>> : p \in {q \in ps : Dialable(q)}},
      codec     |-> IF ps = {} THEN Min(Codecs) ELSE Min({pick[p] : p \in ps}),
      lead      |-> IF ps = {} THEN 0 ELSE Max({need[p] : p \in ps}),
      receivers |-> {<<r, found[r]>> : r \in rs},
      rate      |-> IF rs = {} THEN Max(Rates) ELSE Min({rate[r] : r \in rs}),
      hosts     |-> GroupMembers(k) \cap Hosts]

DesiredKeys == {k \in Keys : GroupMembers(k) # {}}

WantIdle ==
  {p \in Players \cap adopted : found[p] # Absent /\ Feed(p) = {}}

\* What the rest of the pass goes by, whatever changes meanwhile.
Snapshot ==
  [groups |-> [k \in DesiredKeys |-> DesiredGroup(k)],
   idle   |-> [p \in WantIdle |-> found[p]],
   gone   |-> {o \in Dialed : IF o \in Receivers THEN ~(o \in online /\ Dialable(o))
                                                 ELSE o \notin agents}]

NoPass == [groups |-> <<>>, idle |-> <<>>, gone |-> {}]

Names(pairs) == {x[1] : x \in pairs}
Without(f, S) == [x \in (DOMAIN f) \ S |-> f[x]]
Put(f, k, v)  == [x \in (DOMAIN f) \cup {k} |-> IF x = k THEN v ELSE f[x]]

FreshGroup ==
  [server |-> FALSE, players |-> {}, dial |-> {}, codec |-> Min(Codecs), lead |-> 0,
   force |-> {}, receivers |-> {}, rate |-> Max(Rates), hosts |-> {}]

GroupsUp == DOMAIN running

Fed(g) == Names(g.dial) \cup Names(g.receivers) \cup g.hosts

\* Who drives an output: the groups with it among their senders, or a sender of its own,
\* idle or on demand.  These are handles: a handle that is dropped is off at once, and for
\* AirPlay 2 only tells its task to end (see `closing`).
FedBy(o) == {k \in GroupsUp : o \in Fed(running[k])}
OnItsOwn == (DOMAIN idle) \cup DOMAIN sessions

-----------------------------------------------------------------------------
\* The daemon comes up with its stores loaded, the devices seen, nothing running.
ReconcilerInit ==
  /\ routes \in Boots /\ adopted = Outputs
  /\ found = [d \in Players \cup Receivers |-> CHOOSE a \in Addresses : TRUE]
  /\ online = Receivers /\ agents = Hosts
  /\ need = [p \in Players |-> Min(Leads)] /\ pick = [p \in Players |-> Max(Codecs)]
  /\ rate = [r \in Receivers |-> Max(Rates)]
  /\ running = <<>> /\ idle = <<>> /\ sessions = <<>> /\ hold = {} /\ closing = {}
  /\ retry = FALSE /\ rearm = FALSE
  /\ phase = "rest" /\ want = NoPass /\ todo = {}
  /\ nudged = TRUE /\ unheard = FALSE /\ inFlight = {} /\ leaving = FALSE
  /\ changes = 0 /\ failures = 0

-----------------------------------------------------------------------------
(* One pass. *)

\* The task wakes for a change, or because the last pass left work undone.
BeginPass ==
  /\ phase = "rest" /\ (nudged \/ retry)
  /\ want' = Snapshot /\ retry' = FALSE /\ nudged' = FALSE /\ unheard' = FALSE
  /\ phase' = "teardown"
  /\ UNCHANGED <<storeVars, running, idle, sessions, hold, rearm, todo,
                 inFlight, leaving, closing, boundVars>>

\* Its server is awaited; its AirPlay 2 senders are only told.
TearDownStale ==
  /\ phase = "teardown" /\ phase' = "drop idle"
  /\ running' = Without(running, GroupsUp \ DOMAIN want.groups)
  /\ closing' = closing \cup UNION {Names(running[k].receivers) : k \in GroupsUp \ DOMAIN want.groups}
  /\ UNCHANGED <<storeVars, idle, sessions, hold, retry, rearm, want, todo, nudged,
                 unheard, inFlight, leaving, boundVars>>

\* Faulty: an idle sender goes only when its player does.
DropIdleOfGone ==
  /\ phase = "drop idle" /\ phase' = "drop sessions"
  /\ idle' = Without(idle, {p \in DOMAIN idle : found[p] = Absent})
  /\ UNCHANGED <<storeVars, running, sessions, hold, retry, rearm, want, todo, nudged,
                 unheard, inFlight, leaving, closing, boundVars>>

\* Awaited: what a group dials next has no connection left.
DropIdle ==
  /\ phase = "drop idle" /\ phase' = "drop sessions"
  /\ idle' = Without(idle, (DOMAIN idle) \ DOMAIN want.idle)
  /\ UNCHANGED <<storeVars, running, sessions, hold, retry, rearm, want, todo, nudged,
                 unheard, inFlight, leaving, closing, boundVars>>

WantedBy(k) == Names(want.groups[k].receivers) \cup want.groups[k].hosts
TakenOver == UNION {WantedBy(k) : k \in DOMAIN want.groups}

\* Dropped, not awaited: an AirPlay 2 session ends when its task gets to it.
DropSessions ==
  /\ phase = "drop sessions" /\ phase' = "steer" /\ todo' = DOMAIN want.groups
  /\ sessions' = Without(sessions, TakenOver \cup want.gone)
  /\ closing' = closing \cup (Receivers \cap (DOMAIN sessions \ DOMAIN sessions'))
  /\ UNCHANGED <<storeVars, running, idle, hold, retry, rearm, want, nudged, unheard,
                 inFlight, leaving, boundVars>>

\* sendspin_server_action(), sendspin_config_changed(), sendspin_lead_rearm().
ConfigChanged(g, d) ==
  \/ rearm /\ d.lead # g.lead
  \/ d.codec # g.codec
  \/ d.lead > g.lead
ServerStarts(g, d) == d.players # {} /\ (~g.server \/ ConfigChanged(g, d))
ServerStops(g, d)  == d.players = {} /\ g.server

Stopped(g) == [g EXCEPT !.server = FALSE, !.players = {}, !.dial = {}, !.force = {}, !.lead = 0]

SteerServer(g, d, failed) ==
  LET up(h) == [h EXCEPT !.server = TRUE, !.players = d.players, !.dial = d.dial]
  IN IF ServerStarts(g, d)
     THEN IF "sendspin" \in failed THEN Stopped(g)
          ELSE [up(Stopped(g)) EXCEPT !.codec = d.codec, !.lead = d.lead]
     ELSE IF ServerStops(g, d) THEN Stopped(g)
     ELSE IF g.server THEN up(g) ELSE g

\* The member leaves the dialed set; the next pass finds it missing and dials it again.
Reconnecting(g, d) == g.force \cap Names(d.dial)
ReconnectForced(g, d) ==
  [g EXCEPT !.force = {}, !.dial = {x \in @ : x[1] \notin Reconnecting(g, d)}]

\* AirPlay 2 and pw-sink senders are fixed at start: another set means new ones, which
\* dial while the old ones, dropped just before, may still be ending.
SameSet(g, d) == Names(d.receivers) = Names(g.receivers) /\ d.rate = g.rate
ToldToEnd(g, d) == IF SameSet(g, d) THEN {} ELSE Names(g.receivers)
SteerReceivers(g, d, failed) ==
  IF SameSet(g, d) THEN g
  ELSE IF d.receivers = {} \/ "airplay" \in failed THEN [g EXCEPT !.receivers = {}]
  ELSE [g EXCEPT !.receivers = d.receivers, !.rate = d.rate]

SteerHosts(g, d, failed) ==
  IF d.hosts # g.hosts /\ "rtp" \in failed THEN [g EXCEPT !.hosts = {}]
  ELSE [g EXCEPT !.hosts = d.hosts]

\* What a pass may fail at in this group.
CanFail(g, d) ==
  (IF ServerStarts(g, d) THEN {"sendspin"} ELSE {})
    \cup (IF SteerReceivers(g, d, {}) # g /\ d.receivers # {} THEN {"airplay"} ELSE {})
    \cup (IF d.hosts # g.hosts /\ d.hosts # {} THEN {"rtp"} ELSE {})

Steered(g, d, failed) ==
  SteerHosts(SteerReceivers(ReconnectForced(SteerServer(g, d, failed), d), d, failed), d, failed)

Steer(k) ==
  LET d == want.groups[k]
      g == IF k \in GroupsUp THEN running[k] ELSE FreshGroup
  IN /\ phase = "steer" /\ k \in todo /\ todo' = todo \ {k}
     /\ \E failed \in SUBSET CanFail(g, d) :
          /\ failures + Cardinality(failed) <= MaxFailures
          /\ failures' = failures + Cardinality(failed)
          /\ running' = Put(running, k, Steered(g, d, failed))
          /\ closing' = closing \cup ToldToEnd(g, d)
          /\ retry' = (retry \/ failed # {}
                         \/ Reconnecting(SteerServer(g, d, failed), d) # {})
     /\ UNCHANGED <<storeVars, idle, sessions, hold, rearm, phase, want, nudged, unheard,
                    inFlight, leaving, changes>>

\* A new group's anchor sink does not appear in the graph.
AnchorFails(k) ==
  /\ phase = "steer" /\ k \in todo /\ todo' = todo \ {k}
  /\ k \notin GroupsUp /\ failures < MaxFailures
  /\ retry' = TRUE /\ failures' = failures + 1
  /\ UNCHANGED <<storeVars, running, idle, sessions, hold, rearm, phase, want, nudged,
                 unheard, inFlight, leaving, closing, changes>>

\* Every group has seen the re-arm.
SteeredAll ==
  /\ phase = "steer" /\ todo = {}
  /\ rearm' = FALSE /\ phase' = "idle" /\ todo' = (DOMAIN want.idle) \ DOMAIN idle
  /\ UNCHANGED <<storeVars, running, idle, sessions, hold, retry, want, nudged, unheard,
                 inFlight, leaving, closing, boundVars>>

StartIdle(p) ==
  /\ phase = "idle" /\ p \in todo /\ todo' = todo \ {p}
  /\ want.idle[p] \in Addresses
  /\ idle' = Put(idle, p, want.idle[p])
  /\ UNCHANGED <<storeVars, running, sessions, hold, retry, rearm, phase, want, nudged,
                 unheard, inFlight, leaving, closing, boundVars>>

\* Faulty: nothing wakes the task for an idle sender that failed.
IdleFailsForGood(p) ==
  /\ phase = "idle" /\ p \in todo /\ todo' = todo \ {p}
  /\ \/ want.idle[p] = Unresolved /\ UNCHANGED failures
     \/ failures < MaxFailures /\ failures' = failures + 1
  /\ UNCHANGED <<storeVars, running, idle, sessions, hold, retry, rearm, phase, want, nudged,
                 unheard, inFlight, leaving, closing, changes>>

IdleFails(p) ==
  /\ phase = "idle" /\ p \in todo /\ todo' = todo \ {p} /\ retry' = TRUE
  /\ \/ want.idle[p] = Unresolved /\ UNCHANGED failures
     \/ failures < MaxFailures /\ failures' = failures + 1
  /\ UNCHANGED <<storeVars, running, idle, sessions, hold, rearm, phase, want, nudged,
                 unheard, inFlight, leaving, closing, changes>>

\* Faulty: the pass drains the channel when it ends, not when it begins.
EndPassDraining ==
  /\ phase = "idle" /\ todo = {} /\ phase' = "rest" /\ want' = NoPass /\ nudged' = FALSE
  /\ UNCHANGED <<storeVars, groupVars, todo, unheard, inFlight, leaving, closing, boundVars>>

EndPass ==
  /\ phase = "idle" /\ todo = {} /\ phase' = "rest" /\ want' = NoPass
  /\ UNCHANGED <<storeVars, groupVars, todo, nudged, unheard, inFlight, leaving, closing, boundVars>>

Pass ==
  \/ BeginPass \/ TearDownStale \/ DropIdle \/ DropSessions \/ SteeredAll \/ EndPass
  \/ \E k \in Keys : Steer(k) \/ AnchorFails(k)
  \/ \E p \in Players : StartIdle(p) \/ IdleFails(p)

-----------------------------------------------------------------------------
(* What happens around the pass.  A change of the stores or of the devices comes *)
(* at any moment and sends one into the channel; what needs the groups lock      *)
(* comes between passes.                                                         *)

Change ==
  /\ changes < MaxChanges /\ changes' = changes + 1
  /\ UNCHANGED <<passVars, inFlight, leaving, closing, failures>>

Told == nudged' = TRUE /\ UNCHANGED unheard

Link(o, from) ==
  /\ Change /\ Told /\ routes' = [routes EXCEPT ![o] = from] /\ from # routes[o]
  /\ UNCHANGED <<adopted, found, online, agents, need, pick, rate, groupVars>>

Adopt(o) ==
  /\ Change /\ Told
  /\ adopted' = IF o \in adopted THEN adopted \ {o} ELSE adopted \cup {o}
  /\ UNCHANGED <<routes, found, online, agents, need, pick, rate, groupVars>>

\* The settings, what a player reports of itself, a receiver's learned limit.
Configure ==
  /\ Change /\ Told
  /\ \/ \E p \in Players, n \in Leads : n # need[p] /\ need' = [need EXCEPT ![p] = n]
          /\ UNCHANGED <<pick, rate>>
     \/ \E p \in Players, c \in Codecs : c # pick[p] /\ pick' = [pick EXCEPT ![p] = c]
          /\ UNCHANGED <<need, rate>>
     \/ \E r \in Receivers, x \in Rates : x # rate[r] /\ rate' = [rate EXCEPT ![r] = x]
          /\ UNCHANGED <<need, pick>>
  /\ UNCHANGED <<routes, adopted, found, online, agents, groupVars>>

\* mDNS resolves a device.  Only a new one, or one that was offline, is announced.
Resolved(d, a) ==
  /\ Change /\ a # found[d] /\ a \in Addresses \cup (IF found[d] = Absent THEN {Unresolved} ELSE {})
  /\ found' = [found EXCEPT ![d] = a]
  /\ online' = online \cup ({d} \cap Receivers)
  /\ \E cameOnline \in IF d \in Receivers THEN {d \notin online} ELSE BOOLEAN :
       IF found[d] = Absent \/ cameOnline THEN Told
       ELSE unheard' = TRUE /\ UNCHANGED nudged
  /\ UNCHANGED <<routes, adopted, agents, need, pick, rate, groupVars>>

\* Liveness: a receiver is demoted, and removed once it has long been offline.
Lost(d) ==
  /\ Change /\ Told /\ found[d] # Absent
  /\ \/ d \in online /\ online' = online \ {d} /\ UNCHANGED found
     \/ d \notin online /\ found' = [found EXCEPT ![d] = Absent] /\ UNCHANGED online
  /\ UNCHANGED <<routes, adopted, agents, need, pick, rate, groupVars>>

AgentComesOrGoes(h) ==
  /\ Change /\ Told
  /\ agents' = IF h \in agents THEN agents \ {h} ELSE agents \cup {h}
  /\ UNCHANGED <<routes, adopted, found, online, need, pick, rate, groupVars>>

ForceDeviceReconnect(p) ==
  /\ phase = "rest" /\ Change /\ Told
  /\ \E k \in GroupsUp : /\ p \in running[k].players
                         /\ running' = [running EXCEPT ![k].force = @ \cup {p}]
  /\ UNCHANGED <<storeVars, idle, sessions, hold, retry, rearm>>

\* api/sync.rs: the settings, then the re-arm, then the nudge.
RearmLead ==
  /\ phase = "rest" /\ Change /\ Told
  /\ \E n \in Leads : need' = [p \in Players |-> n]
  /\ rearm' = TRUE
  /\ UNCHANGED <<routes, adopted, found, online, agents, pick, rate,
                 running, idle, sessions, hold, retry>>

AlignHold(S) ==
  /\ phase = "rest" /\ Change /\ Told
  /\ hold' = S /\ S # hold
  /\ UNCHANGED <<storeVars, running, idle, sessions, retry, rearm>>

-----------------------------------------------------------------------------
(* On-demand sessions for outputs nothing is routed to. *)

\* open_ap2_announce_session(), open_pwsink_announce_session(): what they refuse.
CanOpenAp2(o)    == o \in online /\ Dialable(o)
CanOpenPwsink(o) == o \in agents
CanOpen(o) == IF o \in Receivers THEN CanOpenAp2(o) ELSE CanOpenPwsink(o)

\* has_live_sender(): only a sender that has connected counts.
EnsureAnnounceTransport(o) ==
  /\ phase = "rest" /\ Change
  /\ \/ o \in DOMAIN sessions
     \/ Feed(o) = {} /\ CanOpen(o)
  /\ sessions' = Put(sessions, o, Linger)
  /\ UNCHANGED <<storeVars, running, idle, hold, retry, rearm, nudged, unheard>>

ClipComesOrGoes(o) ==
  /\ o \in (DOMAIN sessions) \cup inFlight
  /\ inFlight' = IF o \in inFlight THEN inFlight \ {o} ELSE inFlight \cup {o}
  /\ UNCHANGED <<storeVars, groupVars, passVars, nudged, unheard, leaving, closing, boundVars>>

Second ==
  /\ \E o \in DOMAIN sessions : sessions[o] > 0
  /\ sessions' = [o \in DOMAIN sessions |-> Max({sessions[o], 1}) - 1]
  /\ UNCHANGED <<storeVars, running, idle, hold, retry, rearm, passVars, nudged, unheard,
                 inFlight, leaving, closing, boundVars>>

PollAnnounceSessions ==
  /\ phase = "rest" /\ DOMAIN sessions # {}
  /\ sessions' = [o \in {x \in DOMAIN sessions : x \in inFlight \/ sessions[x] > 0} |->
                    IF o \in inFlight THEN Linger ELSE sessions[o]]
  /\ closing' = closing \cup (Receivers \cap (DOMAIN sessions \ DOMAIN sessions'))
  /\ UNCHANGED <<storeVars, running, idle, hold, retry, rearm, passVars, nudged, unheard,
                 inFlight, leaving, boundVars>>

\* A sender task that was told to end has: TEARDOWN sent, or given up on (Ap2Sender).
Closed(r) ==
  /\ r \in closing /\ closing' = closing \ {r}
  /\ UNCHANGED <<storeVars, groupVars, passVars, nudged, unheard, inFlight, leaving, boundVars>>

ShutdownPwsink(g)   == [g EXCEPT !.hosts = {}]
ShutdownAp2(g)      == [g EXCEPT !.receivers = {}]
ShutdownSendspin(g) == Stopped(g)

\* All three under one lock; the reconcile task is not told.  The wait for the AirPlay 2
\* tasks is bounded, so one may outlast it.
Shutdown ==
  /\ phase = "rest" /\ ~leaving /\ leaving' = TRUE
  /\ running' = [k \in GroupsUp |-> ShutdownSendspin(ShutdownAp2(ShutdownPwsink(running[k])))]
  /\ idle' = <<>> /\ sessions' = <<>>
  /\ closing' = closing \cup (Receivers \cap DOMAIN sessions)
                       \cup UNION {Names(running[k].receivers) : k \in GroupsUp}
  /\ UNCHANGED <<storeVars, hold, retry, rearm, passVars, nudged, unheard, inFlight, boundVars>>

Around ==
  \/ \E o \in Outputs : Adopt(o) \/ \E from \in Mixes : Link(o, from)
  \/ Configure \/ RearmLead
  \/ \E d \in Players \cup Receivers : Lost(d) \/ \E a \in Addresses \cup {Unresolved} : Resolved(d, a)
  \/ \E h \in Hosts : AgentComesOrGoes(h)
  \/ \E p \in Players : ForceDeviceReconnect(p)
  \/ \E S \in Selections \cup {{}} : AlignHold(S)
  \/ \E o \in Dialed : EnsureAnnounceTransport(o) \/ ClipComesOrGoes(o)
  \/ Second \/ PollAnnounceSessions \/ Shutdown
  \/ \E r \in Receivers : Closed(r)

ReconcilerNext == Pass \/ Around

ReconcilerSpec ==
  ReconcilerInit /\ [][ReconcilerNext]_reconcilerVars /\ WF_reconcilerVars(Pass)

-----------------------------------------------------------------------------
(* Properties. *)

\* What the running senders are, and what the intent and the devices now ask for.
Built ==
  [groups |-> [k \in GroupsUp |-> [dial |-> running[k].dial, hosts |-> running[k].hosts,
                                   receivers |-> Names(running[k].receivers)]],
   idle   |-> DOMAIN idle]
Asked ==
  [groups |-> [k \in DesiredKeys |-> LET d == DesiredGroup(k)
                                     IN [dial |-> d.dial, hosts |-> d.hosts,
                                         receivers |-> Names(d.receivers)]],
   idle   |-> WantIdle]

\* The loop owes a pass, is in one, or could not know that it does.
Owing == nudged \/ retry \/ unheard \/ leaving \/ phase # "rest"

\* Within a pass the handle of an output's own sender, idle or on demand, is gone before
\* the group that takes the output has had its turn; and once every group has had it, no
\* output is under two handles.  A player's idle sender is awaited, so its connection is
\* gone too; a receiver's dropped session may still be `closing` while the group dials.
HandedOver ==
  /\ phase \in {"steer", "idle"} =>
       \A o \in OnItsOwn : FedBy(o) \cap (DOMAIN want.groups) \subseteq todo
  /\ phase = "idle" =>
       \A o \in Outputs : \A k, l \in FedBy(o) : k = l

\* The loop comes to rest: once nothing changes and nothing fails any more, what runs
\* is what the stores and the devices ask for, whatever failed on the way.
Settles == <>[](unheard \/ leaving \/ Built = Asked \/ \E p \in WantIdle : ~Dialable(p))

\* What plays follows what is asked for: see ControlLoop.
Follows == INSTANCE ControlLoop WITH asked <- Asked, built <- Built, owing <- Owing
FollowsIntent == Follows!LoopSpec

=============================================================================
